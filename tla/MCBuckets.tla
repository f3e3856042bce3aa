----------------------------- MODULE MCBuckets -----------------------------
(***************************************************************************)
(* The charges of one bucket, the records and allocations of several, and  *)
(* the instance's upload limit. The three are refined views of the same    *)
(* process at different grain and share no variable, so a behaviour moves  *)
(* one of them, as in MCServices, and the others stay in one initial state.*)
(***************************************************************************)
EXTENDS QuotaLedger, Buckets, UploadLimit, TLC

\* In the charges of one bucket keys and workers are interchangeable.
Symmetry == Permutations(Keys) \cup Permutations(Workers)

VARIABLE part   \* which of them this behaviour is about

PartsInit ==
    /\ part \in {"charges", "records", "limit"}
    /\ Init /\ BucketsInit /\ LimitInit
    /\ part # "charges" => quota = 0
    /\ part # "records" => pool = {1} /\ \A b \in Buckets : ~Exists(b)
    /\ part # "limit" => ceiling = 1 /\ maxUpload = 1

PartsNext ==
    /\ UNCHANGED part
    /\ \/ part = "charges" /\ Next /\ UNCHANGED <<bucketVars, limitVars>>
       \/ part = "records" /\ BucketsNext /\ UNCHANGED <<vars, limitVars>>
       \/ part = "limit" /\ LimitNext /\ UNCHANGED <<vars, bucketVars>>

BucketsSpec == PartsInit /\ [][PartsNext]_<<vars, bucketVars, limitVars, part>>

=============================================================================
