----------------------------- MODULE MCConsole -----------------------------
(***************************************************************************)
(* Console over one bucket; a request may narrow an account to reading it. *)
(* With two requests on two threads every operation beside every other is  *)
(* out of reach, so a behaviour has one of three scopes: "alone", with one *)
(* job running at a time, as with one thread, from legacy stores too and   *)
(* with several administrators; "sessions", with two and without the       *)
(* operations on keys; and "keys", with two and with them. Accounts are    *)
(* narrowed in the second.                                                 *)
(***************************************************************************)
EXTENDS Console, TLC

MCGrants == {[fallback |-> "none", exceptions |-> "b1" :> "read"]}
MCBuckets == {"b1"}
RequestSymmetry == Permutations(Requests)

VARIABLE scope

Pending == {job[r] : r \in Requests} \ {None}

Wide(j) == j.buckets \in {None, Unrestricted}
NoSecondAdministrator(j) == j.role # "administrator"

Within ==
    CASE scope = "alone" -> Cardinality(Running) <= 1 /\ \A j \in Pending : Wide(j)
      [] scope = "sessions" ->
           \A j \in Pending : /\ NoSecondAdministrator(j)
                              /\ j.op \notin {"createKey", "revokeKey", "rotateKey"}
      [] scope = "keys" -> \A j \in Pending : NoSecondAdministrator(j) /\ Wide(j)
      [] scope = "any" -> TRUE

ScopeInit ==
    /\ scope \in {"alone", "sessions", "keys"}
    /\ Init
    /\ scope # "alone" => legacy = None

ScopeNext == Next /\ UNCHANGED scope /\ Within'

ConsoleSpec == ScopeInit /\ [][ScopeNext]_<<vars, scope>>

\* Everything at once, for what two jobs make of the last two administrators.
RacingInit == scope = "any" /\ Init

RacingSpec == RacingInit /\ [][ScopeNext]_<<vars, scope>>

=============================================================================
