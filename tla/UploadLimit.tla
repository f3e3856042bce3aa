---------------------------- MODULE UploadLimit ----------------------------
(***************************************************************************)
(* The instance's maximum upload size: a setting that the console stores,  *)
(* the environment seeds and a ceiling bounds (storage_engine.cpp). The    *)
(* figure in force is an atomic that every upload reads.                   *)
(***************************************************************************)
EXTENDS Naturals, FiniteSets

CONSTANTS
    Limits,     \* figures an operator may type, 0 included
    Ceilings,   \* MONOBUCKET_MAX_UPLOAD_CEILING_BYTES of each start
    Setters     \* I/O threads

ASSUME UploadLimitAssumption == Limits \subseteq Nat /\ Ceilings \subseteq Nat \ {0}

VARIABLES
    setting,        \* InstanceSettings::maxUploadBytes; 0 when never stored
    maxUpload,      \* maxUploadBytes_
    ceiling,        \* the ceiling of this process
    setter          \* [Setters -> the figure it has stored and not published, or 0]

limitVars == <<setting, maxUpload, ceiling, setter>>

\* Mutant of seeded: the environment wins over the store.
seededByEnv(stored, env, top) == IF env > top THEN top ELSE env

\* seedUploadLimit: the stored figure if there is one, and never above the top.
seeded(stored, env, top) ==
    LET limit == IF stored # 0 THEN stored ELSE env
    IN  IF limit > top THEN top ELSE limit

LimitInit ==
    /\ ceiling \in Ceilings
    /\ \E env \in Limits \ {0} : maxUpload = seeded(0, env, ceiling)
    /\ setting = maxUpload
    /\ setter = [s \in Setters |-> 0]

\* setMaxUploadBytes: refused, or persisted ...
StoreLimit(s, bytes) ==
    /\ setter[s] = 0 /\ bytes # 0 /\ bytes <= ceiling
    /\ setting' = bytes
    /\ setter' = [setter EXCEPT ![s] = bytes]
    /\ UNCHANGED <<maxUpload, ceiling>>

\* ... and then published.
PublishLimit(s) ==
    /\ setter[s] # 0
    /\ maxUpload' = setter[s]
    /\ setter' = [setter EXCEPT ![s] = 0]
    /\ UNCHANGED <<setting, ceiling>>

\* Every start has its own environment. A figure that had to be clamped is
\* stored again.
RestartLimit ==
    /\ ceiling' \in Ceilings
    /\ \E env \in Limits \ {0} : maxUpload' = seeded(setting, env, ceiling')
    /\ setting' = maxUpload'
    /\ setter' = [s \in Setters |-> 0]

LimitNext ==
    \/ RestartLimit
    \/ \E s \in Setters : PublishLimit(s) \/ \E bytes \in Limits : StoreLimit(s, bytes)

LimitSpec == LimitInit /\ [][LimitNext]_limitVars

-----------------------------------------------------------------------------
(* Properties.                                                              *)

\* A restart keeps what an operator set, whatever the environment says, unless
\* the ceiling has come down below it.
RestartKeepsLimit ==
    [][ceiling' # ceiling \/ setting' # setting =>
         \/ \E s \in Setters : setter'[s] = setting'
         \/ setting <= ceiling' => setting' = setting]_limitVars

=============================================================================
