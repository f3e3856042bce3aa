----------------------------- MODULE MCServices -----------------------------
(***************************************************************************)
(* The parts of the process that share no state with the storage engine:   *)
(* one shard of the memory cache, the cached record over its two tiers,    *)
(* the I/O pool, the audit ring and the dashboard's samples. They share no *)
(* state with each other either, so a behaviour moves one of them and      *)
(* leaves the rest at their initial states: the state space is the sum of  *)
(* the five and not their product.                                         *)
(***************************************************************************)
EXTENDS MemoryCache, MetadataCache, IoExecutor, AuditLog, MetricsHistory

VARIABLE part   \* which of them this behaviour is about

servicesVars == <<memoryVars, cacheVars, ioVars, auditVars, historyVars, part>>

Init ==
    /\ part \in {"shard", "tiers", "pool", "audit", "history"}
    /\ MemoryInit /\ CacheInit /\ IoInit /\ AuditInit /\ HistoryInit

Next ==
    /\ UNCHANGED part
    /\ \/ part = "shard" /\ MemoryNext /\ UNCHANGED <<cacheVars, ioVars, auditVars, historyVars>>
       \/ part = "tiers" /\ CacheNext /\ UNCHANGED <<memoryVars, ioVars, auditVars, historyVars>>
       \/ part = "pool" /\ IoNext /\ UNCHANGED <<memoryVars, cacheVars, auditVars, historyVars>>
       \/ part = "audit" /\ AuditNext /\ UNCHANGED <<memoryVars, cacheVars, ioVars, historyVars>>
       \/ part = "history" /\ HistoryNext /\ UNCHANGED <<memoryVars, cacheVars, ioVars, auditVars>>

\* Fairness of the pool: threads are scheduled, event loops go on, a
\* notification that is due is made, and the main thread goes through its
\* hooks. The pool's threads can move in the initial state, so each condition
\* is about behaviours of the pool only; those of the tiers cannot.
PoolFairness ==
    /\ \A w \in Workers : WF_ioVars(part = "pool" /\ Worker(w))
    /\ WF_ioVars(part = "pool" /\ \E l \in Logins : PostLogin(l))
    /\ WF_ioVars(part = "pool" /\ Notify)
    /\ WF_ioVars(part = "pool" /\ Shutdown)

Spec == Init /\ [][Next]_servicesVars /\ CacheFairness /\ PoolFairness

=============================================================================
