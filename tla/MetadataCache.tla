--------------------------- MODULE MetadataCache ---------------------------
(***************************************************************************)
(* One cached record on its way between the store and the S3 handlers:     *)
(* requireBucket, statObject and the invalidations of s3/handlers.cpp over *)
(* FallbackCache (cache/fallback_cache.cpp), which is a local tier in      *)
(* front of Redis (cache/redis_cache.cpp) behind a circuit breaker.        *)
(*                                                                         *)
(* The local tier is a slot that may lose its entry at any time, which is  *)
(* what MemoryCache amounts to for one key. Every call into a tier, the    *)
(* breaker and the store is one step of its thread.                        *)
(***************************************************************************)
EXTENDS Naturals, FiniteSets

CONSTANTS
    CacheWorkers,       \* I/O threads
    MaxVersion,         \* bound: changes of the record
    ListedVersions,     \* versions of a bucket record that grant public listing
    failureThreshold,   \* consecutive failures that open the breaker
    RedisPoolSize,      \* connections of the pool
    FiniteTtl           \* MONOBUCKET_CACHE_TTL_SECONDS is not zero

ASSUME MetadataCacheAssumption ==
    /\ MaxVersion \in Nat /\ failureThreshold \in Nat \ {0} /\ RedisPoolSize \in Nat \ {0}
    /\ ListedVersions \subseteq 1 .. MaxVersion
    /\ FiniteTtl \in BOOLEAN

VARIABLES
    version,        \* the version of the record in the store; 0 when there is none
    local,          \* the version cached in this process, 0 for none
    shared,         \* the version in Redis, 0 for none
    consecutive,    \* consecutiveFailures_, no further than the threshold
    cooling,        \* now < openUntil_
    probeInFlight,
    thread          \* [CacheWorkers -> [op, at, held]]

cacheVars == <<version, local, shared, consecutive, cooling, probeInFlight, thread>>
breaker == <<consecutive, cooling, probeInFlight>>

At(w) == thread[w].at
Resting == [op |-> "none", at |-> "idle", held |-> 0]
Enter(w, op, at, held) ==
    thread' = [thread EXCEPT ![w] = [op |-> op, at |-> at, held |-> held]]
Leave(w) == thread' = [thread EXCEPT ![w] = Resting]

\* What a handler decides with: the record the store gives, and the one that
\* requireBucket puts together from a cache entry.
BucketOf(v) == [createdAt |-> v > 0, publicList |-> v \in ListedVersions]
decodeCachedBucket(v) == [createdAt |-> v > 0, publicList |-> FALSE]

CacheInit ==
    /\ version = 1 /\ local = 0 /\ shared = 0
    /\ consecutive = 0 /\ cooling = FALSE /\ probeInFlight = FALSE
    /\ thread = [w \in CacheWorkers |-> Resting]

-----------------------------------------------------------------------------
(* The breaker.                                                             *)

Open == consecutive >= failureThreshold

\* allowShared, and what the thread does when the shared tier is bypassed.
AllowShared(w, bypassed) ==
    /\ At(w) = "ask"
    /\ IF Open /\ (cooling \/ probeInFlight)
       THEN bypassed /\ UNCHANGED breaker
       ELSE /\ Enter(w, thread[w].op, "acquire", thread[w].held)
            /\ probeInFlight' = Open
            /\ UNCHANGED <<consecutive, cooling>>
    /\ UNCHANGED <<version, local, shared>>

RecordSuccess == consecutive' = 0 /\ probeInFlight' = FALSE /\ UNCHANGED cooling

\* Mutant of RecordFailure: the flag of the probe stays up.
RecordFailureKeepsProbe ==
    /\ consecutive' = IF Open THEN consecutive ELSE consecutive + 1
    /\ cooling' = (cooling \/ consecutive' >= failureThreshold)
    /\ UNCHANGED probeInFlight

RecordFailure ==
    /\ consecutive' = IF Open THEN consecutive ELSE consecutive + 1
    /\ cooling' = (cooling \/ consecutive' >= failureThreshold)
    /\ probeInFlight' = FALSE

CooldownEnds ==
    /\ cooling
    /\ cooling' = FALSE
    /\ UNCHANGED <<version, local, shared, consecutive, probeInFlight, thread>>

-----------------------------------------------------------------------------
(* Lookups, fills and invalidations.                                        *)

\* Where a thread goes once its tiers are done: a lookup that missed reads the
\* store, a fill and an invalidation are over.
Onward(w) ==
    IF thread[w].op = "get" THEN Enter(w, "get", "store", 0) ELSE Leave(w)

\* FallbackCache::get begins with the local tier.
Lookup(w) ==
    /\ At(w) = "idle"
    /\ IF local # 0 THEN Leave(w) ELSE Enter(w, "get", "ask", 0)
    /\ UNCHANGED <<version, local, shared, breaker>>

\* The store answers a lookup that missed; there is no negative caching.
ReadStore(w) ==
    /\ At(w) = "store"
    /\ IF version = 0 THEN Leave(w) ELSE Enter(w, "set", "local", version)
    /\ UNCHANGED <<version, local, shared, breaker>>

\* A write, a change of a bucket or a deletion commits; the handler
\* invalidates afterwards and then answers.
Commit(w, v) ==
    /\ At(w) = "idle"
    /\ v \in {0, version + 1} /\ v <= MaxVersion /\ version # 0
    /\ version' = v
    /\ Enter(w, "del", "local", 0)
    /\ UNCHANGED <<local, shared, breaker>>

\* The local half of set and del, always first.
LocalStep(w) ==
    /\ At(w) = "local"
    /\ local' = thread[w].held
    /\ Enter(w, thread[w].op, "ask", thread[w].held)
    /\ UNCHANGED <<version, shared, breaker>>

AskBreaker(w) == AllowShared(w, Onward(w))

Leased == {w \in CacheWorkers : At(w) \in {"command", "copy"}}

\* RedisCache::acquire: a connection, or a wait that may run out.
Acquire(w) ==
    /\ At(w) = "acquire"
    /\ Cardinality(Leased) < RedisPoolSize
    /\ Enter(w, thread[w].op, "command", thread[w].held)
    /\ UNCHANGED <<version, local, shared, breaker>>

AcquireTimesOut(w) ==
    /\ At(w) = "acquire"
    /\ Cardinality(Leased) >= RedisPoolSize
    /\ RecordFailure
    /\ Onward(w)
    /\ UNCHANGED <<version, local, shared>>

\* Redis answers. A hit is copied into the local tier next.
CommandSucceeds(w) ==
    /\ At(w) = "command"
    /\ RecordSuccess
    /\ CASE thread[w].op = "get" /\ shared # 0 -> Enter(w, "get", "copy", shared) /\ UNCHANGED shared
         [] thread[w].op = "get" /\ shared = 0 -> Onward(w) /\ UNCHANGED shared
         [] thread[w].op # "get" -> Onward(w) /\ shared' = thread[w].held
    /\ UNCHANGED <<version, local>>

\* The transport fails or times out, before or after the server acted.
CommandFails(w) ==
    /\ At(w) = "command"
    /\ RecordFailure
    /\ shared' \in {shared} \cup (IF thread[w].op = "get" THEN {} ELSE {thread[w].held})
    /\ Onward(w)
    /\ UNCHANGED <<version, local>>

CopyToLocal(w) ==
    /\ At(w) = "copy"
    /\ local' = thread[w].held
    /\ Leave(w)
    /\ UNCHANGED <<version, shared, breaker>>

\* Eviction, expiry and the sweep of the local tier; a local copy of a shared
\* value always has a deadline.
LoseLocal ==
    /\ local # 0
    /\ local' = 0
    /\ UNCHANGED <<version, shared, breaker, thread>>

\* Mutant of ExpireShared: SET without an expiry.
ExpireSharedNever == FALSE /\ UNCHANGED cacheVars

ExpireShared ==
    /\ FiniteTtl /\ shared # 0
    /\ shared' = 0
    /\ UNCHANGED <<version, local, breaker, thread>>

Advance(w) ==
    \/ ReadStore(w) \/ LocalStep(w) \/ AskBreaker(w) \/ Acquire(w) \/ AcquireTimesOut(w)
    \/ CommandSucceeds(w) \/ CommandFails(w) \/ CopyToLocal(w)

CacheNext ==
    \/ \E w \in CacheWorkers : Lookup(w) \/ Advance(w) \/ \E v \in 0 .. MaxVersion : Commit(w, v)
    \/ CooldownEnds \/ LoseLocal \/ ExpireShared

CacheSpec == CacheInit /\ [][CacheNext]_cacheVars

\* Threads run, and deadlines pass.
CacheFairness ==
    /\ \A w \in CacheWorkers : WF_cacheVars(Advance(w))
    /\ WF_cacheVars(LoseLocal) /\ WF_cacheVars(ExpireShared) /\ WF_cacheVars(CooldownEnds)

-----------------------------------------------------------------------------
(* Properties.                                                              *)

\* The half-open breaker cannot get stuck: while the flag says that a probe
\* is out, some thread really is on its way to Redis and will take it down.
ProbeHasCarrier ==
    probeInFlight => \E w \in CacheWorkers : At(w) \in {"acquire", "command"}

\* "Bounded by its own TTL": a version that the store no longer has leaves
\* both tiers in the end, although a fill may have raced the invalidation and
\* the invalidation may have found Redis unreachable.
StaleEntryLeaves ==
    \A v \in 1 .. MaxVersion :
        (v # version /\ v \in {local, shared}) ~> (v = version \/ v \notin {local, shared})

\* "Answer ... differently depending on whether the entry was warm, which is
\* the one thing a cache must never do" (handlers.cpp): what requireBucket
\* makes of a cached version is what the store would have given it.
WarmAnswersAsCold ==
    \A v \in {local, shared} \ {0} : decodeCachedBucket(v) = BucketOf(v)

\* "A single instance is always read-after-write consistent with itself"
\* (handlers.hpp): once no change is being invalidated, the process holds no
\* version but the store's.
ReadAfterWrite ==
    (\A w \in CacheWorkers : thread[w].op # "del") => local \in {0, version}

=============================================================================
