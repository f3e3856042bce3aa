---------------------------- MODULE MemoryCache ----------------------------
(***************************************************************************)
(* One shard of the in-memory cache: cache/memory_cache.cpp. The list is   *)
(* the shard's eviction order, most recently inserted first; the map of    *)
(* the code is its set of keys and the byte count is the sum over it.      *)
(* Every operation holds the shard's lock from end to end, so it is one    *)
(* step. The expired entry that get() finds is the one exception: it is    *)
(* judged under the shared lock and dropped under the exclusive one, after *)
(* a second look.                                                          *)
(***************************************************************************)
EXTENDS Naturals, SequencesExt

CONSTANTS
    CacheKeys,  \* keys of the shard
    Values,     \* cached values
    Weights,    \* what an entry may be charged: key, value and overhead
    Budget,     \* maxBytes over the number of shards
    Readers     \* threads inside get()

ASSUME MemoryCacheAssumption ==
    /\ Weights \subseteq Nat \ {0}
    /\ Budget \in Nat

VARIABLES
    list,       \* Seq of nodes, from Shard::head to Shard::tail
    latest,     \* history: the value last set under each key, if not deleted since
    expiredHit  \* [Readers -> key found expired under the shared lock, or none]

memoryVars == <<list, latest, expiredHit>>

NoKeyHit == "none"
Nothing == "nothing"

Node(k, v, b) == [key |-> k, value |-> v, bytes |-> b, accessed |-> FALSE, expired |-> FALSE]

Bytes(nodes) == SumFunction([i \in DOMAIN nodes |-> nodes[i].bytes])
HasKey(nodes, k) == \E i \in DOMAIN nodes : nodes[i].key = k
NodeAt(nodes, k) == CHOOSE i \in DOMAIN nodes : nodes[i].key = k

\* removeLocked: out of the list, the map and the byte count.
Without(nodes, k) == IF HasKey(nodes, k) THEN RemoveAt(nodes, NodeAt(nodes, k)) ELSE nodes

Cleared(nodes) == [i \in DOMAIN nodes |-> [nodes[i] EXCEPT !.accessed = FALSE]]

\* evictOneLocked: from the tail, an entry that was read since its last
\* reprieve loses its flag and moves to the front, at most once around; the
\* first entry without a flag goes.
evictOne(nodes) ==
    LET cold == {i \in DOMAIN nodes : ~nodes[i].accessed}
        victim == CHOOSE i \in cold : \A j \in cold : j <= i
    IN  IF cold = {} THEN Cleared(Front(nodes))
        ELSE Cleared(SubSeq(nodes, victim + 1, Len(nodes))) \o SubSeq(nodes, 1, victim - 1)

\* The loop around it, which stops as soon as the rest fits.
evictTo(nodes, budget) ==
    LET rest[n \in 0 .. Len(nodes)] ==
          IF n = 0 THEN nodes
          ELSE IF Bytes(rest[n - 1]) > budget THEN evictOne(rest[n - 1]) ELSE rest[n - 1]
    IN  rest[Len(nodes)]

\* purgeExpiredLocked: the expired entries go, one after the other.
purgeExpired(nodes) ==
    LET Expired(some) == {i \in DOMAIN some : some[i].expired}
        rest[n \in 0 .. Len(nodes)] ==
          IF n = 0 THEN nodes
          ELSE IF Expired(rest[n - 1]) = {} THEN rest[n - 1]
          ELSE RemoveAt(rest[n - 1], CHOOSE i \in Expired(rest[n - 1]) : TRUE)
    IN  rest[Len(nodes)]

MemoryInit ==
    /\ list = <<>>
    /\ latest = [k \in CacheKeys |-> Nothing]
    /\ expiredHit = [r \in Readers |-> NoKeyHit]

\* A hit sets the flag and leaves the order alone; an expired entry is
\* remembered until the exclusive lock is taken.
Get(r, k) ==
    /\ expiredHit[r] = NoKeyHit
    /\ HasKey(list, k)
    /\ LET i == NodeAt(list, k)
       IN  \/ /\ ~list[i].expired
              /\ list' = [list EXCEPT ![i].accessed = TRUE]
              /\ UNCHANGED expiredHit
           \/ /\ list[i].expired
              /\ expiredHit' = [expiredHit EXCEPT ![r] = k]
              /\ UNCHANGED list
    /\ UNCHANGED latest

\* By now the entry may have been replaced by one that has not expired.
DropExpired(r) ==
    /\ expiredHit[r] # NoKeyHit
    /\ LET k == expiredHit[r]
       IN  list' = IF HasKey(list, k) /\ list[NodeAt(list, k)].expired
                   THEN Without(list, k) ELSE list
    /\ expiredHit' = [expiredHit EXCEPT ![r] = NoKeyHit]
    /\ UNCHANGED latest

\* Mutant of Set: a value that does not fit leaves the older entry in place.
SetKeepsStale(k, v, b) ==
    /\ list' = IF b > Budget THEN list ELSE evictTo(<<Node(k, v, b)>> \o Without(list, k), Budget)
    /\ latest' = [latest EXCEPT ![k] = v]
    /\ UNCHANGED expiredHit

\* Mutant of Set: replacing an entry does not look at the budget again.
SetReplacesUnchecked(k, v, b) ==
    /\ list' = IF b > Budget THEN Without(list, k)
               ELSE IF HasKey(list, k) THEN <<Node(k, v, b)>> \o Without(list, k)
               ELSE evictTo(<<Node(k, v, b)>> \o list, Budget)
    /\ latest' = [latest EXCEPT ![k] = v]
    /\ UNCHANGED expiredHit

\* A value larger than the shard is refused and takes the entry it was to
\* replace with it; any other goes to the front and pushes out what is cold.
Set(k, v, b) ==
    /\ list' = IF b > Budget THEN Without(list, k)
               ELSE evictTo(<<Node(k, v, b)>> \o Without(list, k), Budget)
    /\ latest' = [latest EXCEPT ![k] = v]
    /\ UNCHANGED expiredHit

Del(k) ==
    /\ list' = Without(list, k)
    /\ latest' = [latest EXCEPT ![k] = Nothing]
    /\ UNCHANGED expiredHit

\* The periodic pass: what expired first, then what exceeds the budget given.
Evict(budget) ==
    /\ list' = evictTo(purgeExpired(list), budget)
    /\ UNCHANGED <<latest, expiredHit>>

Clear ==
    /\ list' = <<>>
    /\ UNCHANGED <<latest, expiredHit>>

\* The clock passes an entry's deadline.
Expire(k) ==
    /\ HasKey(list, k) /\ ~list[NodeAt(list, k)].expired
    /\ list' = [list EXCEPT ![NodeAt(list, k)].expired = TRUE]
    /\ UNCHANGED <<latest, expiredHit>>

MemoryNext ==
    \/ \E r \in Readers : DropExpired(r) \/ \E k \in CacheKeys : Get(r, k)
    \/ \E k \in CacheKeys :
         \/ Del(k) \/ Expire(k)
         \/ \E v \in Values, b \in Weights : Set(k, v, b)
    \/ Evict(Budget) \/ Clear

MemorySpec == MemoryInit /\ [][MemoryNext]_memoryVars

-----------------------------------------------------------------------------
(* Properties.                                                              *)

\* "The budget is enforced on insert": after every operation the shard holds
\* no more than its share, and no key twice.
ShardWithinBudget ==
    /\ Bytes(list) <= Budget
    /\ \A i, j \in DOMAIN list : list[i].key = list[j].key => i = j

\* An entry is either the value last set under its key or absent: replacing,
\* refusing, evicting and expiring never bring an older value back.
NoOlderValue == \A i \in DOMAIN list : list[i].value = latest[list[i].key]

=============================================================================
