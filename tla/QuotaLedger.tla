---------------------------- MODULE QuotaLedger ----------------------------
(***************************************************************************)
(* The charges of one bucket against its allocation: quota.cpp, and the    *)
(* order in which StorageEngine::finishWrite, deleteObject and             *)
(* setBucketQuota call it around the metadata commits. Every ledger call   *)
(* is atomic under the ledger's mutex and every commit is atomic in        *)
(* RocksDB, but a write commits first and settles with the ledger second,  *)
(* an allocation changes in the ledger first and in the bucket's record    *)
(* second, and other requests run in between.                              *)
(*                                                                         *)
(* The module follows one bucket from its creation on. That it is created  *)
(* and deleted (QuotaLedger::track and forget), and that an allocation     *)
(* must also fit what the other buckets leave of the instance, is in       *)
(* Buckets; here the instance has no limit of its own (allocatableBytes_   *)
(* is 0). Multipart parts (Entry::pendingBytes) are left out.              *)
(***************************************************************************)
EXTENDS Integers, FiniteSets, Functions

CONSTANTS
    Keys,       \* object keys of the bucket
    Workers,    \* I/O pool threads
    Sizes,      \* sizes a body may have or declare, in bytes
    Quotas      \* allocations an administrator may set; 0 is unlimited

ASSUME LedgerAssumption ==
    /\ IsFiniteSet(Keys) /\ IsFiniteSet(Workers)
    /\ Sizes \subseteq Nat
    /\ Quotas \subseteq Nat
    /\ 0 \in Quotas

VARIABLES
    quota,      \* Entry::quotaBytes
    used,       \* Entry::usedBytes
    reserved,   \* Entry::reservedBytes
    stored,     \* [Keys -> Nat]: bytes of each committed object, 0 for none
    pc,         \* what each worker is about to do
    claim,      \* the bytes of its Reservation, 0 when it holds none
    size,       \* the size of the payload it is committing
    freed,      \* the bytes its commit released
    recorded,   \* BucketRecord::quotaBytes, as stored
    change,     \* [from, to]: the allocation it read and the one it will write
    reverted    \* history: the last start took an older allocation from the record

vars == <<quota, used, reserved, stored, pc, claim, size, freed, recorded, change, reverted>>
entry == <<quota, used, reserved>>
write == <<claim, size, freed>>
allocation == <<recorded, change, reverted>>

NoChange == [from |-> 0, to |-> 0]

\* Mutant of take: plain subtraction.
takeWraps(from, amount) == from - amount

\* Subtraction that cannot wrap.
take(from, amount) == IF from > amount THEN from - amount ELSE 0

chargedBytes == used + reserved

Admits(wanted) == quota = 0 \/ chargedBytes + wanted <= quota

StoredBytes == SumFunctionOnSet(stored, Keys)
ClaimedBytes == SumFunctionOnSet(claim, Workers)

\* The worker's write is over: it holds no claim and no sizes.
Done(w) ==
    /\ pc' = [pc EXCEPT ![w] = "idle"]
    /\ claim' = [claim EXCEPT ![w] = 0]
    /\ size' = [size EXCEPT ![w] = 0]
    /\ freed' = [freed EXCEPT ![w] = 0]

Init ==
    /\ quota \in Quotas
    /\ used = 0 /\ reserved = 0
    /\ stored = [k \in Keys |-> 0]
    /\ pc = [w \in Workers |-> "idle"]
    /\ claim = [w \in Workers |-> 0]
    /\ size = [w \in Workers |-> 0]
    /\ freed = [w \in Workers |-> 0]
    /\ recorded = quota
    /\ change = [w \in Workers |-> NoChange]
    /\ reverted = FALSE

-----------------------------------------------------------------------------

\* reserveSpace of the declared length, before the body is streamed. A refused
\* request changes nothing.
Reserve(w, declared) ==
    /\ pc[w] = "idle"
    /\ declared = 0 \/ Admits(declared)
    /\ reserved' = reserved + declared
    /\ claim' = [claim EXCEPT ![w] = declared]
    /\ pc' = [pc EXCEPT ![w] = "stream"]
    /\ UNCHANGED <<quota, used, stored, size, freed, allocation>>

\* Mutant of Extend: what arrived beyond the declared length is not admitted.
ExtendUnchecked(w, arrived) ==
    /\ pc[w] = "stream"
    /\ reserved' = reserved + take(arrived, claim[w])
    /\ claim' = [claim EXCEPT ![w] = @ + take(arrived, claim[w])]
    /\ size' = [size EXCEPT ![w] = arrived]
    /\ pc' = [pc EXCEPT ![w] = "commit"]
    /\ UNCHANGED <<quota, used, stored, freed, allocation>>

\* finishWrite raises the claim to the size that really arrived; a smaller
\* body keeps the claim it has.
Extend(w, arrived) ==
    /\ pc[w] = "stream"
    /\ arrived <= claim[w] \/ Admits(arrived - claim[w])
    /\ reserved' = reserved + take(arrived, claim[w])
    /\ claim' = [claim EXCEPT ![w] = @ + take(arrived, claim[w])]
    /\ size' = [size EXCEPT ![w] = arrived]
    /\ pc' = [pc EXCEPT ![w] = "commit"]
    /\ UNCHANGED <<quota, used, stored, freed, allocation>>

\* Mutant of Release: a claim dropped without being given back.
ReleaseForgets(w) ==
    /\ pc[w] \in {"stream", "commit"}
    /\ Done(w)
    /\ UNCHANGED <<entry, stored, allocation>>

\* The write fails before its commit (the body, the extension of the claim, or
\* NoSuchBucket): the Reservation's destructor gives the claim back.
Release(w) ==
    /\ pc[w] \in {"stream", "commit"}
    /\ reserved' = take(reserved, claim[w])
    /\ Done(w)
    /\ UNCHANGED <<quota, used, stored, allocation>>

\* Mutant of PutObject: the claim goes at the commit, not at the settlement.
PutObjectReleases(w, k) ==
    /\ pc[w] = "commit"
    /\ stored' = [stored EXCEPT ![k] = size[w]]
    /\ freed' = [freed EXCEPT ![w] = stored[k]]
    /\ reserved' = take(reserved, claim[w])
    /\ claim' = [claim EXCEPT ![w] = 0]
    /\ pc' = [pc EXCEPT ![w] = "recordObject"]
    /\ UNCHANGED <<quota, used, size, allocation>>

\* MetadataStore::putObject: the object is visible and the size of the one it
\* replaced is known.
PutObject(w, k) ==
    /\ pc[w] = "commit"
    /\ stored' = [stored EXCEPT ![k] = size[w]]
    /\ freed' = [freed EXCEPT ![w] = stored[k]]
    /\ pc' = [pc EXCEPT ![w] = "recordObject"]
    /\ UNCHANGED <<entry, claim, size, allocation>>

\* recordObject: the claim is consumed and the delta applied.
RecordObject(w) ==
    /\ pc[w] = "recordObject"
    /\ reserved' = take(reserved, claim[w])
    /\ used' = take(used + size[w], freed[w])
    /\ Done(w)
    /\ UNCHANGED <<quota, stored, allocation>>

\* MetadataStore::deleteObject of a non-empty object; an empty one releases
\* nothing and is not recorded.
DeleteObject(w, k) ==
    /\ pc[w] = "idle"
    /\ stored[k] > 0
    /\ stored' = [stored EXCEPT ![k] = 0]
    /\ freed' = [freed EXCEPT ![w] = stored[k]]
    /\ pc' = [pc EXCEPT ![w] = "recordDeletion"]
    /\ UNCHANGED <<entry, claim, size, allocation>>

RecordDeletion(w) ==
    /\ pc[w] = "recordDeletion"
    /\ used' = take(used, freed[w])
    /\ Done(w)
    /\ UNCHANGED <<quota, reserved, stored, allocation>>

\* The worker is free again after a change of the bucket's record.
ChangeOver(w) ==
    /\ pc' = [pc EXCEPT ![w] = "idle"]
    /\ change' = [change EXCEPT ![w] = NoChange]

\* setBucketQuota reads the record, for what it may have to put back ...
ReadAllocation(w, q) ==
    /\ pc[w] = "idle"
    /\ change' = [change EXCEPT ![w] = [from |-> recorded, to |-> q]]
    /\ pc' = [pc EXCEPT ![w] = "setQuota"]
    /\ UNCHANGED <<entry, stored, write, recorded, reverted>>

\* Mutant of Covers: reservations are not counted.
CoversUsed(q) == q = 0 \/ q >= used

\* QuotaLedger::setQuota refuses a reduction below everything charged.
Covers(q) == q = 0 \/ q >= chargedBytes

\* ... the ledger decides first ...
SetQuota(w) ==
    /\ pc[w] = "setQuota"
    /\ \/ /\ Covers(change[w].to)
          /\ quota' = change[w].to
          /\ reverted' = FALSE
          /\ pc' = [pc EXCEPT ![w] = "writeQuota"]
          /\ UNCHANGED change
       \/ /\ ~Covers(change[w].to)
          /\ ChangeOver(w)
          /\ UNCHANGED <<quota, reverted>>
    /\ UNCHANGED <<used, reserved, stored, write, recorded>>

\* ... the record is written, or the write fails ...
WriteQuota(w) ==
    /\ pc[w] = "writeQuota"
    /\ \/ /\ recorded' = change[w].to
          /\ ChangeOver(w)
       \/ /\ pc' = [pc EXCEPT ![w] = "undoQuota"]
          /\ UNCHANGED <<recorded, change>>
    /\ UNCHANGED <<entry, stored, write, reverted>>

\* ... and then the ledger is put back, by the call that may refuse.
UndoQuota(w) ==
    /\ pc[w] = "undoQuota"
    /\ quota' = IF Covers(change[w].from) THEN change[w].from ELSE quota
    /\ reverted' = (reverted /\ ~Covers(change[w].from))
    /\ ChangeOver(w)
    /\ UNCHANGED <<used, reserved, stored, write, recorded>>

\* setBucketPublicRead, setBucketPolicy, setBucketCors and setBucketDurability
\* read the record and write it back whole, the allocation they found with it,
\* unless the write fails.
ReadRest(w) ==
    /\ pc[w] = "idle"
    /\ change' = [change EXCEPT ![w] = [from |-> recorded, to |-> recorded]]
    /\ pc' = [pc EXCEPT ![w] = "writeRest"]
    /\ UNCHANGED <<entry, stored, write, recorded, reverted>>

WriteRest(w) ==
    /\ pc[w] = "writeRest"
    /\ recorded' \in {recorded, change[w].to}
    /\ ChangeOver(w)
    /\ UNCHANGED <<entry, stored, write, reverted>>

\* The process stops, and seedQuotas takes the allocation from the record and
\* derives the charges from the store.
Restart ==
    /\ quota' = recorded
    /\ reverted' = (reverted \/ recorded # quota)
    /\ used' = StoredBytes
    /\ reserved' = 0
    /\ pc' = [w \in Workers |-> "idle"]
    /\ claim' = [w \in Workers |-> 0]
    /\ size' = [w \in Workers |-> 0]
    /\ freed' = [w \in Workers |-> 0]
    /\ change' = [w \in Workers |-> NoChange]
    /\ UNCHANGED <<stored, recorded>>

Next ==
    \/ \E w \in Workers :
          \/ \E n \in Sizes : Reserve(w, n) \/ Extend(w, n)
          \/ Release(w)
          \/ \E k \in Keys : PutObject(w, k) \/ DeleteObject(w, k)
          \/ RecordObject(w) \/ RecordDeletion(w)
          \/ \E q \in Quotas : ReadAllocation(w, q)
          \/ SetQuota(w) \/ WriteQuota(w) \/ UndoQuota(w)
          \/ ReadRest(w) \/ WriteRest(w)
    \/ Restart

Spec == Init /\ [][Next]_vars

-----------------------------------------------------------------------------
(* Properties.                                                              *)

\* Every variable has its type.
TypeOK ==
    /\ quota \in Quotas
    /\ used \in Nat /\ reserved \in Nat
    /\ stored \in [Keys -> Nat]
    /\ pc \in [Workers -> {"idle", "stream", "commit", "recordObject", "recordDeletion",
                            "setQuota", "writeQuota", "undoQuota", "writeRest"}]
    /\ claim \in [Workers -> Nat]
    /\ size \in [Workers -> Nat]
    /\ freed \in [Workers -> Nat]
    /\ recorded \in Quotas
    /\ change \in [Workers -> [from : Quotas, to : Quotas]]
    /\ reverted \in BOOLEAN

\* A bucket with an allocation is charged no more than it, however admissions,
\* settlements, changes of the allocation, failed ones and refused rollbacks
\* interleave, as long as the process enforces the allocation that the last
\* one did: until a start finds another one in the record.
NeverOverAllocated == quota # 0 /\ ~reverted => chargedBytes <= quota

\* Whatever a start found: no write is admitted, and none grows or settles,
\* past the allocation then in force. A bucket that is over-full only shrinks.
ChargeWithinAllocation ==
    [][quota' # 0 /\ chargedBytes' > chargedBytes => chargedBytes' <= quota']_vars

\* "A bucket's allocation bounds how much it holds" (README.md): it does not
\* when the process stops between the ledger's change and the record's.
AllocationBounds == quota # 0 => chargedBytes <= quota

\* "If the record then fails to write, the ledger is put back" (setBucketQuota):
\* the allocation in force is again the one before.
FailedChangeUndone == [][\A w \in Workers : UndoQuota(w) => quota' = change[w].from]_vars

\* The charge covers what is on disk at every instant, so the admission test
\* limits the stored bytes and not only the ledger's idea of them.
StoredIsCharged == StoredBytes <= chargedBytes

\* Every claim is counted once and given back once: no refused, failed or
\* settled write leaves bytes reserved, and no settlement takes another's.
ReservedIsClaimed == reserved = ClaimedBytes

\* "So an overwrite cannot drift" (quota.hpp): with no request in flight the
\* ledger's figure is the one the store would count. It need not be, when two
\* commits to a key settle in the opposite order.
UsedIsStored == (\A w \in Workers : pc[w] = "idle") => used = StoredBytes

=============================================================================
