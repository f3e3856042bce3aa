------------------------------ MODULE Buckets ------------------------------
(***************************************************************************)
(* Bucket records and the ledger's division of the instance among them:    *)
(* the bucket operations of storage/storage_engine.cpp over the store      *)
(* (storage/rocksdb_metadata_store.cpp) and the ledger (storage/quota.cpp),*)
(* as the S3 bucket handlers and the console's bucket routes call them,    *)
(* and what startup makes of the records.                                  *)
(*                                                                         *)
(* Every call of the store and of the ledger is atomic; an operation of    *)
(* the engine is several of them, on one thread of the I/O pool. How a     *)
(* write is admitted and settled in detail is in QuotaLedger: here a body  *)
(* is one byte, which is enough to keep a bucket from being deleted.       *)
(***************************************************************************)
EXTENDS Naturals, FiniteSets, Functions

CONSTANTS
    Buckets,
    Published,      \* those whose public access is ever changed
    Contended,      \* bound: those in play when there are several threads
    Allocations,    \* allocations a bucket may be given; 0 is unlimited
    allocatable,    \* allocatableBytes_; 0 is no limit
    MaxThreads,     \* bound: MONOBUCKET_IO_THREADS
    MaxCharge,      \* bound: bytes charged to a bucket
    NoBucket        \* the record of a name that has none

\* A policy that this build cannot read, which an earlier one may have stored.
Foreign == "foreign"
Policies == {"none", "open", Foreign}

\* What a record says of a bucket: its allocation, what is public, its policy.
BucketRecords == [quota : Nat, access : SUBSET {"read", "list"}, policy : Policies]

ASSUME BucketsAssumption ==
    /\ IsFiniteSet(Buckets) /\ NoBucket \notin BucketRecords
    /\ Published \subseteq Buckets /\ Contended \subseteq Buckets
    /\ Allocations \subseteq Nat /\ allocatable \in Nat
    /\ MaxThreads \in Nat \ {0} /\ MaxCharge \in Nat

VARIABLES
    record,     \* [Buckets -> BucketRecord or NoBucket]
    objects,    \* [Buckets -> 0 .. 1]: bytes of committed objects
    ledger,     \* [Buckets -> Entry]; an entry of zeros is as good as none
    pool,       \* the I/O threads of this process
    job,        \* [1 .. MaxThreads -> what the thread is doing]
    asked       \* history: the access last given to each bucket

bucketVars == <<record, objects, ledger, pool, job, asked>>
disk == <<record, objects>>

\* analyseBucketPolicy, as far as the record is concerned.
Granted(policy) == IF policy = "open" THEN {"read", "list"} ELSE {}

BucketRecord(q) == [quota |-> q, access |-> {}, policy |-> "none"]
Exists(b) == record[b] # NoBucket
NoEntry == [quota |-> 0, used |-> 0, reserved |-> 0]
less(from, amount) == IF from > amount THEN from - amount ELSE 0
charged(b) == ledger[b].used + ledger[b].reserved

Idle == [op |-> "none", at |-> "idle", b |-> "none", arg |-> 0, seen |-> NoBucket]
On(t, op, at) == job[t].op = op /\ job[t].at = at
Go(t, at) == job' = [job EXCEPT ![t].at = at]
End(t) == job' = [job EXCEPT ![t] = Idle]

\* A thread that is free takes a task from the queue.
Start(t, op, at, b, arg, seen) ==
    /\ t \in pool /\ job[t] = Idle
    /\ job' = [job EXCEPT ![t] = [op |-> op, at |-> at, b |-> b, arg |-> arg, seen |-> seen]]

\* allocatedLocked
Allocated(except) == SumFunctionOnSet([b \in Buckets |-> ledger[b].quota], Buckets \ except)

-----------------------------------------------------------------------------
(* Creating and deleting.                                                   *)

\* Mutant of AdmitAllocation: the figure is compared with the whole instance.
AdmitAlone(q) == allocatable = 0 \/ q <= allocatable

AdmitAllocation(q) == allocatable = 0 \/ q = 0 \/ Allocated({}) + q <= allocatable

\* createBucket: an early look at the ledger ...
Create(t, b, q) ==
    /\ AdmitAllocation(q)
    /\ Start(t, "create", "insert", b, q, NoBucket)
    /\ UNCHANGED <<disk, ledger, pool, asked>>

\* ... the record, unless there is one or the write fails ...
InsertRecord(t) ==
    /\ On(t, "create", "insert")
    /\ \/ /\ ~Exists(job[t].b)
          /\ record' = [record EXCEPT ![job[t].b] = BucketRecord(job[t].arg)]
          /\ asked' = [asked EXCEPT ![job[t].b] = {}]
          /\ Go(t, "track")
       \/ /\ End(t)
          /\ UNCHANGED <<record, asked>>
    /\ UNCHANGED <<objects, ledger, pool>>

\* ... and then the ledger, which takes what it is given.
Track(t) ==
    /\ On(t, "create", "track")
    /\ ledger' = [ledger EXCEPT ![job[t].b].quota = job[t].arg]
    /\ End(t)
    /\ UNCHANGED <<disk, pool, asked>>

\* The store refuses a bucket that holds anything, under the lock that object
\* writers share.
DeleteBucket(t, b) ==
    /\ Exists(b) /\ objects[b] = 0
    /\ record' = [record EXCEPT ![b] = NoBucket]
    /\ Start(t, "delete", "forget", b, 0, NoBucket)
    /\ UNCHANGED <<objects, ledger, pool, asked>>

\* Mutant of Forget: the tally stays.
ForgetUsageOnly(t) ==
    /\ On(t, "delete", "forget")
    /\ ledger' = [ledger EXCEPT ![job[t].b].used = 0]
    /\ End(t)
    /\ UNCHANGED <<disk, pool, asked>>

Forget(t) ==
    /\ On(t, "delete", "forget")
    /\ ledger' = [ledger EXCEPT ![job[t].b] = NoEntry]
    /\ End(t)
    /\ UNCHANGED <<disk, pool, asked>>

-----------------------------------------------------------------------------
(* Changing a record: it is read, changed in memory and written back whole. *)

\* setBucketPublicRead, setBucketPolicy, setBucketCors and
\* setBucketDurability. The last two change nothing that is told apart here,
\* but they write back the rest of what they read.
ReadRecord(t, op, b, arg) ==
    /\ Exists(b)
    /\ Start(t, op, IF op = "quota" THEN "ledger" ELSE "write", b, arg, record[b])
    /\ UNCHANGED <<disk, ledger, pool, asked>>

\* QuotaLedger::setQuota: not below what is charged, not beyond what is left.
QuotaFits(b, q) ==
    \/ q = 0
    \/ q >= charged(b) /\ (allocatable = 0 \/ Allocated({b}) + q <= allocatable)

SetLedgerQuota(t) ==
    /\ On(t, "quota", "ledger")
    /\ IF QuotaFits(job[t].b, job[t].arg)
       THEN ledger' = [ledger EXCEPT ![job[t].b].quota = job[t].arg] /\ Go(t, "write")
       ELSE End(t) /\ UNCHANGED ledger
    /\ UNCHANGED <<disk, pool, asked>>

\* The console's toggle publishes objects and never names; a policy brings its
\* own flags with it.
Changed(seen, op, arg) ==
    CASE op \in {"access", "acl"} -> [seen EXCEPT !.access = arg]
      [] op = "policy" -> [seen EXCEPT !.policy = arg, !.access = Granted(arg)]
      [] op = "quota" -> [seen EXCEPT !.quota = arg]
      [] OTHER -> seen

\* updateBucket: it wants a record to be there, and it may fail. The console's
\* access form may go on to the durability of the bucket.
UpdateBucket(t) ==
    /\ job[t].at = "write"
    /\ \/ /\ Exists(job[t].b)
          /\ record' = [record EXCEPT ![job[t].b] = Changed(job[t].seen, job[t].op, job[t].arg)]
          /\ asked' = IF job[t].op \in {"access", "acl", "policy"}
                      THEN [asked EXCEPT ![job[t].b] = record'[job[t].b].access] ELSE asked
          /\ End(t) \/ (job[t].op = "access" /\ Go(t, "durability"))
       \/ /\ IF job[t].op = "quota" THEN Go(t, "restore") ELSE End(t)
          /\ UNCHANGED <<record, asked>>
    /\ UNCHANGED <<objects, ledger, pool>>

\* setBucketDurability reads the record again.
ReadForDurability(t) ==
    /\ On(t, "access", "durability")
    /\ IF Exists(job[t].b)
       THEN job' = [job EXCEPT ![t].op = "durability", ![t].at = "write", ![t].arg = 0,
                               ![t].seen = record[job[t].b]]
       ELSE End(t)
    /\ UNCHANGED <<disk, ledger, pool, asked>>

\* "If the record then fails to write, the ledger is put back", by the same
\* call, which may refuse.
RestoreQuota(t) ==
    /\ On(t, "quota", "restore")
    /\ ledger' = IF QuotaFits(job[t].b, job[t].seen.quota)
                 THEN [ledger EXCEPT ![job[t].b].quota = job[t].seen.quota] ELSE ledger
    /\ End(t)
    /\ UNCHANGED <<disk, pool, asked>>

-----------------------------------------------------------------------------
(* Writes, as far as they hold on to a bucket.                              *)

ReserveByte(t, b) ==
    /\ ledger[b].quota = 0 \/ charged(b) + 1 <= ledger[b].quota
    /\ charged(b) < MaxCharge
    /\ Start(t, "put", "commit", b, 0, NoBucket)
    /\ ledger' = [ledger EXCEPT ![b].reserved = @ + 1]
    /\ UNCHANGED <<disk, pool, asked>>

\* Mutant of CommitByte: the bucket was looked up before and not again.
CommitByteUnchecked(t) ==
    /\ On(t, "put", "commit")
    /\ objects' = [objects EXCEPT ![job[t].b] = 1]
    /\ job' = [job EXCEPT ![t].at = "settle", ![t].arg = objects[job[t].b]]
    /\ UNCHANGED <<record, ledger, pool, asked>>

\* A commit into a bucket that is gone fails, and the claim is given back.
CommitByte(t) ==
    /\ On(t, "put", "commit")
    /\ IF Exists(job[t].b)
       THEN /\ objects' = [objects EXCEPT ![job[t].b] = 1]
            /\ job' = [job EXCEPT ![t].at = "settle", ![t].arg = objects[job[t].b]]
            /\ UNCHANGED ledger
       ELSE /\ ledger' = [ledger EXCEPT ![job[t].b].reserved = less(@, 1)]
            /\ End(t)
            /\ UNCHANGED objects
    /\ UNCHANGED <<record, pool, asked>>

\* The charge of what was written, less what it replaced.
Settle(t) ==
    /\ On(t, "put", "settle")
    /\ ledger' = [ledger EXCEPT ![job[t].b].reserved = less(@, 1),
                                ![job[t].b].used = less(@ + 1, job[t].arg)]
    /\ End(t)
    /\ UNCHANGED <<disk, pool, asked>>

RemoveObject(t, b) ==
    /\ objects[b] = 1
    /\ objects' = [objects EXCEPT ![b] = 0]
    /\ Start(t, "remove", "uncharge", b, 0, NoBucket)
    /\ UNCHANGED <<record, ledger, pool, asked>>

Uncharge(t) ==
    /\ On(t, "remove", "uncharge")
    /\ ledger' = [ledger EXCEPT ![job[t].b].used = less(@, 1)]
    /\ End(t)
    /\ UNCHANGED <<disk, pool, asked>>

-----------------------------------------------------------------------------
(* Startup.                                                                 *)

\* Mutant of reconcile: a document that is not understood leaves the flags.
reconcileKnown(r) == IF r.policy \in {"none", Foreign} THEN r ELSE [r EXCEPT !.access = Granted(r.policy)]

\* reconcileBucketPolicies: the flags of a bucket that has a policy are
\* derived from it again.
reconcile(r) == IF r.policy = "none" THEN r ELSE [r EXCEPT !.access = Granted(r.policy)]

\* seedQuotas: what the records allocate and the scan counted.
seed(b) ==
    IF Exists(b) THEN [quota |-> record[b].quota, used |-> objects[b], reserved |-> 0] ELSE NoEntry

\* The store starts empty, or with a bucket that an earlier build left public
\* under a policy that this one does not evaluate.
Inherited == [quota |-> 0, access |-> {"read"}, policy |-> Foreign]

BucketsInit ==
    /\ record \in {[b \in Buckets |-> NoBucket]} \cup
                  {[b \in Buckets |-> IF b = p THEN reconcile(Inherited) ELSE NoBucket]
                     : p \in Published}
    /\ objects = [b \in Buckets |-> 0]
    /\ ledger = [b \in Buckets |-> seed(b)]
    /\ pool \in {1 .. n : n \in 1 .. MaxThreads}
    /\ job = [t \in 1 .. MaxThreads |-> Idle]
    /\ asked = [b \in Buckets |-> {}]

\* The process dies at any point and is started again.
RestartBuckets ==
    /\ ledger' = [b \in Buckets |-> seed(b)]
    /\ record' = [b \in Buckets |-> IF Exists(b) THEN reconcile(record[b]) ELSE NoBucket]
    /\ job' = [t \in 1 .. MaxThreads |-> Idle]
    /\ UNCHANGED <<objects, pool, asked>>

-----------------------------------------------------------------------------
(* Who calls the engine: the S3 handlers, and the console's routes behind   *)
(* guardBucket.                                                             *)

\* CreateBucket has no field for an allocation: the bucket gets the default,
\* which is unlimited unless it is configured.
handleCreateBucket(t, b) == Create(t, b, 0)

\* The canned ACLs come down to published or not.
handlePutBucketAcl(t, b) ==
    b \in Published /\ \E a \in {{}, {"read"}} : ReadRecord(t, "acl", b, a)

\* A document that is not evaluated is refused (BucketPolicy); deleting it
\* takes the access it granted along.
handlePutBucketPolicy(t, b) == b \in Published /\ ReadRecord(t, "policy", b, "open")
handleDeleteBucketPolicy(t, b) == b \in Published /\ ReadRecord(t, "policy", b, "none")

\* The console insists on an allocation when it creates a bucket.
BucketsRoute(t, b) == DeleteBucket(t, b) \/ \E q \in Allocations \ {0} : Create(t, b, q)
AccessRoute(t, b) == b \in Published /\ \E a \in {{}, {"read"}} : ReadRecord(t, "access", b, a)
QuotaRoute(t, b) == \E q \in Allocations : ReadRecord(t, "quota", b, q)
CorsRoute(t, b) == ReadRecord(t, "cors", b, 0)

\* The policy route is a second door onto handlePutBucketPolicy and
\* handleDeleteBucketPolicy.
PolicyRoute(t, b) == handlePutBucketPolicy(t, b) \/ handleDeleteBucketPolicy(t, b)

BeginJob(t, b) ==
    \/ handleCreateBucket(t, b) \/ handlePutBucketAcl(t, b)
    \/ BucketsRoute(t, b) \/ AccessRoute(t, b) \/ QuotaRoute(t, b) \/ CorsRoute(t, b)
    \/ PolicyRoute(t, b)
    \/ ReserveByte(t, b) \/ RemoveObject(t, b)

ContinueJob(t) ==
    \/ InsertRecord(t) \/ Track(t) \/ Forget(t) \/ SetLedgerQuota(t) \/ UpdateBucket(t)
    \/ ReadForDurability(t) \/ RestoreQuota(t) \/ CommitByte(t) \/ Settle(t) \/ Uncharge(t)

InPlay == IF Cardinality(pool) = 1 THEN Buckets ELSE Contended

BucketsNext ==
    \/ \E t \in 1 .. MaxThreads : ContinueJob(t) \/ \E b \in InPlay : BeginJob(t, b)
    \/ RestartBuckets

BucketRecordsSpec == BucketsInit /\ [][BucketsNext]_bucketVars

-----------------------------------------------------------------------------
(* Properties.                                                              *)

Quiet == \A t \in pool : job[t] = Idle
Alone == Cardinality(pool) = 1

\* No object is ever in a bucket that does not exist, so that none is hidden
\* from every listing and comes back with a bucket of the same name: a PUT
\* that was admitted while a deletion went through does not land.
ObjectsHaveBucket == \A b \in Buckets : objects[b] > 0 => Exists(b)

\* "Checked before the record is written and again as the ledger takes the
\* allocation": the instance is never promised twice. With one I/O thread it
\* is so, across failed writes and restarts.
NotOverAllocated == allocatable = 0 \/ Allocated({}) <= allocatable
NotOverAllocatedAlone == Alone => NotOverAllocated

\* Between operations the ledger enforces what the records say, and holds
\* nothing for a bucket that is gone, whatever failed on the way: again with
\* one I/O thread.
LedgerFollowsRecords ==
    (Alone /\ Quiet) =>
        \A b \in Buckets : IF Exists(b) THEN ledger[b] = seed(b) ELSE ledger[b].quota = 0

\* A bucket is open for a reason: somebody gave it that access, or its policy
\* does, and a policy that is not understood never does.
AccessHasReason ==
    (Alone /\ Quiet) =>
        \A b \in Buckets : Exists(b) => record[b].access \in {asked[b], Granted(record[b].policy)}

\* No bucket is more open than it was last made, by the console's toggle or
\* by a policy: re-reading the policies at startup only ever narrows.
AccessNotWidened ==
    (Alone /\ Quiet) => \A b \in Buckets : Exists(b) => record[b].access \subseteq asked[b]

=============================================================================
