--------------------------- MODULE BucketsProofs ---------------------------
(***************************************************************************)
(* What the bucket records and the ledger promise, for any buckets,        *)
(* allocations and pool: no object outlives its bucket, and with one I/O   *)
(* thread the instance is never promised twice, the ledger follows the     *)
(* records and a bucket is only open for a reason.                         *)
(***************************************************************************)
EXTENDS Buckets, RecursionTheorems

Flags == {"read", "list"}
Threads == 1 .. MaxThreads
Entries == [quota : Nat, used : Nat, reserved : Nat]
Args == Nat \cup (SUBSET Flags) \cup Policies
Ops == {"none", "create", "delete", "access", "acl", "policy", "quota", "cors",
        "durability", "put", "remove"}
Steps == {"idle", "insert", "track", "forget", "ledger", "write", "restore", "durability",
          "commit", "settle", "uncharge"}
Jobs == [op : Ops, at : Steps, b : Buckets \cup {"none"}, arg : Args,
         seen : BucketRecords \cup {NoBucket}]

\* What a thread's job knows, besides the fields being of their types: what was
\* read is a record, the argument is of the operation's kind.
JobFits(j) ==
    /\ j # Idle => j.b \in Buckets /\ j.at # "idle"
    /\ j.at \in {"ledger", "write", "restore"} => j.seen \in BucketRecords
    /\ j.at = "write" => j.op \in {"access", "acl", "policy", "quota", "cors", "durability"}
    /\ j.op \in {"access", "acl"} => j.arg \in SUBSET Flags
    /\ j.op = "policy" => j.arg \in Policies
    /\ j.op \in {"create", "quota"} => j.arg \in Nat
    /\ j.op = "put" => j.arg \in 0 .. 1

RecordsTyped ==
    /\ record \in [Buckets -> BucketRecords \cup {NoBucket}]
    /\ objects \in [Buckets -> 0 .. 1]
    /\ ledger \in [Buckets -> Entries]
    /\ asked \in [Buckets -> SUBSET Flags]

JobsTyped ==
    /\ pool \in {1 .. n : n \in 1 .. MaxThreads}
    /\ job \in [Threads -> Jobs]
    /\ \A t \in Threads : JobFits(job[t]) /\ (t \notin pool => job[t] = Idle)

\* The invariant for any number of threads.
SharedInv == RecordsTyped /\ JobsTyped /\ ObjectsHaveBucket

-----------------------------------------------------------------------------
(* With one thread, every bucket but the one being worked on is settled.    *)

\* What the record r allocates, and whether q fits beside the other buckets.
Recorded(r) == IF r # NoBucket THEN r.quota ELSE 0
Room(others, q) == allocatable = 0 \/ others + q <= allocatable

\* The ledger's entry e, the record r and the n objects of a bucket while the job
\* j is at work on it; when j is Idle, e is what a restart would make of the store.
Own(j, e, r, n) ==
    /\ j.at = "track" => r # NoBucket /\ r.quota = j.arg /\ e.quota = 0
    /\ j.op = "delete" => r = NoBucket
    /\ j.at \in {"ledger", "write", "restore"} => j.seen = r
    /\ j.op = "quota" /\ j.at = "write" => e.quota = j.arg
    /\ \/ j.at = "track" \/ j.op = "delete"
       \/ j.op = "quota" /\ j.at \in {"write", "restore"}
       \/ e.quota = Recorded(r)
    /\ e.used = IF j.at = "settle" THEN j.arg ELSE IF j.at = "uncharge" THEN 1 ELSE n
    /\ e.reserved = IF j.op = "put" THEN 1 ELSE 0
    /\ j.at = "settle" => n = 1
    /\ j.at = "uncharge" => n = 0

JobAt(b) == IF job[1].b = b THEN job[1] ELSE Idle

\* Access is what was asked for or what the policy grants.
Reasoned(r, a) == r # NoBucket => r.access \in {a, Granted(r.policy)}

AloneInv ==
    /\ \A b \in Buckets :
          /\ Own(JobAt(b), ledger[b], record[b], objects[b])
          /\ Reasoned(record[b], asked[b])
    /\ NotOverAllocated
    /\ job[1] # Idle => Room(Allocated({job[1].b}), Recorded(record[job[1].b]))
    /\ job[1].op = "create" => Room(Allocated({job[1].b}), job[1].arg)

BucketsInv == SharedInv /\ (pool = {1} => AloneInv)

-----------------------------------------------------------------------------
(* Jobs: how they begin, go on and end.                                     *)

\* The job of a thread that has just taken a task.
NewJob(op, at, b, arg, seen) ==
    [op |-> op, at |-> at, b |-> b, arg |-> arg, seen |-> seen]

\* The same job, at its next step.
Later(j, at) == [j EXCEPT !.at = at]

\* Thread t's job becomes k, the other threads' stay.
Becomes(t, k) == job' = [job EXCEPT ![t] = k] /\ pool' = pool

\* A step on bucket b leaves the other buckets alone.
Frame(b) ==
    \A c \in Buckets : c # b =>
        /\ ledger'[c] = ledger[c] /\ record'[c] = record[c]
        /\ objects'[c] = objects[c] /\ asked'[c] = asked[c]

\* A new job has the type of one.
LEMMA NewJobTyped ==
    ASSUME NEW op \in Ops, NEW at \in Steps, NEW b \in Buckets \cup {"none"},
           NEW arg \in Args, NEW seen \in BucketRecords \cup {NoBucket}
    PROVE  NewJob(op, at, b, arg, seen) \in Jobs
BY DEF NewJob, Jobs

\* Idle is a job like any other, of no bucket.
LEMMA IdleJob == Idle \in Jobs /\ JobFits(Idle) /\ Idle.op = "none" /\ Idle.at = "idle"
<1>1. 0 \in Args
  BY DEF Args
<1>2. Idle \in Jobs
  <2>1. Idle = NewJob("none", "idle", "none", 0, NoBucket)
    BY DEF Idle, NewJob
  <2>2. "none" \in Ops /\ "idle" \in Steps
    BY DEF Ops, Steps
  <2> QED BY <1>1, <2>1, <2>2, NewJobTyped
<1> QED BY <1>2 DEF Idle, JobFits

\* A job at its next step differs in nothing else.
LEMMA LaterJob ==
    ASSUME NEW j \in Jobs, NEW at \in Steps
    PROVE  /\ Later(j, at) \in Jobs
           /\ Later(j, at).at = at /\ Later(j, at).op = j.op /\ Later(j, at).b = j.b
           /\ Later(j, at).arg = j.arg /\ Later(j, at).seen = j.seen
BY DEF Later, Jobs

\* A job at any step but "idle" is a thread's of the pool, and of a bucket.
LEMMA BusyJob ==
    ASSUME JobsTyped, NEW t \in Threads, job[t].at # "idle"
    PROVE  /\ t \in pool /\ job[t] \in Jobs /\ JobFits(job[t]) /\ job[t] # Idle
           /\ job[t].b \in Buckets
BY IdleJob DEF JobsTyped, JobFits

\* The types of the jobs after one of them changed.
LEMMA BecomesTyped ==
    ASSUME JobsTyped, NEW t \in Threads, NEW k, k \in Jobs, JobFits(k), t \in pool,
           Becomes(t, k)
    PROVE  JobsTyped'
BY DEF JobsTyped, Becomes

\* What beginning a job does.
LEMMA Starts ==
    ASSUME JobsTyped, NEW t \in Threads, NEW op \in Ops, NEW at \in Steps,
           NEW b \in Buckets, NEW arg \in Args, NEW seen \in BucketRecords \cup {NoBucket},
           JobFits(NewJob(op, at, b, arg, seen)), Start(t, op, at, b, arg, seen), pool' = pool
    PROVE  JobsTyped' /\ t \in pool /\ job[t] = Idle /\ Becomes(t, NewJob(op, at, b, arg, seen))
<1>1. NewJob(op, at, b, arg, seen) \in Jobs
  BY NewJobTyped
<1>2. t \in pool /\ job[t] = Idle /\ Becomes(t, NewJob(op, at, b, arg, seen))
  BY DEF Start, Becomes, NewJob
<1> QED BY <1>1, <1>2, BecomesTyped

\* What going on with a job does.
LEMMA GoesOn ==
    ASSUME JobsTyped, NEW t \in Threads, job[t].at # "idle", NEW at \in Steps, at # "idle",
           JobFits(Later(job[t], at)), Go(t, at), pool' = pool
    PROVE  JobsTyped' /\ Becomes(t, Later(job[t], at))
<1>1. t \in pool /\ job[t] \in Jobs
  BY BusyJob
<1>2. Later(job[t], at) \in Jobs
  BY <1>1, LaterJob
<1>3. Becomes(t, Later(job[t], at))
  BY DEF Go, Becomes, Later
<1> QED BY <1>1, <1>2, <1>3, BecomesTyped

\* What ending a job does.
LEMMA Ends ==
    ASSUME JobsTyped, NEW t \in Threads, t \in pool, End(t), pool' = pool
    PROVE  JobsTyped' /\ Becomes(t, Idle)
<1>1. Becomes(t, Idle)
  BY DEF End, Becomes
<1> QED BY <1>1, IdleJob, BecomesTyped

\* A ledger entry whose quota, whose use or whose reservation is replaced.
LEMMA EntryQuota ==
    ASSUME NEW e \in Entries, NEW n \in Nat
    PROVE  /\ [e EXCEPT !.quota = n] \in Entries
           /\ [e EXCEPT !.quota = n].quota = n /\ [e EXCEPT !.quota = n].used = e.used
           /\ [e EXCEPT !.quota = n].reserved = e.reserved
BY DEF Entries

\* Replacing the used bytes of a ledger entry leaves its other fields.
LEMMA EntryUsed ==
    ASSUME NEW e \in Entries, NEW n \in Nat
    PROVE  /\ [e EXCEPT !.used = n] \in Entries
           /\ [e EXCEPT !.used = n].used = n /\ [e EXCEPT !.used = n].quota = e.quota
           /\ [e EXCEPT !.used = n].reserved = e.reserved
BY DEF Entries

\* Replacing the reserved bytes of a ledger entry leaves its other fields.
LEMMA EntryReserved ==
    ASSUME NEW e \in Entries, NEW n \in Nat
    PROVE  /\ [e EXCEPT !.reserved = n] \in Entries
           /\ [e EXCEPT !.reserved = n].reserved = n /\ [e EXCEPT !.reserved = n].used = e.used
           /\ [e EXCEPT !.reserved = n].quota = e.quota
BY DEF Entries

\* What a change of one field of the ledger's entry of b does.
LEMMA LedgerQuota ==
    ASSUME ledger \in [Buckets -> Entries], NEW b \in Buckets, NEW n \in Nat,
           ledger' = [ledger EXCEPT ![b].quota = n]
    PROVE  /\ ledger' \in [Buckets -> Entries]
           /\ \A c \in Buckets : c # b => ledger'[c] = ledger[c]
           /\ ledger'[b].quota = n /\ ledger'[b].used = ledger[b].used
           /\ ledger'[b].reserved = ledger[b].reserved
<1> DEFINE e == [ledger[b] EXCEPT !.quota = n]
<1>1. ledger' = [ledger EXCEPT ![b] = e]
  OBVIOUS
<1>2. e \in Entries /\ e.quota = n /\ e.used = ledger[b].used /\ e.reserved = ledger[b].reserved
  BY EntryQuota
<1> HIDE DEF e
<1> QED BY <1>1, <1>2

\* The same in the ledger: the other buckets keep their entries.
LEMMA LedgerUsed ==
    ASSUME ledger \in [Buckets -> Entries], NEW b \in Buckets, NEW n \in Nat,
           ledger' = [ledger EXCEPT ![b].used = n]
    PROVE  /\ ledger' \in [Buckets -> Entries]
           /\ \A c \in Buckets : c # b => ledger'[c] = ledger[c]
           /\ ledger'[b].used = n /\ ledger'[b].quota = ledger[b].quota
           /\ ledger'[b].reserved = ledger[b].reserved
<1> DEFINE e == [ledger[b] EXCEPT !.used = n]
<1>1. ledger' = [ledger EXCEPT ![b] = e]
  OBVIOUS
<1>2. e \in Entries /\ e.used = n /\ e.quota = ledger[b].quota /\ e.reserved = ledger[b].reserved
  BY EntryUsed
<1> HIDE DEF e
<1> QED BY <1>1, <1>2

\* The same for the reserved bytes.
LEMMA LedgerReserved ==
    ASSUME ledger \in [Buckets -> Entries], NEW b \in Buckets, NEW n \in Nat,
           ledger' = [ledger EXCEPT ![b].reserved = n]
    PROVE  /\ ledger' \in [Buckets -> Entries]
           /\ \A c \in Buckets : c # b => ledger'[c] = ledger[c]
           /\ ledger'[b].reserved = n /\ ledger'[b].quota = ledger[b].quota
           /\ ledger'[b].used = ledger[b].used
<1> DEFINE e == [ledger[b] EXCEPT !.reserved = n]
<1>1. ledger' = [ledger EXCEPT ![b] = e]
  OBVIOUS
<1>2. e \in Entries /\ e.reserved = n /\ e.quota = ledger[b].quota /\ e.used = ledger[b].used
  BY EntryReserved
<1> HIDE DEF e
<1> QED BY <1>1, <1>2

\* Both at once, as a settlement changes them.
LEMMA LedgerSettled ==
    ASSUME ledger \in [Buckets -> Entries], NEW b \in Buckets, NEW n \in Nat, NEW m \in Nat,
           ledger' = [ledger EXCEPT ![b].reserved = n, ![b].used = m]
    PROVE  /\ ledger' \in [Buckets -> Entries]
           /\ \A c \in Buckets : c # b => ledger'[c] = ledger[c]
           /\ ledger'[b].reserved = n /\ ledger'[b].used = m
           /\ ledger'[b].quota = ledger[b].quota
<1> DEFINE d == [ledger[b] EXCEPT !.reserved = n]
<1>1. d \in Entries /\ d.reserved = n /\ d.quota = ledger[b].quota
  BY EntryReserved
<1>2. [ledger EXCEPT ![b].reserved = n] = [ledger EXCEPT ![b] = d]
  OBVIOUS
<1>3. ledger' = [ [ledger EXCEPT ![b] = d] EXCEPT ![b].used = m]
  BY <1>2
<1> HIDE DEF d
<1> DEFINE e == [d EXCEPT !.used = m]
<1>4. ledger' = [ledger EXCEPT ![b] = e]
  BY <1>1, <1>3
<1>5. e \in Entries /\ e.reserved = n /\ e.used = m /\ e.quota = ledger[b].quota
  BY <1>1, EntryUsed
<1> HIDE DEF e
<1> QED BY <1>4, <1>5

-----------------------------------------------------------------------------
(* What each action does, in the terms of the invariant.                    *)

\* Thread t makes a step on bucket b and its job becomes k.
StepOn(t, b, k) ==
    /\ RecordsTyped' /\ JobsTyped' /\ ObjectsHaveBucket'
    /\ t \in pool /\ Becomes(t, k) /\ Frame(b)
    /\ (k = Idle \/ k.b = b) /\ (job[t] = Idle \/ job[t].b = b)

\* Everything but the jobs stays.
Still == record' = record /\ objects' = objects /\ ledger' = ledger /\ asked' = asked

\* A step that changes only a job keeps what concerns the buckets.
LEMMA StillFrame ==
    ASSUME SharedInv, Still, NEW b \in Buckets
    PROVE  RecordsTyped' /\ ObjectsHaveBucket' /\ Frame(b)
BY DEF SharedInv, Still, RecordsTyped, ObjectsHaveBucket, Frame, Exists

\* Only the ledger changes.
LEMMA LedgerFrame ==
    ASSUME SharedInv, NEW b \in Buckets, ledger' \in [Buckets -> Entries],
           \A c \in Buckets : c # b => ledger'[c] = ledger[c],
           record' = record, objects' = objects, asked' = asked
    PROVE  RecordsTyped' /\ ObjectsHaveBucket' /\ Frame(b)
BY DEF SharedInv, RecordsTyped, ObjectsHaveBucket, Frame, Exists

\* The subtraction of the ledger stays within the naturals.
LEMMA LessNat ==
    ASSUME NEW m \in Nat, NEW n \in Nat
    PROVE  less(m, n) \in Nat
BY DEF less

\* CreateBucket is admitted on the quotas the ledger holds, before the record
\* is inserted.
LEMMA CreateFacts ==
    ASSUME SharedInv, NEW t \in Threads, NEW b \in Buckets, NEW q \in Nat, Create(t, b, q)
    PROVE  /\ StepOn(t, b, NewJob("create", "insert", b, q, NoBucket)) /\ Still
           /\ job[t] = Idle /\ AdmitAllocation(q)
<1> DEFINE k == NewJob("create", "insert", b, q, NoBucket)
<1>1. Start(t, "create", "insert", b, q, NoBucket) /\ pool' = pool /\ Still
        /\ AdmitAllocation(q)
  BY DEF Create, Still, disk
<1>2. JobFits(k) /\ k.b = b
  BY DEF JobFits, NewJob
<1>3. "create" \in Ops /\ "insert" \in Steps /\ q \in Args
        /\ NoBucket \in BucketRecords \cup {NoBucket}
  BY DEF Ops, Steps, Args
<1>4. JobsTyped' /\ t \in pool /\ job[t] = Idle /\ Becomes(t, k)
  BY <1>1, <1>2, <1>3, Starts DEF SharedInv
<1> HIDE DEF k
<1>5. StepOn(t, b, k)
  BY <1>1, <1>2, <1>4, StillFrame DEF StepOn
<1> QED BY <1>1, <1>4, <1>5 DEF k

\* The insertion makes a bucket where there was none, or refuses.
LEMMA InsertFacts ==
    ASSUME SharedInv, NEW t \in Threads, InsertRecord(t)
    PROVE  /\ job[t].op = "create" /\ job[t].at = "insert" /\ job[t].b \in Buckets
           /\ job[t] \in Jobs /\ job[t].arg \in Nat
           /\ \/ /\ StepOn(t, job[t].b, Later(job[t], "track"))
                 /\ ledger' = ledger /\ objects' = objects
                 /\ record[job[t].b] = NoBucket
                 /\ record'[job[t].b] = BucketRecord(job[t].arg)
                 /\ asked'[job[t].b] = {}
              \/ StepOn(t, job[t].b, Idle) /\ Still
<1> DEFINE b == job[t].b
           k == Later(job[t], "track")
<1>1. job[t].op = "create" /\ job[t].at = "insert"
  BY DEF InsertRecord, On
<1>2. t \in pool /\ job[t] \in Jobs /\ JobFits(job[t]) /\ b \in Buckets /\ job[t] # Idle
  BY <1>1, BusyJob DEF SharedInv
<1>3. job[t].arg \in Nat
  BY <1>1, <1>2 DEF JobFits
<1>4. CASE /\ ~Exists(b)
           /\ record' = [record EXCEPT ![b] = BucketRecord(job[t].arg)]
           /\ asked' = [asked EXCEPT ![b] = {}]
           /\ Go(t, "track") /\ UNCHANGED <<objects, ledger, pool>>
  <2>1. "track" \in Steps
    BY DEF Steps
  <2>2. k \in Jobs /\ k.at = "track" /\ k.op = "create" /\ k.b = b /\ k.arg = job[t].arg
    BY <1>1, <1>2, <2>1, LaterJob
  <2>3. JobFits(k)
    <3> HIDE DEF k
    <3> QED BY <1>2, <1>3, <2>2 DEF JobFits
  <2>4. JobsTyped' /\ Becomes(t, k)
    BY <1>1, <1>4, <2>1, <2>3, GoesOn DEF SharedInv
  <2>5. BucketRecord(job[t].arg) \in BucketRecords
    BY <1>3 DEF BucketRecord, BucketRecords, Policies
  <2> HIDE DEF k
  <2>6. RecordsTyped' /\ Frame(b)
    BY <1>2, <1>4, <2>5 DEF SharedInv, RecordsTyped, Frame
  <2>7. ObjectsHaveBucket'
    BY <1>2, <1>4, <2>5, BucketsAssumption DEF SharedInv, RecordsTyped, ObjectsHaveBucket, Exists
  <2>8. StepOn(t, b, k)
    BY <1>2, <2>2, <2>4, <2>6, <2>7 DEF StepOn
  <2>9. record[b] = NoBucket /\ record'[b] = BucketRecord(job[t].arg) /\ asked'[b] = {}
    BY <1>2, <1>4 DEF Exists, SharedInv, RecordsTyped
  <2> QED BY <1>1, <1>2, <1>3, <1>4, <2>8, <2>9 DEF k
<1>5. CASE End(t) /\ UNCHANGED <<record, asked, objects, ledger, pool>>
  <2>1. JobsTyped' /\ Becomes(t, Idle)
    BY <1>2, <1>5, Ends DEF SharedInv
  <2>2. Still
    BY <1>5 DEF Still
  <2>3. StepOn(t, b, Idle)
    BY <1>2, <2>1, <2>2, StillFrame DEF StepOn
  <2> QED BY <1>1, <1>2, <1>3, <2>2, <2>3
<1> QED BY <1>4, <1>5 DEF InsertRecord

\* The ledger learns the quota of the bucket just inserted.
LEMMA TrackFacts ==
    ASSUME SharedInv, NEW t \in Threads, Track(t)
    PROVE  /\ job[t].op = "create" /\ job[t].at = "track" /\ job[t].b \in Buckets
           /\ StepOn(t, job[t].b, Idle) /\ record' = record /\ objects' = objects
           /\ asked' = asked
           /\ ledger'[job[t].b].quota = job[t].arg
           /\ ledger'[job[t].b].used = ledger[job[t].b].used
           /\ ledger'[job[t].b].reserved = ledger[job[t].b].reserved
<1> DEFINE b == job[t].b
<1>1. job[t].op = "create" /\ job[t].at = "track" /\ End(t) /\ pool' = pool
        /\ record' = record /\ objects' = objects /\ asked' = asked
        /\ ledger' = [ledger EXCEPT ![b].quota = job[t].arg]
  BY DEF Track, On, disk
<1>2. t \in pool /\ JobFits(job[t]) /\ b \in Buckets
  BY <1>1, BusyJob DEF SharedInv
<1>3. job[t].arg \in Nat /\ ledger \in [Buckets -> Entries]
  BY <1>1, <1>2 DEF JobFits, SharedInv, RecordsTyped
<1>4. JobsTyped' /\ Becomes(t, Idle)
  BY <1>1, <1>2, Ends DEF SharedInv
<1>5. /\ ledger' \in [Buckets -> Entries]
      /\ \A c \in Buckets : c # b => ledger'[c] = ledger[c]
      /\ ledger'[b].quota = job[t].arg /\ ledger'[b].used = ledger[b].used
      /\ ledger'[b].reserved = ledger[b].reserved
  BY <1>1, <1>2, <1>3, LedgerQuota
<1>6. StepOn(t, b, Idle)
  BY <1>1, <1>2, <1>4, <1>5, LedgerFrame DEF StepOn
<1> QED BY <1>1, <1>2, <1>5, <1>6

\* A bucket is deleted only when it holds no object.
LEMMA DeleteFacts ==
    ASSUME SharedInv, NEW t \in Threads, NEW b \in Buckets, DeleteBucket(t, b)
    PROVE  /\ StepOn(t, b, NewJob("delete", "forget", b, 0, NoBucket))
           /\ job[t] = Idle /\ objects[b] = 0
           /\ ledger' = ledger /\ objects' = objects /\ asked' = asked
           /\ record'[b] = NoBucket
<1> DEFINE k == NewJob("delete", "forget", b, 0, NoBucket)
<1>1. Start(t, "delete", "forget", b, 0, NoBucket) /\ pool' = pool
        /\ ledger' = ledger /\ objects' = objects /\ asked' = asked /\ objects[b] = 0
        /\ record' = [record EXCEPT ![b] = NoBucket]
  BY DEF DeleteBucket
<1>2. JobFits(k) /\ k.b = b
  BY DEF JobFits, NewJob
<1>3. "delete" \in Ops /\ "forget" \in Steps /\ 0 \in Args
        /\ NoBucket \in BucketRecords \cup {NoBucket}
  BY DEF Ops, Steps, Args
<1>4. JobsTyped' /\ t \in pool /\ job[t] = Idle /\ Becomes(t, k)
  BY <1>1, <1>2, <1>3, Starts DEF SharedInv
<1> HIDE DEF k
<1>5. RecordsTyped' /\ Frame(b) /\ record'[b] = NoBucket
  BY <1>1 DEF SharedInv, RecordsTyped, Frame
<1>6. ObjectsHaveBucket'
  BY <1>1 DEF SharedInv, RecordsTyped, ObjectsHaveBucket, Exists
<1>7. StepOn(t, b, k)
  BY <1>2, <1>4, <1>5, <1>6 DEF StepOn
<1> QED BY <1>1, <1>4, <1>5, <1>7 DEF k

\* The ledger forgets a deleted bucket.
LEMMA ForgetFacts ==
    ASSUME SharedInv, NEW t \in Threads, Forget(t)
    PROVE  /\ job[t].op = "delete" /\ job[t].at = "forget" /\ job[t].b \in Buckets
           /\ StepOn(t, job[t].b, Idle) /\ record' = record /\ objects' = objects
           /\ asked' = asked /\ ledger'[job[t].b] = NoEntry
<1> DEFINE b == job[t].b
<1>1. job[t].op = "delete" /\ job[t].at = "forget" /\ End(t) /\ pool' = pool
        /\ record' = record /\ objects' = objects /\ asked' = asked
        /\ ledger' = [ledger EXCEPT ![b] = NoEntry]
  BY DEF Forget, On, disk
<1>2. t \in pool /\ b \in Buckets
  BY <1>1, BusyJob DEF SharedInv
<1>3. JobsTyped' /\ Becomes(t, Idle)
  BY <1>1, <1>2, Ends DEF SharedInv
<1>4. NoEntry \in Entries
  BY DEF NoEntry, Entries
<1>5. /\ ledger' \in [Buckets -> Entries]
      /\ \A c \in Buckets : c # b => ledger'[c] = ledger[c]
      /\ ledger'[b] = NoEntry
  BY <1>1, <1>2, <1>4 DEF SharedInv, RecordsTyped
<1>6. StepOn(t, b, Idle)
  BY <1>1, <1>2, <1>3, <1>5, LedgerFrame DEF StepOn
<1> QED BY <1>1, <1>2, <1>5, <1>6

\* The operations that change a record, with an argument of their kind.
Edits(op, arg) ==
    \/ op \in {"access", "acl"} /\ arg \in SUBSET Flags
    \/ op = "policy" /\ arg \in Policies
    \/ op = "quota" /\ arg \in Nat
    \/ op = "cors" /\ arg = 0

\* A change begins by reading the record it will write back.
LEMMA ReadFacts ==
    ASSUME SharedInv, NEW t \in Threads, NEW b \in Buckets, NEW op, NEW arg, Edits(op, arg),
           ReadRecord(t, op, b, arg)
    PROVE  /\ job[t] = Idle /\ Exists(b) /\ Still
           /\ \/ op = "quota" /\ StepOn(t, b, NewJob(op, "ledger", b, arg, record[b]))
              \/ op # "quota" /\ StepOn(t, b, NewJob(op, "write", b, arg, record[b]))
<1> DEFINE at == IF op = "quota" THEN "ledger" ELSE "write"
           k == NewJob(op, at, b, arg, record[b])
<1>1. Start(t, op, at, b, arg, record[b]) /\ pool' = pool /\ Still /\ Exists(b)
  BY DEF ReadRecord, Still, disk
<1>2. record[b] \in BucketRecords
  BY <1>1 DEF SharedInv, RecordsTyped, Exists
<1>3. op \in Ops /\ at \in Steps /\ arg \in Args
  <2>1. op \in Ops
    BY DEF Edits, Ops
  <2>2. at \in Steps
    BY DEF Steps
  <2>3. arg \in SUBSET Flags \/ arg \in Policies \/ arg \in Nat
    BY DEF Edits
  <2>4. arg \in Args
    BY <2>3 DEF Args
  <2> QED BY <2>1, <2>2, <2>4
<1>4. at \in {"ledger", "write"} /\ (at = "ledger" <=> op = "quota")
  OBVIOUS
<1> HIDE DEF at
<1>5. k.b = b /\ k.op = op /\ k.at = at /\ k.arg = arg /\ k.seen = record[b]
  BY DEF NewJob
<1>6. JobFits(k)
  <2> HIDE DEF k
  <2> QED BY <1>2, <1>4, <1>5 DEF JobFits, Edits
<1>7. JobsTyped' /\ t \in pool /\ job[t] = Idle /\ Becomes(t, k)
  BY <1>1, <1>2, <1>3, <1>6, Starts DEF SharedInv
<1>8. StepOn(t, b, k)
  <2> HIDE DEF k
  <2> QED BY <1>1, <1>5, <1>7, StillFrame DEF StepOn
<1> QED BY <1>1, <1>4, <1>7, <1>8

\* A quota is admitted and put in the ledger before the record is written.
LEMMA SetQuotaFacts ==
    ASSUME SharedInv, NEW t \in Threads, SetLedgerQuota(t)
    PROVE  /\ job[t].op = "quota" /\ job[t].at = "ledger" /\ job[t].b \in Buckets
           /\ job[t] \in Jobs /\ job[t].arg \in Nat
           /\ \/ /\ QuotaFits(job[t].b, job[t].arg)
                 /\ StepOn(t, job[t].b, Later(job[t], "write"))
                 /\ record' = record /\ objects' = objects /\ asked' = asked
                 /\ ledger'[job[t].b].quota = job[t].arg
                 /\ ledger'[job[t].b].used = ledger[job[t].b].used
                 /\ ledger'[job[t].b].reserved = ledger[job[t].b].reserved
              \/ StepOn(t, job[t].b, Idle) /\ Still
<1> DEFINE b == job[t].b
           k == Later(job[t], "write")
<1>1. job[t].op = "quota" /\ job[t].at = "ledger" /\ pool' = pool
        /\ record' = record /\ objects' = objects /\ asked' = asked
  BY DEF SetLedgerQuota, On, disk
<1>2. t \in pool /\ job[t] \in Jobs /\ JobFits(job[t]) /\ b \in Buckets /\ job[t] # Idle
  BY <1>1, BusyJob DEF SharedInv
<1>3. job[t].arg \in Nat /\ job[t].seen \in BucketRecords /\ ledger \in [Buckets -> Entries]
  BY <1>1, <1>2 DEF JobFits, SharedInv, RecordsTyped
<1>4. CASE QuotaFits(b, job[t].arg)
  <2>1. Go(t, "write") /\ ledger' = [ledger EXCEPT ![b].quota = job[t].arg]
    BY <1>4 DEF SetLedgerQuota
  <2>2. "write" \in Steps
    BY DEF Steps
  <2>3. /\ k \in Jobs /\ k.at = "write" /\ k.op = "quota" /\ k.b = b /\ k.arg = job[t].arg
        /\ k.seen = job[t].seen
    BY <1>1, <1>2, <2>2, LaterJob
  <2>4. JobFits(k)
    <3> HIDE DEF k
    <3> QED BY <1>2, <1>3, <2>3 DEF JobFits
  <2>5. JobsTyped' /\ Becomes(t, k)
    BY <1>1, <2>1, <2>2, <2>4, GoesOn DEF SharedInv
  <2>6. /\ ledger' \in [Buckets -> Entries]
        /\ \A c \in Buckets : c # b => ledger'[c] = ledger[c]
        /\ ledger'[b].quota = job[t].arg /\ ledger'[b].used = ledger[b].used
        /\ ledger'[b].reserved = ledger[b].reserved
    BY <2>1, <1>2, <1>3, LedgerQuota
  <2> HIDE DEF k
  <2>7. StepOn(t, b, k)
    BY <1>1, <1>2, <2>3, <2>5, <2>6, LedgerFrame DEF StepOn
  <2> QED BY <1>1, <1>2, <1>3, <1>4, <2>6, <2>7 DEF k
<1>5. CASE ~QuotaFits(b, job[t].arg)
  <2>1. End(t) /\ Still
    BY <1>1, <1>5 DEF SetLedgerQuota, Still
  <2>2. JobsTyped' /\ Becomes(t, Idle)
    BY <1>1, <1>2, <2>1, Ends DEF SharedInv
  <2>3. StepOn(t, b, Idle)
    BY <1>2, <2>1, <2>2, StillFrame DEF StepOn
  <2> QED BY <1>1, <1>2, <1>3, <2>1, <2>3
<1> QED BY <1>4, <1>5

\* What is granted is a set of flags.
LEMMA GrantedFlags ==
    ASSUME NEW policy
    PROVE  Granted(policy) \in SUBSET Flags
BY DEF Granted, Flags

\* A record with one field replaced.
LEMMA RecordEdits ==
    ASSUME NEW r \in BucketRecords
    PROVE  /\ \A a \in SUBSET Flags :
                /\ [r EXCEPT !.access = a] \in BucketRecords
                /\ [r EXCEPT !.access = a].access = a
                /\ [r EXCEPT !.access = a].quota = r.quota
                /\ [r EXCEPT !.access = a].policy = r.policy
           /\ \A q \in Nat :
                /\ [r EXCEPT !.quota = q] \in BucketRecords
                /\ [r EXCEPT !.quota = q].quota = q
                /\ [r EXCEPT !.quota = q].access = r.access
                /\ [r EXCEPT !.quota = q].policy = r.policy
           /\ \A x \in Policies :
                /\ [r EXCEPT !.policy = x] \in BucketRecords
                /\ [r EXCEPT !.policy = x].quota = r.quota
BY DEF BucketRecords, Flags

\* What a change makes of the record that was read.
LEMMA ChangedFacts ==
    ASSUME NEW r \in BucketRecords, NEW op, NEW arg,
           op \in {"access", "acl"} => arg \in SUBSET Flags,
           op = "policy" => arg \in Policies, op = "quota" => arg \in Nat
    PROVE  /\ Changed(r, op, arg) \in BucketRecords
           /\ op # "quota" => Changed(r, op, arg).quota = r.quota
           /\ op = "quota" => Changed(r, op, arg).quota = arg
           /\ op \notin {"access", "acl", "policy"} =>
                /\ Changed(r, op, arg).access = r.access
                /\ Changed(r, op, arg).policy = r.policy
<1>1. CASE op \in {"access", "acl"}
  <2>1. Changed(r, op, arg) = [r EXCEPT !.access = arg]
    BY <1>1 DEF Changed
  <2> QED BY <1>1, <2>1, RecordEdits
<1>2. CASE op = "policy"
  <2> DEFINE x == [r EXCEPT !.policy = arg]
  <2>1. Changed(r, op, arg) = [x EXCEPT !.access = Granted(arg)]
    BY <1>2 DEF Changed
  <2>2. x \in BucketRecords /\ x.quota = r.quota
    BY <1>2, RecordEdits
  <2> HIDE DEF x
  <2> DEFINE g == Granted(arg)
  <2>3. g \in SUBSET Flags
    BY GrantedFlags
  <2> HIDE DEF g
  <2>4. [x EXCEPT !.access = g] \in BucketRecords /\ [x EXCEPT !.access = g].quota = x.quota
    BY <2>2, <2>3, RecordEdits
  <2> QED BY <1>2, <2>1, <2>2, <2>4 DEF g
<1>3. CASE op = "quota"
  <2>1. Changed(r, op, arg) = [r EXCEPT !.quota = arg]
    BY <1>3 DEF Changed
  <2>2. arg \in Nat
    BY <1>3
  <2>3. /\ [r EXCEPT !.quota = arg] \in BucketRecords /\ [r EXCEPT !.quota = arg].quota = arg
        /\ [r EXCEPT !.quota = arg].access = r.access
        /\ [r EXCEPT !.quota = arg].policy = r.policy
    BY <2>2, RecordEdits
  <2> QED BY <1>3, <2>1, <2>3
<1>4. CASE op \notin {"access", "acl", "policy", "quota"}
  <2>1. Changed(r, op, arg) = r
    BY <1>4 DEF Changed
  <2> QED BY <1>4, <2>1
<1> QED BY <1>1, <1>2, <1>3, <1>4

\* The write replaces the whole record by what was read with one field changed,
\* or finds the bucket gone.
LEMMA UpdateFacts ==
    ASSUME SharedInv, NEW t \in Threads, UpdateBucket(t)
    PROVE  /\ job[t].at = "write" /\ job[t].b \in Buckets /\ job[t] \in Jobs
           /\ JobFits(job[t])
           /\ \/ /\ Exists(job[t].b)
                 /\ \/ StepOn(t, job[t].b, Idle)
                    \/ job[t].op = "access" /\ StepOn(t, job[t].b, Later(job[t], "durability"))
                 /\ objects' = objects /\ ledger' = ledger
                 /\ record'[job[t].b] = Changed(job[t].seen, job[t].op, job[t].arg)
                 /\ record'[job[t].b] \in BucketRecords
                 /\ asked'[job[t].b] = IF job[t].op \in {"access", "acl", "policy"}
                                       THEN record'[job[t].b].access ELSE asked[job[t].b]
              \/ /\ Still
                 /\ \/ job[t].op = "quota" /\ StepOn(t, job[t].b, Later(job[t], "restore"))
                    \/ job[t].op # "quota" /\ StepOn(t, job[t].b, Idle)
<1> DEFINE b == job[t].b
           new == Changed(job[t].seen, job[t].op, job[t].arg)
<1>1. job[t].at = "write" /\ pool' = pool /\ objects' = objects /\ ledger' = ledger
  BY DEF UpdateBucket
<1>2. t \in pool /\ job[t] \in Jobs /\ JobFits(job[t]) /\ b \in Buckets /\ job[t] # Idle
  BY <1>1, BusyJob DEF SharedInv
<1>3. /\ job[t].seen \in BucketRecords
      /\ job[t].op \in {"access", "acl"} => job[t].arg \in SUBSET Flags
      /\ job[t].op = "policy" => job[t].arg \in Policies
      /\ job[t].op = "quota" => job[t].arg \in Nat
  BY <1>1, <1>2 DEF JobFits
<1>4. new \in BucketRecords
  BY <1>3, ChangedFacts
<1> HIDE DEF new
<1>5. ASSUME NEW at \in {"durability", "restore"}, Go(t, at)
      PROVE  /\ JobsTyped' /\ Becomes(t, Later(job[t], at)) /\ Later(job[t], at).b = b
  <2> DEFINE k == Later(job[t], at)
  <2>1. at \in Steps /\ at # "idle"
    BY DEF Steps
  <2>2. /\ k \in Jobs /\ k.at = at /\ k.op = job[t].op /\ k.b = b /\ k.arg = job[t].arg
        /\ k.seen = job[t].seen
    BY <1>2, <2>1, LaterJob
  <2>3. JobFits(k)
    <3> HIDE DEF k
    <3> QED BY <1>2, <1>3, <2>2 DEF JobFits
  <2>4. JobsTyped' /\ Becomes(t, k)
    BY <1>1, <1>5, <2>1, <2>3, GoesOn DEF SharedInv
  <2> QED BY <2>2, <2>4
<1>6. ASSUME End(t)
      PROVE  JobsTyped' /\ Becomes(t, Idle)
  BY <1>1, <1>2, <1>6, Ends DEF SharedInv
<1>7. CASE /\ Exists(b)
           /\ record' = [record EXCEPT ![b] = new]
           /\ asked' = IF job[t].op \in {"access", "acl", "policy"}
                       THEN [asked EXCEPT ![b] = record'[b].access] ELSE asked
           /\ End(t) \/ (job[t].op = "access" /\ Go(t, "durability"))
  <2>1. record'[b] = new
    BY <1>2, <1>7 DEF SharedInv, RecordsTyped
  <2>2. new.access \in SUBSET Flags
    BY <1>4 DEF BucketRecords, Flags
  <2>3. asked' \in [Buckets -> SUBSET Flags]
        /\ (\A c \in Buckets : c # b => asked'[c] = asked[c])
        /\ asked'[b] = IF job[t].op \in {"access", "acl", "policy"}
                       THEN record'[b].access ELSE asked[b]
    BY <1>2, <1>7, <2>1, <2>2 DEF SharedInv, RecordsTyped
  <2>4. RecordsTyped' /\ Frame(b)
    BY <1>1, <1>2, <1>4, <1>7, <2>3 DEF SharedInv, RecordsTyped, Frame
  <2>5. ObjectsHaveBucket'
    BY <1>1, <1>2, <1>4, <1>7, BucketsAssumption
       DEF SharedInv, RecordsTyped, ObjectsHaveBucket, Exists
  <2>6. \/ StepOn(t, b, Idle)
        \/ job[t].op = "access" /\ StepOn(t, b, Later(job[t], "durability"))
    BY <1>2, <1>5, <1>6, <1>7, <2>4, <2>5 DEF StepOn
  <2> QED BY <1>1, <1>2, <1>4, <1>7, <2>1, <2>3, <2>6 DEF new
<1>8. CASE /\ IF job[t].op = "quota" THEN Go(t, "restore") ELSE End(t)
           /\ UNCHANGED <<record, asked>>
  <2>1. Still
    BY <1>1, <1>8 DEF Still
  <2>2. RecordsTyped' /\ ObjectsHaveBucket' /\ Frame(b)
    BY <1>2, <2>1, StillFrame
  <2>3. \/ job[t].op = "quota" /\ StepOn(t, b, Later(job[t], "restore"))
        \/ job[t].op # "quota" /\ StepOn(t, b, Idle)
    BY <1>2, <1>5, <1>6, <1>8, <2>2 DEF StepOn
  <2> QED BY <1>1, <1>2, <2>1, <2>3
<1> QED BY <1>7, <1>8 DEF UpdateBucket, new

\* The job that goes on to the durability of the bucket reads the record again.
Renamed(j, op) == [j EXCEPT !.op = op]
WithArg(j, arg) == [j EXCEPT !.arg = arg]
Reread(j, r) == [WithArg(Later(Renamed(j, "durability"), "write"), 0) EXCEPT !.seen = r]

\* Fields of a job with another operation.
LEMMA RenamedJob ==
    ASSUME NEW j \in Jobs, NEW op \in Ops
    PROVE  /\ Renamed(j, op) \in Jobs
           /\ Renamed(j, op).op = op /\ Renamed(j, op).at = j.at /\ Renamed(j, op).b = j.b
           /\ Renamed(j, op).arg = j.arg /\ Renamed(j, op).seen = j.seen
BY DEF Renamed, Jobs

\* Fields of a job with another argument.
LEMMA WithArgJob ==
    ASSUME NEW j \in Jobs, NEW arg \in Args
    PROVE  /\ WithArg(j, arg) \in Jobs
           /\ WithArg(j, arg).op = j.op /\ WithArg(j, arg).at = j.at /\ WithArg(j, arg).b = j.b
           /\ WithArg(j, arg).arg = arg /\ WithArg(j, arg).seen = j.seen
BY DEF WithArg, Jobs

\* Fields of a job that has read the record once more.
LEMMA RereadJob ==
    ASSUME NEW j \in Jobs, NEW r \in BucketRecords
    PROVE  /\ Reread(j, r) \in Jobs
           /\ Reread(j, r).op = "durability" /\ Reread(j, r).at = "write"
           /\ Reread(j, r).b = j.b /\ Reread(j, r).seen = r
<1> DEFINE x == Renamed(j, "durability")
           y == Later(x, "write")
           z == WithArg(y, 0)
<1>1. "durability" \in Ops /\ "write" \in Steps /\ 0 \in Args
  BY DEF Ops, Steps, Args
<1>2. x \in Jobs /\ x.op = "durability" /\ x.b = j.b
  BY <1>1, RenamedJob
<1> HIDE DEF x
<1>3. y \in Jobs /\ y.op = "durability" /\ y.at = "write" /\ y.b = j.b
  BY <1>1, <1>2, LaterJob
<1> HIDE DEF y
<1>4. z \in Jobs /\ z.op = "durability" /\ z.at = "write" /\ z.b = j.b
  BY <1>1, <1>3, WithArgJob
<1> HIDE DEF z
<1>5. /\ [z EXCEPT !.seen = r] \in Jobs /\ [z EXCEPT !.seen = r].op = "durability"
      /\ [z EXCEPT !.seen = r].at = "write" /\ [z EXCEPT !.seen = r].b = j.b
      /\ [z EXCEPT !.seen = r].seen = r
  BY <1>4 DEF Jobs
<1> QED BY <1>5 DEF Reread, x, y, z

\* The second half of a change of access reads the record anew.
LEMMA RereadFacts ==
    ASSUME SharedInv, NEW t \in Threads, ReadForDurability(t)
    PROVE  /\ job[t].op = "access" /\ job[t].at = "durability" /\ job[t].b \in Buckets
           /\ Still
           /\ \/ Exists(job[t].b) /\ StepOn(t, job[t].b, Reread(job[t], record[job[t].b]))
              \/ StepOn(t, job[t].b, Idle)
<1> DEFINE b == job[t].b
           k == Reread(job[t], record[b])
<1>1. job[t].op = "access" /\ job[t].at = "durability" /\ pool' = pool /\ Still
  BY DEF ReadForDurability, On, disk, Still
<1>2. t \in pool /\ job[t] \in Jobs /\ b \in Buckets /\ job[t] # Idle
  BY <1>1, BusyJob DEF SharedInv
<1>3. CASE Exists(b)
  <2>1. record[b] \in BucketRecords
    BY <1>2, <1>3 DEF SharedInv, RecordsTyped, Exists
  <2>2. job' = [job EXCEPT ![t].op = "durability", ![t].at = "write", ![t].arg = 0,
                           ![t].seen = record[b]]
    BY <1>3 DEF ReadForDurability
  <2>3. job' = [job EXCEPT ![t] = k]
    BY <1>2, <2>2 DEF SharedInv, JobsTyped, Reread, Renamed, Later, WithArg
  <2>4. /\ k \in Jobs /\ k.op = "durability" /\ k.at = "write" /\ k.b = b
        /\ k.seen = record[b]
    BY <1>2, <2>1, RereadJob
  <2> HIDE DEF k
  <2>5. Becomes(t, k)
    BY <1>1, <2>3 DEF Becomes
  <2>6. k \in Jobs
    BY <2>4
  <2>7. JobFits(k) /\ k.b = b
    BY <1>2, <2>1, <2>4 DEF JobFits
  <2>8. JobsTyped'
    BY <1>2, <2>5, <2>6, <2>7, BecomesTyped DEF SharedInv
  <2>9. StepOn(t, b, k)
    BY <1>1, <1>2, <2>5, <2>7, <2>8, StillFrame DEF StepOn
  <2> QED BY <1>1, <1>2, <1>3, <2>9 DEF k
<1>4. CASE ~Exists(b)
  <2>1. End(t)
    BY <1>4 DEF ReadForDurability
  <2>2. JobsTyped' /\ Becomes(t, Idle)
    BY <1>1, <1>2, <2>1, Ends DEF SharedInv
  <2>3. StepOn(t, b, Idle)
    BY <1>1, <1>2, <2>2, StillFrame DEF StepOn
  <2> QED BY <1>1, <1>2, <2>3
<1> QED BY <1>3, <1>4

\* A quota whose record could not be written is undone in the ledger, when the
\* earlier one still fits.
LEMMA RestoreFacts ==
    ASSUME SharedInv, NEW t \in Threads, RestoreQuota(t)
    PROVE  /\ job[t].op = "quota" /\ job[t].at = "restore" /\ job[t].b \in Buckets
           /\ StepOn(t, job[t].b, Idle)
           /\ record' = record /\ objects' = objects /\ asked' = asked
           /\ job[t].seen \in BucketRecords
           /\ \/ /\ QuotaFits(job[t].b, job[t].seen.quota)
                 /\ ledger'[job[t].b].quota = job[t].seen.quota
                 /\ ledger'[job[t].b].used = ledger[job[t].b].used
                 /\ ledger'[job[t].b].reserved = ledger[job[t].b].reserved
              \/ ~QuotaFits(job[t].b, job[t].seen.quota) /\ ledger' = ledger
<1> DEFINE b == job[t].b
           q == job[t].seen.quota
<1>1. job[t].op = "quota" /\ job[t].at = "restore" /\ pool' = pool /\ End(t)
        /\ record' = record /\ objects' = objects /\ asked' = asked
  BY DEF RestoreQuota, On, disk
<1>2. t \in pool /\ JobFits(job[t]) /\ b \in Buckets
  BY <1>1, BusyJob DEF SharedInv
<1>3. job[t].seen \in BucketRecords /\ ledger \in [Buckets -> Entries]
  BY <1>1, <1>2 DEF JobFits, SharedInv, RecordsTyped
<1>4. q \in Nat
  BY <1>3 DEF BucketRecords
<1>5. JobsTyped' /\ Becomes(t, Idle)
  BY <1>1, <1>2, Ends DEF SharedInv
<1>6. CASE QuotaFits(b, q)
  <2>1. ledger' = [ledger EXCEPT ![b].quota = q]
    BY <1>6 DEF RestoreQuota
  <2> HIDE DEF q
  <2>2. /\ ledger' \in [Buckets -> Entries]
        /\ \A c \in Buckets : c # b => ledger'[c] = ledger[c]
        /\ ledger'[b].quota = q /\ ledger'[b].used = ledger[b].used
        /\ ledger'[b].reserved = ledger[b].reserved
    BY <1>2, <1>3, <1>4, <2>1, LedgerQuota
  <2>3. StepOn(t, b, Idle)
    BY <1>1, <1>2, <1>5, <2>2, LedgerFrame DEF StepOn
  <2> QED BY <1>1, <1>2, <1>3, <1>6, <2>2, <2>3 DEF q
<1>7. CASE ~QuotaFits(b, q)
  <2>1. Still
    BY <1>1, <1>7 DEF RestoreQuota, Still
  <2>2. StepOn(t, b, Idle)
    BY <1>2, <1>5, <2>1, StillFrame DEF StepOn
  <2> QED BY <1>1, <1>2, <1>3, <1>7, <2>1, <2>2 DEF Still
<1> QED BY <1>6, <1>7

\* An upload reserves its bytes in the ledger before it stores them.
LEMMA ReserveFacts ==
    ASSUME SharedInv, NEW t \in Threads, NEW b \in Buckets, ReserveByte(t, b)
    PROVE  /\ StepOn(t, b, NewJob("put", "commit", b, 0, NoBucket)) /\ job[t] = Idle
           /\ record' = record /\ objects' = objects /\ asked' = asked
           /\ ledger'[b].reserved = ledger[b].reserved + 1
           /\ ledger'[b].quota = ledger[b].quota /\ ledger'[b].used = ledger[b].used
<1> DEFINE k == NewJob("put", "commit", b, 0, NoBucket)
           n == ledger[b].reserved + 1
<1>1. Start(t, "put", "commit", b, 0, NoBucket) /\ pool' = pool
        /\ record' = record /\ objects' = objects /\ asked' = asked
        /\ ledger' = [ledger EXCEPT ![b].reserved = n]
  BY DEF ReserveByte, disk
<1>2. JobFits(k) /\ k.b = b
  BY DEF JobFits, NewJob
<1>3. "put" \in Ops /\ "commit" \in Steps /\ 0 \in Args
        /\ NoBucket \in BucketRecords \cup {NoBucket}
  BY DEF Ops, Steps, Args
<1>4. JobsTyped' /\ t \in pool /\ job[t] = Idle /\ Becomes(t, k)
  BY <1>1, <1>2, <1>3, Starts DEF SharedInv
<1>5. ledger \in [Buckets -> Entries] /\ n \in Nat
  BY DEF SharedInv, RecordsTyped, Entries
<1> HIDE DEF n
<1>6. /\ ledger' \in [Buckets -> Entries]
      /\ \A c \in Buckets : c # b => ledger'[c] = ledger[c]
      /\ ledger'[b].reserved = n /\ ledger'[b].quota = ledger[b].quota
      /\ ledger'[b].used = ledger[b].used
  BY <1>1, <1>5, LedgerReserved
<1> HIDE DEF k
<1>7. StepOn(t, b, k)
  BY <1>1, <1>2, <1>4, <1>6, LedgerFrame DEF StepOn
<1> QED BY <1>1, <1>4, <1>6, <1>7 DEF k, n

\* The job that has committed and knows what it replaced.
Committed(j, n) == WithArg(Later(j, "settle"), n)

\* Fields of a job whose object is stored.
LEMMA CommittedJob ==
    ASSUME NEW j \in Jobs, NEW n \in Args
    PROVE  /\ Committed(j, n) \in Jobs
           /\ Committed(j, n).op = j.op /\ Committed(j, n).at = "settle"
           /\ Committed(j, n).b = j.b /\ Committed(j, n).arg = n
<1> DEFINE x == Later(j, "settle")
<1>1. "settle" \in Steps
  BY DEF Steps
<1>2. x \in Jobs /\ x.op = j.op /\ x.at = "settle" /\ x.b = j.b
  BY <1>1, LaterJob
<1> HIDE DEF x
<1>3. WithArg(x, n) \in Jobs /\ WithArg(x, n).op = j.op /\ WithArg(x, n).at = "settle"
        /\ WithArg(x, n).b = j.b /\ WithArg(x, n).arg = n
  BY <1>2, WithArgJob
<1> QED BY <1>3 DEF Committed, x

\* The object is stored in a bucket that exists; the reservation is given up
\* where there is none.
LEMMA CommitFacts ==
    ASSUME SharedInv, NEW t \in Threads, CommitByte(t)
    PROVE  /\ job[t].op = "put" /\ job[t].at = "commit" /\ job[t].b \in Buckets
           /\ record' = record /\ asked' = asked
           /\ \/ /\ Exists(job[t].b) /\ ledger' = ledger
                 /\ StepOn(t, job[t].b, Committed(job[t], objects[job[t].b]))
                 /\ objects'[job[t].b] = 1
              \/ /\ ~Exists(job[t].b) /\ objects' = objects
                 /\ StepOn(t, job[t].b, Idle)
                 /\ ledger'[job[t].b].reserved = less(ledger[job[t].b].reserved, 1)
                 /\ ledger'[job[t].b].quota = ledger[job[t].b].quota
                 /\ ledger'[job[t].b].used = ledger[job[t].b].used
<1> DEFINE b == job[t].b
           k == Committed(job[t], objects[b])
<1>1. job[t].op = "put" /\ job[t].at = "commit" /\ pool' = pool
        /\ record' = record /\ asked' = asked
  BY DEF CommitByte, On
<1>2. t \in pool /\ job[t] \in Jobs /\ b \in Buckets /\ job[t] # Idle
  BY <1>1, BusyJob DEF SharedInv
<1>3. CASE Exists(b)
  <2>1. /\ objects' = [objects EXCEPT ![b] = 1] /\ ledger' = ledger
        /\ job' = [job EXCEPT ![t].at = "settle", ![t].arg = objects[b]]
    BY <1>3 DEF CommitByte
  <2>2. objects[b] \in 0 .. 1
    BY <1>2 DEF SharedInv, RecordsTyped
  <2>3. job' = [job EXCEPT ![t] = k]
    BY <1>2, <2>1 DEF SharedInv, JobsTyped, Committed, Later, WithArg
  <2>4. k \in Jobs /\ k.op = "put" /\ k.at = "settle" /\ k.b = b /\ k.arg = objects[b]
    <3>1. objects[b] \in Args
      BY <2>2 DEF Args
    <3> QED BY <1>1, <1>2, <3>1, CommittedJob
  <2> HIDE DEF k
  <2>5. Becomes(t, k)
    BY <1>1, <2>3 DEF Becomes
  <2>6. k \in Jobs
    BY <2>4
  <2>7. JobFits(k) /\ k.b = b
    BY <1>2, <2>2, <2>4 DEF JobFits
  <2>8. JobsTyped'
    BY <1>2, <2>5, <2>6, <2>7, BecomesTyped DEF SharedInv
  <2>9. RecordsTyped' /\ Frame(b) /\ objects'[b] = 1
    BY <1>1, <1>2, <2>1 DEF SharedInv, RecordsTyped, Frame
  <2>10. ObjectsHaveBucket'
    BY <1>1, <1>2, <1>3, <2>1 DEF SharedInv, RecordsTyped, ObjectsHaveBucket, Exists
  <2>11. StepOn(t, b, k)
    BY <1>2, <2>5, <2>7, <2>8, <2>9, <2>10 DEF StepOn
  <2> QED BY <1>1, <1>2, <1>3, <2>1, <2>9, <2>11 DEF k
<1>4. CASE ~Exists(b)
  <2> DEFINE n == less(ledger[b].reserved, 1)
  <2>1. /\ ledger' = [ledger EXCEPT ![b].reserved = n]
        /\ End(t) /\ objects' = objects
    BY <1>4 DEF CommitByte
  <2>2. ledger \in [Buckets -> Entries] /\ ledger[b].reserved \in Nat
    BY <1>2 DEF SharedInv, RecordsTyped, Entries
  <2>3. n \in Nat
    BY <2>2, LessNat
  <2> HIDE DEF n
  <2>4. /\ ledger' \in [Buckets -> Entries]
        /\ \A c \in Buckets : c # b => ledger'[c] = ledger[c]
        /\ ledger'[b].reserved = n /\ ledger'[b].quota = ledger[b].quota
        /\ ledger'[b].used = ledger[b].used
    BY <1>2, <2>1, <2>2, <2>3, LedgerReserved
  <2>5. JobsTyped' /\ Becomes(t, Idle)
    BY <1>1, <1>2, <2>1, Ends DEF SharedInv
  <2>6. StepOn(t, b, Idle)
    BY <1>1, <1>2, <2>1, <2>4, <2>5, LedgerFrame DEF StepOn
  <2> QED BY <1>1, <1>2, <1>4, <2>1, <2>4, <2>6 DEF n
<1> QED BY <1>3, <1>4

\* The reservation of a stored object becomes used bytes, less what the object
\* replaced.
LEMMA SettleFacts ==
    ASSUME SharedInv, NEW t \in Threads, Settle(t)
    PROVE  /\ job[t].op = "put" /\ job[t].at = "settle" /\ job[t].b \in Buckets
           /\ StepOn(t, job[t].b, Idle)
           /\ record' = record /\ objects' = objects /\ asked' = asked
           /\ job[t].arg \in 0 .. 1
           /\ ledger'[job[t].b].reserved = less(ledger[job[t].b].reserved, 1)
           /\ ledger'[job[t].b].used = less(ledger[job[t].b].used + 1, job[t].arg)
           /\ ledger'[job[t].b].quota = ledger[job[t].b].quota
<1> DEFINE b == job[t].b
           n == less(ledger[b].reserved, 1)
           m == less(ledger[b].used + 1, job[t].arg)
<1>1. job[t].op = "put" /\ job[t].at = "settle" /\ pool' = pool /\ End(t)
        /\ record' = record /\ objects' = objects /\ asked' = asked
        /\ ledger' = [ledger EXCEPT ![b].reserved = n, ![b].used = m]
  BY DEF Settle, On, disk
<1>2. t \in pool /\ JobFits(job[t]) /\ b \in Buckets
  BY <1>1, BusyJob DEF SharedInv
<1>3. /\ job[t].arg \in 0 .. 1 /\ ledger \in [Buckets -> Entries]
      /\ ledger[b].reserved \in Nat /\ ledger[b].used + 1 \in Nat
  BY <1>1, <1>2 DEF JobFits, SharedInv, RecordsTyped, Entries
<1>4. n \in Nat /\ m \in Nat
  <2>1. job[t].arg \in Nat
    BY <1>3
  <2> QED BY <1>3, <2>1, LessNat
<1>5. JobsTyped' /\ Becomes(t, Idle)
  BY <1>1, <1>2, Ends DEF SharedInv
<1> HIDE DEF n, m
<1>6. /\ ledger' \in [Buckets -> Entries]
      /\ \A c \in Buckets : c # b => ledger'[c] = ledger[c]
      /\ ledger'[b].reserved = n /\ ledger'[b].used = m
      /\ ledger'[b].quota = ledger[b].quota
  BY <1>1, <1>2, <1>3, <1>4, LedgerSettled
<1>7. StepOn(t, b, Idle)
  BY <1>1, <1>2, <1>5, <1>6, LedgerFrame DEF StepOn
<1> QED BY <1>1, <1>2, <1>3, <1>6, <1>7 DEF n, m

\* An object is removed before its bytes are given back.
LEMMA RemoveFacts ==
    ASSUME SharedInv, NEW t \in Threads, NEW b \in Buckets, RemoveObject(t, b)
    PROVE  /\ StepOn(t, b, NewJob("remove", "uncharge", b, 0, NoBucket)) /\ job[t] = Idle
           /\ record' = record /\ ledger' = ledger /\ asked' = asked
           /\ objects[b] = 1 /\ objects'[b] = 0
<1> DEFINE k == NewJob("remove", "uncharge", b, 0, NoBucket)
<1>1. Start(t, "remove", "uncharge", b, 0, NoBucket) /\ pool' = pool
        /\ record' = record /\ ledger' = ledger /\ asked' = asked
        /\ objects[b] = 1 /\ objects' = [objects EXCEPT ![b] = 0]
  BY DEF RemoveObject
<1>2. JobFits(k) /\ k.b = b
  BY DEF JobFits, NewJob
<1>3. "remove" \in Ops /\ "uncharge" \in Steps /\ 0 \in Args
        /\ NoBucket \in BucketRecords \cup {NoBucket}
  BY DEF Ops, Steps, Args
<1>4. JobsTyped' /\ t \in pool /\ job[t] = Idle /\ Becomes(t, k)
  BY <1>1, <1>2, <1>3, Starts DEF SharedInv
<1> HIDE DEF k
<1>5. RecordsTyped' /\ Frame(b) /\ objects'[b] = 0
  BY <1>1 DEF SharedInv, RecordsTyped, Frame
<1>6. ObjectsHaveBucket'
  BY <1>1 DEF SharedInv, RecordsTyped, ObjectsHaveBucket, Exists
<1>7. StepOn(t, b, k)
  BY <1>2, <1>4, <1>5, <1>6 DEF StepOn
<1> QED BY <1>1, <1>4, <1>5, <1>7 DEF k

\* The bytes of a removed object are given back.
LEMMA UnchargeFacts ==
    ASSUME SharedInv, NEW t \in Threads, Uncharge(t)
    PROVE  /\ job[t].op = "remove" /\ job[t].at = "uncharge" /\ job[t].b \in Buckets
           /\ StepOn(t, job[t].b, Idle)
           /\ record' = record /\ objects' = objects /\ asked' = asked
           /\ ledger'[job[t].b].used = less(ledger[job[t].b].used, 1)
           /\ ledger'[job[t].b].reserved = ledger[job[t].b].reserved
           /\ ledger'[job[t].b].quota = ledger[job[t].b].quota
<1> DEFINE b == job[t].b
           n == less(ledger[b].used, 1)
<1>1. job[t].op = "remove" /\ job[t].at = "uncharge" /\ pool' = pool /\ End(t)
        /\ record' = record /\ objects' = objects /\ asked' = asked
        /\ ledger' = [ledger EXCEPT ![b].used = n]
  BY DEF Uncharge, On, disk
<1>2. t \in pool /\ b \in Buckets
  BY <1>1, BusyJob DEF SharedInv
<1>3. ledger \in [Buckets -> Entries] /\ ledger[b].used \in Nat
  BY <1>2 DEF SharedInv, RecordsTyped, Entries
<1>4. n \in Nat
  BY <1>3, LessNat
<1>5. JobsTyped' /\ Becomes(t, Idle)
  BY <1>1, <1>2, Ends DEF SharedInv
<1> HIDE DEF n
<1>6. /\ ledger' \in [Buckets -> Entries]
      /\ \A c \in Buckets : c # b => ledger'[c] = ledger[c]
      /\ ledger'[b].used = n /\ ledger'[b].quota = ledger[b].quota
      /\ ledger'[b].reserved = ledger[b].reserved
  BY <1>1, <1>2, <1>3, <1>4, LedgerUsed
<1>7. StepOn(t, b, Idle)
  BY <1>1, <1>2, <1>5, <1>6, LedgerFrame DEF StepOn
<1> QED BY <1>1, <1>2, <1>6, <1>7 DEF n

-----------------------------------------------------------------------------
(* Any number of threads: types, and no object without its bucket.          *)

\* Beginning a job keeps the shared invariant.
LEMMA BeginShared ==
    ASSUME SharedInv, NEW t \in Threads, NEW b \in Buckets, BeginJob(t, b)
    PROVE  SharedInv'
<1>0. \A k : StepOn(t, b, k) => SharedInv'
  BY DEF StepOn, SharedInv
<1>1. CASE handleCreateBucket(t, b)
  BY <1>0, <1>1, CreateFacts DEF handleCreateBucket
<1>2. ASSUME NEW a \in {{}, {"read"}}, NEW op \in {"acl", "access"}, ReadRecord(t, op, b, a)
      PROVE  SharedInv'
  BY <1>0, <1>2, ReadFacts DEF Edits, Flags
<1>3. ASSUME NEW x \in {"open", "none"}, ReadRecord(t, "policy", b, x)
      PROVE  SharedInv'
  BY <1>0, <1>3, ReadFacts DEF Edits, Policies
<1>4. ASSUME NEW q \in Allocations \ {0}, Create(t, b, q)
      PROVE  SharedInv'
  <2>1. q \in Nat
    BY BucketsAssumption
  <2> QED BY <1>0, <1>4, <2>1, CreateFacts
<1>5. ASSUME NEW q \in Allocations, ReadRecord(t, "quota", b, q)
      PROVE  SharedInv'
  <2>1. Edits("quota", q)
    BY BucketsAssumption DEF Edits
  <2> QED BY <1>0, <1>5, <2>1, ReadFacts
<1>6. CASE ReadRecord(t, "cors", b, 0)
  BY <1>0, <1>6, ReadFacts DEF Edits
<1>7. CASE DeleteBucket(t, b)
  BY <1>0, <1>7, DeleteFacts
<1>8. CASE ReserveByte(t, b)
  BY <1>0, <1>8, ReserveFacts
<1>9. CASE RemoveObject(t, b)
  BY <1>0, <1>9, RemoveFacts
<1> QED BY <1>1, <1>2, <1>3, <1>4, <1>5, <1>6, <1>7, <1>8, <1>9
        DEF BeginJob, handlePutBucketAcl, handlePutBucketPolicy, handleDeleteBucketPolicy,
            BucketsRoute, AccessRoute, QuotaRoute, CorsRoute, PolicyRoute

\* Going on with a job keeps it.
LEMMA ContinueShared ==
    ASSUME SharedInv, NEW t \in Threads, ContinueJob(t)
    PROVE  SharedInv'
<1>0. \A k : StepOn(t, job[t].b, k) => SharedInv'
  BY DEF StepOn, SharedInv
<1>1. CASE InsertRecord(t)
  BY <1>0, <1>1, InsertFacts
<1>2. CASE Track(t)
  BY <1>0, <1>2, TrackFacts
<1>3. CASE Forget(t)
  BY <1>0, <1>3, ForgetFacts
<1>4. CASE SetLedgerQuota(t)
  BY <1>0, <1>4, SetQuotaFacts
<1>5. CASE UpdateBucket(t)
  BY <1>0, <1>5, UpdateFacts
<1>6. CASE ReadForDurability(t)
  BY <1>0, <1>6, RereadFacts
<1>7. CASE RestoreQuota(t)
  BY <1>0, <1>7, RestoreFacts
<1>8. CASE CommitByte(t)
  BY <1>0, <1>8, CommitFacts
<1>9. CASE Settle(t)
  BY <1>0, <1>9, SettleFacts
<1>10. CASE Uncharge(t)
  BY <1>0, <1>10, UnchargeFacts
<1> QED BY <1>1, <1>2, <1>3, <1>4, <1>5, <1>6, <1>7, <1>8, <1>9, <1>10 DEF ContinueJob

\* Startup keeps the allocation of a record, and whatever it makes of its flags.
LEMMA Reconciled ==
    ASSUME NEW r \in BucketRecords
    PROVE  /\ reconcile(r) \in BucketRecords /\ reconcile(r).quota = r.quota
           /\ reconcile(r).policy = r.policy
           /\ \/ reconcile(r) = r
              \/ reconcile(r).access = Granted(r.policy)
<1> DEFINE g == Granted(r.policy)
<1>1. CASE r.policy = "none"
  BY <1>1 DEF reconcile
<1>2. CASE r.policy # "none"
  <2>1. reconcile(r) = [r EXCEPT !.access = g]
    BY <1>2 DEF reconcile
  <2>2. g \in SUBSET Flags
    BY GrantedFlags
  <2> HIDE DEF g
  <2>3. /\ [r EXCEPT !.access = g] \in BucketRecords /\ [r EXCEPT !.access = g].quota = r.quota
        /\ [r EXCEPT !.access = g].policy = r.policy /\ [r EXCEPT !.access = g].access = g
    BY <2>2, RecordEdits
  <2> QED BY <2>1, <2>3 DEF g
<1> QED BY <1>1, <1>2

\* What a restart makes of each bucket.
LEMMA RestartFacts ==
    ASSUME SharedInv, RestartBuckets
    PROVE  /\ SharedInv' /\ objects' = objects /\ asked' = asked /\ pool' = pool
           /\ \A t \in Threads : job'[t] = Idle
           /\ \A b \in Buckets :
                /\ Recorded(record'[b]) = Recorded(record[b])
                /\ ledger'[b].quota = Recorded(record[b])
                /\ ledger'[b].used = objects[b] /\ ledger'[b].reserved = 0
                /\ record'[b] = NoBucket <=> record[b] = NoBucket
                /\ record[b] # NoBucket => record[b] \in BucketRecords
                                             /\ record'[b] = reconcile(record[b])
<1>1. /\ objects' = objects /\ asked' = asked /\ pool' = pool
      /\ job' = [t \in Threads |-> Idle]
      /\ \A b \in Buckets :
            record'[b] = IF record[b] # NoBucket THEN reconcile(record[b]) ELSE NoBucket
      /\ \A b \in Buckets : ledger'[b] = seed(b)
  BY DEF RestartBuckets, Exists, Threads
<1>2. ASSUME NEW b \in Buckets
      PROVE  /\ Recorded(record'[b]) = Recorded(record[b])
             /\ ledger'[b].quota = Recorded(record[b])
             /\ ledger'[b].used = objects[b] /\ ledger'[b].reserved = 0
             /\ record'[b] = NoBucket <=> record[b] = NoBucket
             /\ record[b] # NoBucket => record[b] \in BucketRecords
                                          /\ record'[b] = reconcile(record[b])
             /\ record'[b] \in BucketRecords \cup {NoBucket}
             /\ ledger'[b] \in Entries
  <2>1. objects[b] \in 0 .. 1 /\ record[b] \in BucketRecords \cup {NoBucket}
          /\ (objects[b] > 0 => record[b] # NoBucket)
    BY DEF SharedInv, RecordsTyped, ObjectsHaveBucket, Exists
  <2>2. CASE record[b] = NoBucket
    <3>0. objects[b] = 0
      BY <2>1, <2>2
    <3>1. ledger'[b] = NoEntry /\ record'[b] = NoBucket /\ objects[b] = 0
      <4>1. seed(b) = NoEntry
        BY <2>2 DEF seed, Exists
      <4> QED BY <1>1, <2>2, <3>0, <4>1
    <3>2. NoEntry.quota = 0 /\ NoEntry.used = 0 /\ NoEntry.reserved = 0 /\ NoEntry \in Entries
      BY DEF NoEntry, Entries
    <3> QED BY <2>2, <3>1, <3>2 DEF Recorded
  <2>3. CASE record[b] # NoBucket
    <3>1. /\ ledger'[b] = [quota |-> record[b].quota, used |-> objects[b], reserved |-> 0]
          /\ record'[b] = reconcile(record[b]) /\ record[b] \in BucketRecords
      BY <1>1, <2>1, <2>3 DEF seed, Exists
    <3>2. record[b].quota \in Nat /\ objects[b] \in Nat
      BY <2>1, <3>1 DEF BucketRecords
    <3>3. /\ ledger'[b].quota = record[b].quota /\ ledger'[b].used = objects[b]
          /\ ledger'[b].reserved = 0 /\ ledger'[b] \in Entries
      BY <3>1, <3>2 DEF Entries
    <3>4. record'[b] \in BucketRecords /\ record'[b].quota = record[b].quota
      BY <3>1, Reconciled
    <3>5. record'[b] # NoBucket
      BY <3>4, BucketsAssumption
    <3> QED BY <2>3, <3>1, <3>3, <3>4, <3>5 DEF Recorded
  <2> QED BY <2>2, <2>3
<1>3. RecordsTyped'
  <2>1. record' \in [Buckets -> BucketRecords \cup {NoBucket}]
    BY <1>2 DEF RestartBuckets
  <2>2. ledger' \in [Buckets -> Entries]
    BY <1>2 DEF RestartBuckets
  <2> QED BY <1>1, <2>1, <2>2 DEF SharedInv, RecordsTyped
<1>4. JobsTyped'
  BY <1>1, IdleJob DEF SharedInv, JobsTyped
<1>5. ObjectsHaveBucket'
  BY <1>1, <1>2 DEF SharedInv, ObjectsHaveBucket, Exists
<1> QED BY <1>1, <1>2, <1>3, <1>4, <1>5 DEF SharedInv

\* Initially the store is empty, or holds one bucket of an earlier build.
LEMMA InitFacts ==
    ASSUME BucketsInit
    PROVE  /\ SharedInv
           /\ \A t \in Threads : job[t] = Idle
           /\ \A b \in Buckets :
                /\ ledger[b].quota = 0 /\ ledger[b].used = 0 /\ ledger[b].reserved = 0
                /\ objects[b] = 0 /\ asked[b] = {}
                /\ record[b] # NoBucket => record[b].quota = 0 /\ record[b].access = {}
<1> DEFINE old == reconcile(Inherited)
<1>1. old \in BucketRecords /\ old.quota = 0 /\ old.access = {}
  <2>1. Inherited \in BucketRecords /\ Inherited.quota = 0 /\ Inherited.policy = Foreign
    BY DEF Inherited, BucketRecords, Policies
  <2>2. reconcile(Inherited) = [Inherited EXCEPT !.access = Granted(Foreign)]
    BY <2>1 DEF reconcile, Foreign
  <2>3. Granted(Foreign) = {}
    BY DEF Granted, Foreign
  <2>4. {} \in SUBSET Flags
    OBVIOUS
  <2>5. /\ [Inherited EXCEPT !.access = {}] \in BucketRecords
        /\ [Inherited EXCEPT !.access = {}].quota = 0
        /\ [Inherited EXCEPT !.access = {}].access = {}
    BY <2>1, <2>4, RecordEdits
  <2> QED BY <2>2, <2>3, <2>5
<1> HIDE DEF old
<1>2. \A b \in Buckets : record[b] \in {NoBucket, old}
  BY DEF BucketsInit, old
<1>3. record \in [Buckets -> BucketRecords \cup {NoBucket}]
  <2>1. \/ record = [b \in Buckets |-> NoBucket]
        \/ \E q \in Published : record = [b \in Buckets |-> IF b = q THEN old ELSE NoBucket]
    BY DEF BucketsInit, old
  <2> QED BY <1>1, <2>1
<1>4. ASSUME NEW b \in Buckets
      PROVE  /\ ledger[b].quota = 0 /\ ledger[b].used = 0 /\ ledger[b].reserved = 0
             /\ objects[b] = 0 /\ asked[b] = {} /\ ledger[b] \in Entries
             /\ record[b] # NoBucket => record[b].quota = 0 /\ record[b].access = {}
  <2>1. objects[b] = 0 /\ asked[b] = {} /\ ledger[b] = seed(b)
    BY DEF BucketsInit
  <2>2. CASE record[b] = NoBucket
    BY <2>1, <2>2 DEF seed, Exists, NoEntry, Entries
  <2>3. CASE record[b] # NoBucket
    <3>1. record[b].quota = 0 /\ record[b].access = {}
      BY <1>1, <1>2, <2>3
    <3>2. ledger[b] = [quota |-> 0, used |-> 0, reserved |-> 0]
      BY <2>1, <2>3, <3>1 DEF seed, Exists
    <3> QED BY <2>1, <3>1, <3>2 DEF Entries
  <2> QED BY <2>2, <2>3
<1>5. RecordsTyped
  BY <1>3, <1>4 DEF BucketsInit, RecordsTyped
<1>6. JobsTyped
  BY IdleJob DEF BucketsInit, JobsTyped, Threads
<1>7. ObjectsHaveBucket
  BY <1>4 DEF ObjectsHaveBucket
<1> QED BY <1>4, <1>5, <1>6, <1>7 DEF SharedInv, BucketsInit, Threads

-----------------------------------------------------------------------------
(* One thread: the sums, and a step seen from the bucket it is about.       *)

QuotaSum(l, except) == SumFunctionOnSet([c \in Buckets |-> l[c].quota], Buckets \ except)

\* The sum over all is the quota of one bucket and the sum over the others.
LEMMA WholeSum ==
    ASSUME NEW l \in [Buckets -> Entries], NEW b \in Buckets
    PROVE  /\ QuotaSum(l, {b}) \in Nat /\ l[b].quota \in Nat
           /\ QuotaSum(l, {}) = l[b].quota + QuotaSum(l, {b})
<1> DEFINE f == [c \in Buckets |-> l[c].quota]
<1>1. \A c \in Buckets : f[c] \in Nat
  BY DEF Entries
<1>2. f[b] = l[b].quota /\ Buckets \ {} = Buckets
  OBVIOUS
<1>3. IsFiniteSet(Buckets) /\ IsFiniteSet(Buckets \ {b})
  BY BucketsAssumption, FS_Subset
<1> HIDE DEF f
<1>4. SumFunctionOnSet(f, Buckets) = f[b] + SumFunctionOnSet(f, Buckets \ {b})
  BY <1>1, <1>3, SumRemove
<1>5. SumFunctionOnSet(f, Buckets \ {b}) \in Nat
  BY <1>1, <1>3, SumNat
<1>6. f[b] \in Nat
  BY <1>1
<1> QED BY <1>2, <1>4, <1>5, <1>6 DEF QuotaSum, f

\* The others' sum depends on the others only.
LEMMA OthersSum ==
    ASSUME NEW l \in [Buckets -> Entries], NEW m \in [Buckets -> Entries], NEW x,
           \A c \in Buckets \ x : m[c].quota = l[c].quota
    PROVE  QuotaSum(m, x) = QuotaSum(l, x)
<1> DEFINE f == [c \in Buckets |-> l[c].quota]
           g == [c \in Buckets |-> m[c].quota]
<1>1. \A c \in Buckets \ x : f[c] \in Nat /\ g[c] = f[c]
  BY DEF Entries
<1>2. IsFiniteSet(Buckets \ x)
  BY BucketsAssumption, FS_Subset
<1> HIDE DEF f, g
<1>3. SumFunctionOnSet(g, Buckets \ x) = SumFunctionOnSet(f, Buckets \ x)
  BY <1>1, <1>2, SumAgrees
<1> QED BY <1>3 DEF QuotaSum, f, g

\* allocatedLocked, before and after a step, as such a sum.
LEMMA AllocatedIs ==
    ASSUME NEW x
    PROVE  Allocated(x) = QuotaSum(ledger, x) /\ Allocated(x)' = QuotaSum(ledger', x)
BY DEF Allocated, QuotaSum

\* A step of the one thread on bucket b: the invariant need only be shown of b.
LEMMA OneBucket ==
    ASSUME SharedInv, AloneInv, pool = {1}, 1 \in Threads,
           NEW b \in Buckets, NEW k, StepOn(1, b, k),
           Own(k, ledger'[b], record'[b], objects'[b]),
           Reasoned(record'[b], asked'[b]),
           Room(Allocated({b}), ledger'[b].quota),
           k # Idle => Room(Allocated({b}), Recorded(record'[b])),
           k.op = "create" => Room(Allocated({b}), k.arg)
    PROVE  AloneInv'
<1>1. /\ job'[1] = k /\ Frame(b) /\ (k = Idle \/ k.b = b)
      /\ (job[1] = Idle \/ job[1].b = b)
  BY DEF StepOn, Becomes, SharedInv, JobsTyped
<1>2. ledger \in [Buckets -> Entries] /\ ledger' \in [Buckets -> Entries]
  BY DEF SharedInv, RecordsTyped, StepOn
<1>3. QuotaSum(ledger', {b}) = QuotaSum(ledger, {b})
  <2>1. \A c \in Buckets \ {b} : ledger'[c].quota = ledger[c].quota
    BY <1>1 DEF Frame
  <2> QED BY <1>2, <2>1, OthersSum
<1>4. Allocated({b})' = Allocated({b})
  BY <1>3, AllocatedIs
<1>5. NotOverAllocated'
  <2>1. /\ QuotaSum(ledger', {b}) \in Nat /\ ledger'[b].quota \in Nat
        /\ QuotaSum(ledger', {}) = ledger'[b].quota + QuotaSum(ledger', {b})
    BY <1>2, WholeSum
  <2>2. Allocated({})' = QuotaSum(ledger', {}) /\ Allocated({b}) = QuotaSum(ledger, {b})
    BY AllocatedIs
  <2> QED BY <1>3, <2>1, <2>2 DEF Room, NotOverAllocated
<1>6. ASSUME NEW c \in Buckets
      PROVE  /\ Own(JobAt(c)', ledger'[c], record'[c], objects'[c])
             /\ Reasoned(record'[c], asked'[c])
  <2>1. CASE c = b
    <3>1. JobAt(c)' = k
      BY <1>1, <2>1 DEF JobAt
    <3> QED BY <2>1, <3>1
  <2>2. CASE c # b
    <3>1. JobAt(c)' = Idle /\ JobAt(c) = Idle
      BY <1>1, <2>2 DEF JobAt
    <3>2. /\ ledger'[c] = ledger[c] /\ record'[c] = record[c]
          /\ objects'[c] = objects[c] /\ asked'[c] = asked[c]
      BY <1>1, <2>2 DEF Frame
    <3>3. Own(JobAt(c), ledger[c], record[c], objects[c]) /\ Reasoned(record[c], asked[c])
      BY DEF AloneInv
    <3> QED BY <3>1, <3>2, <3>3
  <2> QED BY <2>1, <2>2
<1>7. job'[1] # Idle =>
          Room(Allocated({job[1].b})', Recorded(record[job[1].b])')
  <2>1. ASSUME k # Idle
        PROVE  job'[1].b = b
    BY <1>1, <2>1
  <2> QED BY <1>1, <1>4, <2>1 DEF Allocated
<1>8. job'[1].op = "create" => Room(Allocated({job[1].b})', job'[1].arg)
  <2>1. ASSUME k.op = "create"
        PROVE  job'[1].b = b
    BY <1>1, <2>1, IdleJob
  <2> QED BY <1>1, <1>4, <2>1 DEF Allocated
<1> QED BY <1>5, <1>6, <1>7, <1>8 DEF AloneInv, Room

\* What the invariant says of any bucket's quota.
LEMMA RoomForAll ==
    ASSUME SharedInv, AloneInv, NEW b \in Buckets
    PROVE  /\ Allocated({b}) \in Nat /\ ledger[b].quota \in Nat
           /\ Allocated({}) = ledger[b].quota + Allocated({b})
           /\ Room(Allocated({b}), ledger[b].quota)
           /\ Room(Allocated({b}), 0)
<1>1. ledger \in [Buckets -> Entries]
  BY DEF SharedInv, RecordsTyped
<1>2. /\ QuotaSum(ledger, {b}) \in Nat /\ ledger[b].quota \in Nat
      /\ QuotaSum(ledger, {}) = ledger[b].quota + QuotaSum(ledger, {b})
  BY <1>1, WholeSum
<1>3. Allocated({}) = QuotaSum(ledger, {}) /\ Allocated({b}) = QuotaSum(ledger, {b})
  BY AllocatedIs
<1>4. allocatable \in Nat /\ (allocatable = 0 \/ Allocated({}) <= allocatable)
  BY BucketsAssumption DEF AloneInv, NotOverAllocated
<1> QED BY <1>2, <1>3, <1>4 DEF Room

\* Before a job begins, every bucket is settled.
LEMMA Settled ==
    ASSUME SharedInv, AloneInv, job[1] = Idle, NEW b \in Buckets
    PROVE  /\ Own(Idle, ledger[b], record[b], objects[b]) /\ Reasoned(record[b], asked[b])
           /\ ledger[b].quota = Recorded(record[b])
           /\ ledger[b].used = objects[b] /\ ledger[b].reserved = 0
           /\ record[b] = NoBucket => objects[b] = 0
<1>1. JobAt(b) = Idle
  BY DEF JobAt
<1>2. Own(Idle, ledger[b], record[b], objects[b]) /\ Reasoned(record[b], asked[b])
  BY <1>1 DEF AloneInv
<1>3. record[b] = NoBucket => objects[b] = 0
  BY DEF SharedInv, RecordsTyped, ObjectsHaveBucket, Exists
<1> QED BY <1>2, <1>3, IdleJob DEF Own

\* While a job is at work, its bucket is as Own says.
LEMMA AtWork ==
    ASSUME SharedInv, AloneInv, 1 \in Threads, job[1].at # "idle"
    PROVE  /\ Own(job[1], ledger[job[1].b], record[job[1].b], objects[job[1].b])
           /\ Reasoned(record[job[1].b], asked[job[1].b])
           /\ Room(Allocated({job[1].b}), Recorded(record[job[1].b]))
           /\ job[1].op = "create" => Room(Allocated({job[1].b}), job[1].arg)
           /\ record[job[1].b] = NoBucket => objects[job[1].b] = 0
<1>1. job[1].b \in Buckets /\ job[1] # Idle
  BY BusyJob DEF SharedInv
<1>2. JobAt(job[1].b) = job[1]
  BY DEF JobAt
<1>3. record[job[1].b] = NoBucket => objects[job[1].b] = 0
  BY <1>1 DEF SharedInv, RecordsTyped, ObjectsHaveBucket, Exists
<1>4. /\ Own(job[1], ledger[job[1].b], record[job[1].b], objects[job[1].b])
      /\ Reasoned(record[job[1].b], asked[job[1].b])
  BY <1>1, <1>2 DEF AloneInv
<1> QED BY <1>1, <1>3, <1>4 DEF AloneInv

\* Fields of a new job.
LEMMA NewJobFields ==
    ASSUME NEW op, NEW at, NEW b, NEW arg, NEW seen
    PROVE  /\ NewJob(op, at, b, arg, seen).op = op /\ NewJob(op, at, b, arg, seen).at = at
           /\ NewJob(op, at, b, arg, seen).b = b /\ NewJob(op, at, b, arg, seen).arg = arg
           /\ NewJob(op, at, b, arg, seen).seen = seen
BY DEF NewJob

\* The premises under which the one thread's step is examined.
OneThread == SharedInv /\ AloneInv /\ pool = {1} /\ 1 \in Threads

\* One thread, CreateBucket: the room it found is still there.
LEMMA CreateAlone ==
    ASSUME OneThread, NEW b \in Buckets, NEW q \in Nat, Create(1, b, q)
    PROVE  AloneInv'
<1> USE DEF OneThread
<1>1. /\ StepOn(1, b, NewJob("create", "insert", b, q, NoBucket)) /\ Still
      /\ job[1] = Idle /\ AdmitAllocation(q)
  BY CreateFacts
<1>2. PICK k : /\ k = NewJob("create", "insert", b, q, NoBucket)
               /\ k.op = "create" /\ k.at = "insert" /\ k.arg = q
  BY NewJobFields
<1>3. /\ Reasoned(record[b], asked[b])
      /\ ledger[b].quota = Recorded(record[b])
      /\ ledger[b].used = objects[b] /\ ledger[b].reserved = 0
  BY <1>1, Settled
<1>4. Own(k, ledger[b], record[b], objects[b])
  BY <1>2, <1>3 DEF Own
<1>5. Room(Allocated({b}), ledger[b].quota) /\ Room(Allocated({b}), q)
  <2>1. /\ Allocated({b}) \in Nat /\ ledger[b].quota \in Nat
        /\ Allocated({}) = ledger[b].quota + Allocated({b})
        /\ Room(Allocated({b}), ledger[b].quota) /\ Room(Allocated({b}), 0)
    BY RoomForAll
  <2>2. allocatable \in Nat
    BY BucketsAssumption
  <2>3. allocatable = 0 \/ q = 0 \/ Allocated({}) + q <= allocatable
    BY <1>1 DEF AdmitAllocation
  <2> QED BY <2>1, <2>2, <2>3 DEF Room
<1> QED BY <1>1, <1>2, <1>3, <1>4, <1>5, OneBucket DEF Still

\* One thread, the insertion: the bucket owes the ledger its quota.
LEMMA InsertAlone ==
    ASSUME OneThread, InsertRecord(1)
    PROVE  AloneInv'
<1> USE DEF OneThread
<1>1. PICK b \in Buckets, j \in Jobs : b = job[1].b /\ j = job[1]
  BY InsertFacts
<1>2. /\ j.op = "create" /\ j.at = "insert" /\ j.arg \in Nat
      /\ \/ /\ StepOn(1, b, Later(j, "track")) /\ ledger' = ledger /\ objects' = objects
            /\ record[b] = NoBucket /\ record'[b] = BucketRecord(j.arg) /\ asked'[b] = {}
         \/ StepOn(1, b, Idle) /\ Still
  BY <1>1, InsertFacts
<1>3. /\ Own(j, ledger[b], record[b], objects[b]) /\ Reasoned(record[b], asked[b])
      /\ Room(Allocated({b}), Recorded(record[b])) /\ Room(Allocated({b}), j.arg)
      /\ record[b] = NoBucket => objects[b] = 0
  BY <1>1, <1>2, AtWork
<1>4. Room(Allocated({b}), ledger[b].quota)
  BY RoomForAll
<1>5. CASE /\ StepOn(1, b, Later(j, "track")) /\ ledger' = ledger /\ objects' = objects
           /\ record[b] = NoBucket /\ record'[b] = BucketRecord(j.arg) /\ asked'[b] = {}
  <2>1. "track" \in Steps
    BY DEF Steps
  <2>2. PICK k : /\ k = Later(j, "track") /\ k.op = "create" /\ k.at = "track"
                 /\ k.arg = j.arg
    BY <1>2, <2>1, LaterJob
  <2>3. /\ record'[b] # NoBucket /\ record'[b].quota = j.arg
        /\ record'[b].access = {}
    <3>1. BucketRecord(j.arg) \in BucketRecords
      BY <1>2 DEF BucketRecord, BucketRecords, Policies
    <3>2. BucketRecord(j.arg).quota = j.arg /\ BucketRecord(j.arg).access = {}
      BY DEF BucketRecord
    <3> QED BY <1>5, <3>1, <3>2, BucketsAssumption
  <2>4. Own(k, ledger'[b], record'[b], objects'[b])
    <3>1. ledger[b].quota = 0 /\ ledger[b].used = objects[b] /\ ledger[b].reserved = 0
      BY <1>2, <1>3, <1>5 DEF Own, Recorded
    <3> QED BY <1>5, <2>2, <2>3, <3>1 DEF Own
  <2>5. Reasoned(record'[b], asked'[b])
    BY <1>5, <2>3 DEF Reasoned
  <2>6. Room(Allocated({b}), Recorded(record'[b])) /\ Room(Allocated({b}), k.arg)
    BY <1>3, <2>2, <2>3 DEF Recorded
  <2> QED BY <1>4, <1>5, <2>2, <2>4, <2>5, <2>6, OneBucket
<1>6. CASE StepOn(1, b, Idle) /\ Still
  <2>1. Own(Idle, ledger[b], record[b], objects[b])
    BY <1>2, <1>3, IdleJob DEF Own
  <2> QED BY <1>3, <1>4, <1>6, <2>1, IdleJob, OneBucket DEF Still
<1> QED BY <1>2, <1>5, <1>6

\* One thread, the ledger catches up with the record.
LEMMA TrackAlone ==
    ASSUME OneThread, Track(1)
    PROVE  AloneInv'
<1> USE DEF OneThread
<1>0. PICK j : j = job[1]
  OBVIOUS
<1>1. PICK b \in Buckets : b = job[1].b /\ j = job[1]
  BY <1>0, TrackFacts
<1>2. /\ j.op = "create" /\ j.at = "track"
      /\ StepOn(1, b, Idle) /\ record' = record /\ objects' = objects /\ asked' = asked
      /\ ledger'[b].quota = j.arg /\ ledger'[b].used = ledger[b].used
      /\ ledger'[b].reserved = ledger[b].reserved
  BY <1>1, TrackFacts
<1>3. /\ Own(j, ledger[b], record[b], objects[b]) /\ Reasoned(record[b], asked[b])
      /\ Room(Allocated({b}), j.arg)
  BY <1>1, <1>2, AtWork
<1>4. Own(Idle, ledger'[b], record'[b], objects'[b])
  BY <1>2, <1>3, IdleJob DEF Own, Recorded
<1> QED BY <1>2, <1>3, <1>4, IdleJob, OneBucket

\* One thread, the record goes and its quota is still in the ledger.
LEMMA DeleteAlone ==
    ASSUME OneThread, NEW b \in Buckets, DeleteBucket(1, b)
    PROVE  AloneInv'
<1> USE DEF OneThread
<1>1. /\ StepOn(1, b, NewJob("delete", "forget", b, 0, NoBucket))
      /\ job[1] = Idle /\ objects[b] = 0
      /\ ledger' = ledger /\ objects' = objects /\ asked' = asked
      /\ record'[b] = NoBucket
  BY DeleteFacts
<1>2. PICK k : /\ k = NewJob("delete", "forget", b, 0, NoBucket)
               /\ k.op = "delete" /\ k.at = "forget"
  BY NewJobFields
<1>3. ledger[b].used = objects[b] /\ ledger[b].reserved = 0
  BY <1>1, Settled
<1>4. Own(k, ledger'[b], record'[b], objects'[b])
  BY <1>1, <1>2, <1>3 DEF Own
<1>5. Reasoned(record'[b], asked'[b]) /\ Recorded(record'[b]) = 0
  BY <1>1 DEF Reasoned, Recorded
<1>6. Room(Allocated({b}), ledger[b].quota) /\ Room(Allocated({b}), 0)
  BY RoomForAll
<1> QED BY <1>1, <1>2, <1>4, <1>5, <1>6, OneBucket

\* One thread, the ledger catches up with the deletion.
LEMMA ForgetAlone ==
    ASSUME OneThread, Forget(1)
    PROVE  AloneInv'
<1> USE DEF OneThread
<1>0. PICK j : j = job[1]
  OBVIOUS
<1>1. PICK b \in Buckets : b = job[1].b /\ j = job[1]
  BY <1>0, ForgetFacts
<1>2. /\ j.op = "delete" /\ j.at = "forget"
      /\ StepOn(1, b, Idle) /\ record' = record /\ objects' = objects /\ asked' = asked
      /\ ledger'[b] = NoEntry
  BY <1>1, ForgetFacts
<1>3. /\ Own(j, ledger[b], record[b], objects[b]) /\ Reasoned(record[b], asked[b])
      /\ record[b] = NoBucket => objects[b] = 0
  BY <1>1, <1>2, AtWork
<1>4. NoEntry.quota = 0 /\ NoEntry.used = 0 /\ NoEntry.reserved = 0
  BY DEF NoEntry
<1>5. Own(Idle, ledger'[b], record'[b], objects'[b])
  BY <1>2, <1>3, <1>4, IdleJob DEF Own, Recorded
<1>6. Room(Allocated({b}), 0)
  BY RoomForAll
<1> QED BY <1>2, <1>3, <1>4, <1>5, <1>6, IdleJob, OneBucket

\* One thread, what is read stays what is recorded.
LEMMA ReadAlone ==
    ASSUME OneThread, NEW b \in Buckets, NEW op, NEW arg, Edits(op, arg),
           ReadRecord(1, op, b, arg)
    PROVE  AloneInv'
<1> USE DEF OneThread
<1>1. /\ job[1] = Idle /\ Exists(b) /\ Still
      /\ \/ op = "quota" /\ StepOn(1, b, NewJob(op, "ledger", b, arg, record[b]))
         \/ op # "quota" /\ StepOn(1, b, NewJob(op, "write", b, arg, record[b]))
  BY ReadFacts
<1>2. PICK k, at : /\ at \in {"ledger", "write"} /\ (at = "ledger" <=> op = "quota")
                   /\ StepOn(1, b, k)
                   /\ k.op = op /\ k.at = at /\ k.arg = arg /\ k.seen = record[b]
  BY <1>1, NewJobFields
<1>3. /\ Reasoned(record[b], asked[b])
      /\ ledger[b].quota = Recorded(record[b])
      /\ ledger[b].used = objects[b] /\ ledger[b].reserved = 0
  BY <1>1, Settled
<1>4. op \notin {"create", "delete", "put"}
  BY DEF Edits
<1>5. Own(k, ledger[b], record[b], objects[b])
  BY <1>2, <1>3, <1>4 DEF Own
<1>6. Room(Allocated({b}), ledger[b].quota)
  BY RoomForAll
<1> QED BY <1>1, <1>2, <1>3, <1>4, <1>5, <1>6, OneBucket DEF Still

\* QuotaLedger::setQuota leaves room for what it takes.
LEMMA QuotaRoom ==
    ASSUME SharedInv, AloneInv, NEW b \in Buckets, NEW q \in Nat, QuotaFits(b, q)
    PROVE  Room(Allocated({b}), q)
BY RoomForAll DEF QuotaFits, Room

\* One thread, the ledger is ahead of the record by the quota admitted.
LEMMA SetQuotaAlone ==
    ASSUME OneThread, SetLedgerQuota(1)
    PROVE  AloneInv'
<1> USE DEF OneThread
<1>1. PICK b \in Buckets, j \in Jobs : b = job[1].b /\ j = job[1]
  BY SetQuotaFacts
<1>2. /\ j.op = "quota" /\ j.at = "ledger" /\ j.arg \in Nat
      /\ \/ /\ QuotaFits(b, j.arg) /\ StepOn(1, b, Later(j, "write"))
            /\ record' = record /\ objects' = objects /\ asked' = asked
            /\ ledger'[b].quota = j.arg /\ ledger'[b].used = ledger[b].used
            /\ ledger'[b].reserved = ledger[b].reserved
         \/ StepOn(1, b, Idle) /\ Still
  BY <1>1, SetQuotaFacts
<1>3. /\ Own(j, ledger[b], record[b], objects[b]) /\ Reasoned(record[b], asked[b])
      /\ Room(Allocated({b}), Recorded(record[b]))
  BY <1>1, <1>2, AtWork
<1>4. CASE /\ QuotaFits(b, j.arg) /\ StepOn(1, b, Later(j, "write"))
           /\ record' = record /\ objects' = objects /\ asked' = asked
           /\ ledger'[b].quota = j.arg /\ ledger'[b].used = ledger[b].used
           /\ ledger'[b].reserved = ledger[b].reserved
  <2>1. "write" \in Steps
    BY DEF Steps
  <2>2. PICK k : /\ k = Later(j, "write") /\ k.op = "quota" /\ k.at = "write"
                 /\ k.arg = j.arg /\ k.seen = j.seen
    BY <1>2, <2>1, LaterJob
  <2>3. Own(k, ledger'[b], record'[b], objects'[b])
    BY <1>2, <1>3, <1>4, <2>2 DEF Own
  <2>4. Room(Allocated({b}), j.arg)
    BY <1>2, <1>4, QuotaRoom
  <2> QED BY <1>3, <1>4, <2>2, <2>3, <2>4, OneBucket
<1>5. CASE StepOn(1, b, Idle) /\ Still
  <2>1. Own(Idle, ledger[b], record[b], objects[b])
    BY <1>2, <1>3, IdleJob DEF Own
  <2>2. Room(Allocated({b}), ledger[b].quota)
    BY RoomForAll
  <2> QED BY <1>3, <1>5, <2>1, <2>2, IdleJob, OneBucket DEF Still
<1> QED BY <1>2, <1>4, <1>5

\* One thread, the record written is the record read with one change.
LEMMA UpdateAlone ==
    ASSUME OneThread, UpdateBucket(1)
    PROVE  AloneInv'
<1> USE DEF OneThread
<1>1. PICK b \in Buckets, j \in Jobs : b = job[1].b /\ j = job[1]
  BY UpdateFacts
<1>2. /\ j.at = "write" /\ JobFits(j)
      /\ \/ /\ Exists(b)
            /\ StepOn(1, b, Idle) \/ (j.op = "access" /\ StepOn(1, b, Later(j, "durability")))
            /\ objects' = objects /\ ledger' = ledger
            /\ record'[b] = Changed(j.seen, j.op, j.arg) /\ record'[b] \in BucketRecords
            /\ asked'[b] = IF j.op \in {"access", "acl", "policy"}
                           THEN record'[b].access ELSE asked[b]
         \/ /\ Still
            /\ \/ j.op = "quota" /\ StepOn(1, b, Later(j, "restore"))
               \/ j.op # "quota" /\ StepOn(1, b, Idle)
  BY <1>1, UpdateFacts
<1>3. /\ Own(j, ledger[b], record[b], objects[b]) /\ Reasoned(record[b], asked[b])
      /\ Room(Allocated({b}), Recorded(record[b]))
  BY <1>1, <1>2, AtWork
<1>4. Room(Allocated({b}), ledger[b].quota)
  BY RoomForAll
<1>5. /\ j.op \in {"access", "acl", "policy", "quota", "cors", "durability"}
      /\ j.seen \in BucketRecords /\ j.seen = record[b]
      /\ j.op \in {"access", "acl"} => j.arg \in SUBSET Flags
      /\ j.op = "policy" => j.arg \in Policies
      /\ j.op = "quota" => j.arg \in Nat
  BY <1>2, <1>3 DEF JobFits, Own
<1>6. /\ ledger[b].used = objects[b] /\ ledger[b].reserved = 0
      /\ j.op = "quota" => ledger[b].quota = j.arg
      /\ j.op # "quota" => ledger[b].quota = Recorded(record[b])
  BY <1>2, <1>3, <1>5 DEF Own
<1>7. CASE /\ Exists(b)
           /\ StepOn(1, b, Idle) \/ (j.op = "access" /\ StepOn(1, b, Later(j, "durability")))
           /\ objects' = objects /\ ledger' = ledger
           /\ record'[b] = Changed(j.seen, j.op, j.arg) /\ record'[b] \in BucketRecords
           /\ asked'[b] = IF j.op \in {"access", "acl", "policy"}
                          THEN record'[b].access ELSE asked[b]
  <2>1. record[b] # NoBucket /\ record'[b] # NoBucket
    BY <1>7, BucketsAssumption DEF Exists
  <2>2. /\ j.op # "quota" => record'[b].quota = record[b].quota
        /\ j.op = "quota" => record'[b].quota = j.arg
        /\ j.op \notin {"access", "acl", "policy"} =>
             record'[b].access = record[b].access /\ record'[b].policy = record[b].policy
    BY <1>5, <1>7, ChangedFacts
  <2>3. ledger[b].quota = Recorded(record'[b])
    BY <1>6, <2>1, <2>2 DEF Recorded
  <2>4. Reasoned(record'[b], asked'[b])
    BY <1>3, <1>7, <2>1, <2>2 DEF Reasoned
  <2>5. PICK k : /\ StepOn(1, b, k)
                 /\ k.op \in {"none", "access"} /\ k.at \in {"idle", "durability"}
    <3>1. "durability" \in Steps
      BY DEF Steps
    <3>2. j.op = "access" => /\ Later(j, "durability").op = "access"
                             /\ Later(j, "durability").at = "durability"
      BY <3>1, LaterJob
    <3> QED BY <1>7, <3>2, IdleJob
  <2>6. Own(k, ledger'[b], record'[b], objects'[b])
    BY <1>6, <1>7, <2>3, <2>5 DEF Own
  <2> QED BY <1>4, <1>7, <2>3, <2>4, <2>5, <2>6, OneBucket
<1>8. CASE Still /\ j.op = "quota" /\ StepOn(1, b, Later(j, "restore"))
  <2>1. "restore" \in Steps
    BY DEF Steps
  <2>2. PICK k : /\ k = Later(j, "restore") /\ k.op = "quota" /\ k.at = "restore"
                 /\ k.arg = j.arg /\ k.seen = j.seen
    BY <1>8, <2>1, LaterJob
  <2>3. Own(k, ledger[b], record[b], objects[b])
    BY <1>5, <1>6, <2>2 DEF Own
  <2> QED BY <1>3, <1>4, <1>8, <2>2, <2>3, OneBucket DEF Still
<1>9. CASE Still /\ j.op # "quota" /\ StepOn(1, b, Idle)
  <2>1. Own(Idle, ledger[b], record[b], objects[b])
    BY <1>6, <1>9, IdleJob DEF Own
  <2> QED BY <1>3, <1>4, <1>9, <2>1, IdleJob, OneBucket DEF Still
<1> QED BY <1>2, <1>7, <1>8, <1>9

\* One thread, the record read again is the one just written.
LEMMA RereadAlone ==
    ASSUME OneThread, ReadForDurability(1)
    PROVE  AloneInv'
<1> USE DEF OneThread
<1>1. PICK b \in Buckets, j \in Jobs : b = job[1].b /\ j = job[1]
  BY RereadFacts DEF SharedInv, JobsTyped
<1>2. /\ j.op = "access" /\ j.at = "durability" /\ Still
      /\ \/ Exists(b) /\ StepOn(1, b, Reread(j, record[b]))
         \/ StepOn(1, b, Idle)
  BY <1>1, RereadFacts
<1>3. /\ Own(j, ledger[b], record[b], objects[b]) /\ Reasoned(record[b], asked[b])
      /\ Room(Allocated({b}), Recorded(record[b]))
  BY <1>1, <1>2, AtWork
<1>4. Room(Allocated({b}), ledger[b].quota)
  BY RoomForAll
<1>5. CASE Exists(b) /\ StepOn(1, b, Reread(j, record[b]))
  <2>1. record[b] \in BucketRecords
    BY <1>5 DEF Exists, SharedInv, RecordsTyped
  <2>2. PICK k : /\ k = Reread(j, record[b]) /\ k.op = "durability" /\ k.at = "write"
                 /\ k.seen = record[b]
    BY <2>1, RereadJob
  <2>3. Own(k, ledger[b], record[b], objects[b])
    BY <1>2, <1>3, <2>2 DEF Own
  <2> QED BY <1>2, <1>3, <1>4, <1>5, <2>2, <2>3, OneBucket DEF Still
<1>6. CASE StepOn(1, b, Idle)
  <2>1. Own(Idle, ledger[b], record[b], objects[b])
    BY <1>2, <1>3, IdleJob DEF Own
  <2> QED BY <1>2, <1>3, <1>4, <1>6, <2>1, IdleJob, OneBucket DEF Still
<1> QED BY <1>2, <1>5, <1>6

\* One thread, the ledger goes back to the quota on record.
LEMMA RestoreAlone ==
    ASSUME OneThread, RestoreQuota(1)
    PROVE  AloneInv'
<1> USE DEF OneThread
<1>0. PICK j : j = job[1]
  OBVIOUS
<1>1. PICK b \in Buckets : b = job[1].b /\ j = job[1]
  BY <1>0, RestoreFacts
<1>2. /\ j.op = "quota" /\ j.at = "restore" /\ StepOn(1, b, Idle)
      /\ record' = record /\ objects' = objects /\ asked' = asked
      /\ j.seen \in BucketRecords
      /\ \/ /\ QuotaFits(b, j.seen.quota) /\ ledger'[b].quota = j.seen.quota
            /\ ledger'[b].used = ledger[b].used /\ ledger'[b].reserved = ledger[b].reserved
         \/ ~QuotaFits(b, j.seen.quota) /\ ledger' = ledger
  BY <1>1, RestoreFacts
<1>3. /\ Own(j, ledger[b], record[b], objects[b]) /\ Reasoned(record[b], asked[b])
      /\ Room(Allocated({b}), Recorded(record[b]))
  BY <1>1, <1>2, AtWork
<1>4. /\ j.seen = record[b] /\ Recorded(record[b]) = j.seen.quota /\ j.seen.quota \in Nat
      /\ ledger[b].used = objects[b] /\ ledger[b].reserved = 0
  <2>1. j.seen = record[b] /\ ledger[b].used = objects[b] /\ ledger[b].reserved = 0
    BY <1>2, <1>3 DEF Own
  <2>2. record[b] # NoBucket
    BY <1>2, <2>1, BucketsAssumption
  <2>3. j.seen.quota \in Nat
    BY <1>2 DEF BucketRecords
  <2> QED BY <2>1, <2>2, <2>3 DEF Recorded
<1>5. QuotaFits(b, j.seen.quota)
  <2>1. objects[b] \in 0 .. 1 /\ charged(b) = objects[b]
    BY <1>4 DEF SharedInv, RecordsTyped, charged
  <2> QED BY <1>3, <1>4, <2>1 DEF QuotaFits, Room
<1>6. Own(Idle, ledger'[b], record'[b], objects'[b])
  BY <1>2, <1>4, <1>5, IdleJob DEF Own
<1>7. Room(Allocated({b}), ledger'[b].quota)
  BY <1>2, <1>3, <1>4, <1>5
<1> QED BY <1>2, <1>3, <1>6, <1>7, IdleJob, OneBucket

\* One thread, the bytes reserved are the bytes of the one upload.
LEMMA ReserveAlone ==
    ASSUME OneThread, NEW b \in Buckets, ReserveByte(1, b)
    PROVE  AloneInv'
<1> USE DEF OneThread
<1>1. /\ StepOn(1, b, NewJob("put", "commit", b, 0, NoBucket)) /\ job[1] = Idle
      /\ record' = record /\ objects' = objects /\ asked' = asked
      /\ ledger'[b].reserved = ledger[b].reserved + 1
      /\ ledger'[b].quota = ledger[b].quota /\ ledger'[b].used = ledger[b].used
  BY ReserveFacts
<1>2. PICK k : /\ k = NewJob("put", "commit", b, 0, NoBucket)
               /\ k.op = "put" /\ k.at = "commit"
  BY NewJobFields
<1>3. /\ Reasoned(record[b], asked[b])
      /\ ledger[b].quota = Recorded(record[b])
      /\ ledger[b].used = objects[b] /\ ledger[b].reserved = 0
  BY <1>1, Settled
<1>4. Own(k, ledger'[b], record'[b], objects'[b])
  BY <1>1, <1>2, <1>3 DEF Own
<1>5. Room(Allocated({b}), ledger[b].quota)
  BY RoomForAll
<1> QED BY <1>1, <1>2, <1>3, <1>4, <1>5, OneBucket

\* One thread, the object is stored and its bytes are still reserved.
LEMMA CommitAlone ==
    ASSUME OneThread, CommitByte(1)
    PROVE  AloneInv'
<1> USE DEF OneThread
<1>1. PICK b \in Buckets, j \in Jobs : b = job[1].b /\ j = job[1]
  BY CommitFacts DEF SharedInv, JobsTyped
<1>2. /\ j.op = "put" /\ j.at = "commit" /\ record' = record /\ asked' = asked
      /\ \/ /\ Exists(b) /\ ledger' = ledger /\ StepOn(1, b, Committed(j, objects[b]))
            /\ objects'[b] = 1
         \/ /\ ~Exists(b) /\ objects' = objects /\ StepOn(1, b, Idle)
            /\ ledger'[b].reserved = less(ledger[b].reserved, 1)
            /\ ledger'[b].quota = ledger[b].quota /\ ledger'[b].used = ledger[b].used
  BY <1>1, CommitFacts
<1>3. /\ Own(j, ledger[b], record[b], objects[b]) /\ Reasoned(record[b], asked[b])
      /\ Room(Allocated({b}), Recorded(record[b]))
  BY <1>1, <1>2, AtWork
<1>4. /\ ledger[b].quota = Recorded(record[b]) /\ ledger[b].used = objects[b]
      /\ ledger[b].reserved = 1
  BY <1>2, <1>3 DEF Own
<1>5. CASE /\ Exists(b) /\ ledger' = ledger /\ StepOn(1, b, Committed(j, objects[b]))
           /\ objects'[b] = 1
  <2>1. objects[b] \in Args
    BY DEF SharedInv, RecordsTyped, Args
  <2>2. PICK k : /\ k = Committed(j, objects[b]) /\ k.op = "put" /\ k.at = "settle"
                 /\ k.arg = objects[b]
    BY <1>2, <2>1, CommittedJob
  <2>3. Own(k, ledger'[b], record'[b], objects'[b])
    BY <1>2, <1>4, <1>5, <2>2 DEF Own
  <2> QED BY <1>2, <1>3, <1>4, <1>5, <2>2, <2>3, OneBucket
<1>6. CASE /\ ~Exists(b) /\ objects' = objects /\ StepOn(1, b, Idle)
           /\ ledger'[b].reserved = less(ledger[b].reserved, 1)
           /\ ledger'[b].quota = ledger[b].quota /\ ledger'[b].used = ledger[b].used
  <2>1. less(1, 1) = 0
    BY DEF less
  <2>2. Own(Idle, ledger'[b], record'[b], objects'[b])
    BY <1>2, <1>4, <1>6, <2>1, IdleJob DEF Own
  <2> QED BY <1>2, <1>3, <1>4, <1>6, <2>2, IdleJob, OneBucket
<1> QED BY <1>2, <1>5, <1>6

\* One thread, used bytes are stored bytes again.
LEMMA SettleAlone ==
    ASSUME OneThread, Settle(1)
    PROVE  AloneInv'
<1> USE DEF OneThread
<1>0. PICK j : j = job[1]
  OBVIOUS
<1>1. PICK b \in Buckets : b = job[1].b /\ j = job[1]
  BY <1>0, SettleFacts
<1>2. /\ j.op = "put" /\ j.at = "settle" /\ StepOn(1, b, Idle)
      /\ record' = record /\ objects' = objects /\ asked' = asked
      /\ j.arg \in 0 .. 1
      /\ ledger'[b].reserved = less(ledger[b].reserved, 1)
      /\ ledger'[b].used = less(ledger[b].used + 1, j.arg)
      /\ ledger'[b].quota = ledger[b].quota
  BY <1>1, SettleFacts
<1>3. /\ Own(j, ledger[b], record[b], objects[b]) /\ Reasoned(record[b], asked[b])
      /\ Room(Allocated({b}), Recorded(record[b]))
  BY <1>1, <1>2, AtWork
<1>4. /\ ledger[b].quota = Recorded(record[b]) /\ ledger[b].used = j.arg
      /\ ledger[b].reserved = 1 /\ objects[b] = 1
  BY <1>2, <1>3 DEF Own
<1>5. less(1, 1) = 0 /\ less(j.arg + 1, j.arg) = 1
  BY <1>2 DEF less
<1>6. Own(Idle, ledger'[b], record'[b], objects'[b])
  BY <1>2, <1>4, <1>5, IdleJob DEF Own
<1> QED BY <1>2, <1>3, <1>4, <1>6, IdleJob, OneBucket

\* One thread, the object is gone and its bytes are still charged.
LEMMA RemoveAlone ==
    ASSUME OneThread, NEW b \in Buckets, RemoveObject(1, b)
    PROVE  AloneInv'
<1> USE DEF OneThread
<1>1. /\ StepOn(1, b, NewJob("remove", "uncharge", b, 0, NoBucket)) /\ job[1] = Idle
      /\ record' = record /\ ledger' = ledger /\ asked' = asked
      /\ objects[b] = 1 /\ objects'[b] = 0
  BY RemoveFacts
<1>2. PICK k : /\ k = NewJob("remove", "uncharge", b, 0, NoBucket)
               /\ k.op = "remove" /\ k.at = "uncharge"
  BY NewJobFields
<1>3. /\ Reasoned(record[b], asked[b])
      /\ ledger[b].quota = Recorded(record[b])
      /\ ledger[b].used = objects[b] /\ ledger[b].reserved = 0
  BY <1>1, Settled
<1>4. Own(k, ledger'[b], record'[b], objects'[b])
  BY <1>1, <1>2, <1>3 DEF Own
<1>5. Room(Allocated({b}), ledger[b].quota)
  BY RoomForAll
<1> QED BY <1>1, <1>2, <1>3, <1>4, <1>5, OneBucket

\* One thread, used bytes are stored bytes again.
LEMMA UnchargeAlone ==
    ASSUME OneThread, Uncharge(1)
    PROVE  AloneInv'
<1> USE DEF OneThread
<1>0. PICK j : j = job[1]
  OBVIOUS
<1>1. PICK b \in Buckets : b = job[1].b /\ j = job[1]
  BY <1>0, UnchargeFacts
<1>2. /\ j.op = "remove" /\ j.at = "uncharge" /\ StepOn(1, b, Idle)
      /\ record' = record /\ objects' = objects /\ asked' = asked
      /\ ledger'[b].used = less(ledger[b].used, 1)
      /\ ledger'[b].reserved = ledger[b].reserved
      /\ ledger'[b].quota = ledger[b].quota
  BY <1>1, UnchargeFacts
<1>3. /\ Own(j, ledger[b], record[b], objects[b]) /\ Reasoned(record[b], asked[b])
      /\ Room(Allocated({b}), Recorded(record[b]))
  BY <1>1, <1>2, AtWork
<1>4. /\ ledger[b].quota = Recorded(record[b]) /\ ledger[b].used = 1
      /\ ledger[b].reserved = 0 /\ objects[b] = 0
  BY <1>2, <1>3 DEF Own
<1>5. less(1, 1) = 0
  BY DEF less
<1>6. Own(Idle, ledger'[b], record'[b], objects'[b])
  BY <1>2, <1>4, <1>5, IdleJob DEF Own
<1> QED BY <1>2, <1>3, <1>4, <1>6, IdleJob, OneBucket

\* A restart makes the ledger what the records say, which had room at every step.
LEMMA RestartAlone ==
    ASSUME OneThread, RestartBuckets
    PROVE  AloneInv'
<1> USE DEF OneThread
<1>1. /\ SharedInv' /\ objects' = objects /\ asked' = asked /\ job'[1] = Idle
      /\ \A b \in Buckets :
            /\ Recorded(record'[b]) = Recorded(record[b])
            /\ ledger'[b].quota = Recorded(record[b])
            /\ ledger'[b].used = objects[b] /\ ledger'[b].reserved = 0
            /\ record'[b] = NoBucket <=> record[b] = NoBucket
            /\ record[b] # NoBucket => record[b] \in BucketRecords
                                         /\ record'[b] = reconcile(record[b])
  BY RestartFacts
<1>2. ASSUME NEW b \in Buckets
      PROVE  /\ Own(JobAt(b)', ledger'[b], record'[b], objects'[b])
             /\ Reasoned(record'[b], asked'[b])
  <2>1. JobAt(b)' = Idle
    BY <1>1 DEF JobAt
  <2>2. Own(Idle, ledger'[b], record'[b], objects'[b])
    BY <1>1, IdleJob DEF Own
  <2>3. Reasoned(record[b], asked[b])
    BY DEF AloneInv
  <2>4. Reasoned(record'[b], asked'[b])
    BY <1>1, <2>3, Reconciled DEF Reasoned
  <2> QED BY <2>1, <2>2, <2>4
<1>3. ledger \in [Buckets -> Entries] /\ ledger' \in [Buckets -> Entries]
  BY <1>1 DEF SharedInv, RecordsTyped
<1>4. NotOverAllocated'
  <2>1. CASE job[1] = Idle
    <3>1. \A c \in Buckets \ {} : ledger'[c].quota = ledger[c].quota
      BY <1>1, <2>1, Settled
    <3>2. QuotaSum(ledger', {}) = QuotaSum(ledger, {})
      BY <1>3, <3>1, OthersSum
    <3>3. Allocated({})' = Allocated({})
      BY <3>2, AllocatedIs
    <3> QED BY <3>3 DEF AloneInv, NotOverAllocated
  <2>2. CASE job[1] # Idle
    <3>1. PICK b \in Buckets : b = job[1].b
      BY <2>2 DEF SharedInv, JobsTyped, JobFits
    <3>2. ASSUME NEW c \in Buckets \ {b}
          PROVE  ledger'[c].quota = ledger[c].quota
      <4>1. JobAt(c) = Idle
        BY <3>1 DEF JobAt
      <4>2. Own(Idle, ledger[c], record[c], objects[c])
        BY <4>1 DEF AloneInv
      <4> QED BY <1>1, <4>2, IdleJob DEF Own
    <3>3. QuotaSum(ledger', {b}) = QuotaSum(ledger, {b})
      BY <1>3, <3>2, OthersSum
    <3>4. Room(Allocated({b}), Recorded(record[b]))
      BY <2>2, <3>1 DEF AloneInv
    <3>5. QuotaSum(ledger', {}) = ledger'[b].quota + QuotaSum(ledger', {b})
            /\ QuotaSum(ledger', {b}) \in Nat /\ ledger'[b].quota \in Nat
      BY <1>3, WholeSum
    <3>6. Allocated({})' = QuotaSum(ledger', {}) /\ Allocated({b}) = QuotaSum(ledger, {b})
      BY AllocatedIs
    <3>7. ledger'[b].quota = Recorded(record[b])
      BY <1>1
    <3> QED BY <3>3, <3>4, <3>5, <3>6, <3>7 DEF Room, NotOverAllocated
  <2> QED BY <2>1, <2>2
<1>5. job'[1] = Idle /\ job'[1].op # "create"
  BY <1>1, IdleJob
<1> QED BY <1>2, <1>4, <1>5 DEF AloneInv

\* An instance with no bucket satisfies the invariant.
LEMMA InitAlone ==
    ASSUME BucketsInit, 1 \in Threads
    PROVE  AloneInv
<1>1. /\ SharedInv /\ job[1] = Idle
      /\ \A b \in Buckets :
           /\ ledger[b].quota = 0 /\ ledger[b].used = 0 /\ ledger[b].reserved = 0
           /\ objects[b] = 0 /\ asked[b] = {}
           /\ record[b] # NoBucket => record[b].quota = 0 /\ record[b].access = {}
  BY InitFacts
<1>2. ASSUME NEW b \in Buckets
      PROVE  /\ Own(JobAt(b), ledger[b], record[b], objects[b])
             /\ Reasoned(record[b], asked[b])
  <2>1. JobAt(b) = Idle
    BY <1>1 DEF JobAt
  <2>2. Own(Idle, ledger[b], record[b], objects[b])
    BY <1>1, IdleJob DEF Own, Recorded
  <2>3. Reasoned(record[b], asked[b])
    BY <1>1 DEF Reasoned
  <2> QED BY <2>1, <2>2, <2>3
<1>3. NotOverAllocated
  <2> DEFINE f == [c \in Buckets |-> ledger[c].quota]
  <2>1. \A c \in Buckets : f[c] = 0
    BY <1>1
  <2>2. Buckets \ {} = Buckets /\ IsFiniteSet(Buckets)
    BY BucketsAssumption
  <2> HIDE DEF f
  <2>3. SumFunctionOnSet(f, Buckets) = 0
    BY <2>1, <2>2, SumZero
  <2>4. Allocated({}) = 0
    BY <2>2, <2>3 DEF Allocated, f
  <2> QED BY <2>4, BucketsAssumption DEF NotOverAllocated
<1>4. job[1] = Idle /\ job[1].op # "create"
  BY <1>1, IdleJob
<1> QED BY <1>2, <1>3, <1>4 DEF AloneInv

\* Beginning a job keeps the invariant of the one thread.
LEMMA BeginAlone ==
    ASSUME OneThread, NEW b \in Buckets, BeginJob(1, b)
    PROVE  AloneInv'
<1>1. CASE handleCreateBucket(1, b)
  BY <1>1, CreateAlone DEF handleCreateBucket
<1>2. ASSUME NEW a \in {{}, {"read"}}, NEW op \in {"acl", "access"}, ReadRecord(1, op, b, a)
      PROVE  AloneInv'
  BY <1>2, ReadAlone DEF Edits, Flags
<1>3. ASSUME NEW x \in {"open", "none"}, ReadRecord(1, "policy", b, x)
      PROVE  AloneInv'
  BY <1>3, ReadAlone DEF Edits, Policies
<1>4. ASSUME NEW q \in Allocations \ {0}, Create(1, b, q)
      PROVE  AloneInv'
  <2>1. q \in Nat
    BY BucketsAssumption
  <2> QED BY <1>4, <2>1, CreateAlone
<1>5. ASSUME NEW q \in Allocations, ReadRecord(1, "quota", b, q)
      PROVE  AloneInv'
  <2>1. Edits("quota", q)
    BY BucketsAssumption DEF Edits
  <2> QED BY <1>5, <2>1, ReadAlone
<1>6. CASE ReadRecord(1, "cors", b, 0)
  BY <1>6, ReadAlone DEF Edits
<1>7. CASE DeleteBucket(1, b)
  BY <1>7, DeleteAlone
<1>8. CASE ReserveByte(1, b)
  BY <1>8, ReserveAlone
<1>9. CASE RemoveObject(1, b)
  BY <1>9, RemoveAlone
<1> QED BY <1>1, <1>2, <1>3, <1>4, <1>5, <1>6, <1>7, <1>8, <1>9
        DEF BeginJob, handlePutBucketAcl, handlePutBucketPolicy, handleDeleteBucketPolicy,
            BucketsRoute, AccessRoute, QuotaRoute, CorsRoute, PolicyRoute

\* Going on with a job keeps it.
LEMMA ContinueAlone ==
    ASSUME OneThread, ContinueJob(1)
    PROVE  AloneInv'
BY InsertAlone, TrackAlone, ForgetAlone, SetQuotaAlone, UpdateAlone, RereadAlone,
   RestoreAlone, CommitAlone, SettleAlone, UnchargeAlone DEF ContinueJob

\* Only a thread of the pool makes a step.
LEMMA PoolMoves ==
    ASSUME SharedInv, NEW t \in Threads
    PROVE  /\ ContinueJob(t) => t \in pool
           /\ \A b \in Buckets : BeginJob(t, b) => t \in pool
<1>1. ContinueJob(t) => job[t].at # "idle"
  BY DEF ContinueJob, InsertRecord, Track, Forget, SetLedgerQuota, UpdateBucket,
         ReadForDurability, RestoreQuota, CommitByte, Settle, Uncharge, On
<1>2. job[t].at # "idle" => t \in pool
  BY BusyJob DEF SharedInv
<1>3. ASSUME NEW b \in Buckets, BeginJob(t, b)
      PROVE  t \in pool
  BY <1>3 DEF BeginJob, handleCreateBucket, handlePutBucketAcl, handlePutBucketPolicy,
              handleDeleteBucketPolicy, BucketsRoute, AccessRoute, QuotaRoute, CorsRoute,
              PolicyRoute, Create, ReadRecord, DeleteBucket, ReserveByte, RemoveObject, Start
<1> QED BY <1>1, <1>2, <1>3

\* The pool never changes its size while the process runs.
LEMMA PoolStays ==
    ASSUME [BucketsNext]_bucketVars
    PROVE  pool' = pool
<1>1. ASSUME NEW t, ContinueJob(t)
      PROVE  pool' = pool
  BY <1>1 DEF ContinueJob, InsertRecord, Track, Forget, SetLedgerQuota, UpdateBucket,
              ReadForDurability, RestoreQuota, CommitByte, Settle, Uncharge
<1>2. ASSUME NEW t, NEW b, BeginJob(t, b)
      PROVE  pool' = pool
  <2>1. \A op, arg : ReadRecord(t, op, b, arg) => pool' = pool
    BY DEF ReadRecord
  <2>2. \A q : Create(t, b, q) => pool' = pool
    BY DEF Create
  <2>3. DeleteBucket(t, b) \/ ReserveByte(t, b) \/ RemoveObject(t, b) => pool' = pool
    BY DEF DeleteBucket, ReserveByte, RemoveObject
  <2> QED BY <1>2, <2>1, <2>2, <2>3
          DEF BeginJob, handleCreateBucket, handlePutBucketAcl, handlePutBucketPolicy,
              handleDeleteBucketPolicy, BucketsRoute, AccessRoute, QuotaRoute, CorsRoute,
              PolicyRoute
<1>3. RestartBuckets => pool' = pool
  BY DEF RestartBuckets
<1>4. UNCHANGED bucketVars => pool' = pool
  BY DEF bucketVars
<1> QED BY <1>1, <1>2, <1>3, <1>4 DEF BucketsNext

\* Every step keeps the invariant.
LEMMA BucketsInvPreserved ==
    ASSUME BucketsInv, [BucketsNext]_bucketVars
    PROVE  BucketsInv'
<1>1. SharedInv /\ (pool = {1} => AloneInv) /\ pool' = pool /\ InPlay \subseteq Buckets
  BY PoolStays, BucketsAssumption DEF BucketsInv, InPlay
<1>2. 1 \in Threads
  BY BucketsAssumption DEF Threads
<1>3. ASSUME NEW t \in Threads, ContinueJob(t)
      PROVE  BucketsInv'
  <2>1. SharedInv'
    BY <1>1, <1>3, ContinueShared
  <2>2. ASSUME pool = {1}
        PROVE  AloneInv'
    <3>1. t = 1
      BY <1>1, <1>3, <2>2, PoolMoves
    <3> QED BY <1>1, <1>2, <1>3, <2>2, <3>1, ContinueAlone DEF OneThread
  <2> QED BY <1>1, <2>1, <2>2 DEF BucketsInv
<1>4. ASSUME NEW t \in Threads, NEW b \in Buckets, BeginJob(t, b)
      PROVE  BucketsInv'
  <2>1. SharedInv'
    BY <1>1, <1>4, BeginShared
  <2>2. ASSUME pool = {1}
        PROVE  AloneInv'
    <3>1. t = 1
      BY <1>1, <1>4, <2>2, PoolMoves
    <3> QED BY <1>1, <1>2, <1>4, <2>2, <3>1, BeginAlone DEF OneThread
  <2> QED BY <1>1, <2>1, <2>2 DEF BucketsInv
<1>5. CASE RestartBuckets
  BY <1>1, <1>2, <1>5, RestartFacts, RestartAlone DEF BucketsInv, OneThread
<1>6. CASE UNCHANGED bucketVars
  <2>1. UNCHANGED <<record, objects, ledger, pool, job, asked>>
    BY <1>6 DEF bucketVars
  <2>2. SharedInv'
    BY <1>1, <2>1 DEF SharedInv, RecordsTyped, JobsTyped, ObjectsHaveBucket, Exists
  <2>3. AloneInv => AloneInv'
    BY <2>1 DEF AloneInv, JobAt, NotOverAllocated, Allocated
  <2> QED BY <1>1, <2>2, <2>3 DEF BucketsInv
<1> QED BY <1>1, <1>3, <1>4, <1>5, <1>6 DEF BucketsNext, Threads

\* Alone means that the pool is the first thread.
LEMMA AlonePool ==
    ASSUME JobsTyped, Alone
    PROVE  pool = {1}
<1>1. PICK n \in 1 .. MaxThreads : pool = 1 .. n
  BY DEF JobsTyped
<1>2. Cardinality(1 .. n) = n
  BY FS_Interval, BucketsAssumption
<1> QED BY <1>1, <1>2 DEF Alone

-----------------------------------------------------------------------------
(* The theorems.                                                            *)

\* The inductive invariant holds in every reachable state.
THEOREM BucketsInvariant == BucketRecordsSpec => []BucketsInv
<1>1. BucketsInit => BucketsInv
  <2>1. 1 \in Threads
    BY BucketsAssumption DEF Threads
  <2> QED BY <2>1, InitFacts, InitAlone DEF BucketsInv
<1>2. BucketsInv /\ [BucketsNext]_bucketVars => BucketsInv'
  BY BucketsInvPreserved
<1> QED BY <1>1, <1>2, PTL DEF BucketRecordsSpec

\* With any number of I/O threads, no commit lands in a bucket that was deleted
\* after the write was admitted (putObject and deleteBucket of the store).
THEOREM ObjectsSafety == BucketRecordsSpec => []ObjectsHaveBucket
<1>1. BucketsInv => ObjectsHaveBucket
  BY DEF BucketsInv, SharedInv
<1> QED BY <1>1, BucketsInvariant, PTL

\* With one I/O thread the instance is never promised twice, although createBucket
\* looks at the ledger, writes the record and tells the ledger in three steps and
\* setBucketQuota undoes its change when the record cannot be written.
THEOREM InstanceSafety == BucketRecordsSpec => []NotOverAllocatedAlone
<1>1. BucketsInv => NotOverAllocatedAlone
  BY AlonePool DEF BucketsInv, SharedInv, AloneInv, NotOverAllocatedAlone
<1> QED BY <1>1, BucketsInvariant, PTL

\* With one I/O thread the ledger is, between operations, what a restart would make
\* of the records (seedQuotas), whatever failed on the way.
THEOREM LedgerSafety == BucketRecordsSpec => []LedgerFollowsRecords
<1>1. ASSUME BucketsInv, Alone, Quiet, NEW b \in Buckets
      PROVE  IF Exists(b) THEN ledger[b] = seed(b) ELSE ledger[b].quota = 0
  <2>1. SharedInv /\ AloneInv /\ pool = {1}
    BY <1>1, AlonePool DEF BucketsInv, SharedInv
  <2>2. job[1] = Idle
    BY <1>1, <2>1 DEF Quiet
  <2>3. /\ ledger[b].quota = Recorded(record[b])
        /\ ledger[b].used = objects[b] /\ ledger[b].reserved = 0
    BY <2>1, <2>2, Settled
  <2>4. ledger[b] \in Entries
    BY <2>1 DEF SharedInv, RecordsTyped
  <2>5. \A e \in Entries : e = [quota |-> e.quota, used |-> e.used, reserved |-> e.reserved]
    BY DEF Entries
  <2>6. ledger[b] = [quota |-> ledger[b].quota, used |-> ledger[b].used,
                     reserved |-> ledger[b].reserved]
    BY <2>4, <2>5
  <2> QED BY <2>3, <2>6 DEF Recorded, Exists, seed
<1>2. BucketsInv => LedgerFollowsRecords
  BY <1>1 DEF LedgerFollowsRecords
<1> QED BY <1>2, BucketsInvariant, PTL

\* With one I/O thread no interleaving of the console's toggle, ACLs, policies,
\* failed writes and restarts opens a bucket that neither somebody nor its policy
\* opened (reconcileBucketPolicies).
THEOREM AccessSafety == BucketRecordsSpec => []AccessHasReason
<1>1. ASSUME BucketsInv, Alone, NEW b \in Buckets, Exists(b)
      PROVE  record[b].access \in {asked[b], Granted(record[b].policy)}
  <2>1. AloneInv
    BY <1>1, AlonePool DEF BucketsInv, SharedInv
  <2> QED BY <1>1, <2>1 DEF AloneInv, Reasoned, Exists
<1>2. BucketsInv => AccessHasReason
  BY <1>1 DEF AccessHasReason
<1> QED BY <1>2, BucketsInvariant, PTL

=============================================================================
