-------------------------- MODULE MultipartProofs --------------------------
(***************************************************************************)
(* Safety of multipart uploads for every set of uploads, part numbers,     *)
(* payloads and workers. The operations do not exclude each other, so the  *)
(* argument is about ownership: a payload can be named by one row only,    *)
(* the one its writer was to write, and whoever releases it deletes or     *)
(* overwrites that row in the same batch.                                  *)
(***************************************************************************)
EXTENDS Multipart, TLAPS

\* The two shapes of the end of a request.
LEMMA FinishType ==
    ASSUME ThreadTypeOK, NEW t \in Threads, Finish(t) PROVE ThreadTypeOK'
BY DEF ThreadTypeOK, Finish, Goto, Publishing

\* A thread that releases what it holds stays typed.
LEMMA ReclaimType ==
    ASSUME ThreadTypeOK, NEW t \in Threads, pc[t] \notin {"idle", "sweep"}, Reclaim(t)
    PROVE  ThreadTypeOK'
<1>1. CASE held[t] = {}
  BY <1>1, FinishType DEF Reclaim
<1>2. CASE held[t] # {}
  BY <1>2 DEF ThreadTypeOK, Reclaim, Goto, Publishing
<1> QED BY <1>1, <1>2

\* Every step keeps the rows, the log and the files typed.
LEMMA StoreType == TypeOK /\ [Next]_vars => StoreTypeOK'
<1> SUFFICES ASSUME TypeOK, [Next]_vars PROVE StoreTypeOK'
  OBVIOUS
<1> USE DEF TypeOK, StoreTypeOK
<1>1. ASSUME NEW w \in Workers, NEW u \in Uploads, CreateUpload(w, u) \/ RequestAbort(w, u)
      PROVE  StoreTypeOK'
  BY <1>1 DEF CreateUpload, RequestAbort, store
<1>2. ASSUME NEW w \in Workers, PartStep(w) PROVE StoreTypeOK'
  <2>1. \A v \in Workers :
           /\ held[v] \subseteq Blobs
           /\ pc[v] = "writePart" => blob[v] \in Blobs /\ up[v] \in Uploads
    BY DEF ThreadTypeOK, Publishing, Threads
  <2>2. CASE WritePart(w)
    <3>1. part' \in [Uploads -> [Parts -> Blobs \cup {None}]]
      BY <2>1, <2>2 DEF WritePart
    <3>2. active' \in SUBSET Uploads /\ tracked' \in SUBSET Blobs
      BY <2>1, <2>2 DEF WritePart
    <3> QED BY <2>2, <3>1, <3>2 DEF WritePart
  <2>3. CASE \E u \in Uploads, n \in Parts : BeginPart(w, u, n)
    BY <2>3 DEF BeginPart, WritePayload
  <2>4. CASE RefusePart(w) \/ CheckUpload(w) \/ ReadPart(w)
    BY <2>4 DEF RefusePart, CheckUpload, ReadPart, store
  <2> QED BY <1>2, <2>2, <2>3, <2>4 DEF PartStep
<1>3. ASSUME NEW w \in Workers, CompleteStep(w) PROVE StoreTypeOK'
  <2>1. \A v \in Workers : held[v] \subseteq Blobs /\ (pc[v] = "publish" => blob[v] \in Blobs)
    BY DEF ThreadTypeOK, Publishing, Threads
  <2> QED BY <1>3, <2>1 DEF CompleteStep, ListParts, AppendPart, CommitAssembled, WritePayload,
             LoadCompleted, GatherReleased, CompleteUpload, store
<1>4. ASSUME NEW t \in Threads, AbortStep(t) \/ ReleaseStep(t) PROVE StoreTypeOK'
  BY <1>4 DEF ThreadTypeOK, AbortStep, LoadUpload, CollectParts, AbortUpload, ReleaseStep,
              RemoveBlob, ForgetOrphans, DeferRelease, store
<1>5. ASSUME NEW b \in Blobs, ReclaimOlder(b) PROVE StoreTypeOK'
  BY <1>5 DEF ReclaimOlder
<1>6. CASE SweepStep
  BY <1>6 DEF SweepStep, BeginSweep, EndSweep, ExamineUpload, BecomeIdle, store
<1>7. CASE Restart
  BY <1>7 DEF Restart
<1>8. CASE UNCHANGED vars
  BY <1>8 DEF vars, store
<1> QED BY <1>1, <1>2, <1>3, <1>4, <1>5, <1>6, <1>7, <1>8 DEF Next

\* Every step keeps what the threads hold typed.
LEMMA ThreadType == TypeOK /\ [Next]_vars => ThreadTypeOK'
<1> SUFFICES ASSUME TypeOK, [Next]_vars PROVE ThreadTypeOK'
  OBVIOUS
<1>0. StoreTypeOK /\ ThreadTypeOK
  BY DEF TypeOK
<1>w. Workers \subseteq Threads /\ Sweeper \in Threads /\ Sweeper \notin Workers
  BY MultipartAssumption DEF Threads
<1>1. ASSUME NEW w \in Workers, NEW u \in Uploads, CreateUpload(w, u) \/ RequestAbort(w, u)
      PROVE  ThreadTypeOK'
  BY <1>0, <1>w, <1>1 DEF ThreadTypeOK, Publishing, CreateUpload, RequestAbort, Goto, threads
<1>2. ASSUME NEW w \in Workers, PartStep(w) PROVE ThreadTypeOK'
  <2>1. CASE \E u \in Uploads, n \in Parts : BeginPart(w, u, n)
    BY <1>0, <1>w, <2>1 DEF ThreadTypeOK, Publishing, BeginPart, WritePayload, Goto
  <2>2. CASE RefusePart(w)
    BY <1>0, <1>w, <2>2, FinishType DEF RefusePart
  <2>3. CASE CheckUpload(w)
    <3>1. CASE up[w] \in live
      BY <1>0, <1>w, <2>3, <3>1 DEF ThreadTypeOK, Publishing, CheckUpload, Goto
    <3>2. CASE up[w] \notin live
      BY <1>0, <1>w, <2>3, <3>2, FinishType DEF CheckUpload
    <3> QED BY <3>1, <3>2
  <2>4. CASE ReadPart(w)
    BY <1>0, <1>w, <2>4 DEF StoreTypeOK, ThreadTypeOK, Publishing, ReadPart, Goto
  <2>5. CASE WritePart(w)
    BY <1>0, <1>w, <2>5, ReclaimType DEF WritePart
  <2> QED BY <1>2, <2>1, <2>2, <2>3, <2>4, <2>5 DEF PartStep
<1>3. ASSUME NEW w \in Workers, CompleteStep(w) PROVE ThreadTypeOK'
  <2>1. CASE \E u \in Uploads, R \in SUBSET Parts : ListParts(w, u, R)
    BY <1>0, <1>w, <2>1 DEF StoreTypeOK, ThreadTypeOK, Publishing, ListParts, Goto
  <2>2. CASE AppendPart(w)
    <3>1. PICK b \in held[w] :
             IF b \in tree
               THEN held' = [held EXCEPT ![w] = @ \ {b}] /\ UNCHANGED <<pc, up, nums, blob>>
               ELSE Finish(w)
      BY <2>2 DEF AppendPart
    <3>2. CASE b \in tree
      BY <1>0, <1>w, <3>1, <3>2 DEF ThreadTypeOK, Publishing
    <3>3. CASE b \notin tree
      BY <1>0, <1>w, <3>1, <3>3, FinishType
    <3> QED BY <3>2, <3>3
  <2>3. CASE CommitAssembled(w)
    BY <1>0, <1>w, <2>3 DEF ThreadTypeOK, Publishing, CommitAssembled, WritePayload, Goto
  <2>4. CASE LoadCompleted(w)
    <3>1. CASE up[w] \in live
      BY <1>0, <1>w, <2>4, <3>1 DEF ThreadTypeOK, Publishing, LoadCompleted, Goto
    <3>2. CASE up[w] \notin live
      BY <1>0, <1>w, <2>4, <3>2, FinishType DEF LoadCompleted
    <3> QED BY <3>1, <3>2
  <2>5. CASE GatherReleased(w)
    BY <1>0, <1>w, <2>5
       DEF StoreTypeOK, ThreadTypeOK, Publishing, GatherReleased, PartPayloads, Goto
  <2>6. CASE CompleteUpload(w)
    BY <1>0, <1>w, <2>6, ReclaimType DEF CompleteUpload
  <2> QED BY <1>3, <2>1, <2>2, <2>3, <2>4, <2>5, <2>6 DEF CompleteStep
<1>4. ASSUME NEW t \in Threads, AbortStep(t) \/ ReleaseStep(t) PROVE ThreadTypeOK'
  <2>1. CASE LoadUpload(t)
    <3>1. CASE up[t] \in live
      BY <1>0, <2>1, <3>1 DEF ThreadTypeOK, Publishing, LoadUpload, Goto
    <3>2. CASE up[t] \notin live
      BY <1>0, <2>1, <3>2, FinishType DEF LoadUpload
    <3> QED BY <3>1, <3>2
  <2>2. CASE CollectParts(t)
    BY <1>0, <2>2 DEF StoreTypeOK, ThreadTypeOK, Publishing, CollectParts, PartPayloads, Goto
  <2>3. CASE AbortUpload(t)
    BY <1>0, <2>3, ReclaimType DEF AbortUpload
  <2>4. CASE RemoveBlob(t)
    BY <1>0, <2>4 DEF ThreadTypeOK, RemoveBlob, threads
  <2>5. CASE ForgetOrphans(t)
    BY <1>0, <2>5, FinishType DEF ForgetOrphans
  <2>6. CASE DeferRelease(t)
    BY <1>0, <2>6, FinishType DEF DeferRelease
  <2> QED BY <1>4, <2>1, <2>2, <2>3, <2>4, <2>5, <2>6 DEF AbortStep, ReleaseStep
<1>5. ASSUME NEW b \in Blobs, ReclaimOlder(b) PROVE ThreadTypeOK'
  BY <1>0, <1>5 DEF ThreadTypeOK, ReclaimOlder, threads
<1>6. CASE SweepStep
  <2>1. CASE BeginSweep \/ EndSweep
    BY <1>0, <1>w, <2>1 DEF ThreadTypeOK, Publishing, BeginSweep, EndSweep, Goto
  <2>2. ASSUME NEW u \in Uploads, BecomeIdle(u) PROVE ThreadTypeOK'
    BY <1>0, <2>2 DEF ThreadTypeOK, BecomeIdle, threads
  <2>3. ASSUME NEW u \in Uploads, ExamineUpload(u) PROVE ThreadTypeOK'
    BY <1>0, <1>w, <2>3 DEF ThreadTypeOK, Publishing, ExamineUpload, Goto
  <2> QED BY <1>6, <2>1, <2>2, <2>3 DEF SweepStep
<1>7. CASE Restart
  BY <1>7 DEF ThreadTypeOK, Publishing, Restart
<1>8. CASE UNCHANGED vars
  BY <1>0, <1>8 DEF ThreadTypeOK, vars, threads
<1> QED BY <1>1, <1>2, <1>3, <1>4, <1>5, <1>6, <1>7, <1>8 DEF Next

\* Every variable keeps its type; a thread at work has an upload, and only a
\* worker has a payload to publish.
THEOREM TypeCorrect == Spec => []TypeOK
<1>1. Init => TypeOK
  BY DEF Init, TypeOK, StoreTypeOK, ThreadTypeOK, NoParts, Publishing
<1>2. TypeOK /\ [Next]_vars => TypeOK'
  BY StoreType, ThreadType DEF TypeOK
<1> QED BY <1>1, <1>2, PTL DEF Spec

-----------------------------------------------------------------------------
(* Ownership of payloads. LogIsGarbage and PayloadsPresent are not          *)
(* inductive: a batch logs what its thread has read some steps earlier, and *)
(* an unlink trusts that batch.                                             *)

\* A payload is named by one row at most.
NamedOnce ==
    /\ \A u, v \in Uploads, m, n \in Parts :
          part[u][m] = part[v][n] /\ part[u][m] # None => u = v /\ m = n
    /\ \A u \in Uploads, n \in Parts : part[u][n] # None => part[u][n] # object

\* A payload yet to be published is in the tree, and nobody else's.
WritesOwn ==
    \A w \in Workers : pc[w] \in Publishing =>
        /\ blob[w] \in tree /\ blob[w] \notin Named
        /\ \A t \in Threads : blob[w] \notin held[t]
        /\ \A t \in Threads : t # w => blob[t] # blob[w]

\* What a batch is about to release is named by no row but one it deletes or
\* overwrites.
HeldRows ==
    \A t \in Threads : pc[t] \in {"writePart", "abort", "publish"} =>
        \A b \in held[t] : b \in Named =>
            \/ pc[t] = "publish" /\ b = object
            \/ \E n \in nums[t] : part[up[t]][n] = b

\* What is about to be unlinked no row names.
ReleasedFree ==
    \A t \in Threads : pc[t] = "release" => \A b \in held[t] : b \notin Named

\* putPart writes one part.
SinglePart ==
    \A w \in Workers : pc[w] \in {"part", "readPart", "writePart"} =>
        \A m, n \in nums[w] : m = n

OwnInv ==
    /\ NamedOnce /\ WritesOwn /\ HeldRows /\ ReleasedFree /\ SinglePart
    /\ PayloadsPresent /\ LogIsGarbage

\* Named, by what it contains.
HasRow(b) == b = object \/ \E u \in Uploads, n \in Parts : part[u][n] = b

\* A payload is named when the object row or a part row has it, before a step
\* and after it.
LEMMA NamedRows ==
    /\ \A b : (b \in Named) <=> (b # None /\ HasRow(b))
    /\ \A b : (b \in Named') <=> (b # None /\ HasRow(b)')
<1>1. \A b : (b \in Named) <=> (b # None /\ HasRow(b))
  BY DEF Named, PartPayloads, HasRow
<1>2. \A b : (b \in Named') <=> (b # None /\ HasRow(b)')
  BY DEF Named, PartPayloads, HasRow
<1> QED BY <1>1, <1>2

\* The end of a request only forgets.
LEMMA FinishThreads ==
    ASSUME TypeOK, NEW t \in Threads, Finish(t) \/ Reclaim(t)
    PROVE  /\ pc'[t] \in {"idle", "sweep", "release"}
           /\ pc'[t] = "release" => held'[t] = held[t]
           /\ blob'[t] = None
           /\ held'[t] \subseteq held[t]
           /\ \A s \in Threads : s # t =>
                 /\ pc'[s] = pc[s] /\ up'[s] = up[s] /\ nums'[s] = nums[s]
                 /\ blob'[s] = blob[s] /\ held'[s] = held[s]
<1>1. CASE Finish(t)
  BY <1>1 DEF TypeOK, ThreadTypeOK, Finish, Goto
<1>2. CASE Reclaim(t) /\ held[t] # {}
  BY <1>2 DEF TypeOK, ThreadTypeOK, Reclaim, Goto
<1>3. CASE Reclaim(t) /\ held[t] = {}
  BY <1>1, <1>3 DEF Reclaim
<1> QED BY <1>1, <1>2, <1>3


\* Whatever leaves the rows alone and only lets a thread forget keeps the
\* invariant, as long as it takes no named payload and no payload in flight.
LEMMA QuietStep ==
    ASSUME TypeOK, OwnInv, NEW t \in Threads, Finish(t),
           UNCHANGED <<part, object, tree>>, tracked' \subseteq tracked
    PROVE  OwnInv'
<1>1. Named' = Named
  BY DEF Named, PartPayloads
<1>2. blob'[t] = None /\ pc'[t] \in {"idle", "sweep"} /\ held'[t] = {}
  BY DEF Finish, Goto, TypeOK, ThreadTypeOK
<1> QED
  BY <1>1, <1>2, FinishThreads, MultipartAssumption
     DEF OwnInv, NamedOnce, WritesOwn, HeldRows, ReleasedFree, SinglePart, PayloadsPresent,
         LogIsGarbage, Publishing, TypeOK, ThreadTypeOK, Threads

\* A request begins, moves on, or reads rows it will later release.
LEMMA ThreadStep ==
    ASSUME TypeOK, OwnInv, NEW t \in Threads, UNCHANGED <<part, object, tree, tracked>>,
           \A s \in Threads : s # t =>
              /\ pc'[s] = pc[s] /\ up'[s] = up[s] /\ nums'[s] = nums[s]
              /\ blob'[s] = blob[s] /\ held'[s] = held[s],
           blob'[t] = blob[t],
           pc'[t] \in Publishing => pc[t] \in Publishing,
           pc'[t] # "release",
           pc'[t] \in {"part", "readPart", "writePart"} =>
              nums'[t] = nums[t] /\ pc[t] \in {"part", "readPart", "writePart"},
           \A b \in held'[t] : b \in Named \/ b \in held[t],
           pc'[t] \in {"writePart", "abort", "publish"} =>
              \A b \in held'[t] :
                 \/ pc'[t] = "publish" /\ b = object
                 \/ \E n \in nums'[t] : part[up'[t]][n] = b
    PROVE  OwnInv'
<1>1. Named' = Named
  BY DEF Named
<1>2. NamedOnce' /\ PayloadsPresent' /\ LogIsGarbage'
  BY <1>1 DEF OwnInv, NamedOnce, PayloadsPresent, LogIsGarbage
<1>3. WritesOwn'
  <2> SUFFICES ASSUME NEW w \in Workers, pc'[w] \in Publishing
               PROVE  /\ blob'[w] \in tree /\ blob'[w] \notin Named
                      /\ \A s \in Threads : blob'[w] \notin held'[s]
                      /\ \A s \in Threads : s # w => blob'[s] # blob'[w]
    BY <1>1 DEF WritesOwn
  <2>1. pc[w] \in Publishing /\ \A s \in Threads : blob'[s] = blob[s]
    BY DEF Threads
  <2> QED BY <2>1 DEF OwnInv, WritesOwn, Threads
<1>4. HeldRows'
  BY <1>1 DEF OwnInv, HeldRows
<1>5. ReleasedFree'
  BY <1>1 DEF OwnInv, ReleasedFree
<1>6. SinglePart'
  BY DEF OwnInv, SinglePart, Threads
<1> QED BY <1>2, <1>3, <1>4, <1>5, <1>6 DEF OwnInv

\* A payload is written: it is nobody's.
LEMMA WriteStep ==
    ASSUME TypeOK, OwnInv, NEW w \in Workers, NEW b \in Blobs, WritePayload(w, b),
           UNCHANGED <<part, object, held>>,
           \A s \in Threads : s # w => pc'[s] = pc[s] /\ up'[s] = up[s] /\ nums'[s] = nums[s],
           pc'[w] \in {"part", "complete"},
           pc'[w] = "part" => \A m, n \in nums'[w] : m = n
    PROVE  OwnInv'
<1>1. Named' = Named
  BY DEF Named
<1>2. NamedOnce' /\ PayloadsPresent' /\ LogIsGarbage'
  BY <1>1 DEF OwnInv, NamedOnce, PayloadsPresent, LogIsGarbage, WritePayload, Fresh
<1>3. \A s \in Threads : blob'[s] = IF s = w THEN b ELSE blob[s]
  BY DEF TypeOK, ThreadTypeOK, WritePayload, Threads
<1>4. WritesOwn'
  BY <1>1, <1>3 DEF OwnInv, WritesOwn, WritePayload, Fresh, Publishing, Threads
<1>5. HeldRows' /\ ReleasedFree'
  BY <1>1 DEF OwnInv, HeldRows, ReleasedFree
<1>6. SinglePart'
  BY DEF OwnInv, SinglePart, Threads
<1> QED BY <1>2, <1>4, <1>5, <1>6 DEF OwnInv

\* What the batch of t publishes: the payload t has written, or none.
Published(t) == IF pc[t] \in Publishing THEN {blob[t]} ELSE {}

\* A batch publishes that payload and releases what its thread holds.
LEMMA BatchStep ==
    ASSUME TypeOK, OwnInv, NEW t \in Threads, Reclaim(t),
           tree' = tree, tracked' = (tracked \ Published(t)) \cup held[t],
           \A u \in Uploads, n \in Parts : part'[u][n] \in {part[u][n], None} \cup Published(t),
           object' \in {object} \cup Published(t),
           NamedOnce',
           \A b \in held[t] : b \notin Named'
    PROVE  OwnInv'
<1> DEFINE P == Published(t)
<1>0. P = {} \/ (t \in Workers /\ pc[t] \in Publishing /\ P = {blob[t]})
  BY DEF Published, TypeOK, ThreadTypeOK
<1> HIDE DEF P
<1>1. Named' \subseteq Named \cup P
  BY NamedRows DEF HasRow, P
<1>2. P \subseteq tree /\ \A s \in Threads : P \cap held[s] = {}
  BY <1>0 DEF OwnInv, WritesOwn
<1>3. PayloadsPresent' /\ LogIsGarbage'
  BY <1>1, <1>2 DEF OwnInv, PayloadsPresent, LogIsGarbage, P
<1>4. ReleasedFree'
  BY <1>1, <1>2, FinishThreads DEF OwnInv, ReleasedFree
<1>5. WritesOwn'
  <2> SUFFICES ASSUME NEW w \in Workers, pc'[w] \in Publishing
               PROVE  /\ blob'[w] \in tree /\ blob'[w] \notin Named'
                      /\ \A s \in Threads : blob'[w] \notin held'[s]
                      /\ \A s \in Threads : s # w => blob'[s] # blob'[w]
    BY DEF WritesOwn
  <2>1. w # t /\ w \in Threads /\ blob'[w] = blob[w] /\ pc[w] \in Publishing
    BY FinishThreads DEF Publishing, Threads
  <2>2. blob[w] # None
    BY <2>1, MultipartAssumption DEF TypeOK, ThreadTypeOK
  <2>3. /\ blob[w] \in tree /\ blob[w] \notin Named \cup P
        /\ \A s \in Threads : blob[w] \notin held[s]
        /\ \A s \in Threads : s # w => blob[s] # blob[w]
    BY <1>0, <2>1 DEF OwnInv, WritesOwn
  <2> QED BY <1>1, <2>1, <2>2, <2>3, FinishThreads
<1>6. HeldRows'
  <2> SUFFICES ASSUME NEW s \in Threads, pc'[s] \in {"writePart", "abort", "publish"},
                      NEW b \in held'[s], b \in Named'
               PROVE  \/ pc'[s] = "publish" /\ b = object'
                      \/ \E n \in nums'[s] : part'[up'[s]][n] = b
    BY DEF HeldRows
  <2>1. s # t /\ pc'[s] = pc[s] /\ up'[s] = up[s] /\ nums'[s] = nums[s] /\ held'[s] = held[s]
    BY FinishThreads
  <2>2. b \in Named /\ b \notin P /\ b # None
    BY <1>1, <1>2, <2>1, NamedRows
  <2>3. up[s] \in Uploads /\ nums[s] \subseteq Parts
    BY <2>1 DEF TypeOK, ThreadTypeOK
  <2>4. \/ object' = b /\ object = b
        \/ \E u \in Uploads, n \in Parts : part'[u][n] = b /\ part[u][n] = b
    BY <2>2, NamedRows DEF HasRow, P
  <2>5. \/ pc[s] = "publish" /\ b = object
        \/ \E n \in nums[s] : part[up[s]][n] = b
    BY <2>1, <2>2 DEF OwnInv, HeldRows
  <2>6. NamedOnce
    BY DEF OwnInv
  <2>7. CASE object' = b /\ object = b
    BY <2>1, <2>2, <2>3, <2>5, <2>6, <2>7 DEF NamedOnce
  <2>8. CASE \E u \in Uploads, n \in Parts : part'[u][n] = b /\ part[u][n] = b
    <3>1. PICK u \in Uploads, n \in Parts : part'[u][n] = b /\ part[u][n] = b
      BY <2>8
    <3>2. b # object
      BY <2>2, <2>6, <3>1 DEF NamedOnce
    <3>3. PICK m \in nums[s] : part[up[s]][m] = b
      BY <2>5, <3>2
    <3>4. u = up[s] /\ n = m
      BY <2>2, <2>3, <2>6, <3>1, <3>3 DEF NamedOnce
    <3> QED BY <2>1, <3>1, <3>4, <3>3
  <2> QED BY <2>4, <2>7, <2>8
<1>7. SinglePart'
  BY FinishThreads DEF OwnInv, SinglePart, Threads
<1> QED BY <1>3, <1>4, <1>5, <1>6, <1>7 DEF OwnInv

\* putPart's batch: the row of the part names the new payload only.
LEMMA WritePartOwn ==
    ASSUME TypeOK, OwnInv, NEW w \in Workers, WritePart(w) PROVE OwnInv'
<1>1. w \in Threads /\ pc[w] = "writePart" /\ pc[w] \in Publishing
  BY DEF Threads, WritePart, Publishing
<1>2. up[w] \in Uploads /\ nums[w] \subseteq Parts /\ blob[w] \in Blobs /\ blob[w] # None
  BY <1>1, MultipartAssumption DEF TypeOK, ThreadTypeOK, Publishing
<1>3. /\ object' = object
      /\ \A u \in Uploads, n \in Parts :
            part'[u][n] = IF u = up[w] /\ n \in nums[w] THEN blob[w] ELSE part[u][n]
  BY <1>2 DEF WritePart, TypeOK, StoreTypeOK
<1>4. blob[w] \notin Named /\ blob[w] \notin held[w] /\ blob[w] # object
      /\ \A u \in Uploads, n \in Parts : part[u][n] # blob[w]
  BY <1>1, <1>2, NamedRows DEF OwnInv, WritesOwn, HasRow
<1>5. \A m, n \in nums[w] : m = n
  BY <1>1 DEF OwnInv, SinglePart
<1>6. NamedOnce'
  BY <1>2, <1>3, <1>4, <1>5 DEF OwnInv, NamedOnce
<1>7. \A b \in held[w] : b \notin Named'
  <2> SUFFICES ASSUME NEW b \in held[w], b \in Named' PROVE FALSE
    OBVIOUS
  <2>1. b # None /\ b # blob[w] /\ HasRow(b)'
    BY <1>4, NamedRows
  <2>2. b \in Named
    BY <1>3, <2>1, NamedRows DEF HasRow
  <2>3. PICK n \in nums[w] : part[up[w]][n] = b
    BY <1>1, <2>2 DEF OwnInv, HeldRows
  <2> QED BY <1>2, <1>3, <2>1, <2>3 DEF OwnInv, NamedOnce, HasRow
<1>8. Published(w) = {blob[w]}
  BY <1>1 DEF Published
<1> QED
  BY <1>1, <1>3, <1>6, <1>7, <1>8, BatchStep DEF WritePart

\* abortUpload's batch: the rows of what it releases are gone.
LEMMA AbortOwn ==
    ASSUME TypeOK, OwnInv, NEW t \in Threads, AbortUpload(t) PROVE OwnInv'
<1>1. up[t] \in Uploads /\ nums[t] \subseteq Parts /\ pc[t] = "abort"
  BY DEF TypeOK, ThreadTypeOK, AbortUpload
<1>2. /\ object' = object
      /\ \A u \in Uploads, n \in Parts :
            part'[u][n] = IF u = up[t] /\ n \in nums[t] THEN None ELSE part[u][n]
  BY <1>1 DEF AbortUpload, TypeOK, StoreTypeOK
<1>3. NamedOnce'
  BY <1>1, <1>2 DEF OwnInv, NamedOnce
<1>4. \A b \in held[t] : b \notin Named'
  <2> SUFFICES ASSUME NEW b \in held[t], b \in Named' PROVE FALSE
    OBVIOUS
  <2>1. b # None /\ HasRow(b)'
    BY NamedRows
  <2>2. b \in Named
    BY <1>2, <2>1, NamedRows DEF HasRow
  <2>3. PICK n \in nums[t] : part[up[t]][n] = b
    BY <1>1, <2>2 DEF OwnInv, HeldRows
  <2> QED BY <1>1, <1>2, <2>1, <2>3 DEF OwnInv, NamedOnce, HasRow
<1>5. Published(t) = {}
  BY <1>1 DEF Published, Publishing
<1> QED BY <1>2, <1>3, <1>4, <1>5, BatchStep DEF AbortUpload

\* completeUpload's batch: as an abort, and the object row names the payload.
LEMMA CompleteOwn ==
    ASSUME TypeOK, OwnInv, NEW w \in Workers, CompleteUpload(w) PROVE OwnInv'
<1>1. w \in Threads /\ pc[w] = "publish" /\ pc[w] \in Publishing
  BY DEF Threads, CompleteUpload, Publishing
<1>2. up[w] \in Uploads /\ nums[w] \subseteq Parts /\ blob[w] \in Blobs /\ blob[w] # None
  BY <1>1, MultipartAssumption DEF TypeOK, ThreadTypeOK, Publishing
<1>3. /\ object' = blob[w]
      /\ \A u \in Uploads, n \in Parts :
            part'[u][n] = IF u = up[w] /\ n \in nums[w] THEN None ELSE part[u][n]
  BY <1>2 DEF CompleteUpload, TypeOK, StoreTypeOK
<1>4. blob[w] \notin held[w] /\ \A u \in Uploads, n \in Parts : part[u][n] # blob[w]
  BY <1>1, <1>2, NamedRows DEF OwnInv, WritesOwn, HasRow
<1>5. NamedOnce'
  BY <1>2, <1>3, <1>4 DEF OwnInv, NamedOnce
<1>6. \A b \in held[w] : b \notin Named'
  <2> SUFFICES ASSUME NEW b \in held[w], b \in Named' PROVE FALSE
    OBVIOUS
  <2>1. b # None /\ b # blob[w] /\ HasRow(b)'
    BY <1>4, NamedRows
  <2>2. PICK v \in Uploads, m \in Parts : part'[v][m] = b
    BY <1>3, <2>1 DEF HasRow
  <2>3. part[v][m] = b /\ ~ (v = up[w] /\ m \in nums[w])
    BY <1>3, <2>1, <2>2
  <2>4. b \in Named /\ b # object
    BY <2>1, <2>3, NamedRows DEF HasRow, OwnInv, NamedOnce
  <2>5. PICK n \in nums[w] : part[up[w]][n] = b
    BY <1>1, <2>4 DEF OwnInv, HeldRows
  <2> QED BY <1>2, <2>1, <2>3, <2>5 DEF OwnInv, NamedOnce
<1>7. Published(w) = {blob[w]}
  BY <1>1 DEF Published
<1> QED
  BY <1>1, <1>3, <1>5, <1>6, <1>7, BatchStep DEF CompleteUpload

\* Storing a part, over an older one or not, leaves every payload one owner.
LEMMA PartOwn ==
    ASSUME TypeOK, OwnInv, NEW w \in Workers, PartStep(w) PROVE OwnInv'
<1>w. w \in Threads
  BY DEF Threads
<1>1. CASE \E u \in Uploads, n \in Parts : BeginPart(w, u, n)
  <2>1. PICK u \in Uploads, n \in Parts : BeginPart(w, u, n)
    BY <1>1
  <2>2. PICK b \in Blobs : WritePayload(w, b)
    BY <2>1 DEF BeginPart
  <2>3. pc'[w] = "part" /\ nums'[w] = {n}
    BY <1>w, <2>1 DEF BeginPart, Goto, TypeOK, ThreadTypeOK
  <2>4. \A s \in Threads : s # w => pc'[s] = pc[s] /\ up'[s] = up[s] /\ nums'[s] = nums[s]
    BY <2>1 DEF BeginPart, Goto, TypeOK, ThreadTypeOK
  <2>5. UNCHANGED <<part, object, held>>
    BY <2>1 DEF BeginPart
  <2> QED BY <2>2, <2>3, <2>4, <2>5, WriteStep
<1>2. CASE RefusePart(w)
  BY <1>w, <1>2, QuietStep DEF RefusePart, store
<1>3. CASE CheckUpload(w)
  <2>1. CASE up[w] \in live
    <3>1. /\ pc[w] = "part" /\ pc'[w] = "readPart"
          /\ UNCHANGED <<part, object, tree, tracked, up, nums, blob, held>>
          /\ \A s \in Threads : s # w => pc'[s] = pc[s]
      BY <1>w, <1>3, <2>1 DEF CheckUpload, Goto, store, TypeOK, ThreadTypeOK
    <3> QED BY <1>w, <3>1, ThreadStep DEF Publishing
  <2>2. CASE up[w] \notin live
    BY <1>w, <1>3, <2>2, QuietStep DEF CheckUpload, store
  <2> QED BY <2>1, <2>2
<1>4. CASE ReadPart(w)
  <2>1. /\ pc[w] = "readPart" /\ pc'[w] = "writePart"
        /\ held'[w] = {part[up[w]][n] : n \in nums[w]} \ {None}
        /\ UNCHANGED <<part, object, tree, tracked, up, nums, blob>>
        /\ \A s \in Threads : s # w => pc'[s] = pc[s] /\ held'[s] = held[s]
    BY <1>w, <1>4 DEF ReadPart, Goto, store, TypeOK, ThreadTypeOK
  <2>2. up[w] \in Uploads /\ nums[w] \subseteq Parts
    BY <1>w, <2>1 DEF TypeOK, ThreadTypeOK
  <2>3. \A b \in held'[w] : b \in Named
    BY <2>1, <2>2 DEF Named
  <2> QED BY <1>w, <2>1, <2>3, ThreadStep DEF Publishing
<1>5. CASE WritePart(w)
  BY <1>5, WritePartOwn
<1> QED BY <1>1, <1>2, <1>3, <1>4, <1>5 DEF PartStep

\* Completing an upload moves each payload to one owner.
LEMMA CompleteStepOwn ==
    ASSUME TypeOK, OwnInv, NEW w \in Workers, CompleteStep(w) PROVE OwnInv'
<1>w. w \in Threads
  BY DEF Threads
<1>1. CASE \E u \in Uploads, R \in SUBSET Parts : ListParts(w, u, R)
  <2>1. PICK u \in Uploads, R \in SUBSET Parts : ListParts(w, u, R)
    BY <1>1
  <2>2. /\ pc'[w] = "assemble"
        /\ held'[w] = {part[u][n] : n \in R}
        /\ UNCHANGED <<part, object, tree, tracked, nums, blob>>
        /\ \A s \in Threads : s # w => pc'[s] = pc[s] /\ up'[s] = up[s] /\ held'[s] = held[s]
    BY <1>w, <2>1 DEF ListParts, Goto, store, TypeOK, ThreadTypeOK
  <2>3. \A b \in held'[w] : b \in Named
    BY <2>1, <2>2 DEF Named, ListParts
  <2> QED BY <1>w, <2>2, <2>3, ThreadStep DEF Publishing
<1>2. CASE AppendPart(w)
  <2>1. PICK b \in held[w] :
           IF b \in tree
             THEN held' = [held EXCEPT ![w] = @ \ {b}] /\ UNCHANGED <<pc, up, nums, blob>>
             ELSE Finish(w)
    BY <1>2 DEF AppendPart
  <2>2. pc[w] = "assemble" /\ UNCHANGED <<part, object, tree, tracked>>
    BY <1>2 DEF AppendPart, store
  <2>3. CASE b \in tree
    <3>1. /\ UNCHANGED <<pc, up, nums, blob>>
          /\ held'[w] \subseteq held[w]
          /\ \A s \in Threads : s # w => held'[s] = held[s]
      BY <1>w, <2>1, <2>3 DEF TypeOK, ThreadTypeOK
    <3> QED BY <1>w, <2>2, <3>1, ThreadStep
  <2>4. CASE b \notin tree
    BY <1>w, <2>1, <2>2, <2>4, QuietStep
  <2> QED BY <2>3, <2>4
<1>3. CASE CommitAssembled(w)
  <2>1. PICK b \in Blobs : WritePayload(w, b)
    BY <1>3 DEF CommitAssembled
  <2>2. /\ pc'[w] = "complete" /\ UNCHANGED <<part, object, held>>
        /\ \A s \in Threads : s # w => pc'[s] = pc[s] /\ up'[s] = up[s] /\ nums'[s] = nums[s]
    BY <1>w, <1>3 DEF CommitAssembled, Goto, TypeOK, ThreadTypeOK
  <2> QED BY <2>1, <2>2, WriteStep
<1>4. CASE LoadCompleted(w)
  <2>1. CASE up[w] \in live
    <3>1. /\ pc[w] = "complete" /\ pc'[w] = "gather"
          /\ UNCHANGED <<part, object, tree, tracked, up, nums, blob, held>>
          /\ \A s \in Threads : s # w => pc'[s] = pc[s]
      BY <1>w, <1>4, <2>1 DEF LoadCompleted, Goto, store, TypeOK, ThreadTypeOK
    <3> QED BY <1>w, <3>1, ThreadStep DEF Publishing
  <2>2. CASE up[w] \notin live
    BY <1>w, <1>4, <2>2, QuietStep DEF LoadCompleted, store
  <2> QED BY <2>1, <2>2
<1>5. CASE GatherReleased(w)
  <2>1. /\ pc[w] = "gather" /\ pc'[w] = "publish"
        /\ nums'[w] = {n \in Parts : part[up[w]][n] # None}
        /\ held'[w] = (PartPayloads(up[w]) \cup {object}) \ {None}
        /\ UNCHANGED <<part, object, tree, tracked, up, blob>>
        /\ \A s \in Threads : s # w => pc'[s] = pc[s] /\ nums'[s] = nums[s] /\ held'[s] = held[s]
    BY <1>w, <1>5 DEF GatherReleased, Goto, store, TypeOK, ThreadTypeOK
  <2>2. up[w] \in Uploads
    BY <1>w, <2>1 DEF TypeOK, ThreadTypeOK
  <2>3. \A b \in held'[w] : b \in Named /\ (b = object \/ \E n \in nums'[w] : part[up[w]][n] = b)
    BY <2>1, <2>2 DEF Named, PartPayloads
  <2> QED BY <1>w, <2>1, <2>3, ThreadStep DEF Publishing
<1>6. CASE CompleteUpload(w)
  BY <1>6, CompleteOwn
<1> QED BY <1>1, <1>2, <1>3, <1>4, <1>5, <1>6 DEF CompleteStep

\* Aborting an upload, by request or by the expiry sweep, takes the rows of
\* what it releases.
LEMMA AbortStepOwn ==
    ASSUME TypeOK, OwnInv, NEW t \in Threads, AbortStep(t) PROVE OwnInv'
<1>1. CASE LoadUpload(t)
  <2>1. CASE up[t] \in live
    <3>1. /\ pc'[t] = "collect"
          /\ UNCHANGED <<part, object, tree, tracked, up, nums, blob, held>>
          /\ \A s \in Threads : s # t => pc'[s] = pc[s]
      BY <1>1, <2>1 DEF LoadUpload, Goto, store, TypeOK, ThreadTypeOK
    <3> QED BY <3>1, ThreadStep DEF Publishing
  <2>2. CASE up[t] \notin live
    BY <1>1, <2>2, QuietStep DEF LoadUpload, store
  <2> QED BY <2>1, <2>2
<1>2. CASE CollectParts(t)
  <2>1. /\ pc[t] = "collect" /\ pc'[t] = "abort"
        /\ nums'[t] = {n \in Parts : part[up[t]][n] # None}
        /\ held'[t] = PartPayloads(up[t])
        /\ UNCHANGED <<part, object, tree, tracked, up, blob>>
        /\ \A s \in Threads : s # t => pc'[s] = pc[s] /\ nums'[s] = nums[s] /\ held'[s] = held[s]
    BY <1>2 DEF CollectParts, Goto, store, TypeOK, ThreadTypeOK
  <2>2. up[t] \in Uploads
    BY <2>1 DEF TypeOK, ThreadTypeOK
  <2>3. \A b \in held'[t] : b \in Named /\ \E n \in nums'[t] : part[up[t]][n] = b
    BY <2>1, <2>2 DEF Named, PartPayloads
  <2> QED BY <2>1, <2>3, ThreadStep DEF Publishing
<1>3. CASE AbortUpload(t)
  BY <1>3, AbortOwn
<1> QED BY <1>1, <1>2, <1>3 DEF AbortStep

\* What leaves the tree is named by no row and is nobody's to publish.
LEMMA TakeOwn ==
    ASSUME TypeOK, OwnInv, NEW b, b \notin Named, ~InFlight(b),
           tree' = tree \ {b}, tracked' \subseteq tracked,
           UNCHANGED <<part, object, threads>>
    PROVE  OwnInv'
<1>1. Named' = Named
  BY DEF Named
<1>2. NamedOnce' /\ HeldRows' /\ ReleasedFree' /\ SinglePart'
  BY <1>1 DEF OwnInv, NamedOnce, HeldRows, ReleasedFree, SinglePart, threads
<1>3. PayloadsPresent' /\ LogIsGarbage'
  BY <1>1 DEF OwnInv, PayloadsPresent, LogIsGarbage
<1>4. WritesOwn'
  BY <1>1 DEF OwnInv, WritesOwn, InFlight, threads
<1> QED BY <1>2, <1>3, <1>4 DEF OwnInv

\* Removing a released payload takes no one else's.
LEMMA ReleaseOwn ==
    ASSUME TypeOK, OwnInv, NEW t \in Threads, ReleaseStep(t) PROVE OwnInv'
<1>1. CASE RemoveBlob(t)
  <2>1. PICK b \in held[t] \cap tree : tree' = tree \ {b}
    BY <1>1 DEF RemoveBlob
  <2>2. b \notin Named
    BY <1>1 DEF RemoveBlob, OwnInv, ReleasedFree
  <2>3. ~InFlight(b)
    BY <2>1 DEF OwnInv, WritesOwn, InFlight
  <2>4. tracked' \subseteq tracked /\ UNCHANGED <<part, object, threads>>
    BY <1>1 DEF RemoveBlob
  <2> QED BY <2>1, <2>2, <2>3, <2>4, TakeOwn
<1>2. CASE ForgetOrphans(t)
  <2>1. Finish(t) /\ UNCHANGED <<part, object, tree>> /\ tracked' \subseteq tracked
    BY <1>2 DEF ForgetOrphans
  <2> QED BY <2>1, QuietStep
<1>3. CASE DeferRelease(t)
  BY <1>3, QuietStep DEF DeferRelease, store
<1> QED BY <1>1, <1>2, <1>3 DEF ReleaseStep

\* Every step keeps payloads in one hand.
LEMMA OwnStep == TypeOK /\ OwnInv /\ [Next]_vars => OwnInv'
<1> SUFFICES ASSUME TypeOK, OwnInv, [Next]_vars PROVE OwnInv'
  OBVIOUS
<1>w. Workers \subseteq Threads /\ Sweeper \in Threads
  BY DEF Threads
<1>1. ASSUME UNCHANGED <<part, object, tree, tracked, threads>> PROVE OwnInv'
  <2>1. Named' = Named
    BY <1>1 DEF Named
  <2> QED BY <1>1, <2>1 DEF OwnInv, NamedOnce, WritesOwn, HeldRows, ReleasedFree, SinglePart,
             PayloadsPresent, LogIsGarbage, threads
<1>2. ASSUME NEW w \in Workers, NEW u \in Uploads, CreateUpload(w, u) PROVE OwnInv'
  BY <1>1, <1>2 DEF CreateUpload
<1>3. ASSUME NEW w \in Workers, NEW u \in Uploads, RequestAbort(w, u) PROVE OwnInv'
  <2>1. /\ pc'[w] = "load" /\ UNCHANGED <<part, object, tree, tracked, nums, blob, held>>
        /\ \A s \in Threads : s # w => pc'[s] = pc[s] /\ up'[s] = up[s]
    BY <1>w, <1>3 DEF RequestAbort, Goto, store, TypeOK, ThreadTypeOK
  <2> QED BY <1>w, <2>1, ThreadStep DEF Publishing
<1>4. ASSUME NEW b \in Blobs, ReclaimOlder(b) PROVE OwnInv'
  BY <1>4, TakeOwn DEF ReclaimOlder, OwnInv, LogIsGarbage
<1>5. CASE Restart
  <2>1. Named' = Named
    BY <1>5 DEF Restart, Named
  <2>2. \A t \in Threads : pc'[t] = "idle"
    BY <1>5 DEF Restart
  <2> QED BY <1>5, <1>w, <2>1, <2>2 DEF Restart, OwnInv, NamedOnce, WritesOwn, HeldRows,
             ReleasedFree, SinglePart, PayloadsPresent, LogIsGarbage, Publishing
<1>6. CASE SweepStep
  <2>1. CASE \E u \in Uploads : BecomeIdle(u)
    BY <1>1, <2>1 DEF BecomeIdle
  <2>2. CASE BeginSweep \/ EndSweep \/ \E u \in Uploads : ExamineUpload(u)
    <3>1. /\ pc'[Sweeper] = pc[Sweeper] \/ pc'[Sweeper] \in {"idle", "sweep", "load"}
          /\ pc[Sweeper] \in {"idle", "sweep"}
          /\ UNCHANGED <<part, object, tree, tracked, nums, blob, held>>
          /\ \A s \in Threads : s # Sweeper => pc'[s] = pc[s] /\ up'[s] = up[s]
      BY <1>w, <2>2 DEF BeginSweep, EndSweep, ExamineUpload, Goto, store, TypeOK, ThreadTypeOK
    <3> QED BY <1>w, <3>1, ThreadStep DEF Publishing
  <2> QED BY <1>6, <2>1, <2>2 DEF SweepStep
<1>7. CASE UNCHANGED vars
  BY <1>1, <1>7 DEF vars, store
<1> QED
  BY <1>2, <1>3, <1>4, <1>5, <1>6, <1>7, PartOwn, CompleteStepOwn, AbortStepOwn, ReleaseOwn
     DEF Next

\* Every payload has one owner throughout.
LEMMA Ownership == Spec => []OwnInv
<1>1. Init => OwnInv
  BY DEF Init, NoParts, OwnInv, NamedOnce, WritesOwn, HeldRows, ReleasedFree, SinglePart,
         PayloadsPresent, LogIsGarbage, Named, Publishing, Threads
<1> QED BY <1>1, OwnStep, TypeCorrect, PTL DEF Spec

\* However putPart, completeUpload, abortUpload, the sweep, reclamation and
\* restarts interleave, the payload of every part row and of the object is in
\* the tree.
THEOREM PayloadSafety == Spec => []PayloadsPresent
BY Ownership, PTL DEF OwnInv

\* And none of them is in the reclamation log.
THEOREM LogSafety == Spec => []LogIsGarbage
BY Ownership, PTL DEF OwnInv

=============================================================================
