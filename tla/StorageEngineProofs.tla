------------------------ MODULE StorageEngineProofs ------------------------
(***************************************************************************)
(* Proofs about StorageEngine for every set of keys, payloads, workers,    *)
(* passes and backups.                                                     *)
(***************************************************************************)
EXTENDS StorageEngine, TLAPS

-----------------------------------------------------------------------------
(* Type correctness, one part of the state at a time.                       *)

\* Every step keeps the rows, the log, the files and the grace periods typed.
LEMMA StoreType == TypeOK /\ [Next]_vars => StoreTypeOK'
<1> SUFFICES ASSUME TypeOK, [Next]_vars PROVE StoreTypeOK'
  OBVIOUS
<1> USE StorageAssumption DEF TypeOK, StoreTypeOK, ThreadTypeOK
<1>1. ASSUME NEW w \in Workers, Request(w) PROVE StoreTypeOK'
  BY <1>1 DEF Request, CreateBlob, DeleteObject, ReadRow, metadata, files
<1>2. ASSUME NEW w \in Workers, WorkerStep(w) PROVE StoreTypeOK'
  <2>1. ASSUME NEW k \in Keys, PutObject(w, k) PROVE StoreTypeOK'
    BY <2>1 DEF PutObject, files
  <2>2. CASE TrackBlob(w) \/ AbandonWrite(w) \/ CommitBlob(w) \/ RefuseWrite(w)
    BY <2>2 DEF TrackBlob, AbandonWrite, CommitBlob, RefuseWrite, metadata, files
  <2>3. CASE OpenBlob(w) \/ CheckBarrier(w) \/ RemoveBlob(w) \/ ForgetOrphan(w)
    BY <2>3 DEF OpenBlob, CheckBarrier, RemoveBlob, ForgetOrphan, metadata, files
  <2> QED BY <1>2, <2>1, <2>2, <2>3 DEF WorkerStep
<1>3. ASSUME NEW b \in Blobs, GracePeriodEnds(b) PROVE StoreTypeOK'
  BY <1>3 DEF GracePeriodEnds, files
<1>4. ASSUME NEW s \in Sweepers, SweeperStep(s) PROVE StoreTypeOK'
  BY <1>4 DEF SweeperStep, SweepCutoff, SweepCheckBarrier, ListOrphans, SweepRemoveBlob,
              ForgetOrphans, metadata, files
<1>5. ASSUME NEW c \in Checkpointers, RaiseBarrier(c) \/ CheckpointStep(c) PROVE StoreTypeOK'
  BY <1>5 DEF RaiseBarrier, CheckpointStep, SnapshotMetadata, BeginWalk, LinkPayload, PassOver,
              FinishCheckpoint, FailCheckpoint, metadata, files
<1>6. CASE Crash \/ Recovery
  BY <1>6 DEF Crash, Recovery, Restart, SweepTemporary, RecoverOrphans, OpenListeners,
              metadata, files
<1>7. CASE UNCHANGED vars
  BY <1>7 DEF vars, metadata, files
<1> QED BY <1>1, <1>2, <1>3, <1>4, <1>5, <1>6, <1>7 DEF Next

\* Every step keeps what the request threads hold typed.
LEMMA ThreadType == TypeOK /\ [Next]_vars => ThreadTypeOK'
<1> SUFFICES ASSUME TypeOK, [Next]_vars PROVE ThreadTypeOK'
  OBVIOUS
<1> USE StorageAssumption DEF TypeOK, StoreTypeOK, ThreadTypeOK
<1>1. ASSUME NEW w \in Workers, Request(w) PROVE ThreadTypeOK'
  BY <1>1 DEF Request, CreateBlob, DeleteObject, ReadRow, Goto, passes
<1>2. ASSUME NEW w \in Workers, WorkerStep(w) PROVE ThreadTypeOK'
  BY <1>2 DEF WorkerStep, TrackBlob, AbandonWrite, CommitBlob, RefuseWrite, PutObject, OpenBlob,
              CheckBarrier, RemoveBlob, ForgetOrphan, Goto, passes
<1>3. ASSUME NEW b \in Blobs, GracePeriodEnds(b) PROVE ThreadTypeOK'
  BY <1>3 DEF GracePeriodEnds, requests, passes
<1>4. ASSUME NEW s \in Sweepers, SweeperStep(s) PROVE ThreadTypeOK'
  BY <1>4 DEF SweeperStep, SweepCutoff, SweepCheckBarrier, ListOrphans, Listing, SweepRemoveBlob,
              ForgetOrphans, requests
<1>5. ASSUME NEW c \in Checkpointers, RaiseBarrier(c) \/ CheckpointStep(c) PROVE ThreadTypeOK'
  BY <1>5 DEF RaiseBarrier, CheckpointStep, SnapshotMetadata, BeginWalk, LinkPayload, PassOver,
              FinishCheckpoint, FailCheckpoint, requests, passes
<1>6. CASE Crash \/ Recovery
  BY <1>6 DEF Crash, Recovery, Restart, SweepTemporary, RecoverOrphans, OpenListeners,
              requests, passes
<1>7. CASE UNCHANGED vars
  BY <1>7 DEF vars, requests, passes
<1> QED BY <1>1, <1>2, <1>3, <1>4, <1>5, <1>6, <1>7 DEF Next

\* Only backups and a crash touch the state of backups.
LEMMA BackupSteps ==
    [Next]_vars => \/ \E c \in Checkpointers : RaiseBarrier(c) \/ CheckpointStep(c)
                   \/ Crash
                   \/ UNCHANGED backups
BY DEF Next, vars, Request, CreateBlob, DeleteObject, ReadRow,
     WorkerStep, TrackBlob, AbandonWrite, CommitBlob, RefuseWrite, PutObject, OpenBlob,
     CheckBarrier, RemoveBlob, ForgetOrphan, GracePeriodEnds, SweeperStep, SweepCutoff,
     SweepCheckBarrier, ListOrphans, SweepRemoveBlob, ForgetOrphans, Recovery, Restart,
     SweepTemporary, RecoverOrphans, OpenListeners

\* Every step keeps the barrier and the backups typed.
LEMMA BackupType == TypeOK /\ [Next]_vars => BackupTypeOK'
<1> SUFFICES ASSUME TypeOK, [Next]_vars PROVE BackupTypeOK'
  OBVIOUS
<1> USE DEF TypeOK, StoreTypeOK, BackupTypeOK
<1>1. ASSUME NEW c \in Checkpointers, RaiseBarrier(c) \/ CheckpointStep(c) PROVE BackupTypeOK'
  <2>1. /\ checkpointing' \in BOOLEAN
        /\ ckptPc' \in [Checkpointers -> {"idle", "snapshot", "walk", "link", "done"}]
    BY <1>1 DEF RaiseBarrier, CheckpointStep, SnapshotMetadata, BeginWalk, LinkPayload, PassOver,
                FinishCheckpoint, FailCheckpoint
  <2>2. /\ walk' \in [Checkpointers -> SUBSET Blobs]
        /\ copied' \in [Checkpointers -> SUBSET Blobs]
    <3>1. tree \subseteq Blobs /\ walk[c] \subseteq Blobs /\ copied[c] \subseteq Blobs
      OBVIOUS
    <3> QED BY <1>1, <3>1 DEF RaiseBarrier, CheckpointStep, SnapshotMetadata, BeginWalk,
                LinkPayload, PassOver, FinishCheckpoint, FailCheckpoint
  <2> QED BY <2>1, <2>2
<1>2. CASE Crash
  BY <1>2 DEF Crash
<1>3. CASE UNCHANGED backups
  BY <1>3 DEF backups
<1> QED BY <1>1, <1>2, <1>3, BackupSteps

\* An empty store is a store.
LEMMA NoRowsType == NoRows \in [Keys -> Blobs \cup {None}]
BY DEF NoRows

\* Every step keeps what a backup has copied typed.
LEMMA SnapType == TypeOK /\ [Next]_vars => SnapTypeOK'
<1> SUFFICES ASSUME TypeOK, [Next]_vars PROVE SnapTypeOK'
  OBVIOUS
<1> USE NoRowsType DEF TypeOK, StoreTypeOK, SnapTypeOK
<1>1. ASSUME NEW c \in Checkpointers, RaiseBarrier(c) \/ CheckpointStep(c) PROVE SnapTypeOK'
  BY <1>1 DEF RaiseBarrier, CheckpointStep, SnapshotMetadata, BeginWalk, LinkPayload, PassOver,
              FinishCheckpoint, FailCheckpoint
<1>2. CASE Crash
  BY <1>2 DEF Crash
<1>3. CASE UNCHANGED backups
  BY <1>3 DEF backups
<1> QED BY <1>1, <1>2, <1>3, BackupSteps

\* The storage engine keeps every variable in its type.
THEOREM TypeCorrect == Spec => []TypeOK
<1>1. Init => TypeOK
  <2>1. Init => StoreTypeOK
    BY StorageAssumption DEF Init, StoreTypeOK, NoRows
  <2>2. Init => ThreadTypeOK
    BY StorageAssumption DEF Init, ThreadTypeOK
  <2>3. Init => BackupTypeOK
    BY DEF Init, BackupTypeOK
  <2>4. Init => SnapTypeOK
    BY NoRowsType DEF Init, SnapTypeOK
  <2> QED BY <2>1, <2>2, <2>3, <2>4 DEF TypeOK
<1>2. TypeOK /\ [Next]_vars => TypeOK'
  BY StoreType, ThreadType, BackupType, SnapType DEF TypeOK
<1> QED BY <1>1, <1>2, PTL DEF Spec

-----------------------------------------------------------------------------
(* Safety of reclamation. PayloadPresent is not inductive: it rests on who  *)
(* may hold the id of a payload. A payload being written is held by one     *)
(* worker only, is in no pass's hands and is not old; a payload in a pass's *)
(* hands, or about to be unlinked by a worker, is named by no row.          *)

\* No two keys share a payload.
RowsDistinct ==
    \A j, k \in Keys : rows[j] = rows[k] /\ rows[j] # None => j = k

AgedTracked == aged \subseteq tracked

\* A payload being written is its writer's alone.
WritesOwn ==
    \A w \in Workers : pc[w] \in Writing =>
        /\ blob[w] \notin Referenced \cup aged
        /\ \A v \in Workers \ {w} : blob[v] # blob[w]
        /\ \A s \in Sweepers : blob[w] \notin batch[s]
        /\ pc[w] = "linked" => blob[w] \in tree

\* What a worker is about to unlink, no row names.
ReleasedFree ==
    \A w \in Workers : pc[w] \in {"reclaim", "unlink", "forget"} => blob[w] \notin Referenced

\* What a pass may take, no row names.
BatchFree ==
    \A s \in Sweepers :
        /\ batch[s] \cap Referenced = {}
        /\ todo[s] \subseteq batch[s]
        /\ sweepPc[s] # "unlink" => todo[s] = {}

\* No request is served before recovery is over, and no pass runs before
\* recovery starts its own.
QuietWhenDown ==
    /\ mode # "up" => \A w \in Workers : pc[w] = "idle"
    /\ mode \in {"down", "sweeping"} => \A s \in Sweepers : sweepPc[s] = "idle"

ReclaimInv ==
    /\ RowsDistinct /\ PayloadPresent /\ LogIsGarbage /\ AgedTracked
    /\ WritesOwn /\ ReleasedFree /\ BatchFree /\ QuietWhenDown

\* An empty store satisfies the invariant of reclamation.
LEMMA ReclaimInvInit == Init => ReclaimInv
BY DEF Init, ReclaimInv, RowsDistinct, PayloadPresent, LogIsGarbage, AgedTracked, WritesOwn,
       ReleasedFree, BatchFree, QuietWhenDown, Referenced, NoRows, Writing

\* When no upload outlives the grace period, every step, restarts and sweeps
\* included, keeps the invariant of reclamation.
LEMMA ReclaimInvStep ==
    ASSUME ~SlowUploads PROVE TypeOK /\ ReclaimInv /\ [Next]_vars => ReclaimInv'
<1> SUFFICES ASSUME TypeOK, ReclaimInv, [Next]_vars PROVE ReclaimInv'
  OBVIOUS
<1> USE StorageAssumption
    DEF TypeOK, StoreTypeOK, ThreadTypeOK, ReclaimInv, RowsDistinct, PayloadPresent, LogIsGarbage,
        AgedTracked, WritesOwn, ReleasedFree, BatchFree, QuietWhenDown, Referenced, Writing
<1>1. ASSUME NEW w \in Workers, CreateBlob(w) PROVE ReclaimInv'
  BY <1>1 DEF CreateBlob, Fresh, Goto, metadata, passes
<1>2. ASSUME NEW w \in Workers, TrackBlob(w) PROVE ReclaimInv'
  BY <1>2 DEF TrackBlob, Goto, files, passes
<1>3. ASSUME NEW w \in Workers, AbandonWrite(w) PROVE ReclaimInv'
  BY <1>3 DEF AbandonWrite, Goto, metadata, passes
<1>4. ASSUME NEW w \in Workers, CommitBlob(w) PROVE ReclaimInv'
  BY <1>4 DEF CommitBlob, Goto, metadata, passes
<1>5. ASSUME NEW w \in Workers, RefuseWrite(w) \/ OpenBlob(w) PROVE ReclaimInv'
  BY <1>5 DEF RefuseWrite, OpenBlob, Goto, metadata, files, passes
<1>6. ASSUME NEW w \in Workers, NEW k \in Keys, PutObject(w, k) PROVE ReclaimInv'
  BY <1>6 DEF PutObject, Goto, files, passes
<1>7. ASSUME NEW w \in Workers, NEW k \in Keys, DeleteObject(w, k) PROVE ReclaimInv'
  BY <1>7 DEF DeleteObject, Goto, files, passes
<1>8. ASSUME NEW w \in Workers, NEW k \in Keys, ReadRow(w, k) PROVE ReclaimInv'
  BY <1>8 DEF ReadRow, Goto, metadata, files, passes
<1>9. ASSUME NEW w \in Workers, CheckBarrier(w) PROVE ReclaimInv'
  BY <1>9 DEF CheckBarrier, Goto, metadata, files, passes
<1>10. ASSUME NEW w \in Workers, RemoveBlob(w) PROVE ReclaimInv'
  BY <1>10 DEF RemoveBlob, Goto, metadata, passes
<1>11. ASSUME NEW w \in Workers, ForgetOrphan(w) PROVE ReclaimInv'
  BY <1>11 DEF ForgetOrphan, Goto, files, passes
<1>12. ASSUME NEW b \in Blobs, GracePeriodEnds(b) PROVE ReclaimInv'
  BY <1>12, ~SlowUploads DEF GracePeriodEnds, InFlight, files, requests, passes
<1>13. ASSUME NEW s \in Sweepers, SweepCutoff(s) PROVE ReclaimInv'
  BY <1>13 DEF SweepCutoff, metadata, files, requests
<1>14. ASSUME NEW s \in Sweepers, SweepCheckBarrier(s) PROVE ReclaimInv'
  BY <1>14 DEF SweepCheckBarrier, metadata, files, requests
<1>15. ASSUME NEW s \in Sweepers, ListOrphans(s) PROVE ReclaimInv'
  BY <1>15 DEF ListOrphans, Listing, metadata, files, requests
<1>16. ASSUME NEW s \in Sweepers, SweepRemoveBlob(s) PROVE ReclaimInv'
  BY <1>16 DEF SweepRemoveBlob, metadata, requests
<1>17. ASSUME NEW s \in Sweepers, ForgetOrphans(s) PROVE ReclaimInv'
  BY <1>17 DEF ForgetOrphans, files, requests
<1>18. ASSUME NEW c \in Checkpointers, RaiseBarrier(c) \/ CheckpointStep(c) PROVE ReclaimInv'
  BY <1>18 DEF RaiseBarrier, CheckpointStep, SnapshotMetadata, BeginWalk, LinkPayload, PassOver,
               FinishCheckpoint, FailCheckpoint, metadata, files, requests, passes
<1>19. CASE Crash
  BY <1>19 DEF Crash, metadata, files
<1>20. CASE Recovery
  BY <1>20 DEF Recovery, Restart, SweepTemporary, RecoverOrphans, OpenListeners,
               metadata, files, requests, passes
<1>21. CASE UNCHANGED vars
  BY <1>21 DEF vars, metadata, files, requests, passes
<1> QED
  BY <1>1, <1>2, <1>3, <1>4, <1>5, <1>6, <1>7, <1>8, <1>9, <1>10, <1>11, <1>12, <1>13, <1>14,
     <1>15, <1>16, <1>17, <1>18, <1>19, <1>20, <1>21
     DEF Next, Request, WorkerStep, SweeperStep

\* The invariant of reclamation holds throughout.
LEMMA ReclaimCorrect == ASSUME ~SlowUploads PROVE Spec => [](TypeOK /\ ReclaimInv)
<1>1. TypeOK /\ ReclaimInv /\ [Next]_vars => ReclaimInv'
  BY ~SlowUploads, ReclaimInvStep
<1> QED BY <1>1, TypeCorrect, ReclaimInvInit, PTL DEF Spec

\* Whatever requests, passes, backups and crashes are interleaved, the payload
\* of every object row is in the tree.
THEOREM PayloadSafety == ASSUME ~SlowUploads PROVE Spec => []PayloadPresent
<1>1. ReclaimInv => PayloadPresent
  BY DEF ReclaimInv
<1> QED BY <1>1, ~SlowUploads, ReclaimCorrect, PTL

\* The reclamation log never names the payload of an object.
THEOREM LogSafety == ASSUME ~SlowUploads PROVE Spec => []LogIsGarbage
<1>1. ReclaimInv => LogIsGarbage
  BY DEF ReclaimInv
<1> QED BY <1>1, ~SlowUploads, ReclaimCorrect, PTL

-----------------------------------------------------------------------------
(* Backups, one at a time. From the snapshot on, nothing that is unlinked   *)
(* or about to be is in it: what was past the barrier check by then had     *)
(* already left the rows, and nothing passes the check until the copy ends. *)

OneBackup == \A c, d \in Checkpointers : c = d

BackupInv ==
    \A c \in Checkpointers :
        /\ ckptPc[c] \in {"snapshot", "walk", "link"} => checkpointing
        /\ ckptPc[c] \in {"walk", "link"} =>
              /\ Snapped(c) \subseteq tree
              /\ \A w \in Workers : pc[w] = "unlink" => blob[w] \notin Snapped(c)
              /\ \A s \in Sweepers :
                    sweepPc[s] \in {"list", "unlink"} => batch[s] \cap Snapped(c) = {}
        /\ ckptPc[c] = "link" => Snapped(c) \subseteq copied[c] \cup walk[c]
        /\ ckptPc[c] = "done" => Snapped(c) \subseteq copied[c]

\* With one backup at a time, no step takes a payload that the backup has still
\* to copy.
LEMMA BackupInvStep ==
    ASSUME OneBackup, TypeOK, ReclaimInv, BackupInv, [Next]_vars PROVE BackupInv'
<1> USE DEF TypeOK, StoreTypeOK, ThreadTypeOK, BackupTypeOK, SnapTypeOK, BackupInv, Snapped
<1>1. ASSUME NEW w \in Workers, Request(w) PROVE BackupInv'
  BY <1>1 DEF Request, CreateBlob, DeleteObject, ReadRow, Goto, files, passes, backups
<1>2. ASSUME NEW w \in Workers, WorkerStep(w) PROVE BackupInv'
  <2>1. CASE TrackBlob(w) \/ AbandonWrite(w) \/ CommitBlob(w) \/ RefuseWrite(w) \/ OpenBlob(w)
    <3>1. /\ UNCHANGED <<passes, backups>>
          /\ tree \subseteq tree'
          /\ pc' \in [Workers -> {"idle", "created", "writing", "linked", "open",
                                  "reclaim", "unlink", "forget"}]
          /\ \A v \in Workers : pc'[v] = "unlink" => pc[v] = "unlink" /\ blob'[v] = blob[v]
      BY <2>1 DEF TrackBlob, AbandonWrite, CommitBlob, RefuseWrite, OpenBlob, Goto, files
    <3> QED BY <3>1 DEF passes, backups
  <2>2. ASSUME NEW k \in Keys, PutObject(w, k) PROVE BackupInv'
    <3>1. \A v \in Workers : pc'[v] = "unlink" => pc[v] = "unlink" /\ blob'[v] = blob[v]
      BY <2>2 DEF PutObject, Goto
    <3> QED BY <2>2, <3>1 DEF PutObject, files, passes, backups
  <2>3. CASE CheckBarrier(w)
    BY <2>3 DEF CheckBarrier, Goto, files, passes, backups
  <2>4. CASE RemoveBlob(w)
    BY <2>4 DEF RemoveBlob, Goto, passes, backups
  <2>5. CASE ForgetOrphan(w)
    BY <2>5 DEF ForgetOrphan, Goto, files, passes, backups
  <2> QED BY <1>2, <2>1, <2>2, <2>3, <2>4, <2>5 DEF WorkerStep
<1>3. ASSUME NEW b \in Blobs, GracePeriodEnds(b) PROVE BackupInv'
  BY <1>3 DEF GracePeriodEnds, files, requests, passes, backups
<1>4. ASSUME NEW s \in Sweepers, SweepCutoff(s) \/ SweepCheckBarrier(s) PROVE BackupInv'
  <2>1. UNCHANGED <<tree, pc, blob, backups>>
    BY <1>4 DEF SweepCutoff, SweepCheckBarrier, files, requests
  <2>2. \A t \in Sweepers : sweepPc'[t] \in {"list", "unlink"} /\ checkpointing
            => sweepPc[t] \in {"list", "unlink"} /\ batch'[t] = batch[t]
    BY <1>4 DEF SweepCutoff, SweepCheckBarrier
  <2> QED BY <2>1, <2>2 DEF backups
<1>5. ASSUME NEW s \in Sweepers, ListOrphans(s) PROVE BackupInv'
  BY <1>5 DEF ListOrphans, Listing, files, requests, backups
<1>6. ASSUME NEW s \in Sweepers, SweepRemoveBlob(s) PROVE BackupInv'
  BY <1>6 DEF SweepRemoveBlob, ReclaimInv, BatchFree, requests, backups
<1>7. ASSUME NEW s \in Sweepers, ForgetOrphans(s) PROVE BackupInv'
  BY <1>7 DEF ForgetOrphans, files, requests, backups
<1>8. ASSUME NEW c \in Checkpointers, RaiseBarrier(c) PROVE BackupInv'
  BY <1>8, OneBackup DEF RaiseBarrier, OneBackup, files, requests, passes
<1>9. ASSUME NEW c \in Checkpointers, CheckpointStep(c) PROVE BackupInv'
  <2> USE OneBackup DEF OneBackup
  <2>1. CASE SnapshotMetadata(c)
    BY <2>1 DEF SnapshotMetadata, ReclaimInv, PayloadPresent, ReleasedFree, BatchFree, Referenced,
                files, requests, passes
  <2>2. CASE BeginWalk(c)
    BY <2>2 DEF BeginWalk, files, requests, passes
  <2>3. ASSUME NEW b \in Blobs, LinkPayload(c, b) \/ PassOver(c, b) PROVE BackupInv'
    BY <2>3 DEF LinkPayload, PassOver, files, requests, passes
  <2>4. CASE FinishCheckpoint(c) \/ FailCheckpoint(c)
    BY <2>4 DEF FinishCheckpoint, FailCheckpoint, files, requests, passes
  <2> QED BY <1>9, <2>1, <2>2, <2>3, <2>4 DEF CheckpointStep
<1>10. CASE Crash
  BY <1>10 DEF Crash, files
<1>11. CASE Recovery
  BY <1>11 DEF Recovery, Restart, SweepTemporary, RecoverOrphans, OpenListeners,
               files, requests, passes, backups
<1>12. CASE UNCHANGED vars
  BY <1>12 DEF vars, files, requests, passes, backups
<1> QED
  BY <1>1, <1>2, <1>3, <1>4, <1>5, <1>6, <1>7, <1>8, <1>9, <1>10, <1>11, <1>12
     DEF Next, SweeperStep

\* A finished backup holds every payload its rows name, as long as no two
\* backups overlap.
THEOREM BackupSafety == ASSUME OneBackup, ~SlowUploads PROVE Spec => []BackupComplete
<1>1. Init => BackupInv
  BY DEF Init, BackupInv
<1>2. TypeOK /\ ReclaimInv /\ BackupInv /\ [Next]_vars => BackupInv'
  BY OneBackup, BackupInvStep
<1>3. BackupInv => BackupComplete
  BY DEF BackupInv, BackupComplete
<1> QED BY <1>1, <1>2, <1>3, ~SlowUploads, ReclaimCorrect, PTL DEF Spec

-----------------------------------------------------------------------------
(* Nothing is leaked, as long as unlink(2) does what it is asked: a payload *)
(* leaves the log only when a row takes it over or its file is gone.        *)

TreeInv ==
    /\ TreeAccounted
    /\ \A w \in Workers : pc[w] \in {"writing", "linked"} => blob[w] \in tracked
    /\ \A w \in Workers : pc[w] = "forget" => blob[w] \notin tree
    /\ \A s \in Sweepers : sweepPc[s] = "unlink" => (batch[s] \ todo[s]) \cap tree = {}

\* When every unlink succeeds, a file that leaves the rows stays on record.
LEMMA TreeInvStep ==
    ASSUME ~UnlinkErrors, TypeOK, ReclaimInv, TreeInv, [Next]_vars PROVE TreeInv'
<1> USE StorageAssumption
    DEF TypeOK, StoreTypeOK, ThreadTypeOK, TreeInv, TreeAccounted, Referenced, ReclaimInv,
        WritesOwn, Writing
<1>1. ASSUME NEW w \in Workers, CreateBlob(w) PROVE TreeInv'
  BY <1>1 DEF CreateBlob, Fresh, Goto, metadata, passes
<1>2. ASSUME NEW w \in Workers, TrackBlob(w) PROVE TreeInv'
  BY <1>2 DEF TrackBlob, Goto, files, passes
<1>3. ASSUME NEW w \in Workers, AbandonWrite(w) PROVE TreeInv'
  BY <1>3 DEF AbandonWrite, Goto, metadata, passes
<1>4. ASSUME NEW w \in Workers, CommitBlob(w) PROVE TreeInv'
  BY <1>4 DEF CommitBlob, Goto, metadata, passes
<1>5. ASSUME NEW w \in Workers, RefuseWrite(w) \/ OpenBlob(w) PROVE TreeInv'
  BY <1>5 DEF RefuseWrite, OpenBlob, Goto, metadata, files, passes
<1>6. ASSUME NEW w \in Workers, NEW k \in Keys, PutObject(w, k) PROVE TreeInv'
  BY <1>6 DEF PutObject, Goto, files, passes
<1>7. ASSUME NEW w \in Workers, NEW k \in Keys, DeleteObject(w, k) PROVE TreeInv'
  BY <1>7 DEF DeleteObject, Goto, files, passes
<1>8. ASSUME NEW w \in Workers, NEW k \in Keys, ReadRow(w, k) PROVE TreeInv'
  BY <1>8 DEF ReadRow, Goto, metadata, files, passes
<1>9. ASSUME NEW w \in Workers, CheckBarrier(w) PROVE TreeInv'
  BY <1>9 DEF CheckBarrier, Goto, metadata, files, passes
<1>10. ASSUME NEW w \in Workers, RemoveBlob(w) PROVE TreeInv'
  BY <1>10, ~UnlinkErrors DEF RemoveBlob, ReleasedFree, Goto, metadata, passes
<1>11. ASSUME NEW w \in Workers, ForgetOrphan(w) PROVE TreeInv'
  BY <1>11 DEF ForgetOrphan, Goto, files, passes
<1>12. ASSUME NEW b \in Blobs, GracePeriodEnds(b) PROVE TreeInv'
  BY <1>12 DEF GracePeriodEnds, files, requests, passes
<1>13. ASSUME NEW s \in Sweepers, SweepCutoff(s) \/ SweepCheckBarrier(s) PROVE TreeInv'
  BY <1>13 DEF SweepCutoff, SweepCheckBarrier, metadata, files, requests
<1>14. ASSUME NEW s \in Sweepers, ListOrphans(s) PROVE TreeInv'
  BY <1>14 DEF ListOrphans, metadata, files, requests
<1>15. ASSUME NEW s \in Sweepers, SweepRemoveBlob(s) PROVE TreeInv'
  BY <1>15, ~UnlinkErrors DEF SweepRemoveBlob, BatchFree, metadata, requests
<1>16. ASSUME NEW s \in Sweepers, ForgetOrphans(s) PROVE TreeInv'
  BY <1>16 DEF ForgetOrphans, files, requests
<1>17. ASSUME NEW c \in Checkpointers, RaiseBarrier(c) \/ CheckpointStep(c) PROVE TreeInv'
  BY <1>17 DEF RaiseBarrier, CheckpointStep, SnapshotMetadata, BeginWalk, LinkPayload, PassOver,
               FinishCheckpoint, FailCheckpoint, metadata, files, requests, passes
<1>18. CASE Crash
  BY <1>18 DEF Crash, metadata, files
<1>19. CASE Recovery
  BY <1>19 DEF Recovery, Restart, SweepTemporary, RecoverOrphans, OpenListeners, QuietWhenDown,
               metadata, files, requests, passes
<1>20. CASE UNCHANGED vars
  BY <1>20 DEF vars, metadata, files, requests, passes
<1> QED
  BY <1>1, <1>2, <1>3, <1>4, <1>5, <1>6, <1>7, <1>8, <1>9, <1>10, <1>11, <1>12, <1>13, <1>14,
     <1>15, <1>16, <1>17, <1>18, <1>19, <1>20
     DEF Next, Request, WorkerStep, SweeperStep

\* Every file of the tree is accounted for throughout.
LEMMA TreeCorrect == ASSUME ~UnlinkErrors, ~SlowUploads PROVE Spec => []TreeInv
<1>1. Init => TreeInv
  BY DEF Init, TreeInv, TreeAccounted
<1>2. TypeOK /\ ReclaimInv /\ TreeInv /\ [Next]_vars => TreeInv'
  BY ~UnlinkErrors, TreeInvStep
<1> QED BY <1>1, <1>2, ~SlowUploads, ReclaimCorrect, PTL DEF Spec

\* Every payload file that no row names is in the reclamation log.
THEOREM NoPayloadLeaks == ASSUME ~UnlinkErrors, ~SlowUploads PROVE Spec => []TreeAccounted
<1>1. TreeInv => TreeAccounted
  BY DEF TreeInv
<1> QED BY <1>1, ~UnlinkErrors, ~SlowUploads, TreeCorrect, PTL

-----------------------------------------------------------------------------
(* Recovery. Until the listeners open, some pass holds the whole log.       *)

RecoveryInv ==
    /\ mode # "up" => ~checkpointing /\ \A c \in Checkpointers : ckptPc[c] \in {"idle", "done"}
    /\ mode = "reclaiming" =>
          /\ tmp = {}
          /\ tracked = {} \/ \E s \in Sweepers : sweepPc[s] # "idle" /\ tracked \subseteq batch[s]

\* No backup outlives a crash, and a recovery that reclaims has only its own
\* batch left on record.
LEMMA RecoveryInvStep ==
    ASSUME ~UnlinkErrors, TypeOK, ReclaimInv, RecoveryInv, [Next]_vars PROVE RecoveryInv'
<1> USE DEF TypeOK, StoreTypeOK, ThreadTypeOK, BackupTypeOK, RecoveryInv
<1>1. CASE mode = "up" /\ mode' = "up"
  BY <1>1
<1>2. CASE Crash
  BY <1>2 DEF Crash
<1>3. CASE mode # "up" /\ \E w \in Workers : Request(w) \/ WorkerStep(w)
  BY <1>3 DEF ReclaimInv, QuietWhenDown, Request, CreateBlob, DeleteObject, ReadRow, WorkerStep,
     TrackBlob, AbandonWrite, CommitBlob, RefuseWrite, PutObject, OpenBlob, CheckBarrier,
     RemoveBlob, ForgetOrphan
<1>4. ASSUME mode # "up", NEW s \in Sweepers, SweeperStep(s) PROVE RecoveryInv'
  <2>1. CASE SweepCheckBarrier(s)
    BY <1>4, <2>1 DEF SweepCheckBarrier, metadata, files, backups
  <2>2. CASE ListOrphans(s)
    <3>1. CASE mode = "reclaiming"
      <4>1. /\ batch' = [batch EXCEPT ![s] = batch[s] \cap tracked]
            /\ sweepPc' = [sweepPc EXCEPT ![s] = IF batch[s] \cap tracked = {} THEN "idle"
                                                                               ELSE "unlink"]
        BY <2>2, <3>1 DEF ListOrphans, Listing
      <4>2. UNCHANGED <<tracked, tmp, mode, checkpointing, ckptPc>>
        BY <2>2 DEF ListOrphans, metadata, files, backups
      <4> QED BY <1>4, <3>1, <4>1, <4>2
    <3>2. CASE mode # "reclaiming"
      BY <1>4, <2>2, <3>2 DEF ListOrphans, ReclaimInv, QuietWhenDown
    <3> QED BY <3>1, <3>2
  <2>3. CASE SweepRemoveBlob(s)
    BY <1>4, <2>3 DEF SweepRemoveBlob, metadata, backups
  <2>4. CASE ForgetOrphans(s)
    BY <1>4, <2>4 DEF ForgetOrphans, files, backups
  <2> QED BY <1>4, <2>1, <2>2, <2>3, <2>4 DEF SweeperStep, SweepCutoff
<1>5. CASE mode # "up" /\ \E c \in Checkpointers : RaiseBarrier(c) \/ CheckpointStep(c)
  BY <1>5 DEF RaiseBarrier, CheckpointStep, SnapshotMetadata, BeginWalk, LinkPayload, PassOver,
              FinishCheckpoint, FailCheckpoint
<1>6. CASE Recovery
  BY <1>6, ~UnlinkErrors DEF Recovery, Restart, SweepTemporary, RecoverOrphans, OpenListeners,
              metadata, files, requests, passes, backups
<1>7. CASE UNCHANGED vars
  BY <1>7 DEF vars, metadata, files, passes, backups
<1>8. CASE mode # "up" /\ \E b \in Blobs : GracePeriodEnds(b)
  BY <1>8 DEF GracePeriodEnds
<1>9. mode = "up" => mode' = "up" \/ Crash
  BY DEF Next, Request, CreateBlob, DeleteObject, ReadRow, WorkerStep, TrackBlob, AbandonWrite,
     CommitBlob, RefuseWrite, PutObject, OpenBlob, CheckBarrier, RemoveBlob, ForgetOrphan,
     GracePeriodEnds, SweeperStep, SweepCutoff, SweepCheckBarrier, ListOrphans, SweepRemoveBlob,
     ForgetOrphans, RaiseBarrier, CheckpointStep, SnapshotMetadata, BeginWalk, LinkPayload,
     PassOver, FinishCheckpoint, FailCheckpoint, Recovery, Restart, SweepTemporary,
     RecoverOrphans, OpenListeners, vars
<1> QED BY <1>1, <1>2, <1>3, <1>4, <1>5, <1>6, <1>7, <1>8, <1>9 DEF Next

\* When recovery hands over to the listeners, the tree holds the payloads of
\* objects and nothing else, and neither tmp/ nor the log holds anything.
THEOREM RecoverySafety ==
    ASSUME ~UnlinkErrors, ~SlowUploads PROVE Spec => RecoveryLeavesNoResidue
<1>1. Init => RecoveryInv
  BY DEF Init, RecoveryInv
<1>2. TypeOK /\ ReclaimInv /\ RecoveryInv /\ [Next]_vars => RecoveryInv'
  BY ~UnlinkErrors, RecoveryInvStep
<1>3. ASSUME TypeOK, ReclaimInv, TreeInv, RecoveryInv, [Next]_vars
      PROVE  [mode = "reclaiming" /\ mode' = "up" =>
                 tree' = Referenced' /\ tmp' = {} /\ tracked' = {}]_vars
  <2>1. mode = "reclaiming" /\ mode' = "up" => OpenListeners
    BY <1>3 DEF Next, Request, CreateBlob, DeleteObject, ReadRow, WorkerStep, TrackBlob,
       AbandonWrite, CommitBlob, RefuseWrite, PutObject, OpenBlob, CheckBarrier, RemoveBlob,
       ForgetOrphan, GracePeriodEnds, SweeperStep, SweepCutoff, SweepCheckBarrier, ListOrphans,
       SweepRemoveBlob, ForgetOrphans, RaiseBarrier, CheckpointStep, SnapshotMetadata, BeginWalk,
       LinkPayload, PassOver, FinishCheckpoint, FailCheckpoint, Crash, Recovery, Restart,
       SweepTemporary, RecoverOrphans, vars
  <2>2. OpenListeners => tree = Referenced /\ tmp = {} /\ tracked = {}
    BY <1>3 DEF OpenListeners, RecoveryInv, TreeInv, TreeAccounted, ReclaimInv, PayloadPresent
  <2>3. OpenListeners => UNCHANGED <<tree, tmp, tracked, rows>>
    BY DEF OpenListeners, metadata, files
  <2> QED BY <2>1, <2>2, <2>3 DEF Referenced
<1> QED BY <1>1, <1>2, <1>3, ~UnlinkErrors, ~SlowUploads, TreeCorrect, ReclaimCorrect, PTL
        DEF Spec, RecoveryLeavesNoResidue

-----------------------------------------------------------------------------
(* The engine implements ObjectMap: under the invariants no content is ever *)
(* lost, so the abstract map is the rows and an abstract backup is its      *)
(* snapshot; only the two row batches and the snapshot change them.         *)

\* The abstract variables without the case of a lost payload.
Held(c) == ckptPc[c] \in {"walk", "link", "done"}
Copies == [c \in Checkpointers |-> IF Held(c) THEN snap[c] ELSE NoBackup]

NothingLost == objectBar = rows /\ backupBar = Copies

\* What the three invariants say of a store and its backup is that nothing is
\* lost.
LEMMA Bars ==
    ASSUME TypeOK, ReclaimInv, BackupInv PROVE NothingLost
<1> USE DEF TypeOK, StoreTypeOK, BackupTypeOK, SnapTypeOK
<1>1. objectBar = rows
  BY DEF objectBar, Content, ReclaimInv, PayloadPresent, Referenced
<1>2. ASSUME NEW c \in Checkpointers, ckptPc[c] \in {"walk", "link"}
      PROVE  [k \in Keys |-> Content(snap[c][k], tree)] = snap[c]
  BY <1>2 DEF Content, BackupInv, Snapped
<1>3. ASSUME NEW c \in Checkpointers, ckptPc[c] = "done"
      PROVE  [k \in Keys |-> Content(snap[c][k], copied[c])] = snap[c]
  BY <1>3 DEF Content, BackupInv, Snapped
<1>4. backupBar = Copies
  BY <1>2, <1>3 DEF backupBar, Copies, Held
<1> QED BY <1>1, <1>4 DEF NothingLost

\* The rows change by putObject's batch and by deleteObject's.
LEMMA RowSteps ==
    ASSUME TypeOK, [Next]_vars
    PROVE  \/ \E k \in Keys, v \in Blobs \cup {None} :
                 rows' = [rows EXCEPT ![k] = v] /\ UNCHANGED backups
           \/ UNCHANGED rows
<1>1. ASSUME NEW w \in Workers, NEW k \in Keys, PutObject(w, k) \/ DeleteObject(w, k)
      PROVE  \E v \in Blobs \cup {None} : rows' = [rows EXCEPT ![k] = v] /\ UNCHANGED backups
  BY <1>1 DEF PutObject, DeleteObject, TypeOK, ThreadTypeOK
<1> QED
  BY <1>1 DEF Next, Request, CreateBlob, ReadRow, WorkerStep, TrackBlob, AbandonWrite,
     CommitBlob, RefuseWrite, OpenBlob, CheckBarrier, RemoveBlob, ForgetOrphan,
     GracePeriodEnds, SweeperStep, SweepCutoff, SweepCheckBarrier, ListOrphans, SweepRemoveBlob,
     ForgetOrphans, RaiseBarrier, CheckpointStep, SnapshotMetadata, BeginWalk, LinkPayload,
     PassOver, FinishCheckpoint, FailCheckpoint, Crash, Recovery, Restart, SweepTemporary,
     RecoverOrphans, OpenListeners, vars, metadata

\* The copies change by a snapshot, and are dropped by a new request, a
\* failure or a crash.
LEMMA CopySteps ==
    ASSUME TypeOK, [Next]_vars
    PROVE  \/ \E c \in Checkpointers : Copies' = [Copies EXCEPT ![c] = rows]
           \/ \E S \in SUBSET Checkpointers :
                 Copies' = [c \in Checkpointers |-> IF c \in S THEN NoBackup ELSE Copies[c]]
<1> USE DEF TypeOK, BackupTypeOK, SnapTypeOK, Copies, Held
<1>1. ASSUME NEW c \in Checkpointers, SnapshotMetadata(c)
      PROVE  Copies' = [Copies EXCEPT ![c] = rows]
  BY <1>1 DEF SnapshotMetadata
<1>2. ASSUME NEW c \in Checkpointers, RaiseBarrier(c) \/ FailCheckpoint(c)
      PROVE  Copies' = [d \in Checkpointers |-> IF d \in {c} THEN NoBackup ELSE Copies[d]]
  BY <1>2 DEF RaiseBarrier, FailCheckpoint
<1>3. ASSUME NEW c \in Checkpointers,
             BeginWalk(c) \/ FinishCheckpoint(c) \/ \E b \in Blobs : LinkPayload(c, b) \/ PassOver(c, b)
      PROVE  Copies' = [d \in Checkpointers |-> IF d \in {} THEN NoBackup ELSE Copies[d]]
  BY <1>3 DEF BeginWalk, FinishCheckpoint, LinkPayload, PassOver
<1>4. ASSUME Crash
      PROVE  Copies' = [d \in Checkpointers |-> IF d \in {c \in Checkpointers : ckptPc[c] # "done"}
                                                  THEN NoBackup ELSE Copies[d]]
  BY <1>4 DEF Crash
<1>5. ASSUME UNCHANGED backups
      PROVE  Copies' = [d \in Checkpointers |-> IF d \in {} THEN NoBackup ELSE Copies[d]]
  BY <1>5 DEF backups
<1> HIDE DEF Copies, Held, TypeOK, BackupTypeOK, SnapTypeOK
<1> DEFINE Drop(S) == Copies' = [d \in Checkpointers |-> IF d \in S THEN NoBackup ELSE Copies[d]]
<1>6. ASSUME NEW c \in Checkpointers, RaiseBarrier(c) \/ CheckpointStep(c)
      PROVE  Copies' = [Copies EXCEPT ![c] = rows] \/ Drop({c}) \/ Drop({})
  BY <1>6, <1>1, <1>2, <1>3 DEF CheckpointStep
<1>7. Crash => Drop({c \in Checkpointers : ckptPc[c] # "done"})
  BY <1>4
<1>8. UNCHANGED backups => Drop({})
  BY <1>5
<1> HIDE DEF Drop
<1>9. \/ \E c \in Checkpointers : Copies' = [Copies EXCEPT ![c] = rows]
      \/ \E T \in SUBSET Checkpointers : Drop(T)
  <2>1. {} \in SUBSET Checkpointers
    OBVIOUS
  <2>2. {c \in Checkpointers : ckptPc[c] # "done"} \in SUBSET Checkpointers
    OBVIOUS
  <2>3. \A c \in Checkpointers : {c} \in SUBSET Checkpointers
    OBVIOUS
  <2> QED BY <1>6, <1>7, <1>8, <2>1, <2>2, <2>3, BackupSteps
<1> QED BY <1>9 DEF Drop

\* With one backup at a time, the engine implements ObjectMap: objects and
\* backups change in one step each, and nothing else changes them.
THEOREM Refinement == ASSUME OneBackup, ~SlowUploads PROVE Spec => ImplementsObjectMap
<1>1. Init => Map!Init
  BY DEF Init, Map!Init, objectBar, backupBar, Content, NoRows
<1>2. ASSUME TypeOK, NothingLost, NothingLost', [Next]_vars
      PROVE  [Map!Next]_(Map!vars)
  <2>1. objectBar = rows /\ backupBar = Copies
    BY <1>2 DEF NothingLost
  <2>2. objectBar' = rows' /\ backupBar' = Copies'
    BY <1>2 DEF NothingLost
  <2>3. UNCHANGED backups => Copies' = Copies
    BY DEF backups, Copies, Held
  <2>4. ASSUME NEW k \in Keys, NEW v \in Blobs \cup {None}, rows' = [rows EXCEPT ![k] = v],
               UNCHANGED backups
        PROVE  Map!Next
    BY <2>1, <2>2, <2>3, <2>4 DEF Map!Next, Map!Put, Map!Delete
  <2>5. ASSUME UNCHANGED rows, NEW c \in Checkpointers, Copies' = [Copies EXCEPT ![c] = rows]
        PROVE  Map!Next
    BY <2>1, <2>2, <2>5 DEF Map!Next, Map!TakeBackup
  <2>6. ASSUME UNCHANGED rows, NEW S \in SUBSET Checkpointers,
               Copies' = [c \in Checkpointers |-> IF c \in S THEN NoBackup ELSE Copies[c]]
        PROVE  Map!Next
    BY <2>1, <2>2, <2>6 DEF Map!Next, Map!DropBackups
  <2> QED BY <1>2, <2>4, <2>5, <2>6, RowSteps, CopySteps
<1>3. Init => BackupInv
  BY DEF Init, BackupInv
<1>4. TypeOK /\ ReclaimInv /\ BackupInv /\ [Next]_vars => BackupInv'
  BY OneBackup, BackupInvStep
<1>5. TypeOK /\ ReclaimInv /\ BackupInv => NothingLost
  BY Bars
<1> QED BY <1>1, <1>2, <1>3, <1>4, <1>5, ~SlowUploads, ReclaimCorrect, PTL
        DEF Spec, ImplementsObjectMap, Map!Spec

=============================================================================
