--------------------------- MODULE StorageEngine ---------------------------
(***************************************************************************)
(* The life of an object payload in MonoBucket's storage engine:           *)
(* storage_engine.cpp over blob_store.cpp (files) and                      *)
(* rocksdb_metadata_store.cpp (rows and the reclamation log), with the     *)
(* requests of the I/O pool, the periodic reclamation pass, backups and    *)
(* process crashes all interleaved.                                        *)
(*                                                                         *)
(* A RocksDB write batch is one step, and so is a file system call; every  *)
(* other boundary between two calls of the code is a boundary here.        *)
(* An object's content is identified by the payload that holds it, since   *)
(* every write gets a payload id of its own (newBlobId).                   *)
(***************************************************************************)
EXTENDS Naturals, FiniteSets

CONSTANTS
    Keys,           \* object keys of one bucket
    Blobs,          \* payload ids
    Workers,        \* pool threads serving requests
    Sweepers,       \* pool threads running a reclamation pass
    Checkpointers,  \* pool threads serving a backup request
    ReclaimBatch,   \* payloads one pass may take (kReclaimBatch)
    UnlinkErrors,   \* whether unlink(2) may fail
    SlowUploads,    \* whether an upload may outlast the grace period
    None,           \* no payload
    NoBackup        \* no copy (of the abstract specification)

ASSUME StorageAssumption ==
    /\ None \notin Blobs
    /\ ReclaimBatch \in Nat \ {0}
    /\ UnlinkErrors \in BOOLEAN
    /\ SlowUploads \in BOOLEAN
    /\ NoBackup \notin [Keys -> Blobs \cup {None}]

VARIABLES
    rows,           \* [Keys -> Blobs or None]: the object rows
    tracked,        \* payloads with a record in the reclamation log
    aged,           \* those whose record is older than the grace period
    tmp,            \* payload files under tmp/
    tree,           \* payload files under objects/
    mode,           \* "down", "sweeping" and "reclaiming" (recover()), "up"
    pc,             \* what each worker is about to do
    blob,           \* the payload each worker holds the id of
    sweepPc,        \* what each reclamation pass is about to do
    batch,          \* the payloads it may take, then the ones it takes
    todo,           \* of those, the ones not unlinked yet
    checkpointing,  \* StorageEngine::checkpointing_
    ckptPc,         \* what each backup is about to do
    snap,           \* the rows its metadata snapshot holds
    walk,           \* payloads its directory walk still has to meet
    copied          \* payloads it has linked

metadata == <<rows, tracked, aged>>
files    == <<tmp, tree>>
requests == <<pc, blob>>
passes   == <<sweepPc, batch, todo>>
backups  == <<checkpointing, ckptPc, snap, walk, copied>>
vars     == <<metadata, files, mode, requests, passes, backups>>

NoRows == [k \in Keys |-> None]

\* The payloads some row names, in the store and in a snapshot.
Referenced == {rows[k] : k \in Keys} \ {None}
Snapped(c) == {snap[c][k] : k \in Keys} \ {None}

\* A payload id nothing has ever named, as far as anyone can still tell.
Fresh(b) ==
    /\ b \notin Referenced \cup tracked \cup tmp \cup tree
    /\ \A w \in Workers : blob[w] # b
    /\ \A s \in Sweepers : b \notin batch[s] \cup todo[s]
    /\ \A c \in Checkpointers : b \notin Snapped(c) \cup walk[c] \cup copied[c]

\* A write whose outcome is still open holds its payload.
Writing == {"created", "writing", "linked"}
InFlight(b) == \E w \in Workers : pc[w] \in Writing /\ blob[w] = b

Goto(w, label, b) ==
    /\ pc' = [pc EXCEPT ![w] = label]
    /\ blob' = [blob EXCEPT ![w] = b]

Init ==
    /\ rows = NoRows /\ tracked = {} /\ aged = {}
    /\ tmp = {} /\ tree = {}
    /\ mode = "up"
    /\ pc = [w \in Workers |-> "idle"]
    /\ blob = [w \in Workers |-> None]
    /\ sweepPc = [s \in Sweepers |-> "idle"]
    /\ batch = [s \in Sweepers |-> {}]
    /\ todo = [s \in Sweepers |-> {}]
    /\ checkpointing = FALSE
    /\ ckptPc = [c \in Checkpointers |-> "idle"]
    /\ snap = [c \in Checkpointers |-> NoRows]
    /\ walk = [c \in Checkpointers |-> {}]
    /\ copied = [c \in Checkpointers |-> {}]

-----------------------------------------------------------------------------
(* Writing an object: beginWrite, the streamed body, finishWrite.           *)

\* BlobStore::create: a new id and its temporary file.
CreateBlob(w) ==
    /\ mode = "up" /\ pc[w] = "idle"
    /\ \E b \in Blobs :
          /\ Fresh(b)
          /\ tmp' = tmp \cup {b}
          /\ Goto(w, "created", b)
    /\ UNCHANGED <<metadata, tree, mode, passes, backups>>

\* The second half of beginWrite: the id enters the reclamation log before
\* a byte of the payload is written.
TrackBlob(w) ==
    /\ pc[w] = "created"
    /\ tracked' = tracked \cup {blob[w]}
    /\ Goto(w, "writing", blob[w])
    /\ UNCHANGED <<rows, aged, files, mode, passes, backups>>

\* The body is refused, or beginWrite's own log write fails: the writer's
\* destructor removes the temporary file and leaves the log alone.
AbandonWrite(w) ==
    /\ pc[w] \in {"created", "writing"}
    /\ tmp' = tmp \ {blob[w]}
    /\ Goto(w, "idle", None)
    /\ UNCHANGED <<metadata, tree, mode, passes, backups>>

\* BlobWriter::commit: the flushed file is renamed into the tree.
CommitBlob(w) ==
    /\ pc[w] = "writing"
    /\ tmp' = tmp \ {blob[w]}
    /\ tree' = tree \cup {blob[w]}
    /\ Goto(w, "linked", blob[w])
    /\ UNCHANGED <<metadata, mode, passes, backups>>

\* finishWrite fails after the rename (the ledger refuses the claim, or
\* putObject finds the bucket gone): the payload is left to reclamation.
RefuseWrite(w) ==
    /\ pc[w] = "linked"
    /\ Goto(w, "idle", None)
    /\ UNCHANGED <<metadata, files, mode, passes, backups>>

\* Mutants of PutObject, for the runs' negative controls: no check that a
\* payload was replaced; the new payload's record kept; the replaced payload's
\* record left out; the row published before the payload is renamed.
PutObjectAlwaysReclaims(w, k) ==
    /\ pc[w] = "linked"
    /\ rows' = [rows EXCEPT ![k] = blob[w]]
    /\ tracked' = (tracked \ {blob[w]}) \cup ({rows[k]} \ {None})
    /\ aged' = aged \ {blob[w], rows[k]}
    /\ Goto(w, "reclaim", rows[k])
    /\ UNCHANGED <<files, mode, passes, backups>>

PutObjectKeepsRecord(w, k) ==
    /\ pc[w] = "linked"
    /\ rows' = [rows EXCEPT ![k] = blob[w]]
    /\ tracked' = tracked \cup ({rows[k]} \ {None})
    /\ aged' = aged \ {rows[k]}
    /\ IF rows[k] = None THEN Goto(w, "idle", None)
                         ELSE Goto(w, "reclaim", rows[k])
    /\ UNCHANGED <<files, mode, passes, backups>>

PutObjectDropsRecord(w, k) ==
    /\ pc[w] = "linked"
    /\ rows' = [rows EXCEPT ![k] = blob[w]]
    /\ tracked' = tracked \ {blob[w]}
    /\ aged' = aged \ {blob[w]}
    /\ IF rows[k] = None THEN Goto(w, "idle", None)
                         ELSE Goto(w, "reclaim", rows[k])
    /\ UNCHANGED <<files, mode, passes, backups>>

PutObjectBeforeRename(w, k) ==
    /\ pc[w] \in {"writing", "linked"}
    /\ rows' = [rows EXCEPT ![k] = blob[w]]
    /\ tracked' = (tracked \ {blob[w]}) \cup ({rows[k]} \ {None})
    /\ aged' = aged \ {blob[w], rows[k]}
    /\ IF rows[k] = None THEN Goto(w, "idle", None)
                         ELSE Goto(w, "reclaim", rows[k])
    /\ UNCHANGED <<files, mode, passes, backups>>

\* putObject's batch: the row, the new payload's record dropped and the
\* replaced payload's record added. Then reclaimNow of the replaced payload.
PutObject(w, k) ==
    /\ pc[w] = "linked"
    /\ rows' = [rows EXCEPT ![k] = blob[w]]
    /\ tracked' = (tracked \ {blob[w]}) \cup ({rows[k]} \ {None})
    /\ aged' = aged \ {blob[w], rows[k]}
    /\ IF rows[k] = None THEN Goto(w, "idle", None)
                         ELSE Goto(w, "reclaim", rows[k])
    /\ UNCHANGED <<files, mode, passes, backups>>

-----------------------------------------------------------------------------
(* Deleting and reading an object.                                          *)

\* deleteObject's batch: the row goes, its payload enters the log.
DeleteObject(w, k) ==
    /\ mode = "up" /\ pc[w] = "idle"
    /\ rows[k] # None
    /\ rows' = [rows EXCEPT ![k] = None]
    /\ tracked' = tracked \cup {rows[k]}
    /\ aged' = aged \ {rows[k]}
    /\ Goto(w, "reclaim", rows[k])
    /\ UNCHANGED <<files, mode, passes, backups>>

\* getObject reads the row first...
ReadRow(w, k) ==
    /\ mode = "up" /\ pc[w] = "idle"
    /\ rows[k] # None
    /\ Goto(w, "open", rows[k])
    /\ UNCHANGED <<metadata, files, mode, passes, backups>>

\* ...and opens the payload it names second, finding it or not.
OpenBlob(w) ==
    /\ pc[w] = "open"
    /\ Goto(w, "idle", None)
    /\ UNCHANGED <<metadata, files, mode, passes, backups>>

-----------------------------------------------------------------------------
(* reclaimNow: unlinking a payload its own request has just released.       *)

\* Mutants of CheckBarrier: the barrier ignored; the record dropped when the
\* unlink is put off.
CheckBarrierIgnored(w) ==
    /\ pc[w] = "reclaim"
    /\ Goto(w, "unlink", blob[w])
    /\ UNCHANGED <<metadata, files, mode, passes, backups>>

CheckBarrierForgets(w) ==
    /\ pc[w] = "reclaim"
    /\ IF checkpointing THEN Goto(w, "forget", blob[w])
                        ELSE Goto(w, "unlink", blob[w])
    /\ UNCHANGED <<metadata, files, mode, passes, backups>>

\* Put off while a backup copies; the record stays for a later pass.
CheckBarrier(w) ==
    /\ pc[w] = "reclaim"
    /\ IF checkpointing THEN Goto(w, "idle", None)
                        ELSE Goto(w, "unlink", blob[w])
    /\ UNCHANGED <<metadata, files, mode, passes, backups>>

\* BlobStore::remove: a failure is logged and otherwise ignored.
RemoveBlob(w) ==
    /\ pc[w] = "unlink"
    /\ \/ tree' = tree \ {blob[w]}
       \/ UnlinkErrors /\ tree' = tree
    /\ Goto(w, "forget", blob[w])
    /\ UNCHANGED <<metadata, tmp, mode, passes, backups>>

\* forgetOrphans of the one payload.
ForgetOrphan(w) ==
    /\ pc[w] = "forget"
    /\ tracked' = tracked \ {blob[w]}
    /\ aged' = aged \ {blob[w]}
    /\ Goto(w, "idle", None)
    /\ UNCHANGED <<rows, files, mode, passes, backups>>

-----------------------------------------------------------------------------
(* reclaim and reclaimOlderThan: the periodic pass.                         *)

\* The grace period runs out for a record. Options::reclaimGraceMs "must exceed
\* the longest upload": that is asked of the operator, for the configuration
\* only refuses less than a minute and no upload has a deadline.
GracePeriodEnds(b) ==
    /\ mode = "up"
    /\ b \in tracked \ aged
    /\ InFlight(b) => SlowUploads
    /\ aged' = aged \cup {b}
    /\ UNCHANGED <<rows, tracked, files, mode, requests, passes, backups>>

\* Mutant of SweepCutoff: the grace period is not subtracted.
SweepCutoffNow(s) ==
    /\ mode = "up" /\ sweepPc[s] = "idle"
    /\ aged # {}
    /\ sweepPc' = [sweepPc EXCEPT ![s] = "check"]
    /\ batch' = [batch EXCEPT ![s] = tracked]
    /\ UNCHANGED <<metadata, files, mode, requests, todo, backups>>

\* reclaim fixes the cutoff, as the argument of reclaimOlderThan: records
\* that are old enough by now, and none that is queued later. A pass with
\* nothing old to find returns at once.
SweepCutoff(s) ==
    /\ mode = "up" /\ sweepPc[s] = "idle"
    /\ aged # {}
    /\ sweepPc' = [sweepPc EXCEPT ![s] = "check"]
    /\ batch' = [batch EXCEPT ![s] = aged]
    /\ UNCHANGED <<metadata, files, mode, requests, todo, backups>>

SweepCheckBarrier(s) ==
    /\ sweepPc[s] = "check"
    /\ IF checkpointing
         THEN /\ sweepPc' = [sweepPc EXCEPT ![s] = "idle"]
              /\ batch' = [batch EXCEPT ![s] = {}]
         ELSE /\ sweepPc' = [sweepPc EXCEPT ![s] = "list"]
              /\ UNCHANGED batch
    /\ UNCHANGED <<metadata, files, mode, requests, todo, backups>>

\* listOrphans: the records at or before the cutoff that are still there, at
\* most ReclaimBatch of them; recover() sets no limit. Payload ids are random,
\* so which ones come first in key order is anyone's guess.
Listing(s) ==
    LET found == batch[s] \cap tracked
    IN  IF mode = "reclaiming" \/ Cardinality(found) <= ReclaimBatch
          THEN {found}
          ELSE {L \in SUBSET found : Cardinality(L) = ReclaimBatch}

ListOrphans(s) ==
    /\ sweepPc[s] = "list"
    /\ \E L \in Listing(s) :
          /\ batch' = [batch EXCEPT ![s] = L]
          /\ todo' = [todo EXCEPT ![s] = L]
          /\ sweepPc' = [sweepPc EXCEPT ![s] = IF L = {} THEN "idle" ELSE "unlink"]
    /\ UNCHANGED <<metadata, files, mode, requests, backups>>

SweepRemoveBlob(s) ==
    /\ sweepPc[s] = "unlink"
    /\ \E b \in todo[s] :
          /\ todo' = [todo EXCEPT ![s] = @ \ {b}]
          /\ \/ tree' = tree \ {b}
             \/ UnlinkErrors /\ tree' = tree
    /\ UNCHANGED <<metadata, tmp, mode, requests, sweepPc, batch, backups>>

ForgetOrphans(s) ==
    /\ sweepPc[s] = "unlink"
    /\ todo[s] = {}
    /\ tracked' = tracked \ batch[s]
    /\ aged' = aged \ batch[s]
    /\ sweepPc' = [sweepPc EXCEPT ![s] = "idle"]
    /\ batch' = [batch EXCEPT ![s] = {}]
    /\ UNCHANGED <<rows, files, mode, requests, todo, backups>>

-----------------------------------------------------------------------------
(* checkpoint and writeCheckpoint: a backup of the running store.           *)

\* The barrier goes up before anything is copied.
RaiseBarrier(c) ==
    /\ mode = "up" /\ ckptPc[c] \in {"idle", "done"}
    /\ checkpointing' = TRUE
    /\ ckptPc' = [ckptPc EXCEPT ![c] = "snapshot"]
    /\ snap' = [snap EXCEPT ![c] = NoRows]
    /\ copied' = [copied EXCEPT ![c] = {}]
    /\ UNCHANGED <<metadata, files, mode, requests, passes, walk>>

\* checkpointTo: RocksDB's own consistent snapshot of the metadata.
SnapshotMetadata(c) ==
    /\ ckptPc[c] = "snapshot"
    /\ snap' = [snap EXCEPT ![c] = rows]
    /\ ckptPc' = [ckptPc EXCEPT ![c] = "walk"]
    /\ UNCHANGED <<metadata, files, mode, requests, passes, checkpointing, walk, copied>>

\* forEachBlob opens the tree. The walk meets every file that is there from
\* now until it ends; a file renamed in meanwhile it may meet or miss.
BeginWalk(c) ==
    /\ ckptPc[c] = "walk"
    /\ walk' = [walk EXCEPT ![c] = tree]
    /\ ckptPc' = [ckptPc EXCEPT ![c] = "link"]
    /\ UNCHANGED <<metadata, files, mode, requests, passes, checkpointing, snap, copied>>

LinkPayload(c, b) ==
    /\ ckptPc[c] = "link"
    /\ b \in tree \ copied[c]
    /\ copied' = [copied EXCEPT ![c] = @ \cup {b}]
    /\ walk' = [walk EXCEPT ![c] = @ \ {b}]
    /\ UNCHANGED <<metadata, files, mode, requests, passes, checkpointing, ckptPc, snap>>

\* A file unlinked before the walk reaches it is passed over.
PassOver(c, b) ==
    /\ ckptPc[c] = "link"
    /\ b \in walk[c] \ tree
    /\ walk' = [walk EXCEPT ![c] = @ \ {b}]
    /\ UNCHANGED <<metadata, files, mode, requests, passes, checkpointing, ckptPc, snap, copied>>

\* writeCheckpoint returns and the barrier's destructor runs.
FinishCheckpoint(c) ==
    /\ ckptPc[c] = "link"
    /\ walk[c] = {}
    /\ checkpointing' = FALSE
    /\ ckptPc' = [ckptPc EXCEPT ![c] = "done"]
    /\ UNCHANGED <<metadata, files, mode, requests, passes, snap, walk, copied>>

\* writeCheckpoint throws: no usable copy, and the barrier's destructor runs.
FailCheckpoint(c) ==
    /\ ckptPc[c] \in {"snapshot", "walk", "link"}
    /\ checkpointing' = FALSE
    /\ ckptPc' = [ckptPc EXCEPT ![c] = "idle"]
    /\ snap' = [snap EXCEPT ![c] = NoRows]
    /\ walk' = [walk EXCEPT ![c] = {}]
    /\ copied' = [copied EXCEPT ![c] = {}]
    /\ UNCHANGED <<metadata, files, mode, requests, passes>>

-----------------------------------------------------------------------------
(* The process stops without warning, and recover() at the next start.      *)

\* Files and committed batches survive a process; threads do not. A finished
\* copy is on disk, a half-written one is not a backup.
Crash ==
    /\ mode # "down"
    /\ mode' = "down"
    /\ pc' = [w \in Workers |-> "idle"]
    /\ blob' = [w \in Workers |-> None]
    /\ sweepPc' = [s \in Sweepers |-> "idle"]
    /\ batch' = [s \in Sweepers |-> {}]
    /\ todo' = [s \in Sweepers |-> {}]
    /\ checkpointing' = FALSE
    /\ ckptPc' = [c \in Checkpointers |-> IF ckptPc[c] = "done" THEN "done" ELSE "idle"]
    /\ snap' = [c \in Checkpointers |-> IF ckptPc[c] = "done" THEN snap[c] ELSE NoRows]
    /\ walk' = [c \in Checkpointers |-> {}]
    /\ copied' = [c \in Checkpointers |-> IF ckptPc[c] = "done" THEN copied[c] ELSE {}]
    /\ UNCHANGED <<metadata, files>>

Restart ==
    /\ mode = "down"
    /\ mode' = "sweeping"
    /\ UNCHANGED <<metadata, files, requests, passes, backups>>

\* sweepTemporaries, one file at a time.
SweepTemporary(b) ==
    /\ mode = "sweeping"
    /\ b \in tmp
    /\ tmp' = tmp \ {b}
    /\ UNCHANGED <<metadata, tree, mode, requests, passes, backups>>

\* Mutant of RecoverOrphans: the grace period respected at startup too.
RecoverOrphansAged(s) ==
    /\ mode = "sweeping"
    /\ tmp = {} \/ UnlinkErrors
    /\ mode' = "reclaiming"
    /\ sweepPc' = [sweepPc EXCEPT ![s] = "check"]
    /\ batch' = [batch EXCEPT ![s] = aged]
    /\ UNCHANGED <<metadata, files, requests, todo, backups>>

\* Then one reclamation pass over the whole log, with a cutoff of "now".
RecoverOrphans(s) ==
    /\ mode = "sweeping"
    /\ tmp = {} \/ UnlinkErrors
    /\ mode' = "reclaiming"
    /\ sweepPc' = [sweepPc EXCEPT ![s] = "check"]
    /\ batch' = [batch EXCEPT ![s] = tracked]
    /\ UNCHANGED <<metadata, files, requests, todo, backups>>

\* The pass is over and the listeners open.
OpenListeners ==
    /\ mode = "reclaiming"
    /\ \A s \in Sweepers : sweepPc[s] = "idle"
    /\ mode' = "up"
    /\ UNCHANGED <<metadata, files, requests, passes, backups>>

-----------------------------------------------------------------------------

\* What a worker does of its own accord once it has taken a request.
WorkerStep(w) ==
    \/ TrackBlob(w) \/ AbandonWrite(w) \/ CommitBlob(w) \/ RefuseWrite(w)
    \/ \E k \in Keys : PutObject(w, k)
    \/ OpenBlob(w)
    \/ CheckBarrier(w) \/ RemoveBlob(w) \/ ForgetOrphan(w)

\* Requests arrive.
Request(w) ==
    \/ CreateBlob(w)
    \/ \E k \in Keys : DeleteObject(w, k) \/ ReadRow(w, k)

SweeperStep(s) ==
    \/ SweepCutoff(s) \/ SweepCheckBarrier(s) \/ ListOrphans(s)
    \/ SweepRemoveBlob(s) \/ ForgetOrphans(s)

CheckpointStep(c) ==
    \/ SnapshotMetadata(c) \/ BeginWalk(c)
    \/ \E b \in Blobs : LinkPayload(c, b) \/ PassOver(c, b)
    \/ FinishCheckpoint(c) \/ FailCheckpoint(c)

Recovery ==
    \/ Restart
    \/ \E b \in Blobs : SweepTemporary(b)
    \/ \E s \in Sweepers : RecoverOrphans(s)
    \/ OpenListeners

Next ==
    \/ \E w \in Workers : Request(w) \/ WorkerStep(w)
    \/ \E b \in Blobs : GracePeriodEnds(b)
    \/ \E s \in Sweepers : SweeperStep(s)
    \/ \E c \in Checkpointers : RaiseBarrier(c) \/ CheckpointStep(c)
    \/ Crash
    \/ Recovery

Spec == Init /\ [][Next]_vars

\* Threads of the pool that have work run; the clock and the maintenance timer
\* advance; a started process recovers. Nobody owes the server a request.
Fairness ==
    /\ \A w \in Workers : WF_vars(WorkerStep(w))
    /\ \A s \in Sweepers : WF_vars(SweeperStep(s))
    /\ \A b \in Blobs : WF_vars(GracePeriodEnds(b))
    /\ WF_vars(Recovery)

FairSpec == Spec /\ Fairness

-----------------------------------------------------------------------------
(* Properties.                                                              *)

StoreTypeOK ==
    /\ rows \in [Keys -> Blobs \cup {None}]
    /\ tracked \in SUBSET Blobs /\ aged \in SUBSET Blobs
    /\ tmp \in SUBSET Blobs /\ tree \in SUBSET Blobs
    /\ mode \in {"down", "sweeping", "reclaiming", "up"}

ThreadTypeOK ==
    /\ pc \in [Workers -> {"idle", "created", "writing", "linked", "open",
                           "reclaim", "unlink", "forget"}]
    /\ blob \in [Workers -> Blobs \cup {None}]
    /\ \A w \in Workers : pc[w] # "idle" => blob[w] # None
    /\ sweepPc \in [Sweepers -> {"idle", "check", "list", "unlink"}]
    /\ batch \in [Sweepers -> SUBSET Blobs]
    /\ todo \in [Sweepers -> SUBSET Blobs]

BackupTypeOK ==
    /\ checkpointing \in BOOLEAN
    /\ ckptPc \in [Checkpointers -> {"idle", "snapshot", "walk", "link", "done"}]
    /\ walk \in [Checkpointers -> SUBSET Blobs]
    /\ copied \in [Checkpointers -> SUBSET Blobs]

SnapTypeOK == snap \in [Checkpointers -> [Keys -> Blobs \cup {None}]]

\* Every variable has its type.
TypeOK == StoreTypeOK /\ ThreadTypeOK /\ BackupTypeOK /\ SnapTypeOK

\* "A payload is unlinked only after the metadata that named it is gone"
\* (storage_engine.hpp): whatever requests, passes, backups and crashes do,
\* the payload of every object row is in the tree.
PayloadPresent == Referenced \subseteq tree

\* The reclamation log never holds a payload a row names, so a pass that
\* trusts the log cannot destroy an object.
LogIsGarbage == Referenced \cap tracked = {}

\* "At worst a file that reclamation will collect": a payload file that no
\* row names is in the log. With an unlink that can fail this is lost.
TreeAccounted == tree \subseteq Referenced \cup tracked

\* What a payload the copy needs and lacks would be: every payload that a
\* finished backup's rows name was linked into the copy.
BackupComplete ==
    \A c \in Checkpointers : ckptPc[c] = "done" => Snapped(c) \subseteq copied[c]

\* "No request can observe a tree that still contains the residue of an
\* unclean stop" (Server::openStorage): when recover() hands over to the
\* listeners nothing is left but the payloads of objects.
RecoveryLeavesNoResidue ==
    [][mode = "reclaiming" /\ mode' = "up" =>
          tree' = Referenced' /\ tmp' = {} /\ tracked' = {}]_vars

\* "Whatever this window skips is collected by the next periodic pass": an
\* abandoned, refused, replaced or deleted payload is gone from disk and log
\* in the end, provided the process stays up and backups come to an end.
GarbageReclaimed ==
    <>[](mode = "up" /\ ~checkpointing) =>
        \A b \in Blobs : (b \in tracked /\ ~InFlight(b)) ~> (b \notin tracked \cup tree)

\* "Opening can fail if the tree was tampered with" (getObject): a request
\* that has read a row finds the payload the row named. It need not.
OpenFindsPayload ==
    \A w \in Workers : pc[w] = "open" => blob[w] \in tree

-----------------------------------------------------------------------------
(* The engine as an implementation of ObjectMap. A row whose payload is     *)
(* missing has no content: it maps to a value ObjectMap never takes.        *)

Lost == "lost"
Content(b, present) == IF b = None \/ b \in present THEN b ELSE Lost

objectBar == [k \in Keys |-> Content(rows[k], tree)]
backupBar ==
    [c \in Checkpointers |->
        CASE ckptPc[c] \in {"walk", "link"} -> [k \in Keys |-> Content(snap[c][k], tree)]
          [] ckptPc[c] = "done" -> [k \in Keys |-> Content(snap[c][k], copied[c])]
          [] OTHER -> NoBackup]

Map == INSTANCE ObjectMap WITH
          Contents <- Blobs, Backups <- Checkpointers,
          object <- objectBar, backup <- backupBar

\* PUT, DELETE and a backup each take effect in one step and nothing else,
\* a crash included, changes what the store or a finished backup holds.
ImplementsObjectMap == Map!Spec

=============================================================================
