----------------------------- MODULE Multipart -----------------------------
(***************************************************************************)
(* Multipart uploads: createUpload, finishPart, completeUpload,            *)
(* abortUpload and the expiry sweep of storage_engine.cpp, over the rows   *)
(* of rocksdb_metadata_store.cpp. All uploads are for one object key.      *)
(*                                                                         *)
(* What StorageEngine has in steps is one step here: a payload is on disk  *)
(* and in the reclamation log at once, and so is a reclamation pass or a   *)
(* restart. What is in steps here is what these operations read and        *)
(* later write: putPart locks its part row, abortUpload the upload's id    *)
(* and completeUpload the object key, so that none excludes another.       *)
(***************************************************************************)
EXTENDS Naturals, FiniteSets

CONSTANTS
    Uploads,        \* upload ids
    Parts,          \* part numbers
    Blobs,          \* payload ids
    Workers,        \* pool threads serving requests
    Sweeper,        \* the pool thread running the expiry sweep
    SweepBatch,     \* uploads one sweep considers (kUploadSweepBatch)
    None            \* no payload, no upload

ASSUME MultipartAssumption ==
    /\ None \notin Blobs \cup Uploads
    /\ Sweeper \notin Workers
    /\ SweepBatch \in Nat \ {0}

VARIABLES
    live,       \* uploads that have an upload row
    active,     \* uploads created, or given a part, after the expiry cutoff
    part,       \* [Uploads -> [Parts -> Blobs or None]]: the part rows
    object,     \* the payload of the object row
    tracked,    \* payloads with a record in the reclamation log
    tree,       \* payload files
    queue,      \* uploads the sweep has still to examine
    pc,         \* what each thread is about to do
    up,         \* the upload it works on
    nums,       \* the part numbers whose rows it writes or deletes
    blob,       \* the payload it is about to publish
    held        \* payloads it has still to append, or is about to release

store   == <<live, active, part, object, tracked, tree>>
threads == <<pc, up, nums, blob, held>>
vars    == <<store, queue, threads>>

Threads == Workers \cup {Sweeper}
NoParts == [n \in Parts |-> None]

PartPayloads(u) == {part[u][n] : n \in Parts} \ {None}
Named == ({part[u][n] : u \in Uploads, n \in Parts} \cup {object}) \ {None}

\* A payload its request has yet to publish.
Publishing == {"part", "readPart", "writePart", "complete", "gather", "publish"}
InFlight(b) == \E w \in Workers : pc[w] \in Publishing /\ blob[w] = b

Fresh(b) ==
    /\ b \notin Named \cup tracked \cup tree
    /\ \A t \in Threads : b # blob[t] /\ b \notin held[t]

\* beginWrite and commit: a payload in the tree, still owed to the log.
WritePayload(w, b) ==
    /\ Fresh(b)
    /\ tree' = tree \cup {b}
    /\ tracked' = tracked \cup {b}
    /\ blob' = [blob EXCEPT ![w] = b]

Goto(t, label) == pc' = [pc EXCEPT ![t] = label]

\* A request is over; the sweep goes on to its next upload.
Finish(t) ==
    /\ Goto(t, IF t = Sweeper THEN "sweep" ELSE "idle")
    /\ up' = [up EXCEPT ![t] = None]
    /\ nums' = [nums EXCEPT ![t] = {}]
    /\ blob' = [blob EXCEPT ![t] = None]
    /\ held' = [held EXCEPT ![t] = {}]

\* After a commit: reclaimNow of what it released.
Reclaim(t) ==
    IF held[t] = {}
      THEN Finish(t)
      ELSE /\ Goto(t, "release")
           /\ blob' = [blob EXCEPT ![t] = None]
           /\ UNCHANGED <<up, nums, held>>

Init ==
    /\ live = {} /\ active = {}
    /\ part = [u \in Uploads |-> NoParts]
    /\ object = None
    /\ tracked = {} /\ tree = {} /\ queue = {}
    /\ pc = [t \in Threads |-> "idle"]
    /\ up = [t \in Threads |-> None]
    /\ nums = [t \in Threads |-> {}]
    /\ blob = [t \in Threads |-> None]
    /\ held = [t \in Threads |-> {}]

-----------------------------------------------------------------------------

\* createUpload: the id is new and so is its activity.
CreateUpload(w, u) ==
    /\ pc[w] = "idle"
    /\ u \notin live \cup queue /\ part[u] = NoParts
    /\ \A t \in Threads : up[t] # u
    /\ live' = live \cup {u}
    /\ active' = active \cup {u}
    /\ UNCHANGED <<part, object, tracked, tree, queue, threads>>

-----------------------------------------------------------------------------
(* finishPart.                                                              *)

\* The upload is looked up and the part's payload committed.
BeginPart(w, u, n) ==
    /\ pc[w] = "idle"
    /\ u \in live
    /\ \E b \in Blobs : WritePayload(w, b)
    /\ Goto(w, "part")
    /\ up' = [up EXCEPT ![w] = u]
    /\ nums' = [nums EXCEPT ![w] = {n}]
    /\ UNCHANGED <<live, active, part, object, queue, held>>

\* The ledger refuses the bytes: the payload is left to the log.
RefusePart(w) ==
    /\ pc[w] = "part"
    /\ Finish(w)
    /\ UNCHANGED <<store, queue>>

\* putPart takes the lock of its part row and looks the upload up again.
CheckUpload(w) ==
    /\ pc[w] = "part"
    /\ ~ \E v \in Workers : /\ pc[v] \in {"readPart", "writePart"}
                            /\ up[v] = up[w] /\ nums[v] = nums[w]
    /\ IF up[w] \in live
         THEN Goto(w, "readPart") /\ UNCHANGED <<up, nums, blob, held>>
         ELSE Finish(w)
    /\ UNCHANGED <<store, queue>>

\* Mutant of ReadPart: no check that there was a part.
ReadPartUnchecked(w) ==
    /\ pc[w] = "readPart"
    /\ held' = [held EXCEPT ![w] = {part[up[w]][n] : n \in nums[w]}]
    /\ Goto(w, "writePart")
    /\ UNCHANGED <<store, queue, up, nums, blob>>

\* The part it replaces, if any.
ReadPart(w) ==
    /\ pc[w] = "readPart"
    /\ held' = [held EXCEPT ![w] = {part[up[w]][n] : n \in nums[w]} \ {None}]
    /\ Goto(w, "writePart")
    /\ UNCHANGED <<store, queue, up, nums, blob>>

\* Mutant of WritePart: the new payload's record kept.
WritePartKeepsRecord(w) ==
    /\ pc[w] = "writePart"
    /\ part' = [part EXCEPT ![up[w]] =
                   [n \in Parts |-> IF n \in nums[w] THEN blob[w] ELSE @[n]]]
    /\ tracked' = tracked \cup held[w]
    /\ active' = active \cup {up[w]}
    /\ Reclaim(w)
    /\ UNCHANGED <<live, object, tree, queue>>

\* putPart's batch.
WritePart(w) ==
    /\ pc[w] = "writePart"
    /\ part' = [part EXCEPT ![up[w]] =
                   [n \in Parts |-> IF n \in nums[w] THEN blob[w] ELSE @[n]]]
    /\ tracked' = (tracked \ {blob[w]}) \cup held[w]
    /\ active' = active \cup {up[w]}
    /\ Reclaim(w)
    /\ UNCHANGED <<live, object, tree, queue>>

-----------------------------------------------------------------------------
(* abortUpload, for a client or for the sweep.                              *)

RequestAbort(w, u) ==
    /\ pc[w] = "idle"
    /\ u \in live
    /\ Goto(w, "load")
    /\ up' = [up EXCEPT ![w] = u]
    /\ UNCHANGED <<store, queue, nums, blob, held>>

\* The upload is looked up before the lock is taken.
LoadUpload(t) ==
    /\ pc[t] = "load"
    /\ IF up[t] \in live
         THEN Goto(t, "collect") /\ UNCHANGED <<up, nums, blob, held>>
         ELSE Finish(t)
    /\ UNCHANGED <<store, queue>>

\* The lock, which only another abort of this upload takes, and the part rows.
CollectParts(t) ==
    /\ pc[t] = "collect"
    /\ ~ \E s \in Threads : pc[s] = "abort" /\ up[s] = up[t]
    /\ nums' = [nums EXCEPT ![t] = {n \in Parts : part[up[t]][n] # None}]
    /\ held' = [held EXCEPT ![t] = PartPayloads(up[t])]
    /\ Goto(t, "abort")
    /\ UNCHANGED <<store, queue, up, blob>>

\* Mutant of AbortUpload: the payloads are released and the rows stay.
AbortUploadKeepsRows(t) ==
    /\ pc[t] = "abort"
    /\ live' = live \ {up[t]}
    /\ active' = active \ {up[t]}
    /\ tracked' = tracked \cup held[t]
    /\ Reclaim(t)
    /\ UNCHANGED <<part, object, tree, queue>>

\* The batch deletes rows by part number and logs the payloads it has read.
AbortUpload(t) ==
    /\ pc[t] = "abort"
    /\ live' = live \ {up[t]}
    /\ active' = active \ {up[t]}
    /\ part' = [part EXCEPT ![up[t]] =
                   [n \in Parts |-> IF n \in nums[t] THEN None ELSE @[n]]]
    /\ tracked' = tracked \cup held[t]
    /\ Reclaim(t)
    /\ UNCHANGED <<object, tree, queue>>

-----------------------------------------------------------------------------
(* completeUpload.                                                          *)

\* The manifest names part numbers R, all of them stored.
ListParts(w, u, R) ==
    /\ pc[w] = "idle"
    /\ u \in live
    /\ R # {} /\ \A n \in R : part[u][n] # None
    /\ held' = [held EXCEPT ![w] = {part[u][n] : n \in R}]
    /\ up' = [up EXCEPT ![w] = u]
    /\ Goto(w, "assemble")
    /\ UNCHANGED <<store, queue, nums, blob>>

\* Part payloads are opened one after the other, and one may be gone.
AppendPart(w) ==
    /\ pc[w] = "assemble"
    /\ \E b \in held[w] :
          IF b \in tree
            THEN held' = [held EXCEPT ![w] = @ \ {b}] /\ UNCHANGED <<pc, up, nums, blob>>
            ELSE Finish(w)
    /\ UNCHANGED <<store, queue>>

CommitAssembled(w) ==
    /\ pc[w] = "assemble" /\ held[w] = {}
    /\ \E b \in Blobs : WritePayload(w, b)
    /\ Goto(w, "complete")
    /\ UNCHANGED <<live, active, part, object, queue, up, nums, held>>

\* The store looks the upload up before it takes the lock of the object key.
LoadCompleted(w) ==
    /\ pc[w] = "complete"
    /\ IF up[w] \in live
         THEN Goto(w, "gather") /\ UNCHANGED <<up, nums, blob, held>>
         ELSE Finish(w)
    /\ UNCHANGED <<store, queue>>

\* The object it replaces and every part there is by now.
GatherReleased(w) ==
    /\ pc[w] = "gather"
    /\ ~ \E v \in Workers : pc[v] = "publish"
    /\ nums' = [nums EXCEPT ![w] = {n \in Parts : part[up[w]][n] # None}]
    /\ held' = [held EXCEPT ![w] = (PartPayloads(up[w]) \cup {object}) \ {None}]
    /\ Goto(w, "publish")
    /\ UNCHANGED <<store, queue, up, blob>>

CompleteUpload(w) ==
    /\ pc[w] = "publish"
    /\ object' = blob[w]
    /\ live' = live \ {up[w]}
    /\ active' = active \ {up[w]}
    /\ part' = [part EXCEPT ![up[w]] =
                   [n \in Parts |-> IF n \in nums[w] THEN None ELSE @[n]]]
    /\ tracked' = (tracked \ {blob[w]}) \cup held[w]
    /\ Reclaim(w)
    /\ UNCHANGED <<tree, queue>>

-----------------------------------------------------------------------------
(* reclaimNow, the periodic pass and a restart.                             *)

RemoveBlob(t) ==
    /\ pc[t] = "release"
    /\ \E b \in held[t] \cap tree : tree' = tree \ {b}
    /\ UNCHANGED <<live, active, part, object, tracked, queue, threads>>

ForgetOrphans(t) ==
    /\ pc[t] = "release"
    /\ held[t] \cap tree = {}
    /\ tracked' = tracked \ held[t]
    /\ Finish(t)
    /\ UNCHANGED <<live, active, part, object, tree, queue>>

\* A backup is being copied: what is left keeps its records.
DeferRelease(t) ==
    /\ pc[t] = "release"
    /\ Finish(t)
    /\ UNCHANGED <<store, queue>>

\* A pass takes a payload no request is still writing (see StorageEngine).
ReclaimOlder(b) ==
    /\ b \in tracked /\ ~InFlight(b)
    /\ tree' = tree \ {b}
    /\ tracked' = tracked \ {b}
    /\ UNCHANGED <<live, active, part, object, queue, threads>>

\* The process stops; recover() takes everything in the log. Uploads stay.
Restart ==
    /\ tree' = tree \ tracked
    /\ tracked' = {}
    /\ queue' = {}
    /\ pc' = [t \in Threads |-> "idle"]
    /\ up' = [t \in Threads |-> None]
    /\ nums' = [t \in Threads |-> {}]
    /\ blob' = [t \in Threads |-> None]
    /\ held' = [t \in Threads |-> {}]
    /\ UNCHANGED <<live, active, part, object>>

-----------------------------------------------------------------------------
(* sweepExpiredUploads.                                                     *)

\* The expiry passes for an upload. A sweep fixes its cutoff when it begins.
BecomeIdle(u) ==
    /\ pc[Sweeper] = "idle"
    /\ u \in active
    /\ active' = active \ {u}
    /\ UNCHANGED <<live, part, object, tracked, tree, queue, threads>>

\* listUploadsCreatedBefore: an upload created since the cutoff is active, and
\* would be passed over if it were listed.
BeginSweep ==
    /\ pc[Sweeper] = "idle"
    /\ \E S \in SUBSET live :
          /\ S # {} /\ Cardinality(S) <= SweepBatch
          /\ queue' = S
    /\ Goto(Sweeper, "sweep")
    /\ UNCHANGED <<store, up, nums, blob, held>>

\* listParts, which throws when the upload is gone by now and ends the sweep;
\* the newest part decides.
ExamineUpload(u) ==
    /\ pc[Sweeper] = "sweep"
    /\ u \in queue
    /\ \/ /\ u \notin live
          /\ queue' = {}
          /\ Goto(Sweeper, "idle")
          /\ UNCHANGED up
       \/ /\ u \in live \cap active
          /\ queue' = queue \ {u}
          /\ UNCHANGED <<pc, up>>
       \/ /\ u \in live \ active
          /\ queue' = queue \ {u}
          /\ Goto(Sweeper, "load")
          /\ up' = [up EXCEPT ![Sweeper] = u]
    /\ UNCHANGED <<store, nums, blob, held>>

EndSweep ==
    /\ pc[Sweeper] = "sweep" /\ queue = {}
    /\ Goto(Sweeper, "idle")
    /\ UNCHANGED <<store, queue, up, nums, blob, held>>

-----------------------------------------------------------------------------

PartStep(w) ==
    \/ \E u \in Uploads, n \in Parts : BeginPart(w, u, n)
    \/ RefusePart(w) \/ CheckUpload(w) \/ ReadPart(w) \/ WritePart(w)

CompleteStep(w) ==
    \/ \E u \in Uploads, R \in SUBSET Parts : ListParts(w, u, R)
    \/ AppendPart(w) \/ CommitAssembled(w) \/ LoadCompleted(w)
    \/ GatherReleased(w) \/ CompleteUpload(w)

AbortStep(t) == LoadUpload(t) \/ CollectParts(t) \/ AbortUpload(t)

ReleaseStep(t) == RemoveBlob(t) \/ ForgetOrphans(t) \/ DeferRelease(t)

SweepStep ==
    \/ BeginSweep \/ EndSweep
    \/ \E u \in Uploads : ExamineUpload(u) \/ BecomeIdle(u)

Next ==
    \/ \E w \in Workers :
          \/ \E u \in Uploads : CreateUpload(w, u) \/ RequestAbort(w, u)
          \/ PartStep(w) \/ CompleteStep(w)
    \/ \E t \in Threads : AbortStep(t) \/ ReleaseStep(t)
    \/ \E b \in Blobs : ReclaimOlder(b)
    \/ SweepStep
    \/ Restart

Spec == Init /\ [][Next]_vars

-----------------------------------------------------------------------------
(* Properties.                                                              *)

StoreTypeOK ==
    /\ live \in SUBSET Uploads /\ active \in SUBSET Uploads /\ queue \in SUBSET Uploads
    /\ part \in [Uploads -> [Parts -> Blobs \cup {None}]]
    /\ object \in Blobs \cup {None}
    /\ tracked \in SUBSET Blobs /\ tree \in SUBSET Blobs

ThreadTypeOK ==
    /\ pc \in [Threads -> {"idle", "part", "readPart", "writePart", "load", "collect", "abort",
                           "assemble", "complete", "gather", "publish", "release", "sweep"}]
    /\ up \in [Threads -> Uploads \cup {None}]
    /\ nums \in [Threads -> SUBSET Parts]
    /\ blob \in [Threads -> Blobs \cup {None}]
    /\ held \in [Threads -> SUBSET Blobs]
    /\ \A t \in Threads :
          /\ pc[t] \notin {"idle", "sweep"} => up[t] \in Uploads
          /\ pc[t] \in Publishing => t \in Workers /\ blob[t] \in Blobs

\* Every variable has its type.
TypeOK == StoreTypeOK /\ ThreadTypeOK

\* However parts, completions, aborts and the sweep race on an upload, the
\* payload of every part row and of the object is in the tree.
PayloadsPresent == Named \subseteq tree

\* The reclamation log never holds the payload of a part row or of the object,
\* so neither a pass nor a restart can take one.
LogIsGarbage == Named \cap tracked = {}

\* "An interruption at any point leaves ... at worst a file that reclamation
\* will collect" (storage_engine.hpp) and "the parts are already orphaned"
\* (the opening scan): a payload belongs to the object, to a part of a live
\* upload, or to the log. It need not, when a part lands beside an abort.
PartsAccounted ==
    tree \subseteq {object} \cup UNION {PartPayloads(u) : u \in live} \cup tracked

\* "Aborting it would destroy a transfer that is making progress - the one
\* outcome this sweep must never produce" (sweepUploadsIdleBefore): the upload
\* the sweep is about to abort has had no part since the cutoff. It may have.
SweepSparesActive ==
    pc[Sweeper] = "abort" /\ up[Sweeper] \in live => up[Sweeper] \notin active

=============================================================================
