----------------------------- MODULE PowerLoss -----------------------------
(***************************************************************************)
(* What a power cut leaves, and what the consistency check says of it.     *)
(* blob_store.cpp flushes a payload and the directory that names it as the *)
(* bucket's durability level asks, and never the directories above that    *)
(* one, which it creates on first use; rocksdb_metadata_store.cpp syncs    *)
(* its write-ahead log for a strict commit only. Everything that was not   *)
(* flushed may be lost or kept, in any combination, except that the log    *)
(* keeps a prefix and a lost directory takes what is in it.                *)
(* storage_engine.cpp (fsck) then examines the stopped store, and recover  *)
(* reclaims what is tracked when it starts again.                          *)
(*                                                                         *)
(* The log is the sequence of metadata states since the last sync: the     *)
(* cut keeps one of them. A key is an object, or a part of an upload whose *)
(* record has no full digest. One request at a time works on a key.        *)
(***************************************************************************)
EXTENDS Naturals, Sequences, FiniteSets, Functions

CONSTANTS
    Slots,          \* keys of objects and of parts
    PartSlots,      \* the ones that are parts
    LevelOf,        \* the durability level of each slot's bucket
    ServerLevel,    \* the server's own level, for writes that name no bucket
    Payloads,       \* blob ids, numbers in the order they are drawn
    Shards,         \* directories for payloads, each with those above it
    ShardOf,        \* the directory of each payload: the first digits of its id
    MaxCuts         \* bound: power cuts

Levels == {"none", "relaxed", "strict"}

ASSUME PowerConstants ==
    /\ PartSlots \subseteq Slots
    /\ LevelOf \in [Slots -> Levels] /\ ServerLevel \in Levels
    /\ Payloads \subseteq Nat \ {0} /\ IsFiniteSet(Payloads)
    /\ ShardOf \in [Payloads -> Shards] /\ MaxCuts \in Nat

VARIABLES
    journal,    \* metadata states since the last sync of the log, the last is current
    tree,       \* the payload tree: blob id -> what is known of the file
    removed,    \* unlinked files whose removal is not on disk
    dirs,       \* Shards -> "missing", "new" (nothing flushed its entry) or "kept"
    lost,       \* history: the payloads that a cut took with their directory
    work,       \* the request working on each slot
    promised,   \* history: the payloads each slot may hold after a cut
    drawn,      \* the last blob id drawn
    power,      \* "on", or "off" between a cut and the next start
    report,     \* what fsck found, once it has run
    cuts

powerVars == <<journal, tree, removed, dirs, lost, work, promised, drawn, power, report, cuts>>

Absent == 0
Current == journal[Len(journal)]
Meta == [held : [Slots -> Payloads \cup {Absent}], tracked : SUBSET Payloads]
File == [flushed : BOOLEAN, named : BOOLEAN, content : {"whole", "short", "garbled"}]

\* The files of one set, and those of another beside them.
Joined(files, others) ==
    [b \in DOMAIN files \cup DOMAIN others |-> IF b \in DOMAIN files THEN files[b] ELSE others[b]]

Idle == [step |-> "idle"]
NoReport == [run |-> FALSE]

PowerInit ==
    /\ journal = <<[held |-> [s \in Slots |-> Absent], tracked |-> {}]>>
    /\ tree = <<>> /\ removed = <<>>
    /\ dirs \in [Shards -> {"missing", "kept"}] /\ lost = {}
    /\ work = [s \in Slots |-> Idle]
    /\ promised = [s \in Slots |-> {Absent}]
    /\ drawn = 0 /\ power = "on" /\ report = NoReport /\ cuts = 0
----------------------------------------------------------------------------
(* Requests. *)

\* writeOptionsFor: a synced write takes everything before it along.
Write(meta, level) == journal' = IF level = "strict" THEN <<meta>> ELSE Append(journal, meta)

Doing(s, step) == power = "on" /\ work[s].step = step
Become(s, step) == work' = [work EXCEPT ![s].step = step]

\* beginWrite: the id is tracked before the payload can be in the tree.
BeginWrite(s) ==
    /\ Doing(s, "idle") /\ drawn + 1 \in Payloads
    /\ drawn' = drawn + 1
    /\ Write([Current EXCEPT !.tracked = @ \cup {drawn + 1}], ServerLevel)
    /\ work' = [work EXCEPT ![s] = [step |-> "commit", blob |-> drawn + 1, old |-> Absent]]
    /\ promised' = [promised EXCEPT ![s] = @ \cup {drawn + 1}]
    /\ UNCHANGED <<tree, removed, dirs, lost, power, report, cuts>>

\* createDirectories: nothing flushes the entry of a directory it creates.
CreateShard(d) == dirs' = [dirs EXCEPT ![d] = IF @ = "missing" THEN "new" ELSE @]

\* Mutant of CommitPayload: the directory is left to the kernel at every level.
CommitPayloadUnnamed(s) ==
    /\ Doing(s, "commit")
    /\ tree' = Joined([b \in {work[s].blob} |->
                         [flushed |-> LevelOf[s] # "none", named |-> FALSE, content |-> "whole"]],
                      tree)
    /\ CreateShard(ShardOf[work[s].blob])
    /\ Become(s, "publish")
    /\ UNCHANGED <<journal, removed, lost, promised, drawn, power, report, cuts>>

\* BlobWriter::commit: flush, rename into the directory, and for a strict bucket
\* flush that directory, which does not flush the ones above it.
CommitPayload(s) ==
    /\ Doing(s, "commit")
    /\ tree' = Joined([b \in {work[s].blob} |->
                         [flushed |-> LevelOf[s] # "none", named |-> LevelOf[s] = "strict",
                          content |-> "whole"]],
                      tree)
    /\ CreateShard(ShardOf[work[s].blob])
    /\ Become(s, "publish")
    /\ UNCHANGED <<journal, removed, lost, promised, drawn, power, report, cuts>>

Owed(old) == {old} \ {Absent}

\* putObject and putPart: the row, the new payload's record and the old one's,
\* in one batch.
Publish(s) ==
    /\ Doing(s, "publish")
    /\ LET old == Current.held[s]
       IN  /\ Write([held |-> [Current.held EXCEPT ![s] = work[s].blob],
                     tracked |-> (Current.tracked \ {work[s].blob}) \cup Owed(old)],
                    LevelOf[s])
           /\ work' = [work EXCEPT ![s].step = IF old = Absent THEN "answer" ELSE "unlink",
                                   ![s].old = old]
    /\ UNCHANGED <<tree, removed, dirs, lost, promised, drawn, power, report, cuts>>

BeginDelete(s) ==
    /\ Doing(s, "idle") /\ Current.held[s] # Absent
    /\ Write([held |-> [Current.held EXCEPT ![s] = Absent],
              tracked |-> Current.tracked \cup {Current.held[s]}], LevelOf[s])
    /\ work' = [work EXCEPT ![s] = [step |-> "unlink", blob |-> Absent, old |-> Current.held[s]]]
    /\ promised' = [promised EXCEPT ![s] = @ \cup {Absent}]
    /\ UNCHANGED <<tree, removed, dirs, lost, drawn, power, report, cuts>>

\* reclaimNow: the removal is not flushed, and the record goes after it.
Unlink(s) ==
    /\ Doing(s, "unlink")
    /\ tree' = Restrict(tree, DOMAIN tree \ {work[s].old})
    /\ removed' = Joined(Restrict(tree, DOMAIN tree \cap {work[s].old}), removed)
    /\ Become(s, "forget")
    /\ UNCHANGED <<journal, dirs, lost, promised, drawn, power, report, cuts>>

ForgetOrphans(s) ==
    /\ Doing(s, "forget")
    /\ Write([Current EXCEPT !.tracked = @ \ {work[s].old}], ServerLevel)
    /\ Become(s, "answer")
    /\ UNCHANGED <<tree, removed, dirs, lost, promised, drawn, power, report, cuts>>

Acknowledge(s) ==
    /\ Doing(s, "answer")
    /\ work' = [work EXCEPT ![s] = Idle]
    /\ promised' = [promised EXCEPT ![s] = {Current.held[s]}]
    /\ UNCHANGED <<journal, tree, removed, dirs, lost, drawn, power, report, cuts>>
----------------------------------------------------------------------------
(* The cut, the check and the next start. *)

\* What may be found of a file: a name that was not flushed may be gone, and
\* contents that were not may be torn. A name that was removed may be back.
Found(file) ==
    [flushed : {TRUE}, named : {TRUE},
     content : IF file.flushed THEN {file.content} ELSE {"whole", "short", "garbled"}]

Survivors(files, sure) ==
    UNION {{f \in [kept -> UNION {Found(files[b]) : b \in kept}] :
                \A b \in kept : f[b] \in Found(files[b])} :
           kept \in {k \in SUBSET DOMAIN files : sure \subseteq k}}

\* A directory that was new may be gone, and all that is in it; one that is
\* found is on the disk from then on.
PowerCut ==
    /\ power = "on" /\ cuts < MaxCuts /\ cuts' = cuts + 1
    /\ \E n \in DOMAIN journal : journal' = <<journal[n]>>
    /\ \E gone \in SUBSET {d \in Shards : dirs[d] = "new"} :
          LET files == Joined(tree, removed)
              left == {b \in DOMAIN files : ShardOf[b] \notin gone}
          IN  /\ tree' \in Survivors(Restrict(files, left),
                                    {b \in DOMAIN tree \cap left : tree[b].named})
              /\ dirs' = [d \in Shards |->
                            IF d \in gone \/ dirs[d] = "missing" THEN "missing" ELSE "kept"]
              /\ lost' = lost \cup (DOMAIN tree \ left)
    /\ removed' = <<>> /\ work' = [s \in Slots |-> Idle]
    /\ power' = "off" /\ report' = NoReport
    /\ UNCHANGED <<promised, drawn>>

Referenced == {Current.held[s] : s \in Slots} \ {Absent}
HasDigest(b) == \E s \in Slots \ PartSlots : Current.held[s] = b

\* Mutant of Findings: sizes are compared only where there is no digest.
FindingsBySize(deep) ==
    {<<"unreferenced-payload", b>> : b \in DOMAIN tree \ (Referenced \cup Current.tracked)}
    \cup {<<"missing-payload", b>> : b \in Referenced \ DOMAIN tree}
    \cup {<<"size-mismatch", b>> :
            b \in {c \in Referenced \cap DOMAIN tree : ~HasDigest(c) /\ tree[c].content = "short"}}
    \cup {<<"digest-mismatch", b>> :
            b \in {c \in Referenced \cap DOMAIN tree :
                     deep /\ HasDigest(c) /\ tree[c].content # "whole"}}

\* The findings of fsck, which the command runs on a stopped store with no
\* grace period: what the rows reference against what the tree holds.
Findings(deep) ==
    {<<"unreferenced-payload", b>> : b \in DOMAIN tree \ (Referenced \cup Current.tracked)}
    \cup {<<"size-mismatch", b>> : b \in {c \in Referenced \cap DOMAIN tree : tree[c].content = "short"}}
    \cup {<<"missing-payload", b>> : b \in Referenced \ DOMAIN tree}
    \cup {<<"digest-mismatch", b>> :
            b \in {c \in Referenced \cap DOMAIN tree :
                     deep /\ HasDigest(c) /\ tree[c].content # "whole"}}

RunFsck(deep) ==
    /\ power = "off" /\ ~report.run
    /\ report' = [run |-> TRUE, deep |-> deep, findings |-> Findings(deep)]
    /\ UNCHANGED <<journal, tree, removed, dirs, lost, work, promised, drawn, power, cuts>>

\* recover: everything tracked is unlinked and forgotten.
Restart ==
    /\ power = "off" /\ power' = "on"
    /\ tree' = Restrict(tree, DOMAIN tree \ Current.tracked)
    /\ removed' = Restrict(tree, DOMAIN tree \cap Current.tracked)
    /\ Write([Current EXCEPT !.tracked = {}], ServerLevel)
    /\ report' = NoReport
    /\ promised' = [s \in Slots |-> {Current.held[s]}]
    /\ UNCHANGED <<dirs, lost, work, drawn, cuts>>

PowerNext ==
    \/ \E s \in Slots :
          \/ BeginWrite(s) \/ CommitPayload(s) \/ Publish(s) \/ BeginDelete(s)
          \/ Unlink(s) \/ ForgetOrphans(s) \/ Acknowledge(s)
    \/ PowerCut \/ Restart
    \/ \E deep \in BOOLEAN : RunFsck(deep)

PowerSpec == PowerInit /\ [][PowerNext]_powerVars
----------------------------------------------------------------------------
(* Properties. *)

(***************************************************************************)
(* Durability (durability.hpp). After a power cut a strict slot holds what *)
(* was last acknowledged, or what a request still being served was putting *)
(* there, and the payload it names is in the tree, unless a cut took it    *)
(* with a directory that had been created since the start before. At every *)
(* level but "none", whatever payload is left in the tree is whole.        *)
(***************************************************************************)
SurvivesPowerCut ==
    power = "off" =>
        \A s \in Slots :
            LET b == Current.held[s]
            IN  /\ LevelOf[s] = "strict" =>
                      b \in promised[s] /\ (b # Absent => b \in DOMAIN tree \cup lost)
                /\ LevelOf[s] # "none" /\ b \in DOMAIN tree => tree[b].content = "whole"

\* "fsync the payload, the directory that names it, and the metadata write-ahead
\* log on every commit. Survives a power cut." (durability.hpp, Strict): what a
\* strict slot was acknowledged to hold is in the tree, whatever directory it is in.
StrictSurvives ==
    power = "off" =>
        \A s \in Slots : LevelOf[s] = "strict" /\ promised[s] = {Current.held[s]} =>
                             Current.held[s] \in DOMAIN tree \cup {Absent}

(***************************************************************************)
(* fsck tells the truth of a stopped store. A deep check is clean exactly  *)
(* when every row has its payload, whole as far as its record can tell,    *)
(* and every payload is either referenced or on its way to being           *)
(* reclaimed; a shallow one overlooks only contents of the right length.   *)
(***************************************************************************)
FsckTruthful ==
    report.run =>
        LET sound(b, deep) ==
                /\ b \in DOMAIN tree
                /\ tree[b].content = "whole" \/ (tree[b].content = "garbled" /\ (~deep \/ ~HasDigest(b)))
        IN  (report.findings = {}) <=>
                /\ \A s \in Slots : Current.held[s] # Absent => sound(Current.held[s], report.deep)
                /\ \A b \in DOMAIN tree :
                      b \in Current.tracked \/ \E s \in Slots : Current.held[s] = b
=============================================================================
