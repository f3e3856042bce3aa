------------------------------ MODULE AuditLog ------------------------------
(***************************************************************************)
(* The console's audit log: a ring of kAuditCapacity entries in the store  *)
(* (appendAudit, listAudit and seedAuditSequence of                        *)
(* storage/rocksdb_metadata_store.cpp). An append is one batch, made under *)
(* a lock of its own and not synced, so a power cut may take back the last *)
(* ones; each batch is taken back whole.                                   *)
(***************************************************************************)
EXTENDS Integers, SequencesExt

CONSTANTS
    kAuditCapacity,
    MaxAppends          \* bound: appends

ASSUME AuditLogAssumption == kAuditCapacity \in Nat \ {0} /\ MaxAppends \in Nat

VARIABLES
    cursor,     \* auditSequence_
    wal,        \* the batches of the write-ahead log: [put, entry, trim]
    synced,     \* how many of them would survive a power cut
    entries     \* history: appends so far, which also names them

auditVars == <<cursor, wal, synced, entries>>

\* The store once the first n batches have been applied: the batches whose
\* entry is still there, its key neither deleted nor written again since.
Stored(n) ==
    {i \in 1 .. n : /\ \A j \in i .. n : wal[j].trim # wal[i].put
                    /\ \A j \in i + 1 .. n : wal[j].put # wal[i].put}

AuditInit == cursor = 0 /\ wal = <<>> /\ synced = 0 /\ entries = 0

\* Mutant of Trim: the ring closes one entry early.
TrimEarly(sequence) == sequence - kAuditCapacity + 1

\* What an append deletes; 0 and below is nothing.
Trim(sequence) == sequence - kAuditCapacity

\* The cursor moves before the write, which may fail.
AppendAudit ==
    /\ entries < MaxAppends
    /\ entries' = entries + 1
    /\ cursor' = cursor + 1
    /\ \/ wal' = Append(wal, [put |-> cursor + 1, entry |-> entries + 1, trim |-> Trim(cursor + 1)])
       \/ UNCHANGED wal
    /\ UNCHANGED synced

\* A durable write of anything else takes the log before it to the disk.
SyncWal ==
    /\ synced' = Len(wal)
    /\ UNCHANGED <<cursor, wal, entries>>

\* One seek to the newest key.
seedAuditSequence(stored) == IF stored = {} THEN 0 ELSE Max({wal[i].put : i \in stored})

\* The process starts, after a stop or a power cut: the store comes back with
\* a prefix of its log that holds what was synced.
ReopenStore ==
    /\ \E n \in synced .. Len(wal) :
         /\ wal' = SubSeq(wal, 1, n)
         /\ cursor' = seedAuditSequence(Stored(n))
         /\ synced' = n
    /\ UNCHANGED entries

\* listAudit: backwards from the highest key, at most `limit`.
listAudit(limit) ==
    LET stored == Stored(Len(wal))
        Rank(i) == Cardinality({j \in stored : wal[j].put >= wal[i].put})
    IN  [r \in 1 .. Min({limit, Cardinality(stored)}) |->
            wal[CHOOSE i \in stored : Rank(i) = r].entry]

AuditNext == AppendAudit \/ SyncWal \/ ReopenStore

AuditSpec == AuditInit /\ [][AuditNext]_auditVars

-----------------------------------------------------------------------------
(* Properties.                                                              *)

\* The console lists what was written, the last append first, skipping nothing
\* that the ring still has room for: across restarts, power cuts and appends
\* that failed.
AuditListsRecent ==
    LET recent == {i \in DOMAIN wal : wal[i].put > cursor - kAuditCapacity}
    IN  \A limit \in 0 .. Cardinality(recent) :
          listAudit(limit) = [r \in 1 .. limit |-> wal[Len(wal) - r + 1].entry]

=============================================================================
