---------------------------- MODULE ObjectReads ----------------------------
(***************************************************************************)
(* Reading an object: handleGetObject in s3/object_handlers.cpp, with its  *)
(* preconditions and ranges, against a writer that replaces the object.    *)
(* The handler finds the record, possibly in the cache, decides on it, and *)
(* opens the payload the record names afterwards; the writer commits the   *)
(* new record, unlinks the old payload and drops the cache entry in three  *)
(* steps. A client fetches the object in pieces over connections that      *)
(* break, and continues with a range and the entity tag of the first       *)
(* answer (If-Match), or only a date (If-Unmodified-Since).                *)
(*                                                                         *)
(* A version's bytes are the pairs of the version and the position, its    *)
(* entity tag is the version and its date a whole second.                  *)
(***************************************************************************)
EXTENDS Naturals, Sequences

CONSTANTS
    ObjectSizes,        \* the sizes an object may have
    MaxVersions,  \* bound: versions written
    MaxSeconds,   \* bound: seconds that pass
    MaxGets       \* bound: requests of the client

ASSUME ReadConstants ==
    ObjectSizes \subseteq Nat /\ {MaxVersions, MaxSeconds, MaxGets} \subseteq Nat

VARIABLES
    stored,     \* the object's record
    files,      \* the versions whose payload is in the tree
    entry,      \* the record in the cache, or NoRecord
    writer,     \* the write being made
    seconds,    \* the clock
    get,        \* the client's request
    have,       \* the bytes the client has kept, in order
    base,       \* the record the client's first answer described, or NoRecord
    gets

readVars == <<stored, files, entry, writer, seconds, get, have, base, gets>>

NoRecord == [etag |-> 0, size |-> 0, date |-> 0]
Byte(version, i) == <<version, i>>
Bytes(version, offset, length) == [i \in 1..length |-> Byte(version, offset + i - 1)]

ReadInit ==
    /\ stored \in {[etag |-> 1, size |-> n, date |-> 0] : n \in ObjectSizes}
    /\ files = {1} /\ entry = NoRecord /\ writer = "idle" /\ seconds = 0
    /\ get = [step |-> "idle"] /\ have = <<>> /\ base = NoRecord /\ gets = 0
----------------------------------------------------------------------------
(* The writer: finishWrite's commit, reclaimNow, invalidateObject. *)

Overwrite ==
    /\ writer = "idle" /\ stored.etag < MaxVersions
    /\ \E n \in ObjectSizes : stored' = [etag |-> stored.etag + 1, size |-> n, date |-> seconds]
    /\ files' = files \cup {stored.etag + 1}
    /\ writer' = "reclaim"
    /\ UNCHANGED <<entry, seconds, get, have, base, gets>>

ReclaimOld ==
    /\ writer = "reclaim" /\ writer' = "invalidate"
    /\ files' = files \ {stored.etag - 1}
    /\ UNCHANGED <<stored, entry, seconds, get, have, base, gets>>

InvalidateObject ==
    /\ writer = "invalidate" /\ writer' = "idle"
    /\ entry' = NoRecord
    /\ UNCHANGED <<stored, files, seconds, get, have, base, gets>>

\* The clock, with which an entry of the cache may run out.
Second ==
    /\ seconds < MaxSeconds /\ seconds' = seconds + 1
    /\ entry' \in {entry, NoRecord}
    /\ UNCHANGED <<stored, files, writer, get, have, base, gets>>
----------------------------------------------------------------------------
(* The handler. *)

\* Mutant of evaluatePreconditions: the tag of If-Match is not compared.
evaluateByDate(h, record) ==
    IF h.ifUnmodified # 0 /\ record.date + 1 > h.ifUnmodified THEN 412
    ELSE IF h.ifNoneMatch # 0 /\ h.ifNoneMatch = record.etag THEN 304
    ELSE 0

\* A header names the tag it wants, 0 for no header; likewise a date, where
\* seconds are counted from 1 in a header so that 0 is none.
evaluatePreconditions(h, record) ==
    IF h.ifMatch # 0 /\ h.ifMatch # record.etag THEN 412
    ELSE IF h.ifMatch = 0 /\ h.ifUnmodified # 0 /\ record.date + 1 > h.ifUnmodified THEN 412
    ELSE IF h.ifNoneMatch # 0 /\ h.ifNoneMatch = record.etag THEN 304
    ELSE IF h.ifNoneMatch = 0 /\ h.ifModified # 0 /\ record.date + 1 <= h.ifModified THEN 304
    ELSE 0

Whole == [kind |-> "none"]
From(first) == [kind |-> "from", first |-> first]
Between(first, last) == [kind |-> "between", first |-> first, last |-> last]
Suffix(count) == [kind |-> "suffix", count |-> count]

\* parseRange; a header it cannot read is as good as none.
parseRange(range, size) ==
    LET least(a, b) == IF a < b THEN a ELSE b
        Satisfiable(offset, length) == [result |-> "partial", offset |-> offset, length |-> length]
        Unsatisfiable == [result |-> "unsatisfiable", offset |-> 0, length |-> 0]
    IN  CASE range.kind = "suffix" ->
                IF range.count = 0 \/ size = 0 THEN Unsatisfiable
                ELSE Satisfiable(size - least(range.count, size), least(range.count, size))
          [] range.kind = "from" ->
                IF range.first >= size THEN Unsatisfiable
                ELSE Satisfiable(range.first, size - range.first)
          [] range.kind = "between" ->
                IF range.first >= size \/ range.last < range.first THEN Unsatisfiable
                ELSE Satisfiable(range.first, least(range.last, size - 1) - range.first + 1)
          [] OTHER -> [result |-> "whole", offset |-> 0, length |-> size]

\* statObject: the cache, or the store ...
StatObject ==
    /\ get.step = "stat"
    /\ get' = IF entry = NoRecord THEN [get EXCEPT !.step = "fill", !.record = stored]
              ELSE [get EXCEPT !.step = "decide", !.record = entry]
    /\ UNCHANGED <<stored, files, entry, writer, seconds, have, base, gets>>

\* ... and then the cache, though the record may have been replaced since.
FillCache ==
    /\ get.step = "fill"
    /\ entry' = get.record
    /\ get' = [get EXCEPT !.step = "decide"]
    /\ UNCHANGED <<stored, files, writer, seconds, have, base, gets>>

Decide ==
    /\ get.step = "decide"
    /\ LET refusal == evaluatePreconditions(get.headers, get.record)
           range == parseRange(get.range, get.record.size)
       IN  get' = [get EXCEPT !.step = IF refusal # 0 \/ range.result = "unsatisfiable"
                                       THEN "answered" ELSE "open",
                              !.status = IF refusal # 0 THEN refusal
                                         ELSE IF range.result = "unsatisfiable" THEN 416
                                         ELSE IF range.result = "partial" THEN 206 ELSE 200,
                              !.offset = range.offset, !.length = range.length]
    /\ UNCHANGED <<stored, files, entry, writer, seconds, have, base, gets>>

\* newFileResponse: a payload that is not there is answered as corruption.
OpenPayload ==
    /\ get.step = "open"
    /\ get' = [get EXCEPT !.step = "answered",
                          !.status = IF get.record.etag \in files THEN @ ELSE 500]
    /\ UNCHANGED <<stored, files, entry, writer, seconds, have, base, gets>>
----------------------------------------------------------------------------
(* The client. *)

NoConditions == [ifMatch |-> 0, ifUnmodified |-> 0, ifNoneMatch |-> 0, ifModified |-> 0]

Ask(headers, range) ==
    /\ get.step = "idle" /\ gets < MaxGets /\ gets' = gets + 1
    /\ get' = [step |-> "stat", headers |-> headers, range |-> range, record |-> NoRecord,
               status |-> 0, offset |-> 0, length |-> 0]
    /\ UNCHANGED <<stored, files, entry, writer, seconds, have, base>>

Complete == base # NoRecord /\ Len(have) = base.size

\* The first request: all of it, or its beginning.
Fetch ==
    /\ base = NoRecord
    /\ \E range \in {Whole, Between(0, 0), Between(0, 1), From(0)} : Ask(NoConditions, range)

\* The rest, of the version the first answer described.
Resume ==
    /\ base # NoRecord /\ ~Complete
    /\ \E range \in {From(Len(have)), Between(Len(have), base.size - 1),
                     Suffix(base.size - Len(have)), Between(Len(have), Len(have))} :
          Ask([NoConditions EXCEPT !.ifMatch = base.etag], range)

\* A copy that is complete is asked about again, by its tag or by its date.
Revalidate ==
    /\ Complete
    /\ \E headers \in {[NoConditions EXCEPT !.ifNoneMatch = base.etag],
                       [NoConditions EXCEPT !.ifModified = base.date + 1],
                       [NoConditions EXCEPT !.ifUnmodified = base.date + 1]} :
          Ask(headers, Whole)

\* The answer, of which a broken connection delivers only the beginning. The
\* client starts over when the version is gone.
Receive ==
    /\ get.step = "answered"
    /\ \E n \in 0..get.length :
          LET part == Bytes(get.record.etag, get.offset, n)
              first == base = NoRecord \/ get.status = 200
          IN  IF get.status \in {200, 206}
              THEN /\ have' = IF first THEN part ELSE have \o part
                   /\ base' = IF first THEN get.record ELSE base
              ELSE /\ n = 0
                   /\ have' = IF get.status = 304 THEN have ELSE <<>>
                   /\ base' = IF get.status = 304 THEN base ELSE NoRecord
    /\ get' = [step |-> "idle"]
    /\ UNCHANGED <<stored, files, entry, writer, seconds, gets>>

ReadNext ==
    \/ Overwrite \/ ReclaimOld \/ InvalidateObject \/ Second
    \/ StatObject \/ FillCache \/ Decide \/ OpenPayload
    \/ Fetch \/ Resume \/ Revalidate \/ Receive

ReadSpec == ReadInit /\ [][ReadNext]_readVars
----------------------------------------------------------------------------
(* Properties. *)

(***************************************************************************)
(* What a client puts together from ranges is one version of the object,   *)
(* byte for byte from its beginning, though the object is replaced between *)
(* the handler's steps and between requests: If-Match is decided on the    *)
(* record whose payload is then opened, and parseRange gives the bytes the *)
(* range names. The bytes of the answer are inside the version.            *)
(***************************************************************************)
DownloadIsOneVersion ==
    /\ have = Bytes(base.etag, 0, Len(have))
    /\ Len(have) <= base.size
    /\ get.step = "answered" /\ get.status \in {200, 206} =>
          get.offset + get.length <= get.record.size /\ get.record.etag <= stored.etag
=============================================================================
