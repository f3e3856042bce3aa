---------------------------- MODULE ChunkedBody ----------------------------
(***************************************************************************)
(* The body of one PutObject or UploadPart between the client that sent it *)
(* and the record that names it: the aws-chunked decoder, the digest of an *)
(* unframed body, the checksum the client claimed and the upload limit.    *)
(* Between the two the path may lose, repeat, swap or garble frames.       *)
(*                                                                         *)
(* A digest stands for what it digests and a signature for what it covers: *)
(* the signature of a chunk is the sequence of everything chained into it. *)
(***************************************************************************)
EXTENDS Naturals, Sequences, SequencesExt

CONSTANTS Chunks,        \* payloads of one chunk
          MaxSent,       \* bound: chunks in a body
          UploadLimit,   \* the instance's limit, in chunks
          MaxFaults      \* bound: faults on the way

ASSUME ChunkedConstants == /\ MaxSent \in Nat /\ UploadLimit \in Nat /\ MaxFaults \in Nat
                           /\ "end" \notin Chunks

VARIABLES sent,      \* what the client meant to store
          shape,     \* how it sent it: payload marker, framing, checksum claim
          wire,      \* frames still to be read, and the trailer block
          faults,
          prev,      \* previousSignature: what the last verified signature covers
          sunk,      \* what the writer's temporary file holds
          stage      \* "path", "whole", "chunks", "trailers", "checks", "published", "refused"

bodyVars == <<sent, shape, wire, faults, prev, sunk, stage>>

Seed == <<"seed">>   \* the signature of the request, which the first chunk chains from
None == <<"none">>

Shapes == [payload : {"unsigned", "signed", "streamingSigned", "streamingUnsigned"},
           awsChunked : BOOLEAN, trailerExpected : BOOLEAN,
           claim : {"none", "header", "trailer"}, declared : BOOLEAN]

Streaming(s) == s.payload \in {"streamingSigned", "streamingUnsigned"}

\* S3Body: the payload marker decides the framing, and Content-Encoding for a
\* body whose decoded length is given: that one may be framed under a digest of
\* the whole.
chunked(s) == Streaming(s) \/ (s.awsChunked /\ s.declared)

verifySignatures == shape.payload = "streamingSigned"

\* What a client puts on the wire: every chunk signed over all before it, the
\* closing chunk, and a trailer with the checksum and its signature.
Frames(data) ==
    LET closed == Append(data, "end")
    IN [i \in 1 .. Len(closed) |->
           [data |-> closed[i],
            sig |-> IF verifySignatures THEN Seed \o SubSeq(closed, 1, i) ELSE None]]

Trailer(data) ==
    [value |-> IF shape.claim = "trailer" THEN data ELSE None,
     sig   |-> IF verifySignatures /\ shape.trailerExpected
               THEN (Seed \o Append(data, "end")) \o <<IF shape.claim = "trailer" THEN data ELSE None>>
               ELSE None,
     intact |-> TRUE]

BodyInit ==
    /\ sent \in UNION {[1 .. n -> Chunks] : n \in 1 .. MaxSent}
    /\ shape \in {s \in Shapes : /\ s.trailerExpected => Streaming(s)
                                 /\ s.payload = "streamingUnsigned" => s.trailerExpected
                                 /\ s.claim = "trailer" => chunked(s)}
    /\ wire = [frames |-> Frames(sent), trailer |-> Trailer(sent)]
    /\ faults = 0 /\ prev = Seed /\ sunk = <<>> /\ stage = "path"

-----------------------------------------------------------------------------
(* The path *)

Fault(frames, trailer) ==
    /\ stage = "path" /\ faults < MaxFaults
    /\ wire' = [frames |-> frames, trailer |-> trailer]
    /\ faults' = faults + 1
    /\ UNCHANGED <<sent, shape, prev, sunk, stage>>

LoseFrame == \E i \in 1 .. Len(wire.frames) : Fault(RemoveAt(wire.frames, i), wire.trailer)

RepeatFrame == \E i \in 1 .. Len(wire.frames) :
    Fault(InsertAt(wire.frames, i, wire.frames[i]), wire.trailer)

SwapFrames == \E i \in 1 .. Len(wire.frames) - 1 :
    Fault([wire.frames EXCEPT ![i] = wire.frames[i + 1], ![i + 1] = wire.frames[i]], wire.trailer)

GarbleFrame == \E i \in 1 .. Len(wire.frames), d \in Chunks \cup {"malformed", "end"} :
    Fault([wire.frames EXCEPT ![i].data = d], wire.trailer)

GarbleTrailer == \E v \in {None, [i \in 1 .. Len(wire.frames) - 1 |-> wire.frames[i].data]} :
    Fault(wire.frames, [wire.trailer EXCEPT !.value = v, !.intact = FALSE])

LoseTrailer == Fault(wire.frames, [value |-> None, sig |-> None, intact |-> FALSE])

Arrive ==
    /\ stage = "path"
    /\ stage' = IF chunked(shape) THEN "chunks" ELSE "whole"
    /\ UNCHANGED <<sent, shape, wire, faults, prev, sunk>>

-----------------------------------------------------------------------------
(* The handler *)

Refuse == stage' = "refused" /\ UNCHANGED <<sent, shape, wire, faults, prev, sunk>>

\* A body of one piece: its digest is compared before a byte is written.
Raw == [i \in 1 .. Len(wire.frames) - 1 |-> wire.frames[i].data]

StreamWhole ==
    /\ stage = "whole"
    /\ IF (shape.payload = "signed" /\ Raw # sent) \/ Len(Raw) > UploadLimit
       THEN Refuse
       ELSE /\ sunk' = Raw /\ stage' = "checks"
            /\ UNCHANGED <<sent, shape, wire, faults, prev>>

\* Mutant of SignatureHolds: a chunk is checked by itself, not after the one before it.
SignatureHoldsUnchained(frame) ==
    verifySignatures => frame.sig # None /\ Last(frame.sig) = frame.data

\* One round of ChunkedDecoder::decode.
SignatureHolds(frame) == verifySignatures => frame.sig = Append(prev, frame.data)

TakeChunk ==
    /\ stage = "chunks" /\ wire.frames # <<>>
    /\ LET frame == Head(wire.frames)
       IN IF frame.data = "malformed" \/ ~SignatureHolds(frame)
             \/ (frame.data # "end" /\ Len(sunk) + 1 > UploadLimit)
          THEN Refuse
          ELSE /\ wire' = [wire EXCEPT !.frames = Tail(@)]
               /\ prev' = IF verifySignatures THEN Append(prev, frame.data) ELSE prev
               /\ sunk' = IF frame.data = "end" THEN sunk ELSE Append(sunk, frame.data)
               /\ stage' = IF frame.data = "end" THEN "trailers" ELSE "chunks"
               /\ UNCHANGED <<sent, shape, faults>>

\* The body ends without a zero-length chunk.
RunOut == stage = "chunks" /\ wire.frames = <<>> /\ Refuse

\* The trailer block and its signature, then the declared length. What follows
\* the closing chunk and is no trailer line is malformed.
TakeTrailers ==
    /\ stage = "trailers"
    /\ IF \/ wire.frames # <<>>
          \/ /\ verifySignatures /\ shape.trailerExpected
             /\ wire.trailer.sig # Append(prev, wire.trailer.value)
          \/ shape.declared /\ Len(sunk) # Len(sent)
       THEN Refuse
       ELSE stage' = "checks" /\ UNCHANGED <<sent, shape, wire, faults, prev, sunk>>

\* verifiedChecksum: the claim, from the header or from the trailer, against
\* what was read; then finishWrite, with its own look at the limit.
ChecksumHolds ==
    CASE shape.claim = "none" -> TRUE
      [] shape.claim = "header" -> sunk = sent
      [] shape.claim = "trailer" -> wire.trailer.value = sunk

FinishWrite ==
    /\ stage = "checks"
    /\ IF ~ChecksumHolds \/ Len(sunk) > UploadLimit THEN Refuse
       ELSE stage' = "published" /\ UNCHANGED <<sent, shape, wire, faults, prev, sunk>>

BodyNext == \/ LoseFrame \/ RepeatFrame \/ SwapFrames \/ GarbleFrame \/ GarbleTrailer \/ LoseTrailer
            \/ Arrive \/ StreamWhole \/ TakeChunk \/ RunOut \/ TakeTrailers \/ FinishWrite

BodySpec == BodyInit /\ [][BodyNext]_bodyVars

-----------------------------------------------------------------------------
\* The bodies the client gave the server the means to check and streamTo checks:
\* chained chunk signatures, a digest of an unframed body, a checksum in the
\* signed headers, or a trailer that came through.
Protected == \/ shape.payload = "streamingSigned"
             \/ shape.payload = "signed" /\ ~chunked(shape)
             \/ shape.claim = "header"
             \/ shape.claim = "trailer" /\ wire.trailer.intact

\* What is published under the key is what the client sent, whatever happened
\* to the frames on the way: nothing lost, repeated, reordered or altered is
\* stored when a signature, digest or checksum that is checked could have told.
\* A framed body under a digest of the whole is not among them (DigestVerified).
PublishedAsSent == stage = "published" /\ Protected => sunk = sent

\* "The header holds the SHA-256 of the whole body, which we verify" (sigv4.hpp):
\* what is published under a digest is what was digested. streamTo compares it
\* for an unframed body only.
DigestVerified == stage = "published" /\ shape.payload = "signed" => sunk = sent
=============================================================================
