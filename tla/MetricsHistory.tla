--------------------------- MODULE MetricsHistory ---------------------------
(***************************************************************************)
(* The dashboard's ring of samples: server/metrics_history.cpp. A reading  *)
(* is one counter here; the code keeps a dozen of them side by side and    *)
(* treats each alike.                                                      *)
(***************************************************************************)
EXTENDS Integers, SequencesExt

CONSTANTS
    RingSize,       \* capacity, at least 1
    Readings,       \* values a counter may be read at
    MaxReadings     \* bound: ticks of the sampler

ASSUME MetricsHistoryAssumption == RingSize \in Nat \ {0} /\ Readings \subseteq Nat

VARIABLES
    ring,       \* ring_, slots 0 .. RingSize - 1
    slot,       \* next_
    wrapped,
    readings    \* history: every reading, the last of which is previous_

historyVars == <<ring, slot, wrapped, readings>>

\* A counter that went down was reset; the sample is flat.
delta(current, previous) == IF current >= previous THEN current - previous ELSE 0

HistoryInit ==
    /\ ring = [i \in 0 .. RingSize - 1 |-> 0]
    /\ slot = 0 /\ wrapped = FALSE /\ readings = <<>>

\* Mutant of Record: the ring counts as full one sample early.
RecordWrapsEarly(reading) ==
    /\ Len(readings) < MaxReadings
    /\ readings' = Append(readings, reading)
    /\ IF readings = <<>> THEN UNCHANGED <<ring, slot, wrapped>>
       ELSE /\ ring' = [ring EXCEPT ![slot] = delta(reading, Last(readings))]
            /\ slot' = (slot + 1) % RingSize
            /\ wrapped' = (wrapped \/ slot' = RingSize - 1)

\* The first reading is only something to subtract from.
Record(reading) ==
    /\ Len(readings) < MaxReadings
    /\ readings' = Append(readings, reading)
    /\ IF readings = <<>> THEN UNCHANGED <<ring, slot, wrapped>>
       ELSE /\ ring' = [ring EXCEPT ![slot] = delta(reading, Last(readings))]
            /\ slot' = (slot + 1) % RingSize
            /\ wrapped' = (wrapped \/ slot' = 0)

\* Oldest first: from the write position around to it once the ring is full.
samples ==
    LET held(from, to) == [i \in 1 .. to - from |-> ring[from + i - 1]]
    IN  IF wrapped THEN held(slot, RingSize) \o held(0, slot) ELSE held(0, slot)

HistoryNext == \E reading \in Readings : Record(reading)

HistorySpec == HistoryInit /\ [][HistoryNext]_historyVars

-----------------------------------------------------------------------------
(* Properties.                                                              *)

\* The graph shows the last RingSize intervals, in order, each with what the
\* counter gained in it, and no slot that was never written.
GraphShowsLastIntervals ==
    LET intervals == IF readings = <<>> THEN 0 ELSE Len(readings) - 1
        shown == Min({intervals, RingSize})
    IN  samples = [i \in 1 .. shown |->
                     LET at == intervals - shown + i
                     IN  IF readings[at + 1] < readings[at] THEN 0
                         ELSE readings[at + 1] - readings[at]]

=============================================================================
