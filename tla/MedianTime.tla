----------------------------- MODULE MedianTime -----------------------------
(***************************************************************************)
(* blockchain/mediantime.go: the offset of the local clock from the clocks *)
(* of the peers, one sample from each source, with the rules the comments  *)
(* there call intentionally buggy.                                         *)
(***************************************************************************)
EXTENDS Integers, Sequences, SequencesExt, FiniteSetsExt

CONSTANTS
    Offsets,        \* offsets that peers have
    MaxEntries,     \* maxMedianTimeEntries
    MaxAllowed,     \* maxAllowedOffsetSecs
    MinEntries,     \* 5
    MaxSources      \* bound: sources

VARIABLES
    samples,        \* the sample of each known source, the sources numbered
    offsets,        \* the samples that are kept
    offsetSecs

vars == <<samples, offsets, offsetSecs>>

Abs(n) == IF n < 0 THEN -n ELSE n

\* the oldest sample makes room
Kept(offset) == Append(IF Len(offsets) = MaxEntries THEN Tail(offsets) ELSE offsets, offset)

\* an odd number, so that the middle value is the median
EnoughSamples(n) == n >= MinEntries /\ n % 2 = 1

MedianOf(s) == SortSeq(s, LAMBDA a, b : a < b)[Len(s) \div 2 + 1]

\* a median that is too far off is not applied
Adjusted(median) == IF Abs(median) < MaxAllowed THEN median ELSE 0

\* a known source is ignored
AddTimeSample(source, offset) ==
    IF source \in DOMAIN samples THEN UNCHANGED vars
    ELSE /\ source = Len(samples) + 1
         /\ samples' = Append(samples, offset)
         /\ offsets' = Kept(offset)
         /\ offsetSecs' = IF EnoughSamples(Len(offsets')) THEN Adjusted(MedianOf(offsets')) ELSE offsetSecs

Init == samples = <<>> /\ offsets = <<>> /\ offsetSecs = 0

Next == \E source \in 1..MaxSources, offset \in Offsets : AddTimeSample(source, offset)

Spec == Init /\ [][Next]_vars

-----------------------------------------------------------------------------
(* Properties. *)

\* A few peers with a wrong clock do not move the local one: with at most two
\* of them the offset stays between the right clocks.  At least five samples
\* are needed for that, whatever the order they come in (AddTimeSample).
FewWrongClocks ==
    LET wrong == {i \in DOMAIN samples : Abs(samples[i]) >= MaxAllowed \div 2}
        right == {samples[i] : i \in DOMAIN samples \ wrong} \cup {0}
    IN  Cardinality(wrong) <= 2 => offsetSecs \in Min(right)..Max(right)
=============================================================================
