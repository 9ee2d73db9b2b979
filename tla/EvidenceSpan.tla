------------------------------ MODULE EvidenceSpan ------------------------------
(***************************************************************************)
(* Which seconds of a window the governor was flying the rotor             *)
(* (src/analysis/evidence-span.mjs), as operators on the times of the       *)
(* samples, the events the decoder placed between them and the window. An   *)
(* event is [type, state, sampleIndex, after]; after is None before the     *)
(* first sample.                                                           *)
(***************************************************************************)
EXTENDS Integers, Sequences, SequencesExt, FiniteSetsExt

CONSTANTS Governor,  \* EVIDENCE_SPAN_LIMITS.governorStateEventType
          Active,    \* EVIDENCE_SPAN_LIMITS.governorActiveState
          Settle,    \* EVIDENCE_SPAN_LIMITS.activeSettleUs
          Forever    \* Infinity: later than any time

Unplaced == -1
NoWindow == [start |-> Unplaced, end |-> Unplaced]

\* eventTimeUs: an event before the first sample is placed at it.
EventTime(e, times) ==
    IF e.after # Unplaced THEN e.after
    ELSE IF e.sampleIndex = 0 /\ times # <<>> THEN times[1] ELSE Unplaced

\* governorTransitions
GovernorTransitions(events, times) ==
    LET placed == SelectSeq(events, LAMBDA e : e.type = Governor /\ EventTime(e, times) # Unplaced)
    IN [i \in DOMAIN placed |-> [time |-> EventTime(placed[i], times), state |-> placed[i].state]]

\* rangesFrom: each stretch of ACTIVE transitions, to the next that is not one;
\* a repeated ACTIVE does not move its start, and an empty one is none.
RangesFrom(transitions) ==
    LET opens == {i \in DOMAIN transitions :
                      /\ transitions[i].state = Active
                      /\ i = 1 \/ transitions[i - 1].state # Active}
        EndOf(i) ==
            LET ends == {j \in (i + 1)..Len(transitions) : transitions[j].state # Active}
            IN IF ends = {} THEN Forever ELSE transitions[Min(ends)].time
        first == SetToSortSeq(opens, <)
    IN SelectSeq([k \in DOMAIN first |-> [start |-> transitions[first[k]].time,
                                          end |-> EndOf(first[k])]],
                 LAMBDA r : r.start < r.end)

\* firstIndexAtOrAfter: the binary search, counting from 0.
FirstIndexAtOrAfter(times, t) ==
    LET n == Len(times)
        search[low \in 0..n, high \in 0..n] ==
            LET middle == (low + high) \div 2
            IN IF low >= high THEN low
               ELSE IF times[middle + 1] < t THEN search[middle + 1, high]
               ELSE search[low, middle]
    IN search[0, n]

\* samplesBetween
SamplesBetween(times, start, end) ==
    FirstIndexAtOrAfter(times, end + 1) - FirstIndexAtOrAfter(times, start)

\* Faulty variant: the governor is trusted from the moment it reports ACTIVE.
OverlapUnsettled(r, w) == [start |-> Max({r.start, w.start}), end |-> Min({r.end, w.end})]

\* A range, settled and clipped to the window.
Overlap(r, w) == [start |-> Max({r.start + Settle, w.start}), end |-> Min({r.end, w.end})]

\* resolveEvidenceSpan
ResolveEvidenceSpan(times, events, window) ==
    LET all == IF times = <<>> THEN NoWindow ELSE [start |-> times[1], end |-> Last(times)]
        w == IF window = NoWindow THEN all ELSE window
        transitions == GovernorTransitions(events, times)
        ranges == RangesFrom(transitions)
        overlaps == SelectSeq([i \in DOMAIN ranges |-> Overlap(ranges[i], w)],
                              LAMBDA o : o.start < o.end /\ SamplesBetween(times, o.start, o.end) >= 2)
        between == [i \in 1..(Len(overlaps) - 1) |->
                       [start |-> overlaps[i].end, end |-> overlaps[i + 1].start]]
        Answer(basis, span, inside) == [basis |-> basis, start |-> span.start, end |-> span.end,
                                        inactiveRangesInside |-> inside]
    IN IF transitions = <<>> THEN Answer("GOVERNOR_STATE_NOT_LOGGED", w, <<>>)
       ELSE IF w = NoWindow
            THEN Answer(IF ranges = <<>> THEN "GOVERNOR_NEVER_ACTIVE" ELSE "GOVERNOR_ACTIVE", w, <<>>)
       ELSE IF overlaps = <<>> THEN Answer("GOVERNOR_NEVER_ACTIVE", w, <<>>)
       ELSE Answer("GOVERNOR_ACTIVE", [start |-> overlaps[1].start, end |-> Last(overlaps).end], between)

\* sliceSessionToSpan: the samples it leaves, counting from 1.
SliceSessionToSpan(times, span) ==
    IF span.start = Unplaced THEN DOMAIN times
    ELSE (FirstIndexAtOrAfter(times, span.start) + 1)..FirstIndexAtOrAfter(times, span.end + 1)

=============================================================================
