--------------------------- MODULE FrameDecoderProofs ---------------------------
(***************************************************************************)
(* Proofs about the frame loop, for every log, damage and limit: the       *)
(* predictor history is that of the samples handed back, a decode that     *)
(* stopped at a limit is called damaged, and every turn of the loop goes   *)
(* over bytes of its own, inside the session, and skips none that could    *)
(* have begun a frame.                                                     *)
(***************************************************************************)
EXTENDS FrameDecoder, SequenceTheorems, WellFoundedInduction, TLAPS

IsSeq(s) == s \in Seq({s[i] : i \in DOMAIN s})

LEMMA AppendIsSeq ==
    ASSUME NEW s, IsSeq(s), NEW x
    PROVE  /\ IsSeq(Append(s, x))
           /\ Len(s) \in Nat /\ DOMAIN s = 1..Len(s)
           /\ Len(Append(s, x)) = Len(s) + 1
           /\ DOMAIN Append(s, x) = 1..(Len(s) + 1)
           /\ \A i \in 1..Len(s) : Append(s, x)[i] = s[i]
           /\ Append(s, x)[Len(s) + 1] = x
<1> DEFINE S == {s[i] : i \in DOMAIN s} \cup {x}
           t == Append(s, x)
<1>1. s \in Seq(S)
  BY DEF IsSeq
<1>2. t \in Seq(S) /\ Len(t) = Len(s) + 1 /\ DOMAIN t = 1..(Len(s) + 1)
      /\ Len(s) \in Nat /\ DOMAIN s = 1..Len(s)
  BY <1>1
<1>3. (\A i \in 1..Len(s) : t[i] = s[i]) /\ t[Len(s) + 1] = x
  BY <1>1
<1>4. t \in Seq({t[i] : i \in DOMAIN t})
  <2> DEFINE T == {t[i] : i \in DOMAIN t}
  <2>1. \A i \in 1..Len(t) : t[i] \in T
    BY <1>2
  <2> QED  BY <1>2, <2>1
<1> QED  BY <1>2, <1>3, <1>4 DEF IsSeq

-----------------------------------------------------------------------------
(* The history and the limits.                                             *)

\* HistoryIsCommitted, of values.
Committed(samples, events, h) ==
    LET n == Len(samples)
        t == Times(samples)
    IN /\ h = IF n = 0 THEN NoHistory
              ELSE [previous |-> t[n], last |-> t[n],
                    previous2 |-> IF samples[n].intra THEN t[n] ELSE t[n - 1]]
       /\ \A i \in 1..n : samples[i].intra \/ (i > 1 /\ t[i] >= t[i - 1])
       /\ \A i \in DOMAIN events :
              LET e == events[i]
              IN e.after = IF e.sampleIndex = 0 THEN None ELSE t[e.sampleIndex]

\* The fields of what is handed back.
IsOut(o) ==
    o = [samples |-> o.samples, gps |-> o.gps, events |-> o.events, errors |-> o.errors,
         count |-> o.count, reachedLogEnd |-> o.reachedLogEnd, limitExceeded |-> o.limitExceeded]

\* Sequences, and events placed among the samples there are.
OutTypes(o) ==
    /\ IsOut(o)
    /\ IsSeq(o.samples) /\ IsSeq(o.events) /\ IsSeq(o.errors)
    /\ \A i \in DOMAIN o.events : o.events[i].sampleIndex \in 0..Len(o.samples)

\* A limit that was reached left its error.
LimitIsKept(o) ==
    o.limitExceeded => \E i \in DOMAIN o.errors : o.errors[i].code = "limit-exceeded"

CommitInv ==
    /\ OutTypes(out)
    /\ LimitIsKept(out)
    /\ Committed(out.samples, out.events, history)

\* A sample is appended: a keyframe, or a frame that is not before the last.
LEMMA SampleCommits ==
    ASSUME NEW samples, NEW events, NEW h, NEW x, NEW g,
           IsSeq(samples), Committed(samples, events, h),
           \A i \in DOMAIN events : events[i].sampleIndex \in 0..Len(samples),
           \/ x.intra /\ g = CommitIntra(h, x.time)
           \/ /\ ~x.intra /\ Len(samples) > 0 /\ x.time >= h.previous
              /\ g = CommitInter(h, x.time)
    PROVE  Committed(Append(samples, x), events, g)
<1> DEFINE n == Len(samples)
           s == Append(samples, x)
           t == Times(samples)
           u == Times(s)
<1>1. /\ IsSeq(s) /\ n \in Nat /\ DOMAIN samples = 1..n /\ Len(s) = n + 1
      /\ DOMAIN s = 1..(n + 1) /\ (\A i \in 1..n : s[i] = samples[i]) /\ s[n + 1] = x
  BY AppendIsSeq
<1>2. /\ \A i \in 1..n : u[i] = t[i]
      /\ u[n + 1] = x.time
  BY <1>1 DEF Times
<1>3. /\ h = IF n = 0 THEN NoHistory
             ELSE [previous |-> t[n], last |-> t[n],
                   previous2 |-> IF samples[n].intra THEN t[n] ELSE t[n - 1]]
      /\ \A i \in 1..n : samples[i].intra \/ (i > 1 /\ t[i] >= t[i - 1])
      /\ \A i \in DOMAIN events :
             events[i].after = IF events[i].sampleIndex = 0 THEN None
                               ELSE t[events[i].sampleIndex]
  BY DEF Committed
<1> HIDE DEF n, s, t, u
<1>4. g = IF n + 1 = 0 THEN NoHistory
          ELSE [previous |-> u[n + 1], last |-> u[n + 1],
                previous2 |-> IF s[n + 1].intra THEN u[n + 1] ELSE u[n + 1 - 1]]
  <2>1. CASE x.intra /\ g = CommitIntra(h, x.time)
    BY <1>1, <1>2, <2>1 DEF CommitIntra
  <2>2. CASE ~x.intra /\ n > 0 /\ g = CommitInter(h, x.time)
    <3>1. h.previous = t[n] /\ n \in 1..n /\ n + 1 - 1 = n
      BY <1>1, <1>3, <2>2
    <3> QED  BY <1>1, <1>2, <2>2, <3>1 DEF CommitInter
  <2> QED  BY <2>1, <2>2 DEF n
<1>5. \A i \in 1..(n + 1) : s[i].intra \/ (i > 1 /\ u[i] >= u[i - 1])
  <2> TAKE i \in 1..(n + 1)
  <2>1. CASE i \in 1..n
    <3>1. i > 1 => i - 1 \in 1..n
      BY <1>1, <2>1
    <3> QED  BY <1>1, <1>2, <1>3, <2>1, <3>1
  <2>2. CASE i = n + 1 /\ x.intra
    BY <1>1, <2>2
  <2>3. CASE i = n + 1 /\ ~x.intra
    <3>1. n > 0 /\ x.time >= h.previous
      BY <2>3 DEF n
    <3>2. h.previous = t[n] /\ n \in 1..n /\ i - 1 = n /\ i > 1
      BY <1>1, <1>3, <2>3, <3>1
    <3> QED  BY <1>2, <2>3, <3>1, <3>2
  <2> QED  BY <1>1, <2>1, <2>2, <2>3
<1>6. \A i \in DOMAIN events :
          events[i].after = IF events[i].sampleIndex = 0 THEN None
                            ELSE u[events[i].sampleIndex]
  <2> TAKE i \in DOMAIN events
  <2>1. events[i].sampleIndex \in 0..n
    BY DEF n
  <2>2. events[i].sampleIndex # 0 => events[i].sampleIndex \in 1..n
    BY <1>1, <2>1
  <2> QED  BY <1>2, <1>3, <2>2
<1> QED  BY <1>1, <1>4, <1>5, <1>6 DEF Committed, s, u, n

\* An event is placed after the last sample.
LEMMA EventCommits ==
    ASSUME NEW samples, NEW events, NEW h, NEW e,
           IsSeq(samples), IsSeq(events), Committed(samples, events, h),
           e.sampleIndex = Len(samples),
           e.after = IF samples = <<>> THEN None ELSE h.last
    PROVE  Committed(samples, Append(events, e), h)
<1> DEFINE n == Len(samples)
           m == Len(events)
           t == Times(samples)
           v == Append(events, e)
<1>1. /\ m \in Nat /\ DOMAIN events = 1..m /\ DOMAIN v = 1..(m + 1)
      /\ (\A i \in 1..m : v[i] = events[i]) /\ v[m + 1] = e
  BY AppendIsSeq
<1>2. n \in Nat /\ (samples = <<>> <=> n = 0)
  BY DEF IsSeq
<1>3. e.after = IF e.sampleIndex = 0 THEN None ELSE t[e.sampleIndex]
  BY <1>2 DEF Committed
<1>4. \A i \in 1..m : v[i].after = IF v[i].sampleIndex = 0 THEN None ELSE t[v[i].sampleIndex]
  BY <1>1 DEF Committed
<1>5. \A i \in DOMAIN v : v[i].after = IF v[i].sampleIndex = 0 THEN None ELSE t[v[i].sampleIndex]
  <2> TAKE i \in DOMAIN v
  <2>1. i \in 1..m \/ i = m + 1
    BY <1>1
  <2> QED  BY <1>1, <1>3, <1>4, <2>1
<1> QED  BY <1>5 DEF Committed

LEMMA InitCommits == Init => CommitInv
<1> SUFFICES ASSUME Init PROVE CommitInv
  OBVIOUS
<1>1. /\ out.samples = <<>> /\ out.events = <<>> /\ out.errors = <<>>
      /\ ~out.limitExceeded /\ history = NoHistory
  BY DEF Init
<1>2. OutTypes(out)
  BY DEF Init, OutTypes, IsOut, IsSeq
<1> QED  BY <1>1, <1>2 DEF CommitInv, LimitIsKept, Committed, Times

\* What an assignment to fields of it leaves.
LEMMA ErrorsAssigned ==
    ASSUME NEW o, IsOut(o), NEW e, NEW x
    PROVE  [o EXCEPT !.errors = e, !.count = x] =
               [samples |-> o.samples, gps |-> o.gps, events |-> o.events, errors |-> e,
                count |-> x, reachedLogEnd |-> o.reachedLogEnd,
                limitExceeded |-> o.limitExceeded]
<1> DEFINE p == [o EXCEPT !.errors = e]
<1>1. p = [samples |-> o.samples, gps |-> o.gps, events |-> o.events, errors |-> e,
           count |-> o.count, reachedLogEnd |-> o.reachedLogEnd,
           limitExceeded |-> o.limitExceeded]
  BY DEF IsOut
<1>2. [o EXCEPT !.errors = e, !.count = x] = [p EXCEPT !.count = x]
  OBVIOUS
<1> HIDE DEF p
<1> QED  BY <1>1, <1>2

LEMMA LimitAssigned ==
    ASSUME NEW o, IsOut(o), NEW e, NEW x
    PROVE  [o EXCEPT !.limitExceeded = x, !.errors = e] =
               [samples |-> o.samples, gps |-> o.gps, events |-> o.events, errors |-> e,
                count |-> o.count, reachedLogEnd |-> o.reachedLogEnd, limitExceeded |-> x]
<1> DEFINE p == [o EXCEPT !.limitExceeded = x]
<1>1. p = [samples |-> o.samples, gps |-> o.gps, events |-> o.events, errors |-> o.errors,
           count |-> o.count, reachedLogEnd |-> o.reachedLogEnd, limitExceeded |-> x]
  BY DEF IsOut
<1>2. [o EXCEPT !.limitExceeded = x, !.errors = e] = [p EXCEPT !.errors = e]
  OBVIOUS
<1> HIDE DEF p
<1> QED  BY <1>1, <1>2

LEMMA EventsAssigned ==
    ASSUME NEW o, IsOut(o), NEW e, NEW x
    PROVE  [o EXCEPT !.events = e, !.reachedLogEnd = x] =
               [samples |-> o.samples, gps |-> o.gps, events |-> e, errors |-> o.errors,
                count |-> o.count, reachedLogEnd |-> x, limitExceeded |-> o.limitExceeded]
<1> DEFINE p == [o EXCEPT !.events = e]
<1>1. p = [samples |-> o.samples, gps |-> o.gps, events |-> e, errors |-> o.errors,
           count |-> o.count, reachedLogEnd |-> o.reachedLogEnd,
           limitExceeded |-> o.limitExceeded]
  BY DEF IsOut
<1>2. [o EXCEPT !.events = e, !.reachedLogEnd = x] = [p EXCEPT !.reachedLogEnd = x]
  OBVIOUS
<1> HIDE DEF p
<1> QED  BY <1>1, <1>2

\* recordLimit leaves the samples and the events, and its error.
LEMMA ReachLimitKeeps ==
    ASSUME NEW o, OutTypes(o)
    PROVE  LET p == ReachLimit(o)
           IN OutTypes(p) /\ LimitIsKept(p) /\ p.samples = o.samples /\ p.events = o.events
<1> DEFINE p == ReachLimit(o)
<1>1. /\ p = [samples |-> o.samples, gps |-> o.gps, events |-> o.events,
              errors |-> Append(o.errors, LimitError), count |-> o.count,
              reachedLogEnd |-> o.reachedLogEnd, limitExceeded |-> TRUE]
  <2>1. p = [o EXCEPT !.limitExceeded = TRUE, !.errors = Append(o.errors, LimitError)]
    BY DEF ReachLimit
  <2> QED  BY <2>1, LimitAssigned DEF OutTypes
<1>2. /\ IsSeq(p.errors) /\ Len(o.errors) + 1 \in DOMAIN p.errors
      /\ p.errors[Len(o.errors) + 1] = LimitError
  BY <1>1, AppendIsSeq DEF OutTypes
<1>3. OutTypes(p)
  BY <1>1, <1>2 DEF OutTypes, IsOut
<1>4. LimitIsKept(p)
  BY <1>2 DEF LimitIsKept, LimitError
<1> QED  BY <1>1, <1>3, <1>4

\* A frame that is not believed is counted, and nothing else.
LEMMA CountingKeeps ==
    ASSUME NEW o, OutTypes(o), NEW c
    PROVE  LET p == [o EXCEPT !.count = c]
           IN /\ OutTypes(p) /\ p.samples = o.samples /\ p.events = o.events
              /\ p.errors = o.errors /\ p.limitExceeded = o.limitExceeded
<1> DEFINE p == [o EXCEPT !.count = c]
<1>1. p = [samples |-> o.samples, gps |-> o.gps, events |-> o.events, errors |-> o.errors,
           count |-> c, reachedLogEnd |-> o.reachedLogEnd, limitExceeded |-> o.limitExceeded]
  BY DEF OutTypes, IsOut
<1> QED  BY <1>1 DEF OutTypes, IsOut

\* An error is appended.
WithError(o, e, c) == [o EXCEPT !.errors = Append(@, e), !.count = c]

LEMMA ErrorKeeps ==
    ASSUME NEW o, OutTypes(o), LimitIsKept(o), NEW e, NEW c
    PROVE  LET p == WithError(o, e, c)
           IN OutTypes(p) /\ LimitIsKept(p) /\ p.samples = o.samples /\ p.events = o.events
<1> DEFINE p == WithError(o, e, c)
<1>1. p = [samples |-> o.samples, gps |-> o.gps, events |-> o.events,
           errors |-> Append(o.errors, e), count |-> c, reachedLogEnd |-> o.reachedLogEnd,
           limitExceeded |-> o.limitExceeded]
  BY ErrorsAssigned DEF OutTypes, WithError
<1>2. /\ IsSeq(p.errors) /\ DOMAIN o.errors \subseteq DOMAIN p.errors
      /\ \A i \in DOMAIN o.errors : p.errors[i] = o.errors[i]
  BY <1>1, AppendIsSeq DEF OutTypes
<1>3. OutTypes(p)
  BY <1>1, <1>2 DEF OutTypes, IsOut
<1>4. LimitIsKept(p)
  BY <1>1, <1>2 DEF LimitIsKept
<1> QED  BY <1>1, <1>3, <1>4

\* A frame that did not read changes nothing that was committed.
LEMMA DamagedCommits == CommitInv /\ Damaged => CommitInv'
<1> SUFFICES ASSUME CommitInv, Damaged PROVE CommitInv'
  OBVIOUS
<1> DEFINE counted == IF Frame.code = "implausible"
                      THEN [out EXCEPT !.count.rejected = @ + 1] ELSE out
<1>1. /\ OutTypes(counted) /\ LimitIsKept(counted)
      /\ counted.samples = out.samples /\ counted.events = out.events
  <2>1. CASE Frame.code = "implausible"
    <3>1. PICK c : counted = [out EXCEPT !.count = c]
      <4>1. counted = [out EXCEPT !.count = [out.count EXCEPT !.rejected = @ + 1]]
        BY <2>1
      <4> QED  BY <4>1
    <3> QED  BY <3>1, CountingKeeps DEF CommitInv, LimitIsKept
  <2>2. CASE Frame.code # "implausible"
    BY <2>2 DEF CommitInv
  <2> QED  BY <2>1, <2>2
<1>2. history' = history
  BY DEF Damaged
<1>3. \/ out' = ReachLimit(counted)
      \/ \E e, c : out' = WithError(counted, e, c)
  <2>1. CASE Len(out.errors) >= lim.errors
    BY <2>1 DEF Damaged
  <2>2. CASE ~(Len(out.errors) >= lim.errors)
    <3> DEFINE erased == Frame.code # "truncated" /\ CutByErasedTail(Frame.next)
               ended == erased \/ Frame.code = "truncated"
               stop == IF erased THEN End ELSE Frame.next
               to == IF ended THEN stop ELSE Resync(Frame.next)
               e == [code |-> IF ended THEN "truncated" ELSE "corrupt", offset |-> offset]
               n == IF ended THEN 0 ELSE to - offset
               c == [counted.count EXCEPT !.resync = @ + n]
    <3>1. out' = [counted EXCEPT !.errors = Append(@, e), !.count.resync = @ + n]
      BY <2>2 DEF Damaged
    <3> HIDE DEF e, n, counted
    <3>2. out' = WithError(counted, e, c)
      BY <3>1 DEF WithError
    <3> QED  BY <3>2
  <2> QED  BY <2>1, <2>2
<1> HIDE DEF counted
<1>4. /\ OutTypes(out') /\ LimitIsKept(out')
      /\ out'.samples = out.samples /\ out'.events = out.events
  <2>1. CASE out' = ReachLimit(counted)
    BY <1>1, <2>1, ReachLimitKeeps
  <2>2. CASE \E e, c : out' = WithError(counted, e, c)
    <3>1. PICK e, c : out' = WithError(counted, e, c)
      BY <2>2
    <3>2. /\ OutTypes(WithError(counted, e, c))
          /\ LimitIsKept(WithError(counted, e, c))
          /\ WithError(counted, e, c).samples = counted.samples
          /\ WithError(counted, e, c).events = counted.events
      BY <1>1, ErrorKeeps
    <3> QED  BY <1>1, <3>1, <3>2
  <2> QED  BY <1>3, <2>1, <2>2
<1> QED  BY <1>2, <1>4 DEF CommitInv

\* A main frame that reads: its sample and its history.
LEMMA SampleStep ==
    ASSUME CommitInv, NEW x, out' = [out EXCEPT !.samples = Append(@, x)],
           \/ x.intra /\ history' = CommitIntra(history, x.time)
           \/ /\ ~x.intra /\ Len(out.samples) > 0 /\ x.time >= history.previous
              /\ history' = CommitInter(history, x.time)
    PROVE  CommitInv'
<1>1. out' = [samples |-> Append(out.samples, x), gps |-> out.gps, events |-> out.events,
              errors |-> out.errors, count |-> out.count,
              reachedLogEnd |-> out.reachedLogEnd, limitExceeded |-> out.limitExceeded]
  BY DEF CommitInv, OutTypes, IsOut
<1>2. IsSeq(out'.samples) /\ Len(out'.samples) = Len(out.samples) + 1 /\ Len(out.samples) \in Nat
  BY <1>1, AppendIsSeq DEF CommitInv, OutTypes
<1>3. OutTypes(out')
  <2>1. \A i \in DOMAIN out.events : out.events[i].sampleIndex \in 0..Len(out'.samples)
    BY <1>2 DEF CommitInv, OutTypes
  <2>2. IsOut(out')
    BY <1>1 DEF IsOut
  <2> HIDE DEF IsOut
  <2> QED  BY <1>1, <1>2, <2>1, <2>2 DEF CommitInv, OutTypes
<1>4. LimitIsKept(out')
  BY <1>1 DEF CommitInv, LimitIsKept
<1>5. Committed(out'.samples, out'.events, history')
  BY <1>1, SampleCommits DEF CommitInv, OutTypes
<1> QED  BY <1>3, <1>4, <1>5 DEF CommitInv

LEMMA IntraCommits == CommitInv /\ Intra => CommitInv'
<1> SUFFICES ASSUME CommitInv, Intra PROVE CommitInv'
  OBVIOUS
<1>1. PICK x : x = Sample(TRUE)
  OBVIOUS
<1>2. x.intra /\ x.time = Frame.value
  BY <1>1 DEF Sample
<1>3. out' = [out EXCEPT !.samples = Append(@, x)] /\ history' = CommitIntra(history, x.time)
  BY <1>1, <1>2 DEF Intra
<1> QED  BY <1>2, <1>3, SampleStep

\* A P frame that reads has a history and is not before it.
LEMMA InterIsPlausible ==
    ASSUME Accept("P")
    PROVE  history.previous # None /\ Frame.value >= history.previous
<1>1. KindAt(offset) = "P" /\ Frame.code = "ok"
  BY DEF Accept
<1>2. ~Undecodable("P")
  BY <1>1 DEF Frame, Corrupt
<1>3. Frame.value >= history.previous
  <2> DEFINE raw == ReadVB(offset + 1)
             r == IF raw.code # "ok" THEN raw
                  ELSE [raw EXCEPT !.value = Unsigned(ZigZagDecode(raw.value) + StraightLine(history))]
  <2>1. Frame = IF r.code = "ok" /\ ~IsPlausible(r.value)
                THEN [r EXCEPT !.code = "implausible"] ELSE r
    BY <1>1, <1>2 DEF Frame
  <2>2. DOMAIN raw = {"code", "value", "next"}
    BY DEF ReadVB, Read, Truncated, Corrupt
  <2>3. DOMAIN r = {"code", "value", "next"}
    BY <2>2
  <2> HIDE DEF r
  <2>4. ~(r.code = "ok" /\ ~IsPlausible(r.value))
    BY <1>1, <2>1, <2>3
  <2> QED  BY <1>1, <2>1, <2>4 DEF IsPlausible
<1> QED  BY <1>2, <1>3 DEF Undecodable

LEMMA InterCommits == CommitInv /\ Inter => CommitInv'
<1> SUFFICES ASSUME CommitInv, Inter PROVE CommitInv'
  OBVIOUS
<1>1. PICK x : x = Sample(FALSE)
  OBVIOUS
<1>2. ~x.intra /\ x.time = Frame.value
  BY <1>1 DEF Sample
<1>3. out' = [out EXCEPT !.samples = Append(@, x)] /\ history' = CommitInter(history, x.time)
  BY <1>1, <1>2 DEF Inter
<1>4. history.previous # None /\ x.time >= history.previous
  BY <1>2, InterIsPlausible DEF Inter
<1>5. Len(out.samples) > 0
  <2>1. Len(out.samples) \in Nat
    BY DEF CommitInv, OutTypes, IsSeq
  <2>2. Len(out.samples) # 0
    BY <1>4 DEF CommitInv, Committed, NoHistory
  <2> QED  BY <2>1, <2>2
<1> QED  BY <1>2, <1>3, <1>4, <1>5, SampleStep

LEMMA EventStepCommits == CommitInv /\ Event => CommitInv'
<1> SUFFICES ASSUME CommitInv, Event PROVE CommitInv'
  OBVIOUS
<1>1. PICK e, b :
          /\ e.sampleIndex = Len(out.samples)
          /\ e.after = IF out.samples = <<>> THEN None ELSE history.last
          /\ out' = [out EXCEPT !.events = Append(@, e), !.reachedLogEnd = b]
  <2> DEFINE said == IF Frame.value \in StateEvents THEN ReadVB(offset + 2).value ELSE None
             b == Frame.value = LogEnd
             after == IF out.samples = <<>> THEN None ELSE history.last
             e == [type |-> Frame.value, state |-> said, sampleIndex |-> Len(out.samples),
                   after |-> after]
  <2>1. out' = [out EXCEPT !.events = Append(@, e), !.reachedLogEnd = b]
    BY DEF Event
  <2>2. e.sampleIndex = Len(out.samples) /\ e.after = after
    OBVIOUS
  <2> HIDE DEF e, b
  <2> QED  BY <2>1, <2>2
<1>2. history' = history
  BY DEF Event
<1>3. out' = [samples |-> out.samples, gps |-> out.gps, events |-> Append(out.events, e),
              errors |-> out.errors, count |-> out.count,
              reachedLogEnd |-> b, limitExceeded |-> out.limitExceeded]
  BY <1>1, EventsAssigned DEF CommitInv, OutTypes
<1>4. /\ IsSeq(out'.events) /\ DOMAIN out'.events = 1..(Len(out.events) + 1)
      /\ DOMAIN out.events = 1..Len(out.events) /\ Len(out.events) \in Nat
      /\ (\A i \in 1..Len(out.events) : out'.events[i] = out.events[i])
      /\ out'.events[Len(out.events) + 1] = e
  BY <1>3, AppendIsSeq DEF CommitInv, OutTypes
<1>5. \A i \in DOMAIN out'.events : out'.events[i].sampleIndex \in 0..Len(out'.samples)
  <2> TAKE i \in DOMAIN out'.events
  <2>1. Len(out.samples) \in Nat /\ out'.samples = out.samples
    BY <1>3 DEF CommitInv, OutTypes, IsSeq
  <2>2. i \in 1..Len(out.events) \/ i = Len(out.events) + 1
    BY <1>4
  <2>3. \A j \in 1..Len(out.events) : out.events[j].sampleIndex \in 0..Len(out.samples)
    BY <1>4 DEF CommitInv, OutTypes
  <2> QED  BY <1>1, <1>4, <2>1, <2>2, <2>3
<1>6. OutTypes(out')
  BY <1>3, <1>4, <1>5 DEF CommitInv, OutTypes, IsOut
<1>7. LimitIsKept(out')
  BY <1>3 DEF CommitInv, LimitIsKept
<1>8. Committed(out'.samples, out'.events, history')
  BY <1>1, <1>2, <1>3, EventCommits DEF CommitInv, OutTypes
<1> QED  BY <1>6, <1>7, <1>8 DEF CommitInv

\* Slow, home and position frames are counted, and a fix is handed back.
LEMMA AuxiliaryCommits == CommitInv /\ (Auxiliary \/ Gps) => CommitInv'
<1> SUFFICES ASSUME CommitInv, Auxiliary \/ Gps PROVE CommitInv'
  OBVIOUS
<1>1. history' = history
  BY DEF Auxiliary, Gps
<1>2. PICK g, c : out' = [samples |-> out.samples, gps |-> g, events |-> out.events,
                         errors |-> out.errors, count |-> c,
                         reachedLogEnd |-> out.reachedLogEnd,
                         limitExceeded |-> out.limitExceeded]
  <2> DEFINE c == [out.count EXCEPT !.aux = @ + 1]
  <2>1. CASE Auxiliary
    <3>1. out' = [out EXCEPT !.count = c]
      BY <2>1 DEF Auxiliary
    <3> HIDE DEF c
    <3> QED  BY <3>1 DEF CommitInv, OutTypes, IsOut
  <2>2. CASE Gps
    <3>1. PICK g : out' = [out EXCEPT !.count = c, !.gps = g]
      BY <2>2 DEF Gps
    <3> HIDE DEF c
    <3> QED  BY <3>1 DEF CommitInv, OutTypes, IsOut
  <2> QED  BY <2>1, <2>2
<1> QED  BY <1>1, <1>2 DEF CommitInv, OutTypes, IsOut, LimitIsKept

LEMMA StepCommits == CommitInv /\ [Next]_vars => CommitInv'
<1> SUFFICES ASSUME CommitInv, [Next]_vars PROVE CommitInv'
  OBVIOUS
<1>1. CASE EndOfSession
  BY <1>1 DEF EndOfSession, CommitInv
<1>2. CASE TooManyRecords \/ StopAtLimit
  <2>1. out' = ReachLimit(out) /\ history' = history
    BY <1>2 DEF TooManyRecords, StopAtLimit
  <2>2. OutTypes(out)
    BY DEF CommitInv
  <2>3. /\ OutTypes(out') /\ LimitIsKept(out')
        /\ out'.samples = out.samples /\ out'.events = out.events
    BY <2>1, <2>2, ReachLimitKeeps
  <2> QED  BY <2>1, <2>3 DEF CommitInv
<1>3. CASE UNCHANGED vars
  BY <1>3 DEF vars, CommitInv
<1> QED
  BY <1>1, <1>2, <1>3, IntraCommits, InterCommits, AuxiliaryCommits, EventStepCommits,
     DamagedCommits DEF Next

LEMMA CommitInvIsInductive == Spec => []CommitInv
  BY InitCommits, StepCommits, PTL DEF Spec

\* For every log, whatever damage it took and whatever the limits: the predictor
\* history is that of the samples handed back, time moves forward from a sample to
\* the P frame after it, and an event's time is that of the sample before it (the
\* frame loop of frames.mjs).
THEOREM SamplesAreCommitted == Spec => []HistoryIsCommitted
<1>1. CommitInv => HistoryIsCommitted
  BY DEF CommitInv, Committed, HistoryIsCommitted
<1> QED  BY <1>1, CommitInvIsInductive, PTL

\* For every log: a decode that stopped at a limit is called damaged, never clean
\* or cut, whatever else went wrong in it (recordLimit, sessionIntegrity).
THEOREM LimitsAreDamage == Spec => []LimitIsNeverClean
<1>1. CommitInv => LimitIsNeverClean
  BY DEF CommitInv, LimitIsKept, LimitIsNeverClean, SessionIntegrity, CaptureTail
<1> QED  BY <1>1, CommitInvIsInductive, PTL

-----------------------------------------------------------------------------
(* The bytes each turn goes over.                                          *)

\* A set of numbers that is not empty has a smallest, and Min is it.
LEMMA MinOfNumbers ==
    ASSUME NEW S, S \subseteq Nat, S # {}
    PROVE  Min(S) \in S /\ \A n \in S : Min(S) <= n
<1> DEFINE R == OpToRel(<, Nat)
<1>1. IsWellFoundedOn(R, Nat)
  BY NatLessThanWellFounded
<1>2. \A m, n \in Nat : n < m => <<n, m>> \in R
  BY DEF OpToRel
<1> HIDE DEF R
<1>3. PICK m \in S : \A n \in S : <<n, m>> \notin R
  BY <1>1, WFMin
<1>4. \A n \in S : m <= n
  <2> TAKE n \in S
  <2>1. m \in Nat /\ n \in Nat
    OBVIOUS
  <2>2. ~ (n < m)
    BY <1>2, <1>3, <2>1, Zenon
  <2> QED  BY <2>1, <2>2
<1> QED  BY <1>4 DEF Min

LEMMA EachIsMember ==
    ASSUME NEW B, NEW b \in Seq(B)
    PROVE  \A j \in 1..Len(b) : b[j] \in B
  OBVIOUS

LEMMA PartIsBytes ==
    ASSUME NEW B, NEW b \in Seq(B), NEW m \in Nat \ {0}, NEW n \in Nat, n <= Len(b)
    PROVE  SubSeq(b, m, n) \in Seq(B)
<1>1. \A i \in m..n : b[i] \in B
  OBVIOUS
<1>2. m \in Int /\ n \in Int
  OBVIOUS
<1> QED  BY <1>1, <1>2, SubSeqProperties

\* Whatever happens to a log, it stays a sequence of bytes.
LEMMA DamageIsBytes ==
    ASSUME NEW b \in Seq(0..255), NEW d \in Damages(b)
    PROVE  d.bytes \in Seq(0..255)
<1> DEFINE B == 0..255
           n == Len(b)
<1>1. n \in Nat /\ MaxErased \in Nat /\ MaxLost \in Nat
  BY DecoderAssumption
<1>2. CASE d \in {Damage("none", b, n, n)}
  BY <1>2 DEF Damage
<1>3. CASE d \in Cuts(b)
  <2>1. PICK k \in 0..(n - 1), e \in 0..MaxErased :
            d = Damage("cut", SubSeq(b, 1, k) \o Erased(e), k, 0)
    BY <1>3 DEF Cuts
  <2>2. SubSeq(b, 1, k) \in Seq(B)
    <3>1. k \in Nat /\ k <= Len(b) /\ 1 \in Nat \ {0}
      BY <1>1
    <3> QED  BY <3>1, PartIsBytes
  <2>3. Erased(e) \in Seq(B)
    BY <1>1 DEF Erased, ErasedByte
  <2>4. SubSeq(b, 1, k) \o Erased(e) \in Seq(B)
    BY <2>2, <2>3, ConcatProperties
  <2>5. d.bytes = SubSeq(b, 1, k) \o Erased(e)
    BY <2>1 DEF Damage
  <2> QED  BY <2>4, <2>5
<1>4. CASE d \in Overwritten(b)
  <2>1. PICK k \in 1..n, x \in Overwrites :
            d = Damage("overwritten", Overwrite(b, k, x), k - 1, n - k)
    BY <1>4 DEF Overwritten
  <2>2. Overwrite(b, k, x) \in Seq(B)
    BY <2>1, DecoderAssumption DEF Overwrite
  <2>3. d.bytes = Overwrite(b, k, x)
    BY <2>1 DEF Damage
  <2> QED  BY <2>2, <2>3
<1>5. CASE d \in Losses(b)
  <2>1. PICK p \in Parts(b) :
            d = Damage("lost", SubSeq(b, 1, p[1]) \o SubSeq(b, p[2] + 1, n), p[1], n - p[2])
    BY <1>5 DEF Losses
  <2>2. p[1] \in 0..n /\ p[2] \in 0..n
    BY DEF Parts
  <2>3. SubSeq(b, 1, p[1]) \in Seq(B) /\ SubSeq(b, p[2] + 1, n) \in Seq(B)
    <3>1. /\ p[1] \in Nat /\ p[1] <= Len(b) /\ p[2] + 1 \in Nat \ {0}
          /\ n \in Nat /\ n <= Len(b) /\ 1 \in Nat \ {0}
      BY <1>1, <2>2
    <3> HIDE DEF n
    <3> QED  BY <3>1, PartIsBytes
  <2>4. SubSeq(b, 1, p[1]) \o SubSeq(b, p[2] + 1, n) \in Seq(B)
    BY <2>3, ConcatProperties
  <2>5. d.bytes = SubSeq(b, 1, p[1]) \o SubSeq(b, p[2] + 1, n)
    BY <2>1 DEF Damage
  <2> QED  BY <2>4, <2>5
<1> QED  BY <1>2, <1>3, <1>4, <1>5 DEF Damages

\* Every turn so far, and the bytes it went over.
TileInv ==
    /\ bytes \in Seq(0..255)
    /\ offset \in 0..End
    /\ IsSeq(spans)
    /\ \A i \in DOMAIN spans : spans[i].from \in Nat /\ spans[i].to \in Nat
    /\ SpansTile
    /\ GapsSkipNoFrame

LEMMA InitTiles == Init => TileInv
<1> SUFFICES ASSUME Init PROVE TileInv
  OBVIOUS
<1>1. PICK log \in Logs : \E d \in Damages(WriteSession(log).bytes) : bytes = d.bytes
  BY DEF Init
<1>2. bytes \in Seq(0..255)
  BY <1>1, WriterAssumption, DamageIsBytes
<1>3. offset = 0 /\ spans = <<>>
  BY DEF Init
<1> QED
  BY <1>2, <1>3 DEF TileInv, IsSeq, SpansTile, GapsSkipNoFrame, Gaps, End

\* A turn over bytes of its own, and over no marker if it is a gap.
LEMMA SpanTiles ==
    ASSUME TileInv, NEW kind, NEW to, to \in Nat, offset < to, to <= End,
           kind = "gap" => \A o \in (offset + 1)..(to - 1) : At(o) \notin Markers,
           offset' = to, spans' = Span(kind, to), bytes' = bytes
    PROVE  TileInv'
<1> DEFINE x == [kind |-> kind, from |-> offset, to |-> to]
           n == Len(spans)
<1>1. /\ IsSeq(spans') /\ n \in Nat /\ DOMAIN spans = 1..n /\ Len(spans') = n + 1
      /\ DOMAIN spans' = 1..(n + 1)
      /\ \A i \in 1..n : spans'[i] = spans[i]
      /\ spans'[n + 1] = x
  BY AppendIsSeq DEF TileInv, Span
<1>2. (spans = <<>> <=> n = 0) /\ spans' # <<>>
  BY <1>1 DEF TileInv, IsSeq
<1>3. End' = End /\ End \in Nat /\ offset \in Nat /\ \A o : At(o)' = At(o)
  BY DEF End, At, TileInv
<1>4. \A i \in DOMAIN spans' : spans'[i].from \in Nat /\ spans'[i].to \in Nat
  <2> TAKE i \in DOMAIN spans'
  <2>1. i \in 1..n \/ i = n + 1
    BY <1>1
  <2> QED  BY <1>1, <1>3, <2>1 DEF TileInv
<1>5. SpansTile'
  <2>1. \A i \in 1..(n + 1) :
            /\ spans'[i].from = (IF i = 1 THEN 0 ELSE spans'[i - 1].to)
            /\ spans'[i].from < spans'[i].to
    <3> TAKE i \in 1..(n + 1)
    <3>1. CASE i \in 1..n
      <4>1. i # 1 => i - 1 \in 1..n
        BY <1>1, <3>1
      <4> QED  BY <1>1, <3>1, <4>1 DEF TileInv, SpansTile
    <3>2. CASE i = n + 1
      <4>1. CASE n = 0
        BY <1>1, <1>2, <3>2, <4>1 DEF TileInv, SpansTile
      <4>2. CASE n # 0
        <5>1. offset = spans[n].to
          BY <1>2, <4>2 DEF TileInv, SpansTile, Last
        <5>2. i # 1 /\ i - 1 = n /\ n \in 1..n
          BY <1>1, <3>2, <4>2
        <5> QED  BY <1>1, <3>2, <5>1, <5>2
      <4> QED  BY <4>1, <4>2
    <3> QED  BY <1>1, <3>1, <3>2
  <2>2. offset' = Last(spans').to
    BY <1>1 DEF Last
  <2> QED  BY <1>1, <1>2, <1>3, <2>1, <2>2 DEF SpansTile, Last
<1>6. GapsSkipNoFrame'
  <2>1. ASSUME NEW i \in 1..(n + 1), spans'[i].kind = "gap",
               NEW o \in (spans'[i].from + 1)..(spans'[i].to - 1)
        PROVE  At(o) \notin Markers
    <3>1. CASE i \in 1..n
      <4>1. i \in Gaps /\ o \in (spans[i].from + 1)..(spans[i].to - 1)
        BY <1>1, <2>1, <3>1 DEF Gaps
      <4> QED  BY <4>1 DEF TileInv, GapsSkipNoFrame
    <3>2. CASE i = n + 1
      BY <1>1, <2>1, <3>2
    <3> QED  BY <1>1, <3>1, <3>2
  <2> QED  BY <1>1, <1>3, <2>1 DEF GapsSkipNoFrame, Gaps
<1>7. bytes' \in Seq(0..255) /\ offset' \in 0..End'
  BY <1>3 DEF TileInv
<1> QED  BY <1>1, <1>4, <1>5, <1>6, <1>7 DEF TileInv

-----------------------------------------------------------------------------
(* Where a read leaves the reader.                                         *)

\* Ahead of where it began, or at the end of the session.
Leaves(r, o) == r.next \in Nat /\ r.next >= o /\ r.next <= End

LEMMA ReadVBLeaves ==
    ASSUME bytes \in Seq(0..255), NEW o \in Nat, o <= End
    PROVE  Leaves(ReadVB(o), o)
<1> DEFINE X == Word \div 128^(VBBytes - 1)
           TooMuch(k) == k = VBBytes /\ At(o + k - 1) >= X
           K == {k \in 1..VBBytes : o + k > End \/ TooMuch(k) \/ At(o + k - 1) < 128}
           n == Min(K)
<1>1. VBBytes \in Nat \ {0} /\ X \in 0..127 /\ End \in Nat
  BY DecoderAssumption DEF End
<1>6. \A j \in 1..Len(bytes) : bytes[j] \in 0..255
  BY EachIsMember
<1>2. VBBytes \in K
  <2>1. CASE o + VBBytes > End
    BY <1>1, <2>1
  <2>2. CASE ~(o + VBBytes > End)
    <3>1. o + VBBytes \in 1..Len(bytes)
      BY <1>1, <2>2 DEF End
    <3>2. At(o + VBBytes - 1) \in 0..255
      <4>1. At(o + VBBytes - 1) = bytes[o + VBBytes]
        <5>1. o + VBBytes - 1 + 1 = o + VBBytes
          BY <1>1
        <5> QED  BY <5>1 DEF At
      <4>2. bytes[o + VBBytes] \in 0..255
        <5> DEFINE j == o + VBBytes
        <5>1. j \in 1..Len(bytes)
          BY <3>1
        <5> HIDE DEF j
        <5>2. bytes[j] \in 0..255
          BY <1>6, <5>1
        <5> QED  BY <5>2 DEF j
      <4> QED  BY <4>1, <4>2
    <3>3. At(o + VBBytes - 1) >= X \/ At(o + VBBytes - 1) < 128
      <4> DEFINE a == At(o + VBBytes - 1)
      <4>1. a \in 0..255 /\ X \in 0..127
        BY <1>1, <3>2
      <4> HIDE DEF a, X
      <4>2. a >= X \/ a < 128
        BY <4>1
      <4> QED  BY <4>2 DEF a
    <3> QED  BY <1>1, <3>3
  <2> QED  BY <2>1, <2>2
<1>3. K \subseteq Nat
  BY <1>1
<1>4. n \in 1..VBBytes
  BY <1>2, <1>3, MinOfNumbers
<1>5. \E v : ReadVB(o) = IF o + n > End THEN Truncated
                         ELSE IF TooMuch(n) THEN Corrupt(o + n) ELSE Read(v, o + n)
  BY DEF ReadVB
<1> HIDE DEF n, TooMuch
<1> QED  BY <1>1, <1>4, <1>5 DEF Leaves, Truncated, Corrupt, Read

LEMMA ReadEventLeaves ==
    ASSUME bytes \in Seq(0..255), NEW o \in Nat, o <= End
    PROVE  Leaves(ReadEvent(o), o)
<1> DEFINE type == At(o)
           As(r) == [r EXCEPT !.value = type]
           Skip(n) == IF o + 1 + n > End THEN Truncated ELSE Read(type, o + 1 + n)
           wrong == {i \in 1..Len(EndPayload) : o + i < End /\ At(o + i) # EndPayload[i]}
<1>1. End \in Nat /\ Len(EndPayload) \in Nat
  BY DecoderAssumption DEF End
<1>2. \A p \in Nat : p <= End => At(p) \in Nat \/ p = End
  <2> TAKE p \in Nat
  <2>1. \A j \in 1..Len(bytes) : bytes[j] \in 0..255
    BY EachIsMember
  <2>2. p < End => At(p) \in 0..255
    BY <1>1, <2>1 DEF At, End
  <2>3. p < End => At(p) \in Nat
    <3>1. \A x \in 0..255 : x \in Nat
      OBVIOUS
    <3> QED  BY <2>2, <3>1, Zenon
  <2>4. p <= End => p < End \/ p = End
    BY <1>1
  <2> QED  BY <2>3, <2>4
<1>3. \A p \in Nat : o <= p /\ p <= End => Leaves(ReadVB(p), o)
  <2> TAKE p \in Nat
  <2> HAVE o <= p /\ p <= End
  <2>1. Leaves(ReadVB(p), p)
    BY ReadVBLeaves
  <2> QED  BY <1>1, <2>1 DEF Leaves
<1>4. \A p \in Nat : o <= p /\ p <= End => Leaves(As(ReadVB(p)), o)
  <2> TAKE p \in Nat
  <2> HAVE o <= p /\ p <= End
  <2>1. Leaves(ReadVB(p), o)
    BY <1>3
  <2>2. DOMAIN ReadVB(p) = {"code", "value", "next"}
    BY DEF ReadVB, Truncated, Corrupt, Read
  <2>3. As(ReadVB(p)).next = ReadVB(p).next
    BY <2>2
  <2> QED  BY <2>1, <2>3 DEF Leaves
<1>5. \A n \in Nat : Leaves(Skip(n), o)
  BY <1>1 DEF Leaves, Truncated, Read
<1>6. Leaves(Truncated, o)
  BY <1>1 DEF Leaves, Truncated
<1>7. o < End => Leaves(Corrupt(o + 1), o)
  BY <1>1 DEF Leaves, Corrupt
<1>10. wrong \subseteq Nat /\ \A i \in wrong : o + i < End
  BY <1>1
<1>11. ReadEvent(o) =
          CASE o >= End -> Truncated
            [] o < End /\ type \in OneInteger -> As(ReadVB(o + 1))
            [] o < End /\ type \in TwoIntegers ->
                  LET first == ReadVB(o + 1)
                  IN IF first.code = "ok" THEN As(ReadVB(first.next)) ELSE first
            [] o < End /\ type \in Custom ->
                  IF o + 1 >= End THEN Truncated ELSE Skip(1 + At(o + 1))
            [] o < End /\ type = Adjustment ->
                  IF o + 1 >= End THEN Truncated
                  ELSE IF At(o + 1) < 128 THEN As(ReadVB(o + 2))
                  ELSE IF o + 6 > End THEN [Truncated EXCEPT !.next = o + 2]
                  ELSE Read(type, o + 6)
            [] o < End /\ type = LogEnd ->
                  IF wrong # {} THEN Corrupt(o + Min(wrong) + 1) ELSE Skip(Len(EndPayload))
            [] OTHER -> Corrupt(o + 1)
  BY DEF ReadEvent
<1>12. /\ \A t \in OneInteger : t \notin TwoIntegers \cup Custom \cup {Adjustment, LogEnd}
       /\ \A t \in TwoIntegers : t \notin Custom \cup {Adjustment, LogEnd}
       /\ \A t \in Custom : t \notin {Adjustment, LogEnd}
       /\ Adjustment # LogEnd
  BY DEF OneInteger, StateEvents, TwoIntegers, Custom, SyncBeep, Adjustment, Resume, Disarm,
         FlightMode, GovernorState, CustomData, CustomString, LogEnd
<1> HIDE DEF As, Skip, wrong, type
<1>8. CASE o >= End
  <2>1. ReadEvent(o) = Truncated
    <3>1. ~(o < End)
      BY <1>1, <1>8
    <3> QED  BY <1>8, <1>11, <3>1
  <2> QED  BY <1>6, <2>1
<1>9. CASE o < End
  <2>0. ~(o >= End)
    BY <1>1, <1>9
  <2>1. CASE type \in OneInteger
    <3>1. ReadEvent(o) = As(ReadVB(o + 1))
      BY <1>9, <1>11, <2>0, <2>1, <1>12
    <3> QED  BY <1>1, <1>4, <1>9, <3>1
  <2>2. CASE type \in TwoIntegers
    <3>1. ReadEvent(o) = IF ReadVB(o + 1).code = "ok" THEN As(ReadVB(ReadVB(o + 1).next))
                         ELSE ReadVB(o + 1)
      BY <1>9, <1>11, <2>0, <2>2, <1>12
    <3>2. Leaves(ReadVB(o + 1), o)
      BY <1>1, <1>3, <1>9
    <3>3. Leaves(As(ReadVB(ReadVB(o + 1).next)), o)
      BY <1>4, <3>2 DEF Leaves
    <3> QED  BY <3>1, <3>2, <3>3
  <2>3. CASE type \in Custom
    <3>1. ReadEvent(o) = IF o + 1 >= End THEN Truncated ELSE Skip(1 + At(o + 1))
      BY <1>9, <1>11, <2>0, <2>3, <1>12
    <3>2. CASE o + 1 >= End
      BY <1>6, <3>1, <3>2
    <3>3. CASE ~(o + 1 >= End)
      <4>1. 1 + At(o + 1) \in Nat
        <5>1. o + 1 \in Nat /\ o + 1 < End
          BY <1>1, <3>3
        <5> QED  BY <1>1, <1>2, <5>1
      <4> QED  BY <1>5, <3>1, <3>3, <4>1
    <3> QED  BY <3>2, <3>3
  <2>4. CASE type = Adjustment
    <3>1. ReadEvent(o) = IF o + 1 >= End THEN Truncated
                         ELSE IF At(o + 1) < 128 THEN As(ReadVB(o + 2))
                         ELSE IF o + 6 > End THEN [Truncated EXCEPT !.next = o + 2]
                         ELSE Read(type, o + 6)
      BY <1>9, <1>11, <2>0, <2>4, <1>12
    <3>2. CASE o + 1 >= End
      BY <1>6, <3>1, <3>2
    <3>3. CASE ~(o + 1 >= End)
      <4>1. o + 2 \in Nat /\ o <= o + 2 /\ o + 2 <= End
        BY <1>1, <3>3
      <4>2. Leaves(As(ReadVB(o + 2)), o)
        BY <1>4, <4>1
      <4>3. Leaves([Truncated EXCEPT !.next = o + 2], o)
        BY <4>1 DEF Leaves, Truncated
      <4>4. ~(o + 6 > End) => Leaves(Read(type, o + 6), o)
        BY <1>1 DEF Leaves, Read
      <4> QED  BY <3>1, <3>3, <4>2, <4>3, <4>4
    <3> QED  BY <3>2, <3>3
  <2>5. CASE type = LogEnd
    <3>1. ReadEvent(o) = IF wrong # {} THEN Corrupt(o + Min(wrong) + 1) ELSE Skip(Len(EndPayload))
      BY <1>9, <1>11, <2>0, <2>5, <1>12
    <3>2. CASE wrong # {}
      <4>1. Min(wrong) \in wrong
        BY <1>10, <3>2, MinOfNumbers
      <4>2. PICK i \in Nat : i = Min(wrong) /\ o + i < End
        BY <1>10, <4>1
      <4>3. Leaves(Corrupt(o + i + 1), o)
        BY <1>1, <4>2 DEF Leaves, Corrupt
      <4> QED  BY <3>1, <3>2, <4>2, <4>3
    <3>3. CASE wrong = {}
      BY <1>1, <1>5, <3>1, <3>3
    <3> QED  BY <3>2, <3>3
  <2>6. CASE type \notin OneInteger \cup TwoIntegers \cup Custom \cup {Adjustment, LogEnd}
    <3>1. ReadEvent(o) = Corrupt(o + 1)
      BY <1>9, <1>11, <2>0, <2>6, <1>12
    <3> QED  BY <1>7, <1>9, <3>1
  <2> QED  BY <2>1, <2>2, <2>3, <2>4, <2>5, <2>6
<1> QED  BY <1>1, <1>8, <1>9

\* Whatever it finds, a turn moves the reader on and leaves it in the session.
LEMMA FrameLeaves ==
    ASSUME bytes \in Seq(0..255), offset \in Nat, offset < End
    PROVE  Leaves(Frame, offset + 1)
<1> DEFINE k == KindAt(offset)
           raw == ReadVB(offset + 1)
           Predicted(p, residual) ==
               IF raw.code # "ok" THEN raw ELSE [raw EXCEPT !.value = Unsigned(residual + p)]
<1>1. End \in Nat /\ offset + 1 \in Nat /\ offset + 1 <= End
  BY DEF End
<1>2. Leaves(raw, offset + 1) /\ DOMAIN raw = {"code", "value", "next"}
  <2>1. Leaves(raw, offset + 1)
    BY <1>1, ReadVBLeaves
  <2>2. DOMAIN raw = {"code", "value", "next"}
    BY DEF ReadVB, Truncated, Corrupt, Read
  <2> QED  BY <2>1, <2>2
<1>3. \A p, residual : /\ Leaves(Predicted(p, residual), offset + 1)
                       /\ DOMAIN Predicted(p, residual) = {"code", "value", "next"}
  <2> HIDE DEF raw
  <2> QED  BY <1>2 DEF Leaves
<1>4. Leaves(Corrupt(offset + 1), offset + 1)
  BY <1>1 DEF Leaves, Corrupt
<1>5. Leaves(ReadEvent(offset + 1), offset + 1)
  BY <1>1, ReadEventLeaves
<1>6. k \in {"I", "P", "S", "G", "H", "E", "none"}
  <2>1. At(offset) \in Markers => \E m \in DOMAIN MarkerOf : MarkerOf[m] = At(offset)
    BY DEF Markers
  <2>2. DOMAIN MarkerOf = {"I", "P", "S", "G", "H", "E"}
    BY DEF MarkerOf
  <2> QED  BY <2>1, <2>2 DEF KindAt
<1>7. Frame = CASE Undecodable(k) -> Corrupt(offset + 1)
                [] ~Undecodable(k) /\ k \in {"I", "S", "H"} -> Predicted(0, raw.value)
                [] ~Undecodable(k) /\ k = "G" -> Predicted(history.last, raw.value)
                [] ~Undecodable(k) /\ k = "P" ->
                      LET r == Predicted(StraightLine(history), ZigZagDecode(raw.value))
                      IN IF r.code = "ok" /\ ~IsPlausible(r.value)
                         THEN [r EXCEPT !.code = "implausible"] ELSE r
                [] k = "E" -> ReadEvent(offset + 1)
  BY DEF Frame
<1>8. k = "E" => ~Undecodable(k)
  BY DEF Undecodable, Tables
<1>9. k = "none" => Undecodable(k)
  BY DEF Undecodable
<1> HIDE DEF k, raw, Predicted
<1>10. CASE Undecodable(k)
  BY <1>4, <1>7, <1>8, <1>10
<1>11. CASE ~Undecodable(k) /\ k \in {"I", "S", "H"}
  BY <1>3, <1>7, <1>11
<1>12. CASE ~Undecodable(k) /\ k = "G"
  BY <1>3, <1>7, <1>12
<1>13. CASE ~Undecodable(k) /\ k = "P"
  <2> DEFINE r == Predicted(StraightLine(history), ZigZagDecode(raw.value))
  <2>1. Leaves(r, offset + 1) /\ DOMAIN r = {"code", "value", "next"}
    BY <1>3
  <2>2. Frame = IF r.code = "ok" /\ ~IsPlausible(r.value)
                THEN [r EXCEPT !.code = "implausible"] ELSE r
    BY <1>7, <1>13
  <2> HIDE DEF r
  <2>3. [r EXCEPT !.code = "implausible"].next = r.next
    BY <2>1
  <2> QED  BY <2>1, <2>2, <2>3 DEF Leaves
<1>14. CASE k = "E"
  BY <1>5, <1>7, <1>8, <1>14
<1> QED  BY <1>6, <1>9, <1>10, <1>11, <1>12, <1>13, <1>14

\* What resync finds: the end, or a byte that may begin a frame, and none before.
LEMMA ResyncFinds ==
    ASSUME NEW next, bytes \in Seq(0..255), offset \in Nat, offset < End
    PROVE  /\ Resync(next) \in Nat /\ offset < Resync(next) /\ Resync(next) <= End
           /\ \A o \in (offset + 1)..(Resync(next) - 1) : At(o) \notin Markers
<1> DEFINE S == {o \in (offset + 1)..End : o = End \/ At(o) \in Markers}
<1>1. End \in Nat /\ End \in S /\ S \subseteq Nat
  BY DEF End
<1>2. Min(S) \in S /\ \A o \in S : Min(S) <= o
  BY <1>1, MinOfNumbers
<1>3. Resync(next) = Min(S)
  BY DEF Resync
<1> HIDE DEF S
<1>4. PICK m : m = Min(S)
  OBVIOUS
<1>5. m \in (offset + 1)..End /\ \A o \in S : m <= o
  BY <1>2, <1>4 DEF S
<1>6. \A o \in (offset + 1)..(m - 1) : At(o) \notin Markers
  <2> TAKE o \in (offset + 1)..(m - 1)
  <2>1. ~(m <= o) /\ o \in (offset + 1)..End
    BY <1>1, <1>5
  <2> QED  BY <1>5, <2>1 DEF S
<1> QED  BY <1>1, <1>3, <1>4, <1>5, <1>6

LEMMA AcceptTiles ==
    ASSUME TileInv, NEW k, k # "gap", Accept(k)
    PROVE  TileInv'
<1>1. offset \in Nat /\ offset < End
  BY DEF TileInv, Accept, Loop
<1>2. Leaves(Frame, offset + 1)
  BY <1>1, FrameLeaves DEF TileInv
<1>3. PICK to : to = Frame.next
  OBVIOUS
<1>4. to \in Nat /\ offset < to /\ to <= End
  BY <1>1, <1>2, <1>3 DEF Leaves
<1>5. offset' = to /\ spans' = Span(k, to) /\ bytes' = bytes
  BY <1>3 DEF Accept
<1> QED  BY <1>4, <1>5, SpanTiles

LEMMA DamagedTiles ==
    ASSUME TileInv, Damaged
    PROVE  TileInv'
<1> DEFINE f == Frame
           erased == f.code # "truncated" /\ CutByErasedTail(f.next)
           ended == erased \/ f.code = "truncated"
           stop == IF erased THEN End ELSE f.next
           full == Len(out.errors) >= lim.errors
<1>1. offset \in Nat /\ offset < End /\ End \in Nat
  BY DEF TileInv, Damaged, Loop, End
<1>2. Leaves(f, offset + 1)
  BY <1>1, FrameLeaves DEF TileInv
<1>3. stop \in Nat /\ offset < stop /\ stop <= End
  BY <1>1, <1>2 DEF Leaves
<1>4. /\ offset' = IF full \/ ended THEN stop ELSE Resync(f.next)
      /\ spans' = Span(IF full \/ ended THEN "stop" ELSE "gap", offset')
      /\ bytes' = bytes
  BY DEF Damaged
<1> HIDE DEF f, ended, stop, full
<1>5. CASE full \/ ended
  BY <1>3, <1>4, <1>5, SpanTiles
<1>6. CASE ~(full \/ ended)
  <2>1. PICK to : to = Resync(f.next)
    OBVIOUS
  <2>2. /\ to \in Nat /\ offset < to /\ to <= End
        /\ \A o \in (offset + 1)..(to - 1) : At(o) \notin Markers
    BY <1>1, <2>1, ResyncFinds DEF TileInv
  <2>3. offset' = to /\ spans' = Span("gap", to) /\ bytes' = bytes
    BY <1>4, <1>6, <2>1
  <2> QED  BY <2>2, <2>3, SpanTiles
<1> QED  BY <1>5, <1>6

LEMMA StepTiles == TileInv /\ [Next]_vars => TileInv'
<1> SUFFICES ASSUME TileInv, [Next]_vars PROVE TileInv'
  OBVIOUS
<1>1. CASE UNCHANGED <<bytes, offset, spans>>
  BY <1>1 DEF TileInv, SpansTile, GapsSkipNoFrame, Gaps, End, At
<1>2. CASE StopAtLimit
  <2>1. PICK to : to = offset + 1
    OBVIOUS
  <2>2. to \in Nat /\ offset < to /\ to <= End
    BY <1>2, <2>1 DEF StopAtLimit, Loop, TileInv, End
  <2>3. offset' = to /\ spans' = Span("stop", to) /\ bytes' = bytes
    BY <1>2, <2>1 DEF StopAtLimit
  <2> QED  BY <2>2, <2>3, SpanTiles
<1>3. CASE Intra \/ Inter \/ Auxiliary \/ Gps \/ Event
  <2>1. PICK k : k # "gap" /\ Accept(k)
    BY <1>3 DEF Intra, Inter, Auxiliary, Gps, Event
  <2> QED  BY <2>1, AcceptTiles
<1>4. CASE Damaged
  BY <1>4, DamagedTiles
<1>5. CASE EndOfSession \/ TooManyRecords \/ UNCHANGED vars
  BY <1>1, <1>5 DEF EndOfSession, TooManyRecords, vars
<1> QED  BY <1>2, <1>3, <1>4, <1>5 DEF Next

LEMMA TileInvIsInductive == Spec => []TileInv
  BY InitTiles, StepTiles, PTL DEF Spec

\* For every log and every damage: each byte up to the reader is in exactly one
\* frame, gap or stop, each turn of the loop goes over at least one, so that it ends,
\* and the reader never leaves the session (the frame loop of frames.mjs).
THEOREM EachByteIsReadOnce == Spec => []SpansTile
<1>1. TileInv => SpansTile
  BY DEF TileInv
<1> QED  BY <1>1, TileInvIsInductive, PTL

\* For every log and every damage: what is skipped after a frame that did not read
\* holds no byte that could have begun a frame (resync).
THEOREM NoFrameIsSkipped == Spec => []GapsSkipNoFrame
<1>1. TileInv => GapsSkipNoFrame
  BY DEF TileInv
<1> QED  BY <1>1, TileInvIsInductive, PTL

=============================================================================
