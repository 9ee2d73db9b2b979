----------------------------- MODULE StopEvidence -----------------------------
(***************************************************************************)
(* From the samples of a flight to what one axis is advised to change: the *)
(* stop detector (src/src/analysis/records.mjs, detectStopEvents), the     *)
(* evidence of the two directions (pid-evidence.mjs), the shape of a stop  *)
(* (recommendations.mjs), the gates between evidence and advice            *)
(* (advisor/recommendation-gates.mjs) and the findings of an axis.         *)
(*                                                                         *)
(* The detector reads one sample at a time and is run once per setting of  *)
(* the sweep, the first of which is the default.  Time is in samples'      *)
(* ticks, rates in units of about ten degrees a second; a root mean square *)
(* is the whole part of 24 times ten times it, so that means over one to   *)
(* four stops stay whole.                                                  *)
(***************************************************************************)
EXTENDS Integers, Sequences, FiniteSets, FiniteSetsExt, SequencesExt, Once

CONSTANTS
    Flights,      \* records, what the airframe gate said, a tone's match, the noise floor
    NaN,          \* a value that is not a number
    Command, Stop,          \* COMMAND_THRESHOLD_DPS, STOP_THRESHOLD_DPS
    MinHold,                \* MINIMUM_COMMAND_HOLD_US
    PlateauMax,             \* RELEASE_PLATEAU_MAX_US
    TransitMax,             \* the band over MINIMUM_RELEASE_RATE_DPS_PER_SECOND
    Rebound,                \* RELEASE_REBOUND_DPS
    Slow,                   \* SLOW_WINDOW_US: its end is also the quiet window
    Spacing, MaxEvents,     \* MINIMUM_EVENT_SPACING_US, MAXIMUM_EVENTS
    Settings,               \* the sweep: plateau in twentieths, tracking and fast windows
    Judgements,             \* SHAPE_SWEEP: decay, offset and plateau shares, per cent
    Judgement,              \* SHAPE_DEFAULTS
    MinCrossings, RingingFloor, MinFlat,   \* what ringing and a flat command need
    MinStops,               \* minimumStopsPerDirection
    Warn, HeadLimit,        \* the asymmetry and the head speed limits, per cent
    MaxGap,                 \* maximumHoldSampleGapUs
    ShareFloor, ShareCap    \* AUTHORITY_LIMITS: of the commanded rate, per cent

ASSUME StopConstants ==
    /\ Command \in Nat /\ Stop \in Nat /\ Stop < Command
    /\ MinStops \in Nat \ {0} /\ Len(Settings) > 0 /\ Judgement \in Judgements

VARIABLES
    flight,    \* what was flown
    pass,      \* the setting of the sweep in use
    at,        \* the sample to be read next
    mode,      \* IDLE, COMMANDING, RELEASING
    cmd,       \* the command in progress
    opened,    \* counters.started
    refused,   \* the reasons of refusals, in order
    events,    \* the stops found in this pass
    measured,  \* what each pass of the sweep gave
    advice     \* what the axis is told; <<>> until then

vars == <<flight, pass, at, mode, cmd, opened, refused, events, measured, advice>>

Directions == {"positive", "negative"}
rec == flight.records
Time(i) == rec[i].t
IsNumber(x) == x # NaN
Abs(x) == IF x < 0 THEN -x ELSE x
Sign(x) == IF x >= 0 THEN 1 ELSE -1
Set(i) == rec[i].set
setting == Settings[pass]

\* firstAtOrAfter and lastAtOrBefore, over the samples' times.
FirstAtOrAfter(t) == Min({i \in DOMAIN rec : Time(i) >= t} \cup {Len(rec) + 1})
LastAtOrBefore(t) == Max({i \in DOMAIN rec : Time(i) <= t} \cup {0})

----------------------------------------------------------------------------
(* Arithmetic. *)

Root(n) == CHOOSE r \in 0 .. n : r * r <= n /\ (r + 1) * (r + 1) > n
SumOf(values) == FoldLeft(+, 0, values)
\* accumulate, rms: 240 times the root mean square.
Rms(values) == 24 * Root((100 * SumOf([i \in DOMAIN values |-> values[i] * values[i]]))
                            \div Len(values))
\* mean over the values that are numbers; NaN for none.
Mean(values) ==
    With(SelectSeq(values, IsNumber),
         LAMBDA v : IF v = <<>> THEN NaN ELSE SumOf(v) \div Len(v))
Deviation(values) ==
    LET n == Len(values)
        s == SumOf(values)
        q == SumOf([i \in DOMAIN values |-> values[i] * values[i]])
    IN  24 * Root((100 * (n * q - s * s)) \div (n * n))
\* The value with k before it in order, and twice the median.
Ranked(values, k) ==
    CHOOSE v \in Range(values) :
        /\ Cardinality({i \in DOMAIN values : values[i] < v}) < k
        /\ Cardinality({i \in DOMAIN values : values[i] <= v}) >= k
Median2(values) == Ranked(values, (Len(values) + 1) \div 2) + Ranked(values, (Len(values) + 2) \div 2)
SpanOver(values, percent) ==
    200 * (Max(Range(values)) - Min(Range(values))) > percent * Abs(Median2(values))

----------------------------------------------------------------------------
(* The detector: one sample of one pass. *)

NoCommand == [start |-> 0, sign |-> 0, peak |-> 0, above |-> 0, departure |-> 0]

\* openCommand
Opened(i) == [start |-> i, sign |-> Sign(Set(i)), peak |-> Abs(Set(i)),
              above |-> i, departure |-> i]
\* A sample of the same command at or above the threshold.
Held(i) ==
    LET peak == Max({cmd.peak, Abs(Set(i))})
    IN  [cmd EXCEPT !.peak = peak, !.above = i,
            !.departure = IF 20 * Abs(Set(i)) >= setting.plateau * peak
                          THEN i ELSE cmd.departure]

Commanded == at <= Len(rec) /\ IsNumber(Set(at)) /\ Abs(Set(at)) >= Command
Idling == at <= Len(rec) /\ IsNumber(Set(at)) /\ mode = "idle"
\* The command is on its way down, or was and may be up again.
Falling == /\ at <= Len(rec) /\ IsNumber(Set(at))
           /\ mode = "releasing" \/ (mode = "commanding" /\ Abs(Set(at)) < Command)
Reversed == Sign(Set(at)) # cmd.sign /\ Abs(Set(at)) > Stop
\* Faulty variant: the hold counts as part of the release.
TooSlowFromStart == Time(at) - Time(cmd.start) > TransitMax
TooSlow == Time(at) - Time(cmd.above) > TransitMax

Read(newMode, newCmd) ==
    /\ at' = at + 1 /\ mode' = newMode /\ cmd' = newCmd
    /\ UNCHANGED <<flight, pass, events, measured, advice>>
Refuse(reason) == refused' = Append(refused, reason)

\* A gap in the log ends whatever was in progress.
Missing == /\ at <= Len(rec) /\ ~IsNumber(Set(at))
           /\ Read("idle", cmd) /\ UNCHANGED <<opened, refused>>
Rest == Idling /\ ~Commanded /\ Read("idle", cmd) /\ UNCHANGED <<opened, refused>>
Open == Idling /\ Commanded /\ Read("commanding", Opened(at))
        /\ opened' = opened + 1 /\ UNCHANGED refused
\* A command the other way begins where this one was never released.
Turn == /\ mode = "commanding" /\ Commanded /\ Sign(Set(at)) # cmd.sign
        /\ Read("commanding", Opened(at)) /\ opened' = opened + 1 /\ UNCHANGED refused
Hold == /\ mode = "commanding" /\ Commanded /\ Sign(Set(at)) = cmd.sign
        /\ Read("commanding", Held(at)) /\ UNCHANGED <<opened, refused>>

ReverseRelease ==
    /\ Falling /\ Reversed /\ Refuse("RELEASE_REVERSED")
    /\ IF Commanded THEN Read("commanding", Opened(at)) /\ opened' = opened + 1
                    ELSE Read("idle", cmd) /\ UNCHANGED opened
Linger ==
    /\ Falling /\ ~Reversed /\ TooSlow
    /\ Refuse("RELEASE_TOO_SLOW") /\ Read("idle", cmd) /\ UNCHANGED opened
Recommand ==
    /\ Falling /\ ~Reversed /\ ~TooSlow /\ Commanded
    /\ Read("commanding", Held(at)) /\ UNCHANGED <<opened, refused>>
Cross ==
    /\ Falling /\ ~Reversed /\ ~TooSlow /\ ~Commanded /\ Abs(Set(at)) > Stop
    /\ Read("releasing", cmd) /\ UNCHANGED <<opened, refused>>

AtStop == Falling /\ ~Reversed /\ ~TooSlow /\ Abs(Set(at)) <= Stop

\* The release, sample by sample from the last one above the threshold.
Rebounds == \E k \in cmd.above + 1 .. at : Abs(Set(k)) - Abs(Set(k - 1)) > Rebound
\* Lingering at one value: equal neighbours, up to the sample before the next.
Dwells == \E j, k \in cmd.above .. at :
            /\ j <= k /\ \A m \in j .. k : Set(m) = Set(j)
            /\ Time(k) - Time(j) > PlateauMax
Disturbed == \E k \in at + 1 .. LastAtOrBefore(Time(at) + Slow[2]) :
                ~IsNumber(Set(k)) \/ Abs(Set(k)) > Stop

TrackingFrom == Max({cmd.start, FirstAtOrAfter(Time(cmd.departure) - setting.tracking)})
Windows(w) == <<FirstAtOrAfter(Time(at) + w[1]), LastAtOrBefore(Time(at) + w[2])>>
Empty(w) == Windows(w)[2] - Windows(w)[1] < 1

\* Why this stop is not one; "" when it is.
Refusal ==
    IF Time(cmd.above) - Time(cmd.start) < MinHold THEN "HOLD_TOO_SHORT"
    ELSE IF Rebounds THEN "RELEASE_NOT_MONOTONE"
    ELSE IF Dwells THEN "RELEASE_DWELL"
    ELSE IF Time(at) + Slow[2] > Time(Len(rec)) THEN "RESPONSE_WINDOW_PAST_END_OF_LOG"
    ELSE IF Disturbed THEN "COMMANDED_AGAIN_INSIDE_RESPONSE_WINDOW"
    ELSE IF events # <<>> /\ Time(at) - Time(Last(events).stop) < Spacing
         THEN "TOO_SOON_AFTER_PREVIOUS_STOP"
    ELSE IF Len(events) >= MaxEvents THEN "EVENT_CAP_REACHED"
    ELSE IF cmd.departure - TrackingFrom < 1 \/ Empty(setting.fast) \/ Empty(Slow)
         THEN "MEASUREMENT_WINDOW_EMPTY"
    ELSE ""

Values(from, to, F(_)) == [k \in 1 .. to - from + 1 |-> F(rec[from + k - 1])]

\* The event that is published: where it is, and its measures.
Event ==
    [stop |-> at, start |-> cmd.start, above |-> cmd.above, departure |-> cmd.departure,
     from |-> TrackingFrom, direction |-> IF cmd.sign > 0 THEN "positive" ELSE "negative",
     duration |-> Time(cmd.above) - Time(cmd.start), transit |-> Time(at) - Time(cmd.above),
     amplitude |-> Abs(Mean(Values(TrackingFrom, cmd.departure, LAMBDA r : 240 * r.set))),
     tracking |-> Rms(Values(TrackingFrom, cmd.departure, LAMBDA r : r.set - r.gyro)),
     ringing |-> Rms(Values(Windows(setting.fast)[1], Windows(setting.fast)[2], LAMBDA r : r.gyro)),
     head |-> Mean(Values(TrackingFrom, cmd.departure, LAMBDA r : r.head))]

Accept == AtStop /\ Refusal = "" /\ events' = Append(events, Event)
          /\ at' = at + 1 /\ mode' = "idle"
          /\ UNCHANGED <<flight, pass, cmd, opened, refused, measured, advice>>
Reject == AtStop /\ Refusal # "" /\ Refuse(Refusal)
          /\ Read("idle", cmd) /\ UNCHANGED opened

----------------------------------------------------------------------------
(* The shape of a stop and of the tracking before it. *)

ShapeWindow(e, s) == <<FirstAtOrAfter(Time(e.stop) + s.fast[1]), LastAtOrBefore(Time(e.stop) + s.fast[2])>>
InFrame(e, x) == IF e.direction = "negative" THEN -x ELSE x

\* measureStopShape; crossings count zero with the positive rates.
StopShape(e, s) ==
    With(Values(ShapeWindow(e, s)[1], ShapeWindow(e, s)[2], LAMBDA r : r.gyro), LAMBDA v :
    IF Len(v) < 4 THEN <<>>
    ELSE LET half == Len(v) \div 2
             frame == {InFrame(e, v[k]) : k \in DOMAIN v}
         IN  [same |-> Max(frame \cup {0}), over |-> Max({-x : x \in frame} \cup {0}),
              crossings |-> Cardinality({k \in 2 .. Len(v) : (v[k - 1] < 0) # (v[k] < 0)}),
              hertz |-> (600 * (Cardinality({k \in 2 .. Len(v) : (v[k - 1] < 0) # (v[k] < 0)})))
                          \div (Time(ShapeWindow(e, s)[2]) - Time(ShapeWindow(e, s)[1])),
              first |-> Rms(SubSeq(v, 1, half)), second |-> Rms(SubSeq(v, half + 1, Len(v))),
              rms |-> Rms(v)])

\* classifyStopShape
Classify(shape, j) ==
    IF shape = <<>> THEN "unknown"
    ELSE IF shape.same - shape.over > Stop THEN "not-stopped"
    ELSE IF /\ shape.first > 0 /\ 100 * shape.second >= j.decay * shape.first
            /\ shape.crossings >= MinCrossings THEN "ringing"
    ELSE IF shape.over > Stop /\ shape.crossings >= 1 THEN "overshoot"
    ELSE "settled"

\* resolvePlateauDeparture: the departure found again from what the event
\* publishes, by the same rule over every sample down to the stop.
ResolvedStart(e) == FirstAtOrAfter(Time(e.stop) - e.transit - e.duration)
ResolvedDeparture(e, s) ==
    Max({k \in ResolvedStart(e) .. e.stop :
           20 * Abs(Set(k)) >= s.plateau * Max({Abs(Set(m)) : m \in ResolvedStart(e) .. k})})

\* measureTrackingShape
TrackingShape(e, s) ==
    LET to == ResolvedDeparture(e, s)
        from == Max({ResolvedStart(e), FirstAtOrAfter(Time(to) - s.tracking)})
        error == Values(from, to, LAMBDA r : r.set - r.gyro)
        command == Values(from, to, LAMBDA r : r.set)
        flat == SelectSeq([k \in DOMAIN error |-> <<error[k], command[k]>>],
                          LAMBDA p : 100 * Abs(2 * p[2] - Median2(command)) <= Abs(Median2(command)))
    IN  IF to - from < 1 THEN <<>>
        ELSE [offset |-> (240 * SumOf(error)) \div Len(error), rms |-> Rms(error),
              plateau |-> IF Len(flat) < MinFlat THEN NaN
                          ELSE Deviation([k \in DOMAIN flat |-> flat[k][1]])]
OffsetShare(tracking) ==
    IF tracking = <<>> \/ tracking.rms = 0 THEN NaN ELSE (100 * Abs(tracking.offset)) \div tracking.rms

\* oscillationSource; "" is no opinion.
OscillationSource(shape, tracking, j) ==
    IF shape = <<>> \/ tracking = <<>> THEN ""
    ELSE IF shape.rms = 0 \/ tracking.plateau = NaN THEN ""
    ELSE IF 100 * tracking.plateau >= j.plateau * shape.rms THEN "hold-and-release" ELSE "release-only"

----------------------------------------------------------------------------
(* One pass of the sweep: the two directions compared. *)

In(d, es) == SelectSeq(es, LAMBDA e : e.direction = d)
\* summarizeDirection, asymmetryRatio, worseDirection; NaN when a direction
\* has no stop.
DirectionMean(d, metric) == With(In(d, events), LAMBDA es : Mean([k \in DOMAIN es |-> es[k][metric]]))
Both(p, n) == IsNumber(p) /\ IsNumber(n)
OverWarn(p, n) == 100 * Abs(p - n) > Warn * Max({Abs(p), Abs(n)})
Worse(p, n) == IF Abs(p) = Abs(n) THEN "equal" ELSE IF Abs(p) > Abs(n) THEN "positive" ELSE "negative"

\* sweepDirectionalConclusion: the outcome of this setting for one metric.
Outcome(metric) ==
    LET p == DirectionMean("positive", metric)
        n == DirectionMean("negative", metric)
    IN  [positive |-> p, negative |-> n,
         worse |-> IF Both(p, n) THEN Worse(p, n) ELSE "",
         over |-> Both(p, n) /\ OverWarn(p, n)]

\* sweepStopShapeConclusion: what this setting saw in one direction.
Shapes(d) ==
    With(In(d, events), LAMBDA es :
    With([k \in DOMAIN es |-> <<StopShape(es[k], setting), TrackingShape(es[k], setting)>>],
         LAMBDA st :
    LET said == {<<k, j>> \in (DOMAIN es) \X Judgements :
                    OscillationSource(st[k][1], st[k][2], j) # ""}
    IN  [count |-> Len(es),
         classes |-> {Classify(st[k][1], j) : k \in DOMAIN es, j \in Judgements},
         sources |-> {OscillationSource(st[x[1]][1], st[x[1]][2], x[2]) : x \in said},
         opinions |-> Cardinality(said),
         evaluations |-> Len(es) * Cardinality(Judgements)]))

\* The pass is over: keep what it gave, and begin the next.
EndPass ==
    /\ at = Len(rec) + 1 /\ pass <= Len(Settings) /\ advice = <<>>
    /\ measured' = Append(measured,
         [events |-> events, refused |-> refused, opened |-> opened,
          tracking |-> Outcome("tracking"), ringing |-> Outcome("ringing"),
          shapes |-> [d \in Directions |-> Shapes(d)]])
    /\ pass' = pass + 1
    /\ at' = IF pass < Len(Settings) THEN 1 ELSE at
    /\ mode' = "idle" /\ cmd' = NoCommand /\ opened' = 0 /\ refused' = <<>> /\ events' = <<>>
    /\ UNCHANGED <<flight, advice>>

----------------------------------------------------------------------------
(* Why a log yielded nothing, and whether it yielded enough. *)

base == measured[1]    \* the default setting
\* diagnose
DiagnosisOutcome ==
    CASE \A i \in DOMAIN rec : ~IsNumber(Set(i)) -> "AXIS_NOT_LOGGED"
      [] base.events # <<>> -> "EVENTS_DETECTED"
      [] /\ base.events = <<>> /\ base.opened = 0
         /\ \E i \in DOMAIN rec : IsNumber(Set(i)) -> "NO_COMMAND_REACHED_THRESHOLD"
      [] OTHER -> "ALL_CANDIDATES_REJECTED"

Captured(d) == Len(In(d, base.events))
Enough == \A d \in Directions : Captured(d) >= MinStops
\* describeStopCapture
CaptureState ==
    CASE DiagnosisOutcome = "AXIS_NOT_LOGGED" -> "unavailable"
      [] DiagnosisOutcome # "AXIS_NOT_LOGGED" /\ Enough -> "captured"
      [] base.events # <<>> /\ ~Enough -> "partial"
      [] DiagnosisOutcome = "ALL_CANDIDATES_REJECTED" -> "rejected"
      [] OTHER -> "absent"

----------------------------------------------------------------------------
(* The gates. *)

If(code, cond) == IF cond THEN {code} ELSE {}

CompletenessCodes ==
    If("CAPTURE_STATE", CaptureState # "captured")
    \cup If("INSUFFICIENT_STOPS_PER_DIRECTION", ~Enough)

\* evaluateAgreementGate: a difference is one only if it is larger than the
\* stops of one direction differ among themselves.
AgreementCodes(metric) ==
    LET p == base[metric].positive
        n == base[metric].negative
        Span(d) == LET v == {In(d, base.events)[k][metric] : k \in 1 .. Captured(d)}
                   IN  Max(v) - Min(v)
        spread == Max({Span(d) : d \in Directions})
        scattered == \A d \in Directions : Captured(d) >= 2
        widest == Max({Abs(p), Abs(n)})
    IN  IF ~Both(p, n) THEN {"ASYMMETRY_NOT_MEASURABLE"}
        ELSE (IF ~OverWarn(p, n) THEN {}
              ELSE IF scattered /\ Abs(Abs(p) - Abs(n)) <= spread
                   THEN {"DIRECTIONS_UNRESOLVED"} ELSE {"DIRECTIONS_DISAGREE"})
             \cup If("STOP_SCATTER_EXCEEDS_ASYMMETRY_LIMIT",
                     scattered /\ widest # 0 /\ 100 * spread > Warn * widest)

\* The samples the head speed gate looks at for one stop.
HeadWindow(e) == {i \in DOMAIN rec : /\ Time(i) >= Time(e.stop) - e.duration
                                     /\ Time(i) <= Time(e.stop) + Slow[2]}
Covers(e, w) ==
    /\ Cardinality(w) >= 2
    /\ Time(Min(w)) - (Time(e.stop) - e.duration) <= MaxGap
    /\ Time(e.stop) + Slow[2] - Time(Max(w)) <= MaxGap
    /\ \A i \in w : i + 1 \in w => Time(i + 1) - Time(i) \in 1 .. MaxGap
Heads(w) == [k \in 1 .. Cardinality(w) |-> rec[Min(w) + k - 1].head]

HeadspeedCodes ==
    LET es == base.events
        Speeds(d) == LET own == In(d, es)
                     IN  SelectSeq([k \in DOMAIN own |-> own[k].head], IsNumber)
        p == Speeds("positive")
        n == Speeds("negative")
        all == p \o n
        whole(e) == /\ Covers(e, HeadWindow(e))
                    /\ \A i \in HeadWindow(e) : IsNumber(rec[i].head) /\ rec[i].head > 0
        incomplete == \/ \E k \in DOMAIN es : es[k].head = NaN \/ es[k].head <= 0
                      \/ p # <<>> /\ n # <<>> /\ \E k \in DOMAIN es : ~whole(es[k])
    IN  If("HEADSPEED_EVIDENCE_INCOMPLETE", incomplete)
        \cup (IF p = <<>> \/ n = <<>> THEN {"HEADSPEED_NOT_MEASURABLE"}
              ELSE If("HEADSPEED_DIFFERS_BETWEEN_DIRECTIONS",
                      100 * Abs(Median2(p) - Median2(n))
                        > HeadLimit * Max({Abs(Median2(p)), Abs(Median2(n))}))
                   \cup If("HEADSPEED_UNSTABLE_ACROSS_EVENTS", SpanOver(all, HeadLimit))
                   \cup If("HEADSPEED_UNSTABLE_WITHIN_EVENT",
                           \E k \in DOMAIN es : /\ whole(es[k])
                                                /\ SpanOver(Heads(HeadWindow(es[k])), HeadLimit)))

\* evaluateStabilityGate: one setting that says otherwise is enough.
StabilityCodes(metric) ==
    LET outcomes == {measured[k][metric] : k \in DOMAIN measured}
        evaluable == {o \in outcomes : o.worse # ""}
    IN  If("SWEEP_INCOMPLETE", evaluable # outcomes)
        \cup If("SWEEP_FLIPS_DIRECTION", Cardinality({o.worse : o \in evaluable}) # 1)
        \cup If("SWEEP_FLIPS_THRESHOLD_VERDICT", Cardinality({o.over : o \in evaluable}) # 1)
        \cup If("SWEEP_LOSES_CAPTURE",
                \E k \in DOMAIN measured, d \in Directions : measured[k].shapes[d].count < MinStops)

\* evaluateGainRecommendationGates
Interlock(metric) ==
    (IF flight.airframe = "permitted" THEN {} ELSE {"AIRFRAME"})
    \cup CompletenessCodes \cup AgreementCodes(metric) \cup HeadspeedCodes \cup StabilityCodes(metric)

----------------------------------------------------------------------------
(* What the axis is told: axisFindings without the holds, shapeFindings. *)

\* The conclusion of the sweep: the same in every setting, under every
\* judgement, in both directions.
\* Faulty variant: only the default setting is asked.
SweptByDefault(d) == base.shapes[d].classes
Swept(d) == UNION {measured[k].shapes[d].classes : k \in DOMAIN measured}
SweptStable(d) == Cardinality(Swept(d)) = 1
                  /\ Cardinality({measured[k].shapes[d].count : k \in DOMAIN measured}) = 1
SweptSource(d) ==
    LET s == UNION {measured[k].shapes[d].sources : k \in DOMAIN measured}
        Total(f) == MapThenSumSet(LAMBDA k : measured[k].shapes[d][f], DOMAIN measured)
    IN  IF Cardinality(s) = 1 /\ 2 * Total("opinions") > Total("evaluations")
        THEN CHOOSE x \in s : TRUE ELSE ""

ShapeConclusion ==
    IF /\ \A d \in Directions : Captured(d) > 0 /\ SweptStable(d)
       /\ Swept("positive") = Swept("negative")
    THEN CHOOSE x \in Swept("positive") : TRUE ELSE "unknown"
Source == IF SweptSource("positive") = SweptSource("negative") THEN SweptSource("positive") ELSE ""

StopShapes(d) == With(In(d, base.events), LAMBDA es : [k \in DOMAIN es |-> StopShape(es[k], Settings[1])])
Trackings(d) == With(In(d, base.events), LAMBDA es : [k \in DOMAIN es |-> TrackingShape(es[k], Settings[1])])
MeanOf(seq, F(_)) == Mean([k \in DOMAIN seq |-> IF seq[k] = <<>> THEN NaN ELSE F(seq[k])])

MeanShare(d)  == MeanOf(Trackings(d), OffsetShare)
MeanOffset(d) == With(In(d, base.events), LAMBDA es :
                   MeanOf(Trackings(d), LAMBDA t : InFrame(es[1], t.offset)))
Amplitude(d)  == With(In(d, base.events), LAMBDA es : Mean([k \in DOMAIN es |-> es[k].amplitude]))
FastEnough == \A d \in Directions :
                 With(MeanOf(StopShapes(d), LAMBDA s : s.hertz),
                      LAMBDA f : IsNumber(f) /\ f >= RingingFloor)
\* separableFromNoiseFloor
Separable(x) == IsNumber(x) /\ (flight.noise <= 0 \/ x > flight.noise)

Finding(id, rung, kind) == [id |-> id, rung |-> rung, kind |-> kind]
\* The gap between what was asked and what was turned: large enough to earn P,
\* small enough for P to close.
Shortfall(d) == IF Amplitude(d) = 0 THEN NaN ELSE (100 * Abs(MeanOffset(d))) \div Amplitude(d)
EarnsP ==
    \A d \in Directions :
        /\ IsNumber(MeanShare(d)) /\ MeanShare(d) >= Judgement.offset /\ MeanOffset(d) > 0
        /\ Shortfall(d) < ShareCap /\ Shortfall(d) >= ShareFloor /\ Separable(MeanOffset(d))

NotStoppedFinding ==
    IF EarnsP THEN Finding("P_TOO_LOW", "gain-P", "adjustment")
    ELSE Finding("AXIS_DOES_NOT_ARREST", "gain-P", "next-flight")

ToneFinding == Finding("OSCILLATION_MATCHES_AIRFRAME_TONE", "axis-mechanical", "next-flight")

RingingFinding ==
    IF ~Separable(Max({base.ringing.positive, base.ringing.negative}))
    THEN Finding("RINGING_BELOW_NOISE_FLOOR", "gain-D", "next-flight")
    ELSE IF flight.tone /\ (Source = "hold-and-release" \/ (Source # "" /\ FastEnough)) THEN ToneFinding
    ELSE IF Source = "hold-and-release" THEN Finding("P_TOO_HIGH", "gain-P", "adjustment")
    ELSE IF Source = "" THEN Finding("RINGING_SOURCE_UNKNOWN", "gain-D", "next-flight")
    ELSE IF FastEnough THEN Finding("D_TOO_HIGH", "gain-D", "adjustment")
    ELSE Finding("SLOW_OSCILLATION", "gain-P", "next-flight")

OvershootFinding ==
    IF Source # "hold-and-release" THEN Finding("OVERSHOOT_CAUSE_UNKNOWN", "gain-D", "next-flight")
    ELSE IF flight.tone THEN ToneFinding ELSE Finding("P_TOO_HIGH", "gain-P", "adjustment")

ShapeFinding ==
    CASE ShapeConclusion = "settled" -> Finding("STOPS_SETTLE_CLEANLY", "gain-D", "observation")
      [] ShapeConclusion = "not-stopped" -> NotStoppedFinding
      [] ShapeConclusion = "ringing" -> RingingFinding
      [] OTHER -> OvershootFinding

\* Faulty variant: the agreement of the directions is left to the interlock.
CorePermittedAnyway == flight.airframe = "permitted" /\ CompletenessCodes \cup HeadspeedCodes = {}
CorePermitted == /\ flight.airframe = "permitted"
                 /\ CompletenessCodes \cup AgreementCodes("tracking") \cup HeadspeedCodes = {}
\* agreedClassification: what the stops of the default setting show, each of them.
Shown(d) == {Classify(StopShapes(d)[k], Judgement) : k \in 1 .. Captured(d)}
AgreedClass ==
    IF Shown("positive") = Shown("negative") /\ Cardinality(Shown("positive")) = 1
    THEN CHOOSE x \in Shown("positive") : TRUE ELSE "unknown"

\* A candidate adjustment has to pass the interlock of its own metric.  Withheld are
\* the rungs of what was seen and is not turned into a change: the candidate, or
\* what the stops agree on although nothing may be concluded.
Judge ==
    /\ pass = Len(Settings) + 1 /\ advice = <<>>
    /\ LET disagree == "DIRECTIONS_DISAGREE" \in AgreementCodes("tracking") /\ CompletenessCodes = {}
           speak == CorePermitted /\ ShapeConclusion # "unknown"
           f == ShapeFinding
           held == f.kind = "adjustment"
                   /\ Interlock(IF f.rung = "gain-D" THEN "ringing" ELSE "tracking") # {}
           blocked == CompletenessCodes # {}
       IN  advice' =
             [findings |->
                (IF disagree THEN {Finding("DIRECTIONAL_ASYMMETRY", "axis-mechanical", "blocker")} ELSE {})
                \cup (IF speak THEN IF held THEN {} ELSE {f} ELSE {})
                \cup (IF blocked /\ base.events # <<>>
                      THEN {Finding("STOP_SHAPE_PROVISIONAL", "evidence", "observation")} ELSE {})
                \cup (IF blocked THEN {Finding("STOP_EVIDENCE_INCOMPLETE", "evidence", "next-flight")} ELSE {}),
              withheld |-> IF speak THEN IF held THEN {f.rung} ELSE {}
                           ELSE IF AgreedClass # "unknown" THEN {"gain-P"} ELSE {}]
    /\ UNCHANGED <<flight, pass, at, mode, cmd, opened, refused, events, measured>>

Init ==
    /\ flight \in Flights /\ pass = 1 /\ at = 1 /\ mode = "idle" /\ cmd = NoCommand
    /\ opened = 0 /\ refused = <<>> /\ events = <<>> /\ measured = <<>> /\ advice = <<>>

Settled == advice # <<>> /\ UNCHANGED vars
Next == \/ Missing \/ Rest \/ Open \/ Turn \/ Hold
        \/ ReverseRelease \/ Linger \/ Recommand \/ Cross \/ Accept \/ Reject
        \/ EndPass \/ Judge \/ Settled
Spec == Init /\ [][Next]_vars

----------------------------------------------------------------------------
(* What the advice of an axis may rest on. *)

\* The samples a stop is judged by: from the first that is measured to the end
\* of the slow response.
Responded(e) == e.stop .. LastAtOrBefore(Time(e.stop) + Slow[2])
Measured(e) == e.from .. Max(Responded(e))

\* A stop is a command in one direction held long enough, released once and
\* left alone while the reply is measured, all of it logged; and no two stops
\* are measured on the same samples, whatever was refused between them.
EventsAreStops ==
    \A k \in DOMAIN events :
        LET e == events[k] IN
        /\ \A i \in Measured(e) : IsNumber(Set(i))
        /\ \A i \in e.start .. e.stop :
              Abs(Set(i)) > Stop => (Set(i) > 0) = (e.direction = "positive")
        /\ Time(e.above) - Time(e.start) >= MinHold /\ e.from <= e.departure
        /\ \A i \in e.above + 1 .. e.stop : Abs(Set(i)) < Command
        /\ \A i \in Responded(e) : Abs(Set(i)) <= Stop
        /\ Time(Len(rec)) >= Time(e.stop) + Slow[2]
        /\ \A j \in 1 .. k - 1 : Max(Measured(events[j])) < e.start

\* A clean stop, flown from rest: held long enough, down once and evenly, left
\* alone until the reply has been measured.
CleanStop(a, b, c) ==
    /\ Time(c) - Time(b) <= TransitMax /\ Time(b) - Time(a) >= MinHold
    /\ \A i \in a - 1 .. c : IsNumber(Set(i))
    /\ Abs(Set(c)) <= Stop /\ Abs(Set(a - 1)) <= Stop
    /\ \A i \in a .. b : Abs(Set(i)) >= Command /\ Sign(Set(i)) = Sign(Set(a))
    /\ \A i \in b + 1 .. c - 1 : Abs(Set(i)) \in Stop + 1 .. Command - 1
    /\ \A i \in b + 1 .. c : Abs(Set(i)) < Abs(Set(i - 1)) /\ Sign(Set(i)) = Sign(Set(a))
    /\ \A i \in c .. LastAtOrBefore(Time(c) + Slow[2]) : IsNumber(Set(i)) /\ Abs(Set(i)) <= Stop
    /\ Time(Len(rec)) >= Time(c) + Slow[2]
\* A clean stop is found whatever was flown or refused before it, unless one
\* that was taken is too near or there are as many as are kept.
CleanStopIsFound ==
    at > 2 /\ IsNumber(Set(at - 1)) => \A a \in 2 .. at - 2 : \A b \in a .. at - 2 :
        Abs(Set(at - 1)) <= Stop /\ CleanStop(a, b, at - 1)
        => \/ \E k \in DOMAIN events : events[k].start = a /\ events[k].stop = at - 1
           \/ \E k \in DOMAIN events : /\ events[k].stop < at - 1
                                       /\ Time(at - 1) - Time(events[k].stop) < Spacing
           \/ Len(events) = MaxEvents

Adjusting == advice # <<>> /\ \E f \in advice.findings : f.kind = "adjustment"
\* A gain is changed only for what every setting of the sweep saw: enough stops
\* each way, on samples of their own, ending in the same way.
AdviceSurvivesTheSweep ==
    Adjusting =>
        \A k \in DOMAIN measured, d \in Directions :
            With(In(d, measured[k].events), LAMBDA own :
            /\ Len(own) >= MinStops
            /\ \A i, j \in DOMAIN own : i < j => Max(Measured(own[i])) < own[j].start
            /\ \A i \in DOMAIN own, j \in Judgements :
                  Classify(StopShape(own[i], Settings[k]), j) =
                      Classify(StopShape(measured[1].events[1], Settings[1]), Judgement))

\* An axis whose directions disagree is told so, and no gain of it is changed.
NoGainAgainstAsymmetry ==
    ~(Adjusting /\ \E f \in advice.findings : f.kind = "blocker")

\* The stops found are stops, and the stops flown are found (detectStops).
StopsAreFound == EventsAreStops /\ CleanStopIsFound
=============================================================================
