------------------------------- MODULE Advice -------------------------------
(***************************************************************************)
(* From a measured flight to a page of advice: the part of                 *)
(* src/src/analysis/recommendations.mjs that brings the vibration, the     *)
(* head speed, the stops and the holds together (buildRecommendations), as *)
(* collectRecommendationMaterial of src/ui/app.mjs calls it once the       *)
(* vibration was measured (MechanicalWindow).                              *)
(*                                                                         *)
(* What an axis gave is a record:                                          *)
(*   stops        the times of its stop events                             *)
(*   complete     enough stops in both directions                          *)
(*   directions   "agree", "disagree" or "unmeasured"                      *)
(*   agreed       both directions end alike, in the setting shipped        *)
(*   end          how the stops end, in every setting of the sweep         *)
(*   source       when it oscillated: "hold-and-release", "release" or ""  *)
(*   hz           at what frequency, the mean of the two directions (0:    *)
(*                none was measured)                                       *)
(*   short        a shortfall P can close                                  *)
(*   separable    the oscillation stands above the noise floor             *)
(*   sure         the metrics both directions agree in, and whose sweep    *)
(*                keeps one verdict                                        *)
(*   windows      the steady stretches of stick: from, to, and the fault   *)
(*                measureHold finds in it, "" for none                     *)
(*   bind, reads  what its holds say (StopEvidence and HoldEvidence model  *)
(*                how these are measured)                                  *)
(***************************************************************************)
EXTENDS MechanicalWindow, FindingOrder

CONSTANTS
    AxisOrder,   \* AXES in their order
    Materials,   \* what the axes may have given: functions from axes to records
    MinStops,    \* GAIN_GATE_THRESHOLDS: stops needed in each direction
    MinHolds,    \* EVIDENCE_LIMITS.minimumHolds
    EventSpan,   \* how far around a stop the head speed is read
    MaxGap,      \* EVIDENCE_LIMITS.maximumHoldSampleGapUs
    RingingFloor \* SHAPE_DEFAULTS.ringingFloorHz

ASSUME AdviceConstants ==
    /\ AxisOrder \in Seq(Axes) /\ \A x \in Axes : \E k \in DOMAIN AxisOrder : AxisOrder[k] = x
    /\ \A given \in Materials : /\ DOMAIN given \subseteq Axes
                                 /\ \A x \in DOMAIN given : given[x].hz \in Nat
    /\ MinStops \in Nat \ {0} /\ MinHolds \in Nat \ {0} /\ EventSpan \in Nat /\ MaxGap \in Nat

VARIABLES
    stage,    \* "measuring", "airframe", "headspeed", "axes", "told"
    axes,     \* what the axes that could be read gave
    turn,     \* the next axis of AxisOrder
    airframe, \* the verdict on the vibration: "", "permitted", "blocked"
    found,    \* the findings, in the order they were made
    withheld, \* the changes that are not shown, and why
    said      \* the places of the findings that are shown

adviceVars == <<stage, axes, turn, airframe, found, withheld, said>>
allVars == <<vars, adviceVars>>

HeadMin == 5            \* minimumPlausibleHeadspeedRpm, in turns a second
HeadMax == 166
HeadLimit == 5          \* maximumHeadspeedVariationRatio, per cent
Coincidence == 15       \* TONE_LIMITS.coincidenceFraction, per cent

----------------------------------------------------------------------------
(* Findings. *)

Finding(id, rung, axis, kind) == [id |-> id, rung |-> rung, axis |-> axis, kind |-> kind]
If(cond, findings) == IF cond THEN findings ELSE <<>>
AirframeSays(id, kind) == <<Finding(id, "airframe", NoAxis, kind)>>
HeadSays(id, kind) == <<Finding(id, "headspeed", NoAxis, kind)>>

----------------------------------------------------------------------------
(* The steady stretches and what the head speed did in them. *)

\* spanRatio against the limit; medians are scaled by 20.
SpanOver(values) ==
    With(SortedSeq(values), LAMBDA s : 2000 * (s[Len(s)] - s[1]) > HeadLimit * Median(s))
Read(f, range) == With(Sorted(Within(f, range)), LAMBDA at : [i \in DOMAIN at |-> f.head[at[i]]])

\* measureHold, as far as the head speed decides it.
Outcome(f, w) ==
    With(Read(f, <<w.from, w.to>>), LAMBDA heads :
        CASE w.fault \notin {"", "HOLD_BATTERY_UNSTABLE"} -> w.fault
          [] w.fault \in {"", "HOLD_BATTERY_UNSTABLE"} /\ \E k \in DOMAIN heads :
                heads[k] < HeadMin \/ heads[k] > HeadMax -> "HOLD_HEADSPEED_INVALID"
          [] OTHER -> IF SpanOver(heads) THEN "HOLD_HEADSPEED_UNSTABLE"
                      ELSE IF w.fault = "" THEN "accepted" ELSE w.fault)

HoldWindows ==
    UNION {{[from |-> w.from, to |-> w.to, outcome |-> Outcome(flight, w)] : w \in axes[x].windows}
             : x \in DOMAIN axes}
Accepted(f, given, x) == {w \in given[x].windows : Outcome(f, w) = "accepted"}

ReadOutcomes == {"accepted", "HOLD_HEADSPEED_UNSTABLE", "HOLD_BATTERY_UNSTABLE"}
ExaminedOutcomes == ReadOutcomes \cup {"HOLD_HEADSPEED_INVALID"}
Examined == {w \in HoldWindows : w.outcome \in ExaminedOutcomes}

\* Faulty variant: a segment ends where the window read last ends.
JoinedToLast(a, b) == [from |-> a.from, to |-> b.to, outcomes |-> a.outcomes \cup b.outcomes]
Joined(a, b) ==
    [from |-> a.from, to |-> Max({a.to, b.to}), outcomes |-> a.outcomes \cup b.outcomes]
\* The windows that begin together.
Begun(ws, from) == LET own == {w \in ws : w.from = from} IN
    [from |-> from, to |-> Max({w.to : w \in own}), outcomes |-> {w.outcome : w \in own}]
\* A window that begins inside the last segment is more of it.
Extended(segments, next) ==
    IF segments # <<>> /\ next.from <= Last(segments).to
    THEN [segments EXCEPT ![Len(segments)] = Joined(@, next)]
    ELSE Append(segments, next)
Segments(ws) ==
    LET begin == Sorted({w.from : w \in ws})
        upTo[n \in 0 .. Len(begin)] ==
            IF n = 0 THEN <<>> ELSE Extended(upTo[n - 1], Begun(ws, begin[n]))
    IN  upTo[Len(begin)]

\* countHeadspeedSegments: one hover is one segment, however many axes held it.
CountSegments(segments) ==
    LET Outcomes(k) == segments[k].outcomes
        moved == {k \in DOMAIN segments : "HOLD_HEADSPEED_UNSTABLE" \in Outcomes(k)}
        used == {k \in DOMAIN segments : "accepted" \in Outcomes(k)}
        lost == {k \in DOMAIN segments : "HOLD_HEADSPEED_INVALID" \in Outcomes(k)}
        read == {k \in DOMAIN segments : Outcomes(k) \cap ReadOutcomes # {}}
    IN  [moved |-> Cardinality(moved \ used), movedWithAHoldUsed |-> Cardinality(moved \cap used),
         readingLost |-> Cardinality(lost), read |-> Cardinality(read)]
HeadspeedSegments ==
    With(Examined, LAMBDA ws : With(Segments(ws), LAMBDA segments : CountSegments(segments)))

HeadspeedCodes(segments) ==
    LET logged == IF DOMAIN axes = {} THEN {} ELSE {t \in flight.times : flight.head[t] >= 0}
        spinning == {t \in logged : flight.head[t] \in HeadMin .. HeadMax}
    IN  IF logged = {} THEN {"HEADSPEED_NOT_LOGGED"}
        ELSE (IF Cardinality(spinning) < 2 THEN {"HEADSPEED_NEVER_SPUN_UP"} ELSE {})
             \cup (IF /\ segments.moved > 0 /\ segments.read >= MinHolds
                      /\ 2 * segments.moved >= segments.read
                   THEN {"HEADSPEED_COST_MOST_OF_THE_HOLDS"} ELSE {})

\* headspeedFindings: a rung has one verdict, and a reading that dropped out
\* is mentioned beside it.
HeadspeedVerdict(segments, codes) ==
    IF "HEADSPEED_COST_MOST_OF_THE_HOLDS" \in codes
    THEN HeadSays("HEADSPEED_MOVED_DURING_STEADY_FLIGHT", "blocker")
    ELSE IF segments.moved > 0 /\ segments.read < MinHolds
    THEN HeadSays("HEADSPEED_TOO_FEW_SEGMENTS_TO_JUDGE", "next-flight")
    ELSE IF segments.moved > 0
    THEN HeadSays("HEADSPEED_MOVED_IN_SOME_SEGMENTS", "observation")
    ELSE IF segments.movedWithAHoldUsed > 0
    THEN HeadSays("HEADSPEED_MOVED_WHERE_A_HOLD_WAS_STILL_MEASURED", "observation")
    ELSE HeadSays("HEADSPEED_STEADY_ENOUGH", "observation")
HeadspeedSays(segments, codes) ==
    IF codes \cap {"HEADSPEED_NOT_LOGGED", "HEADSPEED_NEVER_SPUN_UP"} # {}
    THEN HeadSays("HEADSPEED_NOT_MEASURED", "blocker")
    ELSE HeadspeedVerdict(segments, codes)
         \o If(segments.readingLost > 0, HeadSays("HEADSPEED_READING_DROPPED_OUT", "observation"))
HeadspeedFindings ==
    With(HeadspeedSegments, LAMBDA segments :
         With(HeadspeedCodes(segments), LAMBDA codes : HeadspeedSays(segments, codes)))

\* evaluateHeadspeedGate, of the stops of one axis.
Covered(range) ==
    With(Sorted(Within(flight, range)), LAMBDA at :
        /\ Len(at) >= 2 /\ at[1] - range[1] <= MaxGap /\ range[2] - at[Len(at)] <= MaxGap
        /\ \A k \in 2 .. Len(at) : at[k] - at[k - 1] <= MaxGap)
HeadspeedGate(x) ==
    /\ axes[x].stops # {}
    /\ \A t \in axes[x].stops :
          /\ Covered(<<t - EventSpan, t + EventSpan>>)
          /\ With(Read(flight, <<t - EventSpan, t + EventSpan>>), LAMBDA heads :
                  (\A k \in DOMAIN heads : heads[k] > 0) /\ ~SpanOver(heads))
    /\ With(Sorted(axes[x].stops), LAMBDA at : ~SpanOver([k \in DOMAIN at |-> flight.head[at[k]]]))

----------------------------------------------------------------------------
(* The vibration. *)

EventTimes(given) == UNION {given[x].stops : x \in DOMAIN given}
HoldTimes(f, given) ==
    UNION {UNION {{w.from, w.to} : w \in Accepted(f, given, x)} : x \in DOMAIN given}

\* tonesOf: the peaks that are a feature of the flight.
Tones(x) ==
    IF x \notin DOMAIN result.axes THEN {}
    ELSE {p \in result.axes[x].peaks : p.eligible \/ ReachedLevel(p, result.level) \/ p.persists}
AllTones == UNION {Tones(x) : x \in DOMAIN result.axes}
InPart(p) == ~p.eligible /\ ReachedLevel(p, result.level)

\* assessAirframe: the gate, and the noise between the tones.
BroadbandCodes ==
    (IF DOMAIN result.axes = {} \/ \E x \in DOMAIN result.axes : result.axes[x].floor = NoFloor
     THEN {"BROADBAND_NOT_MEASURED"} ELSE {})
    \cup (IF \E x \in DOMAIN result.axes : result.axes[x].floor >= result.level
          THEN {"BROADBAND_ABOVE_ATTENTION_THRESHOLD"} ELSE {})
\* Faulty variant: the noise is left to the tones.
AssessAirframeByTones ==
    With(EvaluateAirframeGate(result, EventTimes(axes), HoldTimes(flight, axes)), LAMBDA upstream :
         [upstream |-> upstream, codes |-> upstream.codes])
AssessAirframe ==
    With(EvaluateAirframeGate(result, EventTimes(axes), HoldTimes(flight, axes)), LAMBDA upstream :
         [upstream |-> upstream, codes |-> upstream.codes \cup BroadbandCodes])

\* Nothing blocks: what is said is the most that was heard.
PermittedFindings(upstream) ==
    LET reported == {t \in upstream.inPart : t.blocks = ""}
        inPart == If(reported # {}, AirframeSays("AIRFRAME_TONE_ABOVE_LEVEL_IN_PART", "next-flight"))
    IN  IF RotorOrderToneAssessment(result).only
        THEN AirframeSays("AIRFRAME_ROTOR_ORDER_TONE", "observation") \o inPart
        ELSE IF reported # {} THEN inPart
        ELSE IF \E p \in AllTones : ~p.eligible
        THEN AirframeSays("AIRFRAME_TONE_BELOW_ATTENTION", "observation")
        ELSE AirframeSays("AIRFRAME_CLEAR", "observation")

FilteredSource ==
    \/ result.reasons \cap {"FILTERED_GYRO_SOURCE_USED",
                            "UNFILTERED_GYRO_REQUIRED_FOR_CLEAR_GATE"} # {}
    \/ \E x \in DOMAIN result.axes : /\ ~result.axes[x].available
                                     /\ result.axes[x].source = "gyroADC-filtered"

\* What stands in the way, each with its card: vibration the main rotor does
\* not explain, or none that could be measured; then a rotor that was not
\* compared and a range that leaves out what the advice rests on.
Card(id, cond) == If(cond, AirframeSays(id, "blocker"))
\* Faulty variant: vibration is shown only when the mechanical status says so.
VibrationFindingsByStatus(upstream, codes) ==
    Card("AIRFRAME_VIBRATION_PRESENT", result.status = "attention")
    \o Card("AIRFRAME_BROADBAND_NOT_MEASURED", "BROADBAND_NOT_MEASURED" \in codes)
VibrationFindings(upstream, codes) ==
    LET unexplained == {t \in upstream.inPart : t.blocks = "MECHANICAL_EVIDENCE_GATE_BLOCKED"}
    IN  Card("AIRFRAME_VIBRATION_PRESENT",
             /\ "MECHANICAL_EVIDENCE_GATE_BLOCKED" \in codes
             /\ result.status = "attention" \/ unexplained # {})
        \o Card("AIRFRAME_BROADBAND_NOT_MEASURED",
                codes \cap {"BROADBAND_NOT_MEASURED", "MECHANICAL_EVIDENCE_NOT_MEASURED"} # {})
RangeFindings(codes) ==
    Card("AIRFRAME_ROTOR_NOT_COMPARED",
         codes \cap {"ROTOR_CORRELATION_PARTIAL", "ROTOR_CORRELATION_UNAVAILABLE",
                     "ROTOR_CORRELATION_NOT_ATTEMPTED"} # {})
    \o Card("AIRFRAME_RANGE_EXCLUDES_EVENTS", "MECHANICAL_RANGE_EXCLUDES_EVENTS" \in codes)
    \o Card("AIRFRAME_RANGE_EXCLUDES_HOLDS", "MECHANICAL_RANGE_EXCLUDES_HOLDS" \in codes)
\* Without unfiltered gyro only what filtering cannot hide is said.
BlockedFindings(upstream, codes) ==
    Card("AIRFRAME_ROTOR_ORDER_TONE_LARGE", "MAIN_ROTOR_ORDER_TONE_LARGE" \in codes)
    \o Card("AIRFRAME_BROADBAND_ELEVATED", "BROADBAND_ABOVE_ATTENTION_THRESHOLD" \in codes)
    \o IF FilteredSource THEN Card("AIRFRAME_UNFILTERED_GYRO_MISSING", TRUE)
       ELSE VibrationFindings(upstream, codes) \o RangeFindings(codes)

AirframeFindings(v) ==
    IF v.codes = {} THEN PermittedFindings(v.upstream) ELSE BlockedFindings(v.upstream, v.codes)

----------------------------------------------------------------------------
(* One axis. *)

\* coincidentTone: a tone of the same axis that matches a rotor order.
\* Faulty variant: only a tone that raised the alarm counts.
CoincidentEligible(x) ==
    axes[x].hz > 0 /\ \E p \in Tones(x) :
        /\ p.eligible /\ p.match # NoMatch
        /\ 100 * Gap(p.hz, axes[x].hz) <= Max({100 * Resolution, Coincidence * axes[x].hz})
Coincident(x) ==
    axes[x].hz > 0 /\ \E p \in Tones(x) :
        /\ p.match # NoMatch
        /\ 100 * Gap(p.hz, axes[x].hz) <= Max({100 * Resolution, Coincidence * axes[x].hz})

\* shapeFindings
FastEnough(x) == axes[x].hz >= RingingFloor
ToneFinding(x) == Finding("OSCILLATION_MATCHES_AIRFRAME_TONE", "axis-mechanical", x, "next-flight")
NotStopped(x) ==
    IF axes[x].short THEN Finding("P_TOO_LOW", "gain-P", x, "adjustment")
    ELSE Finding("AXIS_DOES_NOT_ARREST", "gain-P", x, "next-flight")
Ringing(x) ==
    LET source == axes[x].source
    IN  IF ~axes[x].separable THEN Finding("RINGING_BELOW_NOISE_FLOOR", "gain-D", x, "next-flight")
        ELSE IF Coincident(x) /\ (source = "hold-and-release" \/ (source # "" /\ FastEnough(x)))
        THEN ToneFinding(x)
        ELSE IF source = "hold-and-release" THEN Finding("P_TOO_HIGH", "gain-P", x, "adjustment")
        ELSE IF source = "" THEN Finding("RINGING_SOURCE_UNKNOWN", "gain-D", x, "next-flight")
        ELSE IF FastEnough(x) THEN Finding("D_TOO_HIGH", "gain-D", x, "adjustment")
        ELSE Finding("SLOW_OSCILLATION_AFTER_RELEASE", "gain-P", x, "next-flight")
Overshoot(x) ==
    IF axes[x].source # "hold-and-release"
    THEN Finding("OVERSHOOT_CANDIDATES_UNSEPARATED", "gain-D", x, "next-flight")
    ELSE IF Coincident(x) THEN ToneFinding(x) ELSE Finding("P_TOO_HIGH", "gain-P", x, "adjustment")
ShapeFinding(x) ==
    CASE axes[x].end = "settled" -> Finding("STOPS_SETTLE_CLEANLY", "gain-D", x, "observation")
      [] axes[x].end = "not-stopped" -> NotStopped(x)
      [] axes[x].end = "ringing" -> Ringing(x)
      [] OTHER -> Overshoot(x)

CoreGates(x) == /\ airframe = "permitted" /\ axes[x].complete
                /\ axes[x].directions = "agree" /\ HeadspeedGate(x)
Speaks(x) == CoreGates(x) /\ axes[x].end # "unknown"
\* A change has to pass the interlock of the metric it would move.
HeldBack(f) == /\ f.kind = "adjustment"
               /\ (IF f.rung = "gain-D" THEN "ringing" ELSE "tracking") \notin axes[f.axis].sure

\* holdFindings: a bind first, then what is missing, and what the I term does
\* only when the airframe may be trusted.
HoldReadings ==
    [id \in {"I_TERM_NOT_LOGGED", "SLOW_WANDER_NOT_FROM_THE_I_TERM", "I_TERM_SIGNATURES_CONFLICT",
             "I_TOO_HIGH", "I_TOO_LOW", "I_TERM_WITHIN_TOLERANCE"} |->
        IF id \in {"I_TOO_HIGH", "I_TOO_LOW"} THEN "adjustment"
        ELSE IF id = "I_TERM_WITHIN_TOLERANCE" THEN "observation" ELSE "next-flight"]
HoldUnclear == {"I_TERM_HOLDS_MIXED", "I_TERM_VERDICT_UNSTABLE"}
HoldFindings(x) ==
    LET count == Cardinality(Accepted(flight, axes, x))
        reads == axes[x].reads
        Missing(id) == <<Finding(id, "evidence", x, "next-flight")>>
    IN  IF axes[x].bind /\ count > 0
        THEN <<Finding("SUSPECTED_MECHANICAL_BIND", "axis-mechanical", x, "blocker")>>
        ELSE IF count = 0 THEN Missing("NO_HOLD_EVIDENCE")
        ELSE IF count < MinHolds THEN Missing("HOLD_EVIDENCE_PROVISIONAL")
        ELSE IF reads \in HoldUnclear THEN Missing(reads)
        ELSE IF airframe # "permitted" THEN <<>>
        ELSE IF reads \in DOMAIN HoldReadings
        THEN <<Finding(reads, "gain-I", x, HoldReadings[reads])>>
        ELSE Missing("I_TERM_NOT_JUDGED")

\* axisFindings
AxisFindings(x) ==
    LET complete == axes[x].complete
        shape == ShapeFinding(x)
    IN  If(axes[x].directions = "disagree" /\ complete,
           <<Finding("DIRECTIONAL_ASYMMETRY_MECHANICAL", "axis-mechanical", x, "blocker")>>)
        \o If(Speaks(x) /\ ~HeldBack(shape), <<shape>>)
        \o HoldFindings(x)
        \o If(~complete /\ axes[x].stops # {},
              <<Finding("STOP_SHAPE_PROVISIONAL", "evidence", x, "observation")>>)
        \o If(~complete, <<Finding("STOP_EVIDENCE_INCOMPLETE", "evidence", x, "next-flight")>>)
AxisWithheld(x) ==
    {[id |-> f.id, axis |-> x, reason |-> "GATES_NOT_PASSED"] :
        f \in {g \in {ShapeFinding(x)} : Speaks(x) /\ HeldBack(g)}}
    \cup (IF ~Speaks(x) /\ axes[x].agreed
          THEN {[id |-> "", axis |-> x, reason |-> "GATES_NOT_PASSED"]} ELSE {})

----------------------------------------------------------------------------
(* The page. *)

AdviceInit ==
    /\ Init /\ stage = "measuring" /\ axes = <<>> /\ turn = 1 /\ airframe = ""
    /\ found = <<>> /\ withheld = {} /\ said = {}

\* The vibration is measured first, by a request nothing can overtake; a
\* measurement that is refused throws, and there is no page.
MeasureVibration == Step /\ UNCHANGED adviceVars

\* Then the axes are read; one the log has no signal of, or no room for, is
\* left out.
Collect ==
    /\ phase = "done" /\ stage = "measuring"
    /\ \E given \in Materials :
          /\ \A x \in DOMAIN given :
                given[x].stops \cup UNION {{w.from, w.to} : w \in given[x].windows}
                    \subseteq flight.times \ flight.dead[x]
          /\ axes' = given
    /\ stage' = "airframe"
    /\ UNCHANGED <<vars, turn, airframe, found, withheld, said>>

JudgeAirframe ==
    /\ stage = "airframe" /\ stage' = "headspeed"
    /\ \E v \in {AssessAirframe} :
          /\ airframe' = IF v.codes = {} THEN "permitted" ELSE "blocked"
          /\ found' = found \o AirframeFindings(v)
    /\ UNCHANGED <<vars, axes, turn, withheld, said>>

JudgeHeadspeed ==
    /\ stage = "headspeed" /\ stage' = "axes"
    /\ found' = found \o HeadspeedFindings
    /\ UNCHANGED <<vars, axes, turn, airframe, withheld, said>>

JudgeAxis ==
    /\ stage = "axes" /\ turn <= Len(AxisOrder) /\ AxisOrder[turn] \in DOMAIN axes
    /\ found' = found \o AxisFindings(AxisOrder[turn])
    /\ withheld' = withheld \cup AxisWithheld(AxisOrder[turn])
    /\ turn' = turn + 1
    /\ UNCHANGED <<vars, stage, axes, airframe, said>>

SkipAxis ==
    /\ stage = "axes" /\ turn <= Len(AxisOrder) /\ AxisOrder[turn] \notin DOMAIN axes
    /\ turn' = turn + 1
    /\ UNCHANGED <<vars, stage, axes, airframe, found, withheld, said>>

\* The order, and why a change that is not shown is not.
Tell ==
    /\ stage = "axes" /\ turn = Len(AxisOrder) + 1
    /\ said' = Returned(found)
    /\ withheld' = withheld \cup {[id |-> found[i].id, axis |-> found[i].axis, reason |-> Reason(found, i)]
                                    : i \in Unreturned(found)}
    /\ stage' = "told"
    /\ UNCHANGED <<vars, axes, turn, airframe, found>>

NoMore == (stage = "told" \/ phase = "refused") /\ UNCHANGED allVars

Advise == Collect \/ JudgeAirframe \/ JudgeHeadspeed \/ JudgeAxis \/ SkipAxis \/ Tell
AdviceNext == MeasureVibration \/ Advise \/ NoMore
AdviceSpec == AdviceInit /\ [][AdviceNext]_allVars
----------------------------------------------------------------------------
(* What a page of advice may rest on. *)

\* Every finding is of a known rung and kind and about an axis that was read,
\* or the machine; only findings that were made are shown.
AdviceTypeOK ==
    /\ stage \in {"measuring", "airframe", "headspeed", "axes", "told"}
    /\ stage # "measuring" => phase = "done"
    /\ turn \in 1 .. Len(AxisOrder) + 1 /\ airframe \in {"", "permitted", "blocked"}
    /\ \A i \in DOMAIN found : /\ found[i].kind \in FindingKinds
                               /\ RungOrder(found[i].rung) < Len(Rungs)
                               /\ found[i].axis \in DOMAIN axes \cup {NoAxis}
    /\ said \subseteq DOMAIN found

\* One change at a time, none below a blocker, nothing else held back.
OneChangeAtATime == INSTANCE OneChange WITH told <- (stage = "told")
ImplementsOneChange == OneChangeAtATime!Spec

Changes == {i \in DOMAIN found : found[i].kind = "adjustment"}
Raised(f, range, x) ==
    2 * Cardinality(Within(f, range) \cap f.noisy[x]) >= Cardinality(Within(f, range))

\* A gain is only ever named when every stretch of the window was measured on
\* unfiltered gyro and compared with a rotor, no axis was noisy in any of them,
\* and every stop and hold that was used lies inside the window.
NoGainOnUncheckedAirframe ==
    stage = "told" /\ Changes # {} =>
        /\ \A t \in EventTimes(axes) \cup HoldTimes(flight, axes) :
              flight.asked[1] <= t /\ t <= flight.asked[2]
        /\ \A i \in DOMAIN plan :
              /\ Refusal(flight, plan[i]) = "" /\ CoverageReasons(flight, plan[i]) = {}
              /\ EvaluatedRotors(RpmSources(flight, plan[i])) # {}
              /\ \A x \in Axes : flight.source[x] \in UnfilteredSources /\ ~Raised(flight, plan[i], x)

\* A tone that lasts, at whatever level: in half of the windows of a stretch, and in
\* as many as a peak needs.
Lasts(f, range, t) ==
    LET g == Grid(f, range)
        w == AxisWindows(f, g, t.axis)
        present == Cardinality(WindowsIn(g, w, t.loud \cup t.soft))
    IN  2 * present >= Cardinality(w.starts) /\ present >= RequiredWindows(Cardinality(w.starts))
\* Below the level only so many tones of an axis are listed, and none beside another.
StandsApart(f, t) ==
    LET mine == {u \in f.tones : u.axis = t.axis}
    IN  Cardinality(mine) <= MaxListed /\ \A u \in mine \ {t} : ~TooClose(t, u)

\* What the rotor does is not tuned away: no gain is lowered for an oscillation
\* at the frequency of a tone of the rotor that is in the flight, above the
\* level for one window, or below it for half of a stretch where the list of
\* the tones below the level has room for it.
RotorIsNotTuned ==
    \A i \in Changes : found[i].id \in {"P_TOO_HIGH", "D_TOO_HIGH"} =>
        \A k \in DOMAIN plan, t \in flight.tones :
            /\ t.axis = found[i].axis
            /\ BestHarmonicMatch(RpmSources(flight, plan[k]), t.hz) # NoMatch
            /\ \/ Loud(flight, plan[k], t) # {}
               \/ Lasts(flight, plan[k], t) /\ StandsApart(flight, t)
            => 100 * Gap(t.hz, axes[t.axis].hz) > Coincidence * axes[t.axis].hz

Says(id) == \E i \in DOMAIN found : found[i].id = id
\* "The airframe is clear" is said only of a flight in which no tone was above
\* the level for as much as one window and no axis noisy in any stretch.
ClearIsClear ==
    Says("AIRFRAME_CLEAR") =>
        \A i \in DOMAIN plan : /\ \A t \in flight.tones : Loud(flight, plan[i], t) = {}
                               /\ \A x \in Axes : ~Raised(flight, plan[i], x)
\* What vibrates is neither tuned away nor passed over in an all-clear.
VibrationIsHeeded == RotorIsNotTuned /\ ClearIsClear

\* Whenever the airframe stops the advice, a card says what is wrong with it.
BlockIsExplained == airframe = "blocked" => \E i \in Blockers(found) : found[i].rung = "airframe"

\* One hover, however many axes held it: the windows that overlap, directly or
\* through others.  A hover begins where no window already runs.
Beginnings == {w.from : w \in {v \in Examined : ~\E u \in Examined : u.from < v.from /\ v.from <= u.to}}
Hover(b) == {w.outcome : w \in {v \in Examined : v.from >= b /\ ~\E c \in Beginnings : b < c /\ c <= v.from}}
\* The governor is blamed exactly when the head speed moved in half of the
\* hovers it could be read in, and there are enough of them; a hover in which
\* any axis was still measured is not one in which it moved.
GovernorIsBlamedFairly ==
    stage = "told" /\ ~Says("HEADSPEED_NOT_MEASURED") =>
        LET read == {b \in Beginnings : Hover(b) \cap ReadOutcomes # {}}
            moved == {b \in read : "HOLD_HEADSPEED_UNSTABLE" \in Hover(b) /\ "accepted" \notin Hover(b)}
        IN  Says("HEADSPEED_MOVED_DURING_STEADY_FLIGHT") <=>
                /\ moved # {} /\ Cardinality(read) >= MinHolds
                /\ 2 * Cardinality(moved) >= Cardinality(read)

=============================================================================
