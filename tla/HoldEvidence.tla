----------------------------- MODULE HoldEvidence -----------------------------
(***************************************************************************)
(* From the samples of a flight to what the I gain of one axis is advised: *)
(* the hold detector and the measures of a hold                            *)
(* (src/src/analysis/pid-evidence.mjs, detectHoldSegments, measureHold),   *)
(* their reading (interpretHoldEvidence), the sweep of that reading over   *)
(* filters and thresholds, what the I term itself did, the bind it may be  *)
(* held against, and the finding (recommendations.mjs,                     *)
(* assessHoldIndication, holdFindings).                                    *)
(*                                                                         *)
(* Time is in ticks, a sample each but where one is missing, so a filter   *)
(* of L ticks averages L samples.  Rates are in degrees a second; what is  *)
(* averaged or rooted is kept in hundredths, the program's four decimals   *)
(* being more than the readings tell apart.                                *)
(***************************************************************************)
EXTENDS Integers, Sequences, FiniteSets, FiniteSetsExt, SequencesExt, Once

CONSTANTS
    Flights,         \* the samples of each flight
    NaN,             \* a value that is not a number
    Settle,          \* holdSettleUs
    MinMeasure,      \* minimumHoldMeasureUs
    MaxGap,          \* maximumHoldSampleGapUs
    MaxHolds,        \* maximumHolds
    Filters,         \* HOLD_SWEEP.huntingSmoothingUs, the shipped one first
    Ripples,         \* HOLD_SWEEP.huntingRippleDps, in hundredths
    BandLow, BandTop,    \* huntingBandHz, in thousandths of a cycle a tick
    DriftLimit,      \* driftDpsPerSecond, in hundredths a tick
    MinWinding,      \* minimumITermDriftPerSecond, in hundredths a tick
    MinTermSamples   \* the samples measureITermAuthority needs

ASSUME HoldConstants ==
    /\ Settle \in Nat /\ MinMeasure \in Nat \ {0} /\ MaxHolds \in Nat
    /\ MaxGap \in Nat /\ MaxGap < MinMeasure
    /\ Filters \in Seq(Nat \ {0}) /\ Len(Filters) > 0
    /\ BandLow \in Int /\ BandTop \in Int /\ BandLow < BandTop

\* The record contract: whole numbers, some of which may be missing, in order of
\* time.
Record == [t : Int, set : Int \cup {NaN}, gyro : Int, p : Int \cup {NaN}, i : Int \cup {NaN},
           d : Int \cup {NaN}, off : Int, head : Int \cup {NaN}, vbat : Int \cup {NaN}]
ASSUME RecordContract ==
    /\ NaN \notin Int
    /\ \A f \in Flights : f \in Seq(Record) /\ \A i, j \in DOMAIN f : i < j => f[i].t < f[j].t

VARIABLES
    flight,     \* what was flown
    at,         \* the sample to be read next; past the end once all are
    start,      \* the sample the segment in progress began at, 0 for none
    segments,   \* the segments found
    looked,     \* how many of them were measured
    holds,      \* those that count, as the shipped filter measures them
    refused,    \* the reasons of those that do not
    readings,   \* for each filter tried, what it read at every threshold
    advice      \* what the pilot is told; "none" until then

vars == <<flight, at, start, segments, looked, holds, refused, readings, advice>>

\* EVIDENCE_LIMITS, HOLD_READING_THRESHOLDS, BIND_LIMITS and AUTHORITY_LIMITS.
Band == 15
OffAxis == 30
ZeroHold == 10
MinHolds == 2
MinStanding == 3
HeadMin == 300
HeadMax == 10000
HeadLimit == 5          \* per cent, as the shares below
BatteryLimit == 10
DriftRatioSquared == 9
ErrorDps == 300
RippleDps == 200
WindUp == 5
HeldShare == 50
TravelShare == 15
TermRatio == 10
RippleShare == 34

\* The sweep tries the threshold that is shipped.
ASSUME SweepConstants == Ripples \subseteq Int /\ RippleDps \in Ripples

rec == flight
Time(i) == rec[i].t
Set(i) == rec[i].set
IsNumber(x) == x # NaN
Abs(x) == IF x < 0 THEN -x ELSE x
\* Math.sign; of no number it is 0.
SignOf(x) == IF ~IsNumber(x) \/ x = 0 THEN 0 ELSE IF x > 0 THEN 1 ELSE -1

----------------------------------------------------------------------------
(* Arithmetic. *)

Over(a, b) == IF a < 0 THEN -((-a) \div b) ELSE a \div b
Bits == <<4096, 2048, 1024, 512, 256, 128, 64, 32, 16, 8, 4, 2, 1>>
Root(n) ==
    LET upTo[k \in 0 .. Len(Bits)] ==
            IF k = 0 THEN 0
            ELSE LET r == upTo[k - 1] IN
                 IF (r + Bits[k]) * (r + Bits[k]) <= n THEN r + Bits[k] ELSE r
    IN  upTo[Len(Bits)]
SumOf(values) ==
    LET upTo[k \in 0 .. Len(values)] == IF k = 0 THEN 0 ELSE upTo[k - 1] + values[k]
    IN  upTo[Len(values)]
\* The members of a set of places in order, and what a sequence has there.
InOrder(places) ==
    [k \in 1 .. Cardinality(places) |->
        CHOOSE i \in places : Cardinality({j \in places : j < i}) = k - 1]
Taken(values, places) ==
    With(InOrder(places), LAMBDA order : [k \in DOMAIN order |-> values[order[k]]])
Numbers(values) == Taken(values, {i \in DOMAIN values : IsNumber(values[i])})
\* mean and rms, of hundredths.
Mean(values) == With(Numbers(values), LAMBDA v : IF v = <<>> THEN NaN ELSE Over(SumOf(v), Len(v)))
Rms(values) ==
    With(Numbers(values), LAMBDA v :
        IF v = <<>> THEN NaN ELSE Root(SumOf([i \in DOMAIN v |-> v[i] * v[i]]) \div Len(v)))
Centred(values) == With(Mean(values), LAMBDA c : [i \in DOMAIN values |-> values[i] - c])
\* movingAverage over the values within half a filter of each.
Smoothed(values, filter) ==
    [i \in DOMAIN values |->
        LET near == {j \in DOMAIN values : Abs(j - i) <= filter \div 2}
        IN  Over(SumOf(Taken(values, near)), Cardinality(near))]
\* How often the values cross their mean; a value on it is on neither side.
Crossings(values) ==
    With(Centred(values), LAMBDA v :
    LET upTo[k \in 0 .. Len(v)] ==
            IF k = 0 THEN [side |-> 0, count |-> 0]
            ELSE LET seen == upTo[k - 1] IN
                 IF v[k] = 0 THEN seen
                 ELSE [side |-> SignOf(v[k]),
                       count |-> IF seen.side \in {0, SignOf(v[k])} THEN seen.count ELSE seen.count + 1]
    IN  upTo[Len(v)].count)
\* quantile: position and value in hundredths.
Ranked(values, k) ==
    CHOOSE v \in Range(values) :
        /\ Cardinality({i \in DOMAIN values : values[i] < v}) < k
        /\ Cardinality({i \in DOMAIN values : values[i] <= v}) >= k
Quantile(values, percent) ==
    LET place == (Len(values) - 1) * percent
        low == Ranked(values, place \div 100 + 1)
        high == Ranked(values, Min({place \div 100 + 2, Len(values)}))
    IN  100 * low + (high - low) * (place % 100)
SpanOver(values, percent) ==
    /\ values # <<>>
    /\ 10000 * (Max(Range(values)) - Min(Range(values))) > percent * Abs(Quantile(values, 50))

----------------------------------------------------------------------------
(* The detector: one sample at a time. *)

\* closeSegment
Closed(last) ==
    IF start # 0 /\ last > start /\ Time(last) - Time(start) >= Settle + MinMeasure
       /\ Len(segments) < MaxHolds
    THEN Append(segments, [from |-> start, to |-> last]) ELSE segments

Step(newStart, newSegments) ==
    /\ at <= Len(rec)
    /\ at' = at + 1 /\ start' = newStart /\ segments' = newSegments
    /\ UNCHANGED <<flight, looked, holds, refused, readings, advice>>

Known == at <= Len(rec) /\ IsNumber(Set(at))
Reference == Set(start)

Missing == at <= Len(rec) /\ ~IsNumber(Set(at)) /\ Step(0, Closed(at - 1))
Open    == Known /\ start = 0 /\ Step(at, segments)
Stay    == Known /\ start # 0 /\ Abs(Set(at) - Reference) <= Band /\ Step(start, segments)
Depart  == Known /\ start # 0 /\ Abs(Set(at) - Reference) > Band /\ Step(at, Closed(at - 1))
End ==
    /\ at = Len(rec) + 1
    /\ at' = at + 1 /\ start' = 0 /\ segments' = Closed(Len(rec))
    /\ UNCHANGED <<flight, looked, holds, refused, readings, advice>>

----------------------------------------------------------------------------
(* One hold. *)

Window(seg) ==
    InOrder({i \in DOMAIN rec : Time(i) >= Time(seg.from) + Settle /\ Time(i) <= Time(seg.to)})

Values(w, F(_)) == [k \in DOMAIN w |-> F(rec[w[k]])]
ErrorOf(sample) == 100 * (sample.set - sample.gyro)

Gappy(seg, w) ==
    \/ Time(w[1]) - (Time(seg.from) + Settle) > MaxGap
    \/ \E k \in 2 .. Len(w) : Time(w[k]) - Time(w[k - 1]) \notin 1 .. MaxGap
Unspun(head) == ~IsNumber(head) \/ head < HeadMin \/ head > HeadMax

\* measureHold, the reasons in its order; "none" for a hold that counts.
Refusal(seg) ==
    With(Window(seg), LAMBDA w :
        IF Time(seg.to) - (Time(seg.from) + Settle) < MinMeasure THEN "HOLD_TOO_SHORT_AFTER_SETTLE"
        ELSE IF Len(w) < 2 THEN "HOLD_WINDOW_EMPTY"
        ELSE IF Gappy(seg, w) THEN "HOLD_SAMPLE_GAP_TOO_LARGE"
        ELSE IF \E k \in DOMAIN w : rec[w[k]].off > OffAxis THEN "HOLD_OFF_AXIS_INPUT"
        ELSE IF \E k \in DOMAIN w : Unspun(rec[w[k]].head) THEN "HOLD_HEADSPEED_INVALID"
        ELSE IF SpanOver(Values(w, LAMBDA s : s.head), HeadLimit) THEN "HOLD_HEADSPEED_UNSTABLE"
        ELSE IF SpanOver(Numbers(Values(w, LAMBDA s : s.vbat)), BatteryLimit)
             THEN "HOLD_BATTERY_UNSTABLE"
        ELSE "none")

\* slopePerSecond: of hundredths, a tick.
Slope(w, values) ==
    LET n == Len(w)
        t == [k \in DOMAIN w |-> Time(w[k]) - Time(w[1])]
        s == SumOf(t)
    IN  IF \E k \in DOMAIN values : ~IsNumber(values[k]) THEN NaN
        ELSE Over(n * SumOf([k \in DOMAIN w |-> t[k] * values[k]]) - s * SumOf(values),
                  n * SumOf([k \in DOMAIN w |-> t[k] * t[k]]) - s * s)

\* driftSignificance: whether the slope stands three of its standard errors
\* above nothing, the samples counting as many as the residual crosses.
DriftMeasurable(w, slow, slope, filter) ==
    LET span == Time(w[Len(w)]) - Time(w[1])
        centre == Mean(slow)
        middle == Mean([k \in DOMAIN w |-> 100 * Time(w[k])])
        residual == [k \in DOMAIN w |->
                        slow[k] - centre - Over(slope * (100 * Time(w[k]) - middle), 100)]
        sigma == Rms(residual)
        count == Max({2, Min({Crossings(residual), span \div filter})})
    IN  IF sigma = 0 THEN slope # 0
        ELSE ((slope * slope * span) \div 12) * span * count >= DriftRatioSquared * sigma * sigma

HoldOf(seg, filter) ==
    With(Window(seg), LAMBDA w :
    With(Values(w, ErrorOf), LAMBDA errors :
    With(Smoothed(errors, filter), LAMBDA slow :
    LET asked == Quantile(Values(w, LAMBDA s : s.set), 50)
        iTerms == Values(w, LAMBDA s : s.i)
        span == Time(w[Len(w)]) - Time(w[1])
        error == Mean(errors)
        drift == Slope(w, errors)
    IN  [from |-> seg.from, to |-> seg.to, weight |-> Time(seg.to) - Time(seg.from) - Settle,
         kind |-> IF Abs(asked) < 100 * ZeroHold THEN "zero" ELSE "sustained",
         turn |-> IF Abs(asked) < 100 * ZeroHold THEN 0 ELSE SignOf(asked),
         error |-> error,
         drift |-> drift,
         drifts |-> DriftMeasurable(w, slow, drift, filter),
         ripple |-> Rms([k \in DOMAIN slow |-> slow[k] - error]),
         rate |-> (1000 * Crossings(slow)) \div span,
         noise |-> Rms([k \in DOMAIN slow |-> errors[k] - slow[k]]),
         iMean |-> Mean(iTerms), iRms |-> Rms(iTerms), iDrift |-> Slope(w, iTerms)])))

\* buildHoldEvidence: a segment that begins with the log has no known start.
\* Faulty variant: nor has one that ends with it a known end.
ClippedEither(seg) == seg.from = 1 \/ seg.to = Len(rec)
Clipped(seg) == seg.from = 1

Measuring == at = Len(rec) + 2 /\ looked < Len(segments)
Measure(newHolds, newRefused) ==
    /\ looked' = looked + 1 /\ holds' = newHolds /\ refused' = newRefused
    /\ UNCHANGED <<flight, at, start, segments, readings, advice>>
segment == segments[looked + 1]
\* Three outcomes of one segment.
Skip   == Measuring /\ Clipped(segment) /\ Measure(holds, refused)
Refuse == /\ Measuring /\ ~Clipped(segment) /\ Refusal(segment) # "none"
          /\ Measure(holds, refused \cup {Refusal(segment)})
Count  == /\ Measuring /\ ~Clipped(segment) /\ Refusal(segment) = "none"
          /\ Measure(Append(holds, HoldOf(segment, Filters[1])), refused)

----------------------------------------------------------------------------
(* What the holds say together: interpretHoldEvidence. *)

Captured == Len(holds) >= MinHolds
Rebuilt(filter) ==
    IF filter = Filters[1] THEN holds
    ELSE [k \in DOMAIN holds |-> HoldOf([from |-> holds[k].from, to |-> holds[k].to], filter)]

\* weightedMean: a value that is no number counts for nothing; each hold weighs
\* its length.
WeightedMean(values, weights) ==
    LET own == {k \in DOMAIN values : IsNumber(values[k])}
    IN  IF own = {} THEN NaN
        ELSE Over(SumOf([k \in DOMAIN values |-> IF k \in own THEN values[k] * weights[k] ELSE 0]),
                  SumOf([k \in DOMAIN values |-> IF k \in own THEN weights[k] ELSE 0]))
Weighted(hs, F(_)) ==
    WeightedMean([k \in DOMAIN hs |-> F(hs[k])], [k \in DOMAIN hs |-> hs[k].weight])

Summary(hs) ==
    [kinds  |-> {hs[k].kind : k \in DOMAIN hs},
     error  |-> Weighted(hs, LAMBDA h : Abs(h.error)),
     drift  |-> Weighted(Taken(hs, {k \in DOMAIN hs : hs[k].drifts}), LAMBDA h : h.drift),
     ripple |-> Weighted(hs, LAMBDA h : h.ripple),
     rate   |-> Weighted(hs, LAMBDA h : h.rate),
     noise  |-> Weighted(hs, LAMBDA h : h.noise),
     iRms   |-> Weighted(hs, LAMBDA h : h.iRms),
     iDrift |-> Weighted(hs, LAMBDA h : h.iDrift)]

\* The highest frequency a filter leaves; crossings come two a cycle.
Observable(filter) == 443 \div filter
Top(filter) == Min({BandTop, Observable(filter)})
InBand(s, filter) == s.rate >= 2 * BandLow /\ s.rate <= 2 * Top(filter)
AboveBand(s, filter) == s.rate > 2 * Top(filter)
BelowBand(s) == s.rate < 2 * BandLow

Standing(s) == s.error > ErrorDps
Drifting(s) == IsNumber(s.drift) /\ Abs(s.drift) > DriftLimit
Hunting(s, filter, ripple) == InBand(s, filter) /\ s.ripple > ripple /\ s.ripple > s.noise
SlowMovement(s, ripple) == BelowBand(s) /\ s.ripple > ripple /\ s.ripple > s.noise
FastMovement(s, filter, ripple) == AboveBand(s, filter) /\ s.ripple > ripple
\* Faulty variant: a ripple lost in the noise is no movement at all.
WithinNoiseNever(s, filter, ripple) == FALSE
WithinNoise(s, filter, ripple) == ~AboveBand(s, filter) /\ s.ripple > ripple /\ s.ripple <= s.noise
ClearOfMovement(s, filter) == AboveBand(s, filter) \/ s.error > s.ripple

OneSide(values) == \/ \A k \in DOMAIN values : values[k] > 0
                   \/ \A k \in DOMAIN values : values[k] < 0

\* standingErrorRefusal: the codes that say why, none when the error stands.
StandingRefusal(hs) ==
    LET inTurn == [k \in DOMAIN hs |-> hs[k].error * hs[k].turn]
        bothWays == {1, -1} \subseteq {hs[k].turn : k \in DOMAIN hs}
    IN  IF \E k \in DOMAIN hs : Abs(hs[k].error) <= hs[k].ripple THEN {"NOT_CLEAR_IN_EVERY_HOLD"}
        ELSE IF OneSide([k \in DOMAIN hs |-> hs[k].error])
        THEN IF Len(hs) < MinStanding THEN {"TOO_FEW_HOLDS"} ELSE {}
        ELSE IF ~(bothWays /\ OneSide(inTurn)) THEN {"CHANGES_SIDE_BETWEEN_HOLDS"}
        ELSE {"FOLLOWS_COMMAND_DIRECTION",
              IF inTurn[1] > 0 THEN "RATE_SHORT_OF_COMMAND" ELSE "RATE_PAST_COMMAND"}

\* The codes of one reading and what it indicates for the I gain.
Codes(condition, code) == IF condition THEN {code} ELSE {}
Movements(s, filter, ripple) ==
    Codes(~IsNumber(s.drift), "DRIFT_NOT_SEPARABLE")
    \cup Codes(FastMovement(s, filter, ripple), "OSCILLATION_ABOVE_BAND")
    \cup Codes(SlowMovement(s, ripple), "SLOW_MOVEMENT_BELOW_BAND")
    \cup Codes(WithinNoise(s, filter, ripple), "SLOW_RIPPLE_NOT_CLEAR_OF_NOISE")
    \cup Codes(Standing(s), "STEADY_STATE_ERROR_PRESENT")
    \cup Codes(Drifting(s), "STEADY_STATE_ERROR_DRIFTING")
    \cup Codes(Hunting(s, filter, ripple), "LOW_FREQUENCY_HUNTING")

Indicates(indication, codes) == [indication |-> indication, codes |-> codes]
StandingReading(hs, s, filter, seen) ==
    LET refusal == StandingRefusal(hs)
        hidden == {"OSCILLATION_ABOVE_BAND", "SLOW_RIPPLE_NOT_CLEAR_OF_NOISE"} \cap seen # {}
    IN  IF ~ClearOfMovement(s, filter)
        THEN Indicates("hold", seen \cup {"NOT_CLEAR_OF_SLOW_MOVEMENT"})
        ELSE IF refusal # {} THEN Indicates("hold", seen \cup refusal)
        ELSE IF hidden THEN Indicates("hold", seen \cup {"WITH_UNMEASURED_BAND"})
        ELSE Indicates("increase", seen)

Reading(hs, filter, ripple) ==
    IF Len(hs) < MinHolds THEN Indicates("hold", {"INSUFFICIENT_HOLD_SEGMENTS"})
    ELSE With(Summary(hs), LAMBDA s :
         With(Movements(s, filter, ripple), LAMBDA seen :
         IF Cardinality(s.kinds) # 1 THEN Indicates("hold", {"HOLD_KIND_MISMATCH"})
         ELSE IF Hunting(s, filter, ripple)
         THEN IF Standing(s) THEN Indicates("hold", seen \cup {"CONFLICTING_HOLD_SIGNATURES"})
              ELSE Indicates("decrease", seen)
         ELSE IF Standing(s) \/ Drifting(s) THEN StandingReading(hs, s, filter, seen)
         ELSE IF seen \subseteq {"DRIFT_NOT_SEPARABLE"}
         THEN Indicates("hold", seen \cup {"HOLD_EVIDENCE_WITHIN_TOLERANCE"})
         ELSE Indicates("hold", seen)))
Shipped == Reading(holds, Filters[1], RippleDps)

----------------------------------------------------------------------------
(* The sweep of assessHoldIndication: one filter at a time. *)

\* A filter too long to see the swing that is blamed on the I term does not vote.
Abstains(filter) ==
    Shipped.indication = "decrease" /\ Summary(holds).rate > 2 * Observable(filter)

Sweeping == at = Len(rec) + 2 /\ looked = Len(segments) /\ Captured /\ Len(readings) < Len(Filters)
Swept(filter) == With(Rebuilt(filter), LAMBDA hs : {Reading(hs, filter, r).indication : r \in Ripples})
Sweep ==
    /\ Sweeping
    /\ LET filter == Filters[Len(readings) + 1]
       IN  readings' = Append(readings, IF Abstains(filter) THEN {} ELSE Swept(filter))
    /\ UNCHANGED <<flight, at, start, segments, looked, holds, refused, advice>>

Seen == UNION Range(readings)
SweepStable == Cardinality(Seen) = 1

----------------------------------------------------------------------------
(* What the I term itself did, hold by hold.  The three terms of an axis are   *)
(* logged together or not at all.                                              *)

Terms(h) == SelectSeq(Window([from |-> h.from, to |-> h.to]),
                      LAMBDA i : IsNumber(rec[i].p) /\ IsNumber(rec[i].i) /\ IsNumber(rec[i].d))
Measurable == SelectSeq(holds, LAMBDA h : Len(Terms(h)) >= MinTermSamples)

\* measureITermCoupling: how often the I term crosses, per crossing of the error.
CouplingOf(h) ==
    With(Terms(h), LAMBDA w :
    LET span == Time(w[Len(w)]) - Time(w[1])
        errors == Crossings(Smoothed(Values(w, ErrorOf), Filters[1]))
    IN  IF errors = 0 THEN NaN
        ELSE (100 * Crossings(Smoothed(Values(w, LAMBDA s : s.i), Filters[1]))) \div errors)
Coupling == Mean([k \in DOMAIN Measurable |-> CouplingOf(Measurable[k])])

\* measureITermAuthority, in per cent.
Share(part, whole) == IF whole > 0 THEN (100 * part) \div whole ELSE NaN
AuthorityOf(h) ==
    With(Terms(h), LAMBDA w :
    LET iTerms == Values(w, LAMBDA s : s.i)
        half == SubSeq(iTerms, Len(iTerms) \div 2 + 1, Len(iTerms))
        RippleOf(values) == Rms(Centred(Smoothed(values, Filters[1])))
    IN  [weight |-> h.weight,
         travel |-> Share(Abs(Quantile(half, 95) - Quantile(half, 5)) \div 100,
                          Max({Abs(Mean(iTerms)), Rms(iTerms)})),
         toP |-> Share(Rms(iTerms), Rms(Values(w, LAMBDA s : s.p))),
         ofRipple |-> Share(RippleOf(iTerms), RippleOf(Values(w, LAMBDA s : s.p + s.i + s.d)))])
Authority == [k \in DOMAIN Measurable |-> AuthorityOf(Measurable[k])]
Available ==
    /\ Measurable # <<>>
    /\ \E k \in DOMAIN Measurable : \E i \in Range(Terms(Measurable[k])) :
          rec[i].p # 0 \/ rec[i].i # 0 \/ rec[i].d # 0

----------------------------------------------------------------------------
(* A bind: a standing error the I term pushes against and does not beat. *)

AllOn(side, values) == \A k \in DOMAIN values : SignOf(values[k]) = side
Errors == [k \in DOMAIN holds |-> holds[k].error]
IMeans == [k \in DOMAIN holds |-> holds[k].iMean]
IDrifts == [k \in DOMAIN holds |-> holds[k].iDrift]
\* The error over some of the holds, toward the side of the first.
Toward(hs) == Weighted(hs, LAMBDA h : SignOf(holds[1].error) * h.error)
Closing ==
    LET half == Len(holds) \div 2
    IN  100 * Toward(SubSeq(holds, Len(holds) - half + 1, Len(holds)))
        < HeldShare * Toward(SubSeq(holds, 1, half))

\* integratorHeldAgainst
HeldAgainst ==
    LET e == SignOf(holds[1].error)
        i == SignOf(holds[1].iMean)
        total == Summary(holds).iDrift
    IN  \/ e # 0 /\ AllOn(e, Errors) /\ AllOn(e, IMeans)
        \/ /\ i # 0 /\ AllOn(i, IMeans) /\ SignOf(total) = i
           /\ \A k \in 2 .. Len(holds) : Abs(IMeans[k]) >= Abs(IMeans[k - 1])
        \/ /\ e # 0 /\ AllOn(e, Errors) /\ AllOn(e, IDrifts)
           /\ \A k \in DOMAIN holds : Abs(IDrifts[k]) >= MinWinding
           /\ Len(holds) > 1 /\ ~Closing

StandingRefusals == {"NOT_CLEAR_OF_SLOW_MOVEMENT", "NOT_CLEAR_IN_EVERY_HOLD",
                     "CHANGES_SIDE_BETWEEN_HOLDS", "FOLLOWS_COMMAND_DIRECTION"}
Fought ==
    /\ holds # <<>> /\ Standing(Summary(holds))
    /\ Shipped.codes \cap StandingRefusals = {} \/ HeldAgainst
OrZero(x) == IF IsNumber(x) THEN Abs(x) ELSE 0
Winding ==
    With(Summary(holds), LAMBDA s :
        /\ OrZero(s.iDrift) >= MinWinding
        /\ OrZero(s.iDrift) > 0 /\ OrZero(s.iRms) >= WindUp * OrZero(s.iDrift))
Pinned ==
    With(Authority, LAMBDA a :
        LET travel == Weighted(a, LAMBDA x : x.travel)
            toP == Weighted(a, LAMBDA x : x.toP)
        IN  Available /\ IsNumber(travel) /\ travel <= TravelShare
            /\ IsNumber(toP) /\ toP >= TermRatio)
\* Faulty variant: an I term that has stopped at its limit is taken for a small one.
BindWinding == Fought /\ Winding
Bind == Fought /\ (Winding \/ Pinned)

----------------------------------------------------------------------------
(* The finding. *)

Matched == IsNumber(Coupling) /\ Coupling \in 50 .. 200
RippleIsITerm ==
    With(Weighted(Authority, LAMBDA x : x.ofRipple), LAMBDA share :
        IsNumber(share) /\ share >= RippleShare)

\* assessHoldIndication, once the sweep agrees and nothing binds: what keeps a
\* gain from being named, "none" when one is.
NotTheITerm(indication) ==
    IF indication = "decrease" /\ ~Matched THEN "I_TERM_DOES_NOT_OSCILLATE"
    ELSE IF indication \in {"increase", "decrease"} /\ ~Available THEN "I_TERM_NOT_LOGGED"
    ELSE IF indication = "decrease" /\ ~RippleIsITerm THEN "I_TERM_TOO_SMALL_A_SHARE"
    ELSE "none"

\* earnsITermAllClear: nothing may stand beside the measurement of calm.
EarnsAllClear(codes) ==
    "HOLD_EVIDENCE_WITHIN_TOLERANCE" \in codes
    /\ codes \subseteq {"HOLD_EVIDENCE_WITHIN_TOLERANCE", "DRIFT_NOT_SEPARABLE"}

\* A wander below the band: seen as such, or hiding the error it moves.
Wanders(codes) ==
    \/ "SLOW_MOVEMENT_BELOW_BAND" \in codes
    \/ /\ codes \cap {"CHANGES_SIDE_BETWEEN_HOLDS", "NOT_CLEAR_OF_SLOW_MOVEMENT",
                      "NOT_CLEAR_IN_EVERY_HOLD"} # {}
       /\ BelowBand(Summary(holds))

CapturedFinding(indication, codes) ==
    IF "I_TERM_NOT_LOGGED" \in codes THEN "I_TERM_NOT_LOGGED"
    ELSE IF "I_TERM_TOO_SMALL_A_SHARE" \in codes THEN "SLOW_WANDER_NOT_MOSTLY_THE_I_TERM"
    ELSE IF indication = "decrease" THEN "I_TOO_HIGH"
    ELSE IF indication = "increase" THEN "I_TOO_LOW"
    ELSE IF "CONFLICTING_HOLD_SIGNATURES" \in codes THEN "I_TERM_SIGNATURES_CONFLICT"
    ELSE IF "I_TERM_DOES_NOT_OSCILLATE" \in codes \/ Wanders(codes) THEN "SLOW_WANDER_NOT_I_TERM"
    ELSE IF EarnsAllClear(codes) THEN "I_TERM_WITHIN_TOLERANCE" ELSE "I_TERM_NOT_JUDGED"

HoldFinding(airframe) ==
    IF Bind THEN "SUSPECTED_MECHANICAL_BIND"
    ELSE IF ~Captured THEN IF holds = <<>> THEN "NO_HOLD_EVIDENCE" ELSE "HOLD_EVIDENCE_PROVISIONAL"
    ELSE IF "HOLD_KIND_MISMATCH" \in Shipped.codes THEN "I_TERM_HOLDS_MIXED"
    ELSE IF ~SweepStable THEN "I_TERM_VERDICT_UNSTABLE"
    ELSE IF airframe = "blocked" THEN "no finding"
    ELSE With(Shipped, LAMBDA shipped :
         With(NotTheITerm(shipped.indication), LAMBDA why :
            CapturedFinding(IF why = "none" THEN shipped.indication ELSE "hold",
                            shipped.codes \cup Codes(why # "none", why))))

Judge ==
    /\ at = Len(rec) + 2 /\ looked = Len(segments) /\ ~Sweeping /\ advice = "none"
    /\ \E airframe \in {"permitted", "blocked"} : advice' = HoldFinding(airframe)
    /\ UNCHANGED <<flight, at, start, segments, looked, holds, refused, readings>>

Init ==
    /\ flight \in Flights /\ at = 1 /\ start = 0 /\ segments = <<>> /\ looked = 0
    /\ holds = <<>> /\ refused = {} /\ readings = <<>> /\ advice = "none"
Settled == advice # "none" /\ UNCHANGED vars
Next == \/ Missing \/ Open \/ Stay \/ Depart \/ End
        \/ Skip \/ Refuse \/ Count \/ Sweep \/ Judge \/ Settled
Spec == Init /\ [][Next]_vars

----------------------------------------------------------------------------
(* What may rest on the holds of a flight. *)

Quiet(i) == rec[i].off <= OffAxis
\* A hold was entered by a change the log holds and was held: the stick stayed
\* within two bands, the samples of its measured part are all there and the
\* other sticks rested.
HoldsAreHeld ==
    \A k \in DOMAIN holds :
        LET h == holds[k]
            measured == {i \in h.from .. h.to : Time(i) >= Time(h.from) + Settle}
        IN  /\ h.from > 1
            /\ \A i, j \in h.from .. h.to : Abs(Set(i) - Set(j)) <= 2 * Band
            /\ Time(h.to) - Time(h.from) >= Settle + MinMeasure
            /\ \A i \in measured : Quiet(i) /\ (i > Min(measured) => Time(i) - Time(i - 1) <= MaxGap)

\* A hold flown cleanly: entered and left by a clear move, long enough, logged
\* without gaps, at one head speed and one voltage, the other sticks at rest.
Entered(a) == IsNumber(Set(a - 1)) /\ IsNumber(Set(a)) /\ Abs(Set(a) - Set(a - 1)) > 2 * Band
CleanHold(a, b) ==
    /\ Time(b) - Time(a) >= Settle + MinMeasure
    /\ \A i \in a .. b :
          /\ IsNumber(Set(i)) /\ Abs(Set(i) - Set(a)) <= Band
          /\ Quiet(i) /\ rec[i].head = rec[a].head /\ ~Unspun(rec[a].head)
          /\ rec[i].vbat = rec[a].vbat /\ IsNumber(rec[a].vbat)
          /\ i > a => Time(i) - Time(i - 1) \in 1 .. MaxGap
    /\ b < Len(rec) => ~IsNumber(Set(b + 1)) \/ Abs(Set(b + 1) - Set(a)) > Band
\* Whatever was flown around it, a clean hold counts, unless as many are kept.
CleanHoldIsFound ==
    advice # "none" /\ Len(segments) < MaxHolds =>
        \A a \in 2 .. Len(rec) : Entered(a) => \A b \in a + 1 .. Len(rec) :
            CleanHold(a, b) => \E k \in DOMAIN holds : holds[k].from = a /\ holds[k].to = b

\* "Nothing in the I term" is a measurement: over the holds the error neither
\* stood off, nor moved, nor drifted by as much as would have been read.
AllClearIsMeasured ==
    advice = "I_TERM_WITHIN_TOLERANCE" =>
        With(Summary(holds), LAMBDA s :
            /\ Captured /\ s.error <= ErrorDps /\ s.ripple <= RippleDps
            /\ IsNumber(s.drift) => ~(Abs(s.drift) > DriftLimit))

Named == IF advice = "I_TOO_LOW" THEN "increase"
         ELSE IF advice = "I_TOO_HIGH" THEN "decrease" ELSE "none"
\* An I gain is changed only for what every filter that can see it reads at
\* every threshold; it is raised only for an error that keeps one side in
\* three holds and more, and stands above the movement in each of them.
GainIsUnanimous ==
    Named # "none" =>
        \A k \in DOMAIN Filters :
            With(Rebuilt(Filters[k]), LAMBDA hs :
                /\ ~Abstains(Filters[k]) => \A r \in Ripples :
                      Reading(hs, Filters[k], r).indication = Named
                /\ Named = "increase" =>
                      /\ Len(hs) >= MinStanding /\ OneSide([j \in DOMAIN hs |-> hs[j].error])
                      /\ \A j \in DOMAIN hs : Abs(hs[j].error) > hs[j].ripple)

\* No gain is raised against an I term that is winding up, or has stopped, on
\* the side of an error that stays.
NoRaiseIntoABind ==
    advice = "I_TOO_LOW" =>
        \/ ~(AllOn(SignOf(holds[1].error), Errors) /\ AllOn(SignOf(holds[1].error), IMeans))
        \/ /\ \E k \in DOMAIN holds : \E i, j \in Range(Terms(holds[k])) : rec[i].i # rec[j].i
           /\ \E k \in DOMAIN holds : Abs(holds[k].iDrift) < MinWinding
                                      \/ Abs(holds[k].iMean) < WindUp * Abs(holds[k].iDrift)

\* The holds found are holds, and the holds flown are found (measureHolds).
HoldsAreFound == HoldsAreHeld /\ CleanHoldIsFound

\* A gain is named on what every filter reads, and raised only where it can help.
GainIsEarned == GainIsUnanimous /\ NoRaiseIntoABind
=============================================================================
