-------------------------- MODULE MechanicalWindow --------------------------
(***************************************************************************)
(* Measuring vibration over a flight window and what the airframe gate     *)
(* makes of it: src/src/analysis/advisor/mechanical-spectrum.mjs           *)
(* (analyzeMechanicalWindow and everything under it) followed by           *)
(* recommendation-gates.mjs (AirframeGate).  A window too long to measure  *)
(* at once is split into stretches that share their boundary sample; each  *)
(* is measured on its own, between checks for a cancelled request, and the *)
(* results are combined into one.                                          *)
(*                                                                         *)
(* A flight is the samples it holds (ticks), the samples whose gyro is not *)
(* a number on some axis, the source of every axis, the two rotor speeds   *)
(* in Hz and the tones really in it: on which axis, at what frequency, how *)
(* large, and the ticks at which it is above the attention level (loud) or *)
(* present below it (soft); and the ticks at which an axis is noisy        *)
(* between its tones.  The Fourier transform is the step from a tone's     *)
(* ticks to the windows that see it.                                       *)
(*                                                                         *)
(* Quantiles are scaled by 20 and frequencies by 800: every comparison of  *)
(* the code is then one of whole numbers.  What is measured is a function  *)
(* of the flight f and of the range that is looked at.                     *)
(***************************************************************************)
EXTENDS Integers, Sequences, FiniteSets, FiniteSetsExt, SequencesExt, Once, AirframeGate

CONSTANTS
    Flights,          \* the flights a window is measured in
    Level,            \* ATTENTION_BAND_RMS_THRESHOLD_DPS
    MaxInput,         \* MAX_INPUT_SAMPLES = MAX_RESAMPLED_SAMPLES = the duration cap in ms
    MinSamples,       \* 256: the fewest timestamped samples that are measured
    MaxInterval,      \* 20 ms: a lower rate than 50 Hz is refused
    WindowSize,       \* chooseWindowSize: samples in one Welch window, even
    MinWindows,       \* MIN_WELCH_WINDOWS
    Resolution,       \* frequencyResolutionHz
    MinRpmSamples,    \* 20: rotor speed samples needed
    MaxListed,        \* MAX_PEAKS_PER_AXIS
    MaxEscalations,   \* MAX_CHUNK_PLAN_ESCALATIONS
    MaxSearch         \* MAX_CHUNK_PLAN_SEARCH

ASSUME WindowConstants ==
    /\ \A f \in Flights : /\ f.times \subseteq Nat /\ IsFiniteSet(f.times)
                          /\ f.asked \in Nat \X Nat
                          /\ IsFiniteSet(f.tones)
                          /\ \A t \in f.tones : /\ t.axis \in Axes /\ t.hz \in Nat \ {0} /\ t.size \in Nat
                                                /\ t.loud # {} => t.size >= Level
                                                /\ \A u \in f.tones \ {t} :
                                                      u.axis = t.axis => u.hz # t.hz
    /\ Level \in Nat \ {0} /\ MaxInput \in Nat \ {0, 1} /\ MinSamples \in Nat
    /\ WindowSize \in Nat \ {0} /\ WindowSize % 2 = 0 /\ MinWindows \in Nat \ {0}
    /\ Resolution \in Nat \ {0} /\ MaxEscalations \in Nat /\ MaxSearch \in Nat \ {0}
    /\ MaxListed \in Nat

VARIABLES
    flight,      \* what was flown, and the range asked for
    phase,       \* "plan", "measure", "decide", "done", "cancelled", "refused"
    cancelled,   \* the request was overtaken: isCancelled() is true
    minimum,     \* minimumCount
    escalation,  \* how often the plan was made again
    plan,        \* the stretches to measure
    results,     \* what the stretches measured so far gave
    result       \* the one the caller gets

vars == <<flight, phase, cancelled, minimum, escalation, plan, results, result>>

----------------------------------------------------------------------------
(* Arithmetic of the measurement. *)

Ceil(a, b) == (a + b - 1) \div b
\* The members of a set in the order of their ranks under Before.
InOrder(set, Before(_, _)) ==
    With(set, LAMBDA S :
        [i \in 1 .. Cardinality(S) |->
            CHOOSE x \in S : Cardinality({y \in S : Before(y, x)}) = i - 1] \o <<>>)
Sorted(S) == InOrder(S, <)
SortedSeq(seq) ==
    With(seq \o <<>>, LAMBDA s :
        With(InOrder(DOMAIN s, LAMBDA j, k : s[j] < s[k] \/ (s[j] = s[k] /\ j < k)),
             LAMBDA at : [i \in DOMAIN s |-> s[at[i]]] \o <<>>))
Steps(seq) == With(seq, LAMBDA s : SortedSeq([i \in 1 .. Len(s) - 1 |-> s[i + 1] - s[i]]))

\* quantile, scaled by 20: linear between the two nearest ranks.
Quantile(seq, twentieths) ==
    With(seq, LAMBDA s :
        LET at == (Len(s) - 1) * twentieths
            i == at \div 20 + 1
            part == at % 20
        IN  IF part = 0 THEN 20 * s[i] ELSE 20 * s[i] + (s[i + 1] - s[i]) * part)
Median(s) == Quantile(s, 10)

Within(f, range) == {t \in f.times : range[1] <= t /\ t <= range[2]}
Gaps(f, range) == Steps(Sorted(Within(f, range)))

----------------------------------------------------------------------------
(* Splitting a window into stretches that can be measured. *)

\* splitIntoStretches: about as many samples each, sharing boundary samples.
Boundary(s, range, count, k) ==
    CASE k = 0 -> range[1]
      [] k = count -> range[2]
      [] OTHER -> s[1 + (2 * k * (Len(s) - 1) + count) \div (2 * count)]
\* Faulty variant: a stretch begins after the sample the last one ended with.
StretchesApart(s, range, count) ==
    [k \in 1 .. count |->
        <<Boundary(s, range, count, k - 1) + (IF k = 1 THEN 0 ELSE 1), Boundary(s, range, count, k)>>]
Stretches(s, range, count) ==
    [k \in 1 .. count |-> <<Boundary(s, range, count, k - 1), Boundary(s, range, count, k)>>]
Splits(s, range, count) ==
    \A k \in 1 .. count : Boundary(s, range, count, k) > Boundary(s, range, count, k - 1)

StretchFits(f, r) == Cardinality(Within(f, r)) <= MaxInput /\ r[2] - r[1] <= MaxInput

\* planMechanicalStretches: the smallest count from the first guess upwards of
\* which every stretch fits; the last one tried when the search ends first.
PlanFor(f, s, range, least) ==
    LET n == Len(s)
        whole == n <= MaxInput /\ range[2] - range[1] <= MaxInput
        first == Max({2, least, Ceil(n, (MaxInput * 95) \div 100),
                      Ceil((range[2] - range[1]) * 100, MaxInput * 95)})
        tried == {c \in first .. first + MaxSearch - 1 : c < n}
        Ends(c) == \/ ~Splits(s, range, c)
                   \/ \A k \in 1 .. c : StretchFits(f, Stretches(s, range, c)[k])
        ends == {c \in tried : Ends(c)}
        stop == Min(ends)
    IN  IF (whole /\ least <= 1) \/ n < 2 \/ tried = {} THEN <<range>>
        ELSE IF ends = {} THEN Stretches(s, range, Max(tried))
        ELSE IF Splits(s, range, stop) THEN Stretches(s, range, stop)
        ELSE IF stop = first THEN <<range>> ELSE Stretches(s, range, stop - 1)
PlanStretches(f, range, least) ==
    With(Sorted(Within(f, range)), LAMBDA s : PlanFor(f, s, range, least))

----------------------------------------------------------------------------
(* One stretch: the grid it is resampled to, and the windows of the grid.  *)
(* Grid times are doubled, since a median interval may be half a tick.     *)

Grid(f, range) ==
    With(Median(Gaps(f, range)) \div 10, LAMBDA step :
        [from |-> 2 * range[1], step |-> step, samples |-> Sorted(Within(f, range)),
         count |-> (2 * (range[2] - range[1])) \div step + 1])
Point(g, k) == g.from + (k - 1) * g.step

\* resampleLinear: between two neighbouring samples, both numbers, not too far
\* apart.  A sample on the grid point still needs the sample before it.
GridFinite(f, g, x, p) ==
    LET s == g.samples
        n == Len(s)
        before == {i \in 1 .. n : 2 * s[i] < p}
        cursor == IF before = {} THEN 1 ELSE Max(before)
        good(i) == s[i] \notin f.dead[x]
    IN  /\ 2 * s[1] <= p /\ p <= 2 * s[n]
        /\ good(cursor)
        /\ \/ 2 * s[cursor] = p \/ cursor = n
           \/ /\ 2 * (s[cursor + 1] - s[cursor]) <= 4 * g.step
              /\ good(cursor + 1)

\* chooseWindowStarts: half-overlapping windows with no hole in them, on the
\* points of the grid that have a value; a grid has at most MaxInput points.
AxisWindows(f, g, x) ==
    With({k \in 1 .. MaxInput : k <= g.count /\ GridFinite(f, g, x, Point(g, k))}, LAMBDA finite :
    LET possible == {k \in 1 .. MaxInput : /\ (k - 1) % (WindowSize \div 2) = 0
                                           /\ k + WindowSize - 1 <= g.count}
    IN  [axis |-> x, finite |-> finite, possible |-> possible,
         starts |-> {k \in possible : k .. k + WindowSize - 1 \subseteq finite}])

OnTicks(p, ticks) == (p \div 2) \in ticks /\ ((p + 1) \div 2) \in ticks
WindowsIn(g, w, ticks) ==
    {k \in w.starts : \A i \in k .. k + WindowSize - 1 : OnTicks(Point(g, i), ticks)}

----------------------------------------------------------------------------
(* Rotor speed over a stretch, and the rotor order a tone matches. *)

Untrusted(reason) == [trustworthy |-> FALSE, reason |-> reason,
                      hz |-> 0, spread |-> 0]

\* rpmEvidence: enough samples, and a speed that holds still.
RpmEvidence(f, range, speed) ==
    With(With(Sorted({t \in Within(f, range) : speed[t] > 0}),
              LAMBDA at : SortedSeq([i \in DOMAIN at |-> speed[at[i]]])), LAMBDA v :
    LET n == Cardinality(Within(f, range))
        spread == Quantile(v, 19) - Quantile(v, 1)
    IN  CASE v = <<>> /\ \A t \in Within(f, range) : speed[t] < 0 -> Untrusted("FIELD_MISSING")
          [] v = <<>> /\ \E t \in Within(f, range) : speed[t] >= 0 -> Untrusted("NO_VALID_RPM_IN_RANGE")
          [] v # <<>> /\ (Len(v) < MinRpmSamples \/ Len(v) * 10 < n * 8)
                                                -> Untrusted("INSUFFICIENT_COVERAGE")
          [] /\ v # <<>> /\ Len(v) >= MinRpmSamples /\ Len(v) * 10 >= n * 8
             /\ spread * 100 > 12 * Median(v) -> Untrusted("RPM_UNSTABLE_IN_SELECTION")
          [] OTHER -> [trustworthy |-> TRUE, reason |-> "", hz |-> Median(v), spread |-> spread])

RpmSources(f, range) ==
    [main |-> RpmEvidence(f, range, f.head), tail |-> RpmEvidence(f, range, f.tail)]
EvaluatedRotors(rpm) == {r \in {"main", "tail"} : rpm[r].trustworthy}
HarmonicCorrelation(rpm) == IF EvaluatedRotors(rpm) # {} THEN "evaluated" ELSE "unavailable"

Gap(a, b) == IF a > b THEN a - b ELSE b - a

\* One order of one rotor, in 1/800 Hz; the frequency compared is the bin's.
BinHz(hz) == Resolution * ((2 * hz + Resolution) \div (2 * Resolution))
OrderMatch(rpm, hz, r, o) ==
    LET predicted == 40 * rpm[r].hz * o
        spread == 20 * rpm[r].spread * o
    IN  [rotor |-> r, order |-> o,
         delta |-> Gap(800 * BinHz(hz), predicted),
         tolerance |-> Max({1200 * Resolution, rpm[r].hz * o, spread}),
         offset |-> Gap(800 * hz, predicted),
         allowed |-> spread + 400 * Resolution]

\* bestHarmonicMatch: the nearest in units of its own tolerance, the main
\* rotor and the lower order first among equals.
BestHarmonicMatch(rpm, hz) ==
    LET orders == ({"main"} \X (1 .. 8)) \cup ({"tail"} \X (1 .. 6))
        all == {OrderMatch(rpm, hz, ro[1], ro[2]) : ro \in {x \in orders : rpm[x[1]].trustworthy}}
        within == {m \in all : m.delta <= m.tolerance}
        Nearer(m, k) ==
            \/ m.delta * k.tolerance < k.delta * m.tolerance
            \/ /\ m.delta * k.tolerance = k.delta * m.tolerance
               /\ \/ m.rotor = "main" /\ k.rotor = "tail"
                  \/ m.rotor = k.rotor /\ m.order <= k.order
    IN  With(within, LAMBDA ms :
            IF ms = {} THEN NoMatch
            ELSE With(CHOOSE m \in ms : \A k \in ms : Nearer(m, k), LAMBDA best :
                      [rotor |-> best.rotor, order |-> best.order,
                       offset |-> best.offset, allowed |-> best.allowed]))

----------------------------------------------------------------------------
(* The peaks of one axis. *)

RequiredWindows(n) == Max({MinWindows, Ceil(n, 4)})

\* The quarter of the stretch a window starts in.
Quarter(g, k) == Min({3, ((k - 1) * 4) \div (Max({1, g.count - WindowSize}) + 1)})

Rank(S, k) == Cardinality({j \in S : j <= k})
NominalStep(starts) == Median(Steps(Sorted(starts)))

\* attentionEligible: above the level in enough windows, over half the
\* stretch, in three of its quarters and without a long hole.
AttentionEligible(g, starts, above) == With(above, LAMBDA loud : With(Sorted(loud), LAMBDA ks :
    LET n == Cardinality(starts)
        hole == Max({0} \cup {20 * (ks[i + 1] - ks[i]) - NominalStep(starts)
                                : i \in 1 .. Len(ks) - 1})
    IN  /\ loud # {} /\ Cardinality(loud) >= RequiredWindows(n)
        /\ 2 * (Rank(starts, Max(loud)) - Rank(starts, Min(loud)) + 1) >= n
        /\ Cardinality({Quarter(g, k) : k \in loud}) >= 3
        /\ hole * 100 <= 35 * 20 * Max({1, g.count - WindowSize})))

\* sizeWhileAboveLevel is a lower bound when no window has loud neighbours.
IsLowerBound(starts, loud) ==
    LET s == Sorted(starts)
    IN  \A i \in 2 .. Len(s) - 1 : ~({s[i - 1], s[i], s[i + 1]} \subseteq loud)

Candidate(g, w, rpm, tone) ==
    With(WindowsIn(g, w, tone.loud), LAMBDA loud :
    LET present == WindowsIn(g, w, tone.loud \cup tone.soft)
    IN  [hz |-> tone.hz, size |-> IF loud = {} THEN 0 ELSE tone.size,
         windows |-> Cardinality(present),
         persists |-> 2 * Cardinality(present) >= Cardinality(w.starts),
         compared |-> EvaluatedRotors(rpm) # {},
         presence |-> Cardinality(present) >= RequiredWindows(Cardinality(w.starts)),
         eligible |-> AttentionEligible(g, w.starts, loud),
         lowerBound |-> loud # {} /\ IsLowerBound(w.starts, loud),
         match |-> BestHarmonicMatch(rpm, tone.hz)])

\* A tone neither present long enough nor ever above the level is no candidate.
Candidates(f, g, w, rpm) ==
    {c \in {Candidate(g, w, rpm, t) : t \in {u \in f.tones : u.axis = w.axis}} :
        c.presence \/ c.size # 0}

Ranked(cs) ==
    InOrder(cs, LAMBDA a, b : \/ a.windows > b.windows
                              \/ a.windows = b.windows /\ a.hz < b.hz)
TooClose(a, b) ==
    40 * Gap(BinHz(a.hz), BinHz(b.hz)) < Max({80 * Resolution, Min({BinHz(a.hz), BinHz(b.hz)})})

\* Taken in rank order, one that is too close to a tone already taken is not
\* listed.
TakeApart(ranked) ==
    LET upTo[n \in 0 .. Len(ranked)] ==
            IF n = 0 THEN {}
            ELSE IF \E t \in upTo[n - 1] : TooClose(ranked[n], t) THEN upTo[n - 1]
                 ELSE upTo[n - 1] \cup {ranked[n]}
    IN  upTo[Len(ranked)]
\* The first few of the quiet ones that stand apart from what is listed.
TakeQuiet(listed, quiet) ==
    LET upTo[n \in 0 .. Len(quiet)] ==
            IF n = 0 THEN listed
            ELSE IF \/ Cardinality(upTo[n - 1] \ listed) >= MaxListed
                    \/ \E t \in upTo[n - 1] : TooClose(quiet[n], t)
                 THEN upTo[n - 1] ELSE upTo[n - 1] \cup {quiet[n]}
    IN  upTo[Len(quiet)]

\* Faulty variant: eligible tones that could not be listed are not counted.
ListedPeaksUncounted(candidates) ==
    [peaks |-> {c \in candidates : c.eligible
                  /\ \A d \in candidates : d.eligible /\ TooClose(c, d) => c.hz <= d.hz}
               \cup {c \in candidates : ~c.eligible},
     unlisted |-> 0]

\* detectPeaks: every eligible tone that stands apart, every tone that was
\* ever above the level, and the first few quiet ones.
ListedPeaks(candidates) == With(candidates, LAMBDA cs :
    LET eligible == {c \in cs : c.eligible}
        apart == TakeApart(Ranked(eligible))
        loud == {c \in cs : ~c.eligible /\ c.size # 0}
        quiet == Ranked({c \in cs : ~c.eligible /\ c.size = 0})
    IN  [peaks |-> TakeQuiet(apart \cup loud, quiet),
         unlisted |-> Cardinality(eligible) - Cardinality(apart)])

----------------------------------------------------------------------------
(* The result of one stretch: analyzeMechanicalTimeSeries, analyzeCollected. *)

\* The noise between the tones: above the level when it is in half the stretch.
NoFloor == -1
FloorOf(f, range, x) ==
    IF 2 * Cardinality(Within(f, range) \cap f.noisy[x]) >= Cardinality(Within(f, range))
    THEN Level ELSE 0

Unmeasured(f, x) == [source |-> f.source[x], available |-> FALSE, unlisted |-> 0,
                     floor |-> NoFloor, peaks |-> {}]

BaseResult(range, status, reasons) ==
    [range |-> range, status |-> status, reasons |-> reasons,
     gate |-> IF status = "clear" THEN "permitted" ELSE "blocked",
     level |-> Level, correlation |-> "not-evaluated", rotors |-> {},
     chunks |-> {}, axes |-> <<>>, finding |-> ""]

Insufficient(range, reasons, axes) ==
    [BaseResult(range, "insufficient", reasons) EXCEPT
        !.axes = axes, !.finding = "mechanical-analysis-insufficient"]

CapReasons == {"SELECTION_SAMPLE_LIMIT_EXCEEDED", "SELECTION_DURATION_LIMIT_EXCEEDED",
               "RESAMPLED_SAMPLE_LIMIT_EXCEEDED"}

\* The refusals that come before any axis is looked at, in the code's order.
Refusal(f, range) ==
    With(Gaps(f, range), LAMBDA gaps :
    LET n == Cardinality(Within(f, range))
    IN  CASE range[2] - range[1] > MaxInput -> "SELECTION_DURATION_LIMIT_EXCEEDED"
          [] n > MaxInput -> "SELECTION_SAMPLE_LIMIT_EXCEEDED"
          [] n < MinSamples -> "INSUFFICIENT_TIMESTAMPED_SAMPLES"
          [] Median(gaps) > 20 * MaxInterval -> "SAMPLE_RATE_UNAVAILABLE"
          [] Quantile(gaps, 19) > 4 * Median(gaps) -> "TIMING_GAPS_EXCESSIVE"
          [] Grid(f, range).count > MaxInput -> "RESAMPLED_SAMPLE_LIMIT_EXCEEDED"
          [] \E x \in Axes : f.source[x] = "missing" -> "GYRO_FIELDS_MISSING"
          [] OTHER -> "")

\* Three quarters of the range, of the windows and of the points of every axis.
CoverageReasons(f, range) ==
    With(Grid(f, range), LAMBDA g : With([x \in Axes |-> AxisWindows(f, g, x)], LAMBDA w :
    LET span == range[2] - range[1]
        Short(part, all) == 4 * part < 3 * all
        Spanned(S) == IF S = {} THEN 0 ELSE Point(g, Max(S)) - Point(g, Min(S))
        If(code, cond) == IF cond THEN {code} ELSE {}
    IN  If("SELECTED_TIMESTAMP_SPAN_COVERAGE_INSUFFICIENT",
           Short(g.samples[Len(g.samples)] - g.samples[1], span))
        \cup If("INSUFFICIENT_CONTIGUOUS_GYRO_DATA",
                \E x \in Axes : Cardinality(w[x].starts) < MinWindows)
        \cup If("VALID_WINDOW_COVERAGE_INSUFFICIENT",
                \E x \in Axes : \/ w[x].possible = {}
                                \/ Short(Cardinality(w[x].starts), Cardinality(w[x].possible)))
        \cup If("FINITE_GYRO_SAMPLE_COVERAGE_INSUFFICIENT",
                \E x \in Axes : Short(Cardinality(w[x].finite), g.count))
        \cup If("FINITE_GYRO_TIME_SPAN_COVERAGE_INSUFFICIENT",
                \E x \in Axes : Short(Spanned(w[x].finite), 2 * span))))

\* buildFindings: the one sentence the panel gets about a stretch.
FindingOf(axes, correlation) ==
    LET prominent == UNION {{p \in axes[x].peaks : p.eligible \/ p.presence} : x \in Axes}
        eligible == {p \in prominent : p.eligible}
        strongest == {p \in eligible : \A q \in eligible : q.size <= p.size}
    IN  IF prominent = {} THEN {"mechanical-no-persistent-narrowband-peak"}
        ELSE IF eligible = {} THEN {"mechanical-persistent-peak-below-attention-threshold"}
        ELSE {IF p.match # NoMatch
              THEN IF p.match.rotor = "main" THEN "mechanical-persistent-main-rotor-harmonic"
                   ELSE "mechanical-persistent-tail-rotor-harmonic"
              ELSE IF correlation = "evaluated" THEN "mechanical-persistent-unmatched-narrowband-peak"
                   ELSE "mechanical-persistent-narrowband-peak-rotor-correlation-unavailable"
                : p \in strongest}

\* What is compared with which rotor, and the peaks of every axis.
Measured(f, range) ==
    With(RpmSources(f, range), LAMBDA rpm : With(Grid(f, range), LAMBDA g :
         [correlation |-> HarmonicCorrelation(rpm), rotors |-> EvaluatedRotors(rpm),
          listed |-> [x \in Axes |-> ListedPeaks(Candidates(f, g, AxisWindows(f, g, x), rpm))]]))

\* Every peak listed on any axis, and those that call for attention.
Peaks(measured) == UNION {measured.listed[x].peaks : x \in Axes}
Eligible(measured) == {p \in Peaks(measured) : p.eligible}

\* A measurement on filtered gyro can raise the alarm and never clear it.
Unclearable(f, measured) ==
    Eligible(measured) = {} /\ ~(\A x \in Axes : f.source[x] \in UnfilteredSources)

JudgedReasons(f, measured) ==
    LET eligible == Eligible(measured)
        If(code, cond) == IF cond THEN {code} ELSE {}
    IN  If("PERSISTENT_NARROWBAND_ENERGY", eligible # {})
        \cup If("MAIN_ROTOR_HARMONIC_CORRELATION", \E p \in eligible : p.match.rotor = "main")
        \cup If("TAIL_ROTOR_HARMONIC_CORRELATION", \E p \in eligible : p.match.rotor = "tail")
        \cup If("ROTOR_HARMONIC_CORRELATION_UNAVAILABLE",
                eligible # {} /\ measured.correlation # "evaluated")
        \cup If("PERSISTENT_NARROWBAND_ENERGY_BELOW_ATTENTION_THRESHOLD",
                eligible = {} /\ \E p \in Peaks(measured) : p.presence)
        \cup If("FILTERED_GYRO_SOURCE_USED",
                \E x \in Axes : f.source[x] = "gyroADC-filtered")
        \cup If("UNFILTERED_GYRO_REQUIRED_FOR_CLEAR_GATE", Unclearable(f, measured))

JudgedAxes(f, range, measured) ==
    [x \in Axes |->
        IF Unclearable(f, measured) THEN Unmeasured(f, x)
        ELSE [source |-> f.source[x], available |-> TRUE,
              unlisted |-> measured.listed[x].unlisted, floor |-> FloorOf(f, range, x),
              peaks |-> measured.listed[x].peaks]]

\* The judgement once every axis was covered.
JudgedBy(f, range, measured) ==
    LET status == IF Eligible(measured) # {} THEN "attention"
                  ELSE IF Unclearable(f, measured) THEN "insufficient" ELSE "clear"
        axes == JudgedAxes(f, range, measured)
    IN  {[BaseResult(range, status, JudgedReasons(f, measured)) EXCEPT
            !.correlation = measured.correlation, !.rotors = measured.rotors,
            !.axes = axes, !.finding = finding]
           : finding \in IF Unclearable(f, measured)
                        THEN {"mechanical-unfiltered-gyro-required-for-clear-gate"}
                        ELSE FindingOf(axes, measured.correlation)}
Judged(f, range) == With(Measured(f, range), LAMBDA measured : JudgedBy(f, range, measured))

\* One stretch, measured.
Analyzed(f, range) ==
    IF Refusal(f, range) # "" THEN {Insufficient(range, {Refusal(f, range)}, <<>>)}
    ELSE IF CoverageReasons(f, range) # {}
    THEN {Insufficient(range, CoverageReasons(f, range), [x \in Axes |-> Unmeasured(f, x)])}
    ELSE Judged(f, range)

----------------------------------------------------------------------------
(* Several stretches combined into one result: combineMechanicalResults. *)

\* combineHarmonicCorrelation: compared only if every stretch was, by a rotor
\* they all had.
CombinedCorrelation(rs) ==
    LET everyRotor == {r \in {"main", "tail"} : \A i \in DOMAIN rs : r \in rs[i].rotors}
        all == \A i \in DOMAIN rs : rs[i].correlation = "evaluated"
    IN  CASE all /\ everyRotor # {} -> [state |-> "evaluated", rotors |-> everyRotor]
          [] \/ all /\ everyRotor = {}
             \/ \E i \in DOMAIN rs : rs[i].correlation = "unavailable"
                                    -> [state |-> "unavailable", rotors |-> {}]
          [] OTHER -> [state |-> "not-evaluated", rotors |-> {}]

\* combineAxes: an axis is available only if it was in every stretch; its
\* noise is that of the loudest, its peaks are all of theirs.
Uncounted == 99
SumUnlisted(rs, x) ==
    LET upTo[n \in 0 .. Len(rs)] ==
            IF n = 0 THEN 0 ELSE upTo[n - 1] + rs[n].axes[x].unlisted
    IN  upTo[Len(rs)]
CombinedAxes(f, rs) ==
    LET Has(i, x) == x \in DOMAIN rs[i].axes
        named == {x \in Axes : \E i \in DOMAIN rs : Has(i, x)}
        Avail(x) == \A i \in DOMAIN rs : Has(i, x) /\ rs[i].axes[x].available
    IN  [x \in named |->
           [source |-> f.source[x], available |-> Avail(x),
            unlisted |-> IF Avail(x) THEN SumUnlisted(rs, x) ELSE Uncounted,
            floor |-> IF Avail(x) THEN Max({rs[i].axes[x].floor : i \in DOMAIN rs}) ELSE NoFloor,
            peaks |-> UNION {rs[i].axes[x].peaks : i \in {j \in DOMAIN rs : Has(j, x)}}]]

CombineMechanicalResults(f, rs, range) ==
    LET Some(s) == \E i \in DOMAIN rs : rs[i].status = s
        All(s)  == \A i \in DOMAIN rs : rs[i].status = s
        correlation == CombinedCorrelation(rs)
    IN  [BaseResult(range, IF Some("attention") THEN "attention"
                           ELSE IF All("clear") THEN "clear" ELSE "insufficient",
                    UNION {rs[i].reasons : i \in DOMAIN rs}) EXCEPT
            !.gate = IF \A i \in DOMAIN rs : rs[i].gate = "permitted"
                     THEN "permitted" ELSE "blocked",
            !.correlation = correlation.state, !.rotors = correlation.rotors,
            !.chunks = {[status |-> rs[i].status, correlation |-> rs[i].correlation,
                         range |-> rs[i].range] : i \in DOMAIN rs},
            !.axes = CombinedAxes(f, rs), !.finding = ""]

\* peakRotorAttribution: what the vibration panel calls a peak.
Attribution(p, correlation) ==
    CASE p.match # NoMatch /\ p.match.offset <= p.match.allowed -> "explained"
      [] p.match # NoMatch /\ ~(p.match.offset <= p.match.allowed) -> "near-order"
      [] p.match = NoMatch /\ correlation = "evaluated" -> "not-explained"
      [] OTHER -> "not-checked"

----------------------------------------------------------------------------
(* The request: analyzeMechanicalWindow. *)

Gate == EvaluateAirframeGate(result, flight.stops, flight.holds)

HitsChunkCap(r) == r.reasons \cap CapReasons # {}
FinalAttempt == escalation >= MaxEscalations

Init ==
    /\ flight \in Flights
    /\ phase = "plan" /\ cancelled = FALSE
    /\ minimum = 1 /\ escalation = 0
    /\ plan = <<>> /\ results = <<>> /\ result = <<>>

\* A newer window overtakes the request; it is noticed at the next check.
Cancel ==
    /\ phase \in {"plan", "measure", "decide"} /\ ~cancelled
    /\ cancelled' = TRUE
    /\ UNCHANGED <<flight, phase, minimum, escalation, plan, results, result>>

\* ANALYSIS_CANCELLED: thrown by the check at the head of every stretch.
Abandon ==
    /\ cancelled /\ phase \in {"plan", "measure"} /\ (phase = "plan" => escalation = 0)
    /\ phase' = "cancelled"
    /\ UNCHANGED <<flight, cancelled, minimum, escalation, plan, results, result>>

\* normalizeRange: a range outside the session is an error of the caller.
RefuseRange ==
    /\ phase = "plan" /\ escalation = 0 /\ ~cancelled
    /\ \/ flight.asked[1] >= flight.asked[2]
       \/ flight.asked[1] < Min(flight.times) \/ flight.asked[2] > Max(flight.times)
    /\ phase' = "refused"
    /\ UNCHANGED <<flight, cancelled, minimum, escalation, plan, results, result>>

Plan ==
    /\ phase = "plan" /\ (escalation = 0 => ~cancelled)
    /\ Min(flight.times) <= flight.asked[1] /\ flight.asked[1] < flight.asked[2]
    /\ flight.asked[2] <= Max(flight.times)
    /\ plan' = PlanStretches(flight, flight.asked, minimum)
    /\ results' = <<>>
    /\ phase' = "measure"
    /\ UNCHANGED <<flight, cancelled, minimum, escalation, result>>

\* The next stretch; a plan of one measures the range as it was asked.
Measure ==
    /\ phase = "measure" /\ ~cancelled
    /\ \E r \in Analyzed(flight, plan[Len(results) + 1]) : results' = Append(results, r)
    /\ phase' = IF Len(results) + 1 = Len(plan) THEN "decide" ELSE "measure"
    /\ UNCHANGED <<flight, cancelled, minimum, escalation, plan, result>>

\* Enough: nothing hit a cap, or the plan may not be made again.
Deliver ==
    /\ phase = "decide"
    /\ FinalAttempt \/ \A i \in DOMAIN results : ~HitsChunkCap(results[i])
    /\ result' = IF Len(results) = 1 THEN results[1]
                 ELSE CombineMechanicalResults(flight, results, flight.asked)
    /\ phase' = "done"
    /\ UNCHANGED <<flight, cancelled, minimum, escalation, plan, results>>

\* Faulty variant: the plan is made again for as many stretches as before.
EscalateInVain ==
    /\ phase = "decide"
    /\ \E i \in DOMAIN results : HitsChunkCap(results[i])
    /\ phase' = "plan"
    /\ UNCHANGED <<flight, cancelled, minimum, escalation, plan, results, result>>

\* A stretch hit a cap the plan could not foresee: split into more.
Escalate ==
    /\ phase = "decide" /\ ~FinalAttempt
    /\ \E i \in DOMAIN results : HitsChunkCap(results[i])
    /\ minimum' = IF Len(plan) = 1 THEN 2 ELSE Len(plan) + 1
    /\ escalation' = escalation + 1
    /\ phase' = "plan"
    /\ UNCHANGED <<flight, cancelled, plan, results, result>>

Settled == phase \in {"done", "cancelled", "refused"} /\ UNCHANGED vars

Step == Abandon \/ RefuseRange \/ Plan \/ Measure \/ Deliver \/ Escalate
Next == Cancel \/ Step \/ Settled
Spec == Init /\ [][Next]_vars /\ WF_vars(Step)

----------------------------------------------------------------------------
(* Properties. *)

\* The stretches of a plan cover the window that was asked for with nothing
\* between them and nothing measured twice but the boundary samples, whatever
\* the samples' spacing and however often the plan was made again.
StretchesTile ==
    phase \in {"measure", "decide", "done"} =>
        /\ plan[1][1] = flight.asked[1] /\ plan[Len(plan)][2] = flight.asked[2]
        /\ \A i \in DOMAIN plan : plan[i][1] < plan[i][2]
        /\ \A i \in 1 .. Len(plan) - 1 : /\ plan[i][2] = plan[i + 1][1]
                                         /\ plan[i][2] \in flight.times

\* What the flight really did in one stretch: the windows in which a tone was
\* above the level, and whether it persisted.
Loud(f, range, t) ==
    With(Grid(f, range), LAMBDA g : WindowsIn(g, AxisWindows(f, g, t.axis), t.loud))
Persists(f, range, t) ==
    With(Grid(f, range), LAMBDA g :
        AttentionEligible(g, AxisWindows(f, g, t.axis).starts, Loud(f, range, t)))

\* An advisor that is let through saw the whole window: every stretch of it
\* was measured on unfiltered gyro and compared with a rotor, every tone that
\* was above the level in any stretch is within the ceiling, and one that
\* persisted is the main rotor's first or second order by the tighter test.
GateSeesEveryTone ==
    phase = "done" /\ Gate.status = "permitted" =>
        /\ \A x \in Axes : flight.source[x] \in UnfilteredSources
        /\ \A i \in DOMAIN plan :
              /\ Refusal(flight, plan[i]) = "" /\ CoverageReasons(flight, plan[i]) = {}
              /\ EvaluatedRotors(RpmSources(flight, plan[i])) # {}
              /\ \A t \in flight.tones :
                    /\ Loud(flight, plan[i], t) # {} => t.size <= CeilingMultiple * Level
                    /\ Persists(flight, plan[i], t) =>
                          LET m == BestHarmonicMatch(RpmSources(flight, plan[i]), t.hz)
                          IN  m.rotor = "main" /\ m.order \in {1, 2} /\ m.offset <= m.allowed

\* A pass without a remark is an all-clear, and there is one only when no
\* tone was above the level for as much as a single window.
UnremarkedMeansQuiet ==
    phase = "done" /\ Gate.status = "permitted" /\ Gate.observations = {} =>
        \A i \in DOMAIN plan, t \in flight.tones : Loud(flight, plan[i], t) = {}

\* The panel's green "main 1/rev" and the gate's exception are decided by two
\* functions: no tone is the rotor's in one and not in the other.
PanelAgreesWithGate ==
    phase = "done" =>
        \A t \in Gate.rotorTones : Attribution(t.peak, result.correlation) = "explained"

\* A request that is not overtaken gets an answer: making the plan again ends.
EveryRequestEnds == <>(phase \in {"done", "cancelled", "refused"})

\* The gate judges everything in the window, and calls it what the panel does.
GateIsComplete == GateSeesEveryTone /\ UnremarkedMeansQuiet /\ PanelAgreesWithGate
=============================================================================
