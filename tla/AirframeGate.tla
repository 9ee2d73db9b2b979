---------------------------- MODULE AirframeGate ----------------------------
(***************************************************************************)
(* The gate that decides whether a vibration measurement lets the advisor  *)
(* look at a gain at all: src/src/analysis/advisor/recommendation-gates.mjs,*)
(* rotorOrderToneAssessment, tonesAboveLevelInPart, evaluateAirframeGate.  *)
(*                                                                         *)
(* A measurement is a record: its status and its own gate, the level it    *)
(* judged tones against (0: none published), what it could say of the      *)
(* rotor, its stretches ({}: measured whole), the reasons it lists and,    *)
(* per axis, the gyro source and the listed peaks.  A peak has a size only *)
(* while it is above the level (0: it never was).  Sizes are whole dps and *)
(* frequencies units of 1/800 Hz, so that every comparison is exact.       *)
(***************************************************************************)
EXTENDS Naturals, FiniteSets

CONSTANTS Axes,            \* AXES: the three axes of the gyro
          CeilingMultiple  \* GAIN_GATE_THRESHOLDS.rotorOrderToneCeilingMultiple

ASSUME GateConstants == /\ IsFiniteSet(Axes) /\ Axes # {}
                        /\ CeilingMultiple \in Nat \ {0}

UnfilteredSources == {"gyroRAW", "gyroUnfilt"}

\* ROTOR_ORDER_TONE_REASONS: an allow list, so an unknown reason keeps the block.
ToneReasons == {"PERSISTENT_NARROWBAND_ENERGY", "MAIN_ROTOR_HARMONIC_CORRELATION",
                "PERSISTENT_NARROWBAND_ENERGY_BELOW_ATTENTION_THRESHOLD"}

NoCeiling == 0
CeilingOf(level) == IF level > 0 THEN CeilingMultiple * level ELSE NoCeiling
PastCeiling(size, level) == CeilingOf(level) # NoCeiling /\ size > CeilingOf(level)

NoMatch == [rotor |-> "none", order |-> 0, offset |-> 0, allowed |-> 0]

IsMainRotorOrder(p) == p.match.rotor = "main" /\ p.match.order \in {1, 2}

\* A match within the bin tolerance is not yet the rotor's: the interpolated
\* frequency has to lie within the head speed's own spread.
MatchEstablished(p) == p.match # NoMatch /\ p.match.offset <= p.match.allowed

ToneSizeMeasured(p) == p.size # 0
ReachedLevel(p, level) == p.size # 0 /\ p.size >= level

JudgedAsRotorOrder(a, p) ==
    /\ a.source \in UnfilteredSources
    /\ IsMainRotorOrder(p) /\ ToneSizeMeasured(p) /\ MatchEstablished(p)

\* Every listed peak, with the axis it was measured on.
PeaksOf(m) == UNION {{[axis |-> x, peak |-> p] : p \in m.axes[x].peaks} : x \in DOMAIN m.axes}

\* oneTonePerAxisAndOrder: the worst tone of every axis and order.
OneTonePerAxisAndOrder(tones) ==
    {t \in tones : \A u \in tones :
        u.axis = t.axis /\ u.peak.match.order = t.peak.match.order
            => u.peak.size <= t.peak.size}

\* What the rule found wrong with an attention result, "" for nothing.
RotorOrderRuleRefusal(m) ==
    LET eligible == {t \in PeaksOf(m) : t.peak.eligible}
    IN  CASE \E c \in m.chunks : c.status \notin {"attention", "clear"} -> "STRETCH_NOT_MEASURED"
          [] m.correlation # "evaluated" -> "ROTOR_NOT_COMPARED"
          [] ~(m.reasons \subseteq ToneReasons) -> "REASON_CODE_OUTSIDE_ALLOW_LIST"
          [] \/ DOMAIN m.axes # Axes
             \/ \E x \in Axes : ~m.axes[x].available \/ m.axes[x].source \notin UnfilteredSources
                                             -> "AXIS_NOT_MEASURED_ON_UNFILTERED_GYRO"
          [] \E x \in Axes : m.axes[x].unlisted # 0 -> "ATTENTION_PEAK_LIST_INCOMPLETE"
          [] \E t \in eligible : ~IsMainRotorOrder(t.peak) -> "ATTENTION_PEAK_NOT_MAIN_ORDER_1_OR_2"
          [] \E t \in eligible : ~ToneSizeMeasured(t.peak) -> "TONE_SIZE_NOT_MEASURED"
          [] eligible = {} -> "NO_ATTENTION_PEAK"
          [] \E t \in eligible : ~MatchEstablished(t.peak) -> "ROTOR_ORDER_MATCH_NOT_ESTABLISHED"
          [] CeilingOf(m.level) = NoCeiling -> "ATTENTION_THRESHOLD_UNKNOWN"
          [] OTHER -> ""

RotorOrderToneAssessment(m) ==
    LET judged == {t \in PeaksOf(m) : JudgedAsRotorOrder(m.axes[t.axis], t.peak)}
        persistent == {t \in judged : t.peak.eligible}
        every == persistent \cup {t \in judged : ReachedLevel(t.peak, m.level)}
        large == \E t \in every : PastCeiling(t.peak.size, m.level)
        ruled == IF m.status = "attention" THEN RotorOrderRuleRefusal(m)
                 ELSE IF large /\ m.status = "clear" THEN "" ELSE "NOT_ATTENTION"
        refuse == [only |-> FALSE, large |-> FALSE, tones |-> {}, refusal |-> ruled]
    IN  CASE large -> [only |-> FALSE, large |-> TRUE, tones |-> OneTonePerAxisAndOrder(every),
                       refusal |-> IF ruled = "" THEN "TONE_ABOVE_SEVERITY_CEILING" ELSE ruled]
          [] ~large /\ ruled # "" -> refuse
          [] OTHER -> [only |-> TRUE, large |-> FALSE,
                       tones |-> OneTonePerAxisAndOrder(persistent), refusal |-> ""]

\* toneAboveLevelInPartBlocks: "" when the tone is small enough to be a remark.
InPartBlocks(a, p, level) ==
    CASE CeilingOf(level) # NoCeiling /\ p.size <= CeilingOf(level) -> ""
      [] PastCeiling(p.size, level) /\ JudgedAsRotorOrder(a, p) -> "MAIN_ROTOR_ORDER_TONE_LARGE"
      [] OTHER -> "MECHANICAL_EVIDENCE_GATE_BLOCKED"

\* Tones above the level for only part of the range: no attention, yet no
\* all-clear either.
TonesAboveLevelInPart(m) ==
    {[axis |-> t.axis, peak |-> t.peak,
      blocks |-> InPartBlocks(m.axes[t.axis], t.peak, m.level)] :
        t \in {u \in PeaksOf(m) : ~u.peak.eligible /\ ReachedLevel(u.peak, m.level)}}

CorrelationCodes(m) ==
    CASE m.correlation = "evaluated" -> {}
      [] m.correlation # "evaluated" /\ \E c \in m.chunks : c.correlation = "evaluated"
           -> {"ROTOR_CORRELATION_PARTIAL"}
      [] m.correlation = "not-evaluated" /\ \A c \in m.chunks : c.correlation # "evaluated"
           -> {"ROTOR_CORRELATION_NOT_ATTEMPTED"}
      [] OTHER -> {"ROTOR_CORRELATION_UNAVAILABLE"}

Outside(times, range) == \E t \in times : t < range[1] \/ t > range[2]

\* evaluateAirframeGate: what blocks, what is only remarked on, and the tones
\* a reader is told about.
EvaluateAirframeGate(m, eventTimes, holdTimes) ==
    LET rotor  == RotorOrderToneAssessment(m)
        inPart == TonesAboveLevelInPart(m)
        asked  == m.gate # "permitted" \/ rotor.large
        codes  ==
            (IF asked /\ rotor.large THEN {"MAIN_ROTOR_ORDER_TONE_LARGE"} ELSE {})
            \cup
            (IF /\ asked /\ ~rotor.only
                /\ ~rotor.large \/ rotor.refusal # "TONE_ABOVE_SEVERITY_CEILING"
             THEN {IF m.status = "attention" THEN "MECHANICAL_EVIDENCE_GATE_BLOCKED"
                   ELSE "MECHANICAL_EVIDENCE_NOT_MEASURED"}
             ELSE {})
            \cup {t.blocks : t \in {u \in inPart : u.blocks = "MECHANICAL_EVIDENCE_GATE_BLOCKED"}}
            \cup CorrelationCodes(m)
            \cup (IF Outside(eventTimes, m.range) THEN {"MECHANICAL_RANGE_EXCLUDES_EVENTS"} ELSE {})
            \cup (IF Outside(holdTimes, m.range) THEN {"MECHANICAL_RANGE_EXCLUDES_HOLDS"} ELSE {})
    IN  [status |-> IF codes = {} THEN "permitted" ELSE "blocked",
         codes |-> codes,
         observations |->
            (IF asked /\ rotor.only
             THEN {"MAIN_ROTOR_ORDER_TONE_ABOVE_EXPERIMENTAL_THRESHOLD"} ELSE {})
            \cup (IF \E t \in inPart : t.blocks = ""
                  THEN {"TONE_ABOVE_ATTENTION_LEVEL_IN_PART"} ELSE {}),
         rotorTones |-> rotor.tones,
         inPart |-> inPart]
=============================================================================
