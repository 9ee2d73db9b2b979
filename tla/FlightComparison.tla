--------------------------- MODULE FlightComparison ---------------------------
(***************************************************************************)
(* What two flights are said to show (compareFlightRecords,                *)
(* src/analysis/flight-history.mjs): the candidate against the baseline    *)
(* selectBaseline finds for it.  FlightSaves has names for what a header   *)
(* and the holds of a flight say; an experiment says what the names stand  *)
(* for: the firmware, rates and gain lines of each header, the holds of    *)
(* each figure.  Errors are in hundredths of a degree per second.  The     *)
(* stops are shown and never judged; texts and reasons are left out, a     *)
(* refusal being one value.                                                *)
(***************************************************************************)
EXTENDS FlightSaves, Integers

CONSTANTS Axes,          \* AXES
          HoldPart,      \* the part that carries an open's holds
          Floor,         \* SENSITIVITY_FLOOR_DPS of each axis
          Tolerance,     \* 1 / comparisonToleranceRatio
          SpeedSpread,   \* 1 / maximumHeadspeedVariationRatio
          MinimumHolds,  \* minimumComparisonHolds
          Experiments    \* what the headers and figures may stand for

\* What an experiment says of a header and of a figure: lines of numbers on every
\* axis, and the error held on every axis.
ASSUME ComparisonAssumption ==
    /\ HoldPart \in Parts /\ IsFiniteSet(Axes) /\ Floor \in [Axes -> Nat]
    /\ \A x \in Experiments, f \in Flights :
           /\ x.gains[Header[f]] \in [Axes -> Seq(Nat)]
           /\ \A axis \in Axes : x.holds[Figure[f][HoldPart]][axis].error \in Nat

Unreadable == "unreadable"
Terms == <<"P", "I", "D">>
NoTerm == "no term"

\* describeGainChanges could read every line (one it could not is empty here),
\* and the lines have one shape.
GainsComparable(before, after) ==
    \A axis \in Axes : /\ Len(before[axis]) >= Len(Terms)
                       /\ Len(before[axis]) = Len(after[axis])

\* Where two sets of lines differ: in P, I, D or what the header adds to them.
Changed(before, after) ==
    UNION {{axis} \X {i \in DOMAIN before[axis] : before[axis][i] # after[axis][i]} : axis \in Axes}

\* Refused before anything measured is read: not a controlled pair.  A record
\* that is not stored has no ordinal, and compares as the later one.  Several
\* gains at once are refused, whether few or as many as a switched profile has.
Refused(x, before, after) ==
    \/ before.aircraft # after.aircraft
    \/ "ordinal" \in DOMAIN before \cap DOMAIN after /\ before.ordinal >= after.ordinal
    \/ Unreadable \in {x.firmware[before.header], x.firmware[after.header],
                       x.rates[before.header], x.rates[after.header]}
    \/ x.firmware[before.header] # x.firmware[after.header]
    \/ x.rates[before.header] # x.rates[after.header]
    \/ ~GainsComparable(x.gains[before.header], x.gains[after.header])
    \/ Cardinality(Changed(x.gains[before.header], x.gains[after.header])) > 1

TermAt(i) == IF i <= Len(Terms) THEN Terms[i] ELSE "other"

\* Faulty variant: the one change is credited on every axis.
AttributedTermAnywhere(changes, axis) ==
    IF changes = {} THEN NoTerm ELSE TermAt((CHOOSE c \in changes : TRUE)[2])

\* The term an axis' movement may be attributed to: attribution is per axis.
AttributedTerm(changes, axis) ==
    LET here == {c \in changes : c[1] = axis}
    IN IF here = {} THEN NoTerm ELSE TermAt((CHOOSE c \in here : TRUE)[2])

Size(n) == IF n < 0 THEN -n ELSE n
Larger(m, n) == IF m > n THEN m ELSE n

\* headspeedComparable: a speed that is not known does not match.
HeadspeedComparable(from, to) ==
    LET largest == Larger(from.speed, to.speed)
    IN from.speed # 0 /\ to.speed # 0 /\ Size(to.speed - from.speed) * SpeedSpread <= largest

\* Both sides captured, with enough holds of one kind at one head speed.
HoldsComparable(from, to) ==
    /\ from.count >= MinimumHolds /\ to.count >= MinimumHolds
    /\ from.kind = to.kind /\ from.kind # "mixed"
    /\ HeadspeedComparable(from, to)

\* Both floors: the axis' own, and a share of what it was.
ClearsFloors(axis, from, to) ==
    LET moved == Size(to.error - from.error)
    IN moved > Floor[axis] /\ from.error # 0 /\ moved * Tolerance > from.error

\* compareAxisHold.
CompareAxisHold(axis, from, to, term) ==
    IF ~HoldsComparable(from, to) \/ term \notin {"I", NoTerm} THEN "not enough evidence"
    ELSE IF ~ClearsFloors(axis, from, to) THEN "no detectable change"
    ELSE IF term = NoTerm THEN "not attributable"
    ELSE IF to.error < from.error THEN "improved" ELSE "worsened"

\* compareFlightRecords: the outcome on each axis.
CompareFlightRecords(x, before, after) ==
    IF Refused(x, before, after) \/ Absent \in {before.parts[HoldPart], after.parts[HoldPart]}
    THEN [axis \in Axes |-> "not enough evidence"]
    ELSE LET changes == Changed(x.gains[before.header], x.gains[after.header])
             from == x.holds[before.parts[HoldPart]]
             to == x.holds[after.parts[HoldPart]]
         IN [axis \in Axes |->
                CompareAxisHold(axis, from[axis], to[axis], AttributedTerm(changes, axis))]

-----------------------------------------------------------------------------
(* Property.                                                              *)

Held(x, r, axis) == x.holds[Figure[FlightOf(r)][HoldPart]][axis]

\* Two records of different flights differ in the I of one axis and nothing else,
\* and its error is measured on both and moved.
Earned(x, before, after, axis) ==
    LET f == FlightOf(before)
        g == FlightOf(after)
        was == Held(x, before, axis)
        is == Held(x, after, axis)
    IN /\ f # g
       /\ Absent \notin {before.parts[HoldPart], after.parts[HoldPart]}
       /\ x.firmware[Header[f]] = x.firmware[Header[g]]
       /\ x.rates[Header[f]] = x.rates[Header[g]]
       /\ x.gains[Header[f]][axis][2] # x.gains[Header[g]][axis][2]
       /\ x.gains[Header[f]] = [x.gains[Header[g]] EXCEPT
                                   ![axis][2] = x.gains[Header[f]][axis][2]]
       /\ was.count >= MinimumHolds /\ is.count >= MinimumHolds
       /\ was.kind = is.kind
       /\ Size(is.error - was.error) > Floor[axis]

\* A flight is credited with an improvement, or blamed for the opposite, on an
\* axis only when the pilot changed the I of that axis and nothing else
\* between two different flights whose holds were both read, and its error
\* moved that way past its floor: whatever other axes did, whatever was saved,
\* forgotten or read anew in between (compareFlightRecords; its first draft
\* credited a roll result to a yaw gain).
CreditIsEarned ==
    LET before == SelectBaseline(hist, cand).baseline IN
    (cand # NoRecord /\ before # NoRecord) =>
        \A x \in Experiments, axis \in Axes :
            LET verdict == CompareFlightRecords(x, before, cand)[axis]
                was == Held(x, before, axis)
                is == Held(x, cand, axis)
            IN verdict \in {"improved", "worsened"} =>
                   /\ Earned(x, before, cand, axis)
                   /\ verdict = "improved" <=> is.error < was.error
                   /\ verdict = "worsened" <=> is.error > was.error
=============================================================================
