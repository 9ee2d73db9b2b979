---------------------------- MODULE AdviceProofs ----------------------------
(***************************************************************************)
(* Proofs about the order of findings and the page of advice, for every    *)
(* flight, whatever its axes gave and whatever the thresholds.  The order:  *)
(* for every sequence of findings the first action exists whenever there   *)
(* is one, at most one adjustment is said, none with a blocker above it,   *)
(* nothing but adjustments is held back, and an adjustment nothing stands  *)
(* in the way of is said.  The page: types; it keeps what OneChange         *)
(* promises; a block by the airframe is always explained by a card; no gain *)
(* is named over an airframe that was not cleared, nor for the rotor's own   *)
(* vibration; the governor is blamed when the stretches say so.  The        *)
(* measurement under it: its stretches tile the window, and the gate hears  *)
(* of every tone of the flight.  The holds: those counted were held and     *)
(* those flown cleanly are counted, an all clear of the I term is a         *)
(* measurement, and a gain is named on what every filter reads.             *)
(***************************************************************************)
EXTENDS Advice, WellFoundedInduction, SequenceTheorems, FiniteSetTheorems, TLAPS

-----------------------------------------------------------------------------
(* The order of findings.                                                   *)

\* A set of numbers that is not empty has a smallest.
LEMMA SmallestOfSet ==
    ASSUME NEW S, S \subseteq Nat, S # {}
    PROVE  \E m \in S : \A n \in S : m <= n
<1> DEFINE R == OpToRel(<, Nat)
<1>1. IsWellFoundedOn(R, Nat)
  BY NatLessThanWellFounded
<1>2. \A m, n \in Nat : n < m => <<n, m>> \in R
  BY DEF OpToRel
<1> HIDE DEF R
<1>3. PICK m \in S : \A n \in S : <<n, m>> \notin R
  BY <1>1, WFMin
<1>4. \A n \in S : m <= n
  <2> TAKE n \in S
  <2>1. m \in Nat /\ n \in Nat
    OBVIOUS
  <2>2. ~ (n < m)
    BY <1>2, <1>3, <2>1, Zenon
  <2> QED  BY <2>1, <2>2
<1> QED  BY <1>4

\* Every rung has a place in the order: RUNGS.indexOf, or past the last.
LEMMA RungOrderIsNat ==
    ASSUME NEW rung
    PROVE  RungOrder(rung) \in Nat
<1>1. Len(Rungs) \in Nat
  BY DEF Rungs
<1>2. CASE \E k \in 1 .. Len(Rungs) : Rungs[k] = rung
  BY <1>1, <1>2 DEF RungOrder
<1>3. CASE ~ \E k \in 1 .. Len(Rungs) : Rungs[k] = rung
  BY <1>1, <1>3 DEF RungOrder
<1> QED  BY <1>2, <1>3

\* Any findings that there are have a first one: the lowest rung, then the
\* one made first.
LEMMA FirstExists ==
    ASSUME NEW f, NEW S, S \subseteq Nat, S # {}
    PROVE  \E i \in S : \A j \in S : Before(f, i, j)
<1> DEFINE Order(i) == RungOrder(f[i].rung)
           Heights  == {Order(i) : i \in S}
<1>1. \A i : Order(i) \in Nat
  BY RungOrderIsNat
<1>2. PICK low \in Heights : \A h \in Heights : low <= h
  <2>1. Heights \subseteq Nat /\ Heights # {}
    BY <1>1
  <2> QED  BY <2>1, SmallestOfSet
<1> DEFINE Lowest == {i \in S : Order(i) = low}
<1>3. PICK i \in Lowest : \A j \in Lowest : i <= j
  <2>1. Lowest \subseteq Nat /\ Lowest # {}
    BY <1>2
  <2> QED  BY <2>1, SmallestOfSet
<1>4. \A j \in S : Before(f, i, j)
  <2> SUFFICES ASSUME NEW j \in S
               PROVE  Before(f, i, j)
    OBVIOUS
  <2>1. Order(i) = low /\ low <= Order(j)
    BY <1>2, <1>3
  <2>2. Order(j) = low => i <= j
    BY <1>3
  <2>3. Order(i) \in Nat /\ Order(j) \in Nat
    BY <1>1
  <2>4. Order(i) < Order(j) \/ (Order(i) = Order(j) /\ i <= j)
    <3> HIDE DEF Order
    <3> QED  BY <2>1, <2>2, <2>3
  <2> QED  BY <2>4 DEF Before, Above
<1> QED  BY <1>3, <1>4

\* With something to be done, the primary action is one of the actions and
\* comes before all of them.
LEMMA PrimaryIsFirst ==
    ASSUME NEW f, DOMAIN f \subseteq Nat, Actions(f) # {}
    PROVE  /\ PrimaryAction(f) \in Actions(f)
           /\ \A j \in Actions(f) : Before(f, PrimaryAction(f), j)
<1>1. Actions(f) \subseteq Nat
  BY DEF Actions, Kept
<1>2. \E i \in Actions(f) : \A j \in Actions(f) : Before(f, i, j)
  BY <1>1, FirstExists
<1> QED  BY <1>2 DEF PrimaryAction

\* An adjustment that is said is the primary action, and nothing is above it.
LEMMA SaidIsPrimary ==
    ASSUME NEW f, DOMAIN f \subseteq Nat \ {0},
           NEW i \in Returned(f), f[i].kind = "adjustment"
    PROVE  /\ i = PrimaryAction(f)
           /\ i \in Actions(f)
           /\ \A b \in Blockers(f) : ~Above(f, b, i)
<1>1. i = PrimaryAction(f) /\ i \in DOMAIN f
  BY DEF Returned, Kept
<1>2. Actions(f) # {}
  BY <1>1 DEF PrimaryAction, Nobody
<1>3. i \in Actions(f)
  BY <1>1, <1>2, PrimaryIsFirst
<1> QED  BY <1>1, <1>3 DEF Actions

\* An action exists whenever an adjustment does and nothing blocks anything.
LEMMA UnblockedActions ==
    ASSUME NEW f, Blockers(f) = {}
    PROVE  Actions(f) = Adjustments(f)
BY DEF Actions, Kept, Adjustments, BlockedAbove

-----------------------------------------------------------------------------
(* The page of advice.                                                      *)

Ranks == {Rungs[k] : k \in DOMAIN Rungs}

\* A list of findings of known rungs and kinds, about the machine or about an
\* axis of A.
IsFinding(g, A) == g.rung \in Ranks /\ g.axis \in A \cup {NoAxis} /\ g.kind \in FindingKinds
IsFindings(s, A) == \E S : s \in Seq(S) /\ \A g \in S : IsFinding(g, A)

LEMMA FindingsOf ==
    ASSUME NEW A, NEW S, NEW s \in Seq(S), \A g \in S : IsFinding(g, A)
    PROVE  IsFindings(s, A)
BY Zenon DEF IsFindings

LEMMA NoFindings ==
    ASSUME NEW A
    PROVE  IsFindings(<<>>, A)
<1>1. PICK S : S = {}
  OBVIOUS
<1>2. <<>> \in Seq(S) /\ \A g \in S : IsFinding(g, A)
  BY <1>1
<1> QED  BY <1>2, FindingsOf

LEMMA OneFinding ==
    ASSUME NEW A, NEW g, IsFinding(g, A)
    PROVE  IsFindings(<<g>>, A)
<1>1. PICK S : S = {g}
  OBVIOUS
<1>2. <<g>> \in Seq(S) /\ \A h \in S : IsFinding(h, A)
  BY <1>1
<1> QED  BY <1>2, FindingsOf

LEMMA MoreFindings ==
    ASSUME NEW A, NEW s, NEW t, IsFindings(s, A), IsFindings(t, A)
    PROVE  /\ IsFindings(s \o t, A)
           /\ Len(s) <= Len(s \o t)
           /\ DOMAIN s \subseteq DOMAIN (s \o t)
           /\ \A i \in DOMAIN s : (s \o t)[i] = s[i]
<1>1. PICK S : s \in Seq(S) /\ \A g \in S : IsFinding(g, A)
  BY DEF IsFindings
<1>2. PICK T : t \in Seq(T) /\ \A g \in T : IsFinding(g, A)
  BY DEF IsFindings
<1>3. s \in Seq(S \cup T) /\ t \in Seq(S \cup T)
  BY <1>1, <1>2, SeqMonotonic
<1>4. \A g \in S \cup T : IsFinding(g, A)
  BY <1>1, <1>2
<1>5. s \o t \in Seq(S \cup T)
  BY <1>3, ConcatProperties
<1>6. IsFindings(s \o t, A)
  BY <1>4, <1>5, Zenon DEF IsFindings
<1>7. Len(s) <= Len(s \o t) /\ DOMAIN s \subseteq DOMAIN (s \o t)
  BY <1>3, <1>5, ConcatProperties, LenProperties
<1>8. \A i \in DOMAIN s : (s \o t)[i] = s[i]
  BY <1>3, ConcatProperties, LenProperties
<1> QED  BY <1>6, <1>7, <1>8

LEMMA IfIsFindings ==
    ASSUME NEW A, NEW s, IsFindings(s, A), NEW c
    PROVE  IsFindings(If(c, s), A)
BY NoFindings DEF If

LEMMA SaysIsFindings ==
    ASSUME NEW A, NEW id, NEW kind \in FindingKinds
    PROVE  IsFindings(AirframeSays(id, kind), A) /\ IsFindings(HeadSays(id, kind), A)
<1>1. "airframe" \in Ranks /\ "headspeed" \in Ranks
  BY DEF Ranks, Rungs
<1>2. /\ IsFinding(Finding(id, "airframe", NoAxis, kind), A)
      /\ IsFinding(Finding(id, "headspeed", NoAxis, kind), A)
  BY <1>1 DEF Finding, IsFinding
<1> QED  BY <1>2, OneFinding DEF AirframeSays, HeadSays

LEMMA AirframeFindingsType ==
    ASSUME NEW A, NEW v
    PROVE  IsFindings(AirframeFindings(v), A)
<1>1. \A id : /\ IsFindings(AirframeSays(id, "observation"), A)
              /\ \A c : IsFindings(If(c, AirframeSays(id, "next-flight")), A)
              /\ \A c : IsFindings(If(c, AirframeSays(id, "blocker")), A)
  BY SaysIsFindings, IfIsFindings DEF FindingKinds
<1>2. \A s, t : IsFindings(s, A) /\ IsFindings(t, A) => IsFindings(s \o t, A)
  BY MoreFindings
<1>3. ASSUME NEW upstream
      PROVE  IsFindings(PermittedFindings(upstream), A)
  BY <1>1, <1>2 DEF PermittedFindings
<1>4. ASSUME NEW upstream, NEW codes
      PROVE  IsFindings(BlockedFindings(upstream, codes), A)
  <2>1. \A id, c : IsFindings(Card(id, c), A)
    BY <1>1 DEF Card
  <2>2. IsFindings(VibrationFindings(upstream, codes), A) /\ IsFindings(RangeFindings(codes), A)
    BY <2>1, <1>2 DEF VibrationFindings, RangeFindings
  <2> QED  BY <2>1, <2>2, <1>2 DEF BlockedFindings
<1> QED  BY <1>3, <1>4 DEF AirframeFindings

LEMMA HeadspeedFindingsType ==
    ASSUME NEW A
    PROVE  IsFindings(HeadspeedFindings, A)
<1>1. \A id : /\ IsFindings(HeadSays(id, "observation"), A)
              /\ IsFindings(HeadSays(id, "next-flight"), A)
              /\ IsFindings(HeadSays(id, "blocker"), A)
              /\ \A c : IsFindings(If(c, HeadSays(id, "observation")), A)
  BY SaysIsFindings, IfIsFindings DEF FindingKinds
<1>2. \A s, t : IsFindings(s, A) /\ IsFindings(t, A) => IsFindings(s \o t, A)
  BY MoreFindings
<1>3. ASSUME NEW segments, NEW codes
      PROVE  IsFindings(HeadspeedSays(segments, codes), A)
  <2>1. IsFindings(HeadspeedVerdict(segments, codes), A)
    BY <1>1 DEF HeadspeedVerdict
  <2> QED  BY <2>1, <1>1, <1>2 DEF HeadspeedSays
<1> QED  BY <1>3 DEF HeadspeedFindings, With

LEMMA ShapeFindingType ==
    ASSUME NEW A, NEW x \in A
    PROVE  IsFinding(ShapeFinding(x), A)
<1>1. {"gain-P", "gain-D", "axis-mechanical"} \subseteq Ranks
  BY DEF Ranks, Rungs
<1>2. \A id : /\ IsFinding(Finding(id, "gain-P", x, "adjustment"), A)
              /\ IsFinding(Finding(id, "gain-P", x, "next-flight"), A)
              /\ IsFinding(Finding(id, "gain-D", x, "adjustment"), A)
              /\ IsFinding(Finding(id, "gain-D", x, "next-flight"), A)
              /\ IsFinding(Finding(id, "gain-D", x, "observation"), A)
              /\ IsFinding(Finding(id, "axis-mechanical", x, "next-flight"), A)
  BY <1>1 DEF Finding, IsFinding, FindingKinds
<1>3. IsFinding(NotStopped(x), A)
  BY <1>2 DEF NotStopped
<1>4. IsFinding(Ringing(x), A)
  BY <1>2 DEF Ringing, ToneFinding
<1>5. IsFinding(Overshoot(x), A)
  BY <1>2 DEF Overshoot, ToneFinding
<1> QED  BY <1>2, <1>3, <1>4, <1>5 DEF ShapeFinding

LEMMA HoldFindingsType ==
    ASSUME NEW A, NEW x \in A
    PROVE  IsFindings(HoldFindings(x), A)
<1>1. {"axis-mechanical", "evidence", "gain-I"} \subseteq Ranks
  BY DEF Ranks, Rungs
<1>2. \A id : /\ IsFindings(<<Finding(id, "axis-mechanical", x, "blocker")>>, A)
              /\ IsFindings(<<Finding(id, "evidence", x, "next-flight")>>, A)
              /\ \A kind \in FindingKinds : IsFindings(<<Finding(id, "gain-I", x, kind)>>, A)
  BY <1>1, OneFinding DEF Finding, IsFinding, FindingKinds
<1>3. \A id \in DOMAIN HoldReadings : HoldReadings[id] \in FindingKinds
  BY DEF HoldReadings, FindingKinds
<1> QED  BY <1>2, <1>3, NoFindings DEF HoldFindings

LEMMA AxisFindingsType ==
    ASSUME NEW A, NEW x \in A
    PROVE  IsFindings(AxisFindings(x), A)
<1>1. {"axis-mechanical", "evidence"} \subseteq Ranks
  BY DEF Ranks, Rungs
<1>2. \A id : /\ IsFindings(<<Finding(id, "axis-mechanical", x, "blocker")>>, A)
              /\ IsFindings(<<Finding(id, "evidence", x, "observation")>>, A)
              /\ IsFindings(<<Finding(id, "evidence", x, "next-flight")>>, A)
  BY <1>1, OneFinding DEF Finding, IsFinding, FindingKinds
<1>3. IsFindings(<<ShapeFinding(x)>>, A)
  BY ShapeFindingType, OneFinding
<1>4. \A id, c : /\ IsFindings(If(c, <<Finding(id, "axis-mechanical", x, "blocker")>>), A)
                 /\ IsFindings(If(c, <<Finding(id, "evidence", x, "observation")>>), A)
                 /\ IsFindings(If(c, <<Finding(id, "evidence", x, "next-flight")>>), A)
                 /\ IsFindings(If(c, <<ShapeFinding(x)>>), A)
  BY <1>2, <1>3, IfIsFindings
<1>5. \A s, t : IsFindings(s, A) /\ IsFindings(t, A) => IsFindings(s \o t, A)
  BY MoreFindings
<1> QED  BY <1>4, <1>5, HoldFindingsType DEF AxisFindings

----------------------------------------------------------------------------
(* The inductive invariant.  The findings are about axes that were read, so *)
(* none may be made before the axes are: Collect replaces them.             *)

LEMMA FindingsAreFindings ==
    ASSUME NEW A, NEW s, IsFindings(s, A)
    PROVE  /\ DOMAIN s \subseteq Nat \ {0} /\ Len(s) \in Nat
           /\ \A i \in DOMAIN s : IsFinding(s[i], A)
<1>1. PICK S : s \in Seq(S) /\ \A g \in S : IsFinding(g, A)
  BY DEF IsFindings
<1>2. Len(s) \in Nat /\ DOMAIN s = 1 .. Len(s) /\ \A i \in DOMAIN s : s[i] \in S
  BY <1>1, LenProperties, ElementOfSeq
<1> QED  BY <1>1, <1>2

LEMMA KnownRank ==
    ASSUME NEW r \in Ranks
    PROVE  RungOrder(r) < Len(Rungs)
<1>1. DOMAIN Rungs = 1 .. Len(Rungs) /\ Len(Rungs) = 8
  BY DEF Rungs
<1>2. \E k \in 1 .. Len(Rungs) : Rungs[k] = r
  BY <1>1 DEF Ranks
<1>3. (CHOOSE k \in 1 .. Len(Rungs) : Rungs[k] = r) \in 1 .. Len(Rungs)
  BY <1>2
<1> QED  BY <1>1, <1>2, <1>3 DEF RungOrder

IInv ==
    /\ stage \in {"measuring", "airframe", "headspeed", "axes", "told"}
    /\ stage # "measuring" => phase = "done"
    /\ stage = "measuring" => found = <<>>
    /\ turn \in 1 .. Len(AxisOrder) + 1
    /\ airframe \in {"", "permitted", "blocked"}
    /\ IsFindings(found, DOMAIN axes)
    /\ stage # "told" => said = {}
    /\ said \subseteq DOMAIN found

LEMMA IInvHolds == AdviceSpec => []IInv
<1> USE AdviceConstants
<1>0. Len(AxisOrder) \in Nat
  BY LenProperties DEF AdviceConstants
<1>1. AdviceInit => IInv
  <2>1. IsFindings(<<>>, DOMAIN <<>>) /\ 1 \in 1 .. Len(AxisOrder) + 1
    BY <1>0, NoFindings
  <2> QED  BY <2>1 DEF AdviceInit, IInv
<1>2. IInv /\ [AdviceNext]_allVars => IInv'
  <2> SUFFICES ASSUME IInv, [AdviceNext]_allVars
               PROVE  IInv'
    OBVIOUS
  <2>1. CASE MeasureVibration
    <3>1. phase # "done"
      BY <2>1 DEF MeasureVibration, Step, Abandon, RefuseRange, Plan, Measure, Deliver, Escalate
    <3> QED  BY <2>1, <3>1 DEF MeasureVibration, IInv, adviceVars
  <2>2. CASE Collect
    <3>1. IsFindings(<<>>, DOMAIN axes')
      BY NoFindings
    <3> QED  BY <2>2, <3>1 DEF Collect, IInv, vars
  <2>3. CASE JudgeAirframe
    <3>1. PICK v : /\ airframe' = IF v.codes = {} THEN "permitted" ELSE "blocked"
                   /\ found' = found \o AirframeFindings(v)
      BY <2>3 DEF JudgeAirframe
    <3>2. IsFindings(found', DOMAIN axes) /\ DOMAIN found \subseteq DOMAIN found'
      BY <3>1, AirframeFindingsType, MoreFindings DEF IInv
    <3> QED  BY <2>3, <3>1, <3>2 DEF JudgeAirframe, IInv, vars
  <2>4. CASE JudgeHeadspeed
    <3>1. IsFindings(found', DOMAIN axes) /\ DOMAIN found \subseteq DOMAIN found'
      BY <2>4, HeadspeedFindingsType, MoreFindings DEF JudgeHeadspeed, IInv
    <3> QED  BY <2>4, <3>1 DEF JudgeHeadspeed, IInv, vars
  <2>5. CASE JudgeAxis
    <3>1. IsFindings(found', DOMAIN axes) /\ DOMAIN found \subseteq DOMAIN found'
      BY <2>5, AxisFindingsType, MoreFindings DEF JudgeAxis, IInv
    <3>2. turn \in 1 .. Len(AxisOrder) + 1 /\ turn <= Len(AxisOrder) /\ turn' = turn + 1
      BY <2>5 DEF JudgeAxis, IInv
    <3>3. turn' \in 1 .. Len(AxisOrder) + 1
      BY <1>0, <3>2
    <3> QED  BY <2>5, <3>1, <3>3 DEF JudgeAxis, IInv, vars
  <2>6. CASE SkipAxis
    <3>1. turn \in 1 .. Len(AxisOrder) + 1 /\ turn <= Len(AxisOrder) /\ turn' = turn + 1
      BY <2>6 DEF SkipAxis, IInv
    <3>2. turn' \in 1 .. Len(AxisOrder) + 1
      BY <1>0, <3>1
    <3> QED  BY <2>6, <3>2 DEF SkipAxis, IInv, vars
  <2>7. CASE Tell
    <3>1. said' \subseteq DOMAIN found
      BY <2>7 DEF Tell, Returned, Kept
    <3> QED  BY <2>7, <3>1 DEF Tell, IInv, vars
  <2>8. CASE NoMore \/ UNCHANGED allVars
    BY <2>8 DEF NoMore, allVars, adviceVars, vars, IInv
  <2> QED  BY <2>1, <2>2, <2>3, <2>4, <2>5, <2>6, <2>7, <2>8 DEF AdviceNext, Advise
<1> QED  BY <1>1, <1>2, PTL DEF AdviceSpec

\* Findings are of known rungs and kinds and about axes that were read; only
\* what was found is shown (buildRecommendations).
THEOREM AdviceTypeCorrect == AdviceSpec => []AdviceTypeOK
<1>1. IInv => AdviceTypeOK
  <2> SUFFICES ASSUME IInv
               PROVE  AdviceTypeOK
    OBVIOUS
  <2>1. \A i \in DOMAIN found : IsFinding(found[i], DOMAIN axes)
    BY FindingsAreFindings DEF IInv
  <2>2. \A i \in DOMAIN found : /\ found[i].kind \in FindingKinds
                                /\ RungOrder(found[i].rung) < Len(Rungs)
                                /\ found[i].axis \in DOMAIN axes \cup {NoAxis}
    BY <2>1, KnownRank DEF IsFinding
  <2> QED  BY <2>2 DEF AdviceTypeOK, IInv
<1> QED  BY <1>1, IInvHolds, PTL

----------------------------------------------------------------------------
(* The page promises what OneChange asks of it. *)

\* The abstract module ranks findings as this one does.
LEMMA SameOrder ==
    /\ OneChangeAtATime!Blockers(found) = Blockers(found)
    /\ OneChangeAtATime!Adjustments(found) = Adjustments(found)
    /\ \A i, j : OneChangeAtATime!Above(found, i, j) <=> Above(found, i, j)
    /\ \A i, j : OneChangeAtATime!Before(found, i, j) <=> Before(found, i, j)
<1>1. \A rung : OneChangeAtATime!RungOrder(rung) = RungOrder(rung)
  BY DEF OneChangeAtATime!RungOrder, RungOrder, OneChangeAtATime!Rungs, Rungs
<1>2. \A i, j : OneChangeAtATime!Above(found, i, j) <=> Above(found, i, j)
  BY <1>1 DEF OneChangeAtATime!Above, Above
<1> QED  BY <1>1, <1>2 DEF OneChangeAtATime!Blockers, Blockers, OneChangeAtATime!Adjustments,
                           Adjustments, OneChangeAtATime!Before, Before

\* A step of the advisor finds more or writes the page, and the page holds one
\* adjustment, the first to make, with nothing wrong above it.
THEOREM AdviceIsOneChange == AdviceSpec => ImplementsOneChange
<1>1. AdviceInit => OneChangeAtATime!Init
  BY DEF AdviceInit, OneChangeAtATime!Init
<1>2. IInv /\ [AdviceNext]_allVars => [OneChangeAtATime!Next]_(OneChangeAtATime!vars)
  <2> SUFFICES ASSUME IInv, [AdviceNext]_allVars
               PROVE  OneChangeAtATime!Find \/ OneChangeAtATime!Tell \/ UNCHANGED OneChangeAtATime!vars
    BY DEF OneChangeAtATime!Next
  <2>1. IsFindings(found, DOMAIN axes)
    BY DEF IInv
  <2>2. ASSUME NEW more, IsFindings(more, DOMAIN axes), found' = found \o more,
               stage # "told", stage' # "told", said' = said
        PROVE  OneChangeAtATime!Find
    BY <2>1, <2>2, MoreFindings DEF OneChangeAtATime!Find
  <2>3. CASE MeasureVibration \/ Collect \/ SkipAxis
    BY <2>3 DEF MeasureVibration, Collect, SkipAxis, adviceVars, OneChangeAtATime!vars
  <2>4. CASE JudgeAirframe
    <3>1. PICK v : found' = found \o AirframeFindings(v)
      BY <2>4 DEF JudgeAirframe
    <3> QED  BY <2>2, <2>4, <3>1, AirframeFindingsType DEF JudgeAirframe
  <2>5. CASE JudgeHeadspeed
    BY <2>2, <2>5, HeadspeedFindingsType DEF JudgeHeadspeed
  <2>6. CASE JudgeAxis
    BY <2>2, <2>6, AxisFindingsType DEF JudgeAxis
  <2>7. CASE Tell
    <3>1. DOMAIN found \subseteq Nat \ {0}
      BY <2>1, FindingsAreFindings
    <3>2. stage = "axes" /\ stage' = "told" /\ found' = found /\ said' = Returned(found)
      BY <2>7 DEF Tell
    <3>3. OneChangeAtATime!OnlyChangesHeldBack(said')
      BY <3>2, SameOrder DEF OneChangeAtATime!OnlyChangesHeldBack, Returned, Kept, Adjustments
    <3>4. OneChangeAtATime!OneAdjustment(said')
      BY <3>1, <3>2, SaidIsPrimary DEF OneChangeAtATime!OneAdjustment
    <3>5. OneChangeAtATime!NothingAbove(said')
      BY <3>1, <3>2, SaidIsPrimary, SameOrder DEF OneChangeAtATime!NothingAbove
    <3>6. OneChangeAtATime!SomethingToDo(said')
      <4> SUFFICES ASSUME Blockers(found) = {}, Adjustments(found) # {}
                   PROVE  \E i \in said' \cap Adjustments(found) :
                              \A j \in Adjustments(found) : Before(found, i, j)
        BY SameOrder DEF OneChangeAtATime!SomethingToDo
      <4>1. Actions(found) = Adjustments(found)
        BY UnblockedActions
      <4>2. /\ PrimaryAction(found) \in Adjustments(found)
            /\ \A j \in Adjustments(found) : Before(found, PrimaryAction(found), j)
        BY <3>1, <4>1, PrimaryIsFirst
      <4>3. PrimaryAction(found) \in said'
        BY <3>2, <4>2 DEF Returned, Kept, Adjustments, BlockedAbove
      <4> QED  BY <4>2, <4>3
    <3> QED  BY <3>2, <3>3, <3>4, <3>5, <3>6 DEF OneChangeAtATime!Tell
  <2>8. CASE NoMore \/ UNCHANGED allVars
    BY <2>8 DEF NoMore, allVars, adviceVars, OneChangeAtATime!vars
  <2> QED  BY <2>3, <2>4, <2>5, <2>6, <2>7, <2>8 DEF AdviceNext, Advise
<1> QED  BY <1>1, <1>2, IInvHolds, PTL DEF AdviceSpec, ImplementsOneChange, OneChangeAtATime!Spec

----------------------------------------------------------------------------
(* An airframe that stops the advice is always explained.                  *)

HasCard(s) == \E i \in DOMAIN s : s[i].kind = "blocker" /\ s[i].rung = "airframe"

LEMMA CardStays ==
    ASSUME NEW A, NEW s, NEW t, IsFindings(s, A), IsFindings(t, A), HasCard(s) \/ HasCard(t)
    PROVE  HasCard(s \o t)
<1>1. PICK S : s \in Seq(S)
  BY DEF IsFindings
<1>2. PICK T : t \in Seq(T)
  BY DEF IsFindings
<1>3. s \in Seq(S \cup T) /\ t \in Seq(S \cup T)
  BY <1>1, <1>2, SeqMonotonic
<1>4. DOMAIN (s \o t) = 1 .. Len(s) + Len(t) /\ Len(s) \in Nat /\ Len(t) \in Nat
      /\ DOMAIN s = 1 .. Len(s) /\ DOMAIN t = 1 .. Len(t)
  BY <1>3, ConcatProperties, LenProperties
<1>5. CASE HasCard(s)
  BY <1>5, MoreFindings DEF HasCard
<1>6. CASE HasCard(t)
  <2>1. PICK j \in DOMAIN t : t[j].kind = "blocker" /\ t[j].rung = "airframe"
    BY <1>6 DEF HasCard
  <2>2. Len(s) + j \in 1 .. Len(s) + Len(t) /\ ~ (Len(s) + j <= Len(s)) /\ Len(s) + j - Len(s) = j
    BY <1>4
  <2>3. (s \o t)[Len(s) + j] = t[j]
    BY <1>3, <2>2, ConcatProperties
  <2> QED  BY <1>4, <2>1, <2>2, <2>3 DEF HasCard
<1> QED  BY <1>5, <1>6

LEMMA AssessedAirframe ==
    LET upstream == EvaluateAirframeGate(result, EventTimes(axes), HoldTimes(flight, axes))
    IN  AssessAirframe = [upstream |-> upstream, codes |-> upstream.codes \cup BroadbandCodes]
BY DEF AssessAirframe, With

\* Every code the gate or the noise between the tones can raise has a card.
LEMMA BlockHasCard ==
    ASSUME AssessAirframe.codes # {}
    PROVE  HasCard(AirframeFindings(AssessAirframe))
<1> DEFINE upstream == EvaluateAirframeGate(result, EventTimes(axes), HoldTimes(flight, axes))
           codes == AssessAirframe.codes
           unexplained == {t \in upstream.inPart : t.blocks = "MECHANICAL_EVIDENCE_GATE_BLOCKED"}
           vibration == /\ "MECHANICAL_EVIDENCE_GATE_BLOCKED" \in codes
                        /\ result.status = "attention" \/ unexplained # {}
<1>1. /\ AssessAirframe.upstream = upstream
      /\ codes = upstream.codes \cup BroadbandCodes
  BY AssessedAirframe
<1>2. \A c \in codes :
        \/ c \in {"MAIN_ROTOR_ORDER_TONE_LARGE", "BROADBAND_ABOVE_ATTENTION_THRESHOLD",
                  "BROADBAND_NOT_MEASURED", "MECHANICAL_EVIDENCE_NOT_MEASURED",
                  "ROTOR_CORRELATION_PARTIAL", "ROTOR_CORRELATION_UNAVAILABLE",
                  "ROTOR_CORRELATION_NOT_ATTEMPTED", "MECHANICAL_RANGE_EXCLUDES_EVENTS",
                  "MECHANICAL_RANGE_EXCLUDES_HOLDS"}
        \/ vibration
  <2>1. BroadbandCodes \subseteq {"BROADBAND_NOT_MEASURED", "BROADBAND_ABOVE_ATTENTION_THRESHOLD"}
    BY DEF BroadbandCodes
  <2>2. CorrelationCodes(result) \subseteq {"ROTOR_CORRELATION_PARTIAL",
            "ROTOR_CORRELATION_UNAVAILABLE", "ROTOR_CORRELATION_NOT_ATTEMPTED"}
    BY DEF CorrelationCodes
  <2>3. \A c \in upstream.codes :
          \/ c \in {"MAIN_ROTOR_ORDER_TONE_LARGE", "MECHANICAL_EVIDENCE_NOT_MEASURED",
                    "MECHANICAL_RANGE_EXCLUDES_EVENTS", "MECHANICAL_RANGE_EXCLUDES_HOLDS"}
          \/ c \in CorrelationCodes(result)
          \/ c = "MECHANICAL_EVIDENCE_GATE_BLOCKED" /\ (result.status = "attention" \/ unexplained # {})
    BY DEF EvaluateAirframeGate
  <2> QED  BY <1>1, <2>1, <2>2, <2>3
<1>3. AirframeFindings(AssessAirframe) = BlockedFindings(upstream, codes)
  BY <1>1 DEF AirframeFindings
<1>4. \A id, c : /\ IsFindings(Card(id, c), {})
                 /\ c => HasCard(Card(id, c))
  <2>1. \A id, c : IsFindings(Card(id, c), {})
    BY SaysIsFindings, IfIsFindings DEF FindingKinds, Card
  <2>2. \A id : HasCard(AirframeSays(id, "blocker"))
    BY DEF HasCard, AirframeSays, Finding
  <2> QED  BY <2>1, <2>2 DEF If, Card
<1>5. \A s, t : IsFindings(s, {}) /\ IsFindings(t, {}) => IsFindings(s \o t, {})
  BY MoreFindings
<1>6. \A s, t : IsFindings(s, {}) /\ IsFindings(t, {}) /\ (HasCard(s) \/ HasCard(t)) => HasCard(s \o t)
  BY CardStays
<1> DEFINE first == Card("AIRFRAME_ROTOR_ORDER_TONE_LARGE", "MAIN_ROTOR_ORDER_TONE_LARGE" \in codes)
                    \o Card("AIRFRAME_BROADBAND_ELEVATED",
                            "BROADBAND_ABOVE_ATTENTION_THRESHOLD" \in codes)
           vibrates == VibrationFindings(upstream, codes)
           ranges == RangeFindings(codes)
           rest == vibrates \o ranges
           hidden == Card("AIRFRAME_UNFILTERED_GYRO_MISSING", TRUE)
<1>7. BlockedFindings(upstream, codes) = first \o IF FilteredSource THEN hidden ELSE rest
  BY DEF BlockedFindings
<1>8. /\ IsFindings(first, {}) /\ IsFindings(hidden, {})
      /\ IsFindings(vibrates, {}) /\ IsFindings(ranges, {}) /\ IsFindings(rest, {})
  <2> HIDE DEF codes
  <2>1. IsFindings(vibrates, {}) /\ IsFindings(ranges, {})
    BY <1>4, <1>5 DEF VibrationFindings, RangeFindings
  <2> QED  BY <2>1, <1>4, <1>5
<1>9. HasCard(hidden)
  BY <1>4
<1>10. HasCard(first) \/ HasCard(rest)
  <2>1. PICK c \in codes : TRUE
    OBVIOUS
  <2>2. CASE c \in {"MAIN_ROTOR_ORDER_TONE_LARGE", "BROADBAND_ABOVE_ATTENTION_THRESHOLD"}
    <3> HIDE DEF codes
    <3> QED  BY <1>4, <1>6, <2>1, <2>2
  <2>3. CASE vibration \/ c \in {"BROADBAND_NOT_MEASURED", "MECHANICAL_EVIDENCE_NOT_MEASURED"}
    <3>1. HasCard(vibrates)
      <4> HIDE DEF codes
      <4> QED  BY <1>4, <1>6, <2>1, <2>3 DEF VibrationFindings
    <3> QED  BY <3>1, <1>6, <1>8
  <2>4. CASE c \in {"ROTOR_CORRELATION_PARTIAL", "ROTOR_CORRELATION_UNAVAILABLE",
                    "ROTOR_CORRELATION_NOT_ATTEMPTED", "MECHANICAL_RANGE_EXCLUDES_EVENTS",
                    "MECHANICAL_RANGE_EXCLUDES_HOLDS"}
    <3>1. HasCard(ranges)
      <4> HIDE DEF codes
      <4> QED  BY <1>4, <1>5, <1>6, <2>1, <2>4 DEF RangeFindings
    <3> QED  BY <3>1, <1>6, <1>8
  <2> QED  BY <1>2, <2>1, <2>2, <2>3, <2>4
<1> HIDE DEF first, rest, hidden
<1> QED  BY <1>3, <1>6, <1>7, <1>8, <1>9, <1>10

IInvCard ==
    /\ IsFindings(found, DOMAIN axes)
    /\ stage \in {"measuring", "airframe"} => airframe = ""
    /\ airframe = "blocked" => HasCard(found)

\* Whenever the airframe stops the advice, a card says what is wrong with it:
\* no code of evaluateAirframeGate or of the noise floor is without its text.
THEOREM BlocksAreExplained == AdviceSpec => []BlockIsExplained
<1>1. AdviceInit => IInvCard
  BY NoFindings DEF AdviceInit, IInvCard
<1>2. IInv /\ IInvCard /\ IInv' /\ [AdviceNext]_allVars => IInvCard'
  <2> SUFFICES ASSUME IInv, IInvCard, IInv', [AdviceNext]_allVars
               PROVE  IInvCard'
    OBVIOUS
  <2>1. IsFindings(found', DOMAIN axes')
    BY DEF IInv
  <2>2. ASSUME NEW more, IsFindings(more, DOMAIN axes), found' = found \o more,
               HasCard(found) \/ HasCard(more)
        PROVE  HasCard(found')
    BY <2>2, CardStays DEF IInvCard
  <2>3. CASE MeasureVibration \/ SkipAxis \/ Tell \/ NoMore \/ UNCHANGED allVars
    BY <2>1, <2>3 DEF MeasureVibration, SkipAxis, Tell, NoMore, allVars, adviceVars, IInvCard
  <2>4. CASE Collect
    BY <2>1, <2>4 DEF Collect, IInvCard
  <2>5. CASE JudgeAirframe
    <3>1. /\ airframe' = IF AssessAirframe.codes = {} THEN "permitted" ELSE "blocked"
          /\ found' = found \o AirframeFindings(AssessAirframe)
          /\ stage' = "headspeed"
      BY <2>5 DEF JudgeAirframe
    <3>2. airframe' = "blocked" => HasCard(found')
      BY <2>2, <3>1, BlockHasCard, AirframeFindingsType
    <3> QED  BY <2>1, <3>1, <3>2 DEF IInvCard
  <2>6. CASE JudgeHeadspeed
    BY <2>1, <2>2, <2>6, HeadspeedFindingsType DEF JudgeHeadspeed, IInvCard
  <2>7. CASE JudgeAxis
    BY <2>1, <2>2, <2>7, AxisFindingsType DEF JudgeAxis, IInvCard
  <2> QED  BY <2>3, <2>4, <2>5, <2>6, <2>7 DEF AdviceNext, Advise
<1>3. IInvCard => BlockIsExplained
  BY DEF IInvCard, HasCard, BlockIsExplained, Blockers
<1> QED  BY <1>1, <1>2, <1>3, IInvHolds, PTL DEF AdviceSpec

----------------------------------------------------------------------------
(* A plan splits the window into stretches that tile it.                   *)

\* In a finite set of numbers one has each rank.
LEMMA EveryRank ==
    ASSUME NEW S, S \subseteq Nat, IsFiniteSet(S), NEW i \in 1 .. Cardinality(S)
    PROVE  \E x \in S : Cardinality({y \in S : y < x}) = i - 1
<1> DEFINE Below(x) == {y \in S : y < x}
           Has(j) == \E x \in S : Cardinality(Below(x)) = j - 1
           bad == {j \in 1 .. Cardinality(S) : ~Has(j)}
<1>1. Cardinality(S) \in Nat
  BY FS_CardinalityType
<1>2. \A x \in S : IsFiniteSet(Below(x)) /\ Cardinality(Below(x)) \in Nat /\ x \notin Below(x)
  <2> TAKE x \in S
  <2>1. Below(x) \subseteq S
    OBVIOUS
  <2>2. IsFiniteSet(Below(x))
    BY <2>1, FS_Subset
  <2>3. Cardinality(Below(x)) \in Nat
    BY <2>2, FS_CardinalityType
  <2> QED  BY <2>2, <2>3
<1>3. \A x \in S : Cardinality(Below(x) \cup {x}) = Cardinality(Below(x)) + 1
  <2> TAKE x \in S
  <2> HIDE DEF Below
  <2> QED  BY <1>2, FS_AddElement
<1>4. SUFFICES bad = {}
  BY <1>4
<1>5. SUFFICES ASSUME bad # {} PROVE FALSE
  OBVIOUS
<1>6. PICK m \in bad : \A j \in bad : m <= j
  <2>1. bad \subseteq Nat
    OBVIOUS
  <2> HIDE DEF bad
  <2> QED  BY <1>5, <2>1, SmallestOfSet
<1>7. m \in 1 .. Cardinality(S) /\ ~Has(m)
  OBVIOUS
<1>8. CASE m = 1
  <2>1. S # {}
    BY <1>7, <1>1, FS_EmptySet
  <2>2. PICK x \in S : \A y \in S : x <= y
    BY <2>1, SmallestOfSet
  <2>3. Below(x) = {}
    <3>1. \A y \in S : ~(y < x)
      BY <2>2
    <3> QED  BY <3>1
  <2>4. Cardinality(Below(x)) = 0
    BY <2>3, FS_EmptySet
  <2> QED  BY <1>7, <1>8, <2>4
<1>9. CASE m # 1
  <2>1. m - 1 \in 1 .. Cardinality(S) /\ ~(m <= m - 1)
    BY <1>1, <1>7, <1>9
  <2>2. Has(m - 1)
    BY <1>6, <2>1
  <2>3. PICK x \in S : Cardinality(Below(x)) = m - 2
    <3>1. m \in Nat /\ m - 1 - 1 = m - 2
      BY <1>7
    <3> QED  BY <2>2, <3>1
  <2> DEFINE above == {y \in S : x < y}
  <2>4. Cardinality(Below(x) \cup {x}) = m - 1
    BY <1>3, <1>7, <2>3
  <2>5. above # {}
    <3>1. SUFFICES ASSUME above = {} PROVE FALSE
      OBVIOUS
    <3>2. Below(x) \cup {x} = S
      <4>1. \A y \in S : y < x \/ y = x
        BY <3>1
      <4> QED  BY <4>1
    <3>3. Cardinality(S) = m - 1
      BY <2>4, <3>2
    <3>4. m <= Cardinality(S)
      BY <1>1, <1>7
    <3> HIDE DEF Below
    <3> QED  BY <1>1, <3>3, <3>4
  <2>6. PICK z \in above : \A y \in above : z <= y
    <3>1. above \subseteq Nat
      OBVIOUS
    <3> HIDE DEF above
    <3> QED  BY <2>5, <3>1, SmallestOfSet
  <2>7. Below(z) = Below(x) \cup {x}
    <3>1. \A y \in S : y < z <=> y < x \/ y = x
      <4> TAKE y \in S
      <4>1. x \in Nat /\ y \in Nat /\ z \in Nat /\ x < z /\ (x < y => z <= y)
        BY <2>6
      <4> QED  BY <4>1
    <3> QED  BY <2>6, <3>1
  <2> QED  BY <1>7, <2>4, <2>6, <2>7
<1> QED  BY <1>8, <1>9

LEMMA SortedIs ==
    ASSUME NEW S
    PROVE  Sorted(S) = [i \in 1 .. Cardinality(S) |->
                           CHOOSE x \in S : Cardinality({y \in S : y < x}) = i - 1] \o <<>>
<1> DEFINE F(T) == [i \in 1 .. Cardinality(T) |->
                       CHOOSE x \in T : Cardinality({y \in T : y < x}) = i - 1] \o <<>>
<1>1. Sorted(S) = CHOOSE z \in {F(T) : T \in {S}} : TRUE
  BY DEF Sorted, InOrder, With
<1> HIDE DEF F
<1>2. Sorted(S) = F(S)
  BY <1>1
<1> QED  BY <1>2 DEF F

LEMMA SortedMembers ==
    ASSUME NEW S, S \subseteq Nat, IsFiniteSet(S)
    PROVE  Sorted(S) \in Seq(S) /\ Len(Sorted(S)) = Cardinality(S)
<1> DEFINE n == Cardinality(S)
           f == [i \in 1 .. n |-> CHOOSE x \in S : Cardinality({y \in S : y < x}) = i - 1]
<1>1. n \in Nat
  BY FS_CardinalityType
<1>2. \A i \in 1 .. n : f[i] \in S
  BY EveryRank
<1> HIDE DEF f
<1>3. f \in Seq(S) /\ Len(f) = n
  <2>1. f \in [1 .. n -> S]
    BY <1>2 DEF f
  <2> HIDE DEF n
  <2> QED  BY <1>1, <2>1
<1>4. Sorted(S) = f \o <<>>
  BY SortedIs DEF f
<1> QED  BY <1>3, <1>4, ConcatEmptySeq

\* Division rounds down.
LEMMA QuotientBound ==
    ASSUME NEW a \in Nat, NEW b \in Nat \ {0}, NEW c \in Nat, a < b * (c + 1)
    PROVE  a \div b \in Nat /\ a \div b <= c
<1> DEFINE q == a \div b
<1>1. q \in Nat /\ b * q <= a
  OBVIOUS
<1>2. q <= c
  <2>1. SUFFICES ASSUME q >= c + 1 PROVE FALSE
    BY <1>1
  <2> HIDE DEF q
  <2>2. b * (c + 1) <= b * q
    BY <1>1, <2>1
  <2> QED  BY <1>1, <2>2
<1> QED  BY <1>1, <1>2

\* The largest of a set of numbers that has a bound.
LEMMA LargestOfSet ==
    ASSUME NEW S, S \subseteq Nat, S # {}, NEW n \in Nat, \A x \in S : x <= n
    PROVE  Max(S) \in S /\ \A x \in S : x <= Max(S)
<1> DEFINE gaps == {n - x : x \in S}
<1>1. gaps \subseteq Nat /\ gaps # {}
  OBVIOUS
<1>2. PICK g \in gaps : \A h \in gaps : g <= h
  <2> HIDE DEF gaps
  <2> QED  BY <1>1, SmallestOfSet
<1>3. PICK x \in S : g = n - x
  BY <1>2
<1>4. \A y \in S : y <= x
  <2> TAKE y \in S
  <2>1. n - y \in gaps
    OBVIOUS
  <2>2. n - x <= n - y
    BY <1>2, <1>3, <2>1
  <2>3. x \in Nat /\ y \in Nat
    OBVIOUS
  <2> QED  BY <2>2, <2>3
<1> QED  BY <1>4 DEF Max

LEMMA MinOfSet ==
    ASSUME NEW S, S \subseteq Nat, S # {}
    PROVE  Min(S) \in S /\ \A x \in S : Min(S) <= x
BY SmallestOfSet DEF Min

LEMMA CeilIsNat ==
    ASSUME NEW a \in Nat, NEW b \in Nat \ {0}
    PROVE  Ceil(a, b) \in Nat
BY DEF Ceil

\* A boundary between two stretches is one of the window's samples.
LEMMA BoundaryIsSample ==
    ASSUME NEW T, NEW s \in Seq(T), NEW range, NEW c \in Nat, 2 <= c, c < Len(s),
           NEW k \in 1 .. c - 1
    PROVE  Boundary(s, range, c, k) \in T
<1> DEFINE n == Len(s)
           i == (2 * k * (n - 1) + c) \div (2 * c)
<1>1. n \in Nat /\ n - 1 \in Nat /\ n - 2 \in Nat /\ c \in Nat \ {0} /\ k \in Nat
  BY LenProperties
<1>2. k * (n - 1) <= (c - 1) * (n - 1)
  <2> HIDE DEF n
  <2> QED  BY <1>1
<1>3. 2 * k * (n - 1) + c < (2 * c) * ((n - 2) + 1)
  <2> HIDE DEF n
  <2>1. c * (n - 1) \in Nat /\ k * (n - 1) \in Nat
    BY <1>1
  <2>2. (c - 1) * (n - 1) = c * (n - 1) - (n - 1)
    BY <1>1
  <2>3. c <= n - 1
    BY <1>1 DEF n
  <2>4. 2 * k * (n - 1) = 2 * (k * (n - 1)) /\ (2 * c) * ((n - 2) + 1) = 2 * (c * (n - 1))
    BY <1>1
  <2> DEFINE A == c * (n - 1)
             B == k * (n - 1)
  <2>5. B <= A - (n - 1) /\ A \in Nat /\ B \in Nat
    BY <1>2, <2>1, <2>2
  <2>6. 2 * B + c < 2 * A
    <3> HIDE DEF A, B
    <3> QED  BY <1>1, <2>3, <2>5
  <2> QED  BY <2>4, <2>6
<1>4. i \in Nat /\ i <= n - 2
  <2>1. 2 * k * (n - 1) + c \in Nat /\ 2 * c \in Nat \ {0}
    <3> HIDE DEF n
    <3>1. k * (n - 1) \in Nat
      BY <1>1
    <3>2. 2 * k * (n - 1) = 2 * (k * (n - 1))
      BY <1>1
    <3> QED  BY <1>1, <3>1, <3>2
  <2> HIDE DEF n
  <2> QED  BY <1>1, <1>3, <2>1, QuotientBound
<1>5. Boundary(s, range, c, k) = s[1 + i]
  BY <1>1 DEF Boundary
<1>6. 1 + i \in 1 .. Len(s)
  <2> HIDE DEF i
  <2> QED  BY <1>1, <1>4
<1> HIDE DEF i
<1> QED  BY <1>5, <1>6, ElementOfSeq

\* Stretches that cover range, one after the other, on samples of T.
Tiling(p, range, T) ==
    /\ Len(p) \in Nat \ {0} /\ DOMAIN p = 1 .. Len(p)
    /\ p[1][1] = range[1] /\ p[Len(p)][2] = range[2]
    /\ \A i \in DOMAIN p : p[i][1] < p[i][2]
    /\ \A i \in 1 .. Len(p) - 1 : p[i][2] = p[i + 1][1] /\ p[i][2] \in T

LEMMA WholeTiles ==
    ASSUME NEW T, NEW range, range[1] < range[2]
    PROVE  Tiling(<<range>>, range, T)
BY DEF Tiling

LEMMA StretchesAreTiles ==
    ASSUME NEW T, NEW s \in Seq(T), NEW range, NEW c \in Nat, 2 <= c, c < Len(s),
           Splits(s, range, c)
    PROVE  Tiling(Stretches(s, range, c), range, T)
<1> DEFINE b(k) == Boundary(s, range, c, k)
           p == Stretches(s, range, c)
<1>1. \A k \in 1 .. c : b(k) > b(k - 1)
  BY DEF Splits
<1>2. b(0) = range[1] /\ b(c) = range[2]
  BY DEF Boundary
<1>3. \A k \in 1 .. c - 1 : b(k) \in T
  BY BoundaryIsSample
<1>4. p = [k \in 1 .. c |-> <<b(k - 1), b(k)>>]
  BY DEF Stretches
<1> HIDE DEF b, p
<1>5. Len(p) = c /\ DOMAIN p = 1 .. c
  BY <1>4
<1>6. \A k \in 1 .. c : p[k][1] = b(k - 1) /\ p[k][2] = b(k)
  BY <1>4
<1>7. p[1][1] = range[1] /\ p[c][2] = range[2]
  BY <1>2, <1>6
<1>8. \A i \in 1 .. c : p[i][1] < p[i][2]
  <2> TAKE i \in 1 .. c
  <2> QED  BY <1>1, <1>6
<1>9. \A i \in 1 .. c - 1 : p[i][2] = p[i + 1][1] /\ p[i][2] \in T
  <2> TAKE i \in 1 .. c - 1
  <2>1. i \in 1 .. c /\ i + 1 \in 1 .. c /\ (i + 1) - 1 = i
    OBVIOUS
  <2>2. p[i][2] = b(i) /\ p[i + 1][1] = b((i + 1) - 1)
    BY <1>6, <2>1
  <2> QED  BY <1>3, <2>1, <2>2
<1> QED  BY <1>5, <1>7, <1>8, <1>9 DEF Tiling, p

\* Whatever the spacing of the samples, a plan tiles the window.
LEMMA PlanTiles ==
    ASSUME WindowConstants, NEW f, NEW range \in Nat \X Nat, range[1] < range[2],
           f.times \subseteq Nat, IsFiniteSet(f.times), NEW least \in Nat
    PROVE  Tiling(PlanStretches(f, range, least), range, f.times)
<1> DEFINE T == f.times
           s == Sorted(Within(f, range))
<1>1. PlanStretches(f, range, least) = PlanFor(f, s, range, least)
  <2>1. PlanStretches(f, range, least) =
            CHOOSE z \in {PlanFor(f, t, range, least) : t \in {s}} : TRUE
    BY DEF PlanStretches, With
  <2> HIDE DEF s
  <2> QED  BY <2>1
<1>2. s \in Seq(T)
  <2>1. Within(f, range) \subseteq T
    BY DEF Within
  <2>2. Within(f, range) \subseteq Nat /\ IsFiniteSet(Within(f, range))
    BY <2>1, FS_Subset
  <2>3. s \in Seq(Within(f, range))
    BY <2>2, SortedMembers
  <2> HIDE DEF s
  <2> QED  BY <2>1, <2>3, SeqMonotonic
<1> DEFINE n == Len(s)
           whole == n <= MaxInput /\ range[2] - range[1] <= MaxInput
           first == Max({2, least, Ceil(n, (MaxInput * 95) \div 100),
                         Ceil((range[2] - range[1]) * 100, MaxInput * 95)})
           tried == {c \in first .. first + MaxSearch - 1 : c < n}
           Ends(c) == \/ ~Splits(s, range, c)
                      \/ \A k \in 1 .. c : StretchFits(f, Stretches(s, range, c)[k])
           ends == {c \in tried : Ends(c)}
           stop == Min(ends)
<1>3. PlanFor(f, s, range, least) = IF (whole /\ least <= 1) \/ n < 2 \/ tried = {} THEN <<range>>
                                ELSE IF ends = {} THEN Stretches(s, range, Max(tried))
                                ELSE IF Splits(s, range, stop) THEN Stretches(s, range, stop)
                                ELSE IF stop = first THEN <<range>>
                                ELSE Stretches(s, range, stop - 1)
  BY Zenon DEF PlanFor
<1> HIDE DEF s
<1>4. n \in Nat
  BY <1>2, LenProperties
<1>5. first \in Nat /\ 2 <= first
  <2> DEFINE a == Ceil(n, (MaxInput * 95) \div 100)
             b == Ceil((range[2] - range[1]) * 100, MaxInput * 95)
             S == {2, least, a, b}
  <2>1. a \in Nat
    <3>1. (MaxInput * 95) \div 100 \in Nat \ {0}
      BY DEF WindowConstants
    <3> QED  BY <1>4, <3>1, CeilIsNat
  <2>2. b \in Nat
    <3>1. (range[2] - range[1]) * 100 \in Nat /\ MaxInput * 95 \in Nat \ {0}
      BY DEF WindowConstants
    <3> QED  BY <3>1, CeilIsNat
  <2> HIDE DEF a, b
  <2>3. S \subseteq Nat /\ S # {}
    BY <2>1, <2>2
  <2>4. 2 + least + a + b \in Nat /\ \A x \in S : x <= 2 + least + a + b
    BY <2>1, <2>2
  <2>5. Max(S) \in S /\ \A x \in S : x <= Max(S)
    <3> HIDE DEF S
    <3> QED  BY <2>3, <2>4, LargestOfSet
  <2>6. first = Max(S)
    BY DEF a, b
  <2> QED  BY <2>3, <2>5, <2>6
<1> HIDE DEF first
<1>6. MaxSearch \in Nat \ {0}
  BY DEF WindowConstants
<1>7. \A c \in tried : c \in Nat /\ 2 <= c /\ c < n
  BY <1>5, <1>6
<1>8. tried \subseteq Nat /\ ends \subseteq tried
  BY <1>7
<1>9. \A c \in tried : Splits(s, range, c) => Tiling(Stretches(s, range, c), range, T)
  <2> SUFFICES ASSUME NEW c \in tried, Splits(s, range, c)
               PROVE  Tiling(Stretches(s, range, c), range, T)
    OBVIOUS
  <2>1. c \in Nat /\ 2 <= c /\ c < Len(s)
    BY <1>7
  <2> HIDE DEF tried, T
  <2> QED  BY <1>2, <2>1, StretchesAreTiles
<1>10. \A c \in tried : c \notin ends => Splits(s, range, c)
  OBVIOUS
<1>11. Tiling(<<range>>, range, T)
  <2> HIDE DEF T
  <2> QED  BY WholeTiles
<1>12. tried # {} => Max(tried) \in tried
  <2>1. \A c \in tried : c <= n
    BY <1>4, <1>7
  <2> HIDE DEF tried
  <2> QED  BY <1>4, <1>8, <2>1, LargestOfSet
<1>13. ends # {} => stop \in ends /\ \A c \in ends : stop <= c
  <2>1. ends \subseteq Nat
    BY <1>8
  <2> HIDE DEF ends
  <2> QED  BY <2>1, MinOfSet
<1>14. ends # {} /\ stop # first => stop - 1 \in tried /\ stop - 1 \notin ends
  <2> SUFFICES ASSUME ends # {}, stop # first PROVE stop - 1 \in tried /\ stop - 1 \notin ends
    OBVIOUS
  <2>1. stop \in tried /\ stop \in first .. first + MaxSearch - 1 /\ stop < n
    BY <1>8, <1>13
  <2>2. stop \in Nat /\ first <= stop
    BY <1>5, <1>7, <2>1
  <2>3. stop - 1 \in first .. first + MaxSearch - 1 /\ stop - 1 < n /\ ~(stop <= stop - 1)
    <3> HIDE DEF stop
    <3> QED  BY <1>4, <1>5, <1>6, <2>1, <2>2
  <2> QED  BY <1>13, <2>3
<1> HIDE DEF whole, tried, ends, stop, T, n
<1>15. CASE (whole /\ least <= 1) \/ n < 2 \/ tried = {}
  BY <1>1, <1>3, <1>11, <1>15 DEF T
<1>16. CASE ~((whole /\ least <= 1) \/ n < 2 \/ tried = {}) /\ ends = {}
  <2>1. PlanFor(f, s, range, least) = Stretches(s, range, Max(tried))
    BY <1>3, <1>16
  <2>2. Max(tried) \in tried /\ Max(tried) \notin ends
    BY <1>12, <1>16
  <2> QED  BY <1>1, <1>9, <1>10, <2>1, <2>2 DEF T
<1>17. CASE ~((whole /\ least <= 1) \/ n < 2 \/ tried = {}) /\ ends # {}
  <2>1. CASE Splits(s, range, stop)
    <3>1. PlanFor(f, s, range, least) = Stretches(s, range, stop)
      BY <1>3, <1>17, <2>1
    <3>2. stop \in tried
      BY <1>8, <1>13, <1>17
    <3> QED  BY <1>1, <1>9, <2>1, <3>1, <3>2 DEF T
  <2>2. CASE ~Splits(s, range, stop) /\ stop = first
    <3>1. PlanFor(f, s, range, least) = <<range>>
      BY <1>3, <1>17, <2>2
    <3> QED  BY <1>1, <1>11, <3>1 DEF T
  <2>3. CASE ~Splits(s, range, stop) /\ stop # first
    <3>1. PlanFor(f, s, range, least) = Stretches(s, range, stop - 1)
      BY <1>3, <1>17, <2>3
    <3> QED  BY <1>1, <1>9, <1>10, <1>14, <1>17, <2>3, <3>1 DEF T
  <2> QED  BY <2>1, <2>2, <2>3
<1> QED  BY <1>15, <1>16, <1>17

TilesWhenPlanned ==
    phase \in {"measure", "decide", "done"} => Tiling(plan, flight.asked, flight.times)

PlanInv == flight \in Flights /\ minimum \in Nat /\ TilesWhenPlanned

\* Whatever step is taken, the next plan tiles the window too.
LEMMA PlanInvStep ==
    ASSUME PlanInv, [Next]_vars
    PROVE  PlanInv'
<1> USE WindowConstants
<1>1. CASE Plan
  <2> DEFINE p == PlanStretches(flight, flight.asked, minimum)
  <2>1. /\ flight.asked \in Nat \X Nat /\ flight.asked[1] < flight.asked[2]
        /\ flight.times \subseteq Nat /\ IsFiniteSet(flight.times) /\ minimum \in Nat
    BY <1>1 DEF PlanInv, Plan, WindowConstants
  <2>2. PICK range \in Nat \X Nat : range = flight.asked
    BY <2>1
  <2>3. Tiling(p, flight.asked, flight.times)
    BY <2>1, <2>2, PlanTiles
  <2>4. plan' = p /\ flight' = flight /\ minimum' = minimum
    BY <1>1 DEF Plan
  <2>5. TilesWhenPlanned'
    <3> HIDE DEF p
    <3> QED  BY <2>3, <2>4 DEF TilesWhenPlanned
  <2> QED  BY <2>4, <2>5 DEF PlanInv
<1>2. CASE Escalate
  <2>1. Len(plan) \in Nat
    BY <1>2 DEF PlanInv, TilesWhenPlanned, Tiling, Escalate
  <2> QED  BY <1>2, <2>1 DEF PlanInv, TilesWhenPlanned, Escalate
<1>3. CASE Abandon \/ RefuseRange
  BY <1>3 DEF PlanInv, TilesWhenPlanned, Abandon, RefuseRange
<1>4. CASE Cancel \/ Measure \/ Deliver \/ Settled \/ UNCHANGED vars
  <2>1. plan' = plan /\ flight' = flight /\ minimum' = minimum
    BY <1>4 DEF Cancel, Measure, Deliver, Settled, vars
  <2>2. phase' \in {"measure", "decide", "done"} => phase \in {"measure", "decide", "done"}
    BY <1>4 DEF Cancel, Measure, Deliver, Settled, vars
  <2> QED  BY <2>1, <2>2 DEF PlanInv, TilesWhenPlanned
<1> QED  BY <1>1, <1>2, <1>3, <1>4 DEF Next, Step

\* The stretches cover the window that was asked for with nothing between them
\* and nothing measured twice but the boundary samples, however the samples of
\* the flight are spaced and however often the plan was made again.
THEOREM StretchesAlwaysTile == Spec => []StretchesTile
<1>1. Init => PlanInv
  BY DEF Init, PlanInv, TilesWhenPlanned
<1>2. PlanInv => StretchesTile
  BY DEF PlanInv, TilesWhenPlanned, Tiling, StretchesTile
<1> QED  BY <1>1, <1>2, PlanInvStep, PTL DEF Spec

----------------------------------------------------------------------------
(* The vibration panel and the gate call the same tones the rotor's.       *)

\* A tone the gate takes for the rotor's by whatever rule is one whose match
\* is within the head speed's own spread.
LEMMA RotorTonesAreMatched ==
    ASSUME NEW m, NEW t \in RotorOrderToneAssessment(m).tones
    PROVE  MatchEstablished(t.peak)
BY DEF RotorOrderToneAssessment, OneTonePerAxisAndOrder, JudgedAsRotorOrder

\* What the panel shows as explained by the rotor and what the gate excuses
\* because the rotor explains it is decided by two functions of the code; in
\* no state is a tone the rotor's for the gate and not for the panel.
THEOREM PanelAndGateAgree == Spec => []PanelAgreesWithGate
<1>1. PanelAgreesWithGate
  <2> SUFFICES ASSUME NEW t \in Gate.rotorTones
               PROVE  Attribution(t.peak, result.correlation) = "explained"
    BY DEF PanelAgreesWithGate
  <2>1. t \in RotorOrderToneAssessment(result).tones
    BY DEF Gate, EvaluateAirframeGate
  <2>2. t.peak.match # NoMatch /\ t.peak.match.offset <= t.peak.match.allowed
    BY <2>1, RotorTonesAreMatched DEF MatchEstablished
  <2> QED  BY <2>2 DEF Attribution
<1> QED  BY <1>1, PTL

----------------------------------------------------------------------------
(* No gain is named over an airframe that was not measured and cleared.    *)

Unfiltered(f) == \A x \in Axes : f.source[x] \in UnfilteredSources
Compared(f, range) == /\ Refusal(f, range) = "" /\ CoverageReasons(f, range) = {}
                      /\ EvaluatedRotors(RpmSources(f, range)) # {}

\* What the result of one stretch says of the stretch.
Sound(f, range, r) ==
    /\ r.range = range /\ r.level = Level
    /\ r.gate = "permitted" => Unfiltered(f)
    /\ r.correlation = "evaluated" => Compared(f, range) /\ DOMAIN r.axes = Axes
    /\ \A x \in DOMAIN r.axes :
          /\ r.axes[x].source = f.source[x]
          /\ r.axes[x].floor = IF r.axes[x].available THEN FloorOf(f, range, x) ELSE NoFloor

LEMMA MeasuredIs ==
    ASSUME NEW f, NEW range
    PROVE  /\ Measured(f, range).correlation = HarmonicCorrelation(RpmSources(f, range))
           /\ Measured(f, range).rotors = EvaluatedRotors(RpmSources(f, range))
<1> DEFINE rpm == RpmSources(f, range)
           H(g) == [correlation |-> HarmonicCorrelation(rpm), rotors |-> EvaluatedRotors(rpm),
                    listed |-> [x \in Axes |->
                                  ListedPeaks(Candidates(f, g, AxisWindows(f, g, x), rpm))]]
           F(s) == With(Grid(f, range), LAMBDA g :
                     [correlation |-> HarmonicCorrelation(s), rotors |-> EvaluatedRotors(s),
                      listed |-> [x \in Axes |->
                                    ListedPeaks(Candidates(f, g, AxisWindows(f, g, x), s))]])
<1>1. Measured(f, range) = CHOOSE z \in {F(s) : s \in {rpm}} : TRUE
  BY DEF Measured, With
<1>2. F(rpm) = CHOOSE z \in {H(g) : g \in {Grid(f, range)}} : TRUE
  BY DEF With
<1> HIDE DEF F
<1>3. Measured(f, range) = F(rpm)
  <2> HIDE DEF rpm
  <2> QED  BY <1>1
<1>4. F(rpm) = H(Grid(f, range))
  <2> HIDE DEF H
  <2> QED  BY <1>2
<1> QED  BY <1>3, <1>4

LEMMA JudgedIs ==
    ASSUME NEW f, NEW range
    PROVE  Judged(f, range) = JudgedBy(f, range, Measured(f, range))
<1>1. Judged(f, range) = CHOOSE z \in {JudgedBy(f, range, m) : m \in {Measured(f, range)}} : TRUE
  BY DEF Judged, With
<1> QED  BY <1>1

\* A refusal says nothing of a rotor, and nothing is permitted.
LEMMA InsufficientIsSound ==
    ASSUME NEW f, NEW range, NEW reasons, NEW on,
           \A x \in DOMAIN on : /\ on[x].source = f.source[x]
                               /\ ~on[x].available /\ on[x].floor = NoFloor
    PROVE  Sound(f, range, Insufficient(range, reasons, on))
BY DEF Sound, Insufficient, BaseResult

LEMMA JudgedIsSound ==
    ASSUME NEW f, NEW range, Refusal(f, range) = "", CoverageReasons(f, range) = {},
           NEW r \in Judged(f, range)
    PROVE  Sound(f, range, r)
<1> DEFINE m == Measured(f, range)
           on == JudgedAxes(f, range, m)
           status == IF Eligible(m) # {} THEN "attention"
                     ELSE IF Unclearable(f, m) THEN "insufficient" ELSE "clear"
<1>1. PICK finding : r = [BaseResult(range, status, JudgedReasons(f, m)) EXCEPT
                      !.correlation = m.correlation, !.rotors = m.rotors, !.axes = on,
                      !.finding = finding]
  <2>1. r \in JudgedBy(f, range, m)
    BY JudgedIs
  <2> HIDE DEF m
  <2> QED  BY <2>1 DEF JudgedBy
<1>2. r.gate = "permitted" => Unfiltered(f)
  <2>1. r.gate = IF status = "clear" THEN "permitted" ELSE "blocked"
    <3> HIDE DEF m, on, status
    <3> QED  BY <1>1 DEF BaseResult
  <2>2. r.gate = "permitted" => Eligible(m) = {} /\ ~Unclearable(f, m)
    BY <2>1
  <2> HIDE DEF m
  <2> QED  BY <2>2 DEF Unclearable, Unfiltered
<1> HIDE DEF m, on, status
<1>3. r.range = range /\ r.level = Level /\ r.correlation = m.correlation /\ r.axes = on
  BY <1>1 DEF BaseResult
<1>4. DOMAIN on = Axes
  BY DEF on, JudgedAxes
<1>5. r.correlation = "evaluated" => Compared(f, range)
  BY <1>3, MeasuredIs DEF m, HarmonicCorrelation, Compared
<1>6. \A x \in Axes : /\ on[x].source = f.source[x]
                      /\ on[x].floor = IF on[x].available THEN FloorOf(f, range, x) ELSE NoFloor
  BY DEF on, JudgedAxes, Unmeasured
<1> QED  BY <1>2, <1>3, <1>4, <1>5, <1>6 DEF Sound

LEMMA AnalyzedIsSound ==
    ASSUME NEW f, NEW range, NEW r \in Analyzed(f, range)
    PROVE  Sound(f, range, r)
<1>1. CASE Refusal(f, range) # ""
  <2>1. r = Insufficient(range, {Refusal(f, range)}, <<>>)
    BY <1>1 DEF Analyzed
  <2> QED  BY <2>1, InsufficientIsSound
<1>2. CASE Refusal(f, range) = "" /\ CoverageReasons(f, range) # {}
  <2>1. r = Insufficient(range, CoverageReasons(f, range), [x \in Axes |-> Unmeasured(f, x)])
    BY <1>2 DEF Analyzed
  <2>2. \A x \in Axes : /\ Unmeasured(f, x).source = f.source[x]
                        /\ ~Unmeasured(f, x).available /\ Unmeasured(f, x).floor = NoFloor
    BY DEF Unmeasured
  <2> QED  BY <2>1, <2>2, InsufficientIsSound
<1>3. CASE Refusal(f, range) = "" /\ CoverageReasons(f, range) = {}
  BY <1>3, JudgedIsSound DEF Analyzed
<1> QED  BY <1>1, <1>2, <1>3

\* What the combined result says of every stretch; one stretch is its own.
Delivered(f, rs) == IF Len(rs) = 1 THEN rs[1]
                    ELSE CombineMechanicalResults(f, rs, f.asked)

AllSound(f, p, rs) ==
    /\ \E S : rs \in Seq(S)
    /\ Len(rs) = Len(p) /\ Tiling(p, f.asked, f.times)
    /\ \A i \in DOMAIN rs : Sound(f, p[i], rs[i])

LEMMA FloorType ==
    ASSUME NEW f, NEW range, NEW x, WindowConstants
    PROVE  /\ FloorOf(f, range, x) \in {0, Level} /\ Level \in Nat \ {0}
           /\ Raised(f, range, x) <=> FloorOf(f, range, x) = Level
BY DEF FloorOf, Raised, WindowConstants

\* What the delivered result tells of the flight.
Tells(f, p, r) ==
    /\ r.range[1] = f.asked[1] /\ r.range[2] = f.asked[2] /\ r.level = Level
    /\ r.gate = "permitted" => Unfiltered(f)
    /\ r.correlation = "evaluated" =>
          DOMAIN r.axes = Axes /\ \A i \in DOMAIN p : Compared(f, p[i])
    /\ \A x \in DOMAIN r.axes : r.axes[x].source = f.source[x]
    /\ r.correlation = "evaluated" =>
          \A x \in Axes : r.axes[x].floor # NoFloor /\ ~(r.axes[x].floor >= Level)
              => \A i \in DOMAIN p : ~Raised(f, p[i], x)

LEMMA DeliveredTells ==
    ASSUME WindowConstants, NEW f, NEW p, NEW rs, AllSound(f, p, rs)
    PROVE  Tells(f, p, Delivered(f, rs))
<1>1. PICK S : rs \in Seq(S)
  BY DEF AllSound
<1>2. /\ DOMAIN rs = 1 .. Len(p) /\ DOMAIN p = 1 .. Len(p)
      /\ Len(p) \in Nat \ {0} /\ Len(rs) = Len(p)
  BY <1>1, LenProperties DEF AllSound, Tiling
<1>3. \A i \in DOMAIN rs : Sound(f, p[i], rs[i])
  BY DEF AllSound
<1>4. CASE Len(rs) = 1
  <2> DEFINE r == rs[1]
  <2>1. Sound(f, p[1], r) /\ Delivered(f, rs) = r
    BY <1>2, <1>3, <1>4 DEF Delivered
  <2>2. p[1][1] = f.asked[1] /\ p[1][2] = f.asked[2] /\ DOMAIN p = {1}
    BY <1>2, <1>4 DEF AllSound, Tiling
  <2>3. \A x \in DOMAIN r.axes :
          r.axes[x].floor # NoFloor /\ ~(r.axes[x].floor >= Level) => ~Raised(f, p[1], x)
    BY <2>1, FloorType DEF Sound
  <2> HIDE DEF r
  <2> QED  BY <2>1, <2>2, <2>3 DEF Sound, Tells
<1>5. CASE Len(rs) # 1
  <2> DEFINE d == CombineMechanicalResults(f, rs, f.asked)
             c == CombinedCorrelation(rs)
             on == CombinedAxes(f, rs)
  <2>1. Delivered(f, rs) = d
    BY <1>5 DEF Delivered
  <2>2. /\ d.range = f.asked /\ d.level = Level /\ d.correlation = c.state /\ d.axes = on
        /\ d.gate = IF \A i \in DOMAIN rs : rs[i].gate = "permitted"
                    THEN "permitted" ELSE "blocked"
    <3> HIDE DEF c, on
    <3> QED  BY DEF CombineMechanicalResults, BaseResult, c, on
  <2>3. d.gate = "permitted" => Unfiltered(f)
    <3>1. 1 \in DOMAIN rs
      BY <1>2
    <3> HIDE DEF d
    <3>2. d.gate = "permitted" => rs[1].gate = "permitted"
      BY <2>2, <3>1
    <3> QED  BY <1>3, <3>1, <3>2 DEF Sound
  <2>4. c.state = "evaluated" => \A i \in DOMAIN rs : rs[i].correlation = "evaluated"
    BY DEF CombinedCorrelation
  <2>5. c.state = "evaluated" =>
          \A i \in DOMAIN p : Compared(f, p[i]) /\ DOMAIN rs[i].axes = Axes
    BY <1>2, <1>3, <2>4 DEF Sound
  <2> DEFINE Has(i, x) == x \in DOMAIN rs[i].axes
             Avail(x) == \A i \in DOMAIN rs : Has(i, x) /\ rs[i].axes[x].available
             named == {x \in Axes : \E i \in DOMAIN rs : Has(i, x)}
             floors(x) == {rs[i].axes[x].floor : i \in DOMAIN rs}
  <2>6. /\ DOMAIN on = named
        /\ \A x \in named : /\ on[x].source = f.source[x]
                            /\ on[x].floor = IF Avail(x) THEN Max(floors(x)) ELSE NoFloor
    BY DEF CombinedAxes
  <2>7. c.state = "evaluated" => DOMAIN on = Axes
    <3>1. c.state = "evaluated" => named = Axes
      <4>1. 1 \in DOMAIN rs /\ 1 \in DOMAIN p
        BY <1>2
      <4> HIDE DEF c, on
      <4>2. c.state = "evaluated" => DOMAIN rs[1].axes = Axes
        BY <2>5, <4>1
      <4> QED  BY <4>1, <4>2
    <3>2. DOMAIN on = named
      BY <2>6
    <3> HIDE DEF c, on, named
    <3> QED  BY <3>1, <3>2
  <2> HIDE DEF c, d, on, named, Avail
  <2>8. ASSUME c.state = "evaluated", NEW x \in Axes,
               on[x].floor # NoFloor, ~(on[x].floor >= Level), NEW i \in DOMAIN p
        PROVE  ~Raised(f, p[i], x)
    <3> USE <2>8
    <3>1. x \in named
      BY <2>6, <2>7
    <3>2. Avail(x) /\ on[x].floor = Max(floors(x))
      BY <2>6, <3>1
    <3>3. \A j \in DOMAIN rs : rs[j].axes[x].floor = FloorOf(f, p[j], x)
      BY <1>3, <3>2 DEF Sound, Avail
    <3>4. /\ floors(x) \subseteq Nat /\ floors(x) # {} /\ Level \in Nat
          /\ \A y \in floors(x) : y <= Level
      BY <1>2, <3>3, FloorType
    <3>5. FloorOf(f, p[i], x) \in floors(x)
      BY <1>2, <3>3
    <3> HIDE DEF floors
    <3>6. Max(floors(x)) \in Nat /\ FloorOf(f, p[i], x) <= Max(floors(x))
      BY <3>4, <3>5, LargestOfSet
    <3>7. ~(Level <= FloorOf(f, p[i], x))
      BY <3>2, <3>4, <3>5, <3>6
    <3> QED  BY <3>7, FloorType
  <2> QED  BY <2>1, <2>2, <2>3, <2>5, <2>6, <2>7, <2>8 DEF Tells
<1> QED  BY <1>4, <1>5

----------------------------------------------------------------------------
(* ... from the request to the gate.                                       *)

MeasuredInv ==
    /\ PlanInv
    /\ phase \in {"measure", "decide", "done"} =>
          /\ \E S : results \in Seq(S)
          /\ \A i \in DOMAIN results : Sound(flight, plan[i], results[i])
    /\ phase = "measure" => Len(results) < Len(plan)
    /\ phase \in {"decide", "done"} => Len(results) = Len(plan)
    /\ phase = "done" => result = Delivered(flight, results)

LEMMA MeasuredStep ==
    ASSUME MeasuredInv, [Next]_vars
    PROVE  MeasuredInv'
<1>1. PlanInv /\ PlanInv'
  BY PlanInvStep DEF MeasuredInv
<1>2. CASE Cancel \/ Settled \/ UNCHANGED vars
  BY <1>1, <1>2 DEF MeasuredInv, Cancel, Settled, vars
<1>3. CASE Abandon \/ RefuseRange \/ Escalate
  BY <1>1, <1>3 DEF MeasuredInv, Abandon, RefuseRange, Escalate
<1>4. CASE Plan
  <2>1. results' = <<>> /\ phase' = "measure"
    BY <1>4 DEF Plan
  <2>2. Len(plan') \in Nat \ {0}
    BY <1>1, <2>1 DEF PlanInv, TilesWhenPlanned, Tiling
  <2>3. results' \in Seq({}) /\ DOMAIN results' = {} /\ Len(results') < Len(plan')
    BY <2>1, <2>2
  <2> QED  BY <1>1, <2>1, <2>3 DEF MeasuredInv
<1>5. CASE Measure
  <2>1. PICK S : results \in Seq(S)
    BY <1>5 DEF MeasuredInv, Measure
  <2> DEFINE n == Len(results)
  <2>2. PICK r \in Analyzed(flight, plan[n + 1]) : results' = Append(results, r)
    BY <1>5 DEF Measure
  <2>3. /\ results' \in Seq(S \cup {r}) /\ Len(results') = n + 1 /\ n \in Nat
        /\ DOMAIN results' = 1 .. n + 1 /\ DOMAIN results = 1 .. n /\ results'[n + 1] = r
        /\ \A i \in 1 .. n : results'[i] = results[i]
    <3>1. results \in Seq(S \cup {r})
      BY <2>1, SeqMonotonic
    <3> QED  BY <2>2, <3>1, AppendProperties, LenProperties
  <2>4. Sound(flight, plan[n + 1], r)
    BY <2>2, AnalyzedIsSound
  <2>5. flight' = flight /\ plan' = plan /\ phase = "measure" /\ n < Len(plan) /\ Len(plan) \in Nat
        /\ phase' = IF n + 1 = Len(plan) THEN "decide" ELSE "measure"
    BY <1>1, <1>5 DEF Measure, MeasuredInv, PlanInv, TilesWhenPlanned, Tiling
  <2>6. \A i \in DOMAIN results' : Sound(flight', plan'[i], results'[i])
    <3> TAKE i \in DOMAIN results'
    <3>1. CASE i = n + 1
      BY <2>3, <2>4, <2>5, <3>1
    <3>2. CASE i \in 1 .. n
      <4>1. Sound(flight, plan[i], results[i])
        BY <2>3, <2>5, <3>2 DEF MeasuredInv
      <4> QED  BY <2>3, <2>5, <3>2, <4>1
    <3> QED  BY <2>3, <3>1, <3>2
  <2>7. phase' = "measure" => Len(results') < Len(plan')
    BY <2>3, <2>5
  <2>8. phase' \in {"decide", "done"} => Len(results') = Len(plan')
    BY <2>3, <2>5
  <2> QED  BY <1>1, <2>3, <2>5, <2>6, <2>7, <2>8 DEF MeasuredInv
<1>6. CASE Deliver
  <2>1. /\ flight' = flight /\ plan' = plan /\ results' = results
        /\ phase = "decide" /\ phase' = "done"
        /\ result' = Delivered(flight, results)
    BY <1>6 DEF Deliver, Delivered
  <2> QED  BY <1>1, <2>1 DEF MeasuredInv
<1> QED  BY <1>2, <1>3, <1>4, <1>5, <1>6 DEF Next, Step

\* What has to be so before a gain is named.
Permit(f, p, given) ==
    /\ \A t \in EventTimes(given) \cup HoldTimes(f, given) : f.asked[1] <= t /\ t <= f.asked[2]
    /\ \A i \in DOMAIN p :
          /\ Compared(f, p[i])
          /\ \A x \in Axes : f.source[x] \in UnfilteredSources /\ ~Raised(f, p[i], x)

\* The rule excuses the main rotor's tones only on unfiltered gyro.
LEMMA RuleNeedsUnfiltered ==
    ASSUME NEW m, NEW f, RotorOrderToneAssessment(m).only,
           \A x \in DOMAIN m.axes : m.axes[x].source = f.source[x]
    PROVE  Unfiltered(f)
<1>1. m.status = "attention" /\ RotorOrderRuleRefusal(m) = ""
  BY DEF RotorOrderToneAssessment
<1>2. DOMAIN m.axes = Axes /\ \A x \in Axes : m.axes[x].source \in UnfilteredSources
  BY <1>1 DEF RotorOrderRuleRefusal
<1> QED  BY <1>2 DEF Unfiltered

LEMMA NoCodesPermit ==
    ASSUME NEW f, NEW p, NEW given, NEW m, Tells(f, p, m), f.asked \in Nat \X Nat,
           EventTimes(given) \subseteq Nat, HoldTimes(f, given) \subseteq Nat,
           m = result,
           EvaluateAirframeGate(m, EventTimes(given), HoldTimes(f, given)).codes = {},
           BroadbandCodes = {}
    PROVE  Permit(f, p, given)
<1> DEFINE rotor == RotorOrderToneAssessment(m)
           asked == m.gate # "permitted" \/ rotor.large
<1>1. CorrelationCodes(m) = {}
  BY DEF EvaluateAirframeGate
<1>2. m.correlation = "evaluated"
  BY <1>1 DEF CorrelationCodes
<1>3. ~Outside(EventTimes(given), m.range) /\ ~Outside(HoldTimes(f, given), m.range)
  BY DEF EvaluateAirframeGate
<1>4. ~asked \/ rotor.only
  BY DEF EvaluateAirframeGate
<1>5. Unfiltered(f)
  <2>1. CASE ~asked
    BY <2>1 DEF Tells
  <2>2. CASE rotor.only
    BY <2>2, RuleNeedsUnfiltered DEF Tells
  <2> QED  BY <1>4, <2>1, <2>2
<1>6. /\ DOMAIN m.axes = Axes
      /\ \A x \in Axes : m.axes[x].floor # NoFloor /\ ~(m.axes[x].floor >= m.level)
  BY <1>2 DEF BroadbandCodes, Tells
<1>7. \A i \in DOMAIN p, x \in Axes : Compared(f, p[i]) /\ ~Raised(f, p[i], x)
  BY <1>2, <1>6 DEF Tells
<1>8. ASSUME NEW t \in EventTimes(given) \cup HoldTimes(f, given)
      PROVE  f.asked[1] <= t /\ t <= f.asked[2]
  <2>1. ~(t < m.range[1]) /\ ~(t > m.range[2])
    BY <1>3 DEF Outside
  <2>2. t \in Nat /\ f.asked[1] \in Nat /\ f.asked[2] \in Nat
    OBVIOUS
  <2> QED  BY <2>1, <2>2 DEF Tells
<1>9. \A i \in DOMAIN p : Compared(f, p[i])
  BY <1>2 DEF Tells
<1> QED  BY <1>5, <1>7, <1>8, <1>9 DEF Permit, Unfiltered

----------------------------------------------------------------------------
(* ... and from the gate to the page.                                      *)

\* No finding of s names a gain to change.
NoChange(s) == \E S : s \in Seq(S) /\ \A g \in S : g.kind # "adjustment"

LEMMA NoChangeOf ==
    ASSUME NEW S, NEW s \in Seq(S), \A g \in S : g.kind # "adjustment"
    PROVE  NoChange(s)
BY Zenon DEF NoChange

LEMMA NoChangeIn ==
    ASSUME NEW s, NoChange(s)
    PROVE  \A i \in DOMAIN s : s[i].kind # "adjustment"
<1>1. PICK S : s \in Seq(S) /\ \A g \in S : g.kind # "adjustment"
  BY DEF NoChange
<1> QED  BY <1>1, ElementOfSeq, LenProperties

LEMMA NothingNoChange == NoChange(<<>>)
<1>1. PICK S : S = {}
  OBVIOUS
<1>2. <<>> \in Seq(S) /\ \A g \in S : g.kind # "adjustment"
  BY <1>1
<1> QED  BY <1>2, NoChangeOf

LEMMA OneNoChange ==
    ASSUME NEW g, g.kind # "adjustment"
    PROVE  NoChange(<<g>>)
<1>1. PICK S : S = {g}
  OBVIOUS
<1>2. <<g>> \in Seq(S) /\ \A h \in S : h.kind # "adjustment"
  BY <1>1
<1> QED  BY <1>2, NoChangeOf

LEMMA BothNoChange ==
    ASSUME NEW s, NEW t, NoChange(s), NoChange(t)
    PROVE  NoChange(s \o t)
<1>1. PICK S : s \in Seq(S) /\ \A g \in S : g.kind # "adjustment"
  BY DEF NoChange
<1>2. PICK T : t \in Seq(T) /\ \A g \in T : g.kind # "adjustment"
  BY DEF NoChange
<1>3. s \in Seq(S \cup T) /\ t \in Seq(S \cup T)
  BY <1>1, <1>2, SeqMonotonic
<1>4. \A g \in S \cup T : g.kind # "adjustment"
  BY <1>1, <1>2
<1> QED  BY <1>3, <1>4, ConcatProperties, NoChangeOf

LEMMA IfNoChange ==
    ASSUME NEW c, NEW s, c => NoChange(s)
    PROVE  NoChange(If(c, s))
BY NothingNoChange DEF If

\* The airframe and the head speed are never tuned.
LEMMA AirframeNoChange ==
    ASSUME NEW v
    PROVE  NoChange(AirframeFindings(v))
<1>1. \A id : /\ NoChange(AirframeSays(id, "observation"))
              /\ NoChange(AirframeSays(id, "next-flight"))
              /\ NoChange(AirframeSays(id, "blocker"))
  BY OneNoChange DEF AirframeSays, Finding
<1>2. \A id, c : /\ NoChange(If(c, AirframeSays(id, "next-flight")))
                 /\ NoChange(Card(id, c))
  BY <1>1, IfNoChange DEF Card
<1>3. \A s, t : NoChange(s) /\ NoChange(t) => NoChange(s \o t)
  BY BothNoChange
<1>4. ASSUME NEW upstream
      PROVE  NoChange(PermittedFindings(upstream))
  BY <1>1, <1>2, <1>3 DEF PermittedFindings
<1>5. ASSUME NEW upstream, NEW codes
      PROVE  NoChange(BlockedFindings(upstream, codes))
  <2>1. NoChange(VibrationFindings(upstream, codes)) /\ NoChange(RangeFindings(codes))
    BY <1>2, <1>3 DEF VibrationFindings, RangeFindings
  <2> QED  BY <2>1, <1>2, <1>3 DEF BlockedFindings
<1> QED  BY <1>4, <1>5 DEF AirframeFindings

LEMMA HeadspeedNoChange == NoChange(HeadspeedFindings)
<1>1. \A id : /\ NoChange(HeadSays(id, "observation")) /\ NoChange(HeadSays(id, "next-flight"))
              /\ NoChange(HeadSays(id, "blocker"))
              /\ \A c : NoChange(If(c, HeadSays(id, "observation")))
  BY OneNoChange, IfNoChange DEF HeadSays, Finding
<1>2. \A s, t : NoChange(s) /\ NoChange(t) => NoChange(s \o t)
  BY BothNoChange
<1>3. ASSUME NEW segments, NEW codes
      PROVE  NoChange(HeadspeedSays(segments, codes))
  <2>1. NoChange(HeadspeedVerdict(segments, codes))
    BY <1>1 DEF HeadspeedVerdict
  <2> QED  BY <2>1, <1>1, <1>2 DEF HeadspeedSays
<1> QED  BY <1>3 DEF HeadspeedFindings, With

\* Every change of an axis waits for the airframe: those of P and D through
\* the gates of the shape, those of I in the findings of the holds.
LEMMA AxisNoChange ==
    ASSUME NEW x, airframe # "permitted"
    PROVE  NoChange(AxisFindings(x))
<1>1. \A id, rung : /\ NoChange(<<Finding(id, rung, x, "blocker")>>)
                    /\ NoChange(<<Finding(id, rung, x, "next-flight")>>)
                    /\ NoChange(<<Finding(id, rung, x, "observation")>>)
  BY OneNoChange DEF Finding
<1>2. NoChange(HoldFindings(x))
  BY <1>1, NothingNoChange DEF HoldFindings
<1>3. \A c : NoChange(If(Speaks(x) /\ c, <<ShapeFinding(x)>>))
  BY IfNoChange DEF Speaks, CoreGates
<1>4. \A id, rung, c : /\ NoChange(If(c, <<Finding(id, rung, x, "blocker")>>))
                       /\ NoChange(If(c, <<Finding(id, rung, x, "observation")>>))
                       /\ NoChange(If(c, <<Finding(id, rung, x, "next-flight")>>))
  BY <1>1, IfNoChange
<1>5. \A s, t : NoChange(s) /\ NoChange(t) => NoChange(s \o t)
  BY BothNoChange
<1> QED  BY <1>2, <1>3, <1>4, <1>5 DEF AxisFindings

\* The times an axis was read at are samples of the flight.
ReadInFlight(f, given) ==
    \A x \in DOMAIN given :
        given[x].stops \cup UNION {{w.from, w.to} : w \in given[x].windows} \subseteq f.times

LEMMA ReadTimes ==
    ASSUME NEW f, NEW given, f.times \subseteq Nat, ReadInFlight(f, given)
    PROVE  EventTimes(given) \subseteq Nat /\ HoldTimes(f, given) \subseteq Nat
<1>1. \A x \in DOMAIN given : given[x].stops \subseteq Nat
  BY DEF ReadInFlight
<1>2. \A x \in DOMAIN given : \A w \in given[x].windows : {w.from, w.to} \subseteq Nat
  BY DEF ReadInFlight
<1>3. \A x \in DOMAIN given : \A w \in Accepted(f, given, x) : {w.from, w.to} \subseteq Nat
  BY <1>2 DEF Accepted
<1> QED  BY <1>1, <1>3 DEF EventTimes, HoldTimes

TrustInv ==
    /\ MeasuredInv
    /\ stage # "measuring" => phase = "done" /\ ReadInFlight(flight, axes)
    /\ stage \in {"measuring", "airframe"} => airframe = ""
    /\ airframe = "permitted" => Permit(flight, plan, axes)
    /\ airframe # "permitted" => NoChange(found)

LEMMA VerdictPermits ==
    ASSUME TrustInv, stage = "airframe", AssessAirframe.codes = {}
    PROVE  Permit(flight, plan, axes)
<1> USE WindowConstants
<1> DEFINE f == flight
           p == plan
           m == result
           given == axes
<1>1. /\ MeasuredInv /\ phase = "done" /\ ReadInFlight(f, given)
  BY DEF TrustInv
<1>2. flight \in Flights /\ Tiling(plan, flight.asked, flight.times)
  BY <1>1 DEF MeasuredInv, PlanInv, TilesWhenPlanned
<1>3. f.times \subseteq Nat /\ f.asked \in Nat \X Nat
  BY <1>2 DEF WindowConstants
<1>4. AllSound(flight, plan, results) /\ result = Delivered(flight, results)
  BY <1>1, <1>2 DEF MeasuredInv, AllSound
<1>5. Tells(flight, plan, result)
  BY <1>4, DeliveredTells
<1>6. EventTimes(given) \subseteq Nat /\ HoldTimes(f, given) \subseteq Nat
  BY <1>1, <1>3, ReadTimes
<1>7. /\ EvaluateAirframeGate(m, EventTimes(given), HoldTimes(f, given)).codes = {}
      /\ BroadbandCodes = {}
  BY AssessedAirframe
<1> QED  BY <1>3, <1>5, <1>6, <1>7, NoCodesPermit

LEMMA TrustStep ==
    ASSUME TrustInv, IInv, [AdviceNext]_allVars
    PROVE  TrustInv'
<1>1. [Next]_vars
  BY DEF AdviceNext, MeasureVibration, Advise, Collect, JudgeAirframe, JudgeHeadspeed, JudgeAxis,
         SkipAxis, Tell, NoMore, Next, allVars, vars
<1>2. MeasuredInv'
  BY <1>1, MeasuredStep DEF TrustInv
<1>3. CASE MeasureVibration
  <2>1. phase # "done"
    BY <1>3 DEF MeasureVibration, Step, Abandon, RefuseRange, Plan, Measure, Deliver, Escalate
  <2>2. stage = "measuring" /\ airframe = ""
    BY <2>1 DEF TrustInv
  <2> QED  BY <1>2, <1>3, <2>2 DEF MeasureVibration, adviceVars, TrustInv
<1>4. CASE Collect
  <2>1. PICK given \in Materials :
          /\ \A x \in DOMAIN given :
                given[x].stops \cup UNION {{w.from, w.to} : w \in given[x].windows}
                    \subseteq flight.times \ flight.dead[x]
          /\ axes' = given
    BY <1>4 DEF Collect
  <2>2. ReadInFlight(flight, given)
    BY <2>1 DEF ReadInFlight
  <2>3. /\ stage = "measuring" /\ stage' = "airframe" /\ phase' = "done" /\ flight' = flight
        /\ airframe' = airframe /\ found' = found
    BY <1>4 DEF Collect, vars
  <2> QED  BY <1>2, <2>1, <2>2, <2>3 DEF TrustInv
<1>5. CASE JudgeAirframe
  <2>1. /\ airframe' = IF AssessAirframe.codes = {} THEN "permitted" ELSE "blocked"
        /\ found' = found \o AirframeFindings(AssessAirframe)
        /\ stage = "airframe" /\ stage' = "headspeed"
        /\ axes' = axes /\ flight' = flight /\ plan' = plan /\ phase' = phase
    BY <1>5 DEF JudgeAirframe, vars
  <2>2. NoChange(found')
    <3>1. NoChange(found)
      BY <2>1 DEF TrustInv
    <3> QED  BY <2>1, <3>1, AirframeNoChange, BothNoChange
  <2>3. airframe' = "permitted" => Permit(flight', plan', axes')
    BY <2>1, VerdictPermits
  <2> QED  BY <1>2, <2>1, <2>2, <2>3 DEF TrustInv
<1>6. ASSUME NEW more, airframe # "permitted" => NoChange(more), found' = found \o more,
             stage \notin {"measuring", "airframe"}, stage' \notin {"measuring", "airframe"},
             UNCHANGED <<vars, axes, airframe>>
      PROVE  TrustInv'
  <2>1. airframe # "permitted" => NoChange(found')
    BY <1>6, BothNoChange DEF TrustInv
  <2> QED  BY <1>2, <1>6, <2>1 DEF TrustInv, vars
<1>7. CASE JudgeHeadspeed
  BY <1>6, <1>7, HeadspeedNoChange DEF JudgeHeadspeed
<1>8. CASE JudgeAxis
  BY <1>6, <1>8, AxisNoChange DEF JudgeAxis
<1>9. CASE SkipAxis \/ Tell \/ NoMore \/ UNCHANGED allVars
  <2>1. UNCHANGED <<vars, axes, airframe, found>>
    BY <1>9 DEF SkipAxis, Tell, NoMore, allVars, adviceVars
  <2>2. \/ stage' = stage
        \/ stage \notin {"measuring", "airframe"} /\ stage' \notin {"measuring", "airframe"}
    BY <1>9 DEF SkipAxis, Tell, NoMore, allVars, adviceVars
  <2> QED  BY <1>2, <2>1, <2>2 DEF TrustInv, vars
<1> QED  BY <1>3, <1>4, <1>5, <1>7, <1>8, <1>9 DEF AdviceNext, Advise

LEMMA TrustAtFirst == AdviceInit => TrustInv
<1>1. AdviceInit => MeasuredInv
  <2>1. AdviceInit => Init
    BY DEF AdviceInit
  <2>2. Init => PlanInv /\ phase = "plan"
    BY DEF Init, PlanInv, TilesWhenPlanned
  <2> QED  BY <2>1, <2>2 DEF MeasuredInv
<1>2. AdviceInit => stage = "measuring" /\ airframe = "" /\ found = <<>>
  BY DEF AdviceInit
<1> QED  BY <1>1, <1>2, NothingNoChange DEF TrustInv

\* A gain is named only when every stretch of the window was measured on
\* unfiltered gyro and compared with a rotor, no axis was noisy in any of
\* them, and every stop and hold that was used lies inside the window: from
\* analyzeMechanicalWindow through assessAirframe to the page.
THEOREM GainsNeedTheAirframe == AdviceSpec => []NoGainOnUncheckedAirframe
<1>1. AdviceInit => TrustInv
  BY TrustAtFirst
<1>2. TrustInv => NoGainOnUncheckedAirframe
  <2> SUFFICES ASSUME TrustInv, Changes # {}
               PROVE  Permit(flight, plan, axes)
    BY DEF NoGainOnUncheckedAirframe, Permit, Compared
  <2>1. airframe = "permitted"
    BY NoChangeIn DEF Changes, TrustInv
  <2> QED  BY <2>1 DEF TrustInv
<1> QED  BY <1>1, <1>2, TrustStep, IInvHolds, PTL DEF AdviceSpec

-----------------------------------------------------------------------------
(* The governor is blamed for what was flown: the stretches flown are the   *)
(* windows' own, one after another, whichever axis a window came from, and  *)
(* they are counted once each.  Merging is a run of steps over the windows' *)
(* beginnings in their order, and what holds of the stretches after every    *)
(* step (Gathered) says what they are after the last.                       *)

\* What one step after another makes of a beginning: the steps are given as a
\* function of their number and of what there was.
IsRun(f, N, init, step) == f[0] = init /\ \A n \in 1..N : f[n] = step[n][f[n - 1]]

LEMMA Recursion ==
    ASSUME NEW S, NEW N \in Nat, NEW init \in S, NEW step \in [1..N -> [S -> S]]
    PROVE  \E f \in [0..N -> S] : IsRun(f, N, init, step)
<1> DEFINE Turns(m, f) == f[0] = init /\ \A n \in 1..m : f[n] = step[n][f[n - 1]]
           bad == {m \in 0..N : ~ \E f \in [0..m -> S] : Turns(m, f)}
<1>0. N \in 0..N
  OBVIOUS
<1>1. SUFFICES ASSUME bad # {} PROVE FALSE
  BY <1>0 DEF IsRun
<1>2. PICK m \in bad : \A n \in bad : m <= n
  <2>1. bad \subseteq Nat
    OBVIOUS
  <2> HIDE DEF bad
  <2> QED  BY <1>1, <2>1, SmallestOfSet
<1>3. m # 0
  <2>1. SUFFICES ASSUME m = 0 PROVE FALSE
    OBVIOUS
  <2>2. [k \in 0..0 |-> init] \in [0..0 -> S] /\ Turns(0, [k \in 0..0 |-> init])
    OBVIOUS
  <2> QED  BY <2>1, <2>2
<1>4. m - 1 \in 0..N /\ ~(m <= m - 1) /\ m \in 1..N
  BY <1>3
<1>5. PICK f \in [0..(m - 1) -> S] : Turns(m - 1, f)
  BY <1>2, <1>4
<1> DEFINE g == [n \in 0..m |-> IF n = m THEN step[m][f[m - 1]] ELSE f[n]]
<1>6. f[m - 1] \in S
  BY <1>4
<1>7. g \in [0..m -> S]
  <2>1. \A n \in 0..m : n # m => n \in 0..(m - 1)
    BY <1>4
  <2>2. step[m][f[m - 1]] \in S
    BY <1>4, <1>6
  <2>3. \A n \in 0..m : (IF n = m THEN step[m][f[m - 1]] ELSE f[n]) \in S
    BY <1>5, <2>1, <2>2
  <2> QED  BY <2>3
<1>8. g[0] = init
  BY <1>3, <1>4, <1>5
<1>9. \A n \in 1..m : g[n] = step[n][g[n - 1]]
  <2> TAKE n \in 1..m
  <2>1. g[n - 1] = f[n - 1]
    BY <1>4
  <2>2. CASE n = m
    BY <2>1, <2>2
  <2>3. CASE n # m
    <3>1. n \in 1..(m - 1)
      BY <2>3, <1>4
    <3> QED  BY <3>1, <2>1, <2>3, <1>5
  <2> QED  BY <2>2, <2>3
<1> HIDE DEF g
<1> QED  BY <1>4, <1>7, <1>8, <1>9

\* A smaller number has a lower rank.
LEMMA RanksIncrease ==
    ASSUME NEW S, S \subseteq Nat, IsFiniteSet(S), NEW x \in S, NEW z \in S, x < z
    PROVE  Cardinality({y \in S : y < x}) < Cardinality({y \in S : y < z})
<1> DEFINE Below(w) == {y \in S : y < w}
<1>1. Below(x) \subseteq Below(z) /\ x \in Below(z) /\ x \notin Below(x)
  <2>1. x \in Nat /\ z \in Nat /\ ~(x < x)
    OBVIOUS
  <2>2. \A y \in S : y < x => y < z
    <3> TAKE y \in S
    <3>1. y \in Nat
      OBVIOUS
    <3> QED  BY <2>1, <3>1
  <2> QED  BY <2>1, <2>2
<1>2. IsFiniteSet(Below(z)) /\ IsFiniteSet(Below(x))
  BY FS_Subset
<1> HIDE DEF Below
<1>3. Cardinality(Below(x)) <= Cardinality(Below(z)) /\ Cardinality(Below(x)) \in Nat
      /\ Cardinality(Below(z)) \in Nat
  BY <1>1, <1>2, FS_Subset, FS_CardinalityType
<1>4. Cardinality(Below(x)) # Cardinality(Below(z))
  BY <1>1, <1>2, FS_Subset
<1> QED  BY <1>3, <1>4 DEF Below

\* The rank of a member.
LEMMA RankOf ==
    ASSUME NEW S, S \subseteq Nat, IsFiniteSet(S), NEW x \in S
    PROVE  Cardinality({y \in S : y < x}) + 1 \in 1..Cardinality(S)
<1> DEFINE below == {y \in S : y < x}
<1>1. below \subseteq S /\ x \in S /\ x \notin below
  OBVIOUS
<1>2. IsFiniteSet(below)
  BY FS_Subset
<1> HIDE DEF below
<1>3. Cardinality(below) \in Nat /\ Cardinality(S) \in Nat /\ Cardinality(below) <= Cardinality(S)
      /\ Cardinality(below) # Cardinality(S)
  BY <1>1, <1>2, FS_Subset, FS_CardinalityType
<1> QED  BY <1>3 DEF below

\* The places that SelectPlaces takes, in their order.
IsOrder(at, places) ==
    /\ DOMAIN at = 1..Cardinality(places) /\ \A k \in DOMAIN at : at[k] \in places
    /\ \A k, l \in DOMAIN at : k < l => at[k] < at[l]
    /\ \A i \in places : \E k \in DOMAIN at : at[k] = i

LEMMA OrderExists ==
    ASSUME NEW places, places \subseteq Nat, IsFiniteSet(places)
    PROVE  IsOrder([k \in 1..Cardinality(places) |->
                       CHOOSE i \in places : Cardinality({j \in places : j < i}) = k - 1], places)
<1> DEFINE Place(i) == Cardinality({j \in places : j < i})
           at == [k \in 1..Cardinality(places) |-> CHOOSE i \in places : Place(i) = k - 1]
<1>1. Cardinality(places) \in Nat
  BY FS_CardinalityType
<1>2. \A k \in 1..Cardinality(places) : at[k] \in places /\ Place(at[k]) = k - 1
  <2> TAKE k \in 1..Cardinality(places)
  <2>1. \E i \in places : Place(i) = k - 1
    BY EveryRank
  <2> HIDE DEF Place
  <2> QED  BY <2>1
<1>3. \A x, z \in places : x < z => Place(x) < Place(z)
  BY RanksIncrease
<1>4. \A x \in places : Place(x) + 1 \in 1..Cardinality(places) /\ Place(x) \in Nat
  <2> TAKE x \in places
  <2>1. Place(x) + 1 \in 1..Cardinality(places)
    BY RankOf
  <2>2. {j \in places : j < x} \subseteq places
    OBVIOUS
  <2>3. Place(x) \in Nat
    BY <2>2, FS_Subset, FS_CardinalityType
  <2> QED  BY <2>1, <2>3
<1> HIDE DEF Place
<1>5. DOMAIN at = 1..Cardinality(places)
  OBVIOUS
<1> HIDE DEF at
<1>6. ASSUME NEW k \in DOMAIN at, NEW l \in DOMAIN at, k < l PROVE at[k] < at[l]
  <2>1. PICK x \in places, z \in places : x = at[k] /\ z = at[l] /\ Place(x) = k - 1 /\ Place(z) = l - 1
    BY <1>2, <1>5
  <2>2. k \in Nat /\ l \in Nat /\ x \in Nat /\ z \in Nat
    BY <1>5
  <2>3. x # z
    BY <1>6, <2>1, <2>2
  <2>4. ~(z < x)
    BY <1>3, <1>6, <2>1, <2>2
  <2>5. x < z
    BY <2>2, <2>3, <2>4
  <2> QED  BY <2>1, <2>5
<1>7. ASSUME NEW i \in places PROVE \E k \in DOMAIN at : at[k] = i
  <2> DEFINE k == Place(i) + 1
  <2>1. k \in DOMAIN at /\ k - 1 = Place(i)
    BY <1>4, <1>5
  <2>2. at[k] \in places /\ Place(at[k]) = Place(i)
    BY <1>2, <1>5, <2>1
  <2>3. at[k] \in Nat /\ i \in Nat /\ Place(i) \in Nat
    BY <1>4, <2>2
  <2>4. ~(at[k] < i) /\ ~(i < at[k])
    BY <1>3, <2>2, <2>3
  <2>5. at[k] = i
    BY <2>3, <2>4
  <2> QED  BY <2>1, <2>5
<1>8. IsOrder(at, places)
  BY <1>2, <1>5, <1>6, <1>7 DEF IsOrder
<1> QED  BY <1>8 DEF at, Place


\* A finite set of numbers has a bound.
LEMMA FiniteHasBound ==
    ASSUME NEW T, T \subseteq Nat, IsFiniteSet(T)
    PROVE  \E n \in Nat : \A x \in T : x <= n
<1> DEFINE c == Cardinality(T)
<1>1. c \in Nat
  BY FS_CardinalityType
<1>2. CASE T = {}
  BY <1>2
<1>3. CASE T # {}
  <2>1. c # 0
    BY <1>3, FS_EmptySet
  <2>2. c \in 1 .. c
    <3> HIDE DEF c
    <3> QED  BY <1>1, <2>1
  <2>3. PICK x \in T : Cardinality({y \in T : y < x}) = c - 1
    BY <2>2, EveryRank
  <2>4. \A z \in T : x < z => FALSE
    <3> SUFFICES ASSUME NEW z \in T, x < z PROVE FALSE
      OBVIOUS
    <3> DEFINE below == Cardinality({y \in T : y < z})
    <3>1. c - 1 < below
      BY <2>3, RanksIncrease
    <3>2. below + 1 \in 1 .. c
      BY RankOf
    <3>3. below \in Nat
      BY FS_Subset, FS_CardinalityType
    <3> HIDE DEF below, c
    <3> QED  BY <1>1, <3>1, <3>2, <3>3
  <2>5. \A z \in T : z <= x
    <3> TAKE z \in T
    <3>1. x \in Nat /\ z \in Nat
      OBVIOUS
    <3> QED  BY <2>4, <3>1
  <2> QED  BY <2>5
<1> QED  BY <1>2, <1>3

\* The members of a set in their order.
LEMMA SortedOrder ==
    ASSUME NEW S, S \subseteq Nat, IsFiniteSet(S)
    PROVE  IsOrder(Sorted(S), S)
<1> DEFINE Of(k) == CHOOSE i \in S : Cardinality({j \in S : j < i}) = k - 1
           at == [k \in 1..Cardinality(S) |-> Of(k)]
<1>1. IsOrder(at, S)
  BY OrderExists
<1>2. Sorted(S) = at \o <<>>
  BY SortedIs
<1>3. Cardinality(S) \in Nat
  BY FS_CardinalityType
<1> HIDE DEF Of
<1>4. at \in [1 .. Cardinality(S) -> S]
  <2>1. \A k \in 1 .. Cardinality(S) : at[k] \in S
    BY <1>1 DEF IsOrder
  <2> QED  BY <2>1
<1> HIDE DEF at
<1>5. at \in Seq(S)
  BY <1>3, <1>4
<1>6. Sorted(S) = at
  BY <1>2, <1>5, ConcatEmptySeq
<1> QED  BY <1>1, <1>6

\* Where a segment begins: no window already runs; and the windows of the
\* segment that begins at b.
Starts(ws) == {w.from : w \in {v \in ws : ~\E u \in ws : u.from < v.from /\ v.from <= u.to}}
Own(ws, b) == {v \in ws : v.from >= b /\ ~\E c \in Starts(ws) : b < c /\ c <= v.from}

\* Windows from one number of T to another.
AreWindows(ws, T) == \A w \in ws : w.from \in T /\ w.to \in T

SegmentRecords(ws) == [from : Nat, to : Nat, outcomes : SUBSET {w.outcome : w \in ws}]

\* The windows of ws that begin at f.
IsBegun(next, ws, f) ==
    /\ next.from = f /\ next.to \in Nat
    /\ \A w \in ws : w.from = f => w.to <= next.to
    /\ \E w \in ws : w.from = f /\ w.to = next.to
    /\ next.outcomes = {w.outcome : w \in {v \in ws : v.from = f}}

LEMMA BegunIs ==
    ASSUME NEW T, T \subseteq Nat, IsFiniteSet(T), NEW ws, AreWindows(ws, T),
           NEW f \in {w.from : w \in ws}
    PROVE  IsBegun(Begun(ws, f), ws, f) /\ Begun(ws, f) \in SegmentRecords(ws)
<1> DEFINE own == {w \in ws : w.from = f}
           ends == {w.to : w \in own}
           next == Begun(ws, f)
<1>1. next = [from |-> f, to |-> Max(ends), outcomes |-> {w.outcome : w \in own}]
  BY DEF Begun
<1>2. PICK n \in Nat : \A x \in T : x <= n
  BY FiniteHasBound
<1>3. ends \subseteq T /\ ends # {}
  BY DEF AreWindows
<1>4. Max(ends) \in ends /\ \A x \in ends : x <= Max(ends)
  <2>1. ends \subseteq Nat /\ \A x \in ends : x <= n
    BY <1>2, <1>3
  <2> HIDE DEF ends
  <2> QED  BY <1>3, <2>1, LargestOfSet
<1>5. Max(ends) \in Nat
  BY <1>3, <1>4
<1>6. \A w \in ws : w.from = f => w.to <= Max(ends)
  BY <1>4
<1>7. \E w \in ws : w.from = f /\ w.to = Max(ends)
  BY <1>4
<1> DEFINE top == Max(ends)
           given == {w.outcome : w \in own}
<1>8. next = [from |-> f, to |-> top, outcomes |-> given]
  BY <1>1
<1>9. f \in Nat /\ given \in SUBSET {w.outcome : w \in ws}
  BY DEF AreWindows
<1>10. top \in Nat /\ (\A w \in ws : w.from = f => w.to <= top) /\ \E w \in ws : w.from = f /\ w.to = top
  BY <1>5, <1>6, <1>7
<1>11. given = {w.outcome : w \in {v \in ws : v.from = f}}
  OBVIOUS
<1> HIDE DEF top, given, next
<1>12. IsBegun(next, ws, f)
  BY <1>8, <1>10, <1>11 DEF IsBegun
<1>13. next \in SegmentRecords(ws)
  BY <1>8, <1>9, <1>10 DEF SegmentRecords
<1> QED  BY <1>12, <1>13 DEF next

LEMMA LaterOfTwo ==
    ASSUME NEW x \in Nat, NEW y \in Nat
    PROVE  Max({x, y}) \in Nat /\ x <= Max({x, y}) /\ y <= Max({x, y}) /\ Max({x, y}) \in {x, y}
<1>1. {x, y} \subseteq Nat /\ {x, y} # {} /\ x + y \in Nat /\ \A z \in {x, y} : z <= x + y
  OBVIOUS
<1> DEFINE S == {x, y}
<1>2. S \subseteq Nat /\ S # {} /\ \A z \in S : z <= x + y
  BY <1>1
<1>3. x \in S /\ y \in S
  OBVIOUS
<1> HIDE DEF S
<1>4. Max(S) \in S /\ \A z \in S : z <= Max(S)
  BY <1>1, <1>2, LargestOfSet
<1>5. Max(S) \in Nat /\ x <= Max(S) /\ y <= Max(S)
  BY <1>2, <1>3, <1>4
<1> QED  BY <1>4, <1>5 DEF S

LEMMA ExtendedType ==
    ASSUME NEW ws, NEW s \in Seq(SegmentRecords(ws)), NEW next \in SegmentRecords(ws)
    PROVE  Extended(s, next) \in Seq(SegmentRecords(ws))
<1> DEFINE R == SegmentRecords(ws)
<1>1. CASE s # <<>> /\ next.from <= Last(s).to
  <2>1. Len(s) \in 1 .. Len(s) /\ DOMAIN s = 1 .. Len(s) /\ Len(s) \in Nat
    BY <1>1
  <2>2. s[Len(s)] \in R
    BY <2>1
  <2>3. /\ s[Len(s)].to \in Nat /\ s[Len(s)].from \in Nat /\ next.to \in Nat
        /\ s[Len(s)].outcomes \cup next.outcomes \in SUBSET {w.outcome : w \in ws}
    BY <2>2 DEF SegmentRecords
  <2>4. Max({s[Len(s)].to, next.to}) \in Nat
    BY <2>3, LaterOfTwo
  <2>5. Joined(s[Len(s)], next) \in R
    BY <2>3, <2>4 DEF Joined, SegmentRecords
  <2>6. Extended(s, next) = [s EXCEPT ![Len(s)] = Joined(s[Len(s)], next)]
    BY <1>1 DEF Extended
  <2> HIDE DEF R
  <2> QED  BY <2>1, <2>5, <2>6 DEF R
<1>2. CASE ~(s # <<>> /\ next.from <= Last(s).to)
  <2>1. Extended(s, next) = Append(s, next)
    BY <1>2 DEF Extended
  <2> QED  BY <2>1, AppendProperties
<1> QED  BY <1>1, <1>2


\* The segments, one beginning after the other.
Gathers(f, ws, begin) ==
    /\ f[0] = <<>>
    /\ \A n \in 1 .. Len(begin) : f[n] = Extended(f[n - 1], Begun(ws, begin[n]))
    /\ Segments(ws) = f[Len(begin)]

LEMMA SegmentsSteps ==
    ASSUME NEW T, T \subseteq Nat, IsFiniteSet(T), NEW ws, AreWindows(ws, T),
           NEW begin, begin = Sorted({w.from : w \in ws})
    PROVE  \E f \in [0 .. Len(begin) -> Seq(SegmentRecords(ws))] : Gathers(f, ws, begin)
<1> DEFINE froms == {w.from : w \in ws}
           L == Len(begin)
           S == Seq(SegmentRecords(ws))
           step == [n \in 1 .. L |-> [s \in S |-> Extended(s, Begun(ws, begin[n]))]]
           joined(f) == [n \in 0 .. L |-> IF n = 0 THEN <<>> ELSE Extended(f[n - 1], Begun(ws, begin[n]))]
           g == CHOOSE f : f = joined(f)
<1>1. /\ L \in Nat /\ \A n \in 1 .. L : begin[n] \in froms
  <2>1. froms \subseteq T
    BY DEF AreWindows
  <2>2. froms \subseteq Nat /\ IsFiniteSet(froms)
    BY <2>1, FS_Subset
  <2>4. begin = Sorted(froms)
    OBVIOUS
  <2> HIDE DEF froms
  <2>3. begin \in Seq(froms)
    BY <2>2, <2>4, SortedMembers
  <2> QED  BY <2>3, LenProperties, ElementOfSeq
<1>2. step \in [1 .. L -> [S -> S]]
  <2>1. \A n \in 1 .. L : Begun(ws, begin[n]) \in SegmentRecords(ws)
    <3> TAKE n \in 1 .. L
    <3>1. begin[n] \in froms
      BY <1>1
    <3> QED  BY <3>1, BegunIs
  <2>2. \A n \in 1 .. L : \A s \in S : Extended(s, Begun(ws, begin[n])) \in S
    <3> HIDE DEF L
    <3> QED  BY <2>1, ExtendedType
  <2> HIDE DEF S, L
  <2> QED  BY <2>2
<1>3. \A n \in 1 .. L : \A s \in S : step[n][s] = Extended(s, Begun(ws, begin[n]))
  <2> HIDE DEF S, L
  <2> QED  OBVIOUS
<1>4. Segments(ws) = g[L]
  BY DEF Segments
<1> HIDE DEF step, L
<1>5. <<>> \in S
  OBVIOUS
<1> HIDE DEF S
<1>6. PICK f \in [0 .. L -> S] : f[0] = <<>> /\ \A n \in 1 .. L : f[n] = step[n][f[n - 1]]
  <2> DEFINE none == <<>>
  <2>1. none \in S
    BY <1>5
  <2> HIDE DEF none
  <2>2. \E f \in [0 .. L -> S] : IsRun(f, L, none, step)
    BY <1>1, <1>2, <2>1, Recursion
  <2> QED  BY <2>2 DEF none, IsRun
<1>7. \A n \in 1 .. L : f[n - 1] \in S
  BY <1>1, <1>6
<1>8. \A n \in 1 .. L : f[n] = Extended(f[n - 1], Begun(ws, begin[n]))
  BY <1>3, <1>6, <1>7
<1>9. f = joined(f)
  <2>1. \A n \in 0 .. L : n = 0 \/ n \in 1 .. L
    BY <1>1
  <2>2. \A n \in 0 .. L : f[n] = IF n = 0 THEN <<>> ELSE Extended(f[n - 1], Begun(ws, begin[n]))
    BY <1>6, <1>8, <2>1
  <2> QED  BY <1>6, <2>2
<1>10. g = joined(g)
  <2> HIDE DEF joined
  <2> QED  BY <1>9
<1>11. g[0] = <<>> /\ \A n \in 1 .. L : g[n] = Extended(g[n - 1], Begun(ws, begin[n]))
  <2> HIDE DEF g
  <2>1. \A n \in 0 .. L : g[n] = IF n = 0 THEN <<>> ELSE Extended(g[n - 1], Begun(ws, begin[n]))
    BY <1>10
  <2> QED  BY <1>1, <2>1
<1> DEFINE odd == {n \in 0 .. L : g[n] # f[n]}
<1>12. odd = {}
  <2>1. SUFFICES ASSUME odd # {} PROVE FALSE
    OBVIOUS
  <2>2. PICK n \in odd : \A k \in odd : n <= k
    <3>1. odd \subseteq Nat
      OBVIOUS
    <3> HIDE DEF odd
    <3> QED  BY <2>1, <3>1, SmallestOfSet
  <2> HIDE DEF g
  <2>3. n \in 0 .. L /\ g[n] # f[n] /\ n # 0
    BY <1>6, <1>11
  <2>4. n \in 1 .. L /\ n - 1 \in 0 .. L /\ ~(n <= n - 1)
    BY <1>1, <2>3
  <2>5. g[n - 1] = f[n - 1]
    BY <2>2, <2>4
  <2> QED  BY <1>8, <1>11, <2>3, <2>4, <2>5
<1>13. Segments(ws) = f[L]
  <2> HIDE DEF g
  <2>1. L \in 0 .. L
    BY <1>1
  <2> QED  BY <1>4, <1>12, <2>1
<1> HIDE DEF joined, g, odd
<1>14. Gathers(f, ws, begin)
  BY <1>6, <1>8, <1>13 DEF Gathers, L
<1> QED  BY <1>14 DEF L, S

\* What the segments are once every window that begins at m or before was read.
Gathered(s, ws, m) ==
    /\ s # <<>>
    /\ \A k \in DOMAIN s : s[k].from \in Starts(ws) /\ s[k].from <= m
    /\ \A k, l \in DOMAIN s : k < l => s[k].from < s[l].from
    /\ \A b \in Starts(ws) : b <= m => \E k \in DOMAIN s : s[k].from = b
    /\ \A k \in DOMAIN s : s[k].outcomes = {w.outcome : w \in {v \in Own(ws, s[k].from) : v.from <= m}}
    /\ \A w \in ws : w.from <= m => w.to <= s[Len(s)].to \/ w.to < s[Len(s)].from
    /\ \E w \in ws : w.from <= m /\ w.to = s[Len(s)].to

\* f is the next beginning after m.
NextFrom(ws, m, f) ==
    /\ m < f /\ \E w \in ws : w.from = f
    /\ \A w \in ws : w.from < f => w.from <= m

LEMMA FirstGathered ==
    ASSUME NEW T, T \subseteq Nat, NEW ws, AreWindows(ws, T), NEW f \in {w.from : w \in ws},
           \A w \in ws : f <= w.from, NEW next, IsBegun(next, ws, f)
    PROVE  Gathered(Extended(<<>>, next), ws, f)
<1>1. Extended(<<>>, next) = <<next>>
  BY DEF Extended
<1>2. \A w \in ws : w.from \in Nat /\ w.to \in Nat
  BY DEF AreWindows
<1>3. f \in Nat
  BY <1>2
<1>4. next.from = f /\ \A w \in ws : ~(w.from < f)
  BY <1>2 DEF IsBegun
<1>5. f \in Starts(ws) /\ \A b \in Starts(ws) : b \in Nat /\ f <= b
  BY <1>2, <1>4 DEF Starts
<1>6. {v \in Own(ws, f) : v.from <= f} = {v \in ws : v.from = f}
  BY <1>2, <1>3, <1>5 DEF Own
<1>7. next.outcomes = {w.outcome : w \in {v \in Own(ws, f) : v.from <= f}}
  BY <1>6 DEF IsBegun
<1>8. \A w \in ws : w.from <= f => w.to <= next.to
  BY <1>2, <1>3 DEF IsBegun
<1>9. \E w \in ws : w.from <= f /\ w.to = next.to
  BY <1>2, <1>3 DEF IsBegun
<1> DEFINE s == <<next>>
<1>10. Len(s) = 1 /\ DOMAIN s = {1} /\ s[1] = next /\ s # <<>>
  OBVIOUS
<1> HIDE DEF s
<1>11. Gathered(s, ws, f)
  BY <1>3, <1>4, <1>5, <1>7, <1>8, <1>9, <1>10 DEF Gathered
<1> QED  BY <1>1, <1>11 DEF s


LEMMA NextGathered ==
    ASSUME NEW T, T \subseteq Nat, NEW ws, AreWindows(ws, T), NEW m \in Nat, NEW f \in Nat,
           NextFrom(ws, m, f), NEW next \in SegmentRecords(ws), IsBegun(next, ws, f),
           NEW s \in Seq(SegmentRecords(ws)), Gathered(s, ws, m)
    PROVE  Gathered(Extended(s, next), ws, f)
<1> DEFINE L == Len(s)
           e == s[L]
<1>1. L \in Nat \ {0} /\ DOMAIN s = 1 .. L
  BY DEF Gathered
<1>2. e.from \in Nat /\ e.to \in Nat /\ \A k \in 1 .. L : s[k].from \in Nat
  <2>1. \A k \in 1 .. L : s[k] \in SegmentRecords(ws)
    BY <1>1, ElementOfSeq
  <2>2. L \in 1 .. L
    BY <1>1
  <2> QED  BY <2>1, <2>2 DEF SegmentRecords
<1>3. /\ \A w \in ws : w.from \in Nat /\ w.to \in Nat
      /\ Starts(ws) \subseteq Nat
  BY DEF AreWindows, Starts
<1>4. next.from = f /\ m < f /\ \A w \in ws : w.from <= f <=> w.from <= m \/ w.from = f
  <2>1. \A w \in ws : w.from < f => w.from <= m
    BY DEF NextFrom
  <2> QED  BY <1>3, <2>1 DEF IsBegun, NextFrom
<1>5. \A b \in Starts(ws) : b <= f <=> b <= m \/ b = f
  <2> TAKE b \in Starts(ws)
  <2>1. PICK w \in ws : b = w.from
    BY DEF Starts
  <2> QED  BY <1>4, <2>1
<1> HIDE DEF L
<1>6. /\ \A k \in 1 .. L : s[k].from \in Starts(ws) /\ s[k].from <= m /\ s[k].from < f
      /\ \A k, l \in 1 .. L : k < l => s[k].from < s[l].from
      /\ \A b \in Starts(ws) : b <= m => \E k \in 1 .. L : s[k].from = b
      /\ \A w \in ws : w.from <= m => w.to <= e.to \/ w.to < e.from
      /\ e.from \in Starts(ws) /\ e.from < f
  <2>1. \A k \in 1 .. L : s[k].from \in Starts(ws) /\ s[k].from <= m
    BY <1>1 DEF Gathered
  <2>2. \A k \in 1 .. L : s[k].from < f
    BY <1>2, <1>4, <2>1
  <2>3. L \in 1 .. L
    BY <1>1
  <2> QED  BY <1>1, <2>1, <2>2, <2>3 DEF Gathered, L
<1>7. \A k \in 1 .. L : s[k].outcomes = {w.outcome : w \in {v \in Own(ws, s[k].from) : v.from <= m}}
  BY <1>1 DEF Gathered
<1>8. \A b \in Starts(ws) : b <= m => b <= e.from
  <2> TAKE b \in Starts(ws)
  <2>1. SUFFICES ASSUME b <= m PROVE b <= e.from
    OBVIOUS
  <2>2. PICK k \in 1 .. L : s[k].from = b
    BY <1>6, <2>1
  <2>3. L \in 1 .. L /\ (k < L \/ k = L)
    BY <1>1
  <2>4. s[k].from < e.from \/ k = L
    BY <1>6, <2>3
  <2> QED  BY <1>2, <1>3, <2>2, <2>4
<1>9. \A k \in 1 .. L : k # L => s[k].from < e.from
  BY <1>1, <1>6
<1>10. /\ \A w \in ws : w.from = f => w.to <= next.to
       /\ \E w \in ws : w.from = f /\ w.to = next.to
       /\ next.outcomes = {w.outcome : w \in {v \in ws : v.from = f}}
       /\ next.to \in Nat
  BY DEF IsBegun
<1>11. CASE f <= e.to
  <2> DEFINE j == Joined(e, next)
             z == [s EXCEPT ![L] = j]
  <2>1. Extended(s, next) = z
    BY <1>1, <1>4, <1>11 DEF Extended, Gathered, L, Last
  <2>2. f \notin Starts(ws)
    <3>1. PICK u \in ws : u.from <= m /\ u.to = e.to
      BY DEF Gathered, L
    <3>2. u.from < f /\ f <= u.to
      BY <1>3, <1>4, <1>11, <3>1
    <3> QED  BY <3>2 DEF Starts
  <2>3. j.from = e.from /\ j.to = Max({e.to, next.to}) /\ j.outcomes = e.outcomes \cup next.outcomes
    BY DEF Joined
  <2>4. e.to <= j.to /\ next.to <= j.to /\ j.to \in {e.to, next.to} /\ j.to \in Nat
    BY <1>2, <1>10, <2>3, LaterOfTwo
  <2> HIDE DEF j
  <2>5. /\ DOMAIN z = 1 .. L /\ z # <<>> /\ Len(z) = L
        /\ \A k \in 1 .. L : z[k] = IF k = L THEN j ELSE s[k]
    <3>1. Len(z) = L /\ DOMAIN z = 1 .. L
      BY <1>1 DEF L
    <3> QED  BY <1>1, <3>1
  <2> HIDE DEF z
  <2>6. \A k \in 1 .. L : z[k].from = s[k].from
    BY <2>3, <2>5
  <2>7. \A k \in 1 .. L : z[k].from \in Starts(ws) /\ z[k].from <= f
    BY <1>2, <1>6, <2>6
  <2>8. \A b \in Starts(ws) : b <= f => \E k \in 1 .. L : z[k].from = b
    BY <1>5, <1>6, <2>2, <2>6
  <2>9. ASSUME NEW k \in 1 .. L
        PROVE  z[k].outcomes = {w.outcome : w \in {v \in Own(ws, z[k].from) : v.from <= f}}
    <3>1. CASE k = L
      <4>1. \A v \in ws : v.from = f => v \in Own(ws, e.from)
        <5> SUFFICES ASSUME NEW v \in ws, v.from = f,
                            NEW c \in Starts(ws), e.from < c, c <= v.from
                     PROVE  FALSE
          BY <1>2, <1>6 DEF Own
        <5>1. c <= m
          BY <1>5, <2>2
        <5>2. c <= e.from
          BY <1>8, <5>1
        <5> QED  BY <1>2, <1>3, <5>2
      <4>2. {v \in Own(ws, e.from) : v.from <= f}
                = {v \in Own(ws, e.from) : v.from <= m} \cup {v \in ws : v.from = f}
        BY <1>4, <4>1 DEF Own
      <4>3. e.outcomes = {w.outcome : w \in {v \in Own(ws, e.from) : v.from <= m}}
        BY <1>7, <3>1
      <4>4. z[k].from = e.from /\ z[k].outcomes = e.outcomes \cup next.outcomes
        BY <2>3, <2>5, <3>1
      <4> QED  BY <1>10, <4>2, <4>3, <4>4
    <3>2. CASE k # L
      <4>1. \A v \in Own(ws, s[k].from) : v.from <= f => v.from <= m
        <5> SUFFICES ASSUME NEW v \in Own(ws, s[k].from), v.from = f PROVE FALSE
          BY <1>4 DEF Own
        <5>1. s[k].from < e.from /\ e.from <= v.from
          BY <1>2, <1>6, <1>9, <3>2
        <5> QED  BY <1>6, <5>1 DEF Own
      <4>2. {v \in Own(ws, s[k].from) : v.from <= f} = {v \in Own(ws, s[k].from) : v.from <= m}
        BY <1>4, <4>1 DEF Own
      <4>3. z[k] = s[k]
        BY <2>5, <3>2
      <4> QED  BY <1>7, <4>2, <4>3
    <3> QED  BY <3>1, <3>2
  <2>10. \A w \in ws : w.from <= f => w.to <= z[L].to \/ w.to < z[L].from
    <3> TAKE w \in ws
    <3>1. z[L].to = j.to /\ z[L].from = e.from
      BY <1>1, <2>3, <2>5
    <3>2. w.from = f => w.to <= next.to
      BY <1>10
    <3>3. w.from <= m => w.to <= e.to \/ w.to < e.from
      BY <1>6
    <3>4. w.to \in Nat
      BY <1>3
    <3> QED  BY <1>2, <1>4, <1>10, <2>4, <3>1, <3>2, <3>3, <3>4
  <2>11. \E w \in ws : w.from <= f /\ w.to = z[L].to
    <3>1. z[L].to \in {e.to, next.to}
      BY <1>1, <2>4, <2>5
    <3>2. \E w \in ws : w.from <= f /\ w.to = e.to
      BY <1>4 DEF Gathered, L
    <3>3. \E w \in ws : w.from <= f /\ w.to = next.to
      BY <1>4, <1>10
    <3> QED  BY <3>1, <3>2, <3>3
  <2>12. \A k, l \in 1 .. L : k < l => z[k].from < z[l].from
    BY <1>6, <2>6
  <2>13. Gathered(z, ws, f)
    BY <2>5, <2>7, <2>8, <2>9, <2>10, <2>11, <2>12 DEF Gathered
  <2> QED  BY <2>1, <2>13
<1>12. CASE ~(f <= e.to)
  <2> DEFINE z == Append(s, next)
  <2>1. Extended(s, next) = z
    BY <1>4, <1>12 DEF Extended, L, Last
  <2>2. f \in Starts(ws)
    <3>1. \A u \in ws : ~(u.from < f /\ f <= u.to)
      <4> TAKE u \in ws
      <4>1. u.from < f => u.from <= m
        BY DEF NextFrom
      <4>2. u.from <= m => u.to <= e.to \/ u.to < e.from
        BY <1>6
      <4>3. u.to \in Nat /\ u.from \in Nat
        BY <1>3
      <4> QED  BY <1>2, <1>6, <1>12, <4>1, <4>2, <4>3
    <3>2. \E v \in ws : v.from = f
      BY DEF NextFrom
    <3> QED  BY <3>1, <3>2 DEF Starts
  <2>3. /\ DOMAIN z = 1 .. L + 1 /\ Len(z) = L + 1 /\ z # <<>> /\ z[L + 1] = next
        /\ \A k \in 1 .. L : z[k] = s[k]
    BY <1>1 DEF L
  <2>4. \A k \in 1 .. L + 1 : k = L + 1 \/ k \in 1 .. L
    BY <1>1
  <2> HIDE DEF z
  <2>5. \A k \in 1 .. L + 1 : z[k].from \in Starts(ws) /\ z[k].from <= f
    <3> TAKE k \in 1 .. L + 1
    <3>1. CASE k = L + 1
      BY <1>4, <2>2, <2>3, <3>1
    <3>2. CASE k \in 1 .. L
      BY <1>2, <1>6, <2>3, <3>2
    <3> QED  BY <2>4, <3>1, <3>2
  <2>6. \A k, l \in 1 .. L + 1 : k < l => z[k].from < z[l].from
    <3> TAKE k, l \in 1 .. L + 1
    <3>1. SUFFICES ASSUME k < l PROVE z[k].from < z[l].from
      OBVIOUS
    <3>2. k \in 1 .. L
      BY <1>1, <3>1
    <3>3. CASE l = L + 1
      BY <1>4, <1>6, <2>3, <3>2, <3>3
    <3>4. CASE l \in 1 .. L
      BY <1>6, <2>3, <3>1, <3>2, <3>4
    <3> QED  BY <2>4, <3>3, <3>4
  <2>7. \A b \in Starts(ws) : b <= f => \E k \in 1 .. L + 1 : z[k].from = b
    <3> TAKE b \in Starts(ws)
    <3>1. SUFFICES ASSUME b <= f PROVE \E k \in 1 .. L + 1 : z[k].from = b
      OBVIOUS
    <3>2. CASE b = f
      <4>1. L + 1 \in 1 .. L + 1
        BY <1>1
      <4> QED  BY <1>4, <2>3, <3>2, <4>1
    <3>3. CASE b <= m
      <4>1. PICK k \in 1 .. L : s[k].from = b
        BY <1>6, <3>3
      <4>2. k \in 1 .. L + 1
        BY <1>1
      <4> QED  BY <2>3, <4>1, <4>2
    <3> QED  BY <1>5, <3>1, <3>2, <3>3
  <2>8. ASSUME NEW k \in 1 .. L + 1
        PROVE  z[k].outcomes = {w.outcome : w \in {v \in Own(ws, z[k].from) : v.from <= f}}
    <3>1. CASE k = L + 1
      <4>1. {v \in Own(ws, f) : v.from <= f} = {v \in ws : v.from = f}
        <5>1. \A c \in Starts(ws) : ~(f < c /\ c <= f)
          BY <1>3
        <5> QED  BY <1>3, <5>1 DEF Own
      <4> QED  BY <1>4, <1>10, <2>3, <3>1, <4>1
    <3>2. CASE k \in 1 .. L
      <4>1. \A v \in Own(ws, s[k].from) : v.from <= f => v.from <= m
        <5> SUFFICES ASSUME NEW v \in Own(ws, s[k].from), v.from = f PROVE FALSE
          BY <1>4 DEF Own
        <5>1. s[k].from < f /\ f <= v.from
          BY <1>6, <3>2
        <5> QED  BY <2>2, <5>1 DEF Own
      <4>2. {v \in Own(ws, s[k].from) : v.from <= f} = {v \in Own(ws, s[k].from) : v.from <= m}
        BY <1>4, <4>1 DEF Own
      <4> QED  BY <1>7, <2>3, <3>2, <4>2
    <3> QED  BY <2>4, <3>1, <3>2
  <2>9. \A w \in ws : w.from <= f => w.to <= z[L + 1].to \/ w.to < z[L + 1].from
    <3> TAKE w \in ws
    <3>1. w.from = f => w.to <= next.to
      BY <1>10
    <3>2. w.from <= m => w.to <= e.to \/ w.to < e.from
      BY <1>6
    <3>3. w.to \in Nat
      BY <1>3
    <3> QED  BY <1>2, <1>4, <1>6, <1>10, <1>12, <2>3, <3>1, <3>2, <3>3
  <2>10. \E w \in ws : w.from <= f /\ w.to = z[L + 1].to
    BY <1>4, <1>10, <2>3
  <2>11. Gathered(z, ws, f)
    BY <2>3, <2>5, <2>6, <2>7, <2>8, <2>9, <2>10 DEF Gathered
  <2> QED  BY <2>1, <2>11
<1> QED  BY <1>11, <1>12


\* The segments are the stretches of overlapping windows: one for each place
\* where a window begins and none already runs, in their order, with what the
\* windows gave that belong to it.
SegmentsOf(s, ws) ==
    /\ DOMAIN s = 1 .. Len(s) /\ Len(s) \in Nat
    /\ \A k \in DOMAIN s : s[k].from \in Starts(ws)
    /\ \A k, l \in DOMAIN s : s[k].from = s[l].from => k = l
    /\ \A b \in Starts(ws) : \E k \in DOMAIN s : s[k].from = b
    /\ \A k \in DOMAIN s : s[k].outcomes = {w.outcome : w \in Own(ws, s[k].from)}

LEMMA GatheredAll ==
    ASSUME NEW T, T \subseteq Nat, NEW ws, AreWindows(ws, T), NEW m \in Nat,
           \A w \in ws : w.from <= m,
           NEW s \in Seq(SegmentRecords(ws)), Gathered(s, ws, m)
    PROVE  SegmentsOf(s, ws)
<1>1. Len(s) \in Nat /\ DOMAIN s = 1 .. Len(s)
  OBVIOUS
<1>2. \A b \in Starts(ws) : b <= m
  BY DEF Starts
<1>3. \A k \in DOMAIN s : s[k].from \in Starts(ws)
  BY DEF Gathered
<1>4. Starts(ws) \subseteq Nat
  BY DEF Starts, AreWindows
<1>5. ASSUME NEW k \in DOMAIN s, NEW l \in DOMAIN s, s[k].from = s[l].from
      PROVE  k = l
  <2>1. k \in Nat /\ l \in Nat
    BY <1>1
  <2>2. s[k].from \in Nat /\ s[l].from \in Nat
    BY <1>3, <1>4
  <2>3. (k < l => s[k].from < s[l].from) /\ (l < k => s[l].from < s[k].from)
    BY DEF Gathered
  <2> QED  BY <1>5, <2>1, <2>2, <2>3
<1>6. \A k \in DOMAIN s : {v \in Own(ws, s[k].from) : v.from <= m} = Own(ws, s[k].from)
  BY DEF Own
<1>7. \A k \in DOMAIN s : s[k].outcomes = {w.outcome : w \in Own(ws, s[k].from)}
  BY <1>6 DEF Gathered
<1>8. \A b \in Starts(ws) : \E k \in DOMAIN s : s[k].from = b
  BY <1>2 DEF Gathered
<1> QED  BY <1>1, <1>3, <1>5, <1>7, <1>8 DEF SegmentsOf

LEMMA SegmentsAre ==
    ASSUME NEW T, T \subseteq Nat, IsFiniteSet(T), NEW ws, AreWindows(ws, T)
    PROVE  SegmentsOf(Segments(ws), ws)
<1> DEFINE froms == {w.from : w \in ws}
<1>1. PICK begin : begin = Sorted(froms)
  OBVIOUS
<1>2. froms \subseteq Nat /\ IsFiniteSet(froms)
  <2>1. froms \subseteq T
    BY DEF AreWindows
  <2> QED  BY <2>1, FS_Subset
<1> DEFINE L == Len(begin)
           R == SegmentRecords(ws)
<1>3. PICK f \in [0 .. L -> Seq(R)] :
          /\ f[0] = <<>>
          /\ \A n \in 1 .. L : f[n] = Extended(f[n - 1], Begun(ws, begin[n]))
          /\ Segments(ws) = f[L]
  <2>1. \E f \in [0 .. L -> Seq(R)] : Gathers(f, ws, begin)
    BY <1>1, SegmentsSteps
  <2> QED  BY <2>1 DEF Gathers
<1>4. begin \in Seq(froms) /\ IsOrder(begin, froms)
  <2> HIDE DEF froms
  <2> QED  BY <1>1, <1>2, SortedMembers, SortedOrder
<1>5. /\ L \in Nat /\ DOMAIN begin = 1 .. L
      /\ \A n \in 1 .. L : begin[n] \in froms /\ begin[n] \in Nat
      /\ \A k, l \in 1 .. L : k < l => begin[k] < begin[l]
      /\ \A b \in froms : \E k \in 1 .. L : begin[k] = b
  <2> HIDE DEF froms
  <2>1. L \in Nat /\ DOMAIN begin = 1 .. L
    BY <1>4, LenProperties
  <2> HIDE DEF L
  <2> QED  BY <1>2, <1>4, <2>1 DEF IsOrder
<1>6. \A w \in ws : w.from \in froms /\ w.from \in Nat
  BY <1>2
<1>7. \A n \in 1 .. L : IsBegun(Begun(ws, begin[n]), ws, begin[n]) /\ Begun(ws, begin[n]) \in R
  <2> TAKE n \in 1 .. L
  <2>1. PICK b \in {w.from : w \in ws} : b = begin[n]
    BY <1>5
  <2>2. IsBegun(Begun(ws, b), ws, b) /\ Begun(ws, b) \in R
    BY BegunIs
  <2> QED  BY <2>1, <2>2
<1> HIDE DEF L, R
<1>8. CASE L = 0
  <2>1. ws = {}
    <3>1. 1 .. L = {}
      BY <1>8
    <3> HIDE DEF froms
    <3> QED  BY <1>5, <1>6, <3>1
  <2>2. Segments(ws) = <<>>
    BY <1>3, <1>8
  <2>3. Starts(ws) = {} /\ Len(<<>>) = 0 /\ DOMAIN <<>> = {} /\ {} = 1 .. 0
    BY <2>1 DEF Starts
  <2> QED  BY <2>2, <2>3 DEF SegmentsOf
<1>9. CASE L # 0
  <2> DEFINE bad == {n \in 1 .. L : ~Gathered(f[n], ws, begin[n])}
  <2>1. bad = {}
    <3>1. SUFFICES ASSUME bad # {} PROVE FALSE
      OBVIOUS
    <3>2. PICK n \in bad : \A k \in bad : n <= k
      <4>1. bad \subseteq Nat
        OBVIOUS
      <4> HIDE DEF bad
      <4> QED  BY <3>1, <4>1, SmallestOfSet
    <3>3. n \in 1 .. L /\ n \in Nat /\ n - 1 \in 0 .. L /\ ~(n <= n - 1)
      BY <1>5
    <3>4. f[n] = Extended(f[n - 1], Begun(ws, begin[n])) /\ f[n - 1] \in Seq(R)
      BY <1>3, <3>3
    <3>5. \A w \in ws : w.from < begin[n] => n # 1 /\ w.from <= begin[n - 1]
      <4> SUFFICES ASSUME NEW w \in ws, w.from < begin[n]
                   PROVE  n # 1 /\ w.from <= begin[n - 1]
        OBVIOUS
      <4>1. PICK k \in 1 .. L : begin[k] = w.from
        BY <1>5, <1>6
      <4>2. begin[k] \in Nat /\ begin[n] \in Nat /\ k \in Nat
        BY <1>5, <3>3
      <4>3. k < n
        <5>1. ~(n < k) /\ n # k
          BY <1>5, <3>3, <4>1, <4>2
        <5> QED  BY <3>3, <4>2, <5>1
      <4>4. n # 1 /\ n - 1 \in 1 .. L /\ (k = n - 1 \/ k < n - 1)
        BY <3>3, <4>2, <4>3, <1>5
      <4>5. k = n - 1 \/ begin[k] < begin[n - 1]
        BY <1>5, <4>4
      <4>6. begin[n - 1] \in Nat
        BY <1>5, <4>4
      <4> QED  BY <4>1, <4>2, <4>4, <4>5, <4>6
    <3>6. PICK b \in froms : b = begin[n] /\ b \in Nat
      BY <1>5, <3>3
    <3>7. IsBegun(Begun(ws, b), ws, b) /\ Begun(ws, b) \in R
      BY <1>7, <3>3, <3>6
    <3>8. CASE n = 1
      <4>1. \A w \in ws : b <= w.from
        BY <1>6, <3>5, <3>6, <3>8
      <4>2. Gathered(Extended(<<>>, Begun(ws, b)), ws, b)
        BY <3>7, <4>1, FirstGathered
      <4>3. f[0] = <<>> /\ n - 1 = 0
        BY <1>3, <3>8
      <4> QED  BY <3>2, <3>4, <3>6, <4>2, <4>3
    <3>9. CASE n # 1
      <4>1. n - 1 \in 1 .. L
        BY <1>5, <3>3, <3>9
      <4>2. Gathered(f[n - 1], ws, begin[n - 1])
        BY <3>2, <3>3, <4>1
      <4>3. PICK m \in Nat : m = begin[n - 1]
        BY <1>5, <4>1
      <4>4. m < b
        <5>1. n - 1 < n
          BY <3>3
        <5> QED  BY <1>5, <3>3, <3>6, <4>1, <4>3, <5>1
      <4>5. NextFrom(ws, m, b)
        BY <3>5, <3>6, <4>3, <4>4 DEF NextFrom
      <4>6. Gathered(f[n - 1], ws, m)
        BY <4>2, <4>3
      <4>7. Gathered(Extended(f[n - 1], Begun(ws, b)), ws, b)
        BY <3>4, <3>6, <3>7, <4>5, <4>6, NextGathered DEF R
      <4> QED  BY <3>2, <3>4, <3>6, <4>7
    <3> QED  BY <3>8, <3>9
  <2>2. L \in 1 .. L
    BY <1>5, <1>9
  <2>3. Gathered(f[L], ws, begin[L]) /\ begin[L] \in Nat /\ f[L] \in Seq(R)
    <3>1. Gathered(f[L], ws, begin[L])
      BY <2>1, <2>2
    <3>2. L \in 0 .. L
      BY <1>5
    <3> QED  BY <1>3, <1>5, <2>2, <3>1, <3>2
  <2>4. \A w \in ws : w.from <= begin[L]
    <3> TAKE w \in ws
    <3>1. PICK k \in 1 .. L : begin[k] = w.from
      BY <1>5, <1>6
    <3>2. k = L \/ k < L
      BY <1>5
    <3>3. k = L \/ begin[k] < begin[L]
      BY <1>5, <2>2, <3>2
    <3> QED  BY <1>6, <2>3, <3>1, <3>3
  <2>5. SegmentsOf(f[L], ws)
    BY <2>3, <2>4, GatheredAll DEF R
  <2> QED  BY <1>3, <2>5
<1> QED  BY <1>8, <1>9


LEMMA CountedOnce ==
    ASSUME NEW s, NEW ws, SegmentsOf(s, ws), NEW K, K \subseteq DOMAIN s
    PROVE  /\ Cardinality({s[k].from : k \in K}) = Cardinality(K)
           /\ Cardinality(K) \in Nat /\ (Cardinality(K) = 0 <=> K = {})
<1> DEFINE B == {s[k].from : k \in K}
           g == [k \in K |-> s[k].from]
<1>1. IsFiniteSet(K)
  <2>1. IsFiniteSet(DOMAIN s)
    BY FS_Interval DEF SegmentsOf
  <2> QED  BY <2>1, FS_Subset
<1>2. g \in Bijection(K, B)
  <2>1. g \in [K -> B]
    OBVIOUS
  <2>2. \A k, l \in K : g[k] = g[l] => k = l
    BY DEF SegmentsOf
  <2>3. \A b \in B : \E k \in K : g[k] = b
    OBVIOUS
  <2> QED  BY <2>1, <2>2, <2>3 DEF Bijection, Injection, Surjection, IsInjective
<1>3. Cardinality(B) = Cardinality(K)
  <2> HIDE DEF B, g
  <2>1. ExistsBijection(K, B)
    BY <1>2 DEF ExistsBijection
  <2> QED  BY <1>1, <2>1, FS_Bijection
<1>4. Cardinality(K) \in Nat /\ (Cardinality(K) = 0 <=> K = {})
  BY <1>1, FS_CardinalityType, FS_EmptySet
<1> QED  BY <1>3, <1>4

\* What the windows of a hover gave.
Gave(ws, b) == {w.outcome : w \in Own(ws, b)}
ReadAt(ws) == {b \in Starts(ws) : Gave(ws, b) \cap ReadOutcomes # {}}
MovedAt(ws) == {b \in ReadAt(ws) : "HOLD_HEADSPEED_UNSTABLE" \in Gave(ws, b) /\ "accepted" \notin Gave(ws, b)}

LEMMA CountsAreFair ==
    ASSUME NEW s, NEW ws, SegmentsOf(s, ws)
    PROVE  /\ CountSegments(s).moved = Cardinality(MovedAt(ws))
           /\ CountSegments(s).read = Cardinality(ReadAt(ws))
           /\ CountSegments(s).moved \in Nat /\ CountSegments(s).read \in Nat
           /\ CountSegments(s).moved = 0 <=> MovedAt(ws) = {}
<1> DEFINE Outcomes(k) == s[k].outcomes
           unstable == {k \in DOMAIN s : "HOLD_HEADSPEED_UNSTABLE" \in Outcomes(k)}
           used == {k \in DOMAIN s : "accepted" \in Outcomes(k)}
           read == {k \in DOMAIN s : Outcomes(k) \cap ReadOutcomes # {}}
           moved == unstable \ used
<1>1. CountSegments(s).moved = Cardinality(moved) /\ CountSegments(s).read = Cardinality(read)
  BY DEF CountSegments
<1>2. \A k \in DOMAIN s : Outcomes(k) = Gave(ws, s[k].from) /\ s[k].from \in Starts(ws)
  BY DEF SegmentsOf, Gave
<1>3. \A b \in Starts(ws) : \E k \in DOMAIN s : s[k].from = b
  BY DEF SegmentsOf
<1>4. "HOLD_HEADSPEED_UNSTABLE" \in ReadOutcomes
  BY DEF ReadOutcomes
<1>5. moved \subseteq DOMAIN s /\ read \subseteq DOMAIN s
  OBVIOUS
<1>6. {s[k].from : k \in read} = ReadAt(ws)
  BY <1>2, <1>3 DEF ReadAt
<1>7. {s[k].from : k \in moved} = MovedAt(ws)
  BY <1>2, <1>3, <1>4 DEF ReadAt, MovedAt
<1> HIDE DEF moved, read
<1>8. /\ Cardinality(ReadAt(ws)) = Cardinality(read) /\ Cardinality(read) \in Nat
      /\ Cardinality(MovedAt(ws)) = Cardinality(moved) /\ Cardinality(moved) \in Nat
      /\ Cardinality(moved) = 0 <=> moved = {}
  BY <1>5, <1>6, <1>7, CountedOnce
<1>9. moved = {} <=> MovedAt(ws) = {}
  BY <1>7
<1> QED  BY <1>1, <1>8, <1>9

----------------------------------------------------------------------------
(* The windows the head speed was examined in.                             *)

ExaminedIn(f, given) ==
    {w \in UNION {{[from |-> w.from, to |-> w.to, outcome |-> Outcome(f, w)] : w \in given[x].windows}
                    : x \in DOMAIN given} : w.outcome \in ExaminedOutcomes}

LEMMA ExaminedIs == Examined = ExaminedIn(flight, axes)
BY DEF Examined, HoldWindows, ExaminedIn

LEMMA ExaminedAreWindows ==
    ASSUME NEW f, NEW given, ReadInFlight(f, given)
    PROVE  AreWindows(ExaminedIn(f, given), f.times)
BY DEF ReadInFlight, ExaminedIn, AreWindows

\* The governor is to blame.
Blamed(f, given) ==
    LET ws == ExaminedIn(f, given)
    IN  /\ MovedAt(ws) # {} /\ Cardinality(ReadAt(ws)) >= MinHolds
        /\ 2 * Cardinality(MovedAt(ws)) >= Cardinality(ReadAt(ws))

LEMMA HeadspeedCounts ==
    ASSUME NEW T, T \subseteq Nat, IsFiniteSet(T), AreWindows(Examined, T)
    PROVE  SegmentsOf(Segments(Examined), Examined) /\ HeadspeedSegments = CountSegments(Segments(Examined))
<1>1. SegmentsOf(Segments(Examined), Examined)
  BY SegmentsAre
<1> DEFINE F(ws) == With(Segments(ws), LAMBDA segments : CountSegments(segments))
<1>2. HeadspeedSegments = CHOOSE z \in {F(ws) : ws \in {Examined}} : TRUE
  BY DEF HeadspeedSegments, With
<1>3. F(Examined) = CHOOSE z \in {CountSegments(segments) : segments \in {Segments(Examined)}} : TRUE
  BY DEF With
<1>4. F(Examined) = CountSegments(Segments(Examined))
  BY <1>3
<1> HIDE DEF F
<1>5. HeadspeedSegments = F(Examined)
  BY <1>2
<1> QED  BY <1>1, <1>4, <1>5

----------------------------------------------------------------------------
(* What is said of the governor.                                           *)

Blaming == {"HEADSPEED_MOVED_DURING_STEADY_FLIGHT", "HEADSPEED_NOT_MEASURED"}
NoBlame(s) == \E S : s \in Seq(S) /\ \A g \in S : g.id \notin Blaming
Said(s, id) == \E i \in DOMAIN s : s[i].id = id

LEMMA NoBlameOf ==
    ASSUME NEW S, NEW s \in Seq(S), \A g \in S : g.id \notin Blaming
    PROVE  NoBlame(s)
BY Zenon DEF NoBlame

LEMMA NoBlameIn ==
    ASSUME NEW s, NoBlame(s), NEW id \in Blaming
    PROVE  ~Said(s, id)
<1>1. PICK S : s \in Seq(S) /\ \A g \in S : g.id \notin Blaming
  BY DEF NoBlame
<1> QED  BY <1>1, ElementOfSeq, LenProperties DEF Said

LEMMA NothingNoBlame == NoBlame(<<>>)
<1>1. PICK S : S = {}
  OBVIOUS
<1>2. <<>> \in Seq(S) /\ \A g \in S : g.id \notin Blaming
  BY <1>1
<1> QED  BY <1>2, NoBlameOf

LEMMA OneNoBlame ==
    ASSUME NEW g, g.id \notin Blaming
    PROVE  NoBlame(<<g>>)
<1>1. PICK S : S = {g}
  OBVIOUS
<1>2. <<g>> \in Seq(S) /\ \A h \in S : h.id \notin Blaming
  BY <1>1
<1> QED  BY <1>2, NoBlameOf

LEMMA BothNoBlame ==
    ASSUME NEW s, NEW t, NoBlame(s), NoBlame(t)
    PROVE  NoBlame(s \o t)
<1>1. PICK S : s \in Seq(S) /\ \A g \in S : g.id \notin Blaming
  BY DEF NoBlame
<1>2. PICK T : t \in Seq(T) /\ \A g \in T : g.id \notin Blaming
  BY DEF NoBlame
<1>3. s \in Seq(S \cup T) /\ t \in Seq(S \cup T)
  BY <1>1, <1>2, SeqMonotonic
<1>4. \A g \in S \cup T : g.id \notin Blaming
  BY <1>1, <1>2
<1> QED  BY <1>3, <1>4, ConcatProperties, NoBlameOf

LEMMA IfNoBlame ==
    ASSUME NEW c, NEW s, c => NoBlame(s)
    PROVE  NoBlame(If(c, s))
BY NothingNoBlame DEF If

\* What is said of one list and then of another.
LEMMA SaidInEither ==
    ASSUME NEW A, NEW s, NEW t, IsFindings(s, A), IsFindings(t, A), NEW id
    PROVE  Said(s \o t, id) <=> Said(s, id) \/ Said(t, id)
<1>1. PICK S : s \in Seq(S)
  BY DEF IsFindings
<1>2. PICK T : t \in Seq(T)
  BY DEF IsFindings
<1>3. s \in Seq(S \cup T) /\ t \in Seq(S \cup T)
  BY <1>1, <1>2, SeqMonotonic
<1>4. /\ DOMAIN (s \o t) = 1 .. Len(s) + Len(t) /\ Len(s) \in Nat /\ Len(t) \in Nat
      /\ DOMAIN s = 1 .. Len(s) /\ DOMAIN t = 1 .. Len(t)
  BY <1>3, ConcatProperties, LenProperties
<1>5. \A i \in 1 .. Len(s) + Len(t) : (s \o t)[i] = IF i <= Len(s) THEN s[i] ELSE t[i - Len(s)]
  BY <1>3, ConcatProperties
<1>6. ASSUME Said(s \o t, id) PROVE Said(s, id) \/ Said(t, id)
  <2>1. PICK i \in 1 .. Len(s) + Len(t) : (s \o t)[i].id = id
    BY <1>4, <1>6 DEF Said
  <2>2. CASE i <= Len(s)
    BY <1>4, <1>5, <2>1, <2>2 DEF Said
  <2>3. CASE ~(i <= Len(s))
    <3>1. i - Len(s) \in 1 .. Len(t)
      BY <1>4, <2>3
    <3> QED  BY <1>4, <1>5, <2>1, <2>3, <3>1 DEF Said
  <2> QED  BY <2>2, <2>3
<1>7. ASSUME Said(s, id) PROVE Said(s \o t, id)
  <2>1. PICK i \in 1 .. Len(s) : s[i].id = id
    BY <1>4, <1>7 DEF Said
  <2>2. i \in 1 .. Len(s) + Len(t) /\ i <= Len(s)
    BY <1>4
  <2> QED  BY <1>4, <1>5, <2>1, <2>2 DEF Said
<1>8. ASSUME Said(t, id) PROVE Said(s \o t, id)
  <2>1. PICK i \in 1 .. Len(t) : t[i].id = id
    BY <1>4, <1>8 DEF Said
  <2>2. Len(s) + i \in 1 .. Len(s) + Len(t) /\ ~(Len(s) + i <= Len(s)) /\ Len(s) + i - Len(s) = i
    BY <1>4
  <2> QED  BY <1>4, <1>5, <2>1, <2>2 DEF Said
<1> QED  BY <1>6, <1>7, <1>8


\* Neither the airframe nor an axis speaks of the governor.
LEMMA AirframeNoBlame ==
    ASSUME NEW v
    PROVE  NoBlame(AirframeFindings(v))
<1>1. \A id, kind : id \notin Blaming => NoBlame(AirframeSays(id, kind))
  BY OneNoBlame DEF AirframeSays, Finding
<1>2. \A s, t : NoBlame(s) /\ NoBlame(t) => NoBlame(s \o t)
  BY BothNoBlame
<1>3. \A id, kind, c : id \notin Blaming => NoBlame(If(c, AirframeSays(id, kind)))
  BY <1>1, IfNoBlame
<1>4. ASSUME NEW upstream
      PROVE  NoBlame(PermittedFindings(upstream))
  <2>1. \A kind : /\ NoBlame(AirframeSays("AIRFRAME_ROTOR_ORDER_TONE", kind))
                  /\ NoBlame(AirframeSays("AIRFRAME_TONE_BELOW_ATTENTION", kind))
                  /\ NoBlame(AirframeSays("AIRFRAME_CLEAR", kind))
                  /\ \A c : NoBlame(If(c, AirframeSays("AIRFRAME_TONE_ABOVE_LEVEL_IN_PART", kind)))
    BY <1>1, <1>3 DEF Blaming
  <2> QED  BY <2>1, <1>2 DEF PermittedFindings
<1>5. ASSUME NEW upstream, NEW codes
      PROVE  NoBlame(BlockedFindings(upstream, codes))
  <2>1. \A c : /\ NoBlame(Card("AIRFRAME_VIBRATION_PRESENT", c))
               /\ NoBlame(Card("AIRFRAME_BROADBAND_NOT_MEASURED", c))
               /\ NoBlame(Card("AIRFRAME_ROTOR_NOT_COMPARED", c))
               /\ NoBlame(Card("AIRFRAME_RANGE_EXCLUDES_EVENTS", c))
               /\ NoBlame(Card("AIRFRAME_RANGE_EXCLUDES_HOLDS", c))
               /\ NoBlame(Card("AIRFRAME_ROTOR_ORDER_TONE_LARGE", c))
               /\ NoBlame(Card("AIRFRAME_BROADBAND_ELEVATED", c))
               /\ NoBlame(Card("AIRFRAME_UNFILTERED_GYRO_MISSING", c))
    BY <1>3 DEF Card, Blaming
  <2>2. NoBlame(VibrationFindings(upstream, codes)) /\ NoBlame(RangeFindings(codes))
    BY <2>1, <1>2 DEF VibrationFindings, RangeFindings
  <2> QED  BY <2>1, <2>2, <1>2 DEF BlockedFindings
<1> QED  BY <1>4, <1>5 DEF AirframeFindings

LEMMA AxisNoBlame ==
    ASSUME NEW x
    PROVE  NoBlame(AxisFindings(x))
<1>1. \A id, rung, kind : id \notin Blaming => NoBlame(<<Finding(id, rung, x, kind)>>)
  BY OneNoBlame DEF Finding
<1>2. \A s, t : NoBlame(s) /\ NoBlame(t) => NoBlame(s \o t)
  BY BothNoBlame
<1>3. NoBlame(HoldFindings(x))
  <2>1. \A id \in DOMAIN HoldReadings \cup HoldUnclear : id \notin Blaming
    BY DEF HoldReadings, HoldUnclear, Blaming
  <2>2. \A id \in DOMAIN HoldReadings \cup HoldUnclear : \A rung, kind : NoBlame(<<Finding(id, rung, x, kind)>>)
    BY <1>1, <2>1
  <2>3. \A rung, kind : /\ NoBlame(<<Finding("SUSPECTED_MECHANICAL_BIND", rung, x, kind)>>)
                        /\ NoBlame(<<Finding("NO_HOLD_EVIDENCE", rung, x, kind)>>)
                        /\ NoBlame(<<Finding("HOLD_EVIDENCE_PROVISIONAL", rung, x, kind)>>)
                        /\ NoBlame(<<Finding("I_TERM_NOT_JUDGED", rung, x, kind)>>)
    BY <1>1 DEF Blaming
  <2> QED  BY <2>2, <2>3, NothingNoBlame DEF HoldFindings
<1>4. ShapeFinding(x).id \notin Blaming
  <2>1. NotStopped(x).id \notin Blaming
    BY DEF NotStopped, Finding, Blaming
  <2>2. Ringing(x).id \notin Blaming
    BY DEF Ringing, ToneFinding, Finding, Blaming
  <2>3. Overshoot(x).id \notin Blaming
    BY DEF Overshoot, ToneFinding, Finding, Blaming
  <2>4. Finding("STOPS_SETTLE_CLEANLY", "gain-D", x, "observation").id \notin Blaming
    BY DEF Finding, Blaming
  <2> QED  BY <2>1, <2>2, <2>3, <2>4 DEF ShapeFinding
<1>5. \A c : NoBlame(If(c, <<ShapeFinding(x)>>))
  BY <1>4, OneNoBlame, IfNoBlame
<1>6. \A rung, kind, c :
          /\ NoBlame(If(c, <<Finding("DIRECTIONAL_ASYMMETRY_MECHANICAL", rung, x, kind)>>))
          /\ NoBlame(If(c, <<Finding("STOP_SHAPE_PROVISIONAL", rung, x, kind)>>))
          /\ NoBlame(If(c, <<Finding("STOP_EVIDENCE_INCOMPLETE", rung, x, kind)>>))
  <2>1. \A rung, kind :
          /\ NoBlame(<<Finding("DIRECTIONAL_ASYMMETRY_MECHANICAL", rung, x, kind)>>)
          /\ NoBlame(<<Finding("STOP_SHAPE_PROVISIONAL", rung, x, kind)>>)
          /\ NoBlame(<<Finding("STOP_EVIDENCE_INCOMPLETE", rung, x, kind)>>)
    BY <1>1 DEF Blaming
  <2> QED  BY <2>1, IfNoBlame
<1> QED  BY <1>2, <1>3, <1>5, <1>6 DEF AxisFindings

\* What the head speed says when it was measured.
LEMMA HeadspeedBlames ==
    ASSUME NEW T, T \subseteq Nat, IsFiniteSet(T), AreWindows(Examined, T), MinHolds \in Nat,
           ~Said(HeadspeedFindings, "HEADSPEED_NOT_MEASURED")
    PROVE  Said(HeadspeedFindings, "HEADSPEED_MOVED_DURING_STEADY_FLIGHT") <=> Blamed(flight, axes)
<1> DEFINE blame == "HEADSPEED_MOVED_DURING_STEADY_FLIGHT"
           segments == CountSegments(Segments(Examined))
           codes == HeadspeedCodes(segments)
           enough == segments.moved > 0 /\ segments.read >= MinHolds
                     /\ 2 * segments.moved >= segments.read
<1>1. HeadspeedSegments = segments /\ SegmentsOf(Segments(Examined), Examined)
  BY HeadspeedCounts
<1>2. HeadspeedFindings = HeadspeedSays(segments, codes)
  <2> DEFINE F(s) == With(HeadspeedCodes(s), LAMBDA c : HeadspeedSays(s, c))
  <2>1. HeadspeedFindings = CHOOSE z \in {F(s) : s \in {HeadspeedSegments}} : TRUE
    BY DEF HeadspeedFindings, With
  <2>2. F(HeadspeedSegments) = CHOOSE z \in {HeadspeedSays(HeadspeedSegments, c)
                                               : c \in {HeadspeedCodes(HeadspeedSegments)}} : TRUE
    BY DEF With
  <2>3. F(HeadspeedSegments) = HeadspeedSays(HeadspeedSegments, HeadspeedCodes(HeadspeedSegments))
    BY <2>2
  <2> HIDE DEF F
  <2>4. HeadspeedFindings = F(HeadspeedSegments)
    BY <2>1
  <2> HIDE DEF segments
  <2> QED  BY <1>1, <2>3, <2>4
<1>3. enough <=> Blamed(flight, axes)
  <2>1. /\ segments.moved = Cardinality(MovedAt(Examined)) /\ segments.read = Cardinality(ReadAt(Examined))
        /\ segments.moved \in Nat /\ segments.read \in Nat
        /\ segments.moved = 0 <=> MovedAt(Examined) = {}
    BY <1>1, CountsAreFair
  <2> HIDE DEF segments
  <2>2. segments.moved > 0 <=> MovedAt(Examined) # {}
    BY <2>1
  <2> QED  BY <2>1, <2>2, ExaminedIs DEF Blamed
<1> HIDE DEF segments
<1>4. codes \cap {"HEADSPEED_NOT_LOGGED", "HEADSPEED_NEVER_SPUN_UP"} = {}
  <2>1. SUFFICES ASSUME codes \cap {"HEADSPEED_NOT_LOGGED", "HEADSPEED_NEVER_SPUN_UP"} # {} PROVE FALSE
    OBVIOUS
  <2> HIDE DEF codes
  <2>2. HeadspeedFindings = <<Finding("HEADSPEED_NOT_MEASURED", "headspeed", NoAxis, "blocker")>>
    BY <1>2, <2>1 DEF HeadspeedSays, HeadSays
  <2>3. Said(HeadspeedFindings, "HEADSPEED_NOT_MEASURED")
    BY <2>2 DEF Said, Finding
  <2> QED  BY <2>3
<1>5. "HEADSPEED_COST_MOST_OF_THE_HOLDS" \in codes <=> enough
  BY <1>4, Zenon DEF HeadspeedCodes
<1> DEFINE verdict == HeadspeedVerdict(segments, codes)
           lost == If(segments.readingLost > 0, HeadSays("HEADSPEED_READING_DROPPED_OUT", "observation"))
<1>6. HeadspeedFindings = verdict \o lost
  <2> HIDE DEF codes
  <2> QED  BY <1>2, <1>4 DEF HeadspeedSays
<1> HIDE DEF codes
<1>7. IsFindings(verdict, {}) /\ IsFindings(lost, {})
  <2>1. \A id : /\ IsFindings(HeadSays(id, "observation"), {})
                /\ IsFindings(HeadSays(id, "next-flight"), {})
                /\ IsFindings(HeadSays(id, "blocker"), {})
                /\ \A c : IsFindings(If(c, HeadSays(id, "observation")), {})
    BY SaysIsFindings, IfIsFindings DEF FindingKinds
  <2> QED  BY <2>1 DEF HeadspeedVerdict
<1>8. \A id, kind : Said(HeadSays(id, kind), blame) <=> id = blame
  BY DEF Said, HeadSays, Finding
<1>9. ~Said(lost, blame)
  <2>1. ~Said(HeadSays("HEADSPEED_READING_DROPPED_OUT", "observation"), blame)
    BY <1>8
  <2>2. ~Said(<<>>, blame)
    BY DEF Said
  <2> QED  BY <2>1, <2>2 DEF If
<1>10. Said(verdict, blame) <=> "HEADSPEED_COST_MOST_OF_THE_HOLDS" \in codes
  BY <1>8 DEF HeadspeedVerdict
<1> HIDE DEF verdict, lost
<1>11. Said(HeadspeedFindings, blame) <=> Said(verdict, blame)
  BY <1>6, <1>7, <1>9, SaidInEither
<1> QED  BY <1>3, <1>5, <1>10, <1>11

----------------------------------------------------------------------------
(* Nothing that is said later changes it.                                  *)

BlameInv ==
    /\ TrustInv
    /\ stage \in {"measuring", "airframe", "headspeed"} => NoBlame(found)
    /\ stage \in {"axes", "told"} /\ ~Said(found, "HEADSPEED_NOT_MEASURED") =>
          (Said(found, "HEADSPEED_MOVED_DURING_STEADY_FLIGHT") <=> Blamed(flight, axes))

LEMMA BlameStep ==
    ASSUME BlameInv, IInv, [AdviceNext]_allVars
    PROVE  BlameInv'
<1> DEFINE blame == "HEADSPEED_MOVED_DURING_STEADY_FLIGHT"
           missing == "HEADSPEED_NOT_MEASURED"
<1>1. TrustInv'
  BY TrustStep DEF BlameInv
<1>2. IsFindings(found, DOMAIN axes)
  BY DEF IInv
<1>3. CASE MeasureVibration
  <2>1. phase # "done"
    BY <1>3 DEF MeasureVibration, Step, Abandon, RefuseRange, Plan, Measure, Deliver, Escalate
  <2>2. stage = "measuring" /\ NoBlame(found)
    BY <2>1 DEF BlameInv, TrustInv
  <2> QED  BY <1>1, <1>3, <2>2 DEF MeasureVibration, adviceVars, BlameInv
<1>4. CASE Collect
  BY <1>1, <1>4 DEF Collect, BlameInv
<1>5. CASE JudgeAirframe
  <2>1. found' = found \o AirframeFindings(AssessAirframe) /\ stage = "airframe" /\ stage' = "headspeed"
    BY <1>5 DEF JudgeAirframe
  <2>2. NoBlame(found')
    BY <2>1, AirframeNoBlame, BothNoBlame DEF BlameInv
  <2> QED  BY <1>1, <2>1, <2>2 DEF BlameInv
<1>6. CASE JudgeHeadspeed
  <2>1. /\ found' = found \o HeadspeedFindings /\ stage = "headspeed" /\ stage' = "axes"
        /\ axes' = axes /\ flight' = flight
    BY <1>6 DEF JudgeHeadspeed, vars
  <2>2. NoBlame(found)
    BY <2>1 DEF BlameInv
  <2>3. ~Said(found, blame) /\ ~Said(found, missing)
    BY <2>2, NoBlameIn DEF Blaming
  <2>4. IsFindings(HeadspeedFindings, DOMAIN axes)
    BY HeadspeedFindingsType
  <2>5. \A id \in Blaming : Said(found', id) <=> Said(HeadspeedFindings, id)
    BY <1>2, <2>1, <2>2, <2>4, NoBlameIn, SaidInEither
  <2>6. flight.times \subseteq Nat /\ IsFiniteSet(flight.times)
    BY WindowConstants DEF BlameInv, TrustInv, MeasuredInv, PlanInv, WindowConstants
  <2>7. AreWindows(Examined, flight.times)
    BY <2>1, ExaminedIs, ExaminedAreWindows DEF BlameInv, TrustInv
  <2>8. MinHolds \in Nat
    BY AdviceConstants DEF AdviceConstants
  <2>9. ~Said(HeadspeedFindings, missing) => (Said(HeadspeedFindings, blame) <=> Blamed(flight, axes))
    BY <2>6, <2>7, <2>8, HeadspeedBlames
  <2>10. blame \in Blaming /\ missing \in Blaming
    BY DEF Blaming
  <2>11. ~Said(found', missing) => (Said(found', blame) <=> Blamed(flight', axes'))
    BY <2>1, <2>5, <2>9, <2>10
  <2> QED  BY <1>1, <2>1, <2>11 DEF BlameInv
<1>7. CASE JudgeAxis
  <2>1. /\ found' = found \o AxisFindings(AxisOrder[turn]) /\ stage' = stage /\ stage = "axes"
        /\ axes' = axes /\ flight' = flight /\ AxisOrder[turn] \in DOMAIN axes
    BY <1>7 DEF JudgeAxis, vars
  <2>2. IsFindings(AxisFindings(AxisOrder[turn]), DOMAIN axes)
    BY <2>1, AxisFindingsType
  <2>3. \A id \in Blaming : Said(found', id) <=> Said(found, id)
    BY <1>2, <2>1, <2>2, AxisNoBlame, NoBlameIn, SaidInEither
  <2>4. blame \in Blaming /\ missing \in Blaming
    BY DEF Blaming
  <2> QED  BY <1>1, <2>1, <2>3, <2>4 DEF BlameInv
<1>8. CASE SkipAxis \/ Tell \/ NoMore \/ UNCHANGED allVars
  <2>1. found' = found /\ axes' = axes /\ flight' = flight
    BY <1>8 DEF SkipAxis, Tell, NoMore, allVars, adviceVars, vars
  <2>2. \/ stage' = stage
        \/ stage \in {"axes", "told"} /\ stage' \in {"axes", "told"}
    BY <1>8 DEF SkipAxis, Tell, NoMore, allVars, adviceVars
  <2> QED  BY <1>1, <2>1, <2>2 DEF BlameInv
<1> QED  BY <1>3, <1>4, <1>5, <1>6, <1>7, <1>8 DEF AdviceNext, Advise

\* The governor is blamed exactly when the head speed moved in half of the
\* hovers it could be read in, and there are enough of them: however the
\* windows of the axes overlap, countHeadspeedSegments counts each hover once.
THEOREM GovernorIsTreatedFairly == AdviceSpec => []GovernorIsBlamedFairly
<1>1. AdviceInit => BlameInv
  <2>1. AdviceInit => TrustInv
    BY TrustAtFirst
  <2>2. AdviceInit => stage = "measuring" /\ found = <<>>
    BY DEF AdviceInit
  <2> QED  BY <2>1, <2>2, NothingNoBlame DEF BlameInv
<1>2. BlameInv => GovernorIsBlamedFairly
  <2> SUFFICES ASSUME BlameInv, stage = "told", ~Says("HEADSPEED_NOT_MEASURED")
               PROVE  LET read == {b \in Beginnings : Hover(b) \cap ReadOutcomes # {}}
                          moved == {b \in read : /\ "HOLD_HEADSPEED_UNSTABLE" \in Hover(b)
                                                 /\ "accepted" \notin Hover(b)}
                      IN  Says("HEADSPEED_MOVED_DURING_STEADY_FLIGHT") <=>
                              /\ moved # {} /\ Cardinality(read) >= MinHolds
                              /\ 2 * Cardinality(moved) >= Cardinality(read)
    BY DEF GovernorIsBlamedFairly
  <2>1. Beginnings = Starts(Examined) /\ \A b : Hover(b) = Gave(Examined, b)
    BY DEF Beginnings, Starts, Hover, Gave, Own
  <2>2. {b \in Beginnings : Hover(b) \cap ReadOutcomes # {}} = ReadAt(Examined)
    BY <2>1 DEF ReadAt
  <2>3. {b \in ReadAt(Examined) : "HOLD_HEADSPEED_UNSTABLE" \in Hover(b) /\ "accepted" \notin Hover(b)}
            = MovedAt(Examined)
    BY <2>1 DEF MovedAt
  <2>4. Says("HEADSPEED_MOVED_DURING_STEADY_FLIGHT") <=> Blamed(flight, axes)
    BY DEF BlameInv, Says, Said
  <2> QED  BY <2>2, <2>3, <2>4, ExaminedIs DEF Blamed
<1> QED  BY <1>1, <1>2, BlameStep, IInvHolds, PTL DEF AdviceSpec

----------------------------------------------------------------------------
(* Every tone of the flight reaches the gate: what is measured of a tone   *)
(* on its axis, and how the listed ones are chosen ...                     *)

\* A set of pairs that puts the members of a set one before the other.
Orders(R, S) ==
    /\ \A x \in S : <<x, x>> \notin R
    /\ \A x, y \in S : x # y => <<x, y>> \in R \/ <<y, x>> \in R
    /\ \A x, y, z \in S : <<x, y>> \in R /\ <<y, z>> \in R => <<x, z>> \in R

\* How many come before x, and that those before an earlier one are fewer.
LEMMA PlacesIncrease ==
    ASSUME NEW S, IsFiniteSet(S), NEW R, Orders(R, S), NEW x \in S
    PROVE  /\ Cardinality({y \in S : <<y, x>> \in R}) \in Nat
           /\ \A z \in S : <<x, z>> \in R =>
                 Cardinality({y \in S : <<y, x>> \in R}) < Cardinality({y \in S : <<y, z>> \in R})
<1> DEFINE Below(w) == {y \in S : <<y, w>> \in R}
<1>1. \A w : IsFiniteSet(Below(w)) /\ Cardinality(Below(w)) \in Nat
  <2> TAKE w
  <2>1. Below(w) \subseteq S
    OBVIOUS
  <2> HIDE DEF Below
  <2> QED  BY <2>1, FS_Subset, FS_CardinalityType
<1>2. ASSUME NEW z \in S, <<x, z>> \in R
      PROVE  Cardinality(Below(x)) < Cardinality(Below(z))
  <2>1. Below(x) \subseteq Below(z) /\ x \in Below(z) /\ x \notin Below(x)
    BY <1>2 DEF Orders
  <2> HIDE DEF Below
  <2>2. Cardinality(Below(x)) <= Cardinality(Below(z))
        /\ Cardinality(Below(x)) # Cardinality(Below(z))
    BY <1>1, <2>1, FS_Subset
  <2> QED  BY <1>1, <2>2
<1> QED  BY <1>1, <1>2

\* One comes before the others.
LEMMA FirstOfSet ==
    ASSUME NEW S, IsFiniteSet(S), NEW R, Orders(R, S), NEW T, T \subseteq S, T # {}
    PROVE  \E x \in T : \A y \in T : y # x => <<x, y>> \in R
<1> DEFINE Place(w) == Cardinality({y \in S : <<y, w>> \in R})
           places == {Place(w) : w \in T}
<1>1. \A w \in S : Place(w) \in Nat
  BY PlacesIncrease
<1>2. \A w, z \in S : <<w, z>> \in R => Place(w) < Place(z)
  BY PlacesIncrease
<1> HIDE DEF Place
<1>3. places \subseteq Nat /\ places # {}
  BY <1>1
<1>4. PICK m \in places : \A n \in places : m <= n
  <2> HIDE DEF places
  <2> QED  BY <1>3, SmallestOfSet
<1>5. PICK x \in T : Place(x) = m
  BY <1>4
<1>6. ASSUME NEW y \in T, y # x
      PROVE  <<x, y>> \in R
  <2>1. SUFFICES ASSUME <<y, x>> \in R PROVE FALSE
    BY <1>6 DEF Orders
  <2>2. x \in S /\ y \in S /\ Place(y) \in Nat /\ Place(x) \in Nat
    BY <1>1
  <2>3. Place(y) < Place(x)
    BY <1>2, <2>1, <2>2
  <2>4. Place(x) <= Place(y)
    BY <1>4, <1>5
  <2> QED  BY <2>2, <2>3, <2>4
<1> QED  BY <1>6

\* Every place in the order is taken.
LEMMA EveryPlace ==
    ASSUME NEW S, IsFiniteSet(S), NEW R, Orders(R, S), NEW i \in 1 .. Cardinality(S)
    PROVE  \E x \in S : Cardinality({y \in S : <<y, x>> \in R}) = i - 1
<1> DEFINE Below(x) == {y \in S : <<y, x>> \in R}
           Has(j) == \E x \in S : Cardinality(Below(x)) = j - 1
           bad == {j \in 1 .. Cardinality(S) : ~Has(j)}
<1>1. Cardinality(S) \in Nat
  BY FS_CardinalityType
<1>2. \A x \in S : IsFiniteSet(Below(x)) /\ Cardinality(Below(x)) \in Nat /\ x \notin Below(x)
  <2> TAKE x \in S
  <2>1. Below(x) \subseteq S /\ x \notin Below(x)
    BY DEF Orders
  <2> HIDE DEF Below
  <2> QED  BY <2>1, FS_Subset, FS_CardinalityType
<1>3. \A x \in S : Cardinality(Below(x) \cup {x}) = Cardinality(Below(x)) + 1
  <2> TAKE x \in S
  <2> HIDE DEF Below
  <2> QED  BY <1>2, FS_AddElement
<1>4. SUFFICES bad = {}
  BY <1>4
<1>5. SUFFICES ASSUME bad # {} PROVE FALSE
  OBVIOUS
<1>6. PICK m \in bad : \A j \in bad : m <= j
  <2>1. bad \subseteq Nat
    OBVIOUS
  <2> HIDE DEF bad
  <2> QED  BY <1>5, <2>1, SmallestOfSet
<1>7. m \in 1 .. Cardinality(S) /\ ~Has(m)
  OBVIOUS
<1>8. CASE m = 1
  <2>1. S # {}
    BY <1>7, <1>1, FS_EmptySet
  <2>2. PICK x \in S : \A y \in S : y # x => <<x, y>> \in R
    BY <2>1, FirstOfSet
  <2>3. Below(x) = {}
    BY <2>2 DEF Orders
  <2>4. Cardinality(Below(x)) = 0
    BY <2>3, FS_EmptySet
  <2> HIDE DEF Below
  <2> QED  BY <1>7, <1>8, <2>4
<1>9. CASE m # 1
  <2>1. m - 1 \in 1 .. Cardinality(S) /\ ~(m <= m - 1)
    BY <1>1, <1>7, <1>9
  <2>2. Has(m - 1)
    BY <1>6, <2>1
  <2>3. PICK x \in S : Cardinality(Below(x)) = m - 2
    <3>1. m \in Nat /\ m - 1 - 1 = m - 2
      BY <1>7
    <3> QED  BY <2>2, <3>1
  <2> DEFINE above == {y \in S : <<x, y>> \in R}
  <2>4. Cardinality(Below(x) \cup {x}) = m - 1
    BY <1>3, <1>7, <2>3
  <2>5. above # {}
    <3>1. SUFFICES ASSUME above = {} PROVE FALSE
      OBVIOUS
    <3>2. Below(x) \cup {x} = S
      BY <3>1 DEF Orders
    <3>3. Cardinality(S) = m - 1
      BY <2>4, <3>2
    <3>4. m <= Cardinality(S) /\ m \in Nat
      BY <1>1, <1>7
    <3> HIDE DEF Below
    <3> QED  BY <1>1, <3>3, <3>4
  <2>6. PICK z \in above : \A y \in above : y # z => <<z, y>> \in R
    <3>1. above \subseteq S
      OBVIOUS
    <3> HIDE DEF above
    <3> QED  BY <2>5, <3>1, FirstOfSet
  <2>7. Below(z) = Below(x) \cup {x}
    <3>1. z \in S /\ <<x, z>> \in R
      BY <2>6
    <3>2. \A y \in S : <<x, y>> \in R /\ y # z => <<z, y>> \in R
      BY <2>6
    <3>3. \A y \in S : <<y, z>> \in R <=> <<y, x>> \in R \/ y = x
      BY <3>1, <3>2 DEF Orders
    <3> QED  BY <3>3
  <2>8. z \in S
    BY <2>6
  <2> QED  BY <1>7, <2>4, <2>7, <2>8
<1> QED  BY <1>8, <1>9

\* Ranked puts one tone before another.
Earlier(a, b) == a.windows > b.windows \/ (a.windows = b.windows /\ a.hz < b.hz)

\* Tones of one axis: no two are at one frequency.
AreTones(S) ==
    /\ IsFiniteSet(S) /\ \A c \in S : c.windows \in Nat /\ c.hz \in Nat
    /\ \A c, d \in S : c # d => c.hz # d.hz

EarlierIn(S) == {p \in S \X S : Earlier(p[1], p[2])}

LEMMA EarlierOrders ==
    ASSUME NEW S, AreTones(S)
    PROVE  Orders(EarlierIn(S), S) /\ \A x, y \in S : <<x, y>> \in EarlierIn(S) <=> Earlier(x, y)
<1>1. \A x, y \in S : <<x, y>> \in EarlierIn(S) <=> Earlier(x, y)
  BY DEF EarlierIn
<1>2. \A x \in S : x.windows \in Nat /\ x.hz \in Nat
  BY DEF AreTones
<1>3. \A x, y \in S : x # y => x.hz # y.hz
  BY DEF AreTones
<1>4. \A x \in S : ~Earlier(x, x)
  BY <1>2 DEF Earlier
<1>5. \A x, y \in S : x # y => Earlier(x, y) \/ Earlier(y, x)
  BY <1>2, <1>3 DEF Earlier
<1>6. \A x, y, z \in S : Earlier(x, y) /\ Earlier(y, z) => Earlier(x, z)
  BY <1>2 DEF Earlier
<1> QED  BY <1>1, <1>4, <1>5, <1>6 DEF Orders

LEMMA RankedIs ==
    ASSUME NEW S
    PROVE  Ranked(S) = [i \in 1 .. Cardinality(S) |->
                           CHOOSE x \in S : Cardinality({y \in S : Earlier(y, x)}) = i - 1] \o <<>>
<1> DEFINE F(T) == [i \in 1 .. Cardinality(T) |->
                       CHOOSE x \in T : Cardinality({y \in T : Earlier(y, x)}) = i - 1] \o <<>>
<1>1. Ranked(S) = CHOOSE z \in {F(T) : T \in {S}} : TRUE
  BY DEF Ranked, InOrder, With, Earlier
<1> HIDE DEF F
<1>2. Ranked(S) = F(S)
  BY <1>1
<1> QED  BY <1>2 DEF F

LEMMA RankedMembers ==
    ASSUME NEW S, AreTones(S)
    PROVE  Ranked(S) \in Seq(S) /\ Len(Ranked(S)) = Cardinality(S)
<1> DEFINE R == EarlierIn(S)
           n == Cardinality(S)
           f == [i \in 1 .. n |-> CHOOSE x \in S : Cardinality({y \in S : Earlier(y, x)}) = i - 1]
<1>1. Orders(R, S) /\ \A x, y \in S : <<x, y>> \in R <=> Earlier(x, y)
  BY EarlierOrders
<1>3. n \in Nat
  BY FS_CardinalityType DEF AreTones
<1>4. ASSUME NEW i \in 1 .. n
      PROVE  f[i] \in S
  <2>1. \E x \in S : Cardinality({y \in S : <<y, x>> \in R}) = i - 1
    <3> HIDE DEF R
    <3> QED  BY <1>1, <1>4, EveryPlace DEF AreTones
  <2>2. \A x \in S : {y \in S : <<y, x>> \in R} = {y \in S : Earlier(y, x)}
    BY <1>1
  <2>3. \E x \in S : Cardinality({y \in S : Earlier(y, x)}) = i - 1
    BY <2>1, <2>2
  <2> QED  BY <2>3
<1> HIDE DEF f
<1>5. f \in Seq(S) /\ Len(f) = n
  <2>1. f \in [1 .. n -> S]
    BY <1>4 DEF f
  <2> HIDE DEF n
  <2> QED  BY <1>3, <2>1
<1>6. Ranked(S) = f \o <<>>
  BY RankedIs DEF f
<1> QED  BY <1>5, <1>6, ConcatEmptySeq

\* Every tone has its place among the ranked.
LEMMA RankedHas ==
    ASSUME NEW S, AreTones(S), NEW c \in S
    PROVE  \E i \in 1 .. Len(Ranked(S)) : Ranked(S)[i] = c
<1> DEFINE R == EarlierIn(S)
           n == Cardinality(S)
           Below(w) == {y \in S : <<y, w>> \in R}
           Place(w) == Cardinality(Below(w))
           f == [i \in 1 .. n |-> CHOOSE x \in S : Cardinality({y \in S : Earlier(y, x)}) = i - 1]
<1>0. IsFiniteSet(S) /\ n \in Nat
  BY FS_CardinalityType DEF AreTones
<1>1. Orders(R, S) /\ \A x, y \in S : <<x, y>> \in R <=> Earlier(x, y)
  BY EarlierOrders
<1>2. \A x \in S : Place(x) \in Nat
  <2> HIDE DEF R
  <2> QED  BY <1>0, <1>1, PlacesIncrease
<1>3. \A x, z \in S : <<x, z>> \in R => Place(x) < Place(z)
  <2> HIDE DEF R
  <2> QED  BY <1>0, <1>1, PlacesIncrease
<1>4. Place(c) < n
  <2>1. Below(c) \subseteq S /\ c \notin Below(c)
    BY <1>1 DEF Orders
  <2> HIDE DEF Below
  <2>2. Cardinality(Below(c)) <= Cardinality(S) /\ Cardinality(Below(c)) # Cardinality(S)
    BY <1>0, <2>1, FS_Subset
  <2> QED  BY <1>0, <1>2, <2>2
<1> DEFINE k == Place(c) + 1
<1>5. k \in 1 .. n /\ k - 1 = Place(c)
  BY <1>0, <1>2, <1>4
<1>6. \A x \in S : Cardinality({y \in S : Earlier(y, x)}) = Place(x)
  <2>1. \A x \in S : {y \in S : Earlier(y, x)} = Below(x)
    BY <1>1
  <2> QED  BY <2>1
<1>7. \A x \in S : Place(x) = Place(c) => x = c
  <2> TAKE x \in S
  <2>1. SUFFICES ASSUME x # c, Place(x) = Place(c) PROVE FALSE
    OBVIOUS
  <2>2. <<x, c>> \in R \/ <<c, x>> \in R
    BY <1>1, <2>1 DEF Orders
  <2> HIDE DEF R, Place
  <2>3. Place(x) < Place(c) \/ Place(c) < Place(x)
    BY <1>3, <2>2
  <2> QED  BY <1>2, <2>1, <2>3
<1>8. f[k] = c
  <2> HIDE DEF Place
  <2>1. f[k] = CHOOSE x \in S : Cardinality({y \in S : Earlier(y, x)}) = k - 1
    BY <1>5
  <2>2. Cardinality({y \in S : Earlier(y, c)}) = k - 1
    BY <1>5, <1>6
  <2> HIDE DEF f
  <2>3. f[k] \in S /\ Cardinality({y \in S : Earlier(y, f[k])}) = k - 1
    BY <2>1, <2>2
  <2> QED  BY <1>5, <1>6, <1>7, <2>3
<1>9. Ranked(S) = f
  <2>1. Ranked(S) = f \o <<>> /\ DOMAIN f = 1 .. n
    BY RankedIs
  <2> DEFINE T == {f[i] : i \in 1 .. n}
  <2> HIDE DEF f, n
  <2>2. \A i \in 1 .. n : f[i] \in T
    OBVIOUS
  <2> HIDE DEF T
  <2>3. f \in [1 .. n -> T]
    BY <2>2 DEF f
  <2>4. f \in Seq(T)
    BY <1>0, <2>3
  <2> QED  BY <2>1, <2>4, ConcatEmptySeq
<1>10. Len(Ranked(S)) = n
  BY RankedMembers
<1> HIDE DEF f, k
<1> QED  BY <1>5, <1>8, <1>9, <1>10

\* The tones taken are tones that were offered; the first is always taken.
LEMMA ApartIs ==
    ASSUME NEW S, NEW s \in Seq(S)
    PROVE  TakeApart(s) \subseteq S /\ (s # <<>> => TakeApart(s) # {})
<1> DEFINE L == Len(s)
           more(n, taken) == IF \E t \in taken : TooClose(s[n], t) THEN taken ELSE taken \cup {s[n]}
           X == SUBSET S
           step == [n \in 1 .. L |-> [taken \in X |-> more(n, taken)]]
           runs(f) == [n \in 0 .. L |-> IF n = 0 THEN {} ELSE more(n, f[n - 1])]
           g == CHOOSE f : f = runs(f)
<1>1. L \in Nat /\ \A n \in 1 .. L : s[n] \in S
  OBVIOUS
<1>2. TakeApart(s) = g[L]
  BY DEF TakeApart
<1>3. (s # <<>>) => L # 0
  OBVIOUS
<1> HIDE DEF L
<1>4. \A n \in 1 .. L : \A taken \in X : more(n, taken) \in X /\ more(n, taken) # {}
  BY <1>1
<1> HIDE DEF X, more
<1>5. \A n \in 1 .. L : \A taken \in X : step[n][taken] = more(n, taken)
  OBVIOUS
<1>6. step \in [1 .. L -> [X -> X]]
  BY <1>4
<1>7. {} \in X
  BY DEF X
<1> HIDE DEF step
<1>8. PICK f \in [0 .. L -> X] : f[0] = {} /\ \A n \in 1 .. L : f[n] = step[n][f[n - 1]]
  <2>1. \E f \in [0 .. L -> X] : IsRun(f, L, {}, step)
    BY <1>1, <1>6, <1>7, Recursion
  <2> QED  BY <2>1 DEF IsRun
<1>9. f = runs(f)
  <2>1. \A n \in 0 .. L : n = 0 \/ n \in 1 .. L
    BY <1>1
  <2>2. \A n \in 1 .. L : n - 1 \in 0 .. L
    BY <1>1
  <2>3. \A n \in 1 .. L : f[n] = more(n, f[n - 1])
    BY <1>5, <1>8, <2>2
  <2>4. \A n \in 0 .. L : f[n] = IF n = 0 THEN {} ELSE more(n, f[n - 1])
    BY <1>8, <2>1, <2>3
  <2> QED  BY <1>8, <2>4
<1>10. g = runs(g)
  <2> HIDE DEF runs
  <2> QED  BY <1>9
<1> HIDE DEF g
<1>11. g[0] = {} /\ \A n \in 1 .. L : g[n] = more(n, g[n - 1])
  <2>1. \A n \in 0 .. L : g[n] = IF n = 0 THEN {} ELSE more(n, g[n - 1])
    BY <1>10
  <2> QED  BY <1>1, <2>1
<1> DEFINE Good(n) == g[n] \in X /\ (n # 0 => g[n] # {})
           odd == {n \in 0 .. L : ~Good(n)}
<1>12. odd = {}
  <2>1. SUFFICES ASSUME odd # {} PROVE FALSE
    OBVIOUS
  <2>2. PICK n \in odd : \A k \in odd : n <= k
    <3>1. odd \subseteq Nat
      OBVIOUS
    <3> HIDE DEF odd
    <3> QED  BY <2>1, <3>1, SmallestOfSet
  <2>3. n \in 0 .. L /\ ~Good(n) /\ n # 0
    BY <1>7, <1>11
  <2>4. n \in 1 .. L /\ n - 1 \in 0 .. L /\ ~(n <= n - 1)
    BY <1>1, <2>3
  <2>5. g[n - 1] \in X
    BY <2>2, <2>4
  <2> QED  BY <1>4, <1>11, <2>3, <2>4, <2>5
<1>13. Good(L)
  <2>1. L \in 0 .. L
    BY <1>1
  <2> QED  BY <1>12, <2>1
<1> QED  BY <1>2, <1>3, <1>13 DEF X

\* What is listed once a quiet tone was looked at, and the run over all of them:
\* what was listed stays listed, and only tones that were offered join it.
Looked(listed, c, taken) ==
    IF Cardinality(taken \ listed) >= MaxListed \/ \E t \in taken : TooClose(c, t)
    THEN taken ELSE taken \cup {c}
IsQuietRun(g, S, s, listed) ==
    /\ g[0] = listed /\ \A n \in 1 .. Len(s) : g[n] = Looked(listed, s[n], g[n - 1])
    /\ \A n \in 0 .. Len(s) : listed \subseteq g[n] /\ g[n] \subseteq listed \cup S

LEMMA QuietRuns ==
    ASSUME NEW S, NEW s \in Seq(S), NEW listed
    PROVE  \E g : TakeQuiet(listed, s) = g[Len(s)] /\ IsQuietRun(g, S, s, listed)
<1> DEFINE L == Len(s)
           more(n, taken) == Looked(listed, s[n], taken)
           X == {taken \in SUBSET (listed \cup S) : listed \subseteq taken}
           step == [n \in 1 .. L |-> [taken \in X |-> more(n, taken)]]
           runs(f) == [n \in 0 .. L |-> IF n = 0 THEN listed ELSE more(n, f[n - 1])]
           g == CHOOSE f : f = runs(f)
<1>1. L \in Nat /\ \A n \in 1 .. L : s[n] \in S
  OBVIOUS
<1>2. TakeQuiet(listed, s) = g[L]
  BY DEF TakeQuiet, Looked
<1> HIDE DEF L
<1>4. \A n \in 1 .. L : \A taken \in X : more(n, taken) \in X
  <2> TAKE n \in 1 .. L
  <2> TAKE taken \in X
  <2>1. taken \cup {s[n]} \in X
    BY <1>1
  <2> HIDE DEF X
  <2> QED  BY <2>1 DEF Looked
<1>7. listed \in X
  OBVIOUS
<1>0. \A taken \in X : listed \subseteq taken /\ taken \subseteq listed \cup S
  OBVIOUS
<1> HIDE DEF X, more
<1>5. \A n \in 1 .. L : \A taken \in X : step[n][taken] = more(n, taken)
  OBVIOUS
<1>6. step \in [1 .. L -> [X -> X]]
  BY <1>4
<1> HIDE DEF step
<1>8. PICK f \in [0 .. L -> X] : f[0] = listed /\ \A n \in 1 .. L : f[n] = step[n][f[n - 1]]
  <2>1. \E f \in [0 .. L -> X] : IsRun(f, L, listed, step)
    BY <1>1, <1>6, <1>7, Recursion
  <2> QED  BY <2>1 DEF IsRun
<1>9. f = runs(f)
  <2>1. \A n \in 0 .. L : n = 0 \/ n \in 1 .. L
    BY <1>1
  <2>2. \A n \in 1 .. L : n - 1 \in 0 .. L
    BY <1>1
  <2>3. \A n \in 1 .. L : f[n] = more(n, f[n - 1])
    BY <1>5, <1>8, <2>2
  <2>4. \A n \in 0 .. L : f[n] = IF n = 0 THEN listed ELSE more(n, f[n - 1])
    BY <1>8, <2>1, <2>3
  <2> QED  BY <1>8, <2>4
<1>10. g = runs(g)
  <2> HIDE DEF runs
  <2> QED  BY <1>9
<1> HIDE DEF g
<1>11. g[0] = listed /\ \A n \in 1 .. L : g[n] = more(n, g[n - 1])
  <2>1. \A n \in 0 .. L : g[n] = IF n = 0 THEN listed ELSE more(n, g[n - 1])
    BY <1>10
  <2> QED  BY <1>1, <2>1
<1> DEFINE odd == {n \in 0 .. L : g[n] \notin X}
<1>12. odd = {}
  <2>1. SUFFICES ASSUME odd # {} PROVE FALSE
    OBVIOUS
  <2>2. PICK n \in odd : \A k \in odd : n <= k
    <3>1. odd \subseteq Nat
      OBVIOUS
    <3> HIDE DEF odd
    <3> QED  BY <2>1, <3>1, SmallestOfSet
  <2>3. n \in 0 .. L /\ g[n] \notin X /\ n # 0
    BY <1>7, <1>11
  <2>4. n \in 1 .. L /\ n - 1 \in 0 .. L /\ ~(n <= n - 1)
    BY <1>1, <2>3
  <2>5. g[n - 1] \in X
    BY <2>2, <2>4
  <2> QED  BY <1>4, <1>11, <2>3, <2>4, <2>5
<1>13. \A n \in 0 .. L : listed \subseteq g[n] /\ g[n] \subseteq listed \cup S
  BY <1>0, <1>12
<1> QED  BY <1>2, <1>11, <1>13 DEF IsQuietRun, L, more

LEMMA QuietIs ==
    ASSUME NEW S, NEW s \in Seq(S), NEW listed
    PROVE  listed \subseteq TakeQuiet(listed, s)
<1>1. PICK g : TakeQuiet(listed, s) = g[Len(s)] /\ IsQuietRun(g, S, s, listed)
  BY QuietRuns
<1>2. Len(s) \in 0 .. Len(s)
  OBVIOUS
<1> QED  BY <1>1, <1>2 DEF IsQuietRun

\* A quiet tone that stands apart from every other is listed when there are no
\* more of them than are listed: when its turn comes there is room, and what was
\* taken before does not hide it; and nothing is taken off the list.
LEMMA QuietLists ==
    ASSUME NEW S, AreTones(S), NEW listed, NEW c \in S,
           MaxListed \in Nat, Cardinality(S) <= MaxListed,
           \A d \in listed \cup S : d # c => ~TooClose(c, d)
    PROVE  c \in TakeQuiet(listed, Ranked(S))
<1> DEFINE s == Ranked(S)
           L == Len(s)
<1>1. s \in Seq(S)
  BY RankedMembers
<1>2. PICK g : TakeQuiet(listed, s) = g[L] /\ IsQuietRun(g, S, s, listed)
  <2> HIDE DEF s
  <2> QED  BY <1>1, QuietRuns
<1>3. PICK k \in 1 .. L : s[k] = c
  BY RankedHas
<1> HIDE DEF s
<1>4. L \in Nat
  BY <1>1
<1> HIDE DEF L
<1>5. /\ \A n \in 1 .. L : g[n] = Looked(listed, s[n], g[n - 1])
      /\ \A n \in 0 .. L : listed \subseteq g[n] /\ g[n] \subseteq listed \cup S
  BY <1>2 DEF IsQuietRun, L
<1>6. ASSUME NEW taken, listed \subseteq taken, taken \subseteq listed \cup S
      PROVE  c \in Looked(listed, c, taken)
  <2>1. CASE c \in taken
    BY <2>1 DEF Looked
  <2>2. CASE c \notin taken
    <3> DEFINE own == taken \ listed
    <3>1. own \subseteq S /\ c \notin own /\ IsFiniteSet(S)
      BY <1>6, <2>2 DEF AreTones
    <3> HIDE DEF own
    <3>2. /\ Cardinality(own) \in Nat /\ Cardinality(S) \in Nat
          /\ Cardinality(own) <= Cardinality(S) /\ Cardinality(own) # Cardinality(S)
      BY <3>1, FS_Subset, FS_CardinalityType
    <3>3. ~(Cardinality(own) >= MaxListed)
      BY <3>2
    <3>4. \A t \in taken : ~TooClose(c, t)
      BY <1>6, <2>2
    <3> QED  BY <3>3, <3>4 DEF Looked, own
  <2> QED  BY <2>1, <2>2
<1>7. \A d, taken : c \in taken => c \in Looked(listed, d, taken)
  BY DEF Looked
<1> DEFINE missing == {n \in k .. L : c \notin g[n]}
<1>8. missing = {}
  <2>1. SUFFICES ASSUME missing # {} PROVE FALSE
    OBVIOUS
  <2>2. PICK n \in missing : \A j \in missing : n <= j
    <3>1. missing \subseteq Nat
      BY <1>4
    <3> HIDE DEF missing
    <3> QED  BY <2>1, <3>1, SmallestOfSet
  <2>3. n \in k .. L /\ c \notin g[n] /\ n \in 1 .. L /\ n - 1 \in 0 .. L /\ ~(n <= n - 1)
    BY <1>4, <2>2
  <2>4. /\ g[n] = Looked(listed, s[n], g[n - 1])
        /\ listed \subseteq g[n - 1] /\ g[n - 1] \subseteq listed \cup S
    BY <1>5, <2>3
  <2>5. CASE n = k
    BY <1>3, <1>6, <2>3, <2>4, <2>5
  <2>6. CASE n # k
    <3>1. n - 1 \in k .. L
      BY <1>4, <2>3, <2>6
    <3>2. c \in g[n - 1]
      BY <2>2, <2>3, <3>1
    <3> QED  BY <1>7, <2>3, <2>4, <3>2
  <2> QED  BY <2>5, <2>6
<1>9. c \in g[L]
  <2>1. L \in k .. L
    BY <1>4
  <2> QED  BY <1>8, <2>1
<1> QED  BY <1>2, <1>9 DEF s

\* Nothing unlisted in all stretches together is nothing unlisted in each.
LEMMA SumIs ==
    ASSUME NEW S, NEW rs \in Seq(S), NEW x, \A i \in DOMAIN rs : rs[i].axes[x].unlisted \in Nat
    PROVE  /\ SumUnlisted(rs, x) \in Nat
           /\ SumUnlisted(rs, x) = 0 => \A i \in DOMAIN rs : rs[i].axes[x].unlisted = 0
<1> DEFINE L == Len(rs)
           own(n) == rs[n].axes[x].unlisted
           step == [n \in 1 .. L |-> [m \in Nat |-> m + own(n)]]
           runs(f) == [n \in 0 .. L |-> IF n = 0 THEN 0 ELSE f[n - 1] + own(n)]
           g == CHOOSE f : f = runs(f)
<1>1. L \in Nat /\ DOMAIN rs = 1 .. L /\ \A n \in 1 .. L : own(n) \in Nat
  OBVIOUS
<1>2. SumUnlisted(rs, x) = g[L]
  BY DEF SumUnlisted
<1> HIDE DEF L, own
<1>5. \A n \in 1 .. L : \A m \in Nat : step[n][m] = m + own(n)
  OBVIOUS
<1>6. step \in [1 .. L -> [Nat -> Nat]]
  BY <1>1
<1> HIDE DEF step
<1>8. PICK f \in [0 .. L -> Nat] : f[0] = 0 /\ \A n \in 1 .. L : f[n] = step[n][f[n - 1]]
  <2>1. \E f \in [0 .. L -> Nat] : IsRun(f, L, 0, step)
    BY <1>1, <1>6, Recursion
  <2> QED  BY <2>1 DEF IsRun
<1>9. f = runs(f)
  <2>1. \A n \in 0 .. L : n = 0 \/ n \in 1 .. L
    BY <1>1
  <2>2. \A n \in 1 .. L : n - 1 \in 0 .. L
    BY <1>1
  <2>3. \A n \in 1 .. L : f[n] = f[n - 1] + own(n)
    BY <1>5, <1>8, <2>2
  <2>4. \A n \in 0 .. L : f[n] = IF n = 0 THEN 0 ELSE f[n - 1] + own(n)
    BY <1>8, <2>1, <2>3
  <2> QED  BY <1>8, <2>4
<1>10. g = runs(g)
  <2> HIDE DEF runs
  <2> QED  BY <1>9
<1> HIDE DEF g
<1>11. g[0] = 0 /\ \A n \in 1 .. L : g[n] = g[n - 1] + own(n)
  <2>1. \A n \in 0 .. L : g[n] = IF n = 0 THEN 0 ELSE g[n - 1] + own(n)
    BY <1>10
  <2> QED  BY <1>1, <2>1
<1> DEFINE Good(n) == g[n] \in Nat /\ (g[n] = 0 => \A i \in 1 .. n : own(i) = 0)
           odd == {n \in 0 .. L : ~Good(n)}
<1>12. odd = {}
  <2>1. SUFFICES ASSUME odd # {} PROVE FALSE
    OBVIOUS
  <2>2. PICK n \in odd : \A k \in odd : n <= k
    <3>1. odd \subseteq Nat
      OBVIOUS
    <3> HIDE DEF odd
    <3> QED  BY <2>1, <3>1, SmallestOfSet
  <2>3. n \in 0 .. L /\ ~Good(n)
    OBVIOUS
  <2>6. n # 0
    BY <1>11, <2>3
  <2>4. n \in 1 .. L /\ n - 1 \in 0 .. L /\ ~(n <= n - 1)
    BY <1>1, <2>3, <2>6
  <2>5. Good(n - 1)
    BY <2>2, <2>4
  <2>7. own(n) \in Nat /\ g[n] = g[n - 1] + own(n) /\ g[n - 1] \in Nat
    BY <1>1, <1>11, <2>4, <2>5
  <2>8. g[n] \in Nat /\ (g[n] = 0 => g[n - 1] = 0 /\ own(n) = 0)
    BY <2>7
  <2>9. \A i \in 1 .. n : i = n \/ i \in 1 .. (n - 1)
    BY <2>4
  <2> QED  BY <2>3, <2>5, <2>8, <2>9
<1>13. Good(L)
  <2>1. L \in 0 .. L
    BY <1>1
  <2> QED  BY <1>12, <2>1
<1> QED  BY <1>1, <1>2, <1>13 DEF own

\* The windows of one axis, a tone as it is measured in a stretch, and all
\* that are measured on an axis.
Windows(f, range, x) == AxisWindows(f, Grid(f, range), x)
Heard(f, range, t) ==
    Candidate(Grid(f, range), Windows(f, range, t.axis), RpmSources(f, range), t)
OnAxis(f, range, x) ==
    Candidates(f, Grid(f, range), Windows(f, range, x), RpmSources(f, range))

\* There are finitely many windows, and a tone seen in one was there.
LEMMA WindowsAre ==
    ASSUME WindowConstants, NEW f, NEW g, NEW x, NEW ticks
    PROVE  /\ AxisWindows(f, g, x).axis = x
           /\ Cardinality(WindowsIn(g, AxisWindows(f, g, x), ticks)) \in Nat
           /\ WindowsIn(g, AxisWindows(f, g, x), ticks) # {} => ticks # {}
<1> DEFINE finite == {k \in 1 .. MaxInput : k <= g.count /\ GridFinite(f, g, x, Point(g, k))}
           possible == {k \in 1 .. MaxInput : /\ (k - 1) % (WindowSize \div 2) = 0
                                              /\ k + WindowSize - 1 <= g.count}
           F(S) == [axis |-> x, finite |-> S, possible |-> possible,
                    starts |-> {k \in possible : k .. k + WindowSize - 1 \subseteq S}]
           w == AxisWindows(f, g, x)
           seen == WindowsIn(g, w, ticks)
<1>1. w = CHOOSE z \in {F(S) : S \in {finite}} : TRUE
  BY DEF AxisWindows, With
<1>2. w = F(finite)
  <2> HIDE DEF F, finite, w
  <2> QED  BY <1>1
<1>3. w.axis = x /\ w.starts \subseteq 1 .. MaxInput
  <2> HIDE DEF w, finite
  <2> QED  BY <1>2
<1>4. IsFiniteSet(1 .. MaxInput)
  <2>1. 1 \in Int /\ MaxInput \in Int
    BY DEF WindowConstants
  <2> QED  BY <2>1, FS_Interval
<1>5. seen \subseteq 1 .. MaxInput
  <2> HIDE DEF w
  <2> QED  BY <1>3 DEF WindowsIn
<1>6. IsFiniteSet(seen) /\ Cardinality(seen) \in Nat
  <2> HIDE DEF seen
  <2> QED  BY <1>4, <1>5, FS_Subset, FS_CardinalityType
<1>7. seen # {} => ticks # {}
  <2> SUFFICES ASSUME NEW k \in seen PROVE ticks # {}
    OBVIOUS
  <2>1. k \in w.starts /\ \A i \in k .. k + WindowSize - 1 : OnTicks(Point(g, i), ticks)
    BY DEF WindowsIn
  <2>2. k \in k .. k + WindowSize - 1
    BY <1>5 DEF WindowConstants
  <2> HIDE DEF seen, w
  <2>3. OnTicks(Point(g, k), ticks)
    BY <2>1, <2>2
  <2> QED  BY <2>3 DEF OnTicks
<1> QED  BY <1>3, <1>6, <1>7

\* Only a tone that is above the level somewhere calls for attention.
LEMMA EligibleIsLoud ==
    ASSUME NEW g, NEW starts, NEW above
    PROVE  /\ AttentionEligible(g, starts, above) \in BOOLEAN
           /\ AttentionEligible(g, starts, above) => above # {}
<1> DEFINE H(loud, ks) ==
               LET n == Cardinality(starts)
                   hole == Max({0} \cup {20 * (ks[i + 1] - ks[i]) - NominalStep(starts)
                                           : i \in 1 .. Len(ks) - 1})
               IN  /\ loud # {} /\ Cardinality(loud) >= RequiredWindows(n)
                   /\ 2 * (Rank(starts, Max(loud)) - Rank(starts, Min(loud)) + 1) >= n
                   /\ Cardinality({Quarter(g, k) : k \in loud}) >= 3
                   /\ hole * 100 <= 35 * 20 * Max({1, g.count - WindowSize})
           F(loud) == CHOOSE z \in {H(loud, ks) : ks \in {Sorted(loud)}} : TRUE
<1>1. AttentionEligible(g, starts, above) = CHOOSE z \in {F(loud) : loud \in {above}} : TRUE
  BY DEF AttentionEligible, With
<1>2. \A loud, ks : H(loud, ks) \in BOOLEAN /\ (H(loud, ks) => loud # {})
  OBVIOUS
<1> HIDE DEF H
<1>3. F(above) = H(above, Sorted(above))
  OBVIOUS
<1> HIDE DEF F
<1>4. AttentionEligible(g, starts, above) = F(above)
  BY <1>1
<1> QED  BY <1>2, <1>3, <1>4

LEMMA LoudIs ==
    ASSUME NEW f, NEW range, NEW t
    PROVE  /\ Loud(f, range, t) = WindowsIn(Grid(f, range), Windows(f, range, t.axis), t.loud)
           /\ Persists(f, range, t) = AttentionEligible(Grid(f, range),
                                         Windows(f, range, t.axis).starts, Loud(f, range, t))
<1> DEFINE F(g) == WindowsIn(g, AxisWindows(f, g, t.axis), t.loud)
           H(g) == AttentionEligible(g, AxisWindows(f, g, t.axis).starts, Loud(f, range, t))
<1>1. Loud(f, range, t) = CHOOSE z \in {F(g) : g \in {Grid(f, range)}} : TRUE
  BY DEF Loud, With
<1>2. Persists(f, range, t) = CHOOSE z \in {H(g) : g \in {Grid(f, range)}} : TRUE
  BY DEF Persists, With
<1> HIDE DEF F, H
<1>3. Loud(f, range, t) = F(Grid(f, range)) /\ Persists(f, range, t) = H(Grid(f, range))
  BY <1>1, <1>2
<1> QED  BY <1>3 DEF F, H, Windows

LEMMA MeasuredTone ==
    ASSUME NEW g, NEW w, NEW rpm, NEW tone
    PROVE  /\ Candidate(g, w, rpm, tone).match = BestHarmonicMatch(rpm, tone.hz)
           /\ Candidate(g, w, rpm, tone).size
                 = IF WindowsIn(g, w, tone.loud) = {} THEN 0 ELSE tone.size
           /\ Candidate(g, w, rpm, tone).eligible
                 = AttentionEligible(g, w.starts, WindowsIn(g, w, tone.loud))
           /\ Candidate(g, w, rpm, tone).hz = tone.hz
<1> DEFINE present == WindowsIn(g, w, tone.loud \cup tone.soft)
           loud == WindowsIn(g, w, tone.loud)
           F(l) ==
               [hz |-> tone.hz, size |-> IF l = {} THEN 0 ELSE tone.size,
                windows |-> Cardinality(present),
                persists |-> 2 * Cardinality(present) >= Cardinality(w.starts),
                compared |-> EvaluatedRotors(rpm) # {},
                presence |-> Cardinality(present) >= RequiredWindows(Cardinality(w.starts)),
                eligible |-> AttentionEligible(g, w.starts, l),
                lowerBound |-> l # {} /\ IsLowerBound(w.starts, l),
                match |-> BestHarmonicMatch(rpm, tone.hz)]
<1>1. Candidate(g, w, rpm, tone) = CHOOSE z \in {F(l) : l \in {loud}} : TRUE
  BY DEF Candidate, With
<1> HIDE DEF F, loud
<1>2. Candidate(g, w, rpm, tone) = F(loud)
  BY <1>1
<1> USE DEF F
<1> HIDE DEF present
<1>3. /\ F(loud).hz = tone.hz /\ F(loud).size = IF loud = {} THEN 0 ELSE tone.size
      /\ F(loud).eligible = AttentionEligible(g, w.starts, loud)
      /\ F(loud).match = BestHarmonicMatch(rpm, tone.hz)
  OBVIOUS
<1> HIDE DEF F
<1> QED  BY <1>2, <1>3 DEF loud, present

LEMMA MeasuredWindows ==
    ASSUME NEW g, NEW w, NEW rpm, NEW tone
    PROVE  /\ Candidate(g, w, rpm, tone).windows
                 = Cardinality(WindowsIn(g, w, tone.loud \cup tone.soft))
           /\ Candidate(g, w, rpm, tone).persists
                 = (2 * Cardinality(WindowsIn(g, w, tone.loud \cup tone.soft)) >= Cardinality(w.starts))
           /\ Candidate(g, w, rpm, tone).presence
                 = (Cardinality(WindowsIn(g, w, tone.loud \cup tone.soft))
                       >= RequiredWindows(Cardinality(w.starts)))
<1> DEFINE present == WindowsIn(g, w, tone.loud \cup tone.soft)
           loud == WindowsIn(g, w, tone.loud)
           F(l) ==
               [hz |-> tone.hz, size |-> IF l = {} THEN 0 ELSE tone.size,
                windows |-> Cardinality(present),
                persists |-> 2 * Cardinality(present) >= Cardinality(w.starts),
                compared |-> EvaluatedRotors(rpm) # {},
                presence |-> Cardinality(present) >= RequiredWindows(Cardinality(w.starts)),
                eligible |-> AttentionEligible(g, w.starts, l),
                lowerBound |-> l # {} /\ IsLowerBound(w.starts, l),
                match |-> BestHarmonicMatch(rpm, tone.hz)]
<1>1. Candidate(g, w, rpm, tone) = CHOOSE z \in {F(l) : l \in {loud}} : TRUE
  BY DEF Candidate, With
<1> HIDE DEF F, loud
<1>2. Candidate(g, w, rpm, tone) = F(loud)
  BY <1>1
<1> USE DEF F
<1> HIDE DEF present
<1>3. /\ F(loud).windows = Cardinality(present)
      /\ F(loud).persists = (2 * Cardinality(present) >= Cardinality(w.starts))
      /\ F(loud).presence = (Cardinality(present) >= RequiredWindows(Cardinality(w.starts)))
  OBVIOUS
<1> HIDE DEF F
<1> QED  BY <1>2, <1>3 DEF loud, present

\* What a flight's tones are.
LEMMA TonesOfFlight ==
    ASSUME WindowConstants, NEW f \in Flights
    PROVE  /\ IsFiniteSet(f.tones)
           /\ \A t \in f.tones : /\ t.axis \in Axes /\ t.hz \in Nat /\ t.hz # 0 /\ t.size \in Nat
                                 /\ t.loud # {} => t.size # 0 /\ t.size >= Level
           /\ \A t, u \in f.tones : t # u /\ t.axis = u.axis => t.hz # u.hz
<1>1. IsFiniteSet(f.tones)
  BY DEF WindowConstants
<1>0. \A t \in f.tones : /\ t.axis \in Axes /\ t.hz \in Nat \ {0} /\ t.size \in Nat
                          /\ t.loud # {} => t.size >= Level
                          /\ \A u \in f.tones \ {t} : u.axis = t.axis => u.hz # t.hz
  BY Zenon DEF WindowConstants
<1>2. \A t \in f.tones : /\ t.axis \in Axes /\ t.hz \in Nat \ {0} /\ t.size \in Nat
                          /\ t.loud # {} => t.size >= Level
  BY <1>0
<1>3. \A t \in f.tones : \A u \in f.tones \ {t} : u.axis = t.axis => u.hz # t.hz
  BY <1>0
<1>4. Level \in Nat \ {0}
  BY DEF WindowConstants
<1> QED  BY <1>1, <1>2, <1>3, <1>4

\* What is measured on an axis are tones of their own; every tone above the
\* level in a window is among them, as large as it is and compared with the
\* rotors.
LEMMA OnAxisAreTones ==
    ASSUME WindowConstants, NEW f \in Flights, NEW range, NEW x
    PROVE  AreTones(OnAxis(f, range, x))
<1> DEFINE mine == {t \in f.tones : t.axis = x}
           M(t) == Candidate(Grid(f, range), Windows(f, range, x), RpmSources(f, range), t)
           all == {M(t) : t \in mine}
           cs == OnAxis(f, range, x)
<1>1. Windows(f, range, x).axis = x
  <2>1. AxisWindows(f, Grid(f, range), x).axis = x
    <3> DEFINE seen == WindowsIn(Grid(f, range), AxisWindows(f, Grid(f, range), x), {})
    <3>1. Cardinality(seen) \in Nat /\ AxisWindows(f, Grid(f, range), x).axis = x
      BY WindowsAre
    <3> QED  BY <3>1
  <2> QED  BY <2>1 DEF Windows
<1>2. cs \subseteq all
  <2>1. cs = {c \in {M(t) : t \in {u \in f.tones : u.axis = Windows(f, range, x).axis}} :
                c.presence \/ c.size # 0}
    BY DEF OnAxis, Candidates
  <2> HIDE DEF M, cs
  <2> QED  BY <1>1, <2>1
<1>3. IsFiniteSet(mine)
  <2>1. IsFiniteSet(f.tones) /\ mine \subseteq f.tones
    BY TonesOfFlight
  <2> HIDE DEF mine
  <2> QED  BY <2>1, FS_Subset
<1>4. IsFiniteSet(cs)
  <2> HIDE DEF mine, M, cs
  <2> DEFINE image == [t \in mine |-> M(t)]
  <2>1. image \in Surjection(mine, all)
    BY DEF Surjection
  <2>2. IsFiniteSet(all)
    <3> HIDE DEF all, image
    <3> QED  BY <1>3, <2>1, FS_Surjection
  <2> HIDE DEF all
  <2> QED  BY <1>2, <2>2, FS_Subset
<1>5. \A t : M(t).hz = t.hz /\ M(t).windows \in Nat
  <2> TAKE t
  <2>1. /\ M(t).hz = t.hz
        /\ M(t).windows = Cardinality(WindowsIn(Grid(f, range), Windows(f, range, x),
                                                t.loud \cup t.soft))
    BY MeasuredTone, MeasuredWindows
  <2> HIDE DEF M
  <2> QED  BY <2>1, WindowsAre DEF Windows
<1> HIDE DEF M, cs
<1>6. \A c \in cs : c.windows \in Nat /\ c.hz \in Nat
  <2> TAKE c \in cs
  <2>1. PICK t \in mine : c = M(t)
    BY <1>2
  <2>2. t.hz \in Nat
    BY TonesOfFlight
  <2> QED  BY <1>5, <2>1, <2>2
<1>7. ASSUME NEW c \in cs, NEW d \in cs, c # d
      PROVE  c.hz # d.hz
  <2>1. PICK t \in mine : c = M(t)
    BY <1>2
  <2>2. PICK u \in mine : d = M(u)
    BY <1>2
  <2>3. t # u
    BY <1>7, <2>1, <2>2
  <2> QED  BY <1>5, <2>1, <2>2, <2>3, TonesOfFlight
<1> QED  BY <1>4, <1>6, <1>7 DEF AreTones, cs

\* What is measured on an axis is measured of one of the flight's tones there, so
\* there is no more of it than there are tones.
LEMMA OnAxisIsHeard ==
    ASSUME NEW f, NEW range, NEW x, WindowConstants
    PROVE  \A c \in OnAxis(f, range, x) :
              \E t \in f.tones : t.axis = x /\ c = Heard(f, range, t) /\ c.hz = t.hz
<1> DEFINE mine == {t \in f.tones : t.axis = x}
           all == {Heard(f, range, t) : t \in mine}
           cs == OnAxis(f, range, x)
<1>1. Windows(f, range, x).axis = x
  <2> DEFINE seen == WindowsIn(Grid(f, range), AxisWindows(f, Grid(f, range), x), {})
  <2>1. Cardinality(seen) \in Nat /\ AxisWindows(f, Grid(f, range), x).axis = x
    BY WindowsAre
  <2> QED  BY <2>1 DEF Windows
<1>2. cs \subseteq all
  <2> DEFINE M(t) == Candidate(Grid(f, range), Windows(f, range, x), RpmSources(f, range), t)
  <2>1. cs = {c \in {M(t) : t \in {u \in f.tones : u.axis = Windows(f, range, x).axis}} :
                c.presence \/ c.size # 0}
    BY DEF OnAxis, Candidates
  <2>2. \A t \in mine : M(t) = Heard(f, range, t)
    BY DEF Heard
  <2> HIDE DEF M, cs
  <2> QED  BY <1>1, <2>1, <2>2
<1>3. \A t : Heard(f, range, t).hz = t.hz
  <2> TAKE t
  <2>1. Candidate(Grid(f, range), Windows(f, range, t.axis), RpmSources(f, range), t).hz = t.hz
    BY MeasuredTone
  <2> QED  BY <2>1 DEF Heard
<1> QED  BY <1>2, <1>3

LEMMA OnAxisAreFew ==
    ASSUME WindowConstants, NEW f \in Flights, NEW range, NEW x
    PROVE  /\ IsFiniteSet({t \in f.tones : t.axis = x})
           /\ Cardinality(OnAxis(f, range, x)) <= Cardinality({t \in f.tones : t.axis = x})
<1> DEFINE mine == {t \in f.tones : t.axis = x}
           all == {Heard(f, range, t) : t \in mine}
           cs == OnAxis(f, range, x)
<1>1. cs \subseteq all
  BY OnAxisIsHeard
<1>2. IsFiniteSet(mine)
  <2>1. IsFiniteSet(f.tones) /\ mine \subseteq f.tones
    BY TonesOfFlight
  <2> HIDE DEF mine
  <2> QED  BY <2>1, FS_Subset
<1>3. Cardinality(cs) <= Cardinality(mine)
  <2> DEFINE image == [t \in mine |-> Heard(f, range, t)]
  <2> HIDE DEF mine, cs
  <2>1. image \in Surjection(mine, all)
    BY DEF Surjection
  <2>2. IsFiniteSet(all) /\ Cardinality(all) <= Cardinality(mine)
    <3> HIDE DEF all, image
    <3> QED  BY <1>2, <2>1, FS_Surjection
  <2> HIDE DEF all
  <2>3. IsFiniteSet(cs) /\ Cardinality(cs) <= Cardinality(all)
    BY <1>1, <2>2, FS_Subset
  <2>4. Cardinality(cs) \in Nat /\ Cardinality(all) \in Nat /\ Cardinality(mine) \in Nat
    BY <1>2, <2>2, <2>3, FS_CardinalityType
  <2> QED  BY <2>2, <2>3, <2>4
<1> QED  BY <1>2, <1>3

LEMMA LoudIsMeasured ==
    ASSUME WindowConstants, NEW f \in Flights, NEW range, NEW t \in f.tones
    PROVE  /\ Persists(f, range, t) \in BOOLEAN
           /\ Heard(f, range, t).eligible = Persists(f, range, t)
           /\ Heard(f, range, t).match = BestHarmonicMatch(RpmSources(f, range), t.hz)
           /\ Persists(f, range, t) => Loud(f, range, t) # {}
           /\ Loud(f, range, t) # {} =>
                 /\ Heard(f, range, t) \in OnAxis(f, range, t.axis)
                 /\ Heard(f, range, t).size = t.size /\ t.size # 0 /\ t.size >= Level
<1> DEFINE g == Grid(f, range)
           w == Windows(f, range, t.axis)
           loud == Loud(f, range, t)
           c == Heard(f, range, t)
<1>1. loud = WindowsIn(g, w, t.loud) /\ Persists(f, range, t) = AttentionEligible(g, w.starts, loud)
  BY LoudIs
<1>2. /\ c.size = IF loud = {} THEN 0 ELSE t.size
      /\ c.eligible = AttentionEligible(g, w.starts, loud)
      /\ c.match = BestHarmonicMatch(RpmSources(f, range), t.hz)
  <2>1. c = Candidate(g, w, RpmSources(f, range), t)
    BY DEF Heard
  <2>2. /\ Candidate(g, w, RpmSources(f, range), t).size
              = IF WindowsIn(g, w, t.loud) = {} THEN 0 ELSE t.size
        /\ Candidate(g, w, RpmSources(f, range), t).eligible
              = AttentionEligible(g, w.starts, WindowsIn(g, w, t.loud))
        /\ Candidate(g, w, RpmSources(f, range), t).match
              = BestHarmonicMatch(RpmSources(f, range), t.hz)
    BY MeasuredTone
  <2> HIDE DEF c, loud
  <2> QED  BY <1>1, <2>1, <2>2
<1>3. w.axis = t.axis /\ (loud # {} => t.loud # {})
  BY <1>1, WindowsAre DEF Windows
<1>4. loud # {} => c.size = t.size /\ t.size # 0 /\ t.size >= Level
  <2>1. t.loud # {} => t.size # 0 /\ t.size >= Level
    BY TonesOfFlight
  <2> HIDE DEF loud, c
  <2> QED  BY <1>2, <1>3, <2>1
<1>5. c \in {Candidate(g, w, RpmSources(f, range), u) : u \in {v \in f.tones : v.axis = w.axis}}
  BY <1>3 DEF Heard
<1>6. loud # {} => c \in OnAxis(f, range, t.axis)
  <2> HIDE DEF c, loud
  <2> QED  BY <1>4, <1>5 DEF OnAxis, Candidates
<1> QED  BY <1>1, <1>2, <1>4, <1>6, EligibleIsLoud

\* Of what is measured on an axis, every tone that calls for attention is
\* listed or counted as not listed, and every other one above the level is
\* listed.
LEMMA ListedTells ==
    ASSUME NEW cs, AreTones(cs)
    PROVE  /\ ListedPeaks(cs).unlisted \in Nat
           /\ \A c \in cs : c.eligible \in BOOLEAN /\ c.size # 0 =>
                 \/ c \in ListedPeaks(cs).peaks
                 \/ c.eligible /\ ListedPeaks(cs).unlisted # 0
           /\ \A c \in cs : c.eligible => \E d \in ListedPeaks(cs).peaks : d.eligible
<1> DEFINE eligible == {c \in cs : c.eligible}
           apart == TakeApart(Ranked(eligible))
           loud == {c \in cs : ~c.eligible /\ c.size # 0}
           quiet == Ranked({c \in cs : ~c.eligible /\ c.size = 0})
           F(S) == LET e == {c \in S : c.eligible}
                       a == TakeApart(Ranked(e))
                       l == {c \in S : ~c.eligible /\ c.size # 0}
                       q == Ranked({c \in S : ~c.eligible /\ c.size = 0})
                   IN  [peaks |-> TakeQuiet(a \cup l, q),
                        unlisted |-> Cardinality(e) - Cardinality(a)]
           silent == {c \in cs : ~c.eligible /\ c.size = 0}
<1>1. ListedPeaks(cs) = CHOOSE z \in {F(S) : S \in {cs}} : TRUE
  BY DEF ListedPeaks, With
<1>2. ListedPeaks(cs) = F(cs)
  <2> HIDE DEF F
  <2> QED  BY <1>1
<1>3. /\ ListedPeaks(cs).peaks = TakeQuiet(apart \cup loud, quiet)
      /\ ListedPeaks(cs).unlisted = Cardinality(eligible) - Cardinality(apart)
  BY <1>2
<1> HIDE DEF F
<1>4. AreTones(eligible) /\ AreTones(silent)
  <2>1. eligible \subseteq cs /\ silent \subseteq cs
    OBVIOUS
  <2>2. IsFiniteSet(cs)
    BY DEF AreTones
  <2> HIDE DEF eligible, silent
  <2>3. IsFiniteSet(eligible) /\ IsFiniteSet(silent)
    BY <2>1, <2>2, FS_Subset
  <2> QED  BY <2>1, <2>3 DEF AreTones
<1>5. quiet = Ranked(silent)
  OBVIOUS
<1> HIDE DEF quiet, silent
<1>6. apart \cup loud \subseteq ListedPeaks(cs).peaks
  <2> HIDE DEF apart, loud
  <2>1. quiet \in Seq(silent)
    BY <1>4, <1>5, RankedMembers
  <2> QED  BY <1>3, <2>1, QuietIs
<1>7. apart \subseteq eligible /\ (eligible # {} => apart # {})
  <2> HIDE DEF eligible
  <2>1. Ranked(eligible) \in Seq(eligible) /\ Len(Ranked(eligible)) = Cardinality(eligible)
    BY <1>4, RankedMembers
  <2>2. eligible # {} => Ranked(eligible) # <<>>
    <3>1. IsFiniteSet(eligible)
      BY <1>4 DEF AreTones
    <3>2. eligible # {} => Cardinality(eligible) # 0
      BY <3>1, FS_EmptySet
    <3> QED  BY <2>1, <3>2
  <2> QED  BY <2>1, <2>2, ApartIs
<1>8. /\ Cardinality(eligible) - Cardinality(apart) \in Nat
      /\ Cardinality(eligible) - Cardinality(apart) = 0 => apart = eligible
  <2> HIDE DEF eligible, apart
  <2>1. IsFiniteSet(eligible)
    BY <1>4 DEF AreTones
  <2>2. /\ IsFiniteSet(apart) /\ Cardinality(apart) <= Cardinality(eligible)
        /\ Cardinality(apart) = Cardinality(eligible) => apart = eligible
    BY <1>7, <2>1, FS_Subset
  <2>3. Cardinality(apart) \in Nat /\ Cardinality(eligible) \in Nat
    BY <2>1, <2>2, FS_CardinalityType
  <2> QED  BY <2>2, <2>3
<1>9. ASSUME NEW c \in cs, c.eligible \in BOOLEAN, c.size # 0
      PROVE  \/ c \in ListedPeaks(cs).peaks
             \/ c.eligible /\ ListedPeaks(cs).unlisted # 0
  <2>1. CASE ~c.eligible
    BY <1>6, <1>9, <2>1
  <2>2. CASE c.eligible /\ ListedPeaks(cs).unlisted = 0
    <3>1. c \in eligible
      BY <2>2
    <3> HIDE DEF eligible, apart, loud
    <3> QED  BY <1>3, <1>6, <1>8, <2>2, <3>1
  <2> QED  BY <1>9, <2>1, <2>2
<1>10. ASSUME NEW c \in cs, c.eligible
       PROVE  \E d \in ListedPeaks(cs).peaks : d.eligible
  <2>1. apart # {} /\ \A d \in apart : d.eligible
    BY <1>7, <1>10
  <2> HIDE DEF apart, loud
  <2> QED  BY <1>6, <2>1
<1>11. ListedPeaks(cs).unlisted \in Nat
  <2> HIDE DEF eligible, apart
  <2> QED  BY <1>3, <1>8
<1> QED  BY <1>9, <1>10, <1>11

\* A quiet tone of its own is listed when no more are measured than are listed.
LEMMA QuietIsListed ==
    ASSUME NEW cs, AreTones(cs), MaxListed \in Nat, Cardinality(cs) <= MaxListed,
           NEW c \in cs, ~c.eligible, c.size = 0,
           \A d \in cs : d # c => ~TooClose(c, d)
    PROVE  c \in ListedPeaks(cs).peaks
<1> DEFINE eligible == {d \in cs : d.eligible}
           apart == TakeApart(Ranked(eligible))
           loud == {d \in cs : ~d.eligible /\ d.size # 0}
           silent == {d \in cs : ~d.eligible /\ d.size = 0}
           F(S) == LET e == {d \in S : d.eligible}
                       a == TakeApart(Ranked(e))
                       l == {d \in S : ~d.eligible /\ d.size # 0}
                       q == Ranked({d \in S : ~d.eligible /\ d.size = 0})
                   IN  [peaks |-> TakeQuiet(a \cup l, q),
                        unlisted |-> Cardinality(e) - Cardinality(a)]
<1>1. ListedPeaks(cs) = CHOOSE z \in {F(S) : S \in {cs}} : TRUE
  BY DEF ListedPeaks, With
<1>2. ListedPeaks(cs) = F(cs)
  <2> HIDE DEF F
  <2> QED  BY <1>1
<1>3. ListedPeaks(cs).peaks = TakeQuiet(apart \cup loud, Ranked(silent))
  BY <1>2
<1> HIDE DEF F
<1>4. eligible \subseteq cs /\ loud \subseteq cs /\ silent \subseteq cs /\ c \in silent
  OBVIOUS
<1> HIDE DEF eligible, loud, silent
<1>5. IsFiniteSet(cs)
  BY DEF AreTones
<1>6. AreTones(eligible) /\ AreTones(silent)
  <2>1. IsFiniteSet(eligible) /\ IsFiniteSet(silent)
    BY <1>4, <1>5, FS_Subset
  <2> QED  BY <1>4, <2>1 DEF AreTones
<1>7. apart \subseteq cs
  <2>1. Ranked(eligible) \in Seq(eligible)
    BY <1>6, RankedMembers
  <2> QED  BY <1>4, <2>1, ApartIs
<1>8. Cardinality(silent) <= MaxListed
  <2>1. Cardinality(silent) <= Cardinality(cs)
    BY <1>4, <1>5, FS_Subset
  <2>2. Cardinality(silent) \in Nat /\ Cardinality(cs) \in Nat
    BY <1>5, <1>6, FS_CardinalityType DEF AreTones
  <2> QED  BY <2>1, <2>2
<1> DEFINE listed == apart \cup loud
<1>9. listed \cup silent \subseteq cs
  BY <1>4, <1>7
<1> HIDE DEF listed
<1>10. \A d \in listed \cup silent : d # c => ~TooClose(c, d)
  BY <1>9
<1>11. c \in TakeQuiet(listed, Ranked(silent))
  BY <1>4, <1>6, <1>8, <1>10, QuietLists
<1> QED  BY <1>3, <1>11 DEF listed

\* A tone never above the level that lasts, where the list has room for it.
Lingers(f, range, t) == Loud(f, range, t) = {} /\ Lasts(f, range, t) /\ StandsApart(f, t)

LEMMA LastingPersists ==
    ASSUME NEW f, NEW range, NEW t, Lasts(f, range, t)
    PROVE  Heard(f, range, t).persists /\ Heard(f, range, t).presence
<1> DEFINE w == Windows(f, range, t.axis)
           present == Cardinality(WindowsIn(Grid(f, range), w, t.loud \cup t.soft))
<1>1. 2 * present >= Cardinality(w.starts) /\ present >= RequiredWindows(Cardinality(w.starts))
  BY DEF Lasts, Windows
<1>2. /\ Heard(f, range, t).persists = (2 * present >= Cardinality(w.starts))
      /\ Heard(f, range, t).presence = (present >= RequiredWindows(Cardinality(w.starts)))
  BY MeasuredWindows DEF Heard
<1> HIDE DEF present, w
<1> QED  BY <1>1, <1>2

LEMMA KeptIsListed ==
    ASSUME WindowConstants, NEW f \in Flights, NEW range, NEW t \in f.tones, Lingers(f, range, t)
    PROVE  Heard(f, range, t) \in ListedPeaks(OnAxis(f, range, t.axis)).peaks
<1> DEFINE x == t.axis
           c == Heard(f, range, t)
           cs == OnAxis(f, range, x)
           mine == {u \in f.tones : u.axis = x}
<1>1. c.presence
  BY LastingPersists DEF Lingers
<1>2. ~c.eligible /\ c.size = 0
  <2>1. c.eligible = Persists(f, range, t) /\ (Persists(f, range, t) => Loud(f, range, t) # {})
    BY LoudIsMeasured
  <2>2. c.size = IF WindowsIn(Grid(f, range), Windows(f, range, x), t.loud) = {} THEN 0 ELSE t.size
    BY MeasuredTone DEF Heard
  <2>3. Loud(f, range, t) = WindowsIn(Grid(f, range), Windows(f, range, x), t.loud)
    BY LoudIs
  <2> HIDE DEF c, x
  <2> QED  BY <2>1, <2>2, <2>3 DEF Lingers
<1>3. c \in cs
  <2> DEFINE w == Windows(f, range, x)
  <2>1. w.axis = x
    <3> DEFINE seen == WindowsIn(Grid(f, range), AxisWindows(f, Grid(f, range), x), {})
    <3>1. Cardinality(seen) \in Nat /\ AxisWindows(f, Grid(f, range), x).axis = x
      BY WindowsAre
    <3> QED  BY <3>1 DEF Windows
  <2>2. c \in {Candidate(Grid(f, range), w, RpmSources(f, range), u)
                 : u \in {v \in f.tones : v.axis = w.axis}}
    BY <2>1 DEF Heard
  <2> HIDE DEF c
  <2> QED  BY <1>1, <2>2 DEF OnAxis, Candidates
<1>4. AreTones(cs)
  BY OnAxisAreTones
<1>5. MaxListed \in Nat
  BY DEF WindowConstants
<1>6. Cardinality(cs) <= MaxListed
  <2>1. Cardinality(mine) <= MaxListed
    BY DEF Lingers, StandsApart
  <2>2. IsFiniteSet(mine) /\ Cardinality(cs) <= Cardinality(mine)
    BY OnAxisAreFew
  <2>3. IsFiniteSet(cs)
    BY <1>4 DEF AreTones
  <2> HIDE DEF mine, cs
  <2>4. Cardinality(cs) \in Nat /\ Cardinality(mine) \in Nat
    BY <2>2, <2>3, FS_CardinalityType
  <2> QED  BY <1>5, <2>1, <2>2, <2>4
<1>7. \A d \in cs : d # c => ~TooClose(c, d)
  <2> TAKE d \in cs
  <2>1. PICK u \in f.tones : u.axis = x /\ d = Heard(f, range, u) /\ d.hz = u.hz
    BY OnAxisIsHeard
  <2>2. c.hz = t.hz
    <3>1. Candidate(Grid(f, range), Windows(f, range, x), RpmSources(f, range), t).hz = t.hz
      BY MeasuredTone
    <3> QED  BY <3>1 DEF Heard
  <2>3. SUFFICES ASSUME d # c PROVE ~TooClose(t, u)
    BY <2>1, <2>2 DEF TooClose
  <2>4. u \in mine \ {t}
    BY <2>1, <2>3
  <2> QED  BY <2>4 DEF Lingers, StandsApart
<1> HIDE DEF c, cs
<1>8. c \in ListedPeaks(cs).peaks
  BY <1>2, <1>3, <1>4, <1>5, <1>6, <1>7, QuietIsListed
<1> QED  BY <1>8 DEF c, cs

LEMMA ListedIs ==
    ASSUME NEW f, NEW range
    PROVE  Measured(f, range).listed = [x \in Axes |-> ListedPeaks(OnAxis(f, range, x))]
<1> DEFINE rpm == RpmSources(f, range)
           H(g) == [correlation |-> HarmonicCorrelation(rpm), rotors |-> EvaluatedRotors(rpm),
                    listed |-> [x \in Axes |->
                                  ListedPeaks(Candidates(f, g, AxisWindows(f, g, x), rpm))]]
           F(s) == With(Grid(f, range), LAMBDA g :
                     [correlation |-> HarmonicCorrelation(s), rotors |-> EvaluatedRotors(s),
                      listed |-> [x \in Axes |->
                                    ListedPeaks(Candidates(f, g, AxisWindows(f, g, x), s))]])
<1>1. Measured(f, range) = CHOOSE z \in {F(s) : s \in {rpm}} : TRUE
  BY DEF Measured, With
<1>2. F(rpm) = CHOOSE z \in {H(g) : g \in {Grid(f, range)}} : TRUE
  BY DEF With
<1> HIDE DEF F
<1>3. Measured(f, range) = F(rpm)
  <2> HIDE DEF rpm
  <2> QED  BY <1>1
<1>4. F(rpm) = H(Grid(f, range))
  <2> HIDE DEF H
  <2> QED  BY <1>2
<1> QED  BY <1>3, <1>4 DEF OnAxis, Windows

----------------------------------------------------------------------------
(* ... through the result of a stretch and the combined one.               *)

\* What the result of one stretch says of the tones of the flight.
Hears(f, range, r) ==
    /\ r.correlation = "evaluated" =>
          \A x \in Axes : r.axes[x].available =>
             /\ r.axes[x].unlisted \in Nat
             /\ \A t \in f.tones : t.axis = x /\ Loud(f, range, t) # {} =>
                   \/ Heard(f, range, t) \in r.axes[x].peaks
                   \/ Heard(f, range, t).eligible /\ r.axes[x].unlisted # 0
             /\ \A t \in f.tones : t.axis = x /\ Lingers(f, range, t) =>
                   Heard(f, range, t) \in r.axes[x].peaks
    /\ r.gate = "permitted" =>
          /\ \A x \in Axes : x \in DOMAIN r.axes /\ r.axes[x].available
          /\ \A t \in f.tones : ~Persists(f, range, t)

LEMMA AnalyzedHears ==
    ASSUME WindowConstants, NEW f \in Flights, NEW range, NEW r \in Analyzed(f, range)
    PROVE  Hears(f, range, r)
<1>1. ASSUME NEW reasons, NEW on, r = Insufficient(range, reasons, on)
      PROVE  Hears(f, range, r)
  BY <1>1 DEF Hears, Insufficient, BaseResult
<1>2. CASE Refusal(f, range) # "" \/ CoverageReasons(f, range) # {}
  <2>1. \E reasons, on : r = Insufficient(range, reasons, on)
    BY <1>2 DEF Analyzed
  <2> QED  BY <1>1, <2>1
<1>3. CASE Refusal(f, range) = "" /\ CoverageReasons(f, range) = {}
  <2> DEFINE m == Measured(f, range)
             on == JudgedAxes(f, range, m)
             status == IF Eligible(m) # {} THEN "attention"
                       ELSE IF Unclearable(f, m) THEN "insufficient" ELSE "clear"
  <2>1. PICK finding : r = [BaseResult(range, status, JudgedReasons(f, m)) EXCEPT
                        !.correlation = m.correlation, !.rotors = m.rotors, !.axes = on,
                        !.finding = finding]
    <3>1. r \in JudgedBy(f, range, m)
      BY <1>3, JudgedIs DEF Analyzed
    <3> HIDE DEF m
    <3> QED  BY <3>1 DEF JudgedBy
  <2>2. /\ r.gate = IF status = "clear" THEN "permitted" ELSE "blocked"
        /\ r.axes = on
    <3> HIDE DEF m, on, status
    <3> QED  BY <2>1 DEF BaseResult
  <2>3. r.gate = "permitted" => Eligible(m) = {} /\ ~Unclearable(f, m)
    BY <2>2
  <2>4. \A x \in Axes : m.listed[x] = ListedPeaks(OnAxis(f, range, x))
    <3>1. m.listed = [x \in Axes |-> ListedPeaks(OnAxis(f, range, x))]
      BY ListedIs
    <3> HIDE DEF m
    <3> QED  BY <3>1
  <2> HIDE DEF m, status
  <2>5. DOMAIN on = Axes /\ \A x \in Axes :
            /\ on[x].available => /\ on[x].unlisted = m.listed[x].unlisted
                                  /\ on[x].peaks = m.listed[x].peaks
            /\ ~Unclearable(f, m) => on[x].available
    BY DEF JudgedAxes, Unmeasured
  <2> HIDE DEF on
  <2>6. ASSUME NEW x \in Axes, on[x].available
        PROVE  on[x].unlisted \in Nat
    BY <2>4, <2>5, <2>6, OnAxisAreTones, ListedTells
  <2>7. ASSUME NEW x \in Axes, on[x].available, NEW t \in f.tones, t.axis = x,
               Loud(f, range, t) # {}
        PROVE  \/ Heard(f, range, t) \in on[x].peaks
               \/ Heard(f, range, t).eligible /\ on[x].unlisted # 0
    <3> DEFINE cs == OnAxis(f, range, x)
               c == Heard(f, range, t)
    <3>1. c \in cs /\ c.eligible \in BOOLEAN /\ c.size # 0
      BY <2>7, LoudIsMeasured
    <3>2. AreTones(cs)
      BY OnAxisAreTones
    <3>3. on[x].unlisted = ListedPeaks(cs).unlisted /\ on[x].peaks = ListedPeaks(cs).peaks
      BY <2>4, <2>5, <2>7
    <3> HIDE DEF c, cs
    <3>4. \/ c \in ListedPeaks(cs).peaks
          \/ c.eligible /\ ListedPeaks(cs).unlisted # 0
      BY <3>1, <3>2, ListedTells
    <3>5. \/ c \in on[x].peaks
          \/ c.eligible /\ on[x].unlisted # 0
      BY <3>3, <3>4
    <3> QED  BY <3>5 DEF c
  <2>9. ASSUME NEW x \in Axes, on[x].available, NEW t \in f.tones, t.axis = x, Lingers(f, range, t)
        PROVE  Heard(f, range, t) \in on[x].peaks
    <3>1. on[x].peaks = ListedPeaks(OnAxis(f, range, x)).peaks
      BY <2>4, <2>5, <2>9
    <3>2. Heard(f, range, t) \in ListedPeaks(OnAxis(f, range, x)).peaks
      BY <2>9, KeptIsListed
    <3> QED  BY <3>1, <3>2
  <2>8. ASSUME r.gate = "permitted", NEW t \in f.tones
        PROVE  ~Persists(f, range, t)
    <3> DEFINE cs == OnAxis(f, range, t.axis)
               c == Heard(f, range, t)
    <3>0. t.axis \in Axes
      BY TonesOfFlight
    <3>1. SUFFICES ASSUME Persists(f, range, t) PROVE FALSE
      BY LoudIsMeasured
    <3>2. c \in cs /\ c.eligible
      BY <3>1, LoudIsMeasured
    <3>3. AreTones(cs)
      BY OnAxisAreTones
    <3>4. m.listed[t.axis] = ListedPeaks(cs)
      BY <2>4, <3>0
    <3> HIDE DEF c, cs
    <3>5. PICK d \in ListedPeaks(cs).peaks : d.eligible
      BY <3>2, <3>3, ListedTells
    <3>6. d \in Eligible(m)
      BY <3>0, <3>4, <3>5 DEF Eligible, Peaks
    <3> QED  BY <2>3, <2>8, <3>6
  <2> QED  BY <2>2, <2>3, <2>5, <2>6, <2>7, <2>8, <2>9 DEF Hears
<1> QED  BY <1>2, <1>3

\* What the delivered result says of them, stretch by stretch.
HearsAll(f, p, r) ==
    /\ r.correlation = "evaluated" =>
          \A x \in Axes : r.axes[x].available /\ r.axes[x].unlisted = 0 =>
             \A i \in DOMAIN p, t \in f.tones :
                t.axis = x /\ Loud(f, p[i], t) # {} => Heard(f, p[i], t) \in r.axes[x].peaks
    /\ r.correlation = "evaluated" =>
          \A x \in Axes : r.axes[x].available =>
             \A i \in DOMAIN p, t \in f.tones :
                t.axis = x /\ Loud(f, p[i], t) # {} /\ ~Heard(f, p[i], t).eligible
                   => Heard(f, p[i], t) \in r.axes[x].peaks
    /\ r.correlation = "evaluated" =>
          \A x \in Axes : r.axes[x].available =>
             \A i \in DOMAIN p, t \in f.tones :
                t.axis = x /\ Lingers(f, p[i], t) => Heard(f, p[i], t) \in r.axes[x].peaks
    /\ r.gate = "permitted" =>
          /\ \A x \in Axes : r.axes[x].available
          /\ \A i \in DOMAIN p, t \in f.tones : ~Persists(f, p[i], t)

LEMMA DeliveredHears ==
    ASSUME NEW f, NEW p, NEW rs, AllSound(f, p, rs),
           \A i \in DOMAIN rs : Hears(f, p[i], rs[i])
    PROVE  HearsAll(f, p, Delivered(f, rs))
<1>1. PICK S : rs \in Seq(S)
  BY DEF AllSound
<1>2. /\ DOMAIN rs = 1 .. Len(p) /\ DOMAIN p = 1 .. Len(p)
      /\ Len(p) \in Nat \ {0} /\ Len(rs) = Len(p)
  BY <1>1, LenProperties DEF AllSound, Tiling
<1>3. \A i \in DOMAIN rs : Sound(f, p[i], rs[i])
  BY DEF AllSound
<1>4. CASE Len(rs) = 1
  <2>1. Hears(f, p[1], rs[1]) /\ Delivered(f, rs) = rs[1]
    BY <1>2, <1>4 DEF Delivered
  <2>2. DOMAIN p = {1}
    BY <1>2, <1>4
  <2> QED  BY <2>1, <2>2 DEF Hears, HearsAll
<1>5. CASE Len(rs) # 1
  <2> DEFINE d == CombineMechanicalResults(f, rs, f.asked)
             c == CombinedCorrelation(rs)
             on == CombinedAxes(f, rs)
             Has(i, x) == x \in DOMAIN rs[i].axes
             Avail(x) == \A i \in DOMAIN rs : Has(i, x) /\ rs[i].axes[x].available
             named == {x \in Axes : \E i \in DOMAIN rs : Has(i, x)}
  <2>1. Delivered(f, rs) = d
    BY <1>5 DEF Delivered
  <2>2. /\ d.correlation = c.state /\ d.axes = on
        /\ d.gate = IF \A i \in DOMAIN rs : rs[i].gate = "permitted"
                    THEN "permitted" ELSE "blocked"
    <3> HIDE DEF c, on
    <3> QED  BY DEF CombineMechanicalResults, BaseResult, c, on
  <2>3. c.state = "evaluated" => \A i \in DOMAIN rs : rs[i].correlation = "evaluated"
    BY DEF CombinedCorrelation
  <2>4. c.state = "evaluated" => \A i \in DOMAIN rs : DOMAIN rs[i].axes = Axes
    BY <1>3, <2>3 DEF Sound
  <2>5. \A x \in named :
          /\ on[x].available = Avail(x)
          /\ Avail(x) => on[x].unlisted = SumUnlisted(rs, x)
          /\ on[x].peaks = UNION {rs[i].axes[x].peaks : i \in {j \in DOMAIN rs : Has(j, x)}}
    BY DEF CombinedAxes
  <2>6. c.state = "evaluated" => named = Axes
    BY <1>2, <2>4
  <2>7. ASSUME c.state = "evaluated", NEW x \in Axes, on[x].available,
               NEW i \in DOMAIN p, NEW t \in f.tones, t.axis = x, Loud(f, p[i], t) # {},
               on[x].unlisted = 0 \/ ~Heard(f, p[i], t).eligible
        PROVE  Heard(f, p[i], t) \in on[x].peaks
    <3> DEFINE q == Heard(f, p[i], t)
    <3>1. Avail(x) /\ x \in named
      BY <2>5, <2>6, <2>7
    <3>2. /\ \A j \in DOMAIN rs : rs[j].axes[x].unlisted \in Nat
          /\ q \in rs[i].axes[x].peaks \/ (q.eligible /\ rs[i].axes[x].unlisted # 0)
      BY <1>2, <2>3, <2>7, <3>1 DEF Hears
    <3>3. SumUnlisted(rs, x) = 0 => rs[i].axes[x].unlisted = 0
      BY <1>1, <1>2, <3>2, SumIs
    <3>4. on[x].unlisted = SumUnlisted(rs, x)
      BY <2>5, <3>1
    <3> HIDE DEF q, on, named
    <3>5. q \in rs[i].axes[x].peaks
      BY <2>7, <3>2, <3>3, <3>4 DEF q
    <3>6. i \in {j \in DOMAIN rs : Has(j, x)}
      BY <1>2, <3>1
    <3>7. q \in UNION {rs[j].axes[x].peaks : j \in {k \in DOMAIN rs : Has(k, x)}}
      BY <3>5, <3>6
    <3> QED  BY <2>5, <3>1, <3>7 DEF q
  <2>9. ASSUME c.state = "evaluated", NEW x \in Axes, on[x].available,
               NEW i \in DOMAIN p, NEW t \in f.tones, t.axis = x, Lingers(f, p[i], t)
        PROVE  Heard(f, p[i], t) \in on[x].peaks
    <3>1. Avail(x) /\ x \in named
      BY <2>5, <2>6, <2>9
    <3>2. Heard(f, p[i], t) \in rs[i].axes[x].peaks
      BY <1>2, <2>3, <2>9, <3>1 DEF Hears
    <3> HIDE DEF on, named
    <3>3. i \in {j \in DOMAIN rs : Has(j, x)}
      BY <1>2, <3>1
    <3> QED  BY <2>5, <3>1, <3>2, <3>3
  <2>8. ASSUME d.gate = "permitted"
        PROVE  /\ \A x \in Axes : on[x].available
               /\ \A i \in DOMAIN p, t \in f.tones : ~Persists(f, p[i], t)
    <3>1. \A i \in DOMAIN rs : rs[i].gate = "permitted"
      BY <2>2, <2>8
    <3>2. \A i \in DOMAIN rs : /\ \A x \in Axes : Has(i, x) /\ rs[i].axes[x].available
                               /\ \A t \in f.tones : ~Persists(f, p[i], t)
      BY <3>1 DEF Hears
    <3>3. \A x \in Axes : x \in named /\ Avail(x)
      BY <1>2, <3>2
    <3> QED  BY <1>2, <2>5, <3>2, <3>3
  <2> HIDE DEF c, d, on
  <2> QED  BY <2>1, <2>2, <2>7, <2>8, <2>9 DEF HearsAll
<1> QED  BY <1>4, <1>5

----------------------------------------------------------------------------
(* ... to the gate.                                                        *)

TonesInv ==
    /\ MeasuredInv
    /\ phase \in {"measure", "decide", "done"} =>
          \A i \in DOMAIN results : Hears(flight, plan[i], results[i])

LEMMA TonesStep ==
    ASSUME TonesInv, [Next]_vars
    PROVE  TonesInv'
<1>1. MeasuredInv /\ MeasuredInv'
  BY MeasuredStep DEF TonesInv
<1>2. CASE Cancel \/ Settled \/ UNCHANGED vars
  BY <1>1, <1>2 DEF TonesInv, Cancel, Settled, vars
<1>3. CASE Abandon \/ RefuseRange \/ Escalate
  BY <1>1, <1>3 DEF TonesInv, Abandon, RefuseRange, Escalate
<1>4. CASE Plan
  <2>1. results' = <<>> /\ DOMAIN <<>> = {}
    BY <1>4 DEF Plan
  <2> QED  BY <1>1, <2>1 DEF TonesInv
<1>5. CASE Measure
  <2>1. PICK S : results \in Seq(S)
    BY <1>5 DEF TonesInv, MeasuredInv, Measure
  <2> DEFINE n == Len(results)
  <2>2. PICK r \in Analyzed(flight, plan[n + 1]) : results' = Append(results, r)
    BY <1>5 DEF Measure
  <2>3. /\ n \in Nat /\ DOMAIN results' = 1 .. n + 1 /\ DOMAIN results = 1 .. n
        /\ results'[n + 1] = r /\ \A i \in 1 .. n : results'[i] = results[i]
    <3>1. results \in Seq(S \cup {r})
      BY <2>1, SeqMonotonic
    <3> QED  BY <2>2, <3>1, AppendProperties, LenProperties
  <2>4. flight \in Flights
    BY DEF TonesInv, MeasuredInv, PlanInv
  <2>5. Hears(flight, plan[n + 1], r)
    BY <2>2, <2>4, WindowConstants, AnalyzedHears
  <2>6. flight' = flight /\ plan' = plan /\ phase = "measure"
    BY <1>5 DEF Measure
  <2>7. \A i \in 1 .. n : Hears(flight, plan[i], results[i])
    BY <2>3, <2>6 DEF TonesInv
  <2>8. \A i \in DOMAIN results' : Hears(flight', plan'[i], results'[i])
    <3> TAKE i \in DOMAIN results'
    <3>1. i = n + 1 \/ i \in 1 .. n
      BY <2>3
    <3> HIDE DEF n
    <3> QED  BY <2>3, <2>5, <2>6, <2>7, <3>1
  <2> QED  BY <1>1, <2>8 DEF TonesInv
<1>6. CASE Deliver
  BY <1>1, <1>6 DEF TonesInv, Deliver
<1> QED  BY <1>2, <1>3, <1>4, <1>5, <1>6 DEF Next, Step

\* What of a result the gate does not block.
LEMMA NoCodesHear ==
    ASSUME NEW m, NEW stops, NEW holds, EvaluateAirframeGate(m, stops, holds).status = "permitted"
    PROVE  /\ m.correlation = "evaluated" /\ ~RotorOrderToneAssessment(m).large
           /\ m.gate = "permitted" \/ RotorOrderToneAssessment(m).only
           /\ \A u \in TonesAboveLevelInPart(m) : u.blocks # "MECHANICAL_EVIDENCE_GATE_BLOCKED"
<1>1. EvaluateAirframeGate(m, stops, holds).codes = {}
  BY DEF EvaluateAirframeGate
<1>2. CorrelationCodes(m) = {}
  BY <1>1 DEF EvaluateAirframeGate
<1>3. m.correlation = "evaluated"
  BY <1>2 DEF CorrelationCodes
<1>4. ~RotorOrderToneAssessment(m).large
  BY <1>1 DEF EvaluateAirframeGate
<1>5. m.gate = "permitted" \/ RotorOrderToneAssessment(m).only
  BY <1>1, <1>4 DEF EvaluateAirframeGate
<1>6. {t.blocks : t \in {u \in TonesAboveLevelInPart(m) :
                          u.blocks = "MECHANICAL_EVIDENCE_GATE_BLOCKED"}} = {}
  BY <1>1 DEF EvaluateAirframeGate
<1>7. \A u \in TonesAboveLevelInPart(m) : u.blocks # "MECHANICAL_EVIDENCE_GATE_BLOCKED"
  BY <1>6
<1> QED  BY <1>3, <1>4, <1>5, <1>7

\* The rule's exception: the axes are all measured and listed, and what calls
\* for attention is the main rotor's first or second order.
LEMMA RuleHears ==
    ASSUME NEW m, RotorOrderToneAssessment(m).only
    PROVE  /\ DOMAIN m.axes = Axes
           /\ \A x \in Axes : m.axes[x].available /\ m.axes[x].unlisted = 0
           /\ \A u \in PeaksOf(m) : u.peak.eligible =>
                 IsMainRotorOrder(u.peak) /\ ToneSizeMeasured(u.peak) /\ MatchEstablished(u.peak)
<1>1. RotorOrderRuleRefusal(m) = ""
  BY DEF RotorOrderToneAssessment
<1>2. /\ DOMAIN m.axes = Axes
      /\ \A x \in Axes : m.axes[x].available
  BY <1>1 DEF RotorOrderRuleRefusal
<1>3. \A x \in Axes : m.axes[x].unlisted = 0
  BY <1>1 DEF RotorOrderRuleRefusal
<1>4. \A u \in {t \in PeaksOf(m) : t.peak.eligible} :
        IsMainRotorOrder(u.peak) /\ ToneSizeMeasured(u.peak) /\ MatchEstablished(u.peak)
  BY <1>1 DEF RotorOrderRuleRefusal
<1> QED  BY <1>2, <1>3, <1>4

\* No tone the rule judges, persisting or at the level, is past the ceiling.
LEMMA NotLarge ==
    ASSUME NEW m, ~RotorOrderToneAssessment(m).large, NEW u \in PeaksOf(m),
           JudgedAsRotorOrder(m.axes[u.axis], u.peak),
           u.peak.eligible \/ ReachedLevel(u.peak, m.level)
    PROVE  ~PastCeiling(u.peak.size, m.level)
<1> DEFINE judged == {t \in PeaksOf(m) : JudgedAsRotorOrder(m.axes[t.axis], t.peak)}
           every == {t \in judged : t.peak.eligible}
                    \cup {t \in judged : ReachedLevel(t.peak, m.level)}
<1>1. ~(\E t \in every : PastCeiling(t.peak.size, m.level))
  BY DEF RotorOrderToneAssessment
<1>2. u \in every
  OBVIOUS
<1> HIDE DEF every
<1> QED  BY <1>1, <1>2

\* Of a measurement that is let through every tone that was above the level in
\* some stretch, and every one that lasted below it, is among the listed peaks;
\* one that calls for attention only by the exception for the rotor's.
Listens(f, p, m) ==
    /\ DOMAIN m.axes = Axes /\ m.level = Level
    /\ \A i \in DOMAIN p, t \in f.tones :
          Loud(f, p[i], t) # {} \/ Lingers(f, p[i], t) => Heard(f, p[i], t) \in m.axes[t.axis].peaks

LEMMA TonesAreListed ==
    ASSUME WindowConstants, NEW f \in Flights, NEW p, NEW m, NEW stops, NEW holds,
           Tells(f, p, m), HearsAll(f, p, m),
           EvaluateAirframeGate(m, stops, holds).status = "permitted"
    PROVE  /\ Listens(f, p, m)
           /\ \A i \in DOMAIN p, t \in f.tones : Heard(f, p[i], t).eligible =>
                 RotorOrderToneAssessment(m).only /\ m.gate # "permitted"
<1> DEFINE only == RotorOrderToneAssessment(m).only
<1>1. m.correlation = "evaluated" /\ (m.gate = "permitted" \/ only)
  BY NoCodesHear
<1>2. DOMAIN m.axes = Axes /\ m.level = Level
  BY <1>1 DEF Tells
<1>3. \A x \in Axes : m.axes[x].available /\ (only => m.axes[x].unlisted = 0)
  <2>1. only => \A x \in Axes : m.axes[x].available /\ m.axes[x].unlisted = 0
    BY RuleHears
  <2> HIDE DEF only
  <2> QED  BY <1>1, <2>1 DEF HearsAll
<1> HIDE DEF only
<1>4. ASSUME NEW i \in DOMAIN p, NEW t \in f.tones
      PROVE  /\ Heard(f, p[i], t).eligible = Persists(f, p[i], t)
             /\ Persists(f, p[i], t) \in BOOLEAN /\ t.axis \in Axes
  BY LoudIsMeasured, TonesOfFlight
<1>5. ASSUME NEW i \in DOMAIN p, NEW t \in f.tones, Heard(f, p[i], t).eligible
      PROVE  only /\ m.gate # "permitted"
  BY <1>1, <1>4, <1>5 DEF HearsAll
<1>6. ASSUME NEW i \in DOMAIN p, NEW t \in f.tones, Loud(f, p[i], t) # {}
      PROVE  Heard(f, p[i], t) \in m.axes[t.axis].peaks
  <2>1. CASE only
    BY <1>1, <1>3, <1>4, <1>6, <2>1 DEF HearsAll
  <2>2. CASE ~Heard(f, p[i], t).eligible
    BY <1>1, <1>3, <1>4, <1>6, <2>2 DEF HearsAll
  <2> QED  BY <1>5, <2>1, <2>2
<1>7. ASSUME NEW i \in DOMAIN p, NEW t \in f.tones, Lingers(f, p[i], t)
      PROVE  Heard(f, p[i], t) \in m.axes[t.axis].peaks
  BY <1>1, <1>3, <1>4, <1>7 DEF HearsAll
<1> QED  BY <1>2, <1>5, <1>6, <1>7 DEF Listens, only

\* A tone that was above the level in some stretch is within the ceiling, in
\* part of the window or the main rotor's; a pass tells of it either way.
LEMMA ToneIsJudged ==
    ASSUME WindowConstants, NEW f \in Flights, NEW p, NEW m, NEW stops, NEW holds,
           Tells(f, p, m), HearsAll(f, p, m),
           EvaluateAirframeGate(m, stops, holds).status = "permitted", Unfiltered(f),
           NEW i \in DOMAIN p, NEW t \in f.tones, Loud(f, p[i], t) # {}
    PROVE  /\ t.size <= CeilingMultiple * Level
           /\ EvaluateAirframeGate(m, stops, holds).observations # {}
           /\ Persists(f, p[i], t) =>
                 /\ IsMainRotorOrder(Heard(f, p[i], t)) /\ MatchEstablished(Heard(f, p[i], t))
<1> DEFINE q == Heard(f, p[i], t)
           x == t.axis
           u == [axis |-> x, peak |-> q]
           gate == EvaluateAirframeGate(m, stops, holds)
           rotor == RotorOrderToneAssessment(m)
<1>1. /\ m.correlation = "evaluated" /\ ~rotor.large
      /\ m.gate = "permitted" \/ rotor.only
      /\ \A v \in TonesAboveLevelInPart(m) : v.blocks # "MECHANICAL_EVIDENCE_GATE_BLOCKED"
  BY NoCodesHear
<1>2. /\ q.eligible = Persists(f, p[i], t) /\ q.size = t.size /\ t.size # 0 /\ t.size >= Level
      /\ Persists(f, p[i], t) \in BOOLEAN /\ x \in Axes /\ t.size \in Nat
  BY LoudIsMeasured, TonesOfFlight
<1>3. DOMAIN m.axes = Axes /\ m.axes[x].source \in UnfilteredSources /\ m.level = Level
  BY <1>1, <1>2 DEF Tells, Unfiltered
<1>4. q \in m.axes[x].peaks
  BY TonesAreListed DEF Listens
<1>5. q.eligible => rotor.only /\ m.gate # "permitted"
  BY TonesAreListed
<1> HIDE DEF q, rotor
<1>6. u \in PeaksOf(m) /\ u.axis = x /\ u.peak = q
  BY <1>2, <1>3, <1>4 DEF PeaksOf
<1>7. CeilingOf(Level) = CeilingMultiple * Level /\ CeilingOf(Level) # NoCeiling
      /\ CeilingOf(Level) \in Nat
  <2>1. Level \in Nat \ {0} /\ CeilingMultiple \in Nat \ {0}
    BY GateConstants DEF WindowConstants
  <2>2. CeilingMultiple * Level \in Nat \ {0}
    BY <2>1
  <2> QED  BY <2>1, <2>2 DEF CeilingOf, NoCeiling
<1>8. ~PastCeiling(q.size, Level) <=> t.size <= CeilingMultiple * Level
  BY <1>2, <1>7 DEF PastCeiling
<1>9. CASE q.eligible
  <2>1. rotor.only
    BY <1>5, <1>9
  <2>2. IsMainRotorOrder(q) /\ ToneSizeMeasured(q) /\ MatchEstablished(q)
    BY <1>6, <1>9, <2>1, RuleHears DEF rotor
  <2>3. JudgedAsRotorOrder(m.axes[u.axis], u.peak)
    BY <1>3, <1>6, <2>2 DEF JudgedAsRotorOrder
  <2>4. ~PastCeiling(u.peak.size, m.level)
    BY <1>1, <1>6, <1>9, <2>3, NotLarge DEF rotor
  <2>5. gate.observations # {}
    <3>1. m.gate # "permitted"
      BY <1>5, <1>9
    <3>2. "MAIN_ROTOR_ORDER_TONE_ABOVE_EXPERIMENTAL_THRESHOLD" \in gate.observations
      BY <2>1, <3>1 DEF EvaluateAirframeGate, rotor
    <3> QED  BY <3>2
  <2> QED  BY <1>3, <1>6, <1>8, <2>2, <2>4, <2>5 DEF q
<1>10. CASE ~q.eligible
  <2> DEFINE v == [axis |-> x, peak |-> q, blocks |-> InPartBlocks(m.axes[x], q, m.level)]
  <2>1. ReachedLevel(q, m.level)
    BY <1>2, <1>3 DEF ReachedLevel
  <2>2. u \in {w \in PeaksOf(m) : ~w.peak.eligible /\ ReachedLevel(w.peak, m.level)}
    BY <1>6, <1>10, <2>1
  <2>3. v \in TonesAboveLevelInPart(m)
    <3>1. v = [axis |-> u.axis, peak |-> u.peak,
               blocks |-> InPartBlocks(m.axes[u.axis], u.peak, m.level)]
      BY <1>6
    <3> HIDE DEF u, v
    <3> QED  BY <2>2, <3>1 DEF TonesAboveLevelInPart
  <2>4. v.blocks = InPartBlocks(m.axes[x], q, Level)
    BY <1>3
  <2>5. v.blocks # "MECHANICAL_EVIDENCE_GATE_BLOCKED"
    <3> HIDE DEF v
    <3> QED  BY <1>1, <2>3
  <2>6. ~(PastCeiling(q.size, Level) /\ JudgedAsRotorOrder(m.axes[x], q))
    <3>1. JudgedAsRotorOrder(m.axes[u.axis], u.peak) => ~PastCeiling(u.peak.size, m.level)
      BY <1>1, <1>6, <2>1, NotLarge DEF rotor
    <3> QED  BY <1>3, <1>6, <3>1
  <2>7. CeilingOf(Level) # NoCeiling /\ q.size <= CeilingOf(Level) /\ v.blocks = ""
    BY <2>4, <2>5, <2>6 DEF InPartBlocks
  <2>8. "TONE_ABOVE_ATTENTION_LEVEL_IN_PART" \in gate.observations
    <3> HIDE DEF v
    <3> QED  BY <2>3, <2>7 DEF EvaluateAirframeGate
  <2> QED  BY <1>2, <1>7, <1>10, <2>7, <2>8
<1> QED  BY <1>2, <1>9, <1>10

\* A measurement that is let through was complete, whatever the flight: every
\* stretch measured on unfiltered gyro and compared with a rotor; every tone
\* that was above the level in any window of any stretch is within the
\* ceiling, and one that persisted is the main rotor's first or second order
\* by the tighter test; and a pass without a remark says there was no such
\* tone at all.  Nothing that was measured is lost on the way: tones too close
\* to be listed are counted, and no count and no tone of any stretch is
\* dropped when the stretches are combined.
THEOREM GateIsAlwaysComplete == Spec => []GateIsComplete
<1>1. Init => TonesInv
  <2>1. Init => PlanInv
    BY DEF Init, PlanInv, TilesWhenPlanned
  <2> QED  BY <2>1 DEF Init, TonesInv, MeasuredInv
<1>2. TonesInv => GateSeesEveryTone /\ UnremarkedMeansQuiet
  <2> SUFFICES ASSUME TonesInv, phase = "done", Gate.status = "permitted"
               PROVE  /\ \A x \in Axes : flight.source[x] \in UnfilteredSources
                      /\ \A i \in DOMAIN plan :
                            /\ Compared(flight, plan[i])
                            /\ \A t \in flight.tones : Loud(flight, plan[i], t) # {} =>
                                  /\ t.size <= CeilingMultiple * Level
                                  /\ Gate.observations # {}
                            /\ \A t \in flight.tones : Persists(flight, plan[i], t) =>
                                  LET m == BestHarmonicMatch(RpmSources(flight, plan[i]), t.hz)
                                  IN  m.rotor = "main" /\ m.order \in {1, 2} /\ m.offset <= m.allowed
    BY DEF GateSeesEveryTone, UnremarkedMeansQuiet, Compared
  <2>1. AllSound(flight, plan, results) /\ result = Delivered(flight, results)
    BY DEF TonesInv, MeasuredInv, PlanInv, TilesWhenPlanned, AllSound
  <2>2. Tells(flight, plan, result)
    BY <2>1, WindowConstants, DeliveredTells
  <2>3. \A i \in DOMAIN results : Hears(flight, plan[i], results[i])
    BY DEF TonesInv
  <2>4. HearsAll(flight, plan, result)
    BY <2>1, <2>3, DeliveredHears
  <2>5. flight \in Flights
    BY DEF TonesInv, MeasuredInv, PlanInv
  <2>6. Unfiltered(flight)
    <3>1. result.gate = "permitted" \/ RotorOrderToneAssessment(result).only
      BY NoCodesHear DEF Gate
    <3>2. CASE result.gate = "permitted"
      BY <2>2, <3>2 DEF Tells
    <3>3. CASE RotorOrderToneAssessment(result).only
      BY <2>2, <3>3, RuleNeedsUnfiltered DEF Tells
    <3> QED  BY <3>1, <3>2, <3>3
  <2>7. \A i \in DOMAIN plan : Compared(flight, plan[i])
    BY <2>2, NoCodesHear DEF Gate, Tells
  <2>8. ASSUME NEW i \in DOMAIN plan, NEW t \in flight.tones, Loud(flight, plan[i], t) # {}
        PROVE  /\ t.size <= CeilingMultiple * Level /\ Gate.observations # {}
               /\ Persists(flight, plan[i], t) =>
                     /\ IsMainRotorOrder(Heard(flight, plan[i], t))
                     /\ MatchEstablished(Heard(flight, plan[i], t))
    BY <2>2, <2>4, <2>5, <2>6, <2>8, WindowConstants, ToneIsJudged DEF Gate
  <2>9. ASSUME NEW i \in DOMAIN plan, NEW t \in flight.tones, Persists(flight, plan[i], t)
        PROVE  LET m == BestHarmonicMatch(RpmSources(flight, plan[i]), t.hz)
               IN  m.rotor = "main" /\ m.order \in {1, 2} /\ m.offset <= m.allowed
    <3>1. /\ Loud(flight, plan[i], t) # {}
          /\ Heard(flight, plan[i], t).match = BestHarmonicMatch(RpmSources(flight, plan[i]), t.hz)
      BY <2>5, <2>9, WindowConstants, LoudIsMeasured
    <3> QED  BY <2>8, <2>9, <3>1 DEF IsMainRotorOrder, MatchEstablished
  <2> QED  BY <2>6, <2>7, <2>8, <2>9 DEF Unfiltered
<1>3. TonesInv /\ PanelAgreesWithGate => GateIsComplete
  BY <1>2 DEF GateIsComplete
<1>4. Spec => []TonesInv
  BY <1>1, TonesStep, PTL DEF Spec
<1> QED  BY <1>3, <1>4, PanelAndGateAgree, PTL


----------------------------------------------------------------------------
(* From the gate to the page: what vibrates is neither tuned away nor       *)
(* passed over in an all-clear.                                             *)

\* No tone of the rotor that was heard is at the frequency an axis oscillates at.
NotTuned(f, p, given, x) ==
    \A k \in DOMAIN p, t \in f.tones :
        /\ t.axis = x
        /\ BestHarmonicMatch(RpmSources(f, p[k]), t.hz) # NoMatch
        /\ \/ Loud(f, p[k], t) # {}
           \/ Lasts(f, p[k], t) /\ StandsApart(f, t)
        => 100 * Gap(t.hz, given[x].hz) > Coincidence * given[x].hz
Quiet(f, p) ==
    \A i \in DOMAIN p : /\ \A t \in f.tones : Loud(f, p[i], t) = {}
                        /\ \A x \in Axes : ~Raised(f, p[i], x)

\* A tone that is listed and was above the level or lasts is one of the tones
\* coincidentTone compares.
LEMMA ListedIsATone ==
    ASSUME WindowConstants, flight \in Flights, Listens(flight, plan, result),
           NEW k \in DOMAIN plan, NEW t \in flight.tones, t.axis \in Axes,
           Loud(flight, plan[k], t) # {} \/ Lingers(flight, plan[k], t)
    PROVE  Heard(flight, plan[k], t) \in Tones(t.axis)
<1> DEFINE q == Heard(flight, plan[k], t)
<1>1. q \in result.axes[t.axis].peaks /\ t.axis \in DOMAIN result.axes /\ result.level = Level
  BY DEF Listens
<1>2. ReachedLevel(q, Level) \/ q.persists
  <2>1. CASE Loud(flight, plan[k], t) # {}
    <3>1. q.size = t.size /\ t.size # 0 /\ t.size >= Level
      BY <2>1, LoudIsMeasured
    <3> HIDE DEF q
    <3> QED  BY <3>1 DEF ReachedLevel
  <2>2. CASE Lingers(flight, plan[k], t)
    BY <2>2, LastingPersists DEF Lingers
  <2> QED  BY <2>1, <2>2
<1> HIDE DEF q
<1>3. q \in Tones(t.axis)
  BY <1>1, <1>2 DEF Tones
<1> QED  BY <1>3 DEF q

LEMMA NotCoincident ==
    ASSUME WindowConstants, flight \in Flights, Listens(flight, plan, result),
           NEW x \in Axes, axes[x].hz \in Nat, ~Coincident(x)
    PROVE  NotTuned(flight, plan, axes, x)
<1> DEFINE hz == axes[x].hz
<1> SUFFICES ASSUME NEW k \in DOMAIN plan, NEW t \in flight.tones, t.axis = x,
                    BestHarmonicMatch(RpmSources(flight, plan[k]), t.hz) # NoMatch,
                    \/ Loud(flight, plan[k], t) # {}
                    \/ Lasts(flight, plan[k], t) /\ StandsApart(flight, t)
             PROVE  100 * Gap(t.hz, hz) > Coincidence * hz
  BY DEF NotTuned
<1> DEFINE q == Heard(flight, plan[k], t)
<1>1. q \in Tones(x)
  BY ListedIsATone DEF Lingers
<1>2. q.match = BestHarmonicMatch(RpmSources(flight, plan[k]), t.hz) /\ q.hz = t.hz
  BY MeasuredTone DEF Heard
<1>3. t.hz \in Nat /\ t.hz # 0 /\ hz \in Nat
  BY TonesOfFlight
<1>4. Gap(t.hz, hz) \in Nat /\ (hz = 0 => Gap(t.hz, hz) = t.hz)
  BY <1>3 DEF Gap
<1>5. CASE hz = 0
  BY <1>3, <1>4, <1>5 DEF Coincidence
<1>6. CASE hz # 0
  <2>1. q.match # NoMatch
    BY <1>2
  <2> HIDE DEF q
  <2>2. hz > 0
    BY <1>3, <1>6
  <2>3. ~(100 * Gap(q.hz, hz) <= Max({100 * Resolution, Coincidence * hz}))
    BY <1>1, <2>1, <2>2 DEF Coincident
  <2>4. 100 * Resolution \in Nat /\ Coincidence * hz \in Nat
    BY <1>3 DEF WindowConstants, Coincidence
  <2>5. /\ Max({100 * Resolution, Coincidence * hz}) \in Nat
        /\ Coincidence * hz <= Max({100 * Resolution, Coincidence * hz})
    BY <2>4, LaterOfTwo
  <2>6. ~(100 * Gap(t.hz, hz) <= Max({100 * Resolution, Coincidence * hz}))
    BY <1>2, <2>3
  <2> DEFINE most == Max({100 * Resolution, Coincidence * hz})
             least == Coincidence * hz
             gap == Gap(t.hz, hz)
  <2>7. most \in Nat /\ least \in Nat /\ gap \in Nat /\ least <= most /\ ~(100 * gap <= most)
    BY <1>4, <2>4, <2>5, <2>6
  <2> HIDE DEF most, least, gap
  <2>8. 100 * gap > least
    BY <2>7
  <2> QED  BY <2>8 DEF least, gap
<1> QED  BY <1>5, <1>6

\* What a finding may say: P and D are lowered only for what is not a tone of
\* the rotor, and the all-clear is given only to what was quiet.
Tuning == {"P_TOO_HIGH", "D_TOO_HIGH"}
Heeded(g, f, p, given) ==
    /\ g.id \in Tuning => NotTuned(f, p, given, g.axis)
    /\ g.id = "AIRFRAME_CLEAR" => Quiet(f, p)
Heeds(s, f, p, given) == \E S : s \in Seq(S) /\ \A g \in S : Heeded(g, f, p, given)

LEMMA HeedsOf ==
    ASSUME NEW f, NEW p, NEW given, NEW S, NEW s \in Seq(S), \A g \in S : Heeded(g, f, p, given)
    PROVE  Heeds(s, f, p, given)
BY Zenon DEF Heeds

LEMMA HeedsIn ==
    ASSUME NEW f, NEW p, NEW given, NEW s, Heeds(s, f, p, given)
    PROVE  \A i \in DOMAIN s : Heeded(s[i], f, p, given)
<1>1. PICK S : s \in Seq(S) /\ \A g \in S : Heeded(g, f, p, given)
  BY DEF Heeds
<1> QED  BY <1>1, ElementOfSeq, LenProperties

LEMMA NothingHeeds ==
    ASSUME NEW f, NEW p, NEW given
    PROVE  Heeds(<<>>, f, p, given)
<1>1. PICK S : S = {}
  OBVIOUS
<1>2. <<>> \in Seq(S) /\ \A g \in S : Heeded(g, f, p, given)
  BY <1>1
<1> QED  BY <1>2, HeedsOf

LEMMA OneHeeds ==
    ASSUME NEW f, NEW p, NEW given, NEW g, Heeded(g, f, p, given)
    PROVE  Heeds(<<g>>, f, p, given)
<1>1. PICK S : S = {g}
  OBVIOUS
<1>2. <<g>> \in Seq(S) /\ \A h \in S : Heeded(h, f, p, given)
  BY <1>1
<1> QED  BY <1>2, HeedsOf

LEMMA BothHeed ==
    ASSUME NEW f, NEW p, NEW given, NEW s, NEW t, Heeds(s, f, p, given), Heeds(t, f, p, given)
    PROVE  Heeds(s \o t, f, p, given)
<1>1. PICK S : s \in Seq(S) /\ \A g \in S : Heeded(g, f, p, given)
  BY DEF Heeds
<1>2. PICK T : t \in Seq(T) /\ \A g \in T : Heeded(g, f, p, given)
  BY DEF Heeds
<1>3. s \in Seq(S \cup T) /\ t \in Seq(S \cup T)
  BY <1>1, <1>2, SeqMonotonic
<1>4. \A g \in S \cup T : Heeded(g, f, p, given)
  BY <1>1, <1>2
<1> QED  BY <1>3, <1>4, ConcatProperties, HeedsOf

LEMMA IfHeeds ==
    ASSUME NEW f, NEW p, NEW given, NEW c, NEW s, c => Heeds(s, f, p, given)
    PROVE  Heeds(If(c, s), f, p, given)
BY NothingHeeds DEF If

\* Only a permitted airframe with no rotor's tone and no tone below the level is
\* called clear.
LEMMA AirframeHeeds ==
    ASSUME NEW f, NEW p, NEW given, NEW v,
           v.codes = {} /\ ~RotorOrderToneAssessment(result).only /\ ~(\E q \in AllTones : ~q.eligible)
              => Quiet(f, p)
    PROVE  Heeds(AirframeFindings(v), f, p, given)
<1> DEFINE Fine(s) == Heeds(s, f, p, given)
           plain == {"AIRFRAME_VIBRATION_PRESENT", "AIRFRAME_BROADBAND_NOT_MEASURED",
                     "AIRFRAME_ROTOR_NOT_COMPARED", "AIRFRAME_RANGE_EXCLUDES_EVENTS",
                     "AIRFRAME_RANGE_EXCLUDES_HOLDS", "AIRFRAME_ROTOR_ORDER_TONE_LARGE",
                     "AIRFRAME_BROADBAND_ELEVATED", "AIRFRAME_UNFILTERED_GYRO_MISSING",
                     "AIRFRAME_ROTOR_ORDER_TONE", "AIRFRAME_TONE_BELOW_ATTENTION",
                     "AIRFRAME_TONE_ABOVE_LEVEL_IN_PART"}
<1>1. \A id \in plain : \A kind : Fine(AirframeSays(id, kind))
  <2> TAKE id \in plain
  <2> TAKE kind
  <2>1. Heeded(Finding(id, "airframe", NoAxis, kind), f, p, given)
    BY DEF Heeded, Finding, Tuning
  <2> QED  BY <2>1, OneHeeds DEF AirframeSays
<1>2. \A id \in plain : \A kind, c : Fine(If(c, AirframeSays(id, kind)))
  BY <1>1, IfHeeds
<1>3. \A s, t : Fine(s) /\ Fine(t) => Fine(s \o t)
  BY BothHeed
<1> HIDE DEF Fine
<1>4. CASE v.codes = {}
  <2> DEFINE clear == AirframeSays("AIRFRAME_CLEAR", "observation")
  <2>1. Quiet(f, p) => Fine(clear)
    <3>1. Quiet(f, p) => Heeded(Finding("AIRFRAME_CLEAR", "airframe", NoAxis, "observation"), f, p, given)
      BY DEF Heeded, Finding, Tuning
    <3> QED  BY <3>1, OneHeeds DEF AirframeSays, Fine
  <2>2. \A kind : /\ Fine(AirframeSays("AIRFRAME_ROTOR_ORDER_TONE", kind))
                  /\ Fine(AirframeSays("AIRFRAME_TONE_BELOW_ATTENTION", kind))
                  /\ \A c : Fine(If(c, AirframeSays("AIRFRAME_TONE_ABOVE_LEVEL_IN_PART", kind)))
    BY <1>1, <1>2
  <2> HIDE DEF clear
  <2>3. AirframeFindings(v) = PermittedFindings(v.upstream)
    BY <1>4 DEF AirframeFindings
  <2>4. Fine(PermittedFindings(v.upstream))
    BY <1>3, <1>4, <2>1, <2>2 DEF PermittedFindings, clear
  <2> QED  BY <2>3, <2>4 DEF Fine
<1>5. CASE v.codes # {}
  <2>1. \A c : /\ Fine(Card("AIRFRAME_VIBRATION_PRESENT", c))
               /\ Fine(Card("AIRFRAME_BROADBAND_NOT_MEASURED", c))
               /\ Fine(Card("AIRFRAME_ROTOR_NOT_COMPARED", c))
               /\ Fine(Card("AIRFRAME_RANGE_EXCLUDES_EVENTS", c))
               /\ Fine(Card("AIRFRAME_RANGE_EXCLUDES_HOLDS", c))
               /\ Fine(Card("AIRFRAME_ROTOR_ORDER_TONE_LARGE", c))
               /\ Fine(Card("AIRFRAME_BROADBAND_ELEVATED", c))
               /\ Fine(Card("AIRFRAME_UNFILTERED_GYRO_MISSING", c))
    BY <1>2 DEF Card
  <2>2. /\ Fine(VibrationFindings(v.upstream, v.codes))
        /\ Fine(RangeFindings(v.codes))
    BY <1>3, <2>1 DEF VibrationFindings, RangeFindings
  <2>3. Fine(BlockedFindings(v.upstream, v.codes))
    BY <1>3, <2>1, <2>2 DEF BlockedFindings
  <2> QED  BY <1>5, <2>3 DEF AirframeFindings, Fine
<1> QED  BY <1>4, <1>5

\* The governor's findings are of neither kind.
LEMMA HeadspeedHeeds ==
    ASSUME NEW f, NEW p, NEW given
    PROVE  Heeds(HeadspeedFindings, f, p, given)
<1> DEFINE Fine(s) == Heeds(s, f, p, given)
           plain == {"HEADSPEED_MOVED_DURING_STEADY_FLIGHT", "HEADSPEED_TOO_FEW_SEGMENTS_TO_JUDGE",
                     "HEADSPEED_MOVED_IN_SOME_SEGMENTS",
                     "HEADSPEED_MOVED_WHERE_A_HOLD_WAS_STILL_MEASURED", "HEADSPEED_STEADY_ENOUGH",
                     "HEADSPEED_NOT_MEASURED", "HEADSPEED_READING_DROPPED_OUT"}
<1>1. \A id \in plain : \A kind : Fine(HeadSays(id, kind))
  <2> TAKE id \in plain
  <2> TAKE kind
  <2>1. Heeded(Finding(id, "headspeed", NoAxis, kind), f, p, given)
    BY DEF Heeded, Finding, Tuning
  <2> QED  BY <2>1, OneHeeds DEF HeadSays
<1>2. \A s, t : Fine(s) /\ Fine(t) => Fine(s \o t)
  BY BothHeed
<1>3. \A c, s : (c => Fine(s)) => Fine(If(c, s))
  BY IfHeeds
<1> HIDE DEF Fine
<1>4. \A kind : /\ Fine(HeadSays("HEADSPEED_MOVED_DURING_STEADY_FLIGHT", kind))
                /\ Fine(HeadSays("HEADSPEED_TOO_FEW_SEGMENTS_TO_JUDGE", kind))
                /\ Fine(HeadSays("HEADSPEED_MOVED_IN_SOME_SEGMENTS", kind))
                /\ Fine(HeadSays("HEADSPEED_MOVED_WHERE_A_HOLD_WAS_STILL_MEASURED", kind))
                /\ Fine(HeadSays("HEADSPEED_STEADY_ENOUGH", kind))
                /\ Fine(HeadSays("HEADSPEED_NOT_MEASURED", kind))
                /\ Fine(HeadSays("HEADSPEED_READING_DROPPED_OUT", kind))
  BY <1>1
<1>5. ASSUME NEW segments, NEW codes
      PROVE  Fine(HeadspeedSays(segments, codes))
  <2>1. Fine(HeadspeedVerdict(segments, codes))
    BY <1>4 DEF HeadspeedVerdict
  <2> QED  BY <1>2, <1>3, <1>4, <2>1 DEF HeadspeedSays
<1> QED  BY <1>5 DEF HeadspeedFindings, With, Fine

\* A change of P or D for an oscillation is made when no tone of the rotor is
\* at its frequency; the other findings of an axis are of neither kind.
LEMMA ShapeHeeds ==
    ASSUME NEW f, NEW p, NEW x, ~Coincident(x) => NotTuned(f, p, axes, x)
    PROVE  Heeded(ShapeFinding(x), f, p, axes)
<1>1. \A id, rung, kind : id \notin Tuning \cup {"AIRFRAME_CLEAR"}
                            => Heeded(Finding(id, rung, x, kind), f, p, axes)
  BY DEF Heeded, Finding
<1>2. \A id \in Tuning : \A rung, kind : ~Coincident(x) => Heeded(Finding(id, rung, x, kind), f, p, axes)
  BY DEF Heeded, Finding, Tuning
<1>3. \A rung, kind :
         /\ Heeded(Finding("P_TOO_LOW", rung, x, kind), f, p, axes)
         /\ Heeded(Finding("AXIS_DOES_NOT_ARREST", rung, x, kind), f, p, axes)
         /\ Heeded(Finding("STOPS_SETTLE_CLEANLY", rung, x, kind), f, p, axes)
         /\ Heeded(Finding("RINGING_BELOW_NOISE_FLOOR", rung, x, kind), f, p, axes)
         /\ Heeded(Finding("OSCILLATION_MATCHES_AIRFRAME_TONE", rung, x, kind), f, p, axes)
         /\ Heeded(Finding("RINGING_SOURCE_UNKNOWN", rung, x, kind), f, p, axes)
         /\ Heeded(Finding("SLOW_OSCILLATION_AFTER_RELEASE", rung, x, kind), f, p, axes)
         /\ Heeded(Finding("OVERSHOOT_CANDIDATES_UNSEPARATED", rung, x, kind), f, p, axes)
  BY <1>1 DEF Tuning
<1>4. \A rung, kind : ~Coincident(x) =>
         /\ Heeded(Finding("P_TOO_HIGH", rung, x, kind), f, p, axes)
         /\ Heeded(Finding("D_TOO_HIGH", rung, x, kind), f, p, axes)
  BY <1>2 DEF Tuning
<1>5. Heeded(NotStopped(x), f, p, axes)
  BY <1>3 DEF NotStopped
<1>6. Heeded(Overshoot(x), f, p, axes)
  BY <1>3, <1>4 DEF Overshoot, ToneFinding
<1>7. Heeded(Ringing(x), f, p, axes)
  BY <1>3, <1>4 DEF Ringing, ToneFinding
<1> QED  BY <1>3, <1>5, <1>6, <1>7 DEF ShapeFinding

LEMMA AxisHeeds ==
    ASSUME NEW f, NEW p, NEW x, airframe = "permitted" /\ ~Coincident(x) => NotTuned(f, p, axes, x)
    PROVE  Heeds(AxisFindings(x), f, p, axes)
<1> DEFINE Fine(s) == Heeds(s, f, p, axes)
           plain == {"SUSPECTED_MECHANICAL_BIND", "NO_HOLD_EVIDENCE", "HOLD_EVIDENCE_PROVISIONAL",
                     "I_TERM_NOT_JUDGED", "DIRECTIONAL_ASYMMETRY_MECHANICAL",
                     "STOP_SHAPE_PROVISIONAL", "STOP_EVIDENCE_INCOMPLETE"}
                    \cup HoldUnclear \cup DOMAIN HoldReadings
<1>1. \A id \in plain : \A rung, kind : Fine(<<Finding(id, rung, x, kind)>>)
  <2> TAKE id \in plain
  <2> TAKE rung, kind
  <2>1. Heeded(Finding(id, rung, x, kind), f, p, axes)
    BY DEF Heeded, Finding, Tuning, HoldUnclear, HoldReadings
  <2> QED  BY <2>1, OneHeeds
<1>2. \A s, t : Fine(s) /\ Fine(t) => Fine(s \o t)
  BY BothHeed
<1>3. \A c, s : (c => Fine(s)) => Fine(If(c, s))
  BY IfHeeds
<1>4. Fine(<<>>)
  BY NothingHeeds
<1>5. \A c : Fine(If(Speaks(x) /\ c, <<ShapeFinding(x)>>))
  <2>1. Speaks(x) => airframe = "permitted"
    BY DEF Speaks, CoreGates
  <2>2. Speaks(x) => Heeded(ShapeFinding(x), f, p, axes)
    BY <2>1, ShapeHeeds
  <2>3. Speaks(x) => Fine(<<ShapeFinding(x)>>)
    BY <2>2, OneHeeds
  <2> HIDE DEF Fine
  <2> QED  BY <1>3, <2>3
<1> HIDE DEF Fine
<1>6. \A rung, kind :
         /\ \A id \in HoldUnclear \cup DOMAIN HoldReadings : Fine(<<Finding(id, rung, x, kind)>>)
         /\ Fine(<<Finding("SUSPECTED_MECHANICAL_BIND", rung, x, kind)>>)
         /\ Fine(<<Finding("NO_HOLD_EVIDENCE", rung, x, kind)>>)
         /\ Fine(<<Finding("HOLD_EVIDENCE_PROVISIONAL", rung, x, kind)>>)
         /\ Fine(<<Finding("I_TERM_NOT_JUDGED", rung, x, kind)>>)
         /\ \A c : /\ Fine(If(c, <<Finding("DIRECTIONAL_ASYMMETRY_MECHANICAL", rung, x, kind)>>))
                   /\ Fine(If(c, <<Finding("STOP_SHAPE_PROVISIONAL", rung, x, kind)>>))
                   /\ Fine(If(c, <<Finding("STOP_EVIDENCE_INCOMPLETE", rung, x, kind)>>))
  BY <1>1, <1>3
<1>7. Fine(HoldFindings(x))
  BY <1>4, <1>6 DEF HoldFindings
<1>8. Fine(AxisFindings(x))
  BY <1>2, <1>5, <1>6, <1>7 DEF AxisFindings
<1> QED  BY <1>8 DEF Fine

\* A pass listens to every tone that was heard, and one that persisted passes
\* only by the exception for the rotor's.
LEMMA PassListens ==
    ASSUME TrustInv, TonesInv, stage = "airframe", AssessAirframe.codes = {}
    PROVE  /\ flight \in Flights /\ Listens(flight, plan, result)
           /\ \A i \in DOMAIN plan, t \in flight.tones :
                 Heard(flight, plan[i], t).eligible => RotorOrderToneAssessment(result).only
<1> DEFINE stops == EventTimes(axes)
           holds == HoldTimes(flight, axes)
<1>1. phase = "done" /\ MeasuredInv
  BY DEF TrustInv
<1>2. flight \in Flights /\ AllSound(flight, plan, results) /\ result = Delivered(flight, results)
  BY <1>1 DEF MeasuredInv, PlanInv, TilesWhenPlanned, AllSound
<1>3. \A i \in DOMAIN results : Hears(flight, plan[i], results[i])
  BY <1>1 DEF TonesInv
<1>4. Tells(flight, plan, result)
  BY <1>2, WindowConstants, DeliveredTells
<1>5. HearsAll(flight, plan, result)
  BY <1>2, <1>3, DeliveredHears
<1>6. EvaluateAirframeGate(result, stops, holds).codes = {}
  BY AssessedAirframe
<1>7. EvaluateAirframeGate(result, stops, holds).status = "permitted"
  BY <1>6 DEF EvaluateAirframeGate
<1> HIDE DEF stops, holds
<1> QED  BY <1>2, <1>4, <1>5, <1>7, WindowConstants, TonesAreListed

\* What is called clear was quiet: a tone that was heard would be in the list.
LEMMA ClearIsQuiet ==
    ASSUME TrustInv, TonesInv, stage = "airframe", AssessAirframe.codes = {},
           ~RotorOrderToneAssessment(result).only, ~(\E q \in AllTones : ~q.eligible)
    PROVE  Quiet(flight, plan)
<1>1. /\ flight \in Flights /\ Listens(flight, plan, result)
      /\ \A i \in DOMAIN plan, t \in flight.tones : ~Heard(flight, plan[i], t).eligible
  BY PassListens
<1>2. \A i \in DOMAIN plan, x \in Axes : ~Raised(flight, plan[i], x)
  BY VerdictPermits DEF Permit
<1>3. ASSUME NEW i \in DOMAIN plan, NEW t \in flight.tones
      PROVE  Loud(flight, plan[i], t) = {}
  <2>1. t.axis \in Axes
    BY <1>1, WindowConstants, TonesOfFlight
  <2>2. Loud(flight, plan[i], t) # {} => Heard(flight, plan[i], t) \in Tones(t.axis)
    BY <1>1, <2>1, WindowConstants, ListedIsATone
  <2>3. Heard(flight, plan[i], t) \in Tones(t.axis) => Heard(flight, plan[i], t) \in AllTones
    BY <1>1, <2>1 DEF AllTones, Listens
  <2> QED  BY <1>1, <2>2, <2>3
<1> QED  BY <1>2, <1>3 DEF Quiet

\* From the measurement on, what was heard is known to the advice, and no
\* finding made goes against it.
HeedInv ==
    /\ TrustInv /\ TonesInv
    /\ stage # "measuring" => axes \in Materials
    /\ airframe = "permitted" => flight \in Flights /\ Listens(flight, plan, result)
    /\ Heeds(found, flight, plan, axes)

LEMMA HeedStep ==
    ASSUME HeedInv, IInv, [AdviceNext]_allVars
    PROVE  HeedInv'
<1>1. [Next]_vars
  BY DEF AdviceNext, MeasureVibration, Advise, Collect, JudgeAirframe, JudgeHeadspeed, JudgeAxis,
         SkipAxis, Tell, NoMore, Next, allVars, vars
<1>2. TrustInv' /\ TonesInv'
  BY <1>1, TrustStep, TonesStep DEF HeedInv
<1>3. CASE MeasureVibration
  <2>1. phase # "done"
    BY <1>3 DEF MeasureVibration, Step, Abandon, RefuseRange, Plan, Measure, Deliver, Escalate
  <2>2. stage = "measuring" /\ airframe = "" /\ found = <<>>
    BY <2>1 DEF HeedInv, TrustInv, IInv
  <2>3. Heeds(found', flight', plan', axes')
    <3>1. found' = <<>>
      BY <1>3, <2>2 DEF MeasureVibration, adviceVars
    <3> QED  BY <3>1, NothingHeeds
  <2>4. stage' = "measuring" /\ airframe' = ""
    BY <1>3, <2>2 DEF MeasureVibration, adviceVars
  <2> QED  BY <1>2, <2>3, <2>4 DEF HeedInv
<1>4. CASE Collect
  <2>1. axes' \in Materials /\ stage = "measuring" /\ airframe' = airframe /\ found' = found
    BY <1>4 DEF Collect
  <2>2. airframe = "" /\ found = <<>>
    BY <2>1 DEF HeedInv, TrustInv, IInv
  <2>3. Heeds(found', flight', plan', axes')
    BY <2>1, <2>2, NothingHeeds
  <2> QED  BY <1>2, <2>1, <2>2, <2>3 DEF HeedInv
<1>5. CASE JudgeAirframe
  <2> DEFINE v == AssessAirframe
  <2>1. /\ airframe' = IF v.codes = {} THEN "permitted" ELSE "blocked"
        /\ found' = found \o AirframeFindings(v)
        /\ stage = "airframe" /\ stage' = "headspeed"
        /\ axes' = axes /\ flight' = flight /\ plan' = plan /\ result' = result
    BY <1>5 DEF JudgeAirframe, vars
  <2>2. v.codes = {} => flight \in Flights /\ Listens(flight, plan, result)
    BY <2>1, PassListens DEF HeedInv
  <2>3. /\ v.codes = {} /\ ~RotorOrderToneAssessment(result).only
        /\ ~(\E q \in AllTones : ~q.eligible)
        => Quiet(flight, plan)
    BY <2>1, ClearIsQuiet DEF HeedInv
  <2> HIDE DEF v
  <2>4. Heeds(AirframeFindings(v), flight, plan, axes)
    BY <2>3, AirframeHeeds
  <2>5. Heeds(found \o AirframeFindings(v), flight, plan, axes)
    BY <2>4, BothHeed DEF HeedInv
  <2>6. airframe' = "permitted" => flight' \in Flights /\ Listens(flight', plan', result')
    BY <2>1, <2>2
  <2>7. stage' # "measuring" => axes' \in Materials
    BY <2>1 DEF HeedInv
  <2> QED  BY <1>2, <2>1, <2>5, <2>6, <2>7 DEF HeedInv
<1>6. ASSUME NEW more, Heeds(more, flight, plan, axes), found' = found \o more,
             stage # "measuring", UNCHANGED <<vars, axes, airframe>>
      PROVE  HeedInv'
  <2>1. Heeds(found', flight, plan, axes)
    BY <1>6, BothHeed DEF HeedInv
  <2>2. /\ flight' = flight /\ plan' = plan /\ result' = result /\ axes' = axes
        /\ airframe' = airframe
    BY <1>6 DEF vars
  <2>3. axes' \in Materials
    BY <1>6, <2>2 DEF HeedInv
  <2>4. airframe' = "permitted" => flight' \in Flights /\ Listens(flight', plan', result')
    BY <2>2 DEF HeedInv
  <2> QED  BY <1>2, <2>1, <2>2, <2>3, <2>4 DEF HeedInv
<1>7. CASE JudgeHeadspeed
  <2>1. stage # "measuring" /\ found' = found \o HeadspeedFindings /\ UNCHANGED <<vars, axes, airframe>>
    BY <1>7 DEF JudgeHeadspeed
  <2> QED  BY <1>6, <2>1, HeadspeedHeeds
<1>8. CASE JudgeAxis
  <2> DEFINE x == AxisOrder[turn]
  <2>1. /\ stage # "measuring" /\ found' = found \o AxisFindings(x)
        /\ UNCHANGED <<vars, axes, airframe>> /\ x \in DOMAIN axes
    BY <1>8 DEF JudgeAxis
  <2>2. axes \in Materials
    BY <2>1 DEF HeedInv
  <2>3. x \in Axes /\ axes[x].hz \in Nat
    <3> HIDE DEF x
    <3> QED  BY <2>1, <2>2, AdviceConstants DEF AdviceConstants
  <2> HIDE DEF x
  <2>4. airframe = "permitted" /\ ~Coincident(x) => NotTuned(flight, plan, axes, x)
    BY <2>3, WindowConstants, NotCoincident DEF HeedInv
  <2>5. Heeds(AxisFindings(x), flight, plan, axes)
    BY <2>4, AxisHeeds
  <2> QED  BY <1>6, <2>1, <2>5
<1>9. CASE SkipAxis \/ Tell \/ NoMore \/ UNCHANGED allVars
  <2>1. /\ found' = found /\ axes' = axes /\ airframe' = airframe
        /\ flight' = flight /\ plan' = plan /\ result' = result
    BY <1>9 DEF SkipAxis, Tell, NoMore, allVars, adviceVars, vars
  <2>2. stage' = stage \/ stage # "measuring"
    BY <1>9 DEF SkipAxis, Tell, NoMore, allVars, adviceVars
  <2> QED  BY <1>2, <2>1, <2>2 DEF HeedInv
<1> QED  BY <1>3, <1>4, <1>5, <1>7, <1>8, <1>9 DEF AdviceNext, Advise

\* What vibrates is neither tuned away nor passed over: on whatever flight and
\* with whatever the axes gave, P or D is never lowered for an oscillation at
\* the frequency of a tone of the rotor that was above the level in one window
\* of one stretch, or lasted below it where the list has room (coincidentTone),
\* and AIRFRAME_CLEAR is never said of a flight in which a tone was above the
\* level for as much as one window or an axis noisy in a stretch.
THEOREM VibrationIsAlwaysHeeded == AdviceSpec => []VibrationIsHeeded
<1>1. AdviceInit => HeedInv
  <2>1. AdviceInit => TrustInv /\ stage = "measuring" /\ airframe = "" /\ found = <<>> /\ phase = "plan"
    BY TrustAtFirst DEF AdviceInit, Init
  <2> QED  BY <2>1, NothingHeeds DEF HeedInv, TonesInv, TrustInv
<1>2. HeedInv => VibrationIsHeeded
  <2> SUFFICES ASSUME HeedInv
               PROVE  RotorIsNotTuned /\ ClearIsClear
    BY DEF VibrationIsHeeded
  <2>1. \A i \in DOMAIN found : Heeded(found[i], flight, plan, axes)
    BY HeedsIn DEF HeedInv
  <2>2. ASSUME NEW i \in Changes, found[i].id \in {"P_TOO_HIGH", "D_TOO_HIGH"},
               NEW k \in DOMAIN plan, NEW t \in flight.tones, t.axis = found[i].axis,
               BestHarmonicMatch(RpmSources(flight, plan[k]), t.hz) # NoMatch,
               \/ Loud(flight, plan[k], t) # {}
               \/ Lasts(flight, plan[k], t) /\ StandsApart(flight, t)
        PROVE  100 * Gap(t.hz, axes[t.axis].hz) > Coincidence * axes[t.axis].hz
    <3>1. NotTuned(flight, plan, axes, found[i].axis)
      BY <2>1, <2>2 DEF Changes, Heeded, Tuning
    <3> QED  BY <2>2, <3>1 DEF NotTuned
  <2>3. RotorIsNotTuned
    BY <2>2 DEF RotorIsNotTuned
  <2>4. ClearIsClear
    BY <2>1 DEF ClearIsClear, Says, Heeded, Quiet
  <2> QED  BY <2>3, <2>4
<1> QED  BY <1>1, <1>2, HeedStep, IInvHolds, PTL DEF AdviceSpec

-----------------------------------------------------------------------------
(* The holds of a flight and what they say of the I term.  HoldEvidence is   *)
(* an instance here, over parameters of its own.                            *)

CONSTANTS HoldFlights, HoldNaN, HoldSettle, MinMeasure, HoldGap, MaxHolds, Filters, Ripples,
          BandLow, BandTop, DriftLimit, MinWinding, MinTermSamples
VARIABLES flownHold, atHold, start, segments, looked, holds, refusedHold, readings, adviceHold

Holds == INSTANCE HoldEvidence
    WITH Flights <- HoldFlights, NaN <- HoldNaN, Settle <- HoldSettle, MaxGap <- HoldGap,
         flight <- flownHold, at <- atHold, refused <- refusedHold, advice <- adviceHold

\* What HoldEvidence assumes of its parameters: the limits are in proportion, the
\* records keep their contract, and the sweep tries what is shipped.
HoldContract == Holds!HoldConstants /\ Holds!RecordContract /\ Holds!SweepConstants

\* A sum is that of one step after another.
LEMMA SumSteps ==
    ASSUME NEW v \in Seq(Int)
    PROVE  \E g \in [0 .. Len(v) -> Int] :
              /\ g[0] = 0 /\ \A n \in 1 .. Len(v) : g[n] = g[n - 1] + v[n]
              /\ Holds!SumOf(v) = g[Len(v)]
<1> DEFINE L == Len(v)
           step == [n \in 1 .. L |-> [m \in Int |-> m + v[n]]]
           runs(f) == [n \in 0 .. L |-> IF n = 0 THEN 0 ELSE f[n - 1] + v[n]]
           g == CHOOSE f : f = runs(f)
<1>1. L \in Nat /\ \A n \in 1 .. L : v[n] \in Int
  OBVIOUS
<1>2. Holds!SumOf(v) = g[L]
  BY DEF Holds!SumOf
<1> HIDE DEF L
<1>3. \A n \in 1 .. L : \A m \in Int : step[n][m] = m + v[n]
  OBVIOUS
<1>4. step \in [1 .. L -> [Int -> Int]]
  BY <1>1
<1> HIDE DEF step
<1>5. PICK f \in [0 .. L -> Int] : f[0] = 0 /\ \A n \in 1 .. L : f[n] = step[n][f[n - 1]]
  <2> DEFINE X == Int
  <2>1. 0 \in X /\ step \in [1 .. L -> [X -> X]]
    BY <1>4
  <2> HIDE DEF X
  <2>2. \E f \in [0 .. L -> X] : IsRun(f, L, 0, step)
    BY <1>1, <2>1, Recursion
  <2> QED  BY <2>2 DEF X, IsRun
<1>6. \A n \in 1 .. L : f[n] = f[n - 1] + v[n]
  <2>1. \A n \in 1 .. L : n - 1 \in 0 .. L
    BY <1>1
  <2> QED  BY <1>3, <1>5, <2>1
<1>7. f = runs(f)
  <2>1. \A n \in 0 .. L : n = 0 \/ n \in 1 .. L
    BY <1>1
  <2>2. \A n \in 0 .. L : f[n] = IF n = 0 THEN 0 ELSE f[n - 1] + v[n]
    BY <1>5, <1>6, <2>1
  <2> QED  BY <1>5, <2>2
<1>8. g = runs(g)
  <2> HIDE DEF runs
  <2> QED  BY <1>7
<1> HIDE DEF g
<1>9. g \in [0 .. L -> Int] /\ g[0] = 0 /\ \A n \in 1 .. L : g[n] = g[n - 1] + v[n]
  <2>1. g[0] = 0 /\ \A n \in 1 .. L : g[n] = g[n - 1] + v[n]
    <3>1. \A n \in 0 .. L : g[n] = IF n = 0 THEN 0 ELSE g[n - 1] + v[n]
      BY <1>8
    <3> QED  BY <1>1, <3>1
  <2> DEFINE odd == {n \in 0 .. L : g[n] \notin Int}
  <2>2. odd = {}
    <3>1. SUFFICES ASSUME odd # {} PROVE FALSE
      OBVIOUS
    <3>2. PICK n \in odd : \A k \in odd : n <= k
      <4>1. odd \subseteq Nat
        OBVIOUS
      <4> HIDE DEF odd
      <4> QED  BY <3>1, <4>1, SmallestOfSet
    <3>3. n \in 1 .. L /\ n - 1 \in 0 .. L /\ ~(n <= n - 1)
      BY <1>1, <2>1
    <3>4. g[n - 1] \in Int /\ v[n] \in Int
      BY <1>1, <3>2, <3>3
    <3> QED  BY <2>1, <3>3, <3>4
  <2>3. DOMAIN g = 0 .. L /\ g = [n \in 0 .. L |-> g[n]]
    BY <1>8
  <2> QED  BY <2>1, <2>2, <2>3
<1> QED  BY <1>2, <1>9 DEF L

\* A sum of whole numbers is one.
LEMMA SumIsWhole ==
    ASSUME NEW v \in Seq(Int)
    PROVE  Holds!SumOf(v) \in Int
<1>1. Len(v) \in 0 .. Len(v)
  OBVIOUS
<1> QED  BY <1>1, SumSteps

\* A sum of what is never below nothing is above it when a part is.
LEMMA SumIsPositive ==
    ASSUME NEW v \in Seq(Nat), NEW one \in DOMAIN v, v[one] > 0
    PROVE  Holds!SumOf(v) \in Nat \ {0}
<1>1. v \in Seq(Int) /\ Len(v) \in Nat /\ one \in 1 .. Len(v) /\ \A n \in 1 .. Len(v) : v[n] \in Nat
  OBVIOUS
<1>2. PICK g \in [0 .. Len(v) -> Int] :
              /\ g[0] = 0 /\ \A n \in 1 .. Len(v) : g[n] = g[n - 1] + v[n]
              /\ Holds!SumOf(v) = g[Len(v)]
  BY <1>1, SumSteps
<1> DEFINE L == Len(v)
           Good(n) == g[n] >= 0 /\ (one <= n => g[n] > 0)
           odd == {n \in 0 .. L : ~Good(n)}
<1>3. L \in Nat /\ one \in 1 .. L /\ g[0] = 0 /\ (\A n \in 1 .. L : g[n] = g[n - 1] + v[n] /\ v[n] \in Nat)
      /\ g \in [0 .. L -> Int]
  BY <1>1, <1>2
<1> HIDE DEF L
<1>4. odd = {}
  <2>1. SUFFICES ASSUME odd # {} PROVE FALSE
    OBVIOUS
  <2>2. PICK n \in odd : \A k \in odd : n <= k
    <3>1. odd \subseteq Nat
      OBVIOUS
    <3> HIDE DEF odd
    <3> QED  BY <2>1, <3>1, SmallestOfSet
  <2>3. n \in 0 .. L /\ ~Good(n)
    OBVIOUS
  <2>4. n # 0
    <3>1. g[0] = 0 /\ ~(one <= 0)
      BY <1>3
    <3>2. Good(0)
      BY <3>1
    <3> QED  BY <2>3, <3>2
  <2>5. n \in 1 .. L /\ n - 1 \in 0 .. L /\ ~(n <= n - 1)
    BY <1>3, <2>3, <2>4
  <2>6. Good(n - 1)
    BY <2>2, <2>5
  <2>7. g[n] = g[n - 1] + v[n] /\ g[n - 1] \in Int /\ v[n] \in Nat /\ g[n] \in Int
    BY <1>3, <2>5
  <2>8. CASE n = one
    <3>1. g[n - 1] >= 0 /\ v[n] > 0
      BY <2>6, <2>8
    <3>2. g[n] > 0 /\ g[n] >= 0
      BY <2>7, <3>1
    <3> QED  BY <2>3, <3>2
  <2>9. CASE n # one
    <3>1. one <= n => one <= n - 1
      BY <1>3, <2>5, <2>9
    <3> QED  BY <2>3, <2>6, <2>7, <3>1
  <2> QED  BY <2>8, <2>9
<1>5. Good(L)
  <2>1. L \in 0 .. L
    BY <1>3
  <2> QED  BY <1>4, <2>1
<1>6. Holds!SumOf(v) = g[L]
  BY <1>2 DEF L
<1>7. g[L] \in Int /\ one <= L
  BY <1>3
<1> QED  BY <1>5, <1>6, <1>7

\* Division keeps whole numbers whole.
LEMMA OverIsWhole ==
    ASSUME NEW a \in Int, NEW b \in Nat \ {0}
    PROVE  Holds!Over(a, b) \in Int
BY DEF Holds!Over

\* The root of a whole number is found bit by bit.
LEMMA RootIsNat ==
    ASSUME NEW n \in Int
    PROVE  Holds!Root(n) \in Nat
<1> DEFINE L == Len(Holds!Bits)
           bit(k) == Holds!Bits[k]
           next(r, k) == IF (r + bit(k)) * (r + bit(k)) <= n THEN r + bit(k) ELSE r
           step == [k \in 1 .. L |-> [r \in Nat |-> next(r, k)]]
           runs(f) == [k \in 0 .. L |-> IF k = 0 THEN 0 ELSE next(f[k - 1], k)]
           g == CHOOSE f : f = runs(f)
<1>1. Holds!Root(n) = g[L]
  BY DEF Holds!Root
<1>2. L \in Nat /\ \A k \in 1 .. L : bit(k) \in Nat
  BY DEF Holds!Bits
<1> HIDE DEF L, bit
<1>3. \A k \in 1 .. L : \A r \in Nat : next(r, k) \in Nat
  BY <1>2
<1> HIDE DEF next
<1>4. \A k \in 1 .. L : \A r \in Nat : step[k][r] = next(r, k)
  OBVIOUS
<1>5. step \in [1 .. L -> [Nat -> Nat]]
  BY <1>3
<1> HIDE DEF step
<1>6. PICK f \in [0 .. L -> Nat] : f[0] = 0 /\ \A k \in 1 .. L : f[k] = step[k][f[k - 1]]
  <2>1. \E f \in [0 .. L -> Nat] : IsRun(f, L, 0, step)
    BY <1>2, <1>5, Recursion
  <2> QED  BY <2>1 DEF IsRun
<1>7. f = runs(f)
  <2>1. \A k \in 0 .. L : k = 0 \/ (k \in 1 .. L /\ k - 1 \in 0 .. L)
    BY <1>2
  <2>2. \A k \in 0 .. L : f[k] = IF k = 0 THEN 0 ELSE next(f[k - 1], k)
    BY <1>4, <1>6, <2>1
  <2> QED  BY <1>6, <2>2
<1>8. g = runs(g)
  <2> HIDE DEF runs
  <2> QED  BY <1>7
<1> HIDE DEF g
<1>9. \A k \in 0 .. L : g[k] = IF k = 0 THEN 0 ELSE next(g[k - 1], k)
  BY <1>8
<1> DEFINE odd == {k \in 0 .. L : g[k] \notin Nat}
<1>10. odd = {}
  <2>1. SUFFICES ASSUME odd # {} PROVE FALSE
    OBVIOUS
  <2>2. PICK k \in odd : \A j \in odd : k <= j
    <3>1. odd \subseteq Nat
      OBVIOUS
    <3> HIDE DEF odd
    <3> QED  BY <2>1, <3>1, SmallestOfSet
  <2>3. k # 0
    BY <1>9
  <2>4. k \in 1 .. L /\ k - 1 \in 0 .. L /\ ~(k <= k - 1)
    BY <1>2, <2>3
  <2>5. g[k - 1] \in Nat
    BY <2>2, <2>4
  <2>6. g[k] = next(g[k - 1], k)
    BY <1>9, <2>3
  <2> QED  BY <1>3, <2>4, <2>5, <2>6
<1>11. L \in 0 .. L
  BY <1>2
<1> QED  BY <1>1, <1>10, <1>11

\* What an instance takes from a library module is the library's.
LEMMA SameSize ==
    ASSUME NEW S
    PROVE  Holds!Cardinality(S) = Cardinality(S)
BY DEF Holds!Cardinality, Cardinality

\* The order of some places is their order.
LEMMA InOrderIs ==
    ASSUME NEW places, places \subseteq Nat, IsFiniteSet(places)
    PROVE  /\ IsOrder(Holds!InOrder(places), places)
           /\ Holds!InOrder(places) \in Seq(places)
           /\ Len(Holds!InOrder(places)) = Cardinality(places)
           /\ Cardinality(places) \in Nat
<1> DEFINE A(k) == CHOOSE i \in places : Holds!Cardinality({j \in places : j < i}) = k - 1
           B(k) == CHOOSE i \in places : Cardinality({j \in places : j < i}) = k - 1
<1>1. \A S : Holds!Cardinality(S) = Cardinality(S)
  BY SameSize
<1>2. \A k : A(k) = B(k)
  BY <1>1, Zenon
<1>3. Holds!InOrder(places) = [k \in 1..Holds!Cardinality(places) |-> A(k)]
  BY DEF Holds!InOrder
<1>5. IsOrder([k \in 1..Cardinality(places) |-> B(k)], places)
  BY OrderExists
<1> HIDE DEF A, B
<1>4. Holds!InOrder(places) = [k \in 1..Cardinality(places) |-> B(k)]
  BY <1>1, <1>2, <1>3
<1> DEFINE order == Holds!InOrder(places)
           c == Cardinality(places)
<1>6. c \in Nat
  BY FS_CardinalityType
<1>7. IsOrder(order, places) /\ order = [k \in 1 .. c |-> order[k]]
  BY <1>4, <1>5
<1> HIDE DEF order, c
<1>8. \A k \in 1 .. c : order[k] \in places
  BY <1>7 DEF IsOrder
<1>9. order \in Seq(places) /\ Len(order) = c
  BY <1>6, <1>7, <1>8
<1> QED  BY <1>6, <1>7, <1>9 DEF order, c

\* What is taken from a sequence, and in what order.
LEMMA TakenIs ==
    ASSUME NEW S, NEW v \in Seq(S), NEW places, places \subseteq DOMAIN v
    PROVE  /\ IsOrder(Holds!InOrder(places), places)
           /\ Holds!InOrder(places) \in Seq(places)
           /\ Holds!Taken(v, places) \in Seq(S)
           /\ Len(Holds!Taken(v, places)) = Cardinality(places)
           /\ Cardinality(places) \in Nat
           /\ \A k \in 1 .. Cardinality(places) :
                 Holds!Taken(v, places)[k] = v[Holds!InOrder(places)[k]]
<1> DEFINE order == Holds!InOrder(places)
           c == Cardinality(places)
           F(o) == [k \in DOMAIN o |-> v[o[k]]]
<1>1. Holds!Taken(v, places) = CHOOSE y \in {F(o) : o \in {order}} : TRUE
  BY DEF Holds!Taken, Holds!With
<1>2. IsFiniteSet(places) /\ c \in Nat /\ places \subseteq Nat
  <2>1. places \subseteq 1 .. Len(v) /\ Len(v) \in Int
    OBVIOUS
  <2>2. IsFiniteSet(1 .. Len(v))
    <3>1. 1 \in Int
      OBVIOUS
    <3> QED  BY <2>1, <3>1, FS_Interval
  <2> QED  BY <2>1, <2>2, FS_Subset, FS_CardinalityType
<1>3. IsOrder(order, places) /\ DOMAIN order = 1 .. c /\ order \in Seq(places)
  <2>1. IsOrder(order, places) /\ order \in Seq(places)
    BY <1>2, InOrderIs
  <2> QED  BY <2>1 DEF IsOrder
<1> HIDE DEF order, c
<1>5. \A k \in 1 .. c : order[k] \in places
  BY <1>3 DEF IsOrder
<1>7. Holds!Taken(v, places) = F(order)
  <2> HIDE DEF F
  <2> QED  BY <1>1
<1>8. F(order) = [k \in 1 .. c |-> v[order[k]]] /\ \A k \in 1 .. c : v[order[k]] \in S
  BY <1>3, <1>5
<1>9. F(order) \in Seq(S) /\ Len(F(order)) = c
  BY <1>2, <1>8
<1> QED  BY <1>2, <1>3, <1>7, <1>8, <1>9 DEF order, c

\* The numbers among some values are whole, and there are as many as there are.
LEMMA NumbersAre ==
    ASSUME HoldContract, NEW v \in Seq(Int \cup {HoldNaN})
    PROVE  /\ Holds!Numbers(v) \in Seq(Int)
           /\ (\E k \in DOMAIN v : v[k] # HoldNaN) => Holds!Numbers(v) # <<>>
           /\ \A k \in DOMAIN Holds!Numbers(v) : \E i \in DOMAIN v : Holds!Numbers(v)[k] = v[i]
<1> DEFINE places == {i \in DOMAIN v : v[i] # HoldNaN}
           order == Holds!InOrder(places)
           c == Cardinality(places)
<1>1. Holds!Numbers(v) = Holds!Taken(v, places)
  BY DEF Holds!Numbers, Holds!IsNumber
<1>2. /\ places \subseteq DOMAIN v
      /\ \A i \in places : v[i] \in Int
      /\ (\E k \in DOMAIN v : v[k] # HoldNaN) => places # {}
  OBVIOUS
<1> HIDE DEF places
<1>3. /\ order \in Seq(places) /\ Len(Holds!Taken(v, places)) = c /\ c \in Nat
      /\ Holds!Taken(v, places) \in Seq(Int \cup {HoldNaN})
      /\ \A k \in 1 .. c : Holds!Taken(v, places)[k] = v[order[k]]
      /\ IsOrder(order, places)
  <2> DEFINE X == Int \cup {HoldNaN}
  <2>1. v \in Seq(X)
    OBVIOUS
  <2> HIDE DEF X
  <2> QED  BY <1>2, <2>1, TakenIs DEF X
<1> HIDE DEF order
<1>4. \A k \in 1 .. c : order[k] \in places
  BY <1>3 DEF IsOrder
<1>5. places # {} => c # 0
  <2> SUFFICES ASSUME places # {} PROVE c # 0
    OBVIOUS
  <2>1. PICK i \in places : TRUE
    OBVIOUS
  <2>2. \E k \in 1 .. c : TRUE
    BY <1>3, <2>1 DEF IsOrder
  <2> QED  BY <1>3, <2>2
<1> HIDE DEF c
<1> DEFINE w == Holds!Taken(v, places)
<1>6. w \in Seq(Int \cup {HoldNaN}) /\ Len(w) = c
  BY <1>3
<1>7. \A k \in 1 .. c : w[k] \in Int /\ \E i \in DOMAIN v : w[k] = v[i]
  BY <1>2, <1>3, <1>4
<1> HIDE DEF w
<1>8. w \in Seq(Int) /\ DOMAIN w = 1 .. c /\ (c # 0 => w # <<>>)
  BY <1>3, <1>6, <1>7
<1> QED  BY <1>1, <1>2, <1>5, <1>7, <1>8 DEF w

\* A mean of whole numbers is one, and so is a root mean square.
LEMMA MeanIsWhole ==
    ASSUME HoldContract, NEW v \in Seq(Int), v # <<>>
    PROVE  Holds!Mean(v) \in Int /\ Holds!Rms(v) \in Nat
<1> DEFINE F(w) == IF w = <<>> THEN HoldNaN ELSE Holds!Over(Holds!SumOf(w), Len(w))
           G(w) == IF w = <<>> THEN HoldNaN
                   ELSE Holds!Root(Holds!SumOf([i \in DOMAIN w |-> w[i] * w[i]]) \div Len(w))
           n == Holds!Numbers(v)
<1>1. /\ Holds!Mean(v) = CHOOSE y \in {F(w) : w \in {n}} : TRUE
      /\ Holds!Rms(v) = CHOOSE y \in {G(w) : w \in {n}} : TRUE
  BY DEF Holds!Mean, Holds!Rms, Holds!With
<1>2. n \in Seq(Int) /\ n # <<>>
  <2>1. v \in Seq(Int \cup {HoldNaN}) /\ \E k \in DOMAIN v : v[k] \in Int
    OBVIOUS
  <2>2. HoldNaN \notin Int
    BY DEF HoldContract, Holds!RecordContract
  <2> QED  BY <2>1, <2>2, NumbersAre
<1> HIDE DEF n
<1>3. Holds!Mean(v) = F(n) /\ Holds!Rms(v) = G(n)
  <2> HIDE DEF F, G
  <2> QED  BY <1>1
<1>4. Len(n) \in Nat \ {0}
  BY <1>2
<1>5. F(n) \in Int
  BY <1>2, <1>4, SumIsWhole, OverIsWhole
<1>6. G(n) \in Nat
  <2> DEFINE s == [i \in DOMAIN n |-> n[i] * n[i]]
  <2>1. s \in Seq(Int)
    <3>1. \A i \in 1 .. Len(n) : n[i] \in Int /\ n[i] * n[i] \in Int
      BY <1>2
    <3>2. DOMAIN n = 1 .. Len(n)
      BY <1>2
    <3> QED  BY <1>4, <3>1, <3>2
  <2> HIDE DEF s
  <2>2. Holds!SumOf(s) \in Int
    BY <2>1, SumIsWhole
  <2>3. Holds!SumOf(s) \div Len(n) \in Int
    BY <1>4, <2>2
  <2>4. G(n) = Holds!Root(Holds!SumOf(s) \div Len(n))
    BY <1>2 DEF s
  <2> QED  BY <2>3, <2>4, RootIsNat
<1> QED  BY <1>3, <1>5, <1>6

\* Smoothing keeps values whole, and as many.
LEMMA SmoothedIsWhole ==
    ASSUME NEW v \in Seq(Int), NEW filter \in Nat
    PROVE  Holds!Smoothed(v, filter) \in Seq(Int) /\ Len(Holds!Smoothed(v, filter)) = Len(v)
<1> DEFINE near(i) == {j \in DOMAIN v : Holds!Abs(j - i) <= filter \div 2}
           part(i) == Holds!Over(Holds!SumOf(Holds!Taken(v, near(i))), Cardinality(near(i)))
<1>1. \A S : Holds!Cardinality(S) = Cardinality(S)
  BY SameSize
<1>2. Holds!Smoothed(v, filter) = [i \in DOMAIN v |-> part(i)]
  BY <1>1 DEF Holds!Smoothed
<1>3. \A i \in DOMAIN v : part(i) \in Int
  <2> TAKE i \in DOMAIN v
  <2>1. near(i) \subseteq DOMAIN v /\ i \in near(i)
    BY DEF Holds!Abs
  <2> DEFINE places == near(i)
  <2> HIDE DEF near
  <2>2. Holds!Taken(v, places) \in Seq(Int) /\ Cardinality(places) \in Nat
        /\ IsOrder(Holds!InOrder(places), places)
    <3> DEFINE X == Int
    <3>1. v \in Seq(X) /\ places \subseteq DOMAIN v
      BY <2>1
    <3> HIDE DEF X, places
    <3> QED  BY <3>1, TakenIs DEF X
  <2>3. Cardinality(places) # 0
    <3>1. \E k \in 1 .. Cardinality(places) : TRUE
      BY <2>1, <2>2 DEF IsOrder
    <3> QED  BY <2>2, <3>1
  <2>4. Cardinality(places) \in Nat \ {0}
    BY <2>2, <2>3
  <2> HIDE DEF places
  <2> DEFINE c == Cardinality(places)
             s == Holds!SumOf(Holds!Taken(v, places))
  <2>5. s \in Int /\ c \in Nat \ {0}
    BY <2>2, <2>4, SumIsWhole
  <2> HIDE DEF c, s
  <2>6. Holds!Over(s, c) \in Int
    BY <2>5, OverIsWhole
  <2> QED  BY <2>6 DEF c, s, places
<1> HIDE DEF part
<1>4. DOMAIN v = 1 .. Len(v) /\ Len(v) \in Nat
  OBVIOUS
<1> DEFINE w == [i \in DOMAIN v |-> part(i)]
<1>5. w \in Seq(Int) /\ Len(w) = Len(v)
  BY <1>3, <1>4
<1> QED  BY <1>2, <1>5

\* A sign is one of three.
LEMMA SignIsWhole ==
    ASSUME NEW x
    PROVE  Holds!SignOf(x) \in {-1, 0, 1} /\ Holds!SignOf(x) \in Int
BY DEF Holds!SignOf

\* How often values cross their mean is a number.
LEMMA CrossingsAreNat ==
    ASSUME HoldContract, NEW values \in Seq(Int), values # <<>>
    PROVE  Holds!Crossings(values) \in Nat
<1> DEFINE v == Holds!Centred(values)
           S == [side : Int, count : Nat]
           init == [side |-> 0, count |-> 0]
           next(z, seen) == IF z = 0 THEN seen
                            ELSE [side |-> Holds!SignOf(z),
                                  count |-> IF seen.side \in {0, Holds!SignOf(z)} THEN seen.count
                                            ELSE seen.count + 1]
           runs(w, f) == [k \in 0 .. Len(w) |-> IF k = 0 THEN init ELSE next(w[k], f[k - 1])]
           run(w) == CHOOSE f : f = runs(w, f)
           F(w) == run(w)[Len(w)].count
           C(m) == [i \in DOMAIN values |-> values[i] - m]
<1>1. Holds!Crossings(values) = CHOOSE y \in {F(w) : w \in {v}} : TRUE
  BY DEF Holds!Crossings, Holds!With
<1>2. v \in Seq(Int)
  <2>1. v = CHOOSE y \in {C(m) : m \in {Holds!Mean(values)}} : TRUE
    BY DEF Holds!Centred, Holds!With
  <2>2. Holds!Mean(values) \in Int
    BY MeanIsWhole
  <2>3. v = C(Holds!Mean(values))
    <3> HIDE DEF C, v
    <3> QED  BY <2>1
  <2>4. \A m \in Int : C(m) \in Seq(Int)
    <3> TAKE m \in Int
    <3>1. \A i \in 1 .. Len(values) : values[i] - m \in Int
      OBVIOUS
    <3>2. DOMAIN values = 1 .. Len(values) /\ Len(values) \in Nat
      OBVIOUS
    <3> QED  BY <3>1, <3>2
  <2> HIDE DEF C, v
  <2> QED  BY <2>2, <2>3, <2>4
<1> HIDE DEF v
<1>3. Holds!Crossings(values) = F(v)
  <2> HIDE DEF F
  <2> QED  BY <1>1
<1> DEFINE L == Len(v)
           step == [k \in 1 .. L |-> [seen \in S |-> next(v[k], seen)]]
           rounds(f) == [k \in 0 .. L |-> IF k = 0 THEN init ELSE next(v[k], f[k - 1])]
           g == CHOOSE f : f = rounds(f)
<1>4. Holds!Crossings(values) = g[L].count
  BY <1>3
<1>5. L \in Nat /\ \A k \in 1 .. L : v[k] \in Int
  BY <1>2
<1> HIDE DEF L, F, run, runs
<1>6. \A z \in Int : \A seen \in S : next(z, seen) \in S
  BY SignIsWhole
<1>7. init \in S
  OBVIOUS
<1>14. \A seen \in S : seen.count \in Nat
  OBVIOUS
<1> HIDE DEF next, S, init
<1>8. \A k \in 1 .. L : \A seen \in S : step[k][seen] = next(v[k], seen)
  OBVIOUS
<1>9. step \in [1 .. L -> [S -> S]]
  BY <1>5, <1>6
<1> HIDE DEF step
<1>10. PICK f \in [0 .. L -> S] : f[0] = init /\ \A k \in 1 .. L : f[k] = step[k][f[k - 1]]
  <2>1. \E f \in [0 .. L -> S] : IsRun(f, L, init, step)
    BY <1>5, <1>7, <1>9, Recursion
  <2> QED  BY <2>1 DEF IsRun
<1>11. f = rounds(f)
  <2>1. \A k \in 0 .. L : k = 0 \/ (k \in 1 .. L /\ k - 1 \in 0 .. L)
    BY <1>5
  <2>2. \A k \in 0 .. L : f[k] = IF k = 0 THEN init ELSE next(v[k], f[k - 1])
    BY <1>8, <1>10, <2>1
  <2> QED  BY <1>10, <2>2
<1>12. g = rounds(g)
  <2> HIDE DEF rounds
  <2> QED  BY <1>11
<1> HIDE DEF g
<1>13. \A k \in 0 .. L : g[k] = IF k = 0 THEN init ELSE next(v[k], g[k - 1])
  BY <1>12
<1> DEFINE odd == {k \in 0 .. L : g[k] \notin S}
<1>15. odd = {}
  <2>1. SUFFICES ASSUME odd # {} PROVE FALSE
    OBVIOUS
  <2>2. PICK k \in odd : \A j \in odd : k <= j
    <3>1. odd \subseteq Nat
      OBVIOUS
    <3> HIDE DEF odd
    <3> QED  BY <2>1, <3>1, SmallestOfSet
  <2>3. k # 0
    BY <1>7, <1>13
  <2>4. k \in 1 .. L /\ k - 1 \in 0 .. L /\ ~(k <= k - 1)
    BY <1>5, <2>3
  <2>5. g[k - 1] \in S
    BY <2>2, <2>4
  <2>6. g[k] = next(v[k], g[k - 1])
    BY <1>13, <2>3
  <2> QED  BY <1>5, <1>6, <2>4, <2>5, <2>6
<1>16. L \in 0 .. L
  BY <1>5
<1> QED  BY <1>4, <1>14, <1>15, <1>16

\* What weighs whole numbers is whole.
LEMMA WeightedIsWhole ==
    ASSUME HoldContract, NEW n \in Nat \ {0}, NEW v \in [1 .. n -> Int],
           NEW weights \in [1 .. n -> Nat \ {0}]
    PROVE  Holds!WeightedMean(v, weights) \in Int
<1> DEFINE own == {k \in DOMAIN v : Holds!IsNumber(v[k])}
           parts == [k \in DOMAIN v |-> IF k \in own THEN v[k] * weights[k] ELSE 0]
           weighs == [k \in DOMAIN v |-> IF k \in own THEN weights[k] ELSE 0]
<1>1. HoldNaN \notin Int
  BY DEF HoldContract, Holds!RecordContract
<1>2. own = 1 .. n
  BY <1>1 DEF Holds!IsNumber
<1>3. own # {} /\ 1 \in 1 .. n
  BY <1>2
<1>4. Holds!WeightedMean(v, weights) = Holds!Over(Holds!SumOf(parts), Holds!SumOf(weighs))
  BY <1>3 DEF Holds!WeightedMean
<1>5. \A k \in 1 .. n : v[k] * weights[k] \in Int
  OBVIOUS
<1>6. DOMAIN v = 1 .. n
  OBVIOUS
<1> HIDE DEF own
<1>7. parts = [k \in 1 .. n |-> v[k] * weights[k]] /\ weighs = [k \in 1 .. n |-> weights[k]]
  BY <1>2, <1>6
<1>8. parts \in Seq(Int)
  <2> HIDE DEF parts
  <2> QED  BY <1>5, <1>7
<1>9. weighs \in Seq(Nat) /\ 1 \in DOMAIN weighs /\ weighs[1] > 0
  <2> HIDE DEF weighs
  <2> QED  BY <1>3, <1>7
<1> HIDE DEF parts, weighs
<1>10. Holds!SumOf(parts) \in Int
  BY <1>8, SumIsWhole
<1>11. Holds!SumOf(weighs) \in Nat \ {0}
  BY <1>9, SumIsPositive
<1> QED  BY <1>4, <1>10, <1>11, OverIsWhole

-----------------------------------------------------------------------------
(* The detector: what is in progress, what was found, and what was missed.   *)

HoldSteady(a, b) ==
    \A i \in a .. b : /\ Holds!IsNumber(Holds!Set(i))
                      /\ Holds!Abs(Holds!Set(i) - Holds!Set(a)) <= Holds!Band
HoldLong(a, b) == Holds!Time(b) - Holds!Time(a) >= HoldSettle + MinMeasure
HoldLeft(a, b) ==
    b < Len(flownHold) =>
        ~Holds!IsNumber(Holds!Set(b + 1)) \/ Holds!Abs(Holds!Set(b + 1) - Holds!Set(a)) > Holds!Band
\* A stretch that is entered by a clear move, long, steady, and left.
HoldStretch(a, b) == Holds!Entered(a) /\ HoldSteady(a, b) /\ HoldLong(a, b) /\ HoldLeft(a, b)

Places == 1 .. Len(flownHold)
HoldTypes ==
    /\ flownHold \in HoldFlights
    /\ atHold \in 1 .. Len(flownHold) + 2
    /\ start \in Nat /\ start < atHold /\ start <= Len(flownHold)
    /\ atHold = Len(flownHold) + 2 => start = 0
    /\ segments \in Seq([from : Places, to : Places])
InProgress == start # 0 => HoldSteady(start, atHold - 1)
IsHeld(seg) == seg.from < seg.to /\ HoldSteady(seg.from, seg.to) /\ HoldLong(seg.from, seg.to)
AllHeld == \A k \in DOMAIN segments : IsHeld(segments[k])
\* What is entered and not yet left is what is in progress.
NothingElse ==
    atHold <= Len(flownHold) + 1 =>
        \A a \in 2 .. atHold - 1 : Holds!Entered(a) /\ HoldSteady(a, atHold - 1) => start = a
NothingMissed ==
    Len(segments) < MaxHolds =>
        \A a \in Places \ {1} : \A b \in Places :
            a < b /\ b < atHold - 1 /\ HoldStretch(a, b) =>
                \E k \in DOMAIN segments : segments[k].from = a /\ segments[k].to = b
Detected == HoldTypes /\ InProgress /\ AllHeld /\ NothingElse /\ NothingMissed

\* What the log of a flight holds.
LEMMA FlightLog ==
    ASSUME HoldContract, flownHold \in HoldFlights
    PROVE  /\ flownHold \in Seq(Holds!Record) /\ Len(flownHold) \in Nat
           /\ DOMAIN flownHold = Places
           /\ \A i \in Places : /\ Holds!Time(i) \in Int /\ Holds!Set(i) \in Int \cup {HoldNaN}
                                /\ flownHold[i] \in Holds!Record
           /\ \A i, j \in Places : i < j => Holds!Time(i) < Holds!Time(j)
           /\ HoldNaN \notin Int
<1>1. /\ flownHold \in Seq(Holds!Record)
      /\ \A i, j \in DOMAIN flownHold : i < j => flownHold[i].t < flownHold[j].t
      /\ HoldNaN \notin Int
  BY DEF HoldContract, Holds!RecordContract
<1>2. DOMAIN flownHold = Places /\ Len(flownHold) \in Nat
      /\ \A i \in Places : flownHold[i] \in Holds!Record
  BY <1>1 DEF Places
<1>3. \A r \in Holds!Record : r.t \in Int /\ r.set \in Int \cup {HoldNaN}
  BY DEF Holds!Record
<1> QED  BY <1>1, <1>2, <1>3 DEF Holds!Time, Holds!Set, Holds!rec

\* The limits are numbers.
LEMMA HoldLimits ==
    ASSUME HoldContract
    PROVE  /\ HoldSettle \in Nat /\ MinMeasure \in Nat \ {0} /\ MaxHolds \in Nat
           /\ HoldGap \in Nat /\ HoldGap < MinMeasure
           /\ Filters \in Seq(Nat \ {0}) /\ Len(Filters) > 0
           /\ BandLow \in Int /\ BandTop \in Int /\ BandLow < BandTop
           /\ Ripples \subseteq Int /\ Holds!RippleDps \in Ripples
           /\ HoldNaN \notin Int
BY DEF HoldContract, Holds!HoldConstants, Holds!SweepConstants, Holds!RecordContract

\* No step changes what was flown.
LEMMA SameFlightLog ==
    ASSUME flownHold' = flownHold
    PROVE  /\ Places' = Places
           /\ \A a, b : /\ HoldSteady(a, b)' = HoldSteady(a, b)
                        /\ HoldLong(a, b)' = HoldLong(a, b)
                        /\ HoldStretch(a, b)' = HoldStretch(a, b)
           /\ \A a : Holds!Entered(a)' = Holds!Entered(a)
           /\ \A seg : IsHeld(seg)' = IsHeld(seg)
BY DEF Places, HoldSteady, HoldLong, HoldStretch, HoldLeft, IsHeld, Holds!Entered, Holds!Set,
       Holds!Time, Holds!rec

\* Closing a segment adds the one in progress, if it is long enough and there is
\* room, and nothing else.
LEMMA ClosingIs ==
    ASSUME HoldContract, Detected, atHold <= Len(flownHold) + 1
    PROVE  LET closed == Holds!Closed(atHold - 1) IN
           /\ closed \in Seq([from : Places, to : Places])
           /\ \A k \in DOMAIN closed : IsHeld(closed[k])
           /\ Len(closed) < MaxHolds =>
                 /\ Len(segments) < MaxHolds
                 /\ \A k \in DOMAIN segments : k \in DOMAIN closed /\ closed[k] = segments[k]
                 /\ start # 0 /\ start < atHold - 1 /\ HoldLong(start, atHold - 1) =>
                       \E k \in DOMAIN closed : closed[k].from = start /\ closed[k].to = atHold - 1
<1> DEFINE closed == Holds!Closed(atHold - 1)
           grows == /\ start # 0 /\ atHold - 1 > start /\ HoldLong(start, atHold - 1)
                    /\ Len(segments) < MaxHolds
           new == [from |-> start, to |-> atHold - 1]
<1>1. closed = IF grows THEN Append(segments, new) ELSE segments
  BY DEF Holds!Closed, HoldLong
<1>2. Len(flownHold) \in Nat /\ MaxHolds \in Nat
  BY FlightLog, HoldLimits DEF Detected, HoldTypes
<1>3. segments \in Seq([from : Places, to : Places]) /\ AllHeld /\ Len(segments) \in Nat
  BY DEF Detected, HoldTypes
<1>4. CASE grows
  <2>1. new \in [from : Places, to : Places] /\ IsHeld(new)
    <3>1. start \in Places /\ atHold - 1 \in Places
      BY <1>2, <1>4 DEF Detected, HoldTypes, Places
    <3>2. HoldSteady(start, atHold - 1)
      BY <1>4 DEF Detected, InProgress
    <3> QED  BY <1>4, <3>1, <3>2 DEF IsHeld
  <2>2. closed = Append(segments, new)
    BY <1>1, <1>4
  <2>5. new.from = start /\ new.to = atHold - 1
    OBVIOUS
  <2> HIDE DEF closed, new, grows
  <2>3. /\ closed \in Seq([from : Places, to : Places]) /\ Len(closed) = Len(segments) + 1
        /\ DOMAIN closed = 1 .. Len(segments) + 1 /\ DOMAIN segments = 1 .. Len(segments)
        /\ \A k \in 1 .. Len(segments) : closed[k] = segments[k]
        /\ closed[Len(segments) + 1] = new
    BY <1>3, <2>1, <2>2
  <2>4. \A k \in DOMAIN closed : IsHeld(closed[k])
    BY <1>3, <2>1, <2>3 DEF AllHeld
  <2>6. \E k \in DOMAIN closed : closed[k].from = start /\ closed[k].to = atHold - 1
    BY <1>3, <2>3, <2>5
  <2>7. Len(closed) < MaxHolds => Len(segments) < MaxHolds
    BY <1>2, <1>3, <2>3
  <2>8. \A k \in DOMAIN segments : k \in DOMAIN closed /\ closed[k] = segments[k]
    BY <1>3, <2>3
  <2> QED  BY <2>3, <2>4, <2>6, <2>7, <2>8 DEF closed
<1>5. CASE ~grows
  <2>1. closed = segments
    BY <1>1, <1>5
  <2>2. start \in Int /\ atHold \in Int
    BY DEF Detected, HoldTypes
  <2>3. start # 0 /\ start < atHold - 1 /\ HoldLong(start, atHold - 1) => ~(Len(segments) < MaxHolds)
    BY <1>5, <2>2
  <2> HIDE DEF closed, grows
  <2> QED  BY <1>3, <2>1, <2>3 DEF AllHeld, closed
<1> QED  BY <1>4, <1>5

\* When the segment in progress is closed, all that is held stays so and nothing
\* that is left is missed.
LEMMA ClosingMissesNothing ==
    ASSUME HoldContract, Detected, atHold <= Len(flownHold) + 1, flownHold' = flownHold,
           atHold' = atHold + 1, segments' = Holds!Closed(atHold - 1)
    PROVE  /\ segments' \in Seq([from : Places, to : Places])'
           /\ AllHeld' /\ NothingMissed'
<1> DEFINE closed == Holds!Closed(atHold - 1)
<1>1. /\ closed \in Seq([from : Places, to : Places])
      /\ \A k \in DOMAIN closed : IsHeld(closed[k])
      /\ Len(closed) < MaxHolds =>
            /\ Len(segments) < MaxHolds
            /\ \A k \in DOMAIN segments : k \in DOMAIN closed /\ closed[k] = segments[k]
            /\ start # 0 /\ start < atHold - 1 /\ HoldLong(start, atHold - 1) =>
                  \E k \in DOMAIN closed : closed[k].from = start /\ closed[k].to = atHold - 1
  BY ClosingIs
<1>2. segments' = closed
  OBVIOUS
<1> HIDE DEF closed
<1>3. segments' \in Seq([from : Places, to : Places])'
  BY <1>1, <1>2, SameFlightLog
<1>4. AllHeld'
  BY <1>1, <1>2, SameFlightLog DEF AllHeld
<1>5. NothingMissed'
  <2> SUFFICES ASSUME Len(closed) < MaxHolds, NEW a \in Places \ {1}, NEW b \in Places,
                      a < b, b < atHold, HoldStretch(a, b)
               PROVE  \E k \in DOMAIN closed : closed[k].from = a /\ closed[k].to = b
    <3>1. atHold' - 1 = atHold
      BY DEF Detected, HoldTypes
    <3> QED  BY <1>2, <3>1, SameFlightLog DEF NothingMissed
  <2>1. atHold \in Nat /\ Len(flownHold) \in Nat /\ a \in Nat /\ b \in Nat /\ b <= Len(flownHold) /\ a >= 2
    BY FlightLog DEF Detected, HoldTypes, Places
  <2>2. CASE b < atHold - 1
    <3>1. PICK k \in DOMAIN segments : segments[k].from = a /\ segments[k].to = b
      BY <1>1, <2>2 DEF Detected, NothingMissed
    <3> QED  BY <1>1, <3>1
  <2>3. CASE b = atHold - 1
    <3>1. a \in 2 .. atHold - 1
      BY <2>1, <2>3
    <3>2. Holds!Entered(a) /\ HoldSteady(a, atHold - 1) /\ HoldLong(a, atHold - 1)
      BY <2>3 DEF HoldStretch
    <3>3. start = a
      BY <3>1, <3>2 DEF Detected, NothingElse
    <3> QED  BY <1>1, <2>1, <2>3, <3>2, <3>3
  <2> QED  BY <2>1, <2>2, <2>3
<1> QED  BY <1>3, <1>4, <1>5

\* Nor is anything missed while nothing can be closed.
LEMMA KeepingMissesNothing ==
    ASSUME HoldContract, Detected, atHold <= Len(flownHold), flownHold' = flownHold,
           atHold' = atHold + 1, segments' = segments,
           start = 0 \/ (/\ Holds!IsNumber(Holds!Set(atHold))
                         /\ Holds!Abs(Holds!Set(atHold) - Holds!Set(start)) <= Holds!Band)
    PROVE  /\ segments' \in Seq([from : Places, to : Places])'
           /\ AllHeld' /\ NothingMissed'
<1>1. segments' \in Seq([from : Places, to : Places])'
  BY SameFlightLog DEF Detected, HoldTypes
<1>2. AllHeld'
  BY SameFlightLog DEF Detected, AllHeld
<1>3. NothingMissed'
  <2> SUFFICES ASSUME Len(segments) < MaxHolds, NEW a \in Places \ {1}, NEW b \in Places,
                      a < b, b < atHold, HoldStretch(a, b)
               PROVE  \E k \in DOMAIN segments : segments[k].from = a /\ segments[k].to = b
    <3>1. atHold' - 1 = atHold
      BY DEF Detected, HoldTypes
    <3> QED  BY <3>1, SameFlightLog DEF NothingMissed
  <2>1. atHold \in Nat /\ Len(flownHold) \in Nat /\ a \in Nat /\ b \in Nat /\ b <= Len(flownHold) /\ a >= 2
        /\ atHold \in Places
    BY FlightLog DEF Detected, HoldTypes, Places
  <2>2. CASE b < atHold - 1
    BY <2>2 DEF Detected, NothingMissed
  <2>3. CASE b = atHold - 1
    <3>1. a \in 2 .. atHold - 1 /\ b + 1 = atHold /\ b < Len(flownHold)
      BY <2>1, <2>3
    <3>2. Holds!Entered(a) /\ HoldSteady(a, atHold - 1) /\ HoldLeft(a, b)
      BY <2>3 DEF HoldStretch
    <3>3. start = a
      BY <2>1, <3>1, <3>2 DEF Detected, NothingElse
    <3>4. ~Holds!IsNumber(Holds!Set(atHold))
          \/ Holds!Abs(Holds!Set(atHold) - Holds!Set(a)) > Holds!Band
      BY <3>1, <3>2 DEF HoldLeft
    <3>5. Holds!IsNumber(Holds!Set(atHold)) => ~(Holds!Abs(Holds!Set(atHold) - Holds!Set(a)) > Holds!Band)
      <4> SUFFICES ASSUME Holds!IsNumber(Holds!Set(atHold))
                   PROVE  ~(Holds!Abs(Holds!Set(atHold) - Holds!Set(a)) > Holds!Band)
        OBVIOUS
      <4>1. a \in a .. atHold - 1
        BY <3>1
      <4>2. Holds!Set(atHold) \in Int /\ Holds!Set(a) \in Int
        BY <2>1, <3>2, <4>1, FlightLog DEF Detected, HoldTypes, HoldSteady, Holds!IsNumber
      <4>3. Holds!Abs(Holds!Set(atHold) - Holds!Set(a)) <= Holds!Band
        BY <2>1, <3>3
      <4>4. Holds!Abs(Holds!Set(atHold) - Holds!Set(a)) \in Int /\ Holds!Band \in Int
        BY <4>2 DEF Holds!Abs, Holds!Band
      <4> QED  BY <4>3, <4>4
    <3>6. Holds!IsNumber(Holds!Set(atHold))
      BY <2>1, <3>3
    <3> QED  BY <3>4, <3>5, <3>6
  <2> QED  BY <2>1, <2>2, <2>3
<1> QED  BY <1>1, <1>2, <1>3

\* Each reading of a sample, and the end.
LEMMA DetectorSteps ==
    ASSUME HoldContract, Detected,
           Holds!Missing \/ Holds!Open \/ Holds!Stay \/ Holds!Depart \/ Holds!End
    PROVE  Detected'
<1>1. /\ flownHold \in Seq(Holds!Record) /\ Len(flownHold) \in Nat
      /\ \A i \in Places : Holds!Set(i) \in Int \cup {HoldNaN}
      /\ HoldNaN \notin Int
  BY FlightLog DEF Detected, HoldTypes
<1>2. atHold \in 1 .. Len(flownHold) + 2 /\ start \in Nat /\ start < atHold /\ start <= Len(flownHold)
  BY DEF Detected, HoldTypes
<1>3. flownHold' = flownHold /\ atHold' = atHold + 1 /\ atHold <= Len(flownHold) + 1
  <2>1. CASE Holds!End
    BY <1>2, <2>1 DEF Holds!End, Holds!rec
  <2>2. CASE Holds!Missing \/ Holds!Open \/ Holds!Stay \/ Holds!Depart
    BY <1>1, <1>2, <2>2 DEF Holds!Missing, Holds!Open, Holds!Stay, Holds!Depart, Holds!Step, Holds!rec
  <2> QED  BY <2>1, <2>2
<1>4. /\ Places' = Places
      /\ \A a, b : HoldSteady(a, b)' = HoldSteady(a, b)
      /\ \A a : Holds!Entered(a)' = Holds!Entered(a)
  BY <1>3, SameFlightLog
<1>5. Holds!Missing =>
         /\ start' = 0 /\ segments' = Holds!Closed(atHold - 1) /\ atHold <= Len(flownHold)
         /\ ~Holds!IsNumber(Holds!Set(atHold))
  BY DEF Holds!Missing, Holds!Step, Holds!rec
<1>6. Holds!Open => /\ start' = atHold /\ segments' = segments /\ atHold <= Len(flownHold) /\ start = 0
                    /\ Holds!IsNumber(Holds!Set(atHold))
  BY DEF Holds!Open, Holds!Known, Holds!Step, Holds!rec
<1>7. Holds!Stay => /\ start' = start /\ segments' = segments /\ atHold <= Len(flownHold) /\ start # 0
                    /\ Holds!IsNumber(Holds!Set(atHold))
                    /\ Holds!Abs(Holds!Set(atHold) - Holds!Set(start)) <= Holds!Band
  BY DEF Holds!Stay, Holds!Known, Holds!Step, Holds!rec, Holds!Reference
<1>8. Holds!Depart => /\ start' = atHold /\ segments' = Holds!Closed(atHold - 1)
                      /\ atHold <= Len(flownHold) /\ start # 0
                      /\ Holds!IsNumber(Holds!Set(atHold))
                      /\ Holds!Abs(Holds!Set(atHold) - Holds!Set(start)) > Holds!Band
  BY DEF Holds!Depart, Holds!Known, Holds!Step, Holds!rec, Holds!Reference
<1>9. Holds!End => start' = 0 /\ segments' = Holds!Closed(atHold - 1) /\ atHold = Len(flownHold) + 1
  <2> SUFFICES ASSUME Holds!End
               PROVE  start' = 0 /\ segments' = Holds!Closed(atHold - 1) /\ atHold = Len(flownHold) + 1
    OBVIOUS
  <2>1. start' = 0 /\ segments' = Holds!Closed(Len(flownHold)) /\ atHold = Len(flownHold) + 1
    BY DEF Holds!End, Holds!rec
  <2>2. Len(flownHold) = atHold - 1
    BY <1>1, <2>1
  <2> QED  BY <2>1, <2>2
<1>10. segments' \in Seq([from : Places, to : Places])' /\ AllHeld' /\ NothingMissed'
  <2>1. CASE Holds!Missing \/ Holds!Depart \/ Holds!End
    BY <1>3, <1>5, <1>8, <1>9, <2>1, ClosingMissesNothing
  <2>2. CASE Holds!Open \/ Holds!Stay
    BY <1>3, <1>6, <1>7, <2>2, KeepingMissesNothing
  <2> QED  BY <2>1, <2>2
<1>11. HoldTypes'
  <2>1. atHold' \in 1 .. Len(flownHold) + 2 /\ (atHold' = Len(flownHold) + 2 => start' = 0)
    BY <1>1, <1>2, <1>3, <1>5, <1>6, <1>7, <1>8, <1>9
  <2>2. start' \in Nat /\ start' < atHold' /\ start' <= Len(flownHold)
    BY <1>1, <1>2, <1>3, <1>5, <1>6, <1>7, <1>8, <1>9
  <2>3. flownHold' \in HoldFlights
    BY <1>3 DEF Detected, HoldTypes
  <2> QED  BY <1>3, <1>10, <2>1, <2>2, <2>3 DEF HoldTypes
<1>12. InProgress'
  <2> SUFFICES ASSUME start' # 0 PROVE HoldSteady(start', atHold)
    <3>1. atHold' - 1 = atHold
      BY <1>2, <1>3
    <3> QED  BY <1>4, <3>1 DEF InProgress
  <2>1. CASE start' = atHold
    <3>1. atHold \in Places /\ Holds!IsNumber(Holds!Set(atHold))
      BY <1>1, <1>2, <1>5, <1>6, <1>7, <1>8, <1>9, <2>1 DEF Places
    <3>2. Holds!Set(atHold) \in Int
      BY <1>1, <3>1 DEF Holds!IsNumber
    <3>3. Holds!Abs(Holds!Set(atHold) - Holds!Set(atHold)) <= Holds!Band
      BY <3>2 DEF Holds!Abs, Holds!Band
    <3>4. \A i \in atHold .. atHold : i = atHold
      BY <1>2
    <3> QED  BY <2>1, <3>1, <3>3, <3>4 DEF HoldSteady
  <2>2. CASE Holds!Stay
    <3>1. HoldSteady(start, atHold - 1)
      BY <1>7, <2>2 DEF Detected, InProgress
    <3>2. \A i \in start .. atHold : i = atHold \/ i \in start .. atHold - 1
      BY <1>2
    <3> QED  BY <1>7, <2>2, <3>1, <3>2 DEF HoldSteady
  <2> QED  BY <1>5, <1>6, <1>7, <1>8, <1>9, <2>1, <2>2
<1>13. NothingElse'
  <2> SUFFICES ASSUME atHold <= Len(flownHold), NEW a \in 2 .. atHold, Holds!Entered(a),
                      HoldSteady(a, atHold)
               PROVE  start' = a
    <3>1. atHold' - 1 = atHold /\ (atHold' <= Len(flownHold) + 1 => atHold <= Len(flownHold))
      BY <1>1, <1>2, <1>3
    <3> QED  BY <1>3, <1>4, <3>1 DEF NothingElse
  <2>1. atHold \in a .. atHold /\ atHold \in Places
    BY <1>1, <1>2 DEF Places
  <2>2. Holds!IsNumber(Holds!Set(atHold)) /\ Holds!Abs(Holds!Set(atHold) - Holds!Set(a)) <= Holds!Band
    BY <2>1 DEF HoldSteady
  <2>3. ~Holds!Missing /\ ~Holds!End
    BY <1>1, <1>2, <1>5, <1>9, <2>2
  <2>4. CASE a = atHold
    <3>1. Holds!Stay => FALSE
      <4> SUFFICES ASSUME Holds!Stay PROVE FALSE
        OBVIOUS
      <4>1. HoldSteady(start, atHold - 1) /\ atHold - 1 \in start .. atHold - 1 /\ start \in start .. atHold - 1
        BY <1>2, <1>7 DEF Detected, InProgress
      <4>2. /\ Holds!IsNumber(Holds!Set(atHold - 1)) /\ Holds!IsNumber(Holds!Set(start))
            /\ Holds!Abs(Holds!Set(atHold - 1) - Holds!Set(start)) <= Holds!Band
        BY <4>1 DEF HoldSteady
      <4>3. start \in Places /\ atHold - 1 \in Places
        BY <1>1, <1>2, <1>7 DEF Places
      <4>4. Holds!Set(start) \in Int /\ Holds!Set(atHold - 1) \in Int /\ Holds!Set(atHold) \in Int
        BY <1>1, <2>1, <2>2, <4>2, <4>3 DEF Holds!IsNumber
      <4>5. Holds!Abs(Holds!Set(atHold) - Holds!Set(atHold - 1)) > 2 * Holds!Band
        BY <2>4 DEF Holds!Entered
      <4> QED  BY <1>7, <4>2, <4>4, <4>5 DEF Holds!Abs, Holds!Band
    <3> QED  BY <1>6, <1>8, <2>3, <2>4, <3>1
  <2>5. CASE a # atHold
    <3>1. a \in 2 .. atHold - 1 /\ \A i \in a .. atHold - 1 : i \in a .. atHold
      BY <1>2, <2>5
    <3>2. HoldSteady(a, atHold - 1)
      BY <3>1 DEF HoldSteady
    <3>3. start = a
      BY <1>3, <3>1, <3>2 DEF Detected, NothingElse
    <3>4. ~Holds!Open
      BY <1>6, <3>1, <3>3
    <3>5. ~Holds!Depart
      <4>1. a \in Places /\ a \in a .. atHold
        BY <1>2, <2>1, <3>1 DEF Places
      <4>2. Holds!Set(a) \in Int /\ Holds!Set(atHold) \in Int
        BY <1>1, <2>1, <4>1 DEF HoldSteady, Holds!IsNumber
      <4>3. Holds!Abs(Holds!Set(atHold) - Holds!Set(a)) \in Int /\ Holds!Band \in Int
        BY <4>2 DEF Holds!Abs, Holds!Band
      <4> QED  BY <1>8, <2>2, <3>3, <4>3
    <3> QED  BY <1>7, <2>3, <3>3, <3>4, <3>5
  <2> QED  BY <2>4, <2>5
<1> QED  BY <1>10, <1>11, <1>12, <1>13 DEF Detected

-----------------------------------------------------------------------------
(* What was measured, read and said of the segments found.                   *)

Vote(filter) == IF Holds!Abstains(filter) THEN {} ELSE Holds!Swept(filter)
MayCount(seg) == ~Holds!Clipped(seg) /\ Holds!Refusal(seg) = "none"
Counted == {Holds!HoldOf(segments[k], Filters[1]) : k \in {j \in 1 .. looked : MayCount(segments[j])}}

WereMeasured ==
    /\ looked \in 0 .. Len(segments)
    /\ atHold <= Len(flownHold) + 1 => looked = 0
    /\ holds \in Seq(Counted)
    /\ \A k \in 1 .. looked : MayCount(segments[k]) =>
          \E j \in DOMAIN holds : holds[j] = Holds!HoldOf(segments[k], Filters[1])
AllLooked == atHold = Len(flownHold) + 2 /\ looked = Len(segments)
AllRead ==
    /\ readings \in Seq({Vote(Filters[k]) : k \in DOMAIN Filters})
    /\ readings # <<>> => AllLooked
    /\ Len(readings) <= Len(Filters)
    /\ \A k \in DOMAIN readings : readings[k] = Vote(Filters[k])
Advised ==
    /\ adviceHold # "none" => AllLooked /\ (Holds!Captured => Len(readings) = Len(Filters))
    /\ adviceHold = "I_TERM_WITHIN_TOLERANCE" =>
          Holds!Captured /\ Holds!EarnsAllClear(Holds!Shipped.codes)
    /\ Holds!Named # "none" =>
          Holds!Captured /\ Holds!SweepStable /\ Holds!Shipped.indication = Holds!Named
HoldsInv == Detected /\ WereMeasured /\ AllRead /\ Advised

\* What is measured of a segment depends on the flight alone.
LEMMA SameMeasures ==
    ASSUME flownHold' = flownHold
    PROVE  /\ \A seg : Holds!Refusal(seg)' = Holds!Refusal(seg)
           /\ \A seg, filter : Holds!HoldOf(seg, filter)' = Holds!HoldOf(seg, filter)
<1>1. \A seg : Holds!Refusal(seg)' = Holds!Refusal(seg)
  BY DEF Holds!Window, Holds!Time, Holds!rec, Holds!Refusal, Holds!Gappy, Holds!Values, Holds!With
<1>2. \A seg, filter : Holds!HoldOf(seg, filter)' = Holds!HoldOf(seg, filter)
  BY DEF Holds!Window, Holds!Time, Holds!rec, Holds!HoldOf, Holds!Values, Holds!With, Holds!Slope,
         Holds!DriftMeasurable
<1> QED  BY <1>1, <1>2

\* What is read in the holds depends on them and on the flight.
LEMMA SameReadings ==
    ASSUME flownHold' = flownHold, holds' = holds
    PROVE  /\ \A filter : Vote(filter)' = Vote(filter)
           /\ Holds!Captured' = Holds!Captured /\ Holds!Shipped' = Holds!Shipped
<1>1. Holds!Captured' = Holds!Captured /\ Holds!Shipped' = Holds!Shipped
  BY DEF Holds!Captured, Holds!Shipped
<1>2. \A filter : Holds!Swept(filter)' = Holds!Swept(filter)
  BY DEF Holds!Window, Holds!Time, Holds!rec, Holds!HoldOf, Holds!Values, Holds!With, Holds!Slope,
         Holds!DriftMeasurable, Holds!Swept, Holds!Rebuilt
<1>3. \A filter : Holds!Abstains(filter)' = Holds!Abstains(filter)
  BY DEF Holds!Abstains, Holds!Shipped
<1> QED  BY <1>1, <1>2, <1>3 DEF Vote

\* Nothing is found before the first sample.
LEMMA HoldsInit ==
    ASSUME HoldContract, Holds!Init
    PROVE  HoldsInv
<1>1. /\ flownHold \in HoldFlights /\ atHold = 1 /\ start = 0 /\ segments = <<>> /\ looked = 0
      /\ holds = <<>> /\ readings = <<>> /\ adviceHold = "none"
  BY DEF Holds!Init
<1>2. Len(flownHold) \in Nat
  BY <1>1, FlightLog
<1>3. HoldTypes /\ InProgress /\ AllHeld
  BY <1>1, <1>2 DEF HoldTypes, InProgress, AllHeld
<1>4. NothingElse /\ NothingMissed
  <2>1. \A a \in 2 .. atHold - 1 : FALSE
    BY <1>1
  <2>2. \A a, b \in Places : ~(a < b /\ b < atHold - 1)
    BY <1>1, <1>2 DEF Places
  <2> QED  BY <2>1, <2>2 DEF NothingElse, NothingMissed
<1>5. WereMeasured
  BY <1>1 DEF WereMeasured
<1>6. AllRead
  <2>1. Len(readings) <= Len(Filters) /\ DOMAIN readings = {}
    BY <1>1, HoldLimits
  <2> QED  BY <1>1, <2>1 DEF AllRead
<1>7. Advised
  BY <1>1 DEF Advised, Holds!Named
<1> QED  BY <1>3, <1>4, <1>5, <1>6, <1>7 DEF HoldsInv, Detected

\* While the detector reads, nothing is measured.
LEMMA DetectingMeasuresNothing ==
    ASSUME HoldContract, HoldsInv,
           Holds!Missing \/ Holds!Open \/ Holds!Stay \/ Holds!Depart \/ Holds!End
    PROVE  HoldsInv'
<1>1. Detected'
  BY DetectorSteps DEF HoldsInv
<1>2. /\ UNCHANGED <<flownHold, looked, holds, readings, adviceHold>>
      /\ atHold <= Len(flownHold) + 1
  <2>1. Len(flownHold) \in Nat /\ atHold \in Nat
    BY FlightLog DEF HoldsInv, Detected, HoldTypes
  <2>2. CASE Holds!End
    BY <2>1, <2>2 DEF Holds!End, Holds!rec
  <2>3. CASE Holds!Missing \/ Holds!Open \/ Holds!Stay \/ Holds!Depart
    BY <2>1, <2>3 DEF Holds!Missing, Holds!Open, Holds!Stay, Holds!Depart, Holds!Step, Holds!rec
  <2> QED  BY <2>2, <2>3
<1>3. looked = 0 /\ holds = <<>> /\ readings = <<>> /\ adviceHold = "none"
  <2>1. Len(flownHold) \in Nat /\ atHold \in Nat
    BY FlightLog DEF HoldsInv, Detected, HoldTypes
  <2>2. ~AllLooked
    BY <1>2, <2>1 DEF AllLooked
  <2>3. looked = 0
    BY <1>2 DEF HoldsInv, WereMeasured
  <2>4. Counted = {}
    BY <2>3 DEF Counted
  <2>5. holds \in Seq({})
    BY <2>4 DEF HoldsInv, WereMeasured
  <2>6. holds = <<>>
    BY <2>5
  <2> QED  BY <2>2, <2>3, <2>6 DEF HoldsInv, AllRead, Advised
<1>4. WereMeasured'
  <2>1. segments' \in Seq([from : Places, to : Places])'
    BY <1>1 DEF Detected, HoldTypes
  <2>2. Len(segments') \in Nat
    BY <2>1
  <2> QED  BY <1>2, <1>3, <2>2 DEF WereMeasured
<1>5. AllRead'
  <2>1. Len(readings') <= Len(Filters) /\ DOMAIN readings' = {}
    BY <1>2, <1>3, HoldLimits
  <2> QED  BY <1>2, <1>3, <2>1 DEF AllRead
<1>6. Advised'
  BY <1>2, <1>3 DEF Advised, Holds!Named
<1> QED  BY <1>1, <1>4, <1>5, <1>6 DEF HoldsInv

\* A step that leaves the detector alone leaves what it found.
LEMMA DetectedStays ==
    ASSUME Detected, UNCHANGED <<flownHold, atHold, start, segments>>
    PROVE  Detected'
<1>1. HoldTypes' /\ InProgress' /\ AllHeld'
  BY SameFlightLog DEF Detected, HoldTypes, InProgress, AllHeld
<1>2. NothingElse' /\ NothingMissed'
  BY SameFlightLog DEF Detected, NothingElse, NothingMissed
<1> QED  BY <1>1, <1>2 DEF Detected

\* One segment is measured.
LEMMA MeasuringSteps ==
    ASSUME HoldContract, HoldsInv, Holds!Skip \/ Holds!Refuse \/ Holds!Count
    PROVE  HoldsInv'
<1>1. /\ UNCHANGED <<flownHold, atHold, start, segments, readings, adviceHold>>
      /\ looked' = looked + 1 /\ looked < Len(segments) /\ atHold = Len(flownHold) + 2
  BY DEF Holds!Skip, Holds!Refuse, Holds!Count, Holds!Measuring, Holds!Measure, Holds!rec
<1>2. Detected'
  BY <1>1, DetectedStays DEF HoldsInv
<1>3. looked \in 0 .. Len(segments) /\ Len(segments) \in Nat /\ Len(flownHold) \in Nat
      /\ atHold \in Nat
  BY FlightLog DEF HoldsInv, WereMeasured, Detected, HoldTypes
<1>4. ~AllLooked /\ adviceHold = "none" /\ readings = <<>>
  <2>1. ~AllLooked
    BY <1>1, <1>3 DEF AllLooked
  <2> QED  BY <2>1 DEF HoldsInv, AllRead, Advised
<1>5. AllRead' /\ Advised'
  <2>1. Len(readings') <= Len(Filters) /\ DOMAIN readings' = {}
    BY <1>1, <1>4, HoldLimits
  <2> QED  BY <1>1, <1>4, <2>1 DEF AllRead, Advised, Holds!Named
<1> DEFINE seg == segments[looked + 1]
           h == Holds!HoldOf(seg, Filters[1])
<1>6. Counted' = IF MayCount(seg) THEN Counted \cup {h} ELSE Counted
  <2>1. \A s : MayCount(s)' = MayCount(s)
    BY <1>1, SameMeasures DEF MayCount, Holds!Clipped
  <2>2. Counted' = {Holds!HoldOf(segments[k], Filters[1]) : k \in {j \in 1 .. looked + 1 : MayCount(segments[j])}}
    BY <1>1, <2>1, SameMeasures DEF Counted
  <2>3. 1 .. looked + 1 = (1 .. looked) \cup {looked + 1}
    BY <1>3
  <2> QED  BY <2>2, <2>3 DEF Counted
<1>7. holds' = IF MayCount(seg) THEN Append(holds, h) ELSE holds
  <2>1. MayCount(seg) = (~Holds!Clipped(Holds!segment) /\ Holds!Refusal(Holds!segment) = "none")
        /\ h = Holds!HoldOf(Holds!segment, Filters[1])
    BY DEF MayCount, Holds!segment
  <2> HIDE DEF seg, h
  <2>2. CASE Holds!Count
    BY <2>1, <2>2 DEF Holds!Count, Holds!Measure
  <2>3. CASE Holds!Skip \/ Holds!Refuse
    BY <2>1, <2>3 DEF Holds!Skip, Holds!Refuse, Holds!Measure
  <2> QED  BY <2>2, <2>3
<1>8. holds \in Seq(Counted)
  BY DEF HoldsInv, WereMeasured
<1>9. WereMeasured'
  <2> HIDE DEF h
  <2>1. holds' \in Seq(Counted')
    <3>1. CASE MayCount(seg)
      <4> DEFINE C == Counted
                 D == Counted \cup {h}
      <4>1. holds \in Seq(C) /\ C \subseteq D /\ h \in D
        BY <1>8
      <4> HIDE DEF C, D
      <4>2. holds \in Seq(D) /\ Append(holds, h) \in Seq(D)
        BY <4>1
      <4> QED  BY <1>6, <1>7, <3>1, <4>2 DEF D
    <3>2. CASE ~MayCount(seg)
      BY <1>6, <1>7, <1>8, <3>2
    <3> QED  BY <3>1, <3>2
  <2>2. looked' \in 0 .. Len(segments') /\ ~(atHold' <= Len(flownHold') + 1)
    BY <1>1, <1>3
  <2>3. \A s : MayCount(s)' = MayCount(s)
    BY <1>1, SameMeasures DEF MayCount, Holds!Clipped
  <2>4. ASSUME NEW k \in 1 .. looked', MayCount(segments[k])
        PROVE  \E j \in DOMAIN holds' : holds'[j] = Holds!HoldOf(segments[k], Filters[1])
    <3>1. CASE k \in 1 .. looked
      <4>1. PICK j \in DOMAIN holds : holds[j] = Holds!HoldOf(segments[k], Filters[1])
        BY <2>4, <3>1 DEF HoldsInv, WereMeasured
      <4>2. j \in DOMAIN holds' /\ holds'[j] = holds[j]
        BY <1>7, <1>8
      <4> QED  BY <4>1, <4>2
    <3>2. CASE k = looked + 1
      <4>1. holds' = Append(holds, h)
        BY <1>7, <2>4, <3>2
      <4>2. Len(holds) + 1 \in DOMAIN holds' /\ holds'[Len(holds) + 1] = h
        BY <1>8, <4>1
      <4> QED  BY <3>2, <4>2 DEF h
    <3> QED  BY <1>1, <1>3, <2>4, <3>1, <3>2
  <2> QED  BY <1>1, <2>1, <2>2, <2>3, <2>4, SameMeasures DEF WereMeasured
<1> QED  BY <1>2, <1>5, <1>9 DEF HoldsInv

\* What is measured stays when it is only read.
LEMMA MeasuredStays ==
    ASSUME WereMeasured, UNCHANGED <<flownHold, atHold, segments, looked, holds>>
    PROVE  WereMeasured'
<1>1. \A s : MayCount(s)' = MayCount(s)
  BY SameMeasures DEF MayCount, Holds!Clipped
<1>2. Counted' = Counted
  BY <1>1, SameMeasures DEF Counted
<1> QED  BY <1>1, <1>2, SameMeasures DEF WereMeasured

\* One filter is tried.
LEMMA SweepSteps ==
    ASSUME HoldContract, HoldsInv, Holds!Sweep
    PROVE  HoldsInv'
<1>1. /\ UNCHANGED <<flownHold, atHold, start, segments, looked, holds, adviceHold>>
      /\ AllLooked /\ Holds!Captured /\ Len(readings) < Len(Filters)
      /\ readings' = Append(readings, Vote(Filters[Len(readings) + 1]))
  BY DEF Holds!Sweep, Holds!Sweeping, AllLooked, Vote, Holds!rec
<1>2. Detected' /\ WereMeasured'
  BY <1>1, DetectedStays, MeasuredStays DEF HoldsInv
<1>3. Filters \in Seq(Nat \ {0})
  BY HoldLimits
<1>4. readings \in Seq({Vote(Filters[k]) : k \in DOMAIN Filters})
  BY DEF HoldsInv, AllRead
<1>5. \A filter : Vote(filter)' = Vote(filter)
  BY <1>1, SameReadings
<1> DEFINE Votes == {Vote(Filters[k]) : k \in DOMAIN Filters}
           n == Len(readings) + 1
           vote == Vote(Filters[n])
<1>6. n \in DOMAIN Filters /\ n <= Len(Filters) /\ vote \in Votes
  BY <1>1, <1>3, <1>4
<1>7. \A k \in DOMAIN readings : readings[k] = Vote(Filters[k])
  BY DEF HoldsInv, AllRead
<1>8. readings \in Seq(Votes) /\ readings' = Append(readings, vote)
  BY <1>1, <1>4
<1>9. AllRead'
  <2>1. AllLooked'
    BY <1>1 DEF AllLooked
  <2>2. Votes' = Votes
    BY <1>5
  <2> HIDE DEF Votes, vote
  <2>3. /\ readings' \in Seq(Votes) /\ Len(readings') = n /\ DOMAIN readings' = 1 .. n
        /\ readings'[n] = vote /\ \A k \in 1 .. n - 1 : readings'[k] = readings[k]
        /\ DOMAIN readings = 1 .. n - 1 /\ n \in Nat
    BY <1>6, <1>8
  <2>4. \A k \in DOMAIN readings' : readings'[k] = Vote(Filters[k])
    <3> TAKE k \in DOMAIN readings'
    <3>1. k = n \/ k \in 1 .. n - 1
      BY <2>3
    <3> QED  BY <1>7, <2>3, <3>1 DEF vote
  <2> QED  BY <1>5, <1>6, <2>1, <2>2, <2>3, <2>4 DEF AllRead, Votes
<1>10. adviceHold = "none"
  BY <1>1, <1>3, <1>4 DEF HoldsInv, Advised
<1>11. Advised'
  BY <1>1, <1>10 DEF Advised, Holds!Named
<1> QED  BY <1>2, <1>9, <1>11 DEF HoldsInv

\* What each verdict of a capture takes.
LEMMA VerdictTakes ==
    ASSUME NEW indication, NEW codes
    PROVE  LET verdict == Holds!CapturedFinding(indication, codes) IN
           /\ verdict = "I_TERM_WITHIN_TOLERANCE" => Holds!EarnsAllClear(codes)
           /\ verdict = "I_TOO_HIGH" => indication = "decrease"
           /\ verdict = "I_TOO_LOW" => indication = "increase"
BY DEF Holds!CapturedFinding

\* A named gain and an all clear are those of a capture.
LEMMA FindingTakes ==
    ASSUME NEW frame
    PROVE  LET finding == Holds!HoldFinding(frame) IN
           /\ finding = "I_TERM_WITHIN_TOLERANCE" =>
                 Holds!Captured /\ Holds!EarnsAllClear(Holds!Shipped.codes)
           /\ finding = "I_TOO_HIGH" =>
                 Holds!Captured /\ Holds!SweepStable /\ Holds!Shipped.indication = "decrease"
           /\ finding = "I_TOO_LOW" =>
                 Holds!Captured /\ Holds!SweepStable /\ Holds!Shipped.indication = "increase"
<1> DEFINE finding == Holds!HoldFinding(frame)
           ind(s, why) == IF why = "none" THEN s.indication ELSE "hold"
           all(s, why) == s.codes \cup Holds!Codes(why # "none", why)
           G(s, why) == Holds!CapturedFinding(ind(s, why), all(s, why))
           F(s) == CHOOSE y \in {G(s, why) : why \in {Holds!NotTheITerm(s.indication)}} : TRUE
           shipped == Holds!Shipped
           reason == Holds!NotTheITerm(shipped.indication)
           told == CHOOSE y \in {F(s) : s \in {shipped}} : TRUE
<1>1. finding \in {"I_TERM_WITHIN_TOLERANCE", "I_TOO_HIGH", "I_TOO_LOW"} =>
         Holds!Captured /\ Holds!SweepStable /\ finding = told
  BY DEF Holds!HoldFinding, Holds!With
<1>2. told = G(shipped, reason)
  <2>1. told = F(shipped)
    <3> HIDE DEF F, shipped
    <3> QED  OBVIOUS
  <2>2. F(shipped) = G(shipped, reason)
    <3> HIDE DEF G, shipped
    <3> QED  OBVIOUS
  <2> QED  BY <2>1, <2>2
<1>3. reason # "HOLD_EVIDENCE_WITHIN_TOLERANCE"
  BY DEF Holds!NotTheITerm
<1> HIDE DEF finding, told, shipped, reason
<1>4. /\ told = "I_TERM_WITHIN_TOLERANCE" => Holds!EarnsAllClear(all(shipped, reason))
      /\ told = "I_TOO_HIGH" => ind(shipped, reason) = "decrease"
      /\ told = "I_TOO_LOW" => ind(shipped, reason) = "increase"
  <2> HIDE DEF ind, all
  <2> QED  BY <1>2, VerdictTakes
<1>5. Holds!EarnsAllClear(all(shipped, reason)) => Holds!EarnsAllClear(shipped.codes)
  <2> DEFINE codes == shipped.codes
             more == Holds!Codes(reason # "none", reason)
  <2>1. more \subseteq {reason} /\ all(shipped, reason) = codes \cup more
    BY DEF Holds!Codes
  <2> HIDE DEF codes, more, all
  <2>2. Holds!EarnsAllClear(codes \cup more) => Holds!EarnsAllClear(codes)
    <3>1. "HOLD_EVIDENCE_WITHIN_TOLERANCE" \notin more
      BY <1>3, <2>1
    <3> QED  BY <3>1, Zenon DEF Holds!EarnsAllClear
  <2> QED  BY <2>1, <2>2 DEF codes
<1>6. /\ ind(shipped, reason) = "decrease" => shipped.indication = "decrease"
      /\ ind(shipped, reason) = "increase" => shipped.indication = "increase"
  OBVIOUS
<1> HIDE DEF ind, all
<1> QED  BY <1>1, <1>4, <1>5, <1>6 DEF finding, shipped

\* The pilot is told.
LEMMA JudgeSteps ==
    ASSUME HoldContract, HoldsInv, Holds!Judge
    PROVE  HoldsInv'
<1>1. /\ UNCHANGED <<flownHold, atHold, start, segments, looked, holds, readings>>
      /\ AllLooked /\ ~Holds!Sweeping
  BY DEF Holds!Judge, AllLooked, Holds!rec
<1>2. PICK frame \in {"permitted", "blocked"} : adviceHold' = Holds!HoldFinding(frame)
  BY DEF Holds!Judge
<1>3. Detected' /\ WereMeasured'
  BY <1>1, DetectedStays, MeasuredStays DEF HoldsInv
<1>4. \A filter : Vote(filter)' = Vote(filter)
  BY <1>1, SameReadings
<1>5. AllRead'
  BY <1>1, <1>4 DEF HoldsInv, AllRead, AllLooked
<1>6. AllLooked' /\ (Holds!Captured' => Len(readings') = Len(Filters))
  <2>1. Len(readings) <= Len(Filters) /\ Len(readings) \in Nat /\ Len(Filters) \in Nat
    BY HoldLimits DEF HoldsInv, AllRead
  <2>2. Holds!Captured => ~(Len(readings) < Len(Filters))
    BY <1>1 DEF Holds!Sweeping, AllLooked, Holds!rec
  <2>3. Holds!Captured' = Holds!Captured
    BY <1>1, SameReadings
  <2> QED  BY <1>1, <2>1, <2>2, <2>3 DEF AllLooked
<1>7. Advised'
  <2>1. Holds!Captured' = Holds!Captured /\ Holds!Shipped' = Holds!Shipped
    BY <1>1, SameReadings
  <2>2. Holds!SweepStable' = Holds!SweepStable
    BY <1>1 DEF Holds!SweepStable, Holds!Seen
  <2>3. Holds!Named' = IF adviceHold' = "I_TOO_LOW" THEN "increase"
                       ELSE IF adviceHold' = "I_TOO_HIGH" THEN "decrease" ELSE "none"
    BY DEF Holds!Named
  <2>4. \A c : Holds!EarnsAllClear(c)' = Holds!EarnsAllClear(c)
    OBVIOUS
  <2> QED  BY <1>2, <1>6, <2>1, <2>2, <2>3, <2>4, FindingTakes DEF Advised
<1> QED  BY <1>3, <1>5, <1>7 DEF HoldsInv

\* The inductive invariant of the holds.
LEMMA HoldsInvariant ==
    ASSUME HoldContract
    PROVE  Holds!Spec => []HoldsInv
<1>1. Holds!Init => HoldsInv
  BY HoldsInit
<1>2. HoldsInv /\ [Holds!Next]_(Holds!vars) => HoldsInv'
  <2> SUFFICES ASSUME HoldsInv, [Holds!Next]_(Holds!vars) PROVE HoldsInv'
    OBVIOUS
  <2>1. CASE Holds!Missing \/ Holds!Open \/ Holds!Stay \/ Holds!Depart \/ Holds!End
    BY <2>1, DetectingMeasuresNothing
  <2>2. CASE Holds!Skip \/ Holds!Refuse \/ Holds!Count
    BY <2>2, MeasuringSteps
  <2>3. CASE Holds!Sweep
    BY <2>3, SweepSteps
  <2>4. CASE Holds!Judge
    BY <2>4, JudgeSteps
  <2>5. CASE Holds!Settled \/ UNCHANGED Holds!vars
    <3>1. UNCHANGED <<flownHold, atHold, start, segments, looked, holds, readings, adviceHold>>
      BY <2>5 DEF Holds!Settled, Holds!vars
    <3>2. Detected' /\ WereMeasured'
      BY <3>1, DetectedStays, MeasuredStays DEF HoldsInv
    <3>3. AllRead'
      BY <3>1, SameReadings DEF HoldsInv, AllRead, AllLooked
    <3>4. Advised'
      <4>1. Holds!Captured' = Holds!Captured /\ Holds!Shipped' = Holds!Shipped
        BY <3>1, SameReadings
      <4>2. Holds!SweepStable' = Holds!SweepStable /\ Holds!Named' = Holds!Named
            /\ AllLooked' = AllLooked
        BY <3>1 DEF Holds!SweepStable, Holds!Seen, Holds!Named, AllLooked
      <4> QED  BY <3>1, <4>1, <4>2 DEF HoldsInv, Advised
    <3> QED  BY <3>2, <3>3, <3>4 DEF HoldsInv
  <2> QED  BY <2>1, <2>2, <2>3, <2>4, <2>5 DEF Holds!Next
<1> QED  BY <1>1, <1>2, PTL DEF Holds!Spec

-----------------------------------------------------------------------------
(* The measured part of a segment.                                           *)

MeasuredPlaces(seg) ==
    {i \in Places : Holds!Time(i) >= Holds!Time(seg.from) + HoldSettle /\ Holds!Time(i) <= Holds!Time(seg.to)}
IsSegment(seg) == seg \in [from : Places, to : Places] /\ IsHeld(seg)

\* It runs sample by sample from the first that has settled to the last.
LEMMA WindowIs ==
    ASSUME HoldContract, flownHold \in HoldFlights, NEW seg, IsSegment(seg)
    PROVE  LET w == Holds!Window(seg)
               places == MeasuredPlaces(seg)
           IN  /\ w \in Seq(Places) /\ Len(w) \in Nat \ {0} /\ DOMAIN w = 1 .. Len(w)
               /\ \A i \in Places : i \in places <=>
                     i \in seg.from .. seg.to /\ Holds!Time(i) >= Holds!Time(seg.from) + HoldSettle
               /\ \A k \in DOMAIN w : w[k] \in places
               /\ \A i \in places : \E k \in DOMAIN w : w[k] = i
               /\ \A k, l \in DOMAIN w : k < l => w[k] < w[l]
               /\ \A k \in 2 .. Len(w) : w[k - 1] = w[k] - 1
               /\ seg.to \in places
<1> DEFINE w == Holds!Window(seg)
           places == MeasuredPlaces(seg)
<1>1. /\ Len(flownHold) \in Nat /\ DOMAIN flownHold = Places
      /\ \A i \in Places : Holds!Time(i) \in Int
      /\ \A i, j \in Places : i < j => Holds!Time(i) < Holds!Time(j)
  BY FlightLog
<1>2. HoldSettle \in Nat /\ MinMeasure \in Nat \ {0}
  BY HoldLimits
<1>3. seg.from \in Places /\ seg.to \in Places /\ seg.from < seg.to
      /\ Holds!Time(seg.to) - Holds!Time(seg.from) >= HoldSettle + MinMeasure
  BY DEF IsSegment, IsHeld, HoldLong
<1>4. Places \subseteq Nat /\ IsFiniteSet(Places)
  <2>1. 1 \in Int /\ Len(flownHold) \in Int
    BY <1>1
  <2> QED  BY <2>1, FS_Interval DEF Places
<1>5. w = Holds!InOrder(places)
  BY <1>1 DEF Holds!Window, MeasuredPlaces, Holds!rec
<1>6. places \subseteq Places /\ IsFiniteSet(places) /\ places \subseteq Nat
  BY <1>4, FS_Subset DEF MeasuredPlaces
<1>7. ASSUME NEW i \in Places
      PROVE  i \in places <=>
                i \in seg.from .. seg.to /\ Holds!Time(i) >= Holds!Time(seg.from) + HoldSettle
  <2>1. i \in Nat /\ seg.from \in Nat /\ seg.to \in Nat
    BY <1>3, <1>4
  <2>2. Holds!Time(i) \in Int /\ Holds!Time(seg.from) \in Int /\ Holds!Time(seg.to) \in Int
    BY <1>1, <1>3
  <2>3. (i < seg.from => Holds!Time(i) < Holds!Time(seg.from))
        /\ (seg.to < i => Holds!Time(seg.to) < Holds!Time(i))
        /\ (i < seg.to => Holds!Time(i) < Holds!Time(seg.to))
    BY <1>1, <1>3
  <2>4. i \in places <=> /\ Holds!Time(i) >= Holds!Time(seg.from) + HoldSettle
                         /\ Holds!Time(i) <= Holds!Time(seg.to)
    BY DEF MeasuredPlaces
  <2> HIDE DEF places
  <2>5. i \in places => i \in seg.from .. seg.to
    BY <1>2, <2>1, <2>2, <2>3, <2>4
  <2>6. i \in seg.from .. seg.to => Holds!Time(i) <= Holds!Time(seg.to)
    BY <2>1, <2>2, <2>3
  <2> QED  BY <2>4, <2>5, <2>6
<1>15. seg.from \in Nat /\ seg.to \in Nat
  <2>1. Places \subseteq Nat /\ seg.from \in Places /\ seg.to \in Places
    BY <1>3, <1>4
  <2> QED  BY <2>1
<1>8. seg.to \in places
  <2>1. seg.to \in seg.from .. seg.to
    BY <1>3, <1>15
  <2>2. Holds!Time(seg.to) >= Holds!Time(seg.from) + HoldSettle
    BY <1>1, <1>2, <1>3
  <2> QED  BY <1>3, <1>7, <2>1, <2>2
<1> HIDE DEF places
<1>9. /\ IsOrder(w, places) /\ w \in Seq(places)
      /\ Len(w) = Cardinality(places) /\ Cardinality(places) \in Nat
  BY <1>5, <1>6, InOrderIs
<1> HIDE DEF w
<1>10. w \in Seq(Places) /\ DOMAIN w = 1 .. Len(w) /\ Len(w) \in Nat
  <2>1. w \in Seq(places) /\ places \subseteq Places
    BY <1>6, <1>9
  <2> QED  BY <2>1
<1>11. /\ \A k \in DOMAIN w : w[k] \in places
       /\ \A k, l \in DOMAIN w : k < l => w[k] < w[l]
       /\ \A i \in places : \E k \in DOMAIN w : w[k] = i
  BY <1>9 DEF IsOrder
<1>12. Len(w) # 0
  BY <1>8, <1>10, <1>11
<1>13. ASSUME NEW k \in 2 .. Len(w) PROVE w[k - 1] = w[k] - 1
  <2>1. k \in DOMAIN w /\ k - 1 \in DOMAIN w /\ k - 1 < k /\ k \in Nat
    BY <1>10
  <2>2. w[k - 1] \in places /\ w[k] \in places /\ w[k - 1] < w[k]
    BY <1>11, <2>1
  <2> DEFINE m == w[k - 1]
             n == w[k]
  <2>3. m \in places /\ n \in places /\ m < n /\ m \in Nat /\ n \in Nat /\ m \in Places /\ n \in Places
    BY <1>6, <2>2
  <2>4. \A i \in places : ~(m < i /\ i < n)
    <3> SUFFICES ASSUME NEW i \in places, m < i, i < n PROVE FALSE
      OBVIOUS
    <3>1. PICK l \in DOMAIN w : w[l] = i
      BY <1>11
    <3>2. l \in Nat /\ i \in Nat
      BY <1>6, <1>10
    <3>3. ~(l < k) \/ ~(k - 1 < l)
      BY <2>1, <3>2
    <3>4. l <= k - 1 => ~(m < i)
      <4>1. l < k - 1 => i < m
        BY <1>11, <2>1, <3>1
      <4>2. l = k - 1 => i = m
        BY <3>1
      <4> QED  BY <2>1, <2>3, <3>2, <4>1, <4>2
    <3>5. k <= l => ~(i < n)
      <4>1. k < l => n < i
        BY <1>11, <2>1, <3>1
      <4>2. l = k => i = n
        BY <3>1
      <4> QED  BY <2>1, <2>3, <3>2, <4>1, <4>2
    <3>6. l <= k - 1 \/ k <= l
      BY <2>1, <3>2
    <3> QED  BY <3>4, <3>5, <3>6
  <2> HIDE DEF m, n
  <2>5. ASSUME m + 1 < n PROVE FALSE
    <3>1. m + 1 \in Places /\ m < m + 1
      BY <1>1, <2>3, <2>5 DEF Places
    <3>2. m \in seg.from .. seg.to /\ Holds!Time(m) >= Holds!Time(seg.from) + HoldSettle
          /\ n \in seg.from .. seg.to
      BY <1>7, <2>3
    <3>3. m + 1 \in seg.from .. seg.to
      BY <1>15, <2>3, <2>5, <3>2
    <3>4. Holds!Time(m) < Holds!Time(m + 1)
      BY <1>1, <2>3, <3>1
    <3>5. Holds!Time(m) \in Int /\ Holds!Time(m + 1) \in Int /\ Holds!Time(seg.from) \in Int
      BY <1>1, <1>3, <2>3, <3>1
    <3>6. Holds!Time(m + 1) >= Holds!Time(seg.from) + HoldSettle
      BY <1>2, <3>2, <3>4, <3>5
    <3>7. m + 1 \in places
      BY <1>7, <3>1, <3>3, <3>6
    <3> QED  BY <2>4, <2>5, <3>1, <3>7
  <2>6. m = n - 1
    BY <2>3, <2>5
  <2> QED  BY <2>6 DEF m, n
<1>14. Len(w) \in Nat \ {0}
  BY <1>10, <1>12
<1> QED  BY <1>7, <1>8, <1>10, <1>11, <1>13, <1>14 DEF w, places

\* What it takes for a segment to count.
CountsOn(seg, w) ==
    /\ Holds!Time(seg.to) - (Holds!Time(seg.from) + HoldSettle) >= MinMeasure
    /\ Len(w) >= 2
    /\ ~Holds!Gappy(seg, w)
    /\ \A k \in DOMAIN w : ~(flownHold[w[k]].off > Holds!OffAxis)
    /\ \A k \in DOMAIN w : ~Holds!Unspun(flownHold[w[k]].head)
    /\ ~Holds!SpanOver([k \in DOMAIN w |-> flownHold[w[k]].head], Holds!HeadLimit)
    /\ ~Holds!SpanOver(Holds!Numbers([k \in DOMAIN w |-> flownHold[w[k]].vbat]), Holds!BatteryLimit)

\* A hold is not refused exactly when the samples of its window pass each test.
LEMMA RefusalIs ==
    ASSUME HoldContract, flownHold \in HoldFlights, NEW seg, IsSegment(seg)
    PROVE  Holds!Refusal(seg) = "none" <=> CountsOn(seg, Holds!Window(seg))
<1> DEFINE heads(w) == [k \in DOMAIN w |-> flownHold[w[k]].head]
           volts(w) == [k \in DOMAIN w |-> flownHold[w[k]].vbat]
           short == Holds!Time(seg.to) - (Holds!Time(seg.from) + HoldSettle) < MinMeasure
           F(w) == IF short THEN "HOLD_TOO_SHORT_AFTER_SETTLE"
                   ELSE IF Len(w) < 2 THEN "HOLD_WINDOW_EMPTY"
                   ELSE IF Holds!Gappy(seg, w) THEN "HOLD_SAMPLE_GAP_TOO_LARGE"
                   ELSE IF \E k \in DOMAIN w : flownHold[w[k]].off > Holds!OffAxis
                        THEN "HOLD_OFF_AXIS_INPUT"
                   ELSE IF \E k \in DOMAIN w : Holds!Unspun(flownHold[w[k]].head)
                        THEN "HOLD_HEADSPEED_INVALID"
                   ELSE IF Holds!SpanOver(heads(w), Holds!HeadLimit) THEN "HOLD_HEADSPEED_UNSTABLE"
                   ELSE IF Holds!SpanOver(Holds!Numbers(volts(w)), Holds!BatteryLimit)
                        THEN "HOLD_BATTERY_UNSTABLE"
                   ELSE "none"
           w == Holds!Window(seg)
<1>1. Holds!Refusal(seg) = CHOOSE y \in {F(z) : z \in {w}} : TRUE
  BY DEF Holds!Refusal, Holds!With, Holds!Values, Holds!rec
<1>2. Holds!Refusal(seg) = F(w)
  <2> HIDE DEF F, w
  <2> QED  BY <1>1
<1>3. Len(w) \in Nat
  BY WindowIs
<1>4. short <=> ~(Holds!Time(seg.to) - (Holds!Time(seg.from) + HoldSettle) >= MinMeasure)
  <2>1. Holds!Time(seg.to) \in Int /\ Holds!Time(seg.from) \in Int /\ HoldSettle \in Int /\ MinMeasure \in Int
    BY FlightLog, HoldLimits DEF IsSegment
  <2> QED  BY <2>1
<1> HIDE DEF w, short, heads, volts
<1>5. F(w) = "none" <=>
         /\ ~short /\ ~(Len(w) < 2) /\ ~Holds!Gappy(seg, w)
         /\ \A k \in DOMAIN w : ~(flownHold[w[k]].off > Holds!OffAxis)
         /\ \A k \in DOMAIN w : ~Holds!Unspun(flownHold[w[k]].head)
         /\ ~Holds!SpanOver(heads(w), Holds!HeadLimit)
         /\ ~Holds!SpanOver(Holds!Numbers(volts(w)), Holds!BatteryLimit)
  OBVIOUS
<1>6. ~(Len(w) < 2) <=> Len(w) >= 2
  BY <1>3
<1> HIDE DEF F
<1> QED  BY <1>2, <1>4, <1>5, <1>6 DEF CountsOn, heads, volts, w

\* The error over a window, in hundredths.
HoldErrors(w) == [k \in DOMAIN w |-> 100 * (flownHold[w[k]].set - flownHold[w[k]].gyro)]

\* What measureHold computes, one measure at a time.
LEMMA HoldOfIs ==
    ASSUME NEW seg, NEW filter
    PROVE  LET h == Holds!HoldOf(seg, filter)
               w == Holds!Window(seg)
               errors == HoldErrors(w)
               slow == Holds!Smoothed(errors, filter)
               error == Holds!Mean(errors)
           IN  /\ h.from = seg.from /\ h.to = seg.to
               /\ h.weight = Holds!Time(seg.to) - Holds!Time(seg.from) - HoldSettle
               /\ h.error = error
               /\ h.ripple = Holds!Rms([k \in DOMAIN slow |-> slow[k] - error])
               /\ h.noise = Holds!Rms([k \in DOMAIN slow |-> errors[k] - slow[k]])
               /\ h.rate = (1000 * Holds!Crossings(slow))
                              \div (Holds!Time(w[Len(w)]) - Holds!Time(w[1]))
<1> DEFINE asked(w) == Holds!Quantile([k \in DOMAIN w |-> flownHold[w[k]].set], 50)
           iTerms(w) == [k \in DOMAIN w |-> flownHold[w[k]].i]
           M(w, errors, slow) ==
              [from |-> seg.from, to |-> seg.to,
               weight |-> Holds!Time(seg.to) - Holds!Time(seg.from) - HoldSettle,
               kind |-> IF Holds!Abs(asked(w)) < 100 * Holds!ZeroHold THEN "zero" ELSE "sustained",
               turn |-> IF Holds!Abs(asked(w)) < 100 * Holds!ZeroHold THEN 0
                        ELSE Holds!SignOf(asked(w)),
               error |-> Holds!Mean(errors),
               drift |-> Holds!Slope(w, errors),
               drifts |-> Holds!DriftMeasurable(w, slow, Holds!Slope(w, errors), filter),
               ripple |-> Holds!Rms([k \in DOMAIN slow |-> slow[k] - Holds!Mean(errors)]),
               rate |-> (1000 * Holds!Crossings(slow))
                           \div (Holds!Time(w[Len(w)]) - Holds!Time(w[1])),
               noise |-> Holds!Rms([k \in DOMAIN slow |-> errors[k] - slow[k]]),
               iMean |-> Holds!Mean(iTerms(w)), iRms |-> Holds!Rms(iTerms(w)),
               iDrift |-> Holds!Slope(w, iTerms(w))]
           S(w, errors) == CHOOSE y \in {M(w, errors, slow) : slow \in {Holds!Smoothed(errors, filter)}} : TRUE
           E(w) == CHOOSE y \in {S(w, errors) : errors \in {HoldErrors(w)}} : TRUE
           window == Holds!Window(seg)
           wrong == HoldErrors(window)
           smooth == Holds!Smoothed(wrong, filter)
<1>1. Holds!HoldOf(seg, filter) = CHOOSE y \in {E(w) : w \in {window}} : TRUE
  BY DEF Holds!HoldOf, Holds!With, Holds!Values, Holds!ErrorOf, Holds!rec, HoldErrors
<1>2. Holds!HoldOf(seg, filter) = M(window, wrong, smooth)
  <2>1. Holds!HoldOf(seg, filter) = E(window)
    <3> HIDE DEF E, window
    <3> QED  BY <1>1
  <2>2. E(window) = S(window, wrong)
    <3> HIDE DEF S, window
    <3> QED  OBVIOUS
  <2>3. S(window, wrong) = M(window, wrong, smooth)
    <3> HIDE DEF M, window
    <3> QED  OBVIOUS
  <2> HIDE DEF E, S, M, window
  <2> QED  BY <2>1, <2>2, <2>3
<1> HIDE DEF window, wrong, smooth, asked, iTerms
<1>3. /\ M(window, wrong, smooth).from = seg.from /\ M(window, wrong, smooth).to = seg.to
      /\ M(window, wrong, smooth).weight = Holds!Time(seg.to) - Holds!Time(seg.from) - HoldSettle
      /\ M(window, wrong, smooth).error = Holds!Mean(wrong)
      /\ M(window, wrong, smooth).ripple = Holds!Rms([k \in DOMAIN smooth |-> smooth[k] - Holds!Mean(wrong)])
      /\ M(window, wrong, smooth).noise = Holds!Rms([k \in DOMAIN smooth |-> wrong[k] - smooth[k]])
      /\ M(window, wrong, smooth).rate = (1000 * Holds!Crossings(smooth))
              \div (Holds!Time(window[Len(window)]) - Holds!Time(window[1]))
  OBVIOUS
<1> HIDE DEF M
<1> QED  BY <1>2, <1>3 DEF window, wrong, smooth

IsMeasure(h) ==
    /\ h.weight \in Nat \ {0} /\ h.error \in Int /\ h.ripple \in Nat /\ h.noise \in Nat
    /\ h.rate \in Int

\* A hold that counts is measured by numbers, whatever the filter.
LEMMA HoldIsMeasured ==
    ASSUME HoldContract, flownHold \in HoldFlights, NEW seg, IsSegment(seg),
           Holds!Refusal(seg) = "none", NEW filter \in Nat
    PROVE  IsMeasure(Holds!HoldOf(seg, filter))
<1> DEFINE h == Holds!HoldOf(seg, filter)
           w == Holds!Window(seg)
           errors == HoldErrors(w)
           slow == Holds!Smoothed(errors, filter)
           error == Holds!Mean(errors)
           moved == [k \in DOMAIN slow |-> slow[k] - error]
           left == [k \in DOMAIN slow |-> errors[k] - slow[k]]
           span == Holds!Time(w[Len(w)]) - Holds!Time(w[1])
<1>1. /\ h.weight = Holds!Time(seg.to) - Holds!Time(seg.from) - HoldSettle
      /\ h.error = error /\ h.ripple = Holds!Rms(moved) /\ h.noise = Holds!Rms(left)
      /\ h.rate = (1000 * Holds!Crossings(slow)) \div span
  BY HoldOfIs
<1>2. /\ w \in Seq(Places) /\ Len(w) \in Nat /\ DOMAIN w = 1 .. Len(w)
      /\ \A k \in DOMAIN w : w[k] \in seg.from .. seg.to
      /\ \A k, l \in DOMAIN w : k < l => w[k] < w[l]
      /\ \A k \in DOMAIN w : w[k] \in Places
  <2>1. /\ w \in Seq(Places) /\ Len(w) \in Nat /\ DOMAIN w = 1 .. Len(w)
        /\ \A k \in DOMAIN w : w[k] \in MeasuredPlaces(seg)
        /\ \A i \in Places : i \in MeasuredPlaces(seg) => i \in seg.from .. seg.to
        /\ \A k, l \in DOMAIN w : k < l => w[k] < w[l]
    BY WindowIs
  <2> HIDE DEF w
  <2>2. \A k \in DOMAIN w : w[k] \in Places
    BY <2>1
  <2> QED  BY <2>1, <2>2
<1>3. Len(w) >= 2
  BY RefusalIs DEF CountsOn
<1>4. /\ \A i \in Places : Holds!Time(i) \in Int /\ flownHold[i] \in Holds!Record
                           /\ Holds!Set(i) \in Int \cup {HoldNaN}
      /\ \A i, j \in Places : i < j => Holds!Time(i) < Holds!Time(j)
  BY FlightLog
<1>5. HoldSteady(seg.from, seg.to) /\ HoldLong(seg.from, seg.to)
      /\ seg.from \in Places /\ seg.to \in Places
  BY DEF IsSegment, IsHeld
<1>6. HoldSettle \in Nat /\ MinMeasure \in Nat \ {0}
  BY HoldLimits
<1> HIDE DEF h, w
<1>7. h.weight \in Nat \ {0}
  <2>1. Holds!Time(seg.to) \in Int /\ Holds!Time(seg.from) \in Int
    BY <1>4, <1>5
  <2>2. Holds!Time(seg.to) - Holds!Time(seg.from) >= HoldSettle + MinMeasure
    BY <1>5 DEF HoldLong
  <2> QED  BY <1>1, <1>6, <2>1, <2>2
<1>8. errors \in Seq(Int) /\ Len(errors) = Len(w)
  <2>1. ASSUME NEW k \in 1 .. Len(w)
        PROVE  100 * (flownHold[w[k]].set - flownHold[w[k]].gyro) \in Int
    <3>1. w[k] \in Places /\ w[k] \in seg.from .. seg.to
      BY <1>2
    <3> DEFINE i == w[k]
    <3> HIDE DEF i
    <3>2. i \in Places /\ i \in seg.from .. seg.to
      BY <3>1 DEF i
    <3>3. Holds!Set(i) \in Int
      BY <1>4, <1>5, <3>2 DEF HoldSteady, Holds!IsNumber
    <3>4. flownHold[i].set \in Int
      BY <3>3 DEF Holds!Set, Holds!rec
    <3>5. flownHold[i].gyro \in Int
      BY <1>4, <3>2 DEF Holds!Record
    <3>6. 100 * (flownHold[i].set - flownHold[i].gyro) \in Int
      BY <3>4, <3>5
    <3> QED  BY <3>6 DEF i
  <2>2. errors = [k \in 1 .. Len(w) |-> 100 * (flownHold[w[k]].set - flownHold[w[k]].gyro)]
    BY <1>2 DEF HoldErrors
  <2> HIDE DEF errors
  <2> QED  BY <1>2, <2>1, <2>2
<1> HIDE DEF errors
<1>9. errors # <<>> /\ slow \in Seq(Int) /\ Len(slow) = Len(w) /\ slow # <<>>
  <2>1. slow \in Seq(Int) /\ Len(slow) = Len(errors)
    BY <1>8, SmoothedIsWhole
  <2> HIDE DEF slow
  <2> QED  BY <1>3, <1>8, <2>1
<1> HIDE DEF slow
<1>10. error \in Int
  BY <1>8, <1>9, MeanIsWhole
<1> HIDE DEF error
<1>11. /\ moved \in Seq(Int) /\ moved # <<>> /\ left \in Seq(Int) /\ left # <<>>
  <2>1. /\ DOMAIN slow = 1 .. Len(w) /\ DOMAIN errors = 1 .. Len(w)
        /\ \A k \in 1 .. Len(w) : slow[k] \in Int /\ errors[k] \in Int
    BY <1>2, <1>8, <1>9
  <2>2. moved = [k \in 1 .. Len(w) |-> slow[k] - error] /\ left = [k \in 1 .. Len(w) |-> errors[k] - slow[k]]
        /\ \A k \in 1 .. Len(w) : slow[k] - error \in Int /\ errors[k] - slow[k] \in Int
    BY <1>10, <2>1
  <2> HIDE DEF moved, left
  <2>3. moved \in Seq(Int) /\ Len(moved) = Len(w)
    BY <1>2, <2>2
  <2>4. left \in Seq(Int) /\ Len(left) = Len(w)
    BY <1>2, <2>2
  <2> QED  BY <1>3, <2>3, <2>4
<1> HIDE DEF moved, left
<1>12. h.error \in Int /\ h.ripple \in Nat /\ h.noise \in Nat
  BY <1>1, <1>10, <1>11, MeanIsWhole
<1>13. span \in Nat \ {0}
  <2>1. 1 \in DOMAIN w /\ Len(w) \in DOMAIN w /\ 1 < Len(w)
    BY <1>2, <1>3
  <2>2. w[1] \in Places /\ w[Len(w)] \in Places /\ w[1] < w[Len(w)]
    BY <1>2, <2>1
  <2>3. Holds!Time(w[1]) \in Int /\ Holds!Time(w[Len(w)]) \in Int
        /\ Holds!Time(w[1]) < Holds!Time(w[Len(w)])
    BY <1>4, <2>2
  <2> QED  BY <2>3
<1> HIDE DEF span
<1>14. h.rate \in Int
  <2>1. Holds!Crossings(slow) \in Nat
    BY <1>9, CrossingsAreNat
  <2> QED  BY <1>1, <1>13, <2>1
<1> QED  BY <1>7, <1>12, <1>14 DEF IsMeasure, h

\* The least of a set of numbers, as the instance takes it.
LEMMA SameLeast ==
    ASSUME NEW S, S \subseteq Nat, S # {}
    PROVE  Holds!Min(S) \in S /\ \A x \in S : Holds!Min(S) <= x
<1>1. Holds!Min(S) = Min(S)
  BY DEF Holds!Min, Min
<1> QED  BY <1>1, MinOfSet

\* A hold has the bounds of its segment.
LEMMA HoldBounds ==
    ASSUME NEW seg, NEW filter
    PROVE  Holds!HoldOf(seg, filter).from = seg.from /\ Holds!HoldOf(seg, filter).to = seg.to
<1> DEFINE h == Holds!HoldOf(seg, filter)
           w == Holds!Window(seg)
           errors == HoldErrors(w)
           slow == Holds!Smoothed(errors, filter)
           error == Holds!Mean(errors)
<1>1. /\ h.from = seg.from /\ h.to = seg.to
      /\ h.weight = Holds!Time(seg.to) - Holds!Time(seg.from) - HoldSettle
      /\ h.error = error
      /\ h.ripple = Holds!Rms([k \in DOMAIN slow |-> slow[k] - error])
      /\ h.noise = Holds!Rms([k \in DOMAIN slow |-> errors[k] - slow[k]])
      /\ h.rate = (1000 * Holds!Crossings(slow))
                     \div (Holds!Time(w[Len(w)]) - Holds!Time(w[1]))
  BY HoldOfIs
<1> QED  BY <1>1

\* Each segment the detector found lies in the log and was held.
LEMMA SegmentIs ==
    ASSUME HoldTypes, AllHeld, NEW k \in DOMAIN segments
    PROVE  IsSegment(segments[k])
<1> DEFINE S == [from : Places, to : Places]
<1>1. segments \in Seq(S)
  BY DEF HoldTypes
<1>2. segments[k] \in S
  <2> HIDE DEF S
  <2> QED  BY <1>1
<1> QED  BY <1>2 DEF IsSegment, AllHeld

\* A segment that counts is a hold.
LEMMA CountedIsHeld ==
    ASSUME HoldContract, flownHold \in HoldFlights, NEW seg, IsSegment(seg), MayCount(seg)
    PROVE  LET measured == {i \in seg.from .. seg.to :
                               Holds!Time(i) >= Holds!Time(seg.from) + HoldSettle}
           IN  /\ seg.from > 1
               /\ \A i, j \in seg.from .. seg.to :
                     Holds!Abs(Holds!Set(i) - Holds!Set(j)) <= 2 * Holds!Band
               /\ Holds!Time(seg.to) - Holds!Time(seg.from) >= HoldSettle + MinMeasure
               /\ \A i \in measured :
                     /\ Holds!Quiet(i)
                     /\ i > Holds!Min(measured) => Holds!Time(i) - Holds!Time(i - 1) <= HoldGap
<1> DEFINE measured == {i \in seg.from .. seg.to :
                          Holds!Time(i) >= Holds!Time(seg.from) + HoldSettle}
           w == Holds!Window(seg)
<1>1. Len(flownHold) \in Nat /\ HoldGap \in Nat
      /\ \A i \in Places : Holds!Time(i) \in Int /\ flownHold[i] \in Holds!Record
                           /\ Holds!Set(i) \in Int \cup {HoldNaN}
  BY FlightLog, HoldLimits
<1>2. seg.from \in Places /\ seg.to \in Places /\ HoldSteady(seg.from, seg.to)
      /\ HoldLong(seg.from, seg.to) /\ seg.from < seg.to
  BY DEF IsSegment, IsHeld
<1>3. seg.from \in Nat /\ seg.to \in Nat /\ seg.from >= 1 /\ seg.to <= Len(flownHold)
  BY <1>1, <1>2 DEF Places
<1>4. \A i \in seg.from .. seg.to : i \in Places
  BY <1>1, <1>3 DEF Places
<1>5. seg.from > 1
  BY <1>3 DEF MayCount, Holds!Clipped
<1>6. ASSUME NEW i \in seg.from .. seg.to, NEW j \in seg.from .. seg.to
      PROVE  Holds!Abs(Holds!Set(i) - Holds!Set(j)) <= 2 * Holds!Band
  <2>1. /\ Holds!Abs(Holds!Set(i) - Holds!Set(seg.from)) <= Holds!Band
        /\ Holds!Abs(Holds!Set(j) - Holds!Set(seg.from)) <= Holds!Band
        /\ Holds!IsNumber(Holds!Set(i)) /\ Holds!IsNumber(Holds!Set(j))
        /\ Holds!IsNumber(Holds!Set(seg.from))
    <3>1. seg.from \in seg.from .. seg.to
      BY <1>2, <1>3
    <3> QED  BY <1>2, <3>1 DEF HoldSteady
  <2>2. Holds!Set(i) \in Int /\ Holds!Set(j) \in Int /\ Holds!Set(seg.from) \in Int
    BY <1>1, <1>2, <1>4, <2>1 DEF Holds!IsNumber
  <2> QED  BY <2>1, <2>2 DEF Holds!Abs, Holds!Band
<1>7. CountsOn(seg, w)
  BY RefusalIs DEF MayCount
<1>8. /\ Len(w) \in Nat /\ DOMAIN w = 1 .. Len(w)
      /\ \A i \in Places : i \in MeasuredPlaces(seg) <=> i \in measured
      /\ \A k \in DOMAIN w : w[k] \in MeasuredPlaces(seg)
      /\ \A i \in MeasuredPlaces(seg) : \E k \in DOMAIN w : w[k] = i
      /\ \A k, l \in DOMAIN w : k < l => w[k] < w[l]
      /\ \A k \in 2 .. Len(w) : w[k - 1] = w[k] - 1
  <2>1. /\ Len(w) \in Nat /\ DOMAIN w = 1 .. Len(w)
        /\ \A i \in Places : i \in MeasuredPlaces(seg) <=>
              i \in seg.from .. seg.to /\ Holds!Time(i) >= Holds!Time(seg.from) + HoldSettle
        /\ \A k \in DOMAIN w : w[k] \in MeasuredPlaces(seg)
        /\ \A i \in MeasuredPlaces(seg) : \E k \in DOMAIN w : w[k] = i
        /\ \A k, l \in DOMAIN w : k < l => w[k] < w[l]
        /\ \A k \in 2 .. Len(w) : w[k - 1] = w[k] - 1
    BY WindowIs
  <2> HIDE DEF w
  <2> QED  BY <2>1
<1> HIDE DEF w
<1>9. ASSUME NEW i \in measured
      PROVE  /\ Holds!Quiet(i)
             /\ i > Holds!Min(measured) => Holds!Time(i) - Holds!Time(i - 1) <= HoldGap
  <2>1. i \in Places /\ i \in MeasuredPlaces(seg) /\ i \in Nat
    BY <1>3, <1>4, <1>8
  <2>2. PICK k \in DOMAIN w : w[k] = i
    BY <1>8, <2>1
  <2>3. Holds!Quiet(i)
    <3>1. flownHold[i].off \in Int
      BY <1>1, <2>1 DEF Holds!Record
    <3>2. ~(flownHold[i].off > Holds!OffAxis)
      BY <1>7, <2>2 DEF CountsOn
    <3> QED  BY <3>1, <3>2 DEF Holds!Quiet, Holds!OffAxis, Holds!rec
  <2>4. ASSUME i > Holds!Min(measured) PROVE Holds!Time(i) - Holds!Time(i - 1) <= HoldGap
    <3>1. measured \subseteq Nat /\ measured # {}
      BY <1>3
    <3>2. Holds!Min(measured) \in measured /\ Holds!Min(measured) \in Places
      <4>1. Holds!Min(measured) \in measured
        <5> HIDE DEF measured
        <5> QED  BY <3>1, SameLeast
      <4> QED  BY <1>4, <4>1
    <3> DEFINE m == Holds!Min(measured)
    <3> HIDE DEF m
    <3>3. m \in measured /\ m \in Places /\ m \in Nat /\ i > m
      BY <2>4, <3>1, <3>2 DEF m
    <3>4. PICK l \in DOMAIN w : w[l] = m
      BY <1>8, <3>3
    <3>5. k # 1
      <4> SUFFICES ASSUME k = 1 PROVE FALSE
        OBVIOUS
      <4>1. l = 1 \/ 1 < l
        BY <1>8
      <4>2. 1 < l => i < m
        BY <1>8, <2>2, <3>4
      <4>3. l = 1 => i = m
        BY <2>2, <3>4
      <4> QED  BY <2>1, <3>3, <4>1, <4>2, <4>3
    <3>6. k \in 2 .. Len(w)
      BY <1>8, <3>5
    <3>7. w[k - 1] = i - 1
      BY <1>8, <2>2, <3>6
    <3>8. Holds!Time(w[k]) - Holds!Time(w[k - 1]) \in 1 .. HoldGap
      BY <1>7, <3>6 DEF CountsOn, Holds!Gappy
    <3> QED  BY <1>1, <2>2, <3>7, <3>8
  <2> QED  BY <2>3, <2>4
<1>10. Holds!Time(seg.to) - Holds!Time(seg.from) >= HoldSettle + MinMeasure
  BY <1>2 DEF HoldLong
<1> QED  BY <1>5, <1>6, <1>9, <1>10

\* Values that are all the same span nothing.
LEMMA ConstantSpansNothing ==
    ASSUME NEW vs \in Seq(Int), vs # <<>>, NEW c \in Int, \A k \in DOMAIN vs : vs[k] = c,
           NEW percent \in Nat
    PROVE  ~Holds!SpanOver(vs, percent)
<1>1. Len(vs) \in Nat \ {0} /\ DOMAIN vs = 1 .. Len(vs)
  OBVIOUS
<1>2. Holds!Range(vs) = {c}
  <2>1. Holds!Range(vs) = {vs[k] : k \in DOMAIN vs}
    BY DEF Holds!Range
  <2>2. 1 \in DOMAIN vs
    BY <1>1
  <2> QED  BY <2>1, <2>2
<1>3. Holds!Max({c}) = c /\ Holds!Min({c}) = c
  BY DEF Holds!Max, Holds!Min
<1>4. ASSUME NEW k \in 1 .. Len(vs) PROVE Holds!Ranked(vs, k) = c
  <2>1. {i \in DOMAIN vs : vs[i] < c} = {} /\ {i \in DOMAIN vs : vs[i] <= c} = 1 .. Len(vs)
    BY <1>1
  <2>2. Cardinality({}) = 0 /\ Cardinality(1 .. Len(vs)) = Len(vs)
    <3>1. 1 \in Int /\ Len(vs) \in Int
      BY <1>1
    <3>2. Cardinality(1 .. Len(vs)) = IF 1 > Len(vs) THEN 0 ELSE Len(vs) - 1 + 1
      BY <3>1, FS_Interval
    <3> QED  BY <1>1, <3>2, FS_EmptySet
  <2>3. /\ Holds!Cardinality({i \in DOMAIN vs : vs[i] < c}) < k
        /\ Holds!Cardinality({i \in DOMAIN vs : vs[i] <= c}) >= k
    <3> DEFINE below == {i \in DOMAIN vs : vs[i] < c}
               upTo == {i \in DOMAIN vs : vs[i] <= c}
    <3>1. Cardinality(below) = 0 /\ Cardinality(upTo) = Len(vs)
      BY <2>1, <2>2
    <3> HIDE DEF below, upTo
    <3>2. Holds!Cardinality(below) = 0 /\ Holds!Cardinality(upTo) = Len(vs)
      BY <3>1, SameSize
    <3>3. Holds!Cardinality(below) < k /\ Holds!Cardinality(upTo) >= k
      BY <1>1, <3>2
    <3> QED  BY <3>3 DEF below, upTo
  <2>4. \E v \in Holds!Range(vs) : /\ Holds!Cardinality({i \in DOMAIN vs : vs[i] < v}) < k
                                   /\ Holds!Cardinality({i \in DOMAIN vs : vs[i] <= v}) >= k
    BY <1>2, <2>3
  <2>5. Holds!Ranked(vs, k) \in Holds!Range(vs)
    BY <2>4 DEF Holds!Ranked
  <2> QED  BY <1>2, <2>5
<1>5. Holds!Quantile(vs, 50) = 100 * c
  <2> DEFINE place == (Len(vs) - 1) * 50
             low == place \div 100 + 1
             high == Holds!Min({place \div 100 + 2, Len(vs)})
  <2>1. Holds!Quantile(vs, 50) =
           100 * Holds!Ranked(vs, low) + (Holds!Ranked(vs, high) - Holds!Ranked(vs, low)) * (place % 100)
    BY DEF Holds!Quantile
  <2>2. place \in Nat /\ place \div 100 \in Nat /\ place \div 100 <= Len(vs) - 1 /\ place % 100 \in Int
    BY <1>1
  <2> HIDE DEF place
  <2>3. low \in 1 .. Len(vs)
    BY <1>1, <2>2
  <2>4. high \in 1 .. Len(vs)
    <3> DEFINE S == {place \div 100 + 2, Len(vs)}
    <3>1. S \subseteq Nat /\ S # {} /\ Len(vs) \in S /\ \A x \in S : x >= 1
      BY <1>1, <2>2
    <3> HIDE DEF S
    <3>2. Holds!Min(S) \in S /\ Holds!Min(S) <= Len(vs)
      BY <3>1, SameLeast
    <3>3. Holds!Min(S) \in 1 .. Len(vs)
      <4>1. Holds!Min(S) \in Nat /\ Holds!Min(S) >= 1
        BY <3>1, <3>2
      <4> QED  BY <1>1, <3>2, <4>1
    <3> QED  BY <3>3 DEF S
  <2> HIDE DEF low, high
  <2>5. Holds!Ranked(vs, low) = c /\ Holds!Ranked(vs, high) = c
    BY <1>4, <2>3, <2>4
  <2> QED  BY <2>1, <2>2, <2>5
<1>6. Holds!Abs(100 * c) \in Nat
  BY DEF Holds!Abs
<1>7. percent * Holds!Abs(100 * c) \in Nat
  BY <1>6
<1>8. ~(10000 * (c - c) > percent * Holds!Abs(100 * c))
  BY <1>7
<1> QED  BY <1>2, <1>3, <1>5, <1>8 DEF Holds!SpanOver

\* A hold that was flown cleanly counts.
LEMMA CleanIsCounted ==
    ASSUME HoldContract, flownHold \in HoldFlights, NEW a \in Places \ {1}, NEW b \in Places, a < b,
           Holds!CleanHold(a, b), NEW seg, IsSegment(seg), seg.from = a, seg.to = b
    PROVE  MayCount(seg)
<1> DEFINE w == Holds!Window(seg)
           heads == [k \in DOMAIN w |-> flownHold[w[k]].head]
           volts == [k \in DOMAIN w |-> flownHold[w[k]].vbat]
<1>1. /\ Len(flownHold) \in Nat /\ HoldNaN \notin Int
      /\ \A i \in Places : Holds!Time(i) \in Int /\ flownHold[i] \in Holds!Record
  BY FlightLog
<1>2. HoldSettle \in Nat /\ MinMeasure \in Nat \ {0} /\ HoldGap \in Nat /\ HoldGap < MinMeasure
  BY HoldLimits
<1>3. a \in Nat /\ b \in Nat /\ \A i \in a .. b : i \in Places
  BY <1>1 DEF Places
<1>4. /\ Holds!Time(b) - Holds!Time(a) >= HoldSettle + MinMeasure
      /\ \A i \in a .. b : /\ Holds!Quiet(i) /\ flownHold[i].head = flownHold[a].head
                           /\ flownHold[i].vbat = flownHold[a].vbat
                           /\ i > a => Holds!Time(i) - Holds!Time(i - 1) \in 1 .. HoldGap
      /\ ~Holds!Unspun(flownHold[a].head) /\ flownHold[a].vbat # HoldNaN
  <2>1. a \in a .. b
    BY <1>3
  <2> QED  BY <2>1 DEF Holds!CleanHold, Holds!IsNumber, Holds!rec
<1>5. /\ w \in Seq(Places) /\ Len(w) \in Nat \ {0} /\ DOMAIN w = 1 .. Len(w)
      /\ \A i \in Places : i \in MeasuredPlaces(seg) <=>
            i \in a .. b /\ Holds!Time(i) >= Holds!Time(a) + HoldSettle
      /\ \A k \in DOMAIN w : w[k] \in MeasuredPlaces(seg)
      /\ \A i \in MeasuredPlaces(seg) : \E k \in DOMAIN w : w[k] = i
      /\ \A k, l \in DOMAIN w : k < l => w[k] < w[l]
      /\ \A k \in 2 .. Len(w) : w[k - 1] = w[k] - 1
      /\ b \in MeasuredPlaces(seg)
  BY WindowIs
<1> HIDE DEF w
<1>6. \A k \in DOMAIN w : w[k] \in Places /\ w[k] \in a .. b
  <2>1. \A k \in DOMAIN w : w[k] \in Places
    BY <1>5
  <2> QED  BY <1>5, <2>1
<1>7. Holds!Time(a) \in Int /\ Holds!Time(b) \in Int
  BY <1>1
<1>8. Len(w) >= 2
  <2> DEFINE i == b - 1
  <2>1. i \in a .. b /\ i \in Places /\ b \in a .. b /\ i \in Nat /\ i # b
    <3>1. i \in a .. b
      BY <1>3
    <3> QED  BY <1>3, <3>1
  <2>2. Holds!Time(i) \in Int /\ Holds!Time(b) - Holds!Time(i) \in 1 .. HoldGap
    BY <1>1, <1>3, <1>4, <2>1
  <2>3. Holds!Time(i) >= Holds!Time(a) + HoldSettle
    BY <1>2, <1>4, <1>7, <2>2
  <2>4. i \in MeasuredPlaces(seg)
    BY <1>5, <2>1, <2>3
  <2>5. PICK k \in DOMAIN w, l \in DOMAIN w : w[k] = i /\ w[l] = b
    BY <1>5, <2>4
  <2>6. k # l
    BY <2>1, <2>5
  <2> HIDE DEF i
  <2> QED  BY <1>5, <2>5, <2>6
<1>9. ~Holds!Gappy(seg, w)
  <2>1. ~(Holds!Time(w[1]) - (Holds!Time(seg.from) + HoldSettle) > HoldGap)
    <3>1. 1 \in DOMAIN w
      BY <1>5
    <3> DEFINE i == w[1]
    <3>2. i \in Places /\ i \in a .. b /\ i \in Nat /\ Holds!Time(i) \in Int
      BY <1>1, <1>3, <1>6, <3>1
    <3>3. \A j \in MeasuredPlaces(seg) : ~(j < i)
      <4> SUFFICES ASSUME NEW j \in MeasuredPlaces(seg), j < i PROVE FALSE
        OBVIOUS
      <4>1. PICK k \in DOMAIN w : w[k] = j
        BY <1>5
      <4>2. j \in Nat
        BY <1>3, <1>6, <4>1
      <4>3. k = 1 \/ 1 < k
        BY <1>5
      <4>4. 1 < k => i < j
        BY <1>5, <3>1, <4>1
      <4> HIDE DEF i
      <4>5. k = 1 => i = j
        BY <4>1 DEF i
      <4> QED  BY <3>2, <4>2, <4>3, <4>4, <4>5
    <3> HIDE DEF i
    <3>4. CASE i = a
      BY <1>2, <1>7, <3>4 DEF i
    <3>5. CASE i # a
      <4>1. i - 1 \in a .. b /\ i - 1 \in Places /\ i - 1 < i /\ i > a
        <5>1. i - 1 \in a .. b /\ i - 1 < i /\ i > a
          BY <1>3, <3>2, <3>5
        <5> QED  BY <1>3, <5>1
      <4>2. ~(Holds!Time(i - 1) >= Holds!Time(a) + HoldSettle)
        BY <1>5, <3>3, <4>1
      <4>3. Holds!Time(i - 1) \in Int /\ Holds!Time(i) - Holds!Time(i - 1) \in 1 .. HoldGap
        BY <1>1, <1>4, <3>2, <4>1
      <4>4. ~(Holds!Time(i) - (Holds!Time(a) + HoldSettle) > HoldGap)
        BY <1>2, <1>7, <3>2, <4>2, <4>3
      <4> QED  BY <4>4 DEF i
    <3> QED  BY <3>4, <3>5
  <2>2. ASSUME NEW k \in 2 .. Len(w) PROVE Holds!Time(w[k]) - Holds!Time(w[k - 1]) \in 1 .. HoldGap
    <3>1. k \in DOMAIN w /\ k - 1 \in DOMAIN w /\ w[k - 1] = w[k] - 1
      BY <1>5
    <3> DEFINE i == w[k]
    <3>2. i \in a .. b /\ i - 1 \in a .. b
      BY <1>6, <3>1
    <3> HIDE DEF i
    <3>3. i > a
      BY <1>3, <3>2
    <3>4. Holds!Time(i) - Holds!Time(i - 1) \in 1 .. HoldGap
      BY <1>4, <3>2, <3>3
    <3> QED  BY <3>1, <3>4 DEF i
  <2> QED  BY <2>1, <2>2 DEF Holds!Gappy
<1>10. \A k \in DOMAIN w : ~(flownHold[w[k]].off > Holds!OffAxis)
  <2> TAKE k \in DOMAIN w
  <2>1. Holds!Quiet(w[k]) /\ w[k] \in Places
    BY <1>4, <1>6
  <2>2. \A r \in Holds!Record : r.off \in Int
    BY DEF Holds!Record
  <2>3. flownHold[w[k]].off \in Int /\ flownHold[w[k]].off <= Holds!OffAxis
    BY <1>1, <2>1, <2>2 DEF Holds!Quiet, Holds!rec
  <2> QED  BY <2>3 DEF Holds!OffAxis
<1>11. \A k \in DOMAIN w : flownHold[w[k]].head = flownHold[a].head /\ flownHold[w[k]].vbat = flownHold[a].vbat
  BY <1>4, <1>6
<1>12. flownHold[a].head \in Int /\ flownHold[a].vbat \in Int
  <2>1. \A r \in Holds!Record : r.head \in Int \cup {HoldNaN} /\ r.vbat \in Int \cup {HoldNaN}
    BY DEF Holds!Record
  <2>2. flownHold[a].head # HoldNaN /\ flownHold[a].vbat # HoldNaN
    BY <1>4 DEF Holds!Unspun, Holds!IsNumber
  <2> QED  BY <1>1, <2>1, <2>2
<1> DEFINE head == flownHold[a].head
           volt == flownHold[a].vbat
<1> HIDE DEF head, volt
<1>13. ~Holds!SpanOver(heads, Holds!HeadLimit)
  <2>1. heads = [k \in 1 .. Len(w) |-> head] /\ head \in Int
    BY <1>5, <1>11, <1>12 DEF head
  <2> HIDE DEF heads
  <2>2. heads \in Seq(Int) /\ heads # <<>> /\ \A k \in DOMAIN heads : heads[k] = head
    BY <1>5, <2>1
  <2>3. Holds!HeadLimit \in Nat
    BY DEF Holds!HeadLimit
  <2> QED  BY <2>1, <2>2, <2>3, ConstantSpansNothing
<1>14. ~Holds!SpanOver(Holds!Numbers(volts), Holds!BatteryLimit)
  <2>1. volts = [k \in 1 .. Len(w) |-> volt] /\ volt \in Int
    BY <1>5, <1>11, <1>12 DEF volt
  <2> HIDE DEF volts
  <2>2. /\ volts \in Seq(Int \cup {HoldNaN}) /\ \E k \in DOMAIN volts : volts[k] # HoldNaN
        /\ \A k \in DOMAIN volts : volts[k] = volt
    <3>1. volts \in Seq(Int \cup {HoldNaN}) /\ DOMAIN volts = 1 .. Len(w)
      BY <1>5, <2>1
    <3>2. 1 \in 1 .. Len(w) /\ volts[1] = volt
      BY <1>5, <2>1
    <3> QED  BY <1>1, <2>1, <3>1, <3>2
  <2> DEFINE v == Holds!Numbers(volts)
  <2>3. v \in Seq(Int) /\ v # <<>> /\ \A k \in DOMAIN v : v[k] = volt
    BY <2>2, NumbersAre
  <2> HIDE DEF v
  <2>4. Holds!BatteryLimit \in Nat
    BY DEF Holds!BatteryLimit
  <2>5. ~Holds!SpanOver(v, Holds!BatteryLimit)
    BY <2>1, <2>3, <2>4, ConstantSpansNothing
  <2> QED  BY <2>5 DEF v
<1>15. Holds!Time(seg.to) - (Holds!Time(seg.from) + HoldSettle) >= MinMeasure
  BY <1>2, <1>4, <1>7
<1>16. \A k \in DOMAIN w : ~Holds!Unspun(flownHold[w[k]].head)
  BY <1>4, <1>11
<1>17. CountsOn(seg, w)
  BY <1>8, <1>9, <1>10, <1>13, <1>14, <1>15, <1>16 DEF CountsOn
<1>18. Holds!Refusal(seg) = "none"
  BY <1>17, RefusalIs DEF w
<1>19. seg.from # 1
  OBVIOUS
<1> QED  BY <1>18, <1>19 DEF MayCount, Holds!Clipped

\* The holds that count are holds, with their bounds.
LEMMA HoldsComeFrom ==
    ASSUME HoldContract, HoldsInv
    PROVE  /\ Len(holds) \in Nat /\ DOMAIN holds = 1 .. Len(holds)
           /\ \A k \in DOMAIN holds : \E seg : /\ IsSegment(seg) /\ MayCount(seg)
                                               /\ holds[k] = Holds!HoldOf(seg, Filters[1])
<1>1. holds \in Seq(Counted)
  BY DEF HoldsInv, WereMeasured
<1>2. \A h \in Counted : \E seg : IsSegment(seg) /\ MayCount(seg) /\ h = Holds!HoldOf(seg, Filters[1])
  <2> TAKE h \in Counted
  <2>1. PICK k \in 1 .. looked : MayCount(segments[k]) /\ h = Holds!HoldOf(segments[k], Filters[1])
    BY DEF Counted
  <2>2. segments \in Seq([from : Places, to : Places]) /\ looked \in 0 .. Len(segments)
        /\ HoldTypes /\ AllHeld
    BY DEF HoldsInv, Detected, HoldTypes, WereMeasured
  <2>3. k \in DOMAIN segments
    <3> DEFINE S == [from : Places, to : Places]
    <3>1. segments \in Seq(S)
      BY <2>2
    <3> HIDE DEF S
    <3> QED  BY <2>2, <3>1
  <2>4. IsSegment(segments[k])
    BY <2>2, <2>3, SegmentIs
  <2> QED  BY <2>1, <2>4
<1>3. \A k \in DOMAIN holds : holds[k] \in Counted
  BY <1>1
<1> QED  BY <1>1, <1>2, <1>3

\* HoldsAreFound: whatever was flown, a hold that counts was entered by a change
\* the log holds and was held, and a hold flown cleanly counts.
THEOREM HoldsAreAlwaysFound ==
    ASSUME HoldContract
    PROVE  Holds!Spec => []Holds!HoldsAreFound
<1>1. HoldsInv => Holds!HoldsAreFound
  <2> SUFFICES ASSUME HoldsInv PROVE Holds!HoldsAreFound
    OBVIOUS
  <2>1. flownHold \in HoldFlights /\ Len(flownHold) \in Nat
    BY FlightLog DEF HoldsInv, Detected, HoldTypes
  <2>2. Holds!HoldsAreHeld
    <3> SUFFICES ASSUME NEW k \in DOMAIN holds
                 PROVE  LET h == holds[k]
                            measured == {i \in h.from .. h.to :
                                            Holds!Time(i) >= Holds!Time(h.from) + HoldSettle}
                        IN  /\ h.from > 1
                            /\ \A i, j \in h.from .. h.to :
                                  Holds!Abs(Holds!Set(i) - Holds!Set(j)) <= 2 * Holds!Band
                            /\ Holds!Time(h.to) - Holds!Time(h.from) >= HoldSettle + MinMeasure
                            /\ \A i \in measured :
                                  /\ Holds!Quiet(i)
                                  /\ i > Holds!Min(measured) =>
                                        Holds!Time(i) - Holds!Time(i - 1) <= HoldGap
      BY DEF Holds!HoldsAreHeld
    <3>1. PICK seg : IsSegment(seg) /\ MayCount(seg) /\ holds[k] = Holds!HoldOf(seg, Filters[1])
      BY HoldsComeFrom
    <3>2. holds[k].from = seg.from /\ holds[k].to = seg.to
      BY <3>1, HoldBounds
    <3> QED  BY <2>1, <3>1, <3>2, CountedIsHeld
  <2>3. Holds!CleanHoldIsFound
    <3> SUFFICES ASSUME adviceHold # "none", Len(segments) < MaxHolds,
                        NEW a \in 2 .. Len(flownHold), Holds!Entered(a),
                        NEW b \in a + 1 .. Len(flownHold), Holds!CleanHold(a, b)
                 PROVE  \E k \in DOMAIN holds : holds[k].from = a /\ holds[k].to = b
      BY DEF Holds!CleanHoldIsFound, Holds!rec
    <3>1. a \in Places \ {1} /\ b \in Places /\ a < b
      BY <2>1 DEF Places
    <3>2. AllLooked
      BY DEF HoldsInv, Advised
    <3>3. HoldStretch(a, b)
      BY DEF HoldStretch, HoldSteady, HoldLong, HoldLeft, Holds!CleanHold, Holds!rec
    <3>4. b < atHold - 1
      BY <2>1, <3>1, <3>2 DEF AllLooked, Places
    <3>5. PICK k \in DOMAIN segments : segments[k].from = a /\ segments[k].to = b
      BY <3>1, <3>3, <3>4 DEF HoldsInv, Detected, NothingMissed
    <3>6. IsSegment(segments[k]) /\ k \in 1 .. looked
      <4>1. segments \in Seq([from : Places, to : Places]) /\ HoldTypes /\ AllHeld
        BY DEF HoldsInv, Detected, HoldTypes
      <4>2. DOMAIN segments = 1 .. Len(segments)
        BY <4>1
      <4> QED  BY <3>2, <4>1, <4>2, SegmentIs DEF AllLooked
    <3>7. MayCount(segments[k])
      BY <2>1, <3>1, <3>5, <3>6, CleanIsCounted
    <3>8. PICK j \in DOMAIN holds : holds[j] = Holds!HoldOf(segments[k], Filters[1])
      BY <3>6, <3>7 DEF HoldsInv, WereMeasured
    <3>9. holds[j].from = a /\ holds[j].to = b
      BY <3>5, <3>8, HoldBounds
    <3> QED  BY <3>9
  <2> QED  BY <2>2, <2>3 DEF Holds!HoldsAreFound
<1> QED  BY <1>1, HoldsInvariant, PTL

-----------------------------------------------------------------------------
(* What the holds say together.                                              *)

AreMeasures(hs) ==
    Len(hs) \in Nat /\ DOMAIN hs = 1 .. Len(hs) /\ \A k \in DOMAIN hs : IsMeasure(hs[k])
IsSummary(s) == s.error \in Int /\ s.ripple \in Int /\ s.noise \in Int /\ s.rate \in Int

\* The summary of measured holds is of whole numbers.
LEMMA SummaryIs ==
    ASSUME HoldContract, NEW hs, AreMeasures(hs), Len(hs) # 0
    PROVE  IsSummary(Holds!Summary(hs))
<1> DEFINE weights == [k \in DOMAIN hs |-> hs[k].weight]
           errors == [k \in DOMAIN hs |-> Holds!Abs(hs[k].error)]
           ripples == [k \in DOMAIN hs |-> hs[k].ripple]
           rates == [k \in DOMAIN hs |-> hs[k].rate]
           noises == [k \in DOMAIN hs |-> hs[k].noise]
           n == Len(hs)
           s == Holds!Summary(hs)
<1>1. /\ s.error = Holds!WeightedMean(errors, weights)
      /\ s.ripple = Holds!WeightedMean(ripples, weights)
      /\ s.rate = Holds!WeightedMean(rates, weights)
      /\ s.noise = Holds!WeightedMean(noises, weights)
  BY DEF Holds!Summary, Holds!Weighted
<1>2. n \in Nat \ {0} /\ DOMAIN hs = 1 .. n
  BY DEF AreMeasures
<1>3. ASSUME NEW k \in 1 .. n
      PROVE  /\ hs[k].weight \in Nat \ {0} /\ Holds!Abs(hs[k].error) \in Int
             /\ hs[k].ripple \in Int /\ hs[k].rate \in Int /\ hs[k].noise \in Int
  <2>1. IsMeasure(hs[k])
    BY <1>2 DEF AreMeasures
  <2> QED  BY <2>1 DEF IsMeasure, Holds!Abs
<1> HIDE DEF n
<1>4. /\ weights \in [1 .. n -> Nat \ {0}] /\ errors \in [1 .. n -> Int] /\ ripples \in [1 .. n -> Int]
      /\ rates \in [1 .. n -> Int] /\ noises \in [1 .. n -> Int]
  BY <1>2, <1>3
<1> HIDE DEF weights, errors, ripples, rates, noises, s
<1> QED  BY <1>1, <1>2, <1>4, WeightedIsWhole DEF IsSummary, s

\* What one reading says, unfolded.
ReadOf(hs, filter, ripple, s, seen) ==
    IF Holds!Cardinality(s.kinds) # 1 THEN Holds!Indicates("hold", {"HOLD_KIND_MISMATCH"})
    ELSE IF Holds!Hunting(s, filter, ripple)
    THEN IF Holds!Standing(s) THEN Holds!Indicates("hold", seen \cup {"CONFLICTING_HOLD_SIGNATURES"})
         ELSE Holds!Indicates("decrease", seen)
    ELSE IF Holds!Standing(s) \/ Holds!Drifting(s) THEN Holds!StandingReading(hs, s, filter, seen)
    ELSE IF seen \subseteq {"DRIFT_NOT_SEPARABLE"}
    THEN Holds!Indicates("hold", seen \cup {"HOLD_EVIDENCE_WITHIN_TOLERANCE"})
    ELSE Holds!Indicates("hold", seen)

\* A reading, with its summary and its movements in view.
LEMMA ReadingIs ==
    ASSUME NEW hs, NEW filter, NEW ripple
    PROVE  Holds!Reading(hs, filter, ripple) =
              IF Len(hs) < Holds!MinHolds
              THEN Holds!Indicates("hold", {"INSUFFICIENT_HOLD_SEGMENTS"})
              ELSE ReadOf(hs, filter, ripple, Holds!Summary(hs),
                          Holds!Movements(Holds!Summary(hs), filter, ripple))
<1> DEFINE s == Holds!Summary(hs)
           R(z, seen) == ReadOf(hs, filter, ripple, z, seen)
           F(z) == CHOOSE y \in {R(z, seen) : seen \in {Holds!Movements(z, filter, ripple)}} : TRUE
           both == CHOOSE y \in {F(z) : z \in {s}} : TRUE
<1>1. Holds!Reading(hs, filter, ripple) =
         IF Len(hs) < Holds!MinHolds THEN Holds!Indicates("hold", {"INSUFFICIENT_HOLD_SEGMENTS"})
         ELSE both
  BY DEF Holds!Reading, Holds!With, ReadOf
<1>2. both = F(s)
  <2> HIDE DEF F, s
  <2> QED  OBVIOUS
<1>3. F(s) = R(s, Holds!Movements(s, filter, ripple))
  <2> HIDE DEF R, s
  <2> QED  OBVIOUS
<1> HIDE DEF both, F, s
<1> QED  BY <1>1, <1>2, <1>3 DEF s

\* What a filter can see is a whole number, and bounds the band.
LEMMA TopIsWhole ==
    ASSUME HoldContract, NEW filter \in Nat \ {0}
    PROVE  /\ Holds!Top(filter) \in Int /\ Holds!Observable(filter) \in Int
           /\ Holds!Top(filter) <= Holds!Observable(filter)
<1>1. Holds!Observable(filter) \in Int /\ BandTop \in Int
  BY HoldLimits DEF Holds!Observable
<1> DEFINE o == Holds!Observable(filter)
<1>2. Holds!Top(filter) = Holds!Min({BandTop, o})
  BY DEF Holds!Top
<1> HIDE DEF o
<1>3. Holds!Min({BandTop, o}) \in {BandTop, o} /\ Holds!Min({BandTop, o}) <= o
  <2>1. \E x \in {BandTop, o} : \A y \in {BandTop, o} : x <= y
    BY <1>1 DEF o
  <2> QED  BY <2>1 DEF Holds!Min
<1> QED  BY <1>1, <1>2, <1>3 DEF o

\* What an all clear of the I term rests on.
LEMMA CalmIsMeasured ==
    ASSUME HoldContract, NEW hs, AreMeasures(hs), NEW filter \in Nat \ {0}, NEW ripple \in Int,
           Holds!EarnsAllClear(Holds!Reading(hs, filter, ripple).codes)
    PROVE  LET s == Holds!Summary(hs) IN
           /\ s.error <= Holds!ErrorDps /\ s.ripple <= ripple
           /\ Holds!IsNumber(s.drift) => ~(Holds!Abs(s.drift) > DriftLimit)
<1> DEFINE s == Holds!Summary(hs)
           seen == Holds!Movements(s, filter, ripple)
           r == ReadOf(hs, filter, ripple, s, seen)
<1>1. \A x, y : Holds!Indicates(x, y).codes = y
  BY DEF Holds!Indicates
<1>2. ~(Len(hs) < Holds!MinHolds) /\ Holds!Reading(hs, filter, ripple) = r
  <2>1. CASE Len(hs) < Holds!MinHolds
    <3>1. Holds!Reading(hs, filter, ripple).codes = {"INSUFFICIENT_HOLD_SEGMENTS"}
      BY <1>1, <2>1, ReadingIs
    <3> QED  BY <3>1 DEF Holds!EarnsAllClear
  <2>2. CASE ~(Len(hs) < Holds!MinHolds)
    BY <2>2, ReadingIs
  <2> QED  BY <2>1, <2>2
<1>3. IsSummary(s)
  <2>1. Len(hs) # 0
    BY <1>2 DEF Holds!MinHolds
  <2> QED  BY <2>1, SummaryIs
<1> HIDE DEF s
<1>4. seen \subseteq r.codes \/ r.codes = {"HOLD_KIND_MISMATCH"}
  <2>1. seen \subseteq Holds!StandingReading(hs, s, filter, seen).codes
    BY <1>1 DEF Holds!StandingReading
  <2> HIDE DEF seen
  <2> QED  BY <1>1, <2>1 DEF ReadOf
<1>5. Holds!EarnsAllClear(r.codes)
  BY <1>2
<1> HIDE DEF r
<1>6. seen \subseteq {"HOLD_EVIDENCE_WITHIN_TOLERANCE", "DRIFT_NOT_SEPARABLE"}
  <2> HIDE DEF seen
  <2> QED  BY <1>4, <1>5 DEF Holds!EarnsAllClear
<1>7. /\ Holds!Standing(s) => "STEADY_STATE_ERROR_PRESENT" \in seen
      /\ Holds!Drifting(s) => "STEADY_STATE_ERROR_DRIFTING" \in seen
      /\ Holds!Hunting(s, filter, ripple) => "LOW_FREQUENCY_HUNTING" \in seen
      /\ Holds!FastMovement(s, filter, ripple) => "OSCILLATION_ABOVE_BAND" \in seen
      /\ Holds!SlowMovement(s, ripple) => "SLOW_MOVEMENT_BELOW_BAND" \in seen
      /\ Holds!WithinNoise(s, filter, ripple) => "SLOW_RIPPLE_NOT_CLEAR_OF_NOISE" \in seen
  BY DEF Holds!Movements, Holds!Codes
<1> HIDE DEF seen
<1>8. /\ ~Holds!Standing(s) /\ ~Holds!Drifting(s) /\ ~Holds!Hunting(s, filter, ripple)
      /\ ~Holds!FastMovement(s, filter, ripple) /\ ~Holds!SlowMovement(s, ripple)
      /\ ~Holds!WithinNoise(s, filter, ripple)
  BY <1>6, <1>7
<1>9. s.error <= Holds!ErrorDps
  BY <1>3, <1>8 DEF IsSummary, Holds!Standing, Holds!ErrorDps
<1>10. s.ripple <= ripple
  <2>1. Holds!Top(filter) \in Int /\ BandLow \in Int
    BY TopIsWhole, HoldLimits
  <2> DEFINE top == Holds!Top(filter)
  <2>2. /\ ~(s.rate >= 2 * BandLow /\ s.rate <= 2 * top /\ s.ripple > ripple /\ s.ripple > s.noise)
        /\ ~(s.rate > 2 * top /\ s.ripple > ripple)
        /\ ~(s.rate < 2 * BandLow /\ s.ripple > ripple /\ s.ripple > s.noise)
        /\ ~(~(s.rate > 2 * top) /\ s.ripple > ripple /\ s.ripple <= s.noise)
    BY <1>8 DEF Holds!Hunting, Holds!InBand, Holds!FastMovement, Holds!AboveBand, Holds!SlowMovement,
                Holds!BelowBand, Holds!WithinNoise
  <2> HIDE DEF top
  <2>3. s.rate \in Int /\ s.ripple \in Int /\ s.noise \in Int /\ top \in Int
    BY <1>3, <2>1 DEF IsSummary, top
  <2> QED  BY <2>1, <2>2, <2>3
<1>11. Holds!IsNumber(s.drift) => ~(Holds!Abs(s.drift) > DriftLimit)
  BY <1>8 DEF Holds!Drifting
<1> QED  BY <1>9, <1>10, <1>11 DEF s

\* The holds that count are measured, by the shipped filter and by any other.
LEMMA RebuiltAreMeasures ==
    ASSUME HoldContract, HoldsInv, NEW filter \in Nat
    PROVE  AreMeasures(Holds!Rebuilt(filter)) /\ Len(Holds!Rebuilt(filter)) = Len(holds)
           /\ AreMeasures(holds)
<1>1. flownHold \in HoldFlights
  BY DEF HoldsInv, Detected, HoldTypes
<1>2. Filters[1] \in Nat
  BY HoldLimits
<1>3. Len(holds) \in Nat /\ DOMAIN holds = 1 .. Len(holds)
  BY HoldsComeFrom
<1>4. ASSUME NEW k \in DOMAIN holds
      PROVE  /\ IsMeasure(holds[k])
             /\ IsMeasure(Holds!HoldOf([from |-> holds[k].from, to |-> holds[k].to], filter))
  <2>1. PICK seg : IsSegment(seg) /\ MayCount(seg) /\ holds[k] = Holds!HoldOf(seg, Filters[1])
    BY HoldsComeFrom
  <2>2. holds[k].from = seg.from /\ holds[k].to = seg.to
    BY <2>1, HoldBounds
  <2>3. seg = [from |-> seg.from, to |-> seg.to]
    BY <2>1 DEF IsSegment
  <2>4. IsMeasure(Holds!HoldOf(seg, Filters[1])) /\ IsMeasure(Holds!HoldOf(seg, filter))
    BY <1>1, <1>2, <2>1, HoldIsMeasured DEF MayCount
  <2> QED  BY <2>1, <2>2, <2>3, <2>4
<1>5. AreMeasures(holds)
  BY <1>3, <1>4 DEF AreMeasures
<1> DEFINE of(k) == Holds!HoldOf([from |-> holds[k].from, to |-> holds[k].to], filter)
           again == [k \in DOMAIN holds |-> of(k)]
<1>6. Holds!Rebuilt(filter) = IF filter = Filters[1] THEN holds ELSE again
  BY DEF Holds!Rebuilt
<1>9. \A k \in DOMAIN holds : IsMeasure(of(k))
  BY <1>4
<1> HIDE DEF of
<1>7. AreMeasures(again) /\ Len(again) = Len(holds)
  <2>1. DOMAIN again = 1 .. Len(holds) /\ Len(again) = Len(holds)
    BY <1>3
  <2>2. \A k \in DOMAIN again : again[k] = of(k)
    OBVIOUS
  <2> HIDE DEF again
  <2> QED  BY <1>3, <1>9, <2>1, <2>2 DEF AreMeasures
<1> HIDE DEF again
<1> QED  BY <1>5, <1>6, <1>7

\* AllClearIsMeasured: nothing in the I term is told only of holds over which the
\* error neither stood off, nor moved, nor drifted by as much as would be read.
THEOREM AllClearIsAlwaysMeasured ==
    ASSUME HoldContract
    PROVE  Holds!Spec => []Holds!AllClearIsMeasured
<1>1. HoldsInv => Holds!AllClearIsMeasured
  <2> SUFFICES ASSUME HoldsInv PROVE Holds!AllClearIsMeasured
    OBVIOUS
  <2> DEFINE s == Holds!Summary(holds)
             G(z) == /\ Holds!Captured /\ z.error <= Holds!ErrorDps /\ z.ripple <= Holds!RippleDps
                     /\ Holds!IsNumber(z.drift) => ~(Holds!Abs(z.drift) > DriftLimit)
             both == CHOOSE y \in {G(z) : z \in {s}} : TRUE
  <2>1. Holds!AllClearIsMeasured <=> (adviceHold = "I_TERM_WITHIN_TOLERANCE" => both)
    BY DEF Holds!AllClearIsMeasured, Holds!With
  <2>2. both = G(s)
    <3> HIDE DEF G, s
    <3> QED  OBVIOUS
  <2>3. ASSUME adviceHold = "I_TERM_WITHIN_TOLERANCE" PROVE G(s)
    <3>1. Holds!Captured /\ Holds!EarnsAllClear(Holds!Shipped.codes)
      BY <2>3 DEF HoldsInv, Advised
    <3>2. Filters[1] \in Nat \ {0} /\ Holds!RippleDps \in Int
      BY HoldLimits DEF Holds!RippleDps
    <3>3. AreMeasures(holds)
      BY <3>2, RebuiltAreMeasures
    <3>4. Holds!EarnsAllClear(Holds!Reading(holds, Filters[1], Holds!RippleDps).codes)
      BY <3>1 DEF Holds!Shipped
    <3>5. /\ s.error <= Holds!ErrorDps /\ s.ripple <= Holds!RippleDps
          /\ Holds!IsNumber(s.drift) => ~(Holds!Abs(s.drift) > DriftLimit)
      BY <3>2, <3>3, <3>4, CalmIsMeasured
    <3> QED  BY <3>1, <3>5
  <2> HIDE DEF both, G
  <2> QED  BY <2>1, <2>2, <2>3
<1> QED  BY <1>1, HoldsInvariant, PTL

\* What each indication takes.
LEMMA IndicationTakes ==
    ASSUME HoldContract, NEW hs, AreMeasures(hs), NEW filter, NEW ripple
    PROVE  LET indicated == Holds!Reading(hs, filter, ripple).indication IN
           /\ indicated \in {"hold", "increase", "decrease"}
           /\ indicated = "decrease" => Len(hs) # 0 /\ Holds!Hunting(Holds!Summary(hs), filter, ripple)
           /\ indicated = "increase" =>
                 /\ Len(hs) >= Holds!MinStanding /\ Holds!OneSide([j \in DOMAIN hs |-> hs[j].error])
                 /\ \A j \in DOMAIN hs : Holds!Abs(hs[j].error) > hs[j].ripple
<1> DEFINE s == Holds!Summary(hs)
           seen == Holds!Movements(s, filter, ripple)
           r == ReadOf(hs, filter, ripple, s, seen)
           reading == Holds!Reading(hs, filter, ripple)
           standing == Holds!StandingReading(hs, s, filter, seen)
           refusal == Holds!StandingRefusal(hs)
           oneSide == Holds!OneSide([j \in DOMAIN hs |-> hs[j].error])
<1>1. \A x, y : Holds!Indicates(x, y).indication = x
  BY DEF Holds!Indicates
<1>2. reading = IF Len(hs) < Holds!MinHolds
                THEN Holds!Indicates("hold", {"INSUFFICIENT_HOLD_SEGMENTS"}) ELSE r
  BY ReadingIs
<1>3. standing.indication = "hold" \/ (standing.indication = "increase" /\ refusal = {})
  BY <1>1 DEF Holds!StandingReading
<1> HIDE DEF s, seen, standing, reading, refusal
<1>4. \/ r.indication = "hold"
      \/ r.indication = "decrease" /\ Holds!Hunting(s, filter, ripple)
      \/ r.indication = standing.indication
  BY <1>1 DEF ReadOf, standing
<1> HIDE DEF r
<1>5. Len(hs) \in Nat
  BY DEF AreMeasures
<1>6. Len(hs) < Holds!MinHolds => reading.indication = "hold"
  BY <1>1, <1>2
<1>7. ~(Len(hs) < Holds!MinHolds) => reading = r /\ Len(hs) # 0
  BY <1>2, <1>5 DEF Holds!MinHolds
<1>8. /\ reading.indication \in {"hold", "increase", "decrease"}
      /\ reading.indication = "decrease" => Len(hs) # 0 /\ Holds!Hunting(s, filter, ripple)
      /\ reading.indication = "increase" => refusal = {}
  BY <1>3, <1>4, <1>6, <1>7
<1>9. refusal = {} =>
         /\ ~(\E k \in DOMAIN hs : Holds!Abs(hs[k].error) <= hs[k].ripple)
         /\ oneSide /\ ~(Len(hs) < Holds!MinStanding)
  <2> HIDE DEF oneSide
  <2> DEFINE near == \E k \in DOMAIN hs : Holds!Abs(hs[k].error) <= hs[k].ripple
             few == Len(hs) < Holds!MinStanding
  <2>1. \/ near /\ refusal = {"NOT_CLEAR_IN_EVERY_HOLD"}
        \/ ~near /\ oneSide /\ few /\ refusal = {"TOO_FEW_HOLDS"}
        \/ ~near /\ oneSide /\ ~few
        \/ refusal = {"CHANGES_SIDE_BETWEEN_HOLDS"}
        \/ "FOLLOWS_COMMAND_DIRECTION" \in refusal
    BY DEF refusal, oneSide, Holds!StandingRefusal
  <2> HIDE DEF near, few, refusal
  <2>2. refusal = {} => ~near /\ oneSide /\ ~few
    BY <2>1
  <2> QED  BY <2>2 DEF near, few
<1> HIDE DEF oneSide, refusal
<1>10. ~(\E k \in DOMAIN hs : Holds!Abs(hs[k].error) <= hs[k].ripple) =>
          \A k \in DOMAIN hs : Holds!Abs(hs[k].error) > hs[k].ripple
  <2>1. \A k \in DOMAIN hs : Holds!Abs(hs[k].error) \in Int /\ hs[k].ripple \in Int
    BY DEF AreMeasures, IsMeasure, Holds!Abs
  <2> QED  BY <2>1
<1>11. ~(Len(hs) < Holds!MinStanding) => Len(hs) >= Holds!MinStanding
  BY <1>5 DEF Holds!MinStanding
<1> QED  BY <1>8, <1>9, <1>10, <1>11 DEF s, reading, oneSide

\* The filter that is shipped sees the swing it reads.
LEMMA ShippedVotes ==
    ASSUME HoldContract, HoldsInv
    PROVE  ~Holds!Abstains(Filters[1])
<1> SUFFICES ASSUME Holds!Abstains(Filters[1]) PROVE FALSE
  OBVIOUS
<1> DEFINE s == Holds!Summary(holds)
           filter == Filters[1]
<1>1. filter \in Nat \ {0} /\ filter \in Nat
  BY HoldLimits
<1>2. Holds!Shipped.indication = "decrease" /\ s.rate > 2 * Holds!Observable(filter)
  BY DEF Holds!Abstains
<1>3. AreMeasures(holds)
  BY <1>1, RebuiltAreMeasures
<1>4. Len(holds) # 0 /\ Holds!Hunting(s, filter, Holds!RippleDps)
  BY <1>2, <1>3, IndicationTakes DEF Holds!Shipped
<1>5. IsSummary(s)
  BY <1>3, <1>4, SummaryIs
<1>6. Holds!Top(filter) \in Int /\ Holds!Observable(filter) \in Int
      /\ Holds!Top(filter) <= Holds!Observable(filter)
  BY <1>1, TopIsWhole
<1>7. s.rate <= 2 * Holds!Top(filter) /\ s.rate \in Int
  BY <1>4, <1>5 DEF Holds!Hunting, Holds!InBand, IsSummary
<1> HIDE DEF s, filter
<1> QED  BY <1>2, <1>6, <1>7

\* What is read of a filter that votes is what is indicated.
LEMMA SweepAgrees ==
    ASSUME HoldContract, HoldsInv, Holds!Captured, Holds!SweepStable, Len(readings) = Len(Filters),
           NEW k \in DOMAIN Filters, ~Holds!Abstains(Filters[k]), NEW ripple \in Ripples
    PROVE  Holds!Reading(Holds!Rebuilt(Filters[k]), Filters[k], ripple).indication
              = Holds!Shipped.indication
<1> DEFINE Answer(filter, x) == Holds!Reading(Holds!Rebuilt(filter), filter, x).indication
           all == {"hold", "increase", "decrease"}
<1>1. Filters \in Seq(Nat \ {0}) /\ Len(Filters) > 0 /\ Holds!RippleDps \in Ripples
  BY HoldLimits
<1>2. 1 \in DOMAIN Filters /\ \A j \in DOMAIN Filters : Filters[j] \in Nat
  BY <1>1
<1>3. readings \in Seq({Vote(Filters[j]) : j \in DOMAIN Filters})
      /\ \A j \in DOMAIN readings : readings[j] = Vote(Filters[j])
  BY DEF HoldsInv, AllRead
<1>4. DOMAIN readings = DOMAIN Filters
  <2> DEFINE S == {Vote(Filters[j]) : j \in DOMAIN Filters}
  <2>1. readings \in Seq(S)
    BY <1>3
  <2> HIDE DEF S
  <2> QED  BY <1>1, <2>1
<1>5. \A filter : Holds!Swept(filter) = {Answer(filter, x) : x \in Ripples}
  <2> TAKE filter
  <2> DEFINE F(hs) == {Holds!Reading(hs, filter, x).indication : x \in Ripples}
             hs0 == Holds!Rebuilt(filter)
  <2>1. Holds!Swept(filter) = CHOOSE y \in {F(hs) : hs \in {hs0}} : TRUE
    BY DEF Holds!Swept, Holds!With
  <2>2. Holds!Swept(filter) = F(hs0)
    <3> HIDE DEF F, hs0
    <3> QED  BY <2>1
  <2> QED  BY <2>2
<1>6. ASSUME NEW j \in DOMAIN Filters, NEW x \in Ripples PROVE Answer(Filters[j], x) \in all
  <2>1. AreMeasures(Holds!Rebuilt(Filters[j]))
    BY <1>2, RebuiltAreMeasures
  <2> QED  BY <2>1, IndicationTakes
<1> DEFINE seen == Holds!Seen
<1>7. ASSUME NEW j \in DOMAIN Filters, ~Holds!Abstains(Filters[j]), NEW x \in Ripples
      PROVE  Answer(Filters[j], x) \in seen
  <2>1. Answer(Filters[j], x) \in readings[j]
    BY <1>3, <1>4, <1>5, <1>7 DEF Vote
  <2> HIDE DEF Answer
  <2> QED  BY <1>4, <2>1 DEF Holds!Seen, Holds!Range
<1>8. seen \subseteq all
  <2>1. \A j \in DOMAIN readings : readings[j] \subseteq all
    <3> TAKE j \in DOMAIN readings
    <3>1. readings[j] = Vote(Filters[j]) /\ j \in DOMAIN Filters
      BY <1>3, <1>4
    <3>2. Holds!Swept(Filters[j]) \subseteq all
      <4> HIDE DEF all, Answer
      <4> QED  BY <1>5, <1>6, <3>1
    <3> QED  BY <3>1, <3>2 DEF Vote
  <2> HIDE DEF all
  <2> QED  BY <2>1 DEF Holds!Seen, Holds!Range
<1>9. Holds!Shipped.indication = Answer(Filters[1], Holds!RippleDps)
  BY DEF Holds!Shipped, Holds!Rebuilt
<1>10. Holds!Shipped.indication \in seen /\ Answer(Filters[k], ripple) \in seen
  BY <1>1, <1>2, <1>7, <1>9, ShippedVotes
<1>11. Cardinality(seen) = 1
  BY SameSize DEF Holds!SweepStable
<1>12. IsFiniteSet(seen)
  <2>1. IsFiniteSet(all)
    <3>1. IsFiniteSet({"hold"}) /\ IsFiniteSet({"increase"}) /\ IsFiniteSet({"decrease"})
      BY FS_Singleton
    <3>2. all = ({"hold"} \cup {"increase"}) \cup {"decrease"}
      OBVIOUS
    <3> HIDE DEF all
    <3> QED  BY <3>1, <3>2, FS_Union
  <2> HIDE DEF all, seen
  <2> QED  BY <1>8, <2>1, FS_Subset
<1> HIDE DEF seen, Answer
<1>13. \E x : seen = {x}
  BY <1>11, <1>12, FS_Singleton
<1>14. Answer(Filters[k], ripple) = Holds!Shipped.indication
  BY <1>10, <1>13
<1> QED  BY <1>14 DEF Answer

\* GainIsUnanimous, the first part of GainIsEarned: an I gain is changed only for
\* what every filter that can see it reads at every threshold, and raised only for
\* an error that keeps one side in three holds and more, above the movement in each.
THEOREM GainIsAlwaysUnanimous ==
    ASSUME HoldContract
    PROVE  Holds!Spec => []Holds!GainIsUnanimous
<1>1. HoldsInv => Holds!GainIsUnanimous
  <2> SUFFICES ASSUME HoldsInv PROVE Holds!GainIsUnanimous
    OBVIOUS
  <2> DEFINE errors(hs) == [j \in DOMAIN hs |-> hs[j].error]
             G(k, hs) ==
                /\ ~Holds!Abstains(Filters[k]) => \A r \in Ripples :
                      Holds!Reading(hs, Filters[k], r).indication = Holds!Named
                /\ Holds!Named = "increase" =>
                      /\ Len(hs) >= Holds!MinStanding /\ Holds!OneSide(errors(hs))
                      /\ \A j \in DOMAIN hs : Holds!Abs(hs[j].error) > hs[j].ripple
             hs0(k) == Holds!Rebuilt(Filters[k])
             both(k) == CHOOSE y \in {G(k, hs) : hs \in {hs0(k)}} : TRUE
  <2>1. Holds!GainIsUnanimous <=> (Holds!Named # "none" => \A k \in DOMAIN Filters : both(k))
    BY DEF Holds!GainIsUnanimous, Holds!With
  <2>2. ASSUME NEW k \in DOMAIN Filters PROVE both(k) = G(k, hs0(k))
    <3> HIDE DEF G, hs0
    <3> QED  OBVIOUS
  <2>3. ASSUME Holds!Named # "none", NEW k \in DOMAIN Filters PROVE G(k, hs0(k))
    <3>1. /\ Holds!Captured /\ Holds!SweepStable /\ Holds!Shipped.indication = Holds!Named
          /\ Len(readings) = Len(Filters)
      <4>1. adviceHold # "none"
        BY <2>3 DEF Holds!Named
      <4> QED  BY <2>3, <4>1 DEF HoldsInv, Advised
    <3>2. ~Holds!Abstains(Filters[k]) => \A r \in Ripples :
             Holds!Reading(hs0(k), Filters[k], r).indication = Holds!Named
      BY <3>1, SweepAgrees
    <3>3. Holds!Named = "increase" => ~Holds!Abstains(Filters[k])
      BY <3>1 DEF Holds!Abstains
    <3>4. Filters[k] \in Nat /\ Holds!RippleDps \in Ripples
      BY HoldLimits
    <3>5. AreMeasures(hs0(k))
      BY <3>4, RebuiltAreMeasures
    <3>6. ASSUME Holds!Named = "increase"
          PROVE  /\ Len(hs0(k)) >= Holds!MinStanding /\ Holds!OneSide(errors(hs0(k)))
                 /\ \A j \in DOMAIN hs0(k) : Holds!Abs(hs0(k)[j].error) > hs0(k)[j].ripple
      <4>1. Holds!Reading(hs0(k), Filters[k], Holds!RippleDps).indication = "increase"
        BY <3>2, <3>3, <3>4, <3>6
      <4> HIDE DEF hs0
      <4> QED  BY <3>5, <4>1, IndicationTakes
    <3> QED  BY <3>2, <3>6
  <2> HIDE DEF both, G, hs0
  <2> QED  BY <2>1, <2>2, <2>3
<1> QED  BY <1>1, HoldsInvariant, PTL

=============================================================================
