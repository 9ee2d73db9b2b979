---------------------------- MODULE FindingOrder ----------------------------
(***************************************************************************)
(* What is said first and what is not said: orderFindings of               *)
(* src/src/analysis/recommendations.mjs and the explanation of             *)
(* buildRecommendations for what was left out.                             *)
(*                                                                         *)
(* The findings of a flight are a sequence in the order they were made; a  *)
(* finding has an id, a rung, the axis it is about (NoAxis: the machine)   *)
(* and a kind.  A place in the sequence is the finding's sequence number.  *)
(***************************************************************************)
EXTENDS Naturals, Sequences

NoAxis == "every axis"

Rungs == <<"log", "airframe", "headspeed", "axis-mechanical",
           "gain-P", "gain-D", "gain-I", "evidence">>
FindingKinds == {"blocker", "adjustment", "observation", "next-flight"}

\* A rung nobody knows comes last.
RungOrder(rung) ==
    IF \E k \in 1 .. Len(Rungs) : Rungs[k] = rung
    THEN (CHOOSE k \in 1 .. Len(Rungs) : Rungs[k] = rung) - 1
    ELSE Len(Rungs)

Blockers(f) == {i \in DOMAIN f : f[i].kind = "blocker"}
Adjustments(f) == {i \in DOMAIN f : f[i].kind = "adjustment"}
Above(f, i, j) == RungOrder(f[i].rung) < RungOrder(f[j].rung)

\* A blocker of the machine or of the same axis, on a rung above.
BlockedAbove(f, i) ==
    \E b \in Blockers(f) : Above(f, b, i) /\ f[b].axis \in {NoAxis, f[i].axis}
Kept(f) == {i \in DOMAIN f : f[i].kind = "adjustment" => ~BlockedAbove(f, i)}

\* The actions on no lower a rung than any blocker.
Actions(f) ==
    {i \in Kept(f) \cap (Blockers(f) \cup Adjustments(f)) :
        \A b \in Blockers(f) : ~Above(f, b, i)}

\* sorted: by rung, then in the order they were made.
Before(f, i, j) == \/ Above(f, i, j)
                   \/ RungOrder(f[i].rung) = RungOrder(f[j].rung) /\ i <= j
Nobody == 0
PrimaryAction(f) ==
    IF Actions(f) = {} THEN Nobody
    ELSE CHOOSE i \in Actions(f) : \A j \in Actions(f) : Before(f, i, j)

\* Faulty variant: every adjustment that nothing blocks is said.
ReturnedAll(f) == Kept(f)
\* What the pilot is shown: one change at a time.
Returned(f) == {i \in Kept(f) : f[i].kind = "adjustment" => i = PrimaryAction(f)}

\* What is said of an adjustment that is not shown.
Reason(f, i) == IF BlockedAbove(f, i) THEN "BLOCKER_ABOVE" ELSE "ONE_CHANGE_AT_A_TIME"
Unreturned(f) == Adjustments(f) \ Returned(f)
=============================================================================
