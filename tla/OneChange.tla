----------------------------- MODULE OneChange ------------------------------
(***************************************************************************)
(* What the pilot is promised of a page of advice, whatever was found and  *)
(* however it was judged (recommendations.mjs, header: "a blocked rung     *)
(* suppresses every adjustment below it", "at most one adjustment          *)
(* instruction is returned").                                              *)
(***************************************************************************)
EXTENDS FindingOrder

VARIABLES found,  \* the findings made so far, in the order they were made
          said,   \* the places of those the pilot is shown
          told    \* the page has been written

vars == <<found, said, told>>

Init == found = <<>> /\ said = {} /\ told = FALSE

\* More is found; nothing that was found is taken back.
Find ==
    /\ ~told /\ UNCHANGED <<said, told>>
    /\ Len(found) <= Len(found') /\ \A i \in DOMAIN found : found'[i] = found[i]

OneAdjustment(page) ==
    \A i, j \in page : found[i].kind = "adjustment" /\ found[j].kind = "adjustment" => i = j
NothingAbove(page) ==
    \A i \in page, b \in Blockers(found) : found[i].kind = "adjustment" => ~Above(found, b, i)
OnlyChangesHeldBack(page) ==
    page \subseteq DOMAIN found /\ DOMAIN found \ page \subseteq Adjustments(found)
\* With nothing in the way, there is an adjustment, and it is the first to make.
SomethingToDo(page) ==
    Blockers(found) = {} /\ Adjustments(found) # {} =>
        \E i \in page \cap Adjustments(found) :
            \A j \in Adjustments(found) : Before(found, i, j)

Tell ==
    /\ ~told /\ told' = TRUE /\ UNCHANGED found
    /\ OnlyChangesHeldBack(said') /\ OneAdjustment(said')
    /\ NothingAbove(said') /\ SomethingToDo(said')

Next == Find \/ Tell
Spec == Init /\ [][Next]_vars
=============================================================================
