------------------------------- MODULE Erasure -------------------------------
(* What the deletion of an aircraft promises (backend.mjs and the README of    *)
(* backend/firebase): its records are kept whole, with their share of the      *)
(* counts, until somebody who holds its capability asks; then they are erased  *)
(* whole and for good, and only somebody who holds it is told so.              *)
EXTENDS Integers

CONSTANTS
    Aircraft,
    Clients,       \* who may ask
    AircraftOf,    \* for which aircraft each of them asks
    CapabilityOf,  \* and with which capability
    None, Odd

VARIABLES
    library,   \* what is stored of every aircraft
    stats,     \* the counts over all of them
    erasedBy,  \* the capability an aircraft was erased with
    asked, told
erasure == <<library, stats, erasedBy, asked, told>>

Nothing == [aircraft |-> None, contributions |-> {}, claims |-> {}]

Init == asked = {} /\ told = {}

Ask(p) ==
    /\ asked' = asked \cup {p}
    /\ UNCHANGED <<library, stats, erasedBy, told>>

\* The aircraft's share of the counts goes with its records.
Erase(p) ==
    LET a == AircraftOf[p]
        was == library[a].aircraft
    IN  /\ p \in asked /\ was \notin {None, Odd} /\ was.capability = CapabilityOf[p]
        /\ erasedBy[a] = None
        /\ library' = [library EXCEPT ![a] = Nothing]
        /\ erasedBy' = [erasedBy EXCEPT ![a] = CapabilityOf[p]]
        /\ stats' = [aircraft |-> stats.aircraft - (IF was.validated > 0 THEN 1 ELSE 0),
                     flights  |-> stats.flights - was.validated,
                     eligible |-> stats.eligible - was.eligible]
        /\ UNCHANGED <<asked, told>>

Tell(p) ==
    /\ p \in asked
    /\ erasedBy[AircraftOf[p]] = CapabilityOf[p] /\ library[AircraftOf[p]] = Nothing
    /\ told' = told \cup {p}
    /\ UNCHANGED <<library, stats, erasedBy, asked>>

Next == \E p \in Clients : Ask(p) \/ Erase(p) \/ Tell(p)

Spec == Init /\ [][Next]_erasure
=============================================================================
