------------------------------- MODULE MCStorage -------------------------------
(* Two flights, each of an aircraft of its own: forgetting a flight is then   *)
(* forgetting all of an aircraft, so its sharing identity is at stake.        *)
EXTENDS Storage

MCAircraft == {"c1", "c2"}
MCFlights == {"f1", "f2"}
MCAircraftOf == [f \in MCFlights |-> IF f = "f1" THEN "c1" ELSE "c2"]
\* Both flights of one aircraft.
MCOneAircraftOf == [f \in MCFlights |-> "c1"]
=============================================================================
