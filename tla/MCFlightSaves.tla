----------------------------- MODULE MCFlightSaves -----------------------------
(* Three flights of one aircraft and one of another.  F2 and F3 agree on the  *)
(* holds, so only the summary tells them apart.                               *)
EXTENDS FlightComparison

MCAircraft == {"heli", "other"}
MCParts == {Summary, "hold"}
MCFlights == {"F1", "F2", "F3", "G1"}
MCAircraftOf == [f \in MCFlights |-> IF f = "G1" THEN "other" ELSE "heli"]
MCHeader == [f \in MCFlights |-> IF f = "F1" THEN "tune A" ELSE "tune B"]
MCFigure == [f \in MCFlights |->
                [p \in MCParts |-> IF p = Summary THEN f
                                   ELSE IF f = "F1" THEN "h1" ELSE "h2"]]

MCAxes == {"roll", "yaw"}
MCFloor == [axis \in MCAxes |-> IF axis = "roll" THEN 92 ELSE 10]

\* What tune B may have changed of tune A's gains.
Line == <<50, 100, 20, 0>>
Was == [axis \in MCAxes |-> Line]
Tunes == {Was,
          [Was EXCEPT !["yaw"][2] = 110], [Was EXCEPT !["roll"][2] = 90],
          [Was EXCEPT !["yaw"][1] = 60], [Was EXCEPT !["yaw"][4] = 5],
          [Was EXCEPT !["yaw"][2] = 110, !["roll"][2] = 90],
          [Was EXCEPT !["yaw"] = <<50, 110, 20>>], [Was EXCEPT !["roll"] = <<>>]}

\* The holds of one flight, on every axis alike but for the error on roll.
HeldAt(count, kind, speed, yaw, roll) ==
    [axis \in MCAxes |-> [count |-> count, kind |-> kind, speed |-> speed,
                          error |-> IF axis = "yaw" THEN yaw ELSE roll]]
Then == HeldAt(5, "zero", 2000, 100, 300)
Now == {HeldAt(5, "zero", 2100, 80, 150), HeldAt(5, "zero", 1900, 120, 450),
        HeldAt(5, "zero", 2000, 90, 300), HeldAt(4, "zero", 2000, 50, 100),
        HeldAt(9, "sustained", 2000, 50, 100), HeldAt(9, "zero", 2200, 50, 100),
        HeldAt(9, "zero", 0, 50, 100)}

Experiment(firmware, rates, gains, holds) ==
    [firmware |-> [h \in {"tune A", "tune B"} |-> IF h = "tune A" THEN "4.5" ELSE firmware],
     rates |-> [h \in {"tune A", "tune B"} |-> IF h = "tune A" THEN "slow" ELSE rates],
     gains |-> [h \in {"tune A", "tune B"} |-> IF h = "tune A" THEN Was ELSE gains],
     holds |-> [s \in {"h1", "h2"} |-> IF s = "h1" THEN Then ELSE holds]]

MCExperiments ==
    {Experiment("4.5", "slow", gains, holds) : gains \in Tunes, holds \in Now}
    \cup {Experiment(firmware, rates, [Was EXCEPT !["yaw"][2] = 110], HeldAt(5, "zero", 2100, 80, 150)) :
             firmware \in {"4.5", "4.6", Unreadable}, rates \in {"slow", "fast"}}
=============================================================================
