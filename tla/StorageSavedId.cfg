SPECIFICATION Spec
CONSTANTS
    Aircraft <- MCAircraft
    Flights <- MCFlights
    AircraftOf <- MCOneAircraftOf
    Parts = {"summary"}
    Cap = 3
    MaxTaps = 4
    MaxTroubles = 0
INVARIANT StoredIdIsTheCandidates
CHECK_DEADLOCK FALSE
