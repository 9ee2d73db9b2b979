SPECIFICATION Spec
CONSTANTS
    Aircraft <- MCAircraft
    Parts <- MCParts
    Flights <- MCFlights
    AircraftOf <- MCAircraftOf
    Header <- MCHeader
    Figure <- MCFigure
    Cap = 2
    MaxOpens = 2
    MaxOrdinal = 4
    MaxOld = 3
    Axes <- MCAxes
    HoldPart = "hold"
    Floor <- MCFloor
    Tolerance = 10
    SpeedSpread = 20
    MinimumHolds = 5
    Experiments <- MCExperiments
INVARIANTS RecognitionIsExact ForgetMeansTheFlight CreditIsEarned
