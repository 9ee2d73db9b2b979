SPECIFICATION AdviceSpec
CONSTANTS
    X = X
    Y = Y
    Axes = {X, Y}
    AxisOrder <- MCAxisOrder
    Materials <- MCMaterials
    MinStops = 1
    MinHolds = 2
    EventSpan = 1
    MaxGap = 2
    RingingFloor = 8
    CeilingMultiple = 3
    Flights <- MCFlights
    Level = 8
    MaxInput = 8
    MinSamples = 4
    MaxInterval = 2
    WindowSize = 2
    MinWindows = 3
    Resolution = 2
    MinRpmSamples = 3
    MaxListed = 1
    MaxEscalations = 2
    MaxSearch = 4
INVARIANTS
    NoGainOnUncheckedAirframe
    VibrationIsHeeded
    BlockIsExplained
    GovernorIsBlamedFairly
PROPERTIES
    ImplementsOneChange
