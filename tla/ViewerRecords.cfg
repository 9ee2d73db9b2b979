SPECIFICATION Spec
CONSTANTS
    Files <- MCFiles
    Flights <- MCFlights
    Cost <- MCCost
    Budget = 1
    MaxTaps = 4
    None = None
    Working = Working
    Failed = Failed
INVARIANT TuneIsForTheWindow
CHECK_DEADLOCK FALSE
