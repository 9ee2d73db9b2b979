SPECIFICATION FairSpec
CONSTANTS
    Files <- MCFiles
    Flights <- MCFlights
    Cost <- MCCost
    Budget = 1
    MaxTaps = 4
    None = None
    Working = Working
    Failed = Failed
INVARIANTS
    MeasuredIsForTheScreen NewestIsShown FramesAreAccounted
PROPERTIES ComesToRest
CHECK_DEADLOCK FALSE
