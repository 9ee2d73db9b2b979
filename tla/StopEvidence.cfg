SPECIFICATION Spec
CONSTANTS
    Flights <- MCFlights
    NaN = NaN
    Command = 8
    Stop = 2
    MinHold = 2
    PlateauMax = 2
    TransitMax = 5
    Rebound = 1
    Slow <- MCSlow
    Spacing = 8
    MaxEvents = 5
    Settings <- MCSettings
    Judgements <- MCJudgements
    Judgement <- MCJudgement
    MinCrossings = 3
    RingingFloor = 500
    MinFlat = 3
    MinStops = 2
    Warn = 35
    HeadLimit = 5
    MaxGap = 3
    ShareFloor = 5
    ShareCap = 30
INVARIANTS
    StopsAreFound
    AdviceSurvivesTheSweep
    NoGainAgainstAsymmetry
