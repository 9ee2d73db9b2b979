SPECIFICATION Spec
CONSTANTS
    Flights <- MCFlights
    NaN = NaN
    Settle = 2
    MinMeasure = 12
    MaxGap = 2
    MaxHolds = 4
    Filters <- MCFilters
    Ripples <- MCRipples
    BandLow = 100
    BandTop = 221
    DriftLimit = 100
    MinWinding = 90
    MinTermSamples = 9
INVARIANTS
    HoldsAreFound
    AllClearIsMeasured
    GainIsEarned
