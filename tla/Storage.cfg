SPECIFICATION FairSpec
CONSTANTS
    Aircraft <- MCAircraft
    Flights <- MCFlights
    AircraftOf <- MCAircraftOf
    Parts = {"summary"}
    Cap = 3
    MaxTaps = 4
    MaxTroubles = 2
INVARIANTS
    FilesAreWhole ForgottenIsGone SavesAreKept NoUnaskedSharing
PROPERTIES UnreadIsKept ConsentCloses
CHECK_DEADLOCK FALSE
