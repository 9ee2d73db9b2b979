SPECIFICATION FairSpec
CONSTANTS
    a1 = a1
    a2 = a2
    c1 = c1
    c2 = c2
    p1 = p1
    p2 = p2
    q = q
    i1 = i1
    i2 = i2
    i3 = i3
    Aircraft = {a1, a2}
    Capabilities = {c1, c2}
    Ids = {i1, i2, i3}
    Clients = {p1, p2, q}
    AircraftOf <- MCAircraftOf
    CapabilityOf <- MCCapabilityOf
    Seeds <- MCSeeds
    MaxPerAircraft = 2
    MaxTroubles = 2
    None = None
    Odd = Odd
PROPERTIES
    ImplementsErasure
    OwnerIsHeard
CHECK_DEADLOCK FALSE
