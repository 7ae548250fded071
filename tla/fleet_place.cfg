SPECIFICATION FairSpec
CONSTANTS
    g = g
    h = h
    Host = {g, h}
    Waves = 2
    None = None
    MaxQueue = 1
    MaxFault = 1
INVARIANTS
    TypeOK
    AdIsHonest ServedOnce
PROPERTIES
    NetworkStops
    Recovers
