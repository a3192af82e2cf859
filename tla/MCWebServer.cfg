CONSTANTS
    MaxGen = 2
    Streams = {s1}
    LogCap = 1
    Hazards = {}
SPECIFICATION FairSpec
INVARIANTS
    TypeOK
    MenuTells
PROPERTIES
    IdleServerStops
    QuitEnds
CHECK_DEADLOCK FALSE
