SPECIFICATION FairSpec
CONSTANTS
    Instances = {i1, i2, i3}
    Followed = i1
    MaxCrashes = 2
    Conns = {c1, c2}
    WsTimeout = 1
    HttpTimeout = 2
    Grace = 3
INVARIANTS
    HalfSeededIsPassing
    OneSeeds
PROPERTIES
    ServersGetWords
    Stops
CHECK_DEADLOCK FALSE
