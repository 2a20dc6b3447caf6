SPECIFICATION Spec
CONSTANTS
    Clients = {c1, c2}
    Broadcasters = {b1, b2}
    MaxHubs = 2
    ChanCap = 1
    MaxVersion = 3
INVARIANTS
    TypeOK
    BroadcastsDoNotPanic
    NoHubLeaks
    EveryMutationReaches
SYMMETRY HubSymmetry
CHECK_DEADLOCK FALSE
