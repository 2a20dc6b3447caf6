SPECIFICATION Spec
CONSTANTS
    Clients = {c1}
    Broadcasters = {b1, b2}
    MaxHubs = 1
    ChanCap = 1
    MaxVersion = 4
INVARIANTS
    InitialPayloadLands
CHECK_DEADLOCK FALSE
