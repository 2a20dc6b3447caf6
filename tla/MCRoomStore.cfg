SPECIFICATION FairSpec
CONSTANTS
    Tokens = {1, 2, 3}
    MaxGuesses = 2
    GuessCap = 2
    Grace = 2
    IdleTimeout = 1
INVARIANTS
    TypeOK
    HostIsPlayer
    DisconnectedAtSet
    RoundOverSettled
    LobbyFresh
    ScoreConsistent
PROPERTIES
    HostHandover
    KeepsContract
    OnlyUseTouches
    AbandonedRoomGoes
CHECK_DEADLOCK FALSE
