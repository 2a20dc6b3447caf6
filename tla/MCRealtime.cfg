SPECIFICATION RTFairSpec
CONSTANTS
    Tokens = {1, 2}
    MaxGuesses = 1
    GuessCap = 1
    Grace = 2
    IdleTimeout = 1
    Conns = {c1, c2}
INVARIANTS
    GraceIsTimed
    RoundIsWatched
PROPERTIES
    HostSettles
CHECK_DEADLOCK FALSE
