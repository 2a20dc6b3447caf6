SPECIFICATION RAFairSpec
CONSTANTS
    Tokens = {1, 2}
    MaxGuesses = 1
    GuessCap = 1
    Grace = 1
    IdleTimeout = 1
    Conns = {c1, c2}
PROPERTIES
    DropsAreFinalised
CHECK_DEADLOCK FALSE
