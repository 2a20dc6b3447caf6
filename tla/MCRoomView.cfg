SPECIFICATION RVSpec
CONSTANTS
    Tokens = {1, 2}
    MaxGuesses = 2
    GuessCap = 3
    Grace = 1
    IdleTimeout = 1
    AllGreen = 2
INVARIANTS
    RankingIsFair
    BoardsClose
    PanelsTell
PROPERTIES
    NoGuessAfterReveal
CHECK_DEADLOCK FALSE
