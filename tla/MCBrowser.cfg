SPECIFICATION FairSpec
CONSTANTS
    Tokens = {1, 2}
    MaxStates = 4
    MaxRooms = 2
    Runs = {1, 2}
    MaxCalls = 1
    Guards = {1, 2}
    Games = {1, 2, 3}
    MaxRows = 2
    MaxAsked = 2
INVARIANTS
    NoLeak
    PhaseTellsWatch
    UrlNamesGame
PROPERTIES
    DiscardsOnlyDeadTokens
    BoardNeverShrinks
    LineSettles
CHECK_DEADLOCK FALSE
