SPECIFICATION Spec
CONSTANTS
    Length = 2
    MaxRows = 2
    MaxStates = 4
    MaxRounds = 2
INVARIANTS
    TileSettles
    NoDuplicateRow
    AnsweredWordGoes
CHECK_DEADLOCK FALSE
