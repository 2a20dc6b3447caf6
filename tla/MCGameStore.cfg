SPECIFICATION Spec
CONSTANTS
    Requests = {r1, r2, r3}
    Answers = {crane, slate}
    Others = {geese}
    Unknown = {xxxxx}
    MaxGuesses = 2
SYMMETRY RequestSymmetry
INVARIANTS
    TypeOK
    StatusTellsBoard
    AnswersAgree
PROPERTIES
    KeepsGame
CHECK_DEADLOCK FALSE
