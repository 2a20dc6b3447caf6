SPECIFICATION Spec
CONSTANTS
    Letters = {a, b, c}
    Length = 4
INVARIANTS
    ScoreFollowsRule
    KeyboardTellsTruth
CHECK_DEADLOCK FALSE
