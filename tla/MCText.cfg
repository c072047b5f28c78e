SPECIFICATION MCSpec
CONSTANTS
    MinLen = 3
    UpperInverse = 4
    MaxText = 5
    Char <- MCChar
    MaxContent = 4
    MaxOld = 2
    MaxNew = 2
    MaxEdits = 2
INVARIANTS
    SanitizedAsDefined
    ChunkingChangesNothing
    NothingLeftWhole
    NoHalfEdit
    EditsAsOne
CHECK_DEADLOCK FALSE
