SPECIFICATION MCSpec
CONSTANTS
    MinLen = 3
    UpperInverse = 4
    MaxText = 5
    Char <- MCChar
    MaxContent = 4
    MaxOld = 2
    MaxNew = 2
    MaxEdits = 0
INVARIANTS
    HTMLCommentsRemoved
CHECK_DEADLOCK FALSE
