SPECIFICATION LivesSpec
CONSTANTS
    AttemptCap = 2
    MaxInterruptions = 0
    Faults = {}
    MaxLives = 2
    TriageResults <- MCTriageResults
PROPERTIES
    TriagedByOwnJob
CHECK_DEADLOCK FALSE
