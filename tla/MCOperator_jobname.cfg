SPECIFICATION Spec
CONSTANTS
    AttemptCap = 2
    MaxInterruptions = 1
    Faults = {"crash"}
    TriageResults <- MCTriageResults
INVARIANTS
    JobNameIsCurrent
