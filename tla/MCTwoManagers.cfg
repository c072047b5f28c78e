SPECIFICATION BothSpec
CONSTANTS
    AttemptCap = 2
    MaxInterruptions = 0
    Faults = {}
    TriageResults <- MCTriageResults
INVARIANTS
    HumanGate
    VerdictBehindPhase
    OneFixJobAtATime
    AtMostOnePR
PROPERTIES
    RetryOnlyAfterFailure
