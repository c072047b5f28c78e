SPECIFICATION Spec
CONSTANTS
    AttemptCap = 2
    MaxInterruptions = 1
    Faults = {"lag", "crash", "error"}
    TriageResults <- MCTriageResults
INVARIANTS
    HumanGate
    VerdictBehindPhase
    OneFixJobAtATime
    AtMostOnePR
    PROpenIsReal
    ConditionsMatchPhase
PROPERTIES
    SucceededNotRelaunched
    RetryOnlyAfterFailure
