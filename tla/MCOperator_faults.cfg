SPECIFICATION Spec
CONSTANTS
    AttemptCap = 2
    MaxInterruptions = 2
    Faults = {"crash", "error", "edit", "outage", "podLoss", "lostReport", "noPod"}
    TriageResults <- MCTriageResults
INVARIANTS
    TypeOK
    VerdictBehindPhase
    AttemptsGranted
    ExecutingIsLaunched
    ConditionsMatchPhase
    PROpenIsReal
PROPERTIES
    RecordedJobNotRecreated
    FollowsLifecycle
