SPECIFICATION QueueSpec
CONSTANTS
    AttemptCap = 2
    MaxInterruptions = 2
    Faults = {"crash", "error", "edit", "lostReport"}
    TriageResults <- MCTriageResults
PROPERTIES
    LifecycleGoesOn
    ReportIsRecorded
    ApprovalIsActedOn
