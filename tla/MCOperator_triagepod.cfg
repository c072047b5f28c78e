SPECIFICATION Spec
CONSTANTS
    AttemptCap = 2
    MaxInterruptions = 0
    Faults = {}
    TriageResults <- MCTriageResults
PROPERTIES
    FailedWithTriageJob
