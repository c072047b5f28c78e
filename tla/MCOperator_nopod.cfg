SPECIFICATION FairSpec
CONSTANTS
    AttemptCap = 2
    MaxInterruptions = 0
    Faults = {"noPod"}
    TriageResults <- MCTriageResults
PROPERTIES
    FailedJobIsNoticed
