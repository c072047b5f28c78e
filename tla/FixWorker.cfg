SPECIFICATION Spec
CONSTANTS
    MaxMoves = 2
    MaxJobs = 2
INVARIANTS
    TypeOK
    PushedIsVerified
    ReportIsOwn
    NothingLost
PROPERTIES
    KeepsContract
CHECK_DEADLOCK FALSE
