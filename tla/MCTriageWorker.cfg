SPECIFICATION Spec
CONSTANTS
    AttemptCap = 1
    ModelVerdicts <- MCModelVerdicts
    MaxJobs = 2
INVARIANTS
    TypeOK
    LabelsAgree
    ReadIsPublished
    LabelsTellOneComment
CHECK_DEADLOCK FALSE
