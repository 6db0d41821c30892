CONSTANTS
    Graphs <- Sound
    MaxAttempts = 2
    MaxAdmissions = 2
    MaxWakes = 2
SPECIFICATION FairSpec
INVARIANTS
    TypeOK
    NeverUnadvanceable
    RowsFollow
    EndsSettled
    OnlyChosenPathRuns
    InOrder
    LedgerTruth
    BranchLimit
PROPERTIES
    LedgerFixed
    NothingStartsAfterStop
    RunEnds
\* A run that has ended takes no step.
CHECK_DEADLOCK FALSE
