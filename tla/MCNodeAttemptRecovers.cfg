CONSTANTS
    Workers = {w1}
    NoWorker = NoWorker
    MaxAttempts = 1
    MaxEvents = 3
    MaxFaults = 1
    MaxLosses = 1
    Class = "unsafe"
    Suspends = FALSE
    HasDeadline = FALSE
SPECIFICATION FairSpec
INVARIANTS
    NoStrandedWork
PROPERTIES
    RunEnds
CHECK_DEADLOCK FALSE
