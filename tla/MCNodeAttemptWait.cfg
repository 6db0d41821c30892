CONSTANTS
    Workers = {w1, w2}
    NoWorker = NoWorker
    MaxAttempts = 1
    MaxEvents = 3
    MaxFaults = 0
    MaxLosses = 1
    Class = "safe"
    Suspends = TRUE
    HasDeadline = TRUE
SPECIFICATION FairSpec
INVARIANTS
    NoStrandedWork
PROPERTIES
    RunEnds
CHECK_DEADLOCK FALSE
