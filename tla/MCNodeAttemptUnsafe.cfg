CONSTANTS
    Workers = {w1, w2}
    NoWorker = NoWorker
    MaxAttempts = 2
    MaxEvents = 3
    MaxFaults = 1
    MaxLosses = 0
    Class = "unsafe"
    Suspends = FALSE
    HasDeadline = FALSE
SYMMETRY Symmetry
SPECIFICATION Spec
INVARIANTS
    AtMostOneEffect
    TruthfulStop
    NoOpenWorkAfterEnd
PROPERTIES
    PromiseKept
CHECK_DEADLOCK FALSE
