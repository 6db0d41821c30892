CONSTANTS
    Workers = {w1, w2}
    NoWorker = NoWorker
    MaxAttempts = 2
    MaxEvents = 3
    MaxFaults = 0
    MaxLosses = 0
    Class = "idempotent_with_key"
    Suspends = FALSE
    HasDeadline = TRUE
SYMMETRY Symmetry
SPECIFICATION Spec
INVARIANTS
    TruthfulStop
CHECK_DEADLOCK FALSE
