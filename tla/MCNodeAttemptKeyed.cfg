CONSTANTS
    Workers = {w1, w2}
    NoWorker = NoWorker
    MaxAttempts = 2
    MaxEvents = 3
    MaxFaults = 1
    MaxLosses = 0
    Class = "idempotent_with_key"
    Suspends = FALSE
    HasDeadline = FALSE
SYMMETRY Symmetry
SPECIFICATION Spec
INVARIANTS
    TruthfulAttempt
    ReceiptHonest
PROPERTIES
    SettledIsFinal
CHECK_DEADLOCK FALSE
