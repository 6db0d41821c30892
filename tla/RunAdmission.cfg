CONSTANTS
    Workflows = {w1}
    Caps = {0, 1, 2}
    Limits = {1, 2}
    Waiters = {1}
    MaxRuns = 3
    MaxEvents = 2
    MaxSpent = 1
SPECIFICATION Spec
INVARIANTS BoundToDelivery OrderedStarts
PROPERTIES NeverOverGranted CapRespected
CHECK_DEADLOCK FALSE
