CONSTANTS
    Workflows = {w1}
    Caps = {0}
    Limits = {1, 2}
    Waiters = {}
    MaxRuns = 2
    MaxEvents = 1
    MaxSpent = 1
SPECIFICATION FairSpec
PROPERTIES ReservedStarts
CHECK_DEADLOCK FALSE
