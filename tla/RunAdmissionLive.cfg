CONSTANTS
    Workflows = {w1}
    Caps = {0, 1}
    Limits = {1}
    Waiters = {1}
    MaxRuns = 2
    MaxEvents = 2
    MaxSpent = 1
SPECIFICATION FairSpec
PROPERTIES EveryRunLeavesQueue EveryTimedWaitEnds
CHECK_DEADLOCK FALSE
