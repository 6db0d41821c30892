CONSTANTS
    MaxRedeliveries = 2
    MaxRedispatches = 1
    MaxFaults = 1
    MaxLosses = 2
SPECIFICATION FairSpec
INVARIANTS HandledOnce PublishedHasJob
PROPERTIES NeverForgotten Delivered
CHECK_DEADLOCK FALSE
