SPECIFICATION PlatformSpec
CONSTANTS
    Refreshers = {w1, w2}
    MaxVersions = 3
    MaxSettings = 2
    MaxRare = 4
    Responders = {anna, ben}
    NoAnswer = NoAnswer
    MaxJobs = 3
    MaxTime = 5
    Thresholds = {2, 3}
    MaxKept = 3
    FoldLimit = 2
    Legacy = 1
    MaxChanges = 1
    Width = 2
    RunsPerWindow = 2
    PendingTicks = 4
    CapacityTicks = 2
    MaxEvents = 5
    MaxMoment = 6
    MaxReplacements = 1
    WorkspaceCount = 3
    BatchLimit = 2
    Slots = 1
    MaxRows = 2
SYMMETRY Interchangeable
INVARIANTS
    LostOnlyIfWithdrawn
    ActiveHasGrant
    AnswerCounts
    SettledIsWoken
    WindowsHold
    TurnComes
PROPERTIES
    StreakIsTrue
    StartsInTurn
CHECK_DEADLOCK FALSE
