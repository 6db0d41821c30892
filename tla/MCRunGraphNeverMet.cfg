CONSTANTS
    Graphs <- NeverMet
    MaxAttempts = 2
    MaxAdmissions = 2
    MaxWakes = 2
SPECIFICATION FairSpec
PROPERTIES
    RunEnds
CHECK_DEADLOCK FALSE
