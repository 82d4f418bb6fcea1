SPECIFICATION FairSpec
CONSTANTS
    MaxTasks = 2
    MaxAgents = 3
    MaxConcurrent = 2
    MaxItems = 2
    Stuck = TRUE
    Drops = TRUE
INVARIANTS
    NeverStalls
    CompletesAlone
    
PROPERTIES
    CancelReturns
CHECK_DEADLOCK FALSE
