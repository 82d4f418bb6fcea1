SPECIFICATION FairSpec
CONSTANTS
    Count = 5
    Safe = {2, 3, 4}
    Unknown = {1}
    Sensitive = {2, 5}
    Rule <- Rules
    Hooks = TRUE
    Speaking = {5}
    MaxConcurrency = 2
    MaxPolicies = 2
INVARIANTS
    CapHeld
PROPERTIES
    KeepsSchedule
    CancelSettles
CHECK_DEADLOCK FALSE
