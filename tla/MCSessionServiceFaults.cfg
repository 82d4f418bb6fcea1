SPECIFICATION FairSpec
CONSTANTS
    m1 = m1
    m2 = m2
    m3 = m3
    Msg = {m1, m2}
    Mixes <- Pairs
    Title = {}
    UserTitle = {}
    Compactions = TRUE
    Crashes = 1
    Failures = TRUE
    None = None
INVARIANT TurnsBracketed
INVARIANT MaintenanceQuiet
PROPERTY CheckpointNotStale
PROPERTY CancelStops
PROPERTY SettleGetsThrough
