SPECIFICATION FairSpec
CONSTANTS
    Inst = {1, 2, 3}
    Job = {j1}
    Kinds = {"owned", "capture"}
    MaxAlive = 2
    MaxTurns = 1
    MaxFaults = 1
INVARIANTS
    SingleDeliverer
    NoticeKept
PROPERTIES
    
    EventuallyTold
CHECK_DEADLOCK FALSE
