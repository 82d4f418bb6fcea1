SPECIFICATION Spec
CONSTANTS
    n1 = n1
    n2 = n2
    Tool = {n1, n2}
    Call = {k}
    Catalog <- Catalogs
    First <- First1
    Contested = {n2}
    MaxManaged = 1
    MaxConns = 2
    MaxAttempts = 1
    MaxChanges = 1
    MaxFaults = 1
INVARIANT NothingLeft
INVARIANT NobodyForgotten
INVARIANT WakeupsKept
