SPECIFICATION FairSpec
CONSTANTS
    a = a
    b = b
    c = c
    d = d
    e = e
    s = s
    t = t
    u = u
    Plugin = {a, b, c, d, e}
    Service = {s, t, u}
    Injects <- MCInjects
    Offers <- MCOffers
    Flaky = {b}
    MaxClock = 5
    None = None
INVARIANTS
    NoResidue
    ReloadRestores
PROPERTIES
    UnwindsInOrder
    OperationsEnd
CHECK_DEADLOCK FALSE
