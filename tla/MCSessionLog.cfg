SPECIFICATION Spec
CONSTANTS
    Proc = {p1, p2}
    None = None
    Width = {1, 2}
    Batching = TRUE
    MaxQuarantineLines = 1
    Reorder = TRUE
    WriteErrors = TRUE
    MaxId = 4
SYMMETRY Symmetry
INVARIANTS
    CommittedIntact
    RefusedNeverResurfaces
PROPERTIES
    CommittedNeverRewritten
    NoLineLostSilently
    ImplementsDurableLog
