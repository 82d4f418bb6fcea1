SPECIFICATION StoreSpec
CONSTANTS
    Proc = {p1}
    Reader = {r1}
    Root = root
    Child = {c1, c2}
    MaxOwn = 1
    None = None
    Width = {2}
    Batching = FALSE
    MaxQuarantineLines = 4
    Reorder = FALSE
    WriteErrors = FALSE
    MaxId = 4
SYMMETRY Symmetry
INVARIANTS
    ForkKeepsPrefix
    CacheMatchesFile
PROPERTIES
    ReadsSeeCommitted
