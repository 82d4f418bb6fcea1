SPECIFICATION StoreSpec
CONSTANTS
    Proc = {p1}
    Reader = {r1}
    Root = root
    Child = {c1, c2}
    MaxOwn = 1
    None = None
    Width = {1, 2}
    Batching = FALSE
    MaxQuarantineLines = 4
    Reorder = FALSE
    WriteErrors = FALSE
    MaxId = 3
INVARIANTS
    ChildSeesItsPrefix
