SPECIFICATION FoldSpec
CONSTANTS
    Shape <- Shapes
    MaxLog = 8
    MaxFolds = 2
INVARIANTS
    PairsIntact
    FoldedOnce
    NothingForgottenInPlace
    SpansTold
CHECK_DEADLOCK FALSE
