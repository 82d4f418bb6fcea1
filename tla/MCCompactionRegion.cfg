SPECIFICATION FoldSpec
CONSTANTS
    Shape <- Shapes
    MaxLog = 9
    MaxFolds = 1
INVARIANTS
    NothingForgotten
CHECK_DEADLOCK FALSE
