CONSTANTS
    Inputs <- SmallPages
    WallSizes = {1, 2, 3, 4}
SPECIFICATION LoopFairSpec
INVARIANTS
    FramesFit
    MakesTheCuts
PROPERTIES
    WholeSections
    Ends
CHECK_DEADLOCK FALSE
