SPECIFICATION FairSpec
CONSTANTS
    MaxWrites = 2
    MaxFaults = 3
    MaxMoves = 2
    MaxHistory = 1
    None = None
INVARIANTS
    SavesLandInOrder
    HeldIsLookedAfter
    QuietMeansConfirmed
    StepsAreInOnePlace
PROPERTY SavesSettle
CHECK_DEADLOCK FALSE
