CONSTANTS
    s1 = s1
    s2 = s2
    Pages = {1, 2}
    Boards <- SomeBoards
    Capacities = {2, 3}
    Wall <- TwoScreens
    MaxChanges = 1
SPECIFICATION FairSpec
INVARIANTS
    EachItemOnce
    WallShowsAll
PROPERTIES
    EveryFrameComesUp
