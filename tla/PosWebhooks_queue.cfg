SPECIFICATION QueueFairSpec
CONSTANTS
    MaxChanges = 3
    w1 = w1
    w2 = w2
    Workers = {w1, w2}
    Poison = {1}
    MaxFaults = 2
    None = None
INVARIANTS
    ExclusiveUnlessOverrun
PROPERTIES
    KeepsWork
    WorksItOff
CHECK_DEADLOCK FALSE
