SPECIFICATION FairSpec
CONSTANTS
    MaxChanges = 2
    w1 = w1
    w2 = w2
    Workers = {w1, w2}
    Poison = {}
    MaxFaults = 1
    None = None
    Providers = {"Toast", "Clover"}
PROPERTIES
    ToastConverges
    
CHECK_DEADLOCK FALSE
