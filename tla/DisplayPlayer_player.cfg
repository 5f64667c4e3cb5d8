SPECIFICATION FairSpec
CONSTANTS
    l1 = l1
    l2 = l2
    Loads = {l1, l2}
    MaxRevision = 1
    MaxKey = 1
    MaxVersion = 2
    MaxFaults = 1

    
    
PROPERTIES
    LiveScreensCatchUp
CHECK_DEADLOCK FALSE
