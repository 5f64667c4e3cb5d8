SPECIFICATION FairSpec
CONSTANTS
    a = a
    b = b
    v = v
    c1 = c1
    c2 = c2
    g = g
    r1 = r1
    r2 = r2
    Null = Null
    Screens = {a, b}
    Venues = {v}
    Codes = {c1}
    Groups = {g}
    Slots = {r1, r2}
    MaxRequests = 3
    MaxKeys = 3
INVARIANTS
    
    CodesReplaceOnce
PROPERTY
    SilentScreensGoOffline
CHECK_DEADLOCK FALSE
