SPECIFICATION FairSpec
CONSTANTS
    m1 = m1
    m2 = m2
    m3 = m3
    s1 = s1
    s2 = s2
    c1 = c1
    c2 = c2
    v1 = v1
    v2 = v2
    Menus = {m1, m2}
    Screens = {s1, s2}
    PagesPerMenu = 2
    Values = {v1}
    MenuLimit = 1
    PublishAttempts = 1
    Clients = {c1}
    MaxRequests = 2
    MaxChanges = 1
    Null = Null
INVARIANTS
    CeilingHolds
    TargetsAreAccountedFor
    PutAwayHasNoAssignment

    
CHECK_DEADLOCK FALSE
