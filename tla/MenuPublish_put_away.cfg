SPECIFICATION Spec
CONSTANTS
    m1 = m1
    m2 = m2
    m3 = m3
    s1 = s1
    s2 = s2
    c1 = c1
    c2 = c2
    v1 = v1
    v2 = v2
    Menus = {m1, m2}
    Screens = {s1}
    PagesPerMenu = 1
    Values = {v1}
    MenuLimit = 2
    PublishAttempts = 2
    Clients = {c1}
    MaxRequests = 1
    MaxChanges = 1
    Null = Null
SYMMETRY Symmetry
INVARIANTS
    PutAwayIsOnNoScreen
CHECK_DEADLOCK FALSE
