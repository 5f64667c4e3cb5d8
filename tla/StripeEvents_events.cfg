SPECIFICATION Spec
CONSTANTS
    r1 = r1
    r2 = r2
    va = va
    vb = vb
    None = None
    Writers = {r1, r2}
    VenueOrder <- TwoVenues
    Tiers = {1, 2}
    MaxEvents = 2
    MaxFaults = 1

    
PROPERTIES
    KeepsWork
    AppliedOnce
CHECK_DEADLOCK FALSE
