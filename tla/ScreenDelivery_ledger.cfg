SPECIFICATION LedgerSpec
CONSTANTS
    MaxRevision = 4
    MaxKey = 2
INVARIANTS
    OutstandingIsLatest
    
PROPERTIES
    DecisionsStand
    OnlyTheLatestIsApplied
    RevisionsGrow
CHECK_DEADLOCK FALSE
