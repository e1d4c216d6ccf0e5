SPECIFICATION FairSpec
CONSTANTS
    Events = {e1}
    Movers = {m1}
    Workers = {w1, w2}
    NoEvent = NoEvent
    MaxRaw = 2
    MaxFaults = 2
    BacklogLimit = 1
    MaxInFlight = 2
    MaxAttempts = 3
    RepairLimit = 1
INVARIANTS
    InductiveInv
    DuplicatesAreOverlaps
    OvercountIsBounded
PROPERTIES
    NormalizedIsFinal
    RequestsEnd
    KeepsTheLog
CHECK_DEADLOCK FALSE
