SPECIFICATION FairSpec
CONSTANTS
    Events = {e1}
    Movers = {m1}
    Workers = {w1, w2}
    NoEvent = NoEvent
    MaxRaw = 2
    MaxFaults = 1
    BacklogLimit = 1
    MaxInFlight = 2
    MaxAttempts = 2
    RepairLimit = 1
PROPERTIES
    NormalizedIsPublished
CHECK_DEADLOCK FALSE
