SPECIFICATION IntakeSpec
CONSTANTS
    Events = {e1, e2}
    Movers = {m1, m2}
    MaxRaw = 2
    MaxFaults = 2
    BacklogLimit = 1
    MaxInFlight = 2
    MaxAttempts = 2
INVARIANTS
    AckedIsHeld
    DiscardNeedsFaults
    SinglePublisher
SYMMETRY Symmetry
CHECK_DEADLOCK FALSE
