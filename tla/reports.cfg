SPECIFICATION Spec
CONSTANTS
    Users = {u1, u2}
    Offsets <- MCOffsets
    NoZone = 99
    Events = {e1}
    EventHours = {43, 51}
    ActHours = {58, 75}
    ClockHours = {71, 77}
    Delays <- MCDelays
    Slots = {s1, s2}
    FirstHour = 40
    LastHour = 84
    MaxFaults = 1
INVARIANTS
    OneReportPerDay
    CountedOnce
    OnlyEastMissesEvents
    StoppedMeansNone
    NoLateMail
    CancelledForGood
SYMMETRY Symmetry
CHECK_DEADLOCK FALSE
