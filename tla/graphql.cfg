SPECIFICATION Spec
CONSTANTS
    Indices = {i1, i2}
    Spare = 0
    Workers = {w1}
    Events = {e1}
    AutoCreate = TRUE
    MaxAttempts = 1
    MaxFaults = 0
INVARIANT GraphqlFindsSaved
CHECK_DEADLOCK FALSE
