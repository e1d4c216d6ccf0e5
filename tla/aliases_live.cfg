SPECIFICATION FairSpec
CONSTANTS
    Indices = {i1, i2, i3, i4}
    Spare = 1
    Workers = {w1}
    Events = {e1}
    AutoCreate = TRUE
    MaxAttempts = 1
    MaxFaults = 1
PROPERTY AliasesSettle
CHECK_DEADLOCK FALSE
