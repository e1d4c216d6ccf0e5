SPECIFICATION Spec
CONSTANTS
    Indices = {i1, i2, i3}
    Spare = 0
    Workers = {w1, w2}
    Events = {e1}
    AutoCreate = TRUE
    MaxAttempts = 2
    MaxFaults = 1
INVARIANTS
    OneWriteIndex
    WriteIsSearched
    SavedIsSearchable
    NoLossWithoutCause
SYMMETRY Symmetry
CHECK_DEADLOCK FALSE
