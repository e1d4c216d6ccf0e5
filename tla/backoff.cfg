SPECIFICATION Spec
CONSTANTS
    Users = {u1, u2}
    Requests = {r1, r2}
    NoRequest = NoRequest
    MaxFaults = 1
PROPERTY BackoffRefusalIsTrue
SYMMETRY Symmetry
CHECK_DEADLOCK FALSE
