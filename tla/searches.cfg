SPECIFICATION Spec
CONSTANTS
    Events = {1, 2, 3}
    MaxTime = 3
    OwnTimes = {0, 1}
    Pumps = {p1, p2}
    PageSize = 1
    MaxTokens = 2
    MaxFaults = 1
    Docs <- MCDocs
    Asks <- MCAsks
    PageLimit = 1
    MaxBuckets = 2
INVARIANTS
    CursorIsComplete
    PagesAreFresh
    CursorWalkIsExact
    OffsetWalkIsStable
    CountsAreComplete
    BackendsAgree
SYMMETRY Symmetry
CHECK_DEADLOCK FALSE
