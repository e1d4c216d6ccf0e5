SPECIFICATION Spec
CONSTANTS
    Descriptors = {d1}
    Actors = {a1}
    Groups = {g1, g2}
    Tokens = {t1}
    Calls = {c1, c2}
    Processes = {p1, p2}
    Processor = p0
    Leads = {0, 2}
    Times = {0, 4, 6, 1442}
    MaxFaults = 1
INVARIANTS
    VouchersEndWithTheirSession
    UsableUntilExpired
    AnsweredIsLogged
    LogIsTrue
    DeletionsLeaveATrace
SYMMETRY Symmetry
CHECK_DEADLOCK FALSE
