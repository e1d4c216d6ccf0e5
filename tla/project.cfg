SPECIFICATION Spec
CONSTANTS
    Users = {u1, u2}
    NoUser = NoUser
    Environments = {h, d1, d2, e1}
    Headless = h
    Defaults = {d1, d2}
    Templates = {t1, t2}
    Calls = {c1, c2}
    MaxStarts = 3
    MaxFaults = 1
INVARIANTS
    EveryMemberHasAccess
    StrangersWereRaced
    ChangesAreAudited
    IndicesArePaidFor
    AccountsAreOverlaps
PROPERTY AnsweredIsDone BootstrapEnds
CHECK_DEADLOCK FALSE
