SPECIFICATION Spec
CONSTANTS
    Procs = {p1, p2, p3}
    Queries = {"all"}
    Plausible = {"all"}
    Paths = {"f_all"}
    PathOf <- MCPathOf
    NoPath = NoPath
    NoFile = NoFile
    Lines = {"k1", "k2"}
    Statuses = {0}
    Concurrent = TRUE
    Answers <- MCGrants
    TTL = 1
    Second = 2
    MaxClock = 2
    ClockStepsBack = FALSE
INVARIANT ServedIsYoung
SYMMETRY Symmetry
CHECK_DEADLOCK FALSE
