SPECIFICATION Spec
CONSTANTS
    Procs = {p1, p2, p3}
    Queries = {"all", "one"}
    Plausible = {"all", "one"}
    Paths = {"f_all", "f_one"}
    PathOf <- MCPathOf
    NoPath = NoPath
    NoFile = NoFile
    Lines = {"k1", "k2"}
    Statuses = {0}
    Concurrent = TRUE
    Answers <- MCGrants
    TTL = 1
    Second = 2
    MaxClock = 2
    ClockStepsBack = TRUE
INVARIANTS HeaderIsYoung ServedStaysInItsFile
SYMMETRY Symmetry
CHECK_DEADLOCK FALSE
