SPECIFICATION Spec
CONSTANTS
    Procs = {p1, p2, p3}
    Queries = {"all", "Odd.account", "-bad"}
    Plausible = {"all", "Odd.account"}
    Paths = {"f_all"}
    PathOf <- MCPathOf
    NoPath = NoPath
    NoFile = NoFile
    Lines = {"k1", "k2"}
    Statuses = {403, 429, 500}
    Concurrent = FALSE
    Answers <- MCAnswers
    TTL = 2
    Second = 2
    MaxClock = 3
    ClockStepsBack = FALSE
INVARIANT DenialOutlivesOutage
SYMMETRY Symmetry
CHECK_DEADLOCK FALSE
