SPECIFICATION Spec
CONSTANTS
    Timeout = 1
    HTTPTimeout = 1
    Lifetimes <- MCLifetimes
    Intervals = {0, 1, 9}
    defaultPollInterval = 2
    maxPollInterval = 3
    SlowDown = 1
    MaxSlowDowns = 1
    SessionEnv = "OIDC_USER"
    ClockSkew = 1
    Leeway = 2
    Drifts <- MCDrifts
    TokenLifetimes = {0, 1}
    MaxClock = 8
INVARIANT LoginIsBounded
CHECK_DEADLOCK FALSE
