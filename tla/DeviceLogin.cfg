SPECIFICATION FairSpec
CONSTANTS
    Timeout = 4
    HTTPTimeout = 2
    Lifetimes <- MCLifetimes
    Intervals = {0, 1, 9}
    defaultPollInterval = 2
    maxPollInterval = 3
    SlowDown = 1
    MaxSlowDowns = 1
    SessionEnv = "OIDC_USER"
    ClockSkew = 1
    Leeway = 2
    Drifts <- MCDrifts
    TokenLifetimes = {0, 1}
    MaxClock = 4
INVARIANTS TypeOK SuccessIsEarned ReasonIsTrue OnePinAttempt BoundedApartFromPrompt ClocksMayDiffer
PROPERTY Ends
CHECK_DEADLOCK FALSE
