SPECIFICATION Spec
CONSTANTS
    Codes = {"success", "ignore", "auth_err", "authinfo_unavail", "user_unknown", "other"}
    Timeout = 2
    Grace = 1
    MaxClock = 5
    Punctual = TRUE
    AutoReaped = TRUE
INVARIANT SuccessIsEarned
CHECK_DEADLOCK FALSE
