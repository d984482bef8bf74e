SPECIFICATION FairSpec
CONSTANTS
    Codes = {"success", "ignore", "auth_err", "authinfo_unavail", "user_unknown", "other"}
    Timeout = 2
    Grace = 1
    MaxClock = 5
    Punctual = FALSE
    AutoReaped = FALSE
INVARIANTS TypeOK SuccessIsEarned NothingLeft NoEarlyKill PollsAfterAnswer
PROPERTY Returns
CHECK_DEADLOCK FALSE
