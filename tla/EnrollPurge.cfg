SPECIFICATION Spec
CONSTANTS
    Issuers = {"i1"}
    Bases = {"b1", "b2"}
    Advertised <- MCAdvertised
    DefaultBase <- MCDefaultBase
    HomeBase <- MCHomeBase
    Names = {"n1"}
    Options <- MCOneOption
    Accounts = {"ops"}
    Logins = {l1}
    MaxAttempts = 2
    recordName = recordName
    Partial = Partial
    None = None
INVARIANT OldAnswersPurged
CHECK_DEADLOCK FALSE
