SPECIFICATION Spec
CONSTANTS
    Issuers = {"i1", "i2", "i3"}
    Bases = {"b1", "b2", "b3"}
    Advertised <- MCAdvertised
    DefaultBase <- MCDefaultBase
    HomeBase <- MCHomeBase
    Names = {"n1", "n2"}
    Options <- MCOptions
    Accounts = {"ops"}
    Logins = {l1}
    MaxAttempts = 3
    recordName = recordName
    Partial = Partial
    None = None
INVARIANTS TypeOK ConfigDescribesEnrolment AssertionsVerify OneHostPerProvider
PROPERTY ConflictIsReal
CHECK_DEADLOCK FALSE
