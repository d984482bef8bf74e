SPECIFICATION Spec
CONSTANTS
    n1 = n1
    acc1 = acc1
    c1 = c1
    c2 = c2
    KeyPairs = {1, 2}
    Names = {n1}
    Accounts = {acc1}
    Clients = {c1, c2}
    Assertions <- MCAssertions
    DeviceRequests <- MCDeviceRequests
    KeysRequests <- MCKeysRequests
    EnrollRequests <- MCEnrollRequests
    Requests = {r1, r2}
    assertionSkew = 1
    assertionMaxLifetime = 1
    accessTokenLifetime = 1
    MaxClock = 3
    MaxRequests = 4
    MaxSettings = 1
    None = None
SYMMETRY Interchangeable
INVARIANT TokenBelongsToFlow
CHECK_DEADLOCK FALSE
