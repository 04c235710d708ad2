SPECIFICATION Spec
CONSTANTS
    d1 = d1
    d2 = d2
    u1 = u1
    u2 = u2
    n1 = n1
    n2 = n2
    i1 = i1
    i2 = i2
    Device <- MCDevice
    Enabled <- MCEnabled
    User <- MCUser
    Allowed <- MCAllowed
    Nonce <- MCNonce
    Instance <- MCInstance
    Offset <- MCOffset
    Skew = 1
    Ttl = 2
    Deadline = 2
    PurgeLag = 2
    MaxTime = 6
    None = None
INVARIANTS TypeOK BurnedByAcceptable
PROPERTIES SecondOnlyAtEdge ServedWhileRecent ImplementsOnceOnly
CHECK_DEADLOCK FALSE
