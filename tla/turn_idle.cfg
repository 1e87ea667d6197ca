SPECIFICATION Spec
CONSTANTS
    Peer = {p1}
    Refused = {}
    Lifetime = 10
    PermLifetime = 5
    RefreshEvery = 4
    Faults = FALSE
    MaxIdle = 12
    MaxMissed = 3
    None = None
INVARIANT AllocationIsKept
CHECK_DEADLOCK FALSE
