SPECIFICATION FairSpec
CONSTANTS
    Peer = {p1, p2}
    Refused = {}
    Lifetime = 10
    PermLifetime = 5
    RefreshEvery = 4
    Faults = TRUE
    MaxIdle = 11
    MaxMissed = 2
    None = None
INVARIANTS
    TypeOK
    RelayIsReal
    AllocationOutlivesLoss
PROPERTY DeadRelayEndsRound
CHECK_DEADLOCK FALSE
