SPECIFICATION FairSpec
CONSTANTS
    Device = {d1}
    Client = {c1}
    RoomId = {r1}
    Kind = {"offer", "note"}
    SendCap = 2
    MaxMsgs = 2
    Talker = {d1}
    Staller = {c1}
    Nil = Nil
INVARIANT
    RelayInOrder
PROPERTIES
    GoroutinesEnd
    OfferReachesClient
CHECK_DEADLOCK FALSE
