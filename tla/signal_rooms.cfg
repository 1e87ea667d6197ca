SPECIFICATION Spec
CONSTANTS
    Device = {d1, d2}
    Client = {c1}
    RoomId = {r1}
    Kind = {"offer"}
    SendCap = 1
    MaxMsgs = 1
    Talker = {d1, d2}
    Staller = {}
    Nil = Nil
SYMMETRY Symmetry
INVARIANTS
    TypeOK
    SendTargetsOpen
    SlotOwned
    CacheOwned
    NoRoomLeak
    NoMissedOffer
PROPERTIES
    ImplementsRelay
CHECK_DEADLOCK FALSE
