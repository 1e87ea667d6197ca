SPECIFICATION Spec
CONSTANTS
    Device = {d1, d2}
    Client = {c1}
    RoomId = {r1}
    Kind = {"offer"}
    SendCap = 1
    MaxMsgs = 1
    Talker = {}
    Staller = {}
    Nil = Nil
INVARIANT AgentListsOnlineDevices
CHECK_DEADLOCK FALSE
