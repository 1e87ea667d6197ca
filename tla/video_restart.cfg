SPECIFICATION Spec
CONSTANTS
    ChanCap = 1
    BcastCap = 1
    CtrlCap = 1
    MaxCmds = 1
    Source = "v4l2"
    HwEncode = TRUE
    Formats <- RichDevices
INVARIANT SettingsFollow
CHECK_DEADLOCK FALSE
