SPECIFICATION FairSpec
CONSTANTS
    ChanCap = 1
    BcastCap = 1
    CtrlCap = 2
    MaxCmds = 2
    Source = "v4l2"
    HwEncode = TRUE
    Formats <- MixedDevices
INVARIANTS
    TypeOK
    NoEncodedFrameDropped
    SettingsFollowMjpeg
PROPERTIES
    PictureArrives
    CommandsTaken
CHECK_DEADLOCK FALSE
