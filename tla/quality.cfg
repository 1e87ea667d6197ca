SPECIFICATION FairSpec
CONSTANTS
    UserRes = {1024}
    UserFps = {5}
    Sample = {0, 5, 30}
    RingSize = 2
    MinSamples = 2
    CheckEvery = 2
    MaxConn = 2
    MaxUps = 1
    MaxUses = 4
    None = None
INVARIANT TypeOK
PROPERTIES
    LoopLowers
    GuardOnOwnSamples
    SettingsReachDevice
CHECK_DEADLOCK FALSE
