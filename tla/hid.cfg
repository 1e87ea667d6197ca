SPECIFICATION FairSpec
CONSTANTS
    Key = {"l", "x"}
    Modifier = {"ctrl"}
    Combos <- TwoCombos
    Text <- Double
    Button = {"left"}
    Place = {1, 2}
    Setting = {1, 2}
    Rollover = 1
    HidCap = 1
    WireCap = 1
    ComboCap = 1
    Setups <- SmallSetups
    None = None
INVARIANTS
    TypeOK
    NoStuckKey
    MouseFollows
    TextArrives
PROPERTIES
    EscReleases
    SettingArrives
    LoopGoesOn
CHECK_DEADLOCK FALSE
