\* Power, idle and suspend events on healthy hardware, no clients.
CONSTANTS
    MAX_BRIGHTNESS = 1
    HwMax = 1
    Multicolor = TRUE
    HasFanMode = FALSE
    HasFanBoost = FALSE
    HasHwChanged = FALSE
    FollowHw = TRUE
    RestoreOnResume = TRUE
    Faulty = {}
    Colors = {"blue"}
    DefaultCycle <- MCCycle
    Frames = {"Blue", "Dim"}
    Black = "Black"
    Dim = "Dim"
    Waves = {0, 1}
    FullWave = 1
    Shade <- MCShade
    Hue <- MCHue
    ConfigProfiles <- MCAnimated
    LevelInputs = {}
    SpeedInputs = {}
    KindInputs = {}
    ColorListInputs = {}
    FanInputs = {}
    BoostInputs = {}
    ProfileInputs = {}
    FoundLevels = {0}
    ResetLevels = {0}
    BootNotices = {NoNotice}
    NoFrame = NoFrame
    NoMode = NoMode
    NoNotice = NoNotice
    IdleOff = TRUE
    HasMains = TRUE
    HasEmitter = FALSE
    DiskFaulty = FALSE
    Clients = {}
    NoState = NoState
    NoPower = NoPower
SPECIFICATION DaemonSpec
INVARIANTS DaemonTypeOK NoLostWakeup
PROPERTIES RelitOnInput FollowsMains RestoredAfterResume
