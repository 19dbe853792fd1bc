\* The daemon while writes to the LED brightness may fail.
CONSTANTS
    MAX_BRIGHTNESS = 1
    HwMax = 1
    Multicolor = TRUE
    HasFanMode = FALSE
    HasFanBoost = FALSE
    HasHwChanged = FALSE
    FollowHw = TRUE
    RestoreOnResume = TRUE
    Faulty = {"brightness"}
    Colors = {"blue"}
    DefaultCycle <- MCCycle
    Frames = {"Blue", "Dim"}
    Black = "Black"
    Dim = "Dim"
    Waves = {0, 1}
    FullWave = 1
    Shade <- MCShade
    Hue <- MCHue
    ConfigProfiles <- MCConfig
    LevelInputs = {}
    SpeedInputs = {}
    KindInputs = {"static", "breathing"}
    ColorListInputs = {}
    FanInputs = {}
    BoostInputs = {}
    ProfileInputs = {}
    FoundLevels = {0}
    ResetLevels = {}
    BootNotices = {NoNotice}
    NoFrame = NoFrame
    NoMode = NoMode
    NoNotice = NoNotice
    IdleOff = FALSE
    HasMains = FALSE
    HasEmitter = TRUE
    DiskFaulty = FALSE
    Clients = {"client"}
    NoState = NoState
    NoPower = NoPower
SPECIFICATION DaemonSpec
INVARIANT NoLostSignal
