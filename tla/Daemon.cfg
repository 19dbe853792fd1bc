\* Clients, Fn keys, effect loop and emitter on healthy hardware.
CONSTANTS
    MAX_BRIGHTNESS = 1
    HwMax = 1
    Multicolor = TRUE
    HasFanMode = FALSE
    HasFanBoost = FALSE
    HasHwChanged = TRUE
    FollowHw = TRUE
    RestoreOnResume = TRUE
    Faulty = {}
    Colors = {"blue"}
    DefaultCycle <- MCCycle
    Frames = {"Blue", "Dim"}
    Black = "Black"
    Dim = "Dim"
    Waves = {0}
    FullWave = 0
    Shade <- MCShade
    Hue <- MCHue
    ConfigProfiles <- MCConfig
    LevelInputs = {}
    SpeedInputs = {}
    KindInputs = {"breathing"}
    ColorListInputs = {}
    FanInputs = {}
    BoostInputs = {}
    ProfileInputs = {}
    FoundLevels = {0}
    ResetLevels = {}
    BootNotices = {NoNotice}
    NoFrame = NoFrame
    NoMode = NoMode
    NoNotice = NoNotice
    IdleOff = FALSE
    HasMains = FALSE
    HasEmitter = TRUE
    DiskFaulty = FALSE
    Clients = {"client"}
    NoState = NoState
    NoPower = NoPower
SPECIFICATION DaemonSpec
INVARIANTS NoLostWakeup NoLostSignal NoLostSave
PROPERTY EventuallySaved
