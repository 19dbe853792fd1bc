\* A keyboard without colours: no multi_intensity, every write succeeds.
CONSTANTS
    MAX_BRIGHTNESS = 2
    MaxLevel = 2
    HwMax = 2
    Multicolor = FALSE
    HasFanMode = FALSE
    HasFanBoost = FALSE
    HasHwChanged = TRUE
    FollowHw = TRUE
    RestoreOnResume = TRUE
    Faulty = {}
    Palette = {"blue"}
    Colors <- Palette
    DefaultCycle <- MCCycle
    Frames <- MCFrames
    Black = "Black"
    Dim = "Dim"
    Waves <- MCWaves
    FullWave = 1
    Shade <- MCShade
    Hue <- MCHue
    ConfigProfiles <- MCConfig
    LevelInputs = {0, 2}
    SpeedInputs = {}
    KindInputs = {"breathing"}
    ColorListInputs = {}
    FanInputs = {"performance"}
    BoostInputs = {TRUE, FALSE}
    ProfileInputs = {}
    FoundLevels = {0}
    ResetLevels = {0}
    BootNotices = {NoNotice}
    NoFrame = NoFrame
    NoMode = NoMode
    NoNotice = NoNotice
SPECIFICATION Spec
PROPERTY BrightnessOnlyWorks
