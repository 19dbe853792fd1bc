\* A healthy uniwill keyboard without Fn-key reports: every write succeeds.
CONSTANTS
    MAX_BRIGHTNESS = 2
    MaxLevel = 2
    HwMax = 2
    Multicolor = TRUE
    HasFanMode = TRUE
    HasFanBoost = TRUE
    HasHwChanged = FALSE
    FollowHw = TRUE
    RestoreOnResume = TRUE
    Faulty = {}
    Palette = {"red", "blue"}
    Colors <- Palette
    DefaultCycle <- MCCycle
    Frames <- MCFrames
    Black = "Black"
    Dim = "Dim"
    Waves <- MCWaves
    FullWave = 1
    Shade <- MCShade
    Hue <- MCHue
    ConfigProfiles <- MCConfig
    LevelInputs = {0, 1, 3}
    SpeedInputs = {5}
    KindInputs = {"static", "breathing"}
    ColorListInputs <- MCColorLists
    FanInputs = {"performance"}
    BoostInputs = {TRUE, FALSE}
    ProfileInputs <- MCProfileInputs
    FoundLevels = {1}
    ResetLevels = {1}
    BootNotices = {NoNotice}
    NoFrame = NoFrame
    NoMode = NoMode
    NoNotice = NoNotice
SPECIFICATION Spec
INVARIANTS TypeOK KeyboardShowsProfile FansFollowProfile
PROPERTY DarkStaysDark
