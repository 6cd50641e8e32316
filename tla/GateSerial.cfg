SPECIFICATION Spec
CONSTANTS
    MaxCode = 5
    Key = {2,3,4,5}
    RepOf <- mcRepOf
    PhysOf <- mcPhysOf
    Toggle = {}
    Modes = {"INSERT","GUI_NORMAL","GUI_VISUAL","COMMAND"}
    InitMode = "INSERT"
    Bound <- DefaultBound
    Macros <- CopyMacro
    AltKey = 5
    TabKey = 3
    QuitKeys = {4}
    InitHotkey <- CapsToLCtrl
    InitIdentity <- IdentityA
    Remaps = {}
    Serial = TRUE
    MayFail = FALSE
    MayLock = TRUE
    MayExit = TRUE
INVARIANTS
    NoStuckKey
    NoGhostKey
PROPERTIES
    KeyUpBeforeAbsorb
    BlockingModesSwallow
