SPECIFICATION FairSpec
CONSTANTS
    MaxCode = 4
    Key = {2,3,4}
    RepOf <- mcRepOf
    PhysOf <- mcPhysOf
    Toggle = {2}
    Modes = {"INSERT","GUI_NORMAL","GUI_VISUAL"}
    InitMode = "INSERT"
    Bound <- FaultBound
    Macros <- CopyMacro
    AltKey = 4
    TabKey = 3
    QuitKeys = {3}
    InitHotkey <- CapsToLCtrl
    InitIdentity <- NoIdentity
    Remaps = {}
    Serial = TRUE
    MayFail = TRUE
    MayLock = FALSE
    MayExit = FALSE
INVARIANTS
    NoStuckKey
    ModeBlocks
    RealIsHeld
PROPERTIES
    ToggleReleased
