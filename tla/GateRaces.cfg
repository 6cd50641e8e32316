SPECIFICATION Spec
CONSTANTS
    MaxCode = 4
    Key = {2,3,4}
    RepOf <- mcRepOf
    PhysOf <- mcPhysOf
    Toggle = {}
    Modes = {"INSERT","GUI_NORMAL"}
    InitMode = "INSERT"
    Bound <- MapPushup
    Macros <- LetterMacro
    AltKey = 4
    TabKey = 3
    QuitKeys = {3}
    InitHotkey <- CapsToLCtrl
    InitIdentity <- NoIdentity
    Remaps <- OneRemap
    Serial = FALSE
    MayFail = FALSE
    MayLock = FALSE
    MayExit = FALSE
INVARIANTS
    PortsClosedAtRest
