SPECIFICATION Spec
CONSTANTS
    Rep <- mcRep
    DigitValue <- mcDigitValue
    Char <- mcChar
    OPTIONAL = "any"
    OPTNUMBER = "num"
    ModeFns = {"to_insert"}
    FadeOut = 0
    Event <- mcEvent
    Pattern = {"deep", "Deep", "app"}
    Lower <- mcLower
    Absolute = {}
    Regex <- mcRegex
    Path <- mcPath
    FileName <- mcFileName
    Files <- mcFiles
    RC = "rc"
    Tier <- mcTier
    Parse <- mcParse
    Split <- mcSplit
    Separator <- mcSeparator
    OutOfRange = {"9999999999"}
    EmptyBack = "="
    DefaultSettings <- mcSettings
    Keys <- mcKeys
    Unicode <- mcUnicode
    Typable <- mcTypable
    Procs <- mcProcs
    Apps = {2}
    Shell = 1
    Running = 3
    FlagOptions = {"vcmdline"}
    MaxHistory = 2
INVARIANTS
    RunsNamedCommand
    PromptShown
PROPERTIES
    KeepsHistory
    FittingQueued
CHECK_DEADLOCK FALSE
