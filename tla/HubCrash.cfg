SPECIFICATION Spec
CONSTANTS
    Rep <- mcRep
    DigitValue <- mcDigitValue
    Char <- mcChar
    OPTIONAL = "any"
    OPTNUMBER = "num"
    ModeFns = {}
    Defaults <- mcNumberDefaults
    Lines <- mcLoopLines
    RawUnits <- mcNumberUnits
    Requests = {}
    AutoCmds = {}
    CountMod = 16
    IntMax = 10
    MaxLines = 3
    MaxCount = 2
    MaxAsked = 0
INVARIANT
    CrashCauses
CHECK_DEADLOCK FALSE
