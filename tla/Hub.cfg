SPECIFICATION Spec
CONSTANTS
    Rep <- mcRep
    DigitValue <- mcDigitValue
    Char <- mcChar
    OPTIONAL = "any"
    OPTNUMBER = "num"
    ModeFns = {}
    Defaults <- mcDefaults
    Lines <- mcLines
    RawUnits <- mcRawUnits
    Requests <- mcRequests
    AutoCmds <- mcAutoCmds
    CountMod = 16
    IntMax = 1000
    MaxLines = 2
    MaxCount = 3
    MaxAsked = 2
INVARIANTS
    Interpreted
    LastCommandWins
PROPERTIES
    Drains
CHECK_DEADLOCK FALSE
