SPECIFICATION FairEasySpec
CONSTANTS
    Windows = 2
    MaxVersion = 2
    Lifetime = 2
    StayBegin = 1
    StayEnd = 1
    MaxAge = 2
    MaxCached = 1
    Elem <- mcElem
    Tree <- mcTree
    Centers <- mcCenters
    HintKeys <- mcHintKeys
    Monitors <- mcMonitors
    GridSize <- mcGridSize
    Origin <- mcOrigin
    DistUnit = 100
    Typed <- mcTyped
    Char <- mcChar
    ESC = "esc"
    ENTER = "enter"
    BKSPACE = "bkspace"
INVARIANTS
    OwnBuildIsFresh
    HintsUnambiguous
PROPERTIES
    ForwardOnly
    HintLeadsThere
    OffersLeaves
    Answered
