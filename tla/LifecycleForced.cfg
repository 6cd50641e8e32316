SPECIFICATION FairSpec
CONSTANTS
    p1 = p1
    p2 = p2
    p3 = p3
    Proc = {p2}
    Arg <- mcArg
    Effect <- mcEffect
    UserEffects = {"session", "hints"}
    MemSize = 3
    Serial = TRUE
    MayThrow = FALSE
    MayForce = TRUE
PROPERTIES
    ForcedEnds
CHECK_DEADLOCK FALSE
