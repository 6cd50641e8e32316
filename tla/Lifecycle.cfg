SPECIFICATION FairSpec
CONSTANTS
    p1 = p1
    p2 = p2
    p3 = p3
    Proc = {p2, p3}
    Arg <- mcArg
    Effect <- mcEffect
    UserEffects = {"exit"}
    MemSize = 3
    Serial = TRUE
    MayThrow = TRUE
    MayForce = TRUE
INVARIANTS
    OneServer
    WorkerJoined
    AtMostOnce
    OnlySent
    NoRequestLost
PROPERTIES
    Served
    Exits
CHECK_DEADLOCK FALSE
