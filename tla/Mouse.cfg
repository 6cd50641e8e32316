SPECIFICATION FairSpec
CONSTANTS
    Key = {"h", "k"}
    Direction = {"left", "up"}
    Bindings <- mcBindings
INVARIANTS
    OneLateMove
    NoStaleMove
    
PROPERTIES
    MovesWhileHeld
