SPECIFICATION Spec
CONSTANTS
    Window = {"a", "b", "c", "d"}
    Monitor = {"m1", "m2"}
    None = None
    Rect <- mcRect
    Work <- mcWork
    Combined <- mcCombined
    Layouts <- mcLayouts
    Places <- mcPlaces
    Memory <- mcMemory
    Readable = {"a", "b", "c", "d"}
    Ignored = {"d"}
    Delta = 2
    Velocity = 3
    Initmode = 0
    Grain = 2
    Probe = 2
    Sizes = {3, 9}
    Counts = {1, 2}
    MaxSteps = 2
PROPERTIES
    ArrangeTiles
    PlacesKept
    StaysInside
CHECK_DEADLOCK FALSE
