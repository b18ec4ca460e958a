CONSTANTS
    Host = {"h1", "h2"}
    Port = {"p1", "p2"}
    Place <- TwoPlaces
    None = None
    MaxMoves = 2
    MaxDrops = 1
    MaxMisses = 2
    MaxFailures = 1
    MaxReboots = 2
SPECIFICATION Spec
CHECK_DEADLOCK FALSE
INVARIANTS
    TypeOK
    FastPathIsCurrent
PROPERTIES
    FindsBridge
    LossIsShown
