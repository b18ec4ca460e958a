CONSTANTS
    Host = {"h1", "h2"}
    Port = {"p1", "p2"}
    Place <- TwoPlaces
    None = None
    MaxMoves = 1
    MaxDrops = 1
    MaxMisses = 1
    MaxFailures = 0
    MaxReboots = 0
SPECIFICATION Spec
CHECK_DEADLOCK FALSE
PROPERTY
    ConnectedIsShown
