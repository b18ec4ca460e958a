SPECIFICATION PanelSpec
CONSTANTS
    t1 = t1
    silence = silence
    None = None
    Tracks <- MCTracks
    Silence <- silence
    Keys = {"k1", "k2", "k3"}
    Positions <- MCPositions
    maxSize = 2
    MaxEvents = 4
    MaxTroubles = 1
    Voltages <- MCVoltages
    MaxTransitions = 5
    kDebounceThreshold = 2
    MaxBounce = 3
    MaxTurns = 2
INVARIANTS TypeOK ScreenShowsTold CacheIsRecent OverlayWillGo StateIsShown
PROPERTIES NoFlapping CountsDetents
