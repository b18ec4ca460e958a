CONSTANTS
    v1 = v1
    v2 = v2
    a = a
    b = b
    Volume <- MCVolume
    Track <- MCTrack
    Request = {r1}
    Knob = {k1}
    QueueCap = 1
    Bounds <- SyncBounds
SPECIFICATION MCSpec
INVARIANTS TypeOK KnobIsCurrent
PROPERTIES CacheCatchesUp ReRegisters KnobCatchesUp
