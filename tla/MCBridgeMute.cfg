CONSTANTS
    v1 = v1
    v2 = v2
    a = a
    b = b
    Volume <- MCVolume
    Track <- MCTrack
    Request = {r1}
    Knob = {k1}
    QueueCap = 2
    Bounds <- TwoChanges
SPECIFICATION MCSafety
INVARIANT MuteTogglesOnce
