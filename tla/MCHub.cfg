CONSTANTS
    Client = {k1, k2}
    Malformed = {k2}
    SendCap = 3
    BroadcastCap = 1
    MaxEvents = 2
SPECIFICATION Spec
CHECK_DEADLOCK FALSE
INVARIANTS
    TypeOK
    CloseOnce
    NoSilentGap
    CutOnlyWhenBehind
PROPERTIES
    GoneClientLeaves
    BehindClientIsCut
    HubNeverBlocks
