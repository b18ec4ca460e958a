CONSTANTS
    Top = 2
    QueueDepth = 2
    MaxDetents = 3
    MaxChanges = 1
    MaxStates = 1
    MaxFailures = 1
    MaxDrops = 1
SPECIFICATION Spec
CHECK_DEADLOCK FALSE
INVARIANTS
    TypeOK
    NoVolumeStranded
    KnobAgrees
PROPERTIES
    KnobComesToAgree
