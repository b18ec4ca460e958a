SPECIFICATION Spec
CONSTANTS
    a1 = a1
    a2 = a2
    APs <- MCAPs
    None = None
    kMaxRetries = 2
    MaxTroubles = 1
INVARIANTS TypeOK StateTellsLink ScreenTellsTruth FailureIsCorrected
PROPERTIES  FallbackConnects
CHECK_DEADLOCK FALSE
