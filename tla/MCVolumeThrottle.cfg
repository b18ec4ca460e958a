CONSTANTS
    Volume = {20, 30}
    Interval = 2
    MaxTurns = 3
SPECIFICATION Spec
INVARIANTS
    TypeOK
    TimerMatchesPending
    LastTurnWins
PROPERTIES
    SpacedTakes
    PendingIsTaken
    ImplementsCoalescer
