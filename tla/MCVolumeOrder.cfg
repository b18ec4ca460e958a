CONSTANTS
    Volume = {20, 30}
    Interval = 2
    MaxTurns = 3
SPECIFICATION Safety
PROPERTY
    OnlyLatestSent
