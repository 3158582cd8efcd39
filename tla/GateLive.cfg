CONSTANTS
    Controllers = {c1}
    NoWriter = NoWriter
    EpochMax = 4
    MaxTakeovers = 1
    MaxRevokes = 1
    MaxLeases = 1
    MaxStarts = 1
    MaxInFlight = 1
SPECIFICATION FairSpec
CHECK_DEADLOCK FALSE
PROPERTIES
    PauseIsAcknowledged
    TakeoverEndsTyping
