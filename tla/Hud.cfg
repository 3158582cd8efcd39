CONSTANTS
    MaxClients = 2
    AcceptBatch = 2
    MaxConnections = 3
    OtherMethods = {"seat.resume", "shutdown"}
SPECIFICATION FairSpec
CHECK_DEADLOCK FALSE
INVARIANT
    ButtonTellsTheTruth
PROPERTY
    ConnectionsEnd
