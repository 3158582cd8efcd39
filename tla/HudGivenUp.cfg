CONSTANTS
    MaxClients = 3
    AcceptBatch = 2
    MaxConnections = 3
    OtherMethods = {"seat.resume"}
SPECIFICATION Spec
CHECK_DEADLOCK FALSE
INVARIANTS
    ResultingStateRead
