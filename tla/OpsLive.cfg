CONSTANTS
    Kinds = {"type", "window", "paste", "semantic"}
    MaxOperations = 1
    MaxAccepted = 1
    MaxText = 2
    MaxReads = 1
    MaxTakeovers = 1
    MaxRevokes = 1
    MaxInFlight = 2
SPECIFICATION FairSpec
INVARIANT
    TextAsCounted
PROPERTIES
    PromiseSpec
    OperationEnds
    CallEnds
