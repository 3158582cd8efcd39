CONSTANTS
    Kinds = {"paste"}
    MaxOperations = 1
    MaxAccepted = 2
    MaxText = 1
    MaxReads = 1
    MaxTakeovers = 0
    MaxRevokes = 1
    MaxInFlight = 2
SPECIFICATION Spec
INVARIANT
    PasteReachedReader
