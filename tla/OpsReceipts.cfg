CONSTANTS
    Kinds = {"semantic", "window"}
    MaxOperations = 1
    MaxAccepted = 2
    MaxText = 0
    MaxReads = 1
    MaxTakeovers = 1
    MaxRevokes = 1
    MaxInFlight = 1
SPECIFICATION Spec
INVARIANTS
    ReceiptsAreHonest
    OneCallAtATime
PROPERTIES
    PromiseSpec
    SubmittedUnderPermission
