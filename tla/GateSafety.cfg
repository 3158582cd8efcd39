CONSTANTS
    Controllers = {c1, c2}
    NoWriter = NoWriter
    EpochMax = 4
    MaxTakeovers = 2
    MaxRevokes = 1
    MaxLeases = 2
    MaxStarts = 2
    MaxInFlight = 1
SPECIFICATION Spec
SYMMETRY ControllerSymmetry
CHECK_DEADLOCK FALSE
INVARIANTS
    NoStaleGrant
    DeliveryAuthorized
    GateImpliesQuiet
    HoldsImplyGate
    ViewsAgreeAtRest
    PauseAckSound
    WorkBelongsToLease
PROPERTIES
    PermissionNotInherited
