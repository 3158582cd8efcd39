CONSTANTS
    Span = 16
    History = 2
    Births = {0, 14}
    MaxCommits = 3
    Retained = 1
    MaxCaptures = 2
SPECIFICATION FairSpec
CHECK_DEADLOCK FALSE
INVARIANTS
    WorkerOwnsItsReceipt
    FilesMatchReceipts
    NothingMissed
PROPERTIES
    CaptureEnds
