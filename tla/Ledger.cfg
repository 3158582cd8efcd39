CONSTANTS
    Controllers = {c1,c2}
    Bodies = {b1, b2}
    Outcomes = {done,refused}
    NoRequest = NoRequest
    NoOutcome = NoOutcome
    NoRecord = NoRecord
    Sizes = {1, 2, 4}
    MaxSequence = 3
    MaxSessions = 2
    MaxControllers = 1
    History = 2
    ByteLimit = 3
SPECIFICATION Spec
SYMMETRY Symmetry
INVARIANTS
    BooksBalance
    RetryWindow
    OneAnswer
PROPERTY
    OnceOnlySpec
