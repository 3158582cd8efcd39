CONSTANTS
    Windows = {w1, w2}
    NoWindow = NoWindow
    Arrangements = {a1}
    MaxChanges = 2
    TextLength = 1
    MaxAsked = 4
SPECIFICATION Spec
SYMMETRY Symmetry
INVARIANT TypedAsObserved
