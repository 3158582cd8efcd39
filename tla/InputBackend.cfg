CONSTANTS
    Keys = {29, 42, 47}
    Buttons = {272}
    Modifiers = {29, 42}
    Ctrl = 29
    V = 47
    Characters <- Letters
    TextLength = 1
    MaxCalls = 4
    MaxAhead = 2
    MaxEpoch = 3
    MaxInFlight = 1
SPECIFICATION Spec
CHECK_DEADLOCK FALSE
INVARIANTS
    ReadAsMeant
    HoldsAreRemembered
    ChordFindsOffer
