CONSTANTS
    Keyboards = {k1, k2}
    Mice = {m1}
    Agent = Agent
    Keys = {f1, shift}
    Modifiers = {shift}
    Bindings = {f1}
    Buttons = {left}
    HoldTimes = {1, 2}
    MaxEpoch = 4
    Nothing = Nothing
SPECIFICATION Spec
SYMMETRY Symmetry
INVARIANTS
    KeysAreAccounted
    HoldsAreBounded
    ButtonsAreAccounted
    ClipboardIsGated
PROPERTIES
    HumanHoldsSurvive
    RevocationReleases
    RevocationNeverDrops
