CONSTANTS
    s1 = s1
    s2 = s2
    NULL = NULL
    Signals = {s1, s2}
    Acts <- FullActs
    Disciplined = TRUE
    MaxKills = 2
    MaxDepth = 6
SPECIFICATION Spec
INVARIANTS
    HandlerDefined
    HandlerCurrent
    OldActTold
    TableAgrees
SYMMETRY MCSymmetry
