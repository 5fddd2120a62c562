CONSTANTS
    s1 = s1
    s2 = s2
    NULL = NULL
    Signals = {s1}
    Acts <- OpenActs
    Disciplined = FALSE
    MaxKills = 1
    MaxDepth = 6
SPECIFICATION Spec
INVARIANT HandlerDefined
