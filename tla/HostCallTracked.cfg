CONSTANTS
    s1 = s1
    s2 = s2
    p1 = p1
    p2 = p2
    p3 = p3
    NULL = NULL
    Signals = {s1}
    Ptr <- MCPtr
    Calls = {"writev", "recvmsg"}
    Code <- HostFunctions
    HelperCalls = {}
    MaxDepth = 9
    MaxSlots = 3
    MaxKills = 2
    ReallocFails = FALSE
SPECIFICATION Spec
INVARIANTS
    UnfreedTracked
    RecordedOnce
PROPERTY MaskRestored
SYMMETRY MCSymmetry
