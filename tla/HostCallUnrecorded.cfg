CONSTANTS
    s1 = s1
    s2 = s2
    p1 = p1
    p2 = p2
    p3 = p3
    NULL = NULL
    Signals = {s1, s2}
    Ptr <- MCPtr
    Calls = {"execve", "setgroups", "getaddrinfo", "sigprocmask"}
    Code <- HostFunctions
    HelperCalls = {}
    MaxDepth = 6
    MaxSlots = 2
    MaxKills = 1
    ReallocFails = FALSE
SPECIFICATION Spec
INVARIANTS
    NoInterruptedLibc
    JmpBufLive
SYMMETRY MCSymmetry
