CONSTANTS
    s1 = s1
    p1 = p1
    p2 = p2
    NULL = NULL
    Signals = {s1}
    Ptr = {p1, p2}
    Calls = {"writev", "recvmsg", "setitimer", "getenv", "sigprocmask"}
    Code <- HostFunctions
    HelperCalls = {"setitimer"}
    MaxDepth = 9
    MaxSlots = 2
    MaxKills = 1
    ReallocFails = TRUE
SPECIFICATION Spec
INVARIANTS
    FactsHold
    LockHeld
