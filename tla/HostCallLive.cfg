CONSTANTS
    s1 = s1
    p1 = p1
    p2 = p2
    NULL = NULL
    Signals = {s1}
    Ptr = {p1, p2}
    Calls = {"writev", "recvmsg", "sem_op", "time_exploder"}
    Code <- HostFunctions
    HelperCalls = {}
    MaxDepth = 8
    MaxSlots = 2
    MaxKills = 1
    ReallocFails = FALSE
SPECIFICATION FairSpec
PROPERTY SignalsDelivered
