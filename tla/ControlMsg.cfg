CONSTANTS
    AddrMod = 128
    MemSize = 96
    Sends <- MCSends
    Receives <- MCReceives
    MaxQueue = 2
SPECIFICATION Spec
INVARIANTS
    SentAsGiven
    AccessesWithin
PROPERTY ImplementsChannel
CHECK_DEADLOCK FALSE
