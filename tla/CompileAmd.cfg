SPECIFICATION Spec
CONSTANTS
    Byte = 1
    Callees <- MCCallees
    Globals <- MCGlobals
    Table <- MCTable
    StackAddr = 64
    Profiles <- AmdProfiles
INVARIANT AssertionsHold
CHECK_DEADLOCK FALSE
