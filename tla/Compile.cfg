SPECIFICATION Spec
CONSTANTS
    Byte = 1
    Callees <- MCCallees
    Globals <- MCGlobals
    Table <- MCTable
    StackAddr = 64
    Profiles <- MCProfiles
 
INVARIANTS AssertionsHold StackAgrees  CallerRestored TrampolinePasses StackSuffices ZeroExtended
CHECK_DEADLOCK FALSE
