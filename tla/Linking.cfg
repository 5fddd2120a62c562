CONSTANTS
    h1 = h1
    h2 = h2
    i1 = i1
    i2 = i2
    i3 = i3
    i4 = i4
    i5 = i5
    NULL = NULL
    Handles = {h1, h2}
    Runtimes = {h1}
    Scopes = {"process"}
    Scope <- Shared
    Insts <- MCInsts
    ModuleNames = {"lib", "env"}
    Programs <- MCPrograms
    AllocFails = TRUE
    MaxModules = 4
SPECIFICATION Spec
INVARIANTS
    OwnedOnce
    NothingDangles
    ContextOwned
    ContextAssertion
SYMMETRY MCSymmetry
