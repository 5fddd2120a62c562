SPECIFICATION FairSpec
CONSTANTS
    LebBits = 2
    TypeBits = 5
    Inputs <- MCInputs
INVARIANTS PointersLive AssertionsHold OwnedOnce AllReleased ListIsSource
PROPERTY Terminates
CHECK_DEADLOCK FALSE
