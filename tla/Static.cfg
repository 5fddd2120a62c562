CONSTANTS
    Programs <- MCPrograms
    Alignment = 4
    StackAlign = 2
    TotalStack = 3
    GlobalBase = 1
    WordValues = 64
    MaxFrames = 4
SPECIFICATION FairSpec
INVARIANTS
    ImageMatches
    GlobalsInitialised
    SegmentsPlaced
    StartsInOrder
    DynamicTop
PROPERTIES
    StorageRespected
    Finishes
