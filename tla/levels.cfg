SPECIFICATION Spec
CONSTANTS
    Nets <- AllNets
    MaxLevel = 5
    EditCached = FALSE
INVARIANTS
    LevelsExact
    ByLevelComplete
PROPERTIES
    WasteExactFlat
CHECK_DEADLOCK FALSE
