SPECIFICATION FairSpec
CONSTANTS
    Circuits <- SmallCircuits
    MaxVectors = 3
    MaxCalls = 4
INVARIANTS
    GoldenDecides
    OneClockPerVector
    ResetReaches
PROPERTIES
    CompareAgrees
    ExpectationsKept
    BenchEnds
CHECK_DEADLOCK FALSE
