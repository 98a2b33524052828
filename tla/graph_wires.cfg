SPECIFICATION FairSpec
CONSTANTS
    MaxVertices = 3
    MaxEdges = 3
    MaxDrivers = 2
    MaxBuffers = 1
    GateTypes <- BufOnly
    Types <- CellNet
    ForwardWires = TRUE
    Asserts = TRUE
INVARIANTS
    TypeOK
    EdgesCountExact
    GatesCountExact
    EdgesGatesCountCovers
PROPERTIES
    ScrubKeepsSupported
    ScrubLeavesNoEmpty
    ScrubTerminates
CHECK_DEADLOCK FALSE
