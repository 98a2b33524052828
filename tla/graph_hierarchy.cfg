SPECIFICATION Spec
CONSTANTS
    MaxVertices = 4
    MaxEdges = 3
    MaxDrivers = 2
    MaxBuffers = 1
    GateTypes <- AndBuf
    Types <- HierarchyNet
    ForwardWires = FALSE
    Asserts = TRUE
INVARIANTS
    InsMatchOuts
    DriversLive
    EdgesGatesCountExact
CHECK_DEADLOCK FALSE
