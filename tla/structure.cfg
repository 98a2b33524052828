SPECIFICATION Spec
CONSTANTS
    Designs <- SmallDesigns
    MaxEdits = 3
    MaxExports = 3
INVARIANTS
    VerdictIsLinkage
    HashIsCurrent
    EqualityIsStructure
    UnrollIsFaithful
    TextIsCircuit
    TextIsLegal
    InterfacesAsDeclared
    CensusComplete
    DrawingIsCircuit
    OneBitRefines
CHECK_DEADLOCK FALSE
