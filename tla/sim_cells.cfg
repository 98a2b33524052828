SPECIFICATION Spec
CONSTANT Circuits <- SmallCircuits
INVARIANTS
    OutputsSettledApart
    LatchesSettled
    RemovalReturnsUnlessRinged
PROPERTIES
    RegistersMatchExport
    RemovalForgets
CHECK_DEADLOCK FALSE
