SPECIFICATION Spec
CONSTANT Circuits <- BufferIntoGate
INVARIANT OutputsSettled
CHECK_DEADLOCK FALSE
