SPECIFICATION Spec
CONSTANTS
    Circuits <- Togglers
    MaxVectors = 1
    MaxCalls = 2
INVARIANT SuccessMeansRun
CHECK_DEADLOCK FALSE
