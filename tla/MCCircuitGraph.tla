--------------------------- MODULE MCCircuitGraph ---------------------------
(***************************************************************************)
(* Small instances of CircuitGraph for TLC.                                *)
(***************************************************************************)
EXTENDS CircuitGraph

AndBuf == {"GateAnd", "GateBuf"}
BufOnly == {"GateBuf"}

CellNet == {"input", "gate", "sequential"}
HierarchyNet == {"gate", "subGraph"}
=============================================================================
