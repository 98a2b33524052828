--------------------------- MODULE AdjacencyVector ---------------------------
(***************************************************************************)
(* The vector of neighbours a vertex keeps on either side of its edges.    *)
(***************************************************************************)
EXTENDS Integers, Sequences, Functions

\* Mutant: the last entry goes, whatever was asked for.
DropLast(s, v) == IF v \notin Range(s) THEN s ELSE SubSeq(s, 1, Len(s) - 1)

(* removeVertexToInConnections and removeVertexToOutConnections: the found *)
(* entry is swapped with the last one and the vector is shrunk, so the     *)
(* order of the others may change. No vector holds a vertex twice.         *)
SwapRemove(s, v) ==
    IF v \notin Range(s) THEN s
    ELSE LET i == CHOOSE i \in DOMAIN s : s[i] = v
         IN  [j \in 1..(Len(s) - 1) |-> IF j = i THEN s[Len(s)] ELSE s[j]]
=============================================================================
