----------------------------- MODULE MCAllocator -----------------------------
(***************************************************************************)
(* Three vertex classes with their sizes in a 64-bit build and two byte    *)
(* arrays, such as the unit tests of the allocator create.                 *)
(***************************************************************************)
EXTENDS Allocator, TLC

ClassSize == "GraphVertexGates" :> 112 @@ "GraphVertexSubGraph" :> 176
                 @@ "GraphVertexBusConstant" :> 192
                 @@ "bytea[56]" :> 56 @@ "bytea[51]" :> 51

Classes == DOMAIN ClassSize

ClassAlign == [t \in Classes |-> IF t \in {"bytea[56]", "bytea[51]"} THEN 1 ELSE 8]
=============================================================================
