------------------------------ MODULE Structure ------------------------------
(***************************************************************************)
(* The structural queries of a circuit a client keeps editing.  Each keeps *)
(* caches of its own, so a behaviour uses the queries its design names:    *)
(* the others would only multiply the states.  unrollGraph keeps nothing   *)
(* and is evaluated in the properties.                                     *)
(***************************************************************************)
EXTENDS Connectivity, StructuralHash, DotExport, BusExport, Census

vars == <<design, ins, refused, edits, connected, verdict, vhash, ghash, unclear, equal,
          exports, gone, files, counts, stale, exported, path, parameters>>

Init ==
    /\ HierarchyInit
    /\ ConnectivityInit
    /\ HashInit
    /\ ExportInit

Wire ==
    /\ verdict # "crash"
    /\ ~exported.undefined
    /\ \E e \in design.wires :
         /\ {e[1], e[2]} \cap gone = {}
         /\ \/ AddEdge(e[1], e[2])
            \/ AddEdgeThrows(e[1], e[2])
            \/ RemoveEdge(e[1], e[2])
    /\ ConnectivityEdited
    /\ HashEdited
    /\ ExportEdited

AskConnected ==
    /\ "connected" \in design.queries
    /\ \E g \in Graphs, recalculate \in BOOLEAN : IsConnected(g, recalculate)
    /\ UNCHANGED <<circuit, hashing, exporting>>

AskHash ==
    /\ "hash" \in design.queries
    /\ \E g \in Graphs : \/ CalculateHash(g)
                         \/ ClearHashStates(g)
                         \/ \E h \in Graphs \ {g} : Compare(g, h)
    /\ UNCHANGED <<circuit, connectivity, exporting>>

Export ==
    /\ "export" \in design.queries
    /\ ~exported.undefined
    /\ \E g \in Graphs, named, byInstance \in BOOLEAN :
         \* The flag matters to files of graphs with cells alone.
         /\ byInstance => named /\ Bucket(g, "sequential") # <<>>
         /\ ToVerilog(g, named, byInstance)
    /\ UNCHANGED <<connectivity, hashing>>

Describe ==
    /\ ~exported.undefined
    /\ \E s \in DOMAIN design.paths : \E file \in design.paths[s] : SetVerilogPath(s, file)
    /\ UNCHANGED <<connectivity, hashing>>

ExportInstance ==
    /\ "export" \in design.queries
    /\ ~exported.undefined
    /\ \E s \in DOMAIN design.paths, named \in BOOLEAN : InstanceToVerilog(s, named)
    /\ UNCHANGED <<connectivity, hashing>>

Next == Wire \/ AskConnected \/ AskHash \/ Export \/ Describe \/ ExportInstance

Spec == Init /\ [][Next]_vars
=============================================================================
