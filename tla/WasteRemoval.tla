---------------------------- MODULE WasteRemoval ----------------------------
(***************************************************************************)
(* What removeWasteVertices promises (OrientedGraph.hpp, removeWaste-      *)
(* Vertices): "Firstly, it is removing all inner (gates, sequental,        *)
(* subgraph) vertices which d_level == 0 ... and all edges from normal     *)
(* vertices to current wrong. After removing of inner ones, some inputs or *)
(* constants can have not any element in d_outConnections(), these also    *)
(* will be removed." Vertices go one at a time, in an order left open.     *)
(***************************************************************************)
EXTENDS Integers, Sequences, FiniteSets, Functions

CONSTANTS
    Vertex,     \* the vertices of the graph, buffers of subgraphs included
    Kind,       \* the bucket a vertex is in: its type, "buffer" for a buffer
    Buffers,    \* the buffers each subgraph instance was created with
    Graphs,     \* the sets of edges a run starts from
    Levels0     \* the sets of vertices of level 0 a run starts from

Inner == {"gate", "sequential", "subGraph"}
Terminal == {"input", "constant"}

ASSUME WasteRemovalAssumption ==
    /\ IsFiniteSet(Vertex)
    /\ Kind \in [Vertex -> Inner \cup Terminal \cup {"buffer", "output"}]
    /\ Buffers \in [Vertex -> SUBSET {b \in Vertex : Kind[b] = "buffer"}]
    /\ \A v \in Vertex : Buffers[v] # {} => Kind[v] = "subGraph"
    /\ Graphs \subseteq SUBSET (Vertex \X Vertex)
    /\ Levels0 \subseteq SUBSET Vertex

VARIABLES
    standing,   \* vertices not destroyed
    edges,      \* the edges among them
    zero        \* vertices whose d_level is 0 since updateLevels

Fanout(v) == {w \in Vertex : <<v, w>> \in edges}

\* An inner vertex at level 0 is in nobody's fan-in; an input or constant is
\* at level 0 by nature and goes when nothing reads it any more.
Waste(v) ==
    /\ v \in zero \cap standing
    /\ \/ Kind[v] \in Inner
       \/ /\ Kind[v] \in Terminal
          /\ Fanout(v) = {}
          /\ \A w \in zero \cap standing : Kind[w] \notin Inner

\* A subgraph instance takes its buffers along.
Taken(v) == {v} \cup (Buffers[v] \cap Fanout(v))

Without(S) == {e \in edges : e[1] \notin S /\ e[2] \notin S}

Init ==
    /\ standing = Vertex
    /\ edges \in Graphs
    /\ zero \in Levels0

Remove(v) ==
    /\ Waste(v)
    /\ standing' = standing \ Taken(v)
    /\ edges' = Without(Taken(v))
    /\ UNCHANGED zero

Next == \E v \in Vertex : Remove(v)

Spec == Init /\ [][Next]_<<standing, edges, zero>> /\ WF_<<standing, edges, zero>>(Next)
=============================================================================
