---------------------------- MODULE CircuitGraph ----------------------------
(***************************************************************************)
(* The mutable core of one OrientedGraph: its vertices, the two adjacency  *)
(* vectors every edge is stored in (d_outConnections of the driver and     *)
(* d_inConnections of the consumer), the buckets d_vertices, the counters  *)
(* d_edgesCount, d_gatesCount and d_edgesGatesCount, and the operations    *)
(* that edit them, up to the scrub of vertices without drivers             *)
(* (removeEmptyLogicVertices) every export runs.                           *)
(*                                                                         *)
(* Vertices live in a bump arena: addresses are handed out in order and    *)
(* never reused, so a vertex is a number, `created' the last one handed    *)
(* out, and a destroyed vertex keeps its number.                           *)
(***************************************************************************)
EXTENDS AdjacencyVector, FiniteSets

CONSTANTS
    MaxVertices,    \* bound: vertices ever created
    MaxEdges,       \* bound: adjacency entries alive at one time
    MaxDrivers,     \* bound: drivers given to a sequential cell or subgraph
    MaxBuffers,     \* bound: outputs of a subgraph
    GateTypes,      \* the gate types in use, without GateDefault
    Types,          \* the vertex types a client creates
    ForwardWires,   \* whether GateDefault wires are created (Verilog reader)
    Asserts         \* whether assert() is compiled in (no NDEBUG)

Unary == {"GateBuf", "GateNot"}
Gates == GateTypes \cup {"GateDefault"}
VertexTypes == {"input", "constant", "gate", "subGraph", "sequential", "output"}

ASSUME CircuitGraphAssumption ==
    /\ MaxVertices \in Nat
    /\ MaxEdges \in Nat
    /\ MaxDrivers \in Nat
    /\ MaxBuffers \in Nat
    /\ "GateDefault" \notin GateTypes
    /\ "none" \notin Gates
    /\ "GateBuf" \in GateTypes
    /\ Types \subseteq VertexTypes
    /\ ForwardWires \in BOOLEAN
    /\ Asserts \in BOOLEAN

Vertex == 1..MaxVertices

VARIABLES
    created,            \* the last vertex the arena handed out
    destroyed,          \* vertices whose destructor has run
    vtype,              \* d_type
    gate,               \* d_gate of gates, "none" for the others
    ins,                \* d_inConnections
    outs,               \* d_outConnections
    bucket,             \* d_vertices; while scrubOnce walks a bucket, the
                        \* prefix bucket[0..write) it has compacted so far
    buffers,            \* d_allSubGraphsOutputs
    edgesCount,         \* d_edgesCount
    gatesCount,         \* d_gatesCount
    edgesGatesCount,    \* d_edgesGatesCount
    scrub,              \* "idle", or the bucket scrubOnce is walking
    todo,               \* what scrubOnce has still to look at in that bucket
    pass                \* vertices removed so far in this do-while pass

adjacency == <<ins, outs, edgesCount, edgesGatesCount>>
registry == <<created, vtype, bucket, buffers>>
loop == <<scrub, todo, pass>>
vars == <<created, destroyed, vtype, gate, ins, outs, bucket, buffers,
          edgesCount, gatesCount, edgesGatesCount, scrub, todo, pass>>

Live == (1..created) \ destroyed

\* An edge exists when its consumer reads it: updateValue, updateLevel, the
\* hash and the exporters all walk d_inConnections.
Edges == {e \in Vertex \X Vertex : e[1] \in Range(ins[e[2]])}

\* An entry of d_outConnections without its twin in d_inConnections.
HalfEdges == {e \in Vertex \X Vertex : /\ e[2] \in Range(outs[e[1]])
                                       /\ e[1] \notin Range(ins[e[2]])}

GateEdges(g, h) == {e \in Edges : gate[e[1]] = g /\ gate[e[2]] = h}

-----------------------------------------------------------------------------
Init ==
    /\ created = 0
    /\ destroyed = {}
    /\ vtype = [v \in Vertex |-> "none"]
    /\ gate = [v \in Vertex |-> "none"]
    /\ ins = [v \in Vertex |-> <<>>]
    /\ outs = [v \in Vertex |-> <<>>]
    /\ bucket = [t \in VertexTypes |-> <<>>]
    /\ buffers = {}
    /\ edgesCount = 0
    /\ gatesCount = [g \in Gates |-> 0]
    /\ edgesGatesCount = [p \in Gates \X Gates |-> 0]
    /\ scrub = "idle"
    /\ todo = <<>>
    /\ pass = 0

-----------------------------------------------------------------------------
(* Calls a client makes; each finds the graph idle.                        *)

\* Mutant: the arena hands out one vertex past its end.
SkippingFresh == created + 2

Fresh == created + 1

\* addInput, addConst and addOutput: a vertex of its type at the end of its
\* bucket.
AddTerminal(t) ==
    /\ scrub = "idle"
    /\ created < MaxVertices
    /\ created' = Fresh
    /\ vtype' = [vtype EXCEPT ![Fresh] = t]
    /\ bucket' = [bucket EXCEPT ![t] = Append(@, Fresh)]
    /\ UNCHANGED <<destroyed, gate, buffers, gatesCount, adjacency, loop>>

\* addGate, addGateBus.
AddGate(g) ==
    /\ scrub = "idle"
    /\ created < MaxVertices
    /\ g = "GateDefault" => ForwardWires
    /\ created' = Fresh
    /\ vtype' = [vtype EXCEPT ![Fresh] = "gate"]
    /\ gate' = [gate EXCEPT ![Fresh] = g]
    /\ bucket' = [bucket EXCEPT !["gate"] = Append(@, Fresh)]
    /\ gatesCount' = [gatesCount EXCEPT ![g] = @ + 1]
    /\ UNCHANGED <<destroyed, buffers, adjacency, loop>>

\* The drivers a new cell ends up with: addEdges rejects a repeated driver.
DriverLists == {d \in UNION {[1..n -> Live] : n \in 0..MaxDrivers} : IsInjective(d)}

\* addSequential: the constructor connects data, clock and controls.
AddSequential(drivers) ==
    /\ scrub = "idle"
    /\ created < MaxVertices
    /\ Cardinality(Edges \cup HalfEdges) + Len(drivers) <= MaxEdges
    /\ created' = Fresh
    /\ vtype' = [vtype EXCEPT ![Fresh] = "sequential"]
    /\ bucket' = [bucket EXCEPT !["sequential"] = Append(@, Fresh)]
    /\ ins' = [ins EXCEPT ![Fresh] = drivers]
    /\ outs' = [v \in Vertex |-> IF v \in Range(drivers) THEN Append(outs[v], Fresh)
                                                          ELSE outs[v]]
    /\ edgesCount' = edgesCount + Len(drivers)
    /\ UNCHANGED <<destroyed, gate, buffers, gatesCount, edgesGatesCount, loop>>

\* addSubGraph: the instance, the edges into it, and one GateBuf per nested
\* output. The GateBufs go to d_allSubGraphsOutputs, not to a bucket, and
\* d_gatesCount does not see them.
AddSubGraph(drivers, n) ==
    LET buf(i) == Fresh + i
        bufs == (Fresh + 1)..(Fresh + n)
    IN
    /\ scrub = "idle"
    /\ created + 1 + n <= MaxVertices
    /\ Cardinality(Edges \cup HalfEdges) + Len(drivers) + n <= MaxEdges
    /\ created' = Fresh + n
    /\ vtype' = [v \in Vertex |-> IF v = Fresh THEN "subGraph"
                                  ELSE IF v \in bufs THEN "gate" ELSE vtype[v]]
    /\ gate' = [v \in Vertex |-> IF v \in bufs THEN "GateBuf" ELSE gate[v]]
    /\ bucket' = [bucket EXCEPT !["subGraph"] = Append(@, Fresh)]
    /\ buffers' = buffers \cup bufs
    /\ ins' = [v \in Vertex |-> IF v = Fresh THEN drivers
                                ELSE IF v \in bufs THEN <<Fresh>> ELSE ins[v]]
    /\ outs' = [v \in Vertex |-> IF v = Fresh THEN [i \in 1..n |-> buf(i)]
                                 ELSE IF v \in Range(drivers) THEN Append(outs[v], Fresh)
                                 ELSE outs[v]]
    /\ edgesCount' = edgesCount + Len(drivers) + n
    /\ UNCHANGED <<destroyed, gatesCount, edgesGatesCount, loop>>

\* The asserts of addVertexToOutConnections and addVertexToInConnections.
MayConnect(u, v) == Asserts => /\ u # v
                               /\ vtype[v] \notin {"input", "constant"}

\* GateBuf and GateNot take one driver and throw on a second.
Full(v) == gate[v] \in Unary /\ ins[v] # <<>>

\* addEdge that returns true.
AddEdge(u, v) ==
    /\ scrub = "idle"
    /\ Cardinality(Edges \cup HalfEdges) < MaxEdges
    /\ MayConnect(u, v)
    /\ v \notin Range(outs[u])
    /\ ~Full(v)
    /\ outs' = [outs EXCEPT ![u] = Append(@, v)]
    /\ ins' = [ins EXCEPT ![v] = Append(@, u)]
    /\ edgesCount' = edgesCount + 1
    /\ edgesGatesCount' =
         IF vtype[u] = "gate" /\ vtype[v] = "gate"
         THEN [edgesGatesCount EXCEPT ![<<gate[u], gate[v]>>] = @ + 1]
         ELSE edgesGatesCount
    /\ UNCHANGED <<destroyed, gate, gatesCount, registry, loop>>

\* addEdge that throws length_error from the in-side: the out-side is
\* already appended and nothing takes it back.
AddEdgeThrows(u, v) ==
    /\ scrub = "idle"
    /\ Cardinality(Edges \cup HalfEdges) < MaxEdges
    /\ MayConnect(u, v)
    /\ v \notin Range(outs[u])
    /\ Full(v)
    /\ outs' = [outs EXCEPT ![u] = Append(@, v)]
    /\ UNCHANGED <<destroyed, gate, ins, gatesCount, edgesCount, edgesGatesCount,
                   registry, loop>>

\* Mutant: the out-side alone decides.
DeletedFromOuts(u, v) == v \in Range(outs[u])

\* removeEdge succeeds when both sides held the edge.
Deleted(u, v) == v \in Range(outs[u]) /\ u \in Range(ins[v])

\* removeEdge: whatever either side holds is removed, the counters move only
\* when both did.
RemoveEdge(u, v) ==
    /\ scrub = "idle"
    /\ v \in Range(outs[u])
    /\ outs' = [outs EXCEPT ![u] = SwapRemove(@, v)]
    /\ ins' = [ins EXCEPT ![v] = SwapRemove(@, u)]
    /\ IF Deleted(u, v)
       THEN /\ edgesCount' = edgesCount - 1
            /\ edgesGatesCount' =
                 IF vtype[u] = "gate" /\ vtype[v] = "gate"
                 THEN [edgesGatesCount EXCEPT ![<<gate[u], gate[v]>>] = @ - 1]
                 ELSE edgesGatesCount
       ELSE UNCHANGED <<edgesCount, edgesGatesCount>>
    /\ UNCHANGED <<destroyed, gate, gatesCount, registry, loop>>

\* Mutant: the drivers are counted, the consumers forgotten.
DriverEdgesOnly(v, type, seen, g, h) ==
    IF h = type THEN Cardinality({u \in Range(ins[v]) : vtype[u] = "gate" /\ gate[u] = g})
                ELSE 0

\* What updateEdgesGatesCount adds to the entry <<g, h>> when v becomes a
\* `type': one per gate driver, one per gate consumer listed in
\* d_outConnections. The entries of GateDefault are not reduced.
NewGateEdges(v, type, seen, g, h) ==
    LET from == {u \in Range(ins[v]) : vtype[u] = "gate" /\ gate[u] = g}
        to == {w \in Range(outs[v]) : vtype[w] = "gate" /\ seen[w] = h}
    IN  (IF h = type THEN Cardinality(from) ELSE 0)
        + (IF g = type THEN Cardinality(to) ELSE 0)

\* getGate() on a vertex whose destructor has run (a half edge can lead to
\* one) is undefined: the memory is still there, so the build answers with the
\* old gate, or with the base class's GateDefault.
SeenGates == {gate, [w \in Vertex |-> IF w \in destroyed THEN "GateDefault" ELSE gate[w]]}

\* Mutant: the wire is still counted as GateDefault.
StillDefault(type) == [gatesCount EXCEPT ![type] = @ + 1]

Converted(type) == [gatesCount EXCEPT !["GateDefault"] = @ - 1, ![type] = @ + 1]

\* setGateIfDefault with updateEdgesGatesCount: the reader gives a forward
\* declared wire its operation. Only the assert keeps it to GateDefault. No
\* caller passes GateDefault itself.
SetGateIfDefault(v, type) == \E seen \in SeenGates :
    /\ scrub = "idle"
    /\ vtype[v] = "gate"
    /\ Asserts => gate[v] = "GateDefault"
    /\ gate' = [gate EXCEPT ![v] = type]
    /\ gatesCount' = Converted(type)
    /\ edgesGatesCount' = [p \in Gates \X Gates |->
                             edgesGatesCount[p] + NewGateEdges(v, type, seen, p[1], p[2])]
    /\ UNCHANGED <<destroyed, ins, outs, edgesCount, registry, loop>>

-----------------------------------------------------------------------------
(* removeEmptyLogicVertices: do { scrubOnce(gate); scrubOnce(sequential) } *)
(* while something was removed. One step per vertex scrubOnce looks at;    *)
(* nothing else runs meanwhile.                                            *)

Walk(type) ==
    /\ scrub' = type
    /\ todo' = bucket[type]
    /\ bucket' = [bucket EXCEPT ![type] = <<>>]

ScrubBegin ==
    /\ scrub = "idle"
    /\ Walk("gate")
    /\ pass' = 0
    /\ UNCHANGED <<created, destroyed, vtype, gate, buffers, gatesCount, adjacency>>

\* Mutant: a vertex with one driver is taken for one without.
AtMostOneDriver(v) == Len(ins[v]) <= 1

Undriven(v) == ins[v] = <<>>

\* A vertex with a driver stays.
ScrubKeep ==
    /\ scrub # "idle"
    /\ todo # <<>>
    /\ ~Undriven(Head(todo))
    /\ todo' = Tail(todo)
    /\ bucket' = [bucket EXCEPT ![scrub] = Append(@, Head(todo))]
    /\ UNCHANGED <<created, destroyed, vtype, gate, buffers, gatesCount, adjacency,
                   scrub, pass>>

\* Mutant: the loop over the consumers runs while removeEdge shrinks the list
\* under it, and the last consumer is skipped.
ConsumersButLast(v) == {w \in Range(outs[v]) : v \in Range(ins[w]) /\ w # outs[v][Len(outs[v])]}

\* The consumers removeEdge finds on both sides when v is unlinked.
Consumers(v) == {w \in Range(outs[v]) : v \in Range(ins[w])}

\* One without drivers is unlinked from all its consumers and destroyed.
ScrubRemove ==
    LET v == Head(todo)
        lost(g, h) == IF gate[v] = g
                      THEN Cardinality({w \in Consumers(v) : vtype[w] = "gate" /\ gate[w] = h})
                      ELSE 0
    IN
    /\ scrub # "idle"
    /\ todo # <<>>
    /\ Undriven(v)
    /\ todo' = Tail(todo)
    /\ pass' = pass + 1
    /\ destroyed' = destroyed \cup {v}
    /\ outs' = [outs EXCEPT ![v] = <<>>]
    /\ ins' = [w \in Vertex |-> IF w \in Consumers(v) THEN SwapRemove(ins[w], v)
                                                       ELSE ins[w]]
    /\ edgesCount' = edgesCount - Cardinality(Consumers(v))
    /\ edgesGatesCount' = IF scrub = "gate"
                          THEN [p \in Gates \X Gates |->
                                  edgesGatesCount[p] - lost(p[1], p[2])]
                          ELSE edgesGatesCount
    /\ gatesCount' = IF scrub = "gate" THEN [gatesCount EXCEPT ![gate[v]] = @ - 1]
                                       ELSE gatesCount
    /\ UNCHANGED <<registry, gate, scrub>>

\* The gate bucket is done, the sequential one follows.
ScrubSwitch ==
    /\ scrub = "gate"
    /\ todo = <<>>
    /\ Walk("sequential")
    /\ UNCHANGED <<created, destroyed, vtype, gate, buffers, gatesCount, adjacency,
                   pass>>

\* Mutants of the loop's condition: one round only; round after round.
OneRound == FALSE
EveryRound == pass >= 0

Again == pass > 0

\* while (pass > 0): another round, for a removed driver may have been the
\* last one of its consumers.
ScrubRepeat ==
    /\ scrub = "sequential"
    /\ todo = <<>>
    /\ Again
    /\ Walk("gate")
    /\ pass' = 0
    /\ UNCHANGED <<created, destroyed, vtype, gate, buffers, gatesCount, adjacency>>

ScrubEnd ==
    /\ scrub = "sequential"
    /\ todo = <<>>
    /\ ~Again
    /\ scrub' = "idle"
    /\ UNCHANGED <<destroyed, gate, gatesCount, adjacency, registry, todo, pass>>

ScrubStep == ScrubKeep \/ ScrubRemove \/ ScrubSwitch \/ ScrubRepeat \/ ScrubEnd

Build ==
    \/ \E t \in Types \cap {"input", "constant", "output"} : AddTerminal(t)
    \/ "gate" \in Types /\ \E g \in Gates : AddGate(g)
    \/ "sequential" \in Types /\ \E d \in DriverLists \ {<<>>} : AddSequential(d)
    \/ "subGraph" \in Types /\ \E d \in DriverLists, n \in 0..MaxBuffers : AddSubGraph(d, n)

Edit ==
    \/ \E u, v \in Live : \/ AddEdge(u, v)
                          \/ AddEdgeThrows(u, v)
    \/ \E u \in Live : \E v \in Live : RemoveEdge(u, v)
    \/ \E v \in Live, type \in GateTypes : SetGateIfDefault(v, type)

Next == Build \/ Edit \/ ScrubBegin \/ ScrubStep

Spec == Init /\ [][Next]_vars

\* A loop that has begun runs on: the call is synchronous, on one thread.
FairSpec == Spec /\ WF_vars(ScrubStep)

-----------------------------------------------------------------------------
(* Properties.                                                             *)

TypeOK ==
    /\ created \in 0..MaxVertices
    /\ destroyed \subseteq 1..created
    /\ vtype \in [Vertex -> VertexTypes \cup {"none"}]
    /\ gate \in [Vertex -> Gates \cup {"none"}]
    /\ ins \in [Vertex -> Seq(Vertex)]
    /\ outs \in [Vertex -> Seq(Vertex)]
    /\ bucket \in [VertexTypes -> Seq(Vertex)]
    /\ buffers \subseteq Vertex
    /\ edgesCount \in Int
    /\ gatesCount \in [Gates -> Int]
    /\ edgesGatesCount \in [Gates \X Gates -> Int]
    /\ scrub \in {"idle", "gate", "sequential"}
    /\ todo \in Seq(Vertex)
    /\ pass \in Nat

(* addEdge and removeEdge keep the two vectors of an edge together as far  *)
(* as consumers go: an in-connection always has its out-connection, and no *)
(* vector lists a vertex twice, whatever calls were made in whatever order.*)
InsMatchOuts ==
    /\ \A u, v \in Vertex : u \in Range(ins[v]) => v \in Range(outs[u])
    /\ \A v \in Vertex : IsInjective(ins[v]) /\ IsInjective(outs[v])

(* No live vertex reads a destroyed driver: the scrub unlinks a vertex from *)
(* every consumer before its destructor runs.                              *)
DriversLive == \A u, v \in Vertex : u \in Range(ins[v]) => u \in Live /\ v \in Live

(* "Fully unlink before destroy" (comment in OrientedGraph.cpp) seen from  *)
(* the other side: no live vertex lists a destroyed consumer.              *)
ConsumersLive == \A u \in Live : Range(outs[u]) \subseteq Live

(* getEdgesCount is the number of edges, whatever failed on the way.       *)
EdgesCountExact == edgesCount = Cardinality(Edges)

Counted(g) == {v \in Live : vtype[v] = "gate" /\ v \notin buffers /\ gate[v] = g}

(* getGatesCount is the number of gates of each type, the buffers of       *)
(* subgraph instances not counted.                                         *)
GatesCountExact == \A g \in Gates : gatesCount[g] = Cardinality(Counted(g))

(* getEdgesGatesCount never counts less than the edges there are: the      *)
(* unsigned counters cannot wrap below zero when removeEdge decrements.    *)
EdgesGatesCountCovers ==
    \A g, h \in Gates : Cardinality(GateEdges(g, h)) <= edgesGatesCount[<<g, h>>]

(* getEdgesGatesCount is "the number of edges between different types of   *)
(* gates" (OrientedGraph.hpp).                                             *)
EdgesGatesCountExact ==
    \A g, h \in Gates : Cardinality(GateEdges(g, h)) = edgesGatesCount[<<g, h>>]

(* setGateIfDefault "sets gate type only if current type is GateDefault"   *)
(* (GraphVertex.hpp).                                                      *)
GateSetOnce ==
    [][\A v \in Live : gate[v] \in GateTypes => gate'[v] = gate[v]]_vars

Logic(v) == vtype[v] = "sequential" \/ (vtype[v] = "gate" /\ v \notin buffers)

\* The vertices that do not hang in the air: the largest set in which every
\* gate and sequential cell has a driver of the set.
Supported ==
    UNION {S \in SUBSET Live :
             \A v \in S : Logic(v) => Range(ins[v]) \cap S # {}}

(* The scrub destroys no vertex that is driven, however indirectly, and    *)
(* cuts no edge between two such vertices; it cascades only through what   *)
(* hangs in the air.                                                       *)
ScrubKeepsSupported ==
    [][scrub # "idle" =>
         /\ Supported' = Supported
         /\ Supported \subseteq Live'
         /\ {e \in Edges' : e[1] \in Supported} = {e \in Edges : e[1] \in Supported}]_vars

(* When removeEmptyLogicVertices returns, no gate or sequential cell is    *)
(* left without a driver: the exporters rely on it.                        *)
ScrubLeavesNoEmpty ==
    [][scrub # "idle" /\ scrub' = "idle" =>
         \A v \in Live : Logic(v) => ins[v] # <<>>]_vars

(* The do-while loop ends.                                                 *)
ScrubTerminates == scrub # "idle" ~> scrub = "idle"
=============================================================================
