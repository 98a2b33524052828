------------------------------ MODULE Hierarchy ------------------------------
(***************************************************************************)
(* Circuits with subgraph instances as the structural queries see them: a  *)
(* graph owns buckets of vertices, an instance refers to a graph other     *)
(* instances may share, its inputs are the entries of its d_inConnections  *)
(* and its outputs the buffers in its d_outConnections, both by position.  *)
(* A client adds and removes edges between queries.  An addEdge the driven *)
(* vertex refuses throws, and leaves its half in d_outConnections.         *)
(***************************************************************************)
EXTENDS AdjacencyVector, FiniteSetsExt, SequencesExt

CONSTANTS
    Designs,    \* the circuits a behaviour may start from; a design has the fields
                \*   home:    vertex -> the graph that owns it
                \*   type:    vertex -> its type
                \*   kind:    vertex -> gate, constant value or kind of cell
                \*   order:   vertices in order of creation
                \*   nested:  instance -> the graph it is an instance of
                \*   buffers: instance -> its output buffers
                \*   ins:     vertex -> its drivers at the start
                \*   wires:   the edges a client adds and removes
                \*   queries: the queries made: "connected", "hash", "export",
                \*            "drawn", "buses"
                \*   unrolled: the graphs unrollGraph is called on
                \*   submodules: whether the directory for nested modules exists
                \*   sources: Verilog file -> its lines and what they declare
                \*   paths:   instance -> the files a client may say it has
    MaxEdits    \* bound: edits in a behaviour

VARIABLES
    design,     \* the circuit of this behaviour
    ins,        \* d_inConnections
    refused,    \* edges in d_outConnections of the first vertex alone
    edits       \* edits so far

circuit == <<design, ins, refused, edits>>

Vertices == DOMAIN design.type
Graphs == Range(design.home)
Instances == DOMAIN design.nested
Type(v) == design.type[v]
Drivers(v) == Range(ins[v])

\* d_outConnections
Consumers(v) == {w \in Vertices : v \in Drivers(w) \/ <<v, w>> \in refused}

BuffersOf(s) == design.buffers[s]
Buffers == UNION {Range(BuffersOf(s)) : s \in Instances}

\* d_vertices[type] of graph g; buffers are in d_allSubGraphsOutputs instead.
Bucket(g, type) ==
    SelectSeq(design.order, LAMBDA v : /\ design.home[v] = g
                                       /\ Type(v) = type
                                       /\ v \notin Buffers)

Inputs(g) == Bucket(g, "input")
Outputs(g) == Bucket(g, "output")
InstancesIn(g) == Range(Bucket(g, "subGraph"))

\* The six buckets of g (getBaseVertexes), and its buffers.
Bucketed(g) == {v \in Vertices \ Buffers : design.home[v] = g}
BuffersIn(g) == {v \in Buffers : design.home[v] = g}

PositionOf(s, v) == CHOOSE i \in DOMAIN s : s[i] = v

-----------------------------------------------------------------------------
(* What the hierarchy stands for: one flat circuit, in which a vertex of a *)
(* nested graph occurs once per path of instances that leads to it.        *)

\* Bound: instances are nested at most two deep.
Paths ==
    {<<>>} \cup {<<s>> : s \in Instances} \cup {<<s, t>> : s \in Instances, t \in Instances}

GraphAt(top, p) == IF p = <<>> THEN top ELSE design.nested[p[Len(p)]]

PathsFrom(top) ==
    {p \in Paths : \A i \in DOMAIN p : p[i] \in InstancesIn(GraphAt(top, SubSeq(p, 1, i - 1)))}

\* What drives a net: a port of an instance stands for the net behind it.
RECURSIVE Sources(_, _)
Sources(p, v) ==
    IF v \in Buffers
    THEN LET s == CHOOSE s \in Instances : v \in Range(BuffersOf(s))
             port == Outputs(design.nested[s])[PositionOf(BuffersOf(s), v)]
         IN  UNION {Sources(Append(p, s), u) : u \in Drivers(port)}
    ELSE IF p # <<>> /\ Type(v) = "input"
    THEN LET s == Last(p)
         IN  Sources(Front(p), ins[s][PositionOf(Inputs(design.nested[s]), v)])
    ELSE {<<p, v>>}

\* The vertices of the flat circuit, and its edges.
FlatVertices(top) ==
    {n \in PathsFrom(top) \X Vertices :
        /\ n[2] \in Bucketed(GraphAt(top, n[1]))
        /\ Type(n[2]) # "subGraph"
        /\ n[1] # <<>> => Type(n[2]) \notin {"input", "output"}}

FlatEdges(top) ==
    {e \in FlatVertices(top) \X FlatVertices(top) :
        \E u \in Drivers(e[2][2]) : e[1] \in Sources(e[2][1], u)}

-----------------------------------------------------------------------------
HierarchyInit ==
    /\ design \in Designs
    /\ ins = design.ins
    /\ refused = {}
    /\ edits = 0

Unary == {"GateBuf", "GateNot"}

Full(v) == design.kind[v] \in Unary /\ ins[v] # <<>>

\* addEdge and removeEdge between vertices of one graph; the edges of
\* instances and buffers stay as addSubGraph made them.
AddEdge(u, v) ==
    /\ edits < MaxEdits
    /\ v \notin Consumers(u)
    /\ ~Full(v)
    /\ ins' = [ins EXCEPT ![v] = Append(@, u)]
    /\ edits' = edits + 1
    /\ UNCHANGED <<design, refused>>

\* addEdge that throws: the out-side is already appended.
AddEdgeThrows(u, v) ==
    /\ edits < MaxEdits
    /\ v \notin Consumers(u)
    /\ Full(v)
    /\ refused' = refused \cup {<<u, v>>}
    /\ edits' = edits + 1
    /\ UNCHANGED <<design, ins>>

\* Either side drops what it holds.
RemoveEdge(u, v) ==
    /\ edits < MaxEdits
    /\ v \in Consumers(u)
    /\ ins' = [ins EXCEPT ![v] = SwapRemove(@, u)]
    /\ refused' = refused \ {<<u, v>>}
    /\ edits' = edits + 1
    /\ UNCHANGED design
=============================================================================
