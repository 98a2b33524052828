------------------------------ MODULE DotExport ------------------------------
(***************************************************************************)
(* OrientedGraph::toDOT: the graph is scrubbed of undriven logic, every    *)
(* nested graph becomes a cluster named after its parent and a number, and *)
(* the nodes and edges in it carry that name as a prefix.  The numbers go  *)
(* on from one drawing to the next; here each drawing counts from 0, which *)
(* renames its clusters.                                                   *)
(***************************************************************************)
EXTENDS GraphExport, VerilogExport

\* Mutant: the instances of a graph are not counted.
UncountedInstance(g, s) == 0

\* getGraphInstDOT: instances are counted per nested graph.
InstanceNumber(g, s) ==
    Len(SelectSeq(Bucket(g, "subGraph"),
                  LAMBDA t : /\ design.nested[t] = design.nested[s]
                             /\ PositionOf(design.order, t) < PositionOf(design.order, s)))

\* GraphVertexSubGraph::toDOT: the name of the parent and the number, not of
\* the graph nested.
ClusterName(p) ==
    [i \in DOMAIN p |-> LET g == design.home[p[i]] IN <<g, InstanceNumber(g, p[i])>>]

(* An entry of the DotReturn list is a node, an edge, or the beginning or  *)
(* the end of a graph. Nodes and edges carry the name of their cluster.    *)
Named(p, v) == <<ClusterName(p), v>>
Node(p, v) == [kind |-> "node", name |-> Named(p, v)]
Edge(from, to) == [kind |-> "edge", from |-> from, to |-> to]
NodeAndDrivers(c, p, v) ==
    <<Node(p, v)>> \o [i \in DOMAIN c.ins[v] |-> Edge(Named(p, c.ins[v][i]), Named(p, v))]

\* toDOT of the kinds of vertices; a gate or cell without a driver is left out.
InputEntries(p, v) == <<Node(p, v)>>
ConstantEntries(p, v) == <<Node(p, v)>>
OutputEntries(c, p, v) == NodeAndDrivers(c, p, v)
GateEntries(c, p, v) == IF c.ins[v] = <<>> THEN <<>> ELSE NodeAndDrivers(c, p, v)
CellEntries(c, p, v) == IF c.ins[v] = <<>> THEN <<>> ELSE NodeAndDrivers(c, p, v)

\* Of a buffer only the node is kept.
BufferEntries(c, p, v) == <<Head(GateEntries(c, p, v))>>

\* The ports of an instance, by position on both sides.
PortsIn(c, p, s) ==
    LET inputs == Inputs(design.nested[s])
    IN  [i \in DOMAIN inputs |-> Edge(Named(p, c.ins[s][i]), Named(Append(p, s), inputs[i]))]

PortsOut(p, s) ==
    LET outs == Outputs(design.nested[s])
    IN  [i \in DOMAIN outs |-> Edge(Named(Append(p, s), outs[i]), Named(p, BuffersOf(s)[i]))]

EachOf(seq, entries(_)) == FlattenSeq([i \in DOMAIN seq |-> entries(seq[i])])

RECURSIVE ToDOT(_, _, _)
ToDOT(c, p, g) ==
    LET live(type) == Live(c, g, type)
        nested(s) == ToDOT(c, Append(p, s), design.nested[s])
    IN  <<[kind |-> IF p = <<>> THEN "graph" ELSE "cluster", name |-> ClusterName(p)]>>
        \o EachOf(live("input"), LAMBDA v : InputEntries(p, v))
        \o EachOf(live("output"), LAMBDA v : OutputEntries(c, p, v))
        \o EachOf(live("gate"), LAMBDA v : GateEntries(c, p, v))
        \o EachOf(live("sequential"), LAMBDA v : CellEntries(c, p, v))
        \o EachOf(live("constant"), LAMBDA v : ConstantEntries(p, v))
        \o EachOf(SetToSeq(BuffersIn(g)), LAMBDA v : BufferEntries(c, p, v))
        \o EachOf(live("subGraph"), LAMBDA s : PortsIn(c, p, s))
        \o EachOf(live("subGraph"), LAMBDA s : PortsOut(p, s))
        \o EachOf(live("subGraph"), nested)
        \o <<[kind |-> "exit"]>>

\* Mutant: an end closes whatever is open, the graph itself too.
ClosesAny(s) == Len(s.open) > 0

\* An end closes clusters; the graph is closed by the last brace of the text.
Closes(s) == s.clusters > 0

\* dotReturnToString, and what a reader of the text finds: the braces open, the
\* nodes with the clusters around them, and the edges.
Written(s, entry) ==
    CASE entry.kind = "graph"   -> [s EXCEPT !.open = Append(@, entry.name)]
      [] entry.kind = "cluster" -> [s EXCEPT !.open = Append(@, entry.name), !.clusters = @ + 1]
      [] entry.kind = "node"    -> [s EXCEPT !.nodes = @ \cup {<<s.open, entry.name>>}]
      [] entry.kind = "edge"    -> [s EXCEPT !.edges = @ \cup {<<entry.from, entry.to>>}]
      [] entry.kind = "exit"    -> IF Closes(s) THEN [s EXCEPT !.open = Front(@), !.clusters = @ - 1] ELSE s

DotReturnToString(entries) ==
    FoldLeft(Written, [open |-> <<>>, clusters |-> 0, nodes |-> {}, edges |-> {}], entries)

\* In every graph the instances are of one graph: of two, both have a first
\* instance, and their clusters one name.
OneNested(top) ==
    \A g \in Below(top) \cup {top} : Cardinality({design.nested[s] : s \in InstancesIn(g)}) <= 1

\* The ports are joined by position on both sides.
DotPinsMissing(c, g) ==
    \E h \in Below(g) \cup {g} : \E s \in InstancesIn(h) :
        Len(c.ins[s]) < Len(Inputs(design.nested[s]))

(* The braces of a drawing match, every node stands in the cluster of its  *)
(* own instance and no other instance has that cluster; the edges, followed*)
(* through the ports of the clusters, are the flat circuit that is left    *)
(* after the scrub.                                                        *)
DotIsCircuit ==
    "drawn" \in design.queries =>
      \A top \in Graphs :
        LET c == AllScrubbed([ins |-> ins, gone |-> gone], top)
            text == DotReturnToString(ToDOT(c, <<>>, top))
            targets == {e[2] : e \in text.edges}
        IN  ~DotPinsMissing(c, top) /\ OneNested(top) =>
              /\ text.open = <<<<>>>>
              /\ \A n \in text.nodes :
                   n[1] = <<<<>>>> \o [i \in DOMAIN n[2][1] |-> SubSeq(n[2][1], 1, i)]
              /\ \A p, q \in PathsFrom(top) : ClusterName(p) = ClusterName(q) => p = q
              /\ UNION {{<<m, n>> : m \in PastPorts(text.edges, n)} : n \in {x \in targets : ~Port(x)}}
                   = {<<Named(e[1][1], e[1][2]), Named(e[2][1], e[2][2])>> :
                        e \in {f \in FlatEdges(top) : {f[1][2], f[2][2]} \cap c.gone = {}}}

(* All drawings show the circuit: toDOT and toGraphMLClassic nested,       *)
(* toGraphMLPseudoABCD and toGraphMLOpenABCD flat.                         *)
DrawingIsCircuit == ClassicIsCircuit /\ DotIsCircuit /\ PseudoABCDIsCircuit /\ OpenABCDIsCircuit
=============================================================================
