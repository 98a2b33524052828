----------------------------- MODULE GraphExport -----------------------------
(***************************************************************************)
(* The GraphML exports of a circuit.  toGraphMLClassic nests one graph per *)
(* instance and joins their ports; toGraphMLPseudoABCD and                 *)
(* toGraphMLOpenABCD are flat, the latter with edges from sinks to sources *)
(* and buffers and inverters folded into the edges.  They keep nothing and *)
(* are evaluated in the properties.                                        *)
(***************************************************************************)
EXTENDS Unroll, BagsExt

(* toGraphMLClassic: a node is named by its prefix, the path of instances. *)

\* parseVertexToGraphML: the edges of the vertices of the graph at p.
OwnEdges(top, p) ==
    {<<<<p, u>>, <<p, w>>>> : <<u, w>> \in
        {e \in Vertices \X Vertices : /\ design.home[e[1]] = GraphAt(top, p)
                                      /\ "subGraph" \notin {Type(e[1]), Type(e[2])}
                                      /\ e[2] \in Consumers(e[1])}}

\* Mutant: the ports carry the prefix of the graph around them.
PortsUnprefixed(p, s) == p

PortPrefix(p, s) == Append(p, s)

\* The ports of an instance, joined as far as both sides have them.
PortEdges(p, s) ==
    LET h == design.nested[s]
        below == PortPrefix(p, s)
    IN  {<<<<p, ins[s][i]>>, <<below, Inputs(h)[i]>>>> : i \in DOMAIN ins[s] \cap DOMAIN Inputs(h)}
        \cup {<<<<below, Outputs(h)[i]>>, <<p, BuffersOf(s)[i]>>>> :
                i \in DOMAIN Outputs(h) \cap DOMAIN BuffersOf(s)}

GraphMLClassic(top) ==
    UNION {OwnEdges(top, p) \cup UNION {PortEdges(p, s) : s \in InstancesIn(GraphAt(top, p))}
           : p \in PathsFrom(top)}

-----------------------------------------------------------------------------
(* The flat formats, of a netlist: node -> its drivers.                    *)

Gate(n) == design.kind[n[2]]

\* d_outConnections of a node. Where an edge was refused unrollGraph throws, so
\* only a graph without instances is printed with it.
Readers(netlist, n) ==
    {m \in DOMAIN netlist : n \in Range(netlist[m]) \/ <<n[2], m[2]>> \in refused}

\* Mutant: a sink gets a number of its own each time.
EverySink(names, n) == Append(names, n)

\* nodeNames: a node is numbered when its name is met first.
Numbered(names, n) == IF n \in Range(names) THEN names ELSE Append(names, n)

Bucketwise(netlist) ==
    LET of(type) == SetToSeq({n \in DOMAIN netlist : Type(n[2]) = type})
    IN  of("input") \o of("constant") \o of("gate") \o of("sequential") \o of("output")

Latches == {"latch", "latchr", "latchc", "latchs", "latchrs", "latchcs"}

\* gateToABCDType, and the codes toGraphMLPseudoABCD has for the rest.
NodeType(n) ==
    CASE Type(n[2]) = "input"      -> <<"0">>
      [] Type(n[2]) = "output"     -> <<"1">>
      [] Type(n[2]) = "constant"   -> <<"100", design.kind[n[2]]>>
      [] Type(n[2]) = "sequential" -> <<IF design.kind[n[2]] \in Latches THEN "18" ELSE "17">>
      [] OTHER -> <<[GateAnd |-> "2", GateNand |-> "10", GateOr |-> "13", GateNor |-> "14", GateNot |-> "12",
                     GateBuf |-> "11", GateXor |-> "15", GateXnor |-> "16"][design.kind[n[2]]]>>

\* toGraphMLPseudoABCD: nodes <<number, node, type>> and a bag of edges between
\* numbers. The gates come by level; here in any order, which renumbers them.
PseudoABCD(netlist) ==
    LET of(s, n) ==
          LET sinks == Readers(netlist, n)
              names == FoldLeft(Numbered, Numbered(s.names, n), SetToSeq(sinks))
              number(m) == PositionOf(names, m)
          IN  [names |-> names,
               nodes |-> Append(s.nodes, <<number(n), n, NodeType(n)>>),
               edges |-> s.edges (+) SetToBag({<<number(n), number(m)>> : m \in sinks})]
    IN  FoldLeft(of, [names |-> <<>>, nodes |-> <<>>, edges |-> EmptyBag], Bucketwise(netlist))

\* Mutant: only the first inverter of a chain counts.
ParityOfFirst(state, s) == state

Parity(state, s) == IF Gate(s) = "GateNot" THEN ~state ELSE state

\* The loop over the stack: what is reached from a reader through buffers and
\* inverters, each edge <<sink, source, edge_type>>.
RECURSIVE Followed(_, _, _, _)
Followed(netlist, source, m, state) ==
    IF Gate(m) \in Unary
    THEN FoldSet(LAMBDA s, bag : bag (+) Followed(netlist, source, s, Parity(state, s)),
                 EmptyBag, Readers(netlist, m))
    ELSE SetToBag({<<m, source, state>>})

\* toGraphMLOpenABCD: buffers and inverters get no node.
OpenABCD(netlist) ==
    FoldSet(LAMBDA n, all :
              all (+) FoldSet(LAMBDA m, bag : bag (+) Followed(netlist, n, m, Gate(m) = "GateNot"),
                              EmptyBag, Readers(netlist, n)),
            EmptyBag, {n \in DOMAIN netlist : Gate(n) \notin Unary})

\* A graph with instances is unrolled first.
Netlist(top) ==
    IF InstancesIn(top) = {} THEN [n \in {<<<<>>, v>> : v \in Bucketed(top)} |->
                                    [i \in DOMAIN ins[n[2]] |-> <<<<>>, ins[n[2]][i]>>]]
    ELSE unrollGraph(top).drivers

-----------------------------------------------------------------------------
(* References.                                                             *)

Port(n) == n[2] \in Buffers \/ (n[1] # <<>> /\ Type(n[2]) \in {"input", "output"})

\* What drives a node of a hierarchical netlist, past the ports.
RECURSIVE PastPorts(_, _)
PastPorts(edges, n) ==
    UNION {IF Port(e[1]) THEN PastPorts(edges, e[1]) ELSE {e[1]} : e \in {d \in edges : d[2] = n}}

\* The source of a net behind buffers and inverters, and whether it is inverted
\* on the way; none when the chain hangs in the air.
RECURSIVE Origin(_, _)
Origin(netlist, n) ==
    IF Gate(n) \notin Unary THEN {<<n, FALSE>>}
    ELSE {<<o[1], IF Gate(n) = "GateNot" THEN ~o[2] ELSE o[2]>> :
            o \in UNION {Origin(netlist, m) : m \in Range(netlist[n])}}

\* One edge per pin of a gate, cell or output.
PinOrigins(netlist) ==
    FoldSet(LAMBDA n, all :
              all (+) FoldLeft(LAMBDA bag, d : bag (+) SetToBag({<<n, o[1], o[2]>> : o \in Origin(netlist, d)}),
                               EmptyBag, netlist[n]),
            EmptyBag, {n \in DOMAIN netlist : Gate(n) \notin Unary})

\* Gates do not drive themselves: a ring of inverters has no origin.
NoUnaryRing(g) == \A u, v \in Bucketed(g) : u \in Drivers(v) => ~(v \in Drivers(u))

\* The flat drawings that are made of a circuit whose edges have two sides.
Drawn(top) ==
    /\ "drawn" \in design.queries
    /\ refused = {}
    /\ InstancesIn(top) = {} \/ ~unrollGraph(top).thrown

(* Reading the ports of the nested graphs of toGraphMLClassic back gives   *)
(* the edges of the flat circuit, for instances of shared graphs and at    *)
(* every depth, where no addEdge was refused.                              *)
ClassicIsCircuit ==
    "drawn" \in design.queries /\ refused = {} =>
      \A top \in Graphs :
        LET edges == GraphMLClassic(top)
            nodes == {e[2] : e \in edges}
        IN  UNION {{<<m, n>> : m \in PastPorts(edges, n)} : n \in {x \in nodes : ~Port(x)}}
              = FlatEdges(top)

(* In toGraphMLPseudoABCD every node has one number of its own, whether it *)
(* was met first as a source or as a sink; the edges between the numbers   *)
(* are the pins of the netlist, one each.                                  *)
PseudoABCDIsCircuit ==
    \A top \in Graphs :
        Drawn(top) =>
          LET netlist == Netlist(top)
              graph == PseudoABCD(netlist)
          IN  /\ {<<graph.nodes[i][1], graph.nodes[i][2]>> : i \in DOMAIN graph.nodes}
                   = {<<k, graph.names[k]>> : k \in DOMAIN graph.names}
              /\ DOMAIN netlist = Range(graph.names)
              /\ Len(graph.nodes) = Cardinality(DOMAIN netlist)
              /\ FoldSet(LAMBDA n, all : all (+) SetToBag({<<m, n>> : m \in Range(netlist[n])}),
                         EmptyBag, DOMAIN netlist)
                   = [e \in {<<graph.names[x[1]], graph.names[x[2]]>> : x \in DOMAIN graph.edges} |->
                        graph.edges[<<PositionOf(graph.names, e[1]), PositionOf(graph.names, e[2])>>]]

(* toGraphMLOpenABCD has one edge per pin, to what drives it behind its    *)
(* buffers and inverters, inverted when their number is odd, however the   *)
(* chains fork and join; of a graph with instances it shows the unrolled   *)
(* one.                                                                    *)
OpenABCDIsCircuit ==
    \A top \in Graphs :
        Drawn(top) /\ NoUnaryRing(top) => OpenABCD(Netlist(top)) = PinOrigins(Netlist(top))
=============================================================================
