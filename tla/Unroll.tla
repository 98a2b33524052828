------------------------------- MODULE Unroll -------------------------------
(***************************************************************************)
(* OrientedGraph::unrollGraph: the flat copy of a graph with instances.    *)
(* The recursive walk copies the vertices of every graph it comes to,      *)
(* joins the ports of an instance, and a last loop copies the other edges. *)
(* Both look up vPairs, which is keyed by the original vertex: a vertex    *)
(* the walk has not copied yet is not found, and the copy for a second     *)
(* instance of a graph replaces the first.                                 *)
(*                                                                         *)
(* A new vertex is named by the path of instances it was copied under and  *)
(* its original.                                                           *)
(***************************************************************************)
EXTENDS Hierarchy

\* The state of one call: vPairs, the drivers of the new vertices, and whether
\* it has thrown.
Started(top) ==
    LET ports == Range(Inputs(top)) \cup Range(Outputs(top))
    IN  [pairs |-> [v \in ports |-> <<<<>>, v>>],
         drivers |-> [n \in {<<<<>>, v>> : v \in ports} |-> <<>>],
         thrown |-> FALSE]

Copied(p, v, drivers, call) ==
    [call EXCEPT !.pairs = (v :> <<p, v>>) @@ @,
                 !.drivers = (<<p, v>> :> drivers) @@ @]

\* newGraph->addEdge: a repeated edge is refused, a full buffer throws.
Linked(u, v, call) ==
    IF u \in Range(call.drivers[v]) THEN call
    ELSE IF design.kind[v[2]] \in Unary /\ call.drivers[v] # <<>>
    THEN [call EXCEPT !.thrown = TRUE]
    ELSE [call EXCEPT !.drivers[v] = Append(@, u)]

\* An edge at a port is copied when both ends have a copy by now.
PortLinked(u, v, call) ==
    IF {u, v} \subseteq DOMAIN call.pairs THEN Linked(call.pairs[u], call.pairs[v], call) ELSE call

LinkEach(edges, call) == FoldSet(LAMBDA e, c : PortLinked(e[1], e[2], c), call, edges)

\* From the drivers of an instance to what reads its inputs inside.
EdgesIn(s) ==
    {<<ins[s][i], w>> : <<i, w>> \in {x \in (DOMAIN ins[s]) \X Vertices :
                                        x[2] \in Consumers(Inputs(design.nested[s])[x[1]])}}

\* Mutant: the outputs are taken in the wrong order.
EdgesOutReversed(s) ==
    {<<u, w>> \in Vertices \X Vertices :
        \E i \in DOMAIN BuffersOf(s) :
            /\ u \in Drivers(Reverse(Outputs(design.nested[s]))[i])
            /\ w \in Consumers(BuffersOf(s)[i])}

\* From the drivers of its outputs inside to what reads its buffers.
EdgesOut(s) ==
    {<<u, w>> \in Vertices \X Vertices :
        \E i \in DOMAIN BuffersOf(s) :
            /\ u \in Drivers(Outputs(design.nested[s])[i])
            /\ w \in Consumers(BuffersOf(s)[i])}

\* Mutant: the five drivers are handed over as they are stored.
StoredAsPassed(m) == IF Len(m) < 5 THEN m ELSE <<m[1], m[2], m[5], m[3], m[4]>>

\* addSequential takes (rst, set, en) and stores en, rst, set behind data and
\* clock; the walk passes connections 4, 5 and 3 in their places.
Stored(m) ==
    LET rst == m[4]
        set == m[5]
        en == m[3]
    IN  IF Len(m) < 5 THEN m ELSE <<m[1], m[2], en, rst, set>>

\* A cell without a copy of its data or clock is dropped; a control without
\* one reaches addEdge as a null pointer.
CellCopied(p, v, call) ==
    LET found(i) == ins[v][i] \in DOMAIN call.pairs
    IN  IF Len(ins[v]) < 2 THEN call
        ELSE IF ~found(1) \/ ~found(2) THEN call
        ELSE IF \E i \in DOMAIN ins[v] : ~found(i) THEN [call EXCEPT !.thrown = TRUE]
        ELSE Copied(p, v, Stored([i \in DOMAIN ins[v] |-> call.pairs[ins[v][i]]]), call)

\* unroller: constants and gates, then instances, then cells.
RECURSIVE Walked(_, _, _)
Walked(g, p, call) ==
    LET gates == FoldLeft(LAMBDA c, v : Copied(p, v, <<>>, c), call,
                          Bucket(g, "constant") \o Bucket(g, "gate"))
        instances ==
            FoldLeft(LAMBDA c, s : LinkEach(EdgesOut(s),
                                     LinkEach(EdgesIn(s),
                                       Walked(design.nested[s], Append(p, s), c))),
                     gates, Bucket(g, "subGraph"))
    IN  FoldLeft(LAMBDA c, v : CellCopied(p, v, c), instances, Bucket(g, "sequential"))

\* The consumers the last loop copies an edge to.
CopiedConsumers(top, u) ==
    {w \in Consumers(u) : /\ Type(w) # "subGraph"
                          /\ Type(w) = "output" => design.home[w] = top}

\* vPairs.at(w) throws when w has no copy.
Finished(top, call) ==
    IF \E u \in DOMAIN call.pairs : ~(CopiedConsumers(top, u) \subseteq DOMAIN call.pairs)
    THEN [call EXCEPT !.thrown = TRUE]
    ELSE LinkEach({<<u, w>> \in (DOMAIN call.pairs) \X Vertices : w \in CopiedConsumers(top, u)}, call)

unrollGraph(top) == Finished(top, Walked(top, <<>>, Started(top)))

-----------------------------------------------------------------------------
\* What of a circuit the walk can follow: every graph has one instance, the
\* instances of the top graph alone, and between them and everything they
\* touch stand gates of the same graph.
EachOnce == \A s, t \in Instances : design.nested[s] = design.nested[t] => s = t

NoCells == \A v \in Vertices : Type(v) # "sequential"

OneDeep(top) == Instances \subseteq InstancesIn(top)

PortsAtGates(top) ==
    /\ \A s \in Instances : Drivers(s) \cap Buffers = {}
    /\ \A s \in Instances, o \in Vertices :
         o \in Range(Outputs(design.nested[s])) =>
            \A u \in Drivers(o) : Type(u) # "input"

(* unrollGraph "inlines subgraph hierarchy into one graph" (Subgraphs.md)  *)
(* exactly, when every graph is instantiated once, one level deep, without *)
(* cells, and no instance is wired to another or straight through.         *)
UnrollIsExact ==
    \A top \in design.unrolled :
        EachOnce /\ NoCells /\ OneDeep(top) /\ PortsAtGates(top) =>
            LET flat == unrollGraph(top)
                edges == UNION {{<<m, n>> : m \in Range(flat.drivers[n])} : n \in DOMAIN flat.drivers}
            IN  /\ ~flat.thrown
                /\ DOMAIN flat.drivers = FlatVertices(top)
                /\ edges = FlatEdges(top)

(* With cells, deeper hierarchies and instances wired to each other, what  *)
(* unrollGraph returns may lack edges and cells but has none that are not  *)
(* there: every driver is one of the flat circuit, on the same pin.        *)
UnrollInventsNothing ==
    \A top \in design.unrolled :
        EachOnce =>
            LET flat == unrollGraph(top)
                edges == FlatEdges(top)
            IN  ~flat.thrown =>
                  \A n \in DOMAIN flat.drivers : \A i \in DOMAIN flat.drivers[n] :
                     /\ <<flat.drivers[n][i], n>> \in edges
                     /\ Type(n[2]) = "sequential" =>
                          flat.drivers[n][i] \in Sources(n[1], ins[n[2]][i])

(* The unrolled graph is the circuit, or a part of it (unrollGraph), where *)
(* no addEdge was refused.                                                 *)
UnrollIsFaithful == refused = {} => UnrollIsExact /\ UnrollInventsNothing
=============================================================================
