--------------------------- MODULE StructuralHash ---------------------------
(***************************************************************************)
(* The structural fingerprint of graphs: calculateHash of every kind of    *)
(* vertex and of OrientedGraph, its caches (d_hasHash, d_hashState), what  *)
(* clearHashStates resets, and operator==.                                 *)
(*                                                                         *)
(* hashCombine is taken to be injective ("different structures almost      *)
(* always differ"): a hash is the term it is mixed from, and the sorted    *)
(* hashes of the drivers are a bag.                                        *)
(***************************************************************************)
EXTENDS Hierarchy, BagsExt

VARIABLES
    vhash,      \* vertex -> d_hashed, for the vertices with d_hasHash = HC_CALC
    ghash,      \* graph -> d_hashed, for the graphs with d_hashState = HC_CALC
    unclear,    \* graphs edited, or with an edited graph inside, since their
                \* last clearHashStates
    equal       \* the last operator==: <<g, h, the answer>>, <<>> after an edit

hashing == <<vhash, ghash, unclear, equal>>

-----------------------------------------------------------------------------
(* One walk: the state of the caches and the vertices in progress.         *)

\* kStructuralHashCycleSentinel, for a vertex already in progress.
Sentinel == [type |-> "sentinel", label |-> <<"", 0>>, nested |-> EmptyBag,
             fanout |-> 0, drivers |-> EmptyBag]

Seen(v, walk) == IF v \in DOMAIN walk.vertex THEN walk.vertex[v] ELSE Sentinel

\* Mutant: the position of an input is forgotten.
AnonymousLabel(v) == <<design.kind[v], 0>>

\* An input is told apart by its name, unless the graph named it, and position.
InputLabel(v) == <<design.kind[v], PositionOf(Inputs(design.home[v]), v)>>

\* A constant by its value, a gate or a cell by its kind.
ConstantLabel(v) == <<design.kind[v], 0>>

Label(v) ==
    CASE Type(v) = "input" -> InputLabel(v)
      [] Type(v) = "constant" -> ConstantLabel(v)
      [] Type(v) \in {"output", "subGraph"} -> <<"", 0>>
      [] OTHER -> <<design.kind[v], 0>>

\* Mutant: the drivers are mixed in the order they were connected in.
DriversInOrder(v, walk) == [i \in 1..Len(ins[v]) |-> Seen(ins[v][i], walk)]

\* The hashes of the drivers, sorted.
DriverBag(v, walk) == FoldLeft(LAMBDA bag, u : BagAdd(bag, Seen(u, walk)), EmptyBag, ins[v])

\* calculateHash of a vertex whose drivers (and nested graph) are done.
Term(v, walk) ==
    [type |-> Type(v),
     label |-> Label(v),
     nested |-> IF Type(v) = "subGraph" THEN walk.graph[design.nested[v]] ELSE EmptyBag,
     fanout |-> IF Type(v) = "output" THEN 0 ELSE Cardinality(Consumers(v)),
     drivers |-> DriverBag(v, walk)]

Done(v, walk) ==
    [walk EXCEPT !.busy = @ \ {v}, !.vertex = (v :> Term(v, walk)) @@ @]

GraphDone(g, walk) ==
    [walk EXCEPT !.graph = (g :> FoldLeft(LAMBDA bag, o : BagAdd(bag, walk.vertex[o]),
                                          EmptyBag, Outputs(g))) @@ @]

\* calculateHash of g starts with resetHashState of its gates, cells and
\* instances.
Restarted(g, walk) ==
    [walk EXCEPT !.vertex = Restrict(@, DOMAIN @ \ UNION {Range(Bucket(g, t)) : t \in {"gate", "sequential", "subGraph"}})]

Logic(g) == Bucket(g, "gate") \o Bucket(g, "sequential") \o Bucket(g, "subGraph")

RECURSIVE Visit(_, _), VisitAll(_, _), VisitGraph(_, _)

Visit(v, walk) ==
    IF v \in DOMAIN walk.vertex \cup walk.busy THEN walk
    ELSE IF Type(v) = "subGraph"
    THEN Done(v, VisitGraph(design.nested[v], VisitAll(ins[v], [walk EXCEPT !.busy = @ \cup {v}])))
    ELSE Done(v, VisitAll(ins[v], [walk EXCEPT !.busy = @ \cup {v}]))

VisitAll(s, walk) == FoldLeft(LAMBDA w, v : Visit(v, w), walk, s)

\* OrientedGraph::calculateHash. The second of its two passes finds every
\* vertex calculated. Graphs do not contain themselves.
VisitGraph(g, walk) ==
    IF g \in DOMAIN walk.graph THEN walk
    ELSE GraphDone(g, VisitAll(Outputs(g), VisitAll(Logic(g) \o Logic(g), Restarted(g, walk))))

Caches == [busy |-> {}, vertex |-> vhash, graph |-> ghash]
Blank == [busy |-> {}, vertex |-> <<>>, graph |-> <<>>]

-----------------------------------------------------------------------------
HashInit ==
    /\ vhash = <<>>
    /\ ghash = <<>>
    /\ unclear = {}
    /\ equal = <<>>

\* operator==: two cached hashes, or both calculated.
Compare(g, h) ==
    LET walk == VisitGraph(h, VisitGraph(g, Caches))
    IN  /\ vhash' = walk.vertex
        /\ ghash' = walk.graph
        /\ equal' = <<g, h, walk.graph[g] = walk.graph[h]>>
        /\ UNCHANGED unclear

CalculateHash(g) ==
    LET walk == VisitGraph(g, Caches)
    IN  /\ vhash' = walk.vertex
        /\ ghash' = walk.graph
        /\ UNCHANGED <<unclear, equal>>

\* Mutant: the inputs and outputs keep their hashes.
ClearedLogic(g) == Range(Logic(g))

\* SIMPLE_VERT_ITER(d_vertices, resetHashState): the buckets of g, neither the
\* buffers of its instances nor the graphs nested in it.
Cleared(g) == Bucketed(g)

\* clearHashStates, and clearAllStates as far as hashes go.
ClearHashStates(g) ==
    /\ vhash' = Restrict(vhash, DOMAIN vhash \ Cleared(g))
    /\ ghash' = Restrict(ghash, DOMAIN ghash \ {g})
    /\ unclear' = unclear \ {g}
    /\ equal' = <<>>

\* The graphs that contain g, and g.
Around(g) == {g} \cup {h \in Graphs : \E p \in PathsFrom(h) : GraphAt(h, p) = g}

\* No edit resets a hash.
HashEdited ==
    /\ unclear' = unclear \cup
         (IF DOMAIN vhash = {} THEN {}
          ELSE UNION {Around(design.home[v]) : v \in {w \in Vertices : ins'[w] # ins[w]}}
               \cup UNION {Around(design.home[e[1]]) : e \in (refused' \ refused) \cup (refused \ refused')})
    /\ equal' = <<>>
    /\ UNCHANGED <<vhash, ghash>>

-----------------------------------------------------------------------------
(* Reference: isomorphic circuits, and the function of a circuit.          *)

SameKind(u, v) == Type(u) = Type(v) /\ Label(u) = Label(v)

Isomorphisms(g, h) ==
    {f \in [Bucketed(g) -> Bucketed(h)] :
        /\ IsInjective(f)
        /\ \A v \in Bucketed(g) : /\ SameKind(v, f[v])
                                  /\ Drivers(f[v]) = {f[u] : u \in Drivers(v)}
                                  /\ Consumers(f[v]) = {f[w] : w \in Consumers(v)}}

Flat(g) == InstancesIn(g) = {}

RECURSIVE Value(_, _)
Value(v, vector) ==
    LET read == {Value(u, vector) : u \in Drivers(v)}
    IN  CASE Type(v) = "input" -> vector[PositionOf(Inputs(design.home[v]), v)]
          [] Type(v) = "constant" -> design.kind[v] = "1"
          [] design.kind[v] = "GateAnd" -> FALSE \notin read
          [] design.kind[v] = "GateOr" -> TRUE \in read
          [] design.kind[v] = "GateNot" -> FALSE \in read
          [] OTHER -> TRUE \in read

\* What the outputs of g compute, in whatever order they are declared.
OutputFunctions(g) ==
    FoldLeft(LAMBDA bag, o : BagAdd(bag, [vector \in [1..2 -> BOOLEAN] |-> Value(o, vector)]),
             EmptyBag, Outputs(g))

-----------------------------------------------------------------------------
(* After clearHashStates a flat graph hashes the circuit it is, whatever   *)
(* was hashed and edited before and in whatever order vertices are reached *)
(* (OrientedGraph::calculateHash).                                         *)
HashIsCurrent ==
    \A g \in DOMAIN ghash \ unclear : Flat(g) => ghash[g] = VisitGraph(g, Blank).graph[g]

(* "same structure yields the same hash" (GraphUtils.hpp): operator== of   *)
(* two flat acyclic graphs built in different orders answers true when one *)
(* is the other with other names of gates.                                 *)
SameStructureIsEqual ==
    \A g, h \in Graphs :
        /\ equal = <<g, h, FALSE>>
        /\ {g, h} \cap unclear = {}
        /\ Flat(g) /\ Flat(h)
        => Isomorphisms(g, h) = {}

(* operator== of two flat combinational graphs answers true only when they *)
(* compute the same outputs: what the hash leaves out (the order of        *)
(* drivers, the order of outputs) never matters to them.                   *)
EqualComputesTheSame ==
    \A g, h \in Graphs :
        /\ equal = <<g, h, TRUE>>
        /\ {g, h} \cap unclear = {}
        /\ Flat(g) /\ Flat(h)
        => OutputFunctions(g) = OutputFunctions(h)

(* operator== takes circuits for equal that are, and only circuits that    *)
(* compute the same.                                                       *)
EqualityIsStructure == SameStructureIsEqual /\ EqualComputesTheSame

(* "Resets hash states for all vertices of current graph (including        *)
(* subgraphs). Should be called before each hash recalculation"            *)
(* (OrientedGraph.hpp, clearHashStates).                                   *)
ClearedHashIsCurrent ==
    \A g \in DOMAIN ghash \ unclear : ghash[g] = VisitGraph(g, Blank).graph[g]
=============================================================================
