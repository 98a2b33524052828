---------------------------- MODULE Connectivity ----------------------------
(***************************************************************************)
(* OrientedGraph::isConnected: a search over undirected edges from one     *)
(* start vertex, whose verdict every graph caches in d_connected.  An      *)
(* instance of a connected graph is a vertex like any other; an instance   *)
(* of a disconnected one is passed through port by port.                   *)
(***************************************************************************)
EXTENDS Hierarchy

VARIABLES
    connected,  \* d_connected: 0 unknown, 1 connected, -1 not
    verdict     \* the graph whose verdict was calculated last, the circuit not
                \* edited since; "none", or "crash" after a null dereference

connectivity == <<connected, verdict>>

-----------------------------------------------------------------------------
(* Through an instance: which buffers a driver reaches, and which drivers  *)
(* a buffer comes from.                                                    *)

RECURSIVE BuffersReached(_, _), ForwardFrom(_)

Forward(v) ==
    {w \in Consumers(v) : Type(w) \notin {"output", "subGraph"}}
    \cup UNION {BuffersReached(s, v) : s \in Consumers(v) \cap Instances}

ForwardFrom(S) ==
    LET found == UNION {Forward(v) : v \in S}
    IN  IF found \subseteq S THEN S ELSE ForwardFrom(S \cup found)

\* Mutant: an instance is taken to join its ports.
EveryBuffer(s, driver) == Range(BuffersOf(s))

\* getOutputBuffersByOuterInput
BuffersReached(s, driver) ==
    LET sub == design.nested[s]
        seen == ForwardFrom({Inputs(sub)[PositionOf(ins[s], driver)]})
    IN  {BuffersOf(s)[i] : i \in {k \in DOMAIN Outputs(sub) : Drivers(Outputs(sub)[k]) \cap seen # {}}}

RECURSIVE DriversBehind(_, _), BackwardFrom(_)

Backward(v) ==
    {u \in Drivers(v) : Type(u) \notin {"input", "subGraph"}}
    \cup UNION {DriversBehind(s, v) : s \in Drivers(v) \cap Instances}

BackwardFrom(S) ==
    LET found == UNION {Backward(v) : v \in S}
    IN  IF found \subseteq S THEN S ELSE BackwardFrom(S \cup found)

\* getOuterInputsByOutputBuffer
DriversBehind(s, buffer) ==
    LET sub == design.nested[s]
        seen == BackwardFrom({Outputs(sub)[PositionOf(BuffersOf(s), buffer)]})
    IN  {ins[s][i] : i \in {k \in DOMAIN Inputs(sub) : Consumers(Inputs(sub)[k]) \cap seen # {}}}

-----------------------------------------------------------------------------
(* dfs: everything that hangs together with the start vertex.              *)

Neighbours(v, opened) ==
    ((Consumers(v) \cup Drivers(v)) \ opened)
    \cup UNION {BuffersReached(s, v) : s \in Consumers(v) \cap opened}
    \cup UNION {DriversBehind(s, v) : s \in Drivers(v) \cap opened}

RECURSIVE Dfs(_, _, _)
Dfs(visited, stack, opened) ==
    LET found == UNION {Neighbours(v, opened) : v \in stack} \ visited
    IN  IF found = {} THEN visited ELSE Dfs(visited \cup found, found, opened)

\* The loop that looks for a start vertex stops counting at the bucket of
\* instances: the buckets behind it are never looked at.
StartBuckets(g) == Inputs(g) \o Bucket(g, "constant") \o Bucket(g, "gate")

-----------------------------------------------------------------------------
(* isConnected, on the caches c of all graphs.                             *)

Size(g) == Cardinality(Bucketed(g))

\* Instances of graphs with the verdict -1.
Opened(g, c) == {s \in InstancesIn(g) : c[design.nested[s]] = -1}

\* Mutant: the buffers are left out of the count.
AllVisitedOfBuckets(g, opened, visited) ==
    Cardinality(visited) = Size(g) - Cardinality(opened)

AllVisited(g, opened, visited) ==
    Cardinality(visited) = Size(g) + Cardinality(BuffersIn(g)) - Cardinality(opened)

Judged(g, c) ==
    LET start == {Head(StartBuckets(g))}
        opened == Opened(g, c)
    IN  [c EXCEPT ![g] = IF AllVisited(g, opened, Dfs(start, start, opened)) THEN 1 ELSE -1]

\* Nested graphs answer from their caches: recalculation does not reach them.
RECURSIVE NestedAsked(_, _)
NestedAsked(g, c) ==
    FoldLeft(LAMBDA known, s :
                LET sub == design.nested[s]
                IN  IF known[sub] # 0 THEN known
                    ELSE IF Size(sub) <= 1 THEN [known EXCEPT ![sub] = 1]
                    ELSE Judged(sub, NestedAsked(sub, known)),
             c, Bucket(g, "subGraph"))

Calculated(g, c) ==
    IF Size(g) <= 1 THEN [c EXCEPT ![g] = 1] ELSE Judged(g, NestedAsked(g, c))

\* The search of g, or of a nested graph it asks, would start at a null pointer.
RECURSIVE StartsNowhere(_)
StartsNowhere(g) ==
    /\ Size(g) > 1
    /\ \/ StartBuckets(g) = <<>>
       \/ \E s \in InstancesIn(g) : /\ connected[design.nested[s]] = 0
                                    /\ StartsNowhere(design.nested[s])

ConnectivityInit ==
    /\ connected = [g \in Graphs |-> 0]
    /\ verdict = "none"

\* isConnected(recalculate); a cached verdict changes nothing.
IsConnected(g, recalculate) ==
    /\ verdict # "crash"
    /\ connected[g] = 0 \/ recalculate
    /\ IF StartsNowhere(g)
       THEN verdict' = "crash" /\ UNCHANGED connected
       ELSE verdict' = g /\ connected' = Calculated(g, connected)

\* No edit resets d_connected.
ConnectivityEdited == verdict' = "none" /\ UNCHANGED connected

-----------------------------------------------------------------------------
(* What the verdict is about: the vertices of g, and the insides of the    *)
(* instances that count as one vertex, hang together in the whole circuit. *)

NetNodes(top) ==
    {n \in PathsFrom(top) \X (Vertices \ Instances) : design.home[n[2]] = GraphAt(top, n[1])}

PortLinks(top) ==
    {<< <<p, ins[s][i]>>, <<Append(p, s), Inputs(design.nested[s])[i]>> >> :
        <<p, s, i>> \in {x \in PathsFrom(top) \X Instances \X (1..2) :
                            x[2] \in InstancesIn(GraphAt(top, x[1])) /\ x[3] \in DOMAIN ins[x[2]]}}
    \cup
    {<< <<Append(p, s), Outputs(design.nested[s])[i]>>, <<p, BuffersOf(s)[i]>> >> :
        <<p, s, i>> \in {x \in PathsFrom(top) \X Instances \X (1..2) :
                            x[2] \in InstancesIn(GraphAt(top, x[1])) /\ x[3] \in DOMAIN BuffersOf(x[2])}}

NetLinks(top) ==
    PortLinks(top)
    \cup {l \in NetNodes(top) \X NetNodes(top) : /\ l[1][1] = l[2][1]
                                                 /\ l[1][2] \in Drivers(l[2][2])}

RECURSIVE Component(_, _)
Component(S, links) ==
    LET found == {l[2] : l \in {x \in links : x[1] \in S}} \cup {l[1] : l \in {x \in links : x[2] \in S}}
    IN  IF found \subseteq S THEN S ELSE Component(S \cup found, links)

Visible(g, c) ==
    {n \in NetNodes(g) : \/ n[1] = <<>>
                         \/ Len(n[1]) = 1 /\ n[1][1] \notin Opened(g, c)}

HangsTogether(g, c) ==
    LET visible == Visible(g, c)
    IN  visible = {} \/ visible \subseteq Component({CHOOSE n \in visible : TRUE}, NetLinks(g))

\* The verdicts of the graphs nested in g are those of the present circuit.
NestedFresh(g) ==
    \A s \in InstancesIn(g) :
        connected[design.nested[s]] = Calculated(design.nested[s], [h \in Graphs |-> 0])[design.nested[s]]

\* Inside an instance, every net is driven from its input ports, and through
\* no instance: the search back from a buffer stops at the inputs an inner
\* instance is wired to, and does not recognise them as inputs.
FedByPorts(s) ==
    LET sub == design.nested[s]
    IN  /\ InstancesIn(sub) = {}
        /\ Range(Bucket(sub, "gate") \o Bucket(sub, "constant"))
             \subseteq ForwardFrom(Range(Inputs(sub)))

-----------------------------------------------------------------------------
(* A graph that isConnected calls connected hangs together in the whole    *)
(* circuit, where no addEdge was refused: passing through a disconnected   *)
(* instance joins only what its inside joins (OrientedGraph::dfs,          *)
(* getOutputBuffersByOuterInput).                                          *)
ConnectedIsLinked ==
    refused = {} =>
      \A g \in Graphs : verdict = g /\ NestedFresh(g) /\ connected[g] = 1 => HangsTogether(g, connected)

(* A graph that isConnected calls disconnected does fall apart, when the   *)
(* instances passed through are fed by their ports alone.                  *)
DisconnectedIsApart ==
    \A g \in Graphs :
        verdict = g /\ NestedFresh(g) /\ connected[g] = -1
          /\ (\A s \in Opened(g, connected) : FedByPorts(s))
        => ~HangsTogether(g, connected)

(* What isConnected answers is how the whole circuit hangs together; after *)
(* an addEdge that threw it may call it connected by an edge that is not   *)
(* there, never apart.                                                     *)
VerdictIsLinkage == ConnectedIsLinked /\ DisconnectedIsApart

(* isConnected(true) is about the circuit as it is: "Flag to force         *)
(* recalculation of connectivity" (OrientedGraph.hpp).                     *)
RecalculatedIsExact ==
    \A g \in Graphs : verdict = g => (connected[g] = 1 <=> HangsTogether(g, connected))
=============================================================================
