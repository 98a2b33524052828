------------------------------ MODULE LevelCache ------------------------------
(***************************************************************************)
(* The levels an OrientedGraph caches in its vertices (d_level with the    *)
(* flags of d_needUpdate) and what is decided by them: which vertices      *)
(* getVerticesByLevel finds and which removeWasteVertices deletes. Edges   *)
(* are edited meanwhile; nothing but a client's call resets the flags.     *)
(*                                                                         *)
(* The two recursions, updateLevel from the outputs to their drivers and   *)
(* getVerticesByLevel from either side, are walks with a stack of frames,  *)
(* one step per vertex entered, edge looked at or frame left. The scans of *)
(* removeWasteVertices are the subject of CircuitGraph                     *)
(* (removeEmptyLogicVertices) and WasteScan; here each is one step.        *)
(***************************************************************************)
EXTENDS AdjacencyVector, FiniteSets, SequencesExt

CONSTANTS
    Nets,       \* the netlists a run starts from, records of
                \*   kind     the type of each vertex, all of them created when
                \*            the run begins; "buffer" for a subgraph's outputs
                \*   wires    the edges a client may add and remove
                \*   buffers  the buffers of each subgraph instance, in port order
                \*   nested   the level of the nested output behind each buffer
    MaxLevel,   \* bound: no update of the levels beyond this one
    EditCached  \* bound: whether edges are edited once levels are cached

\* What addSubGraph and the asserts of addVertexToInConnections keep. That no
\* wire leaves an output is a choice: its updateLevel sets no flag before it
\* returns, and on a cycle through one it would recurse for ever.
ASSUME LevelCacheAssumption ==
    /\ \A n \in Nets : LET V == DOMAIN n.kind IN
                        /\ IsFiniteSet(V) /\ V \subseteq Nat
                        /\ n.wires \subseteq V \X V
                        /\ \A e \in n.wires : /\ n.kind[e[1]] # "output"
                                             /\ n.kind[e[2]] \notin {"input", "constant"}
                        /\ n.buffers \in [V -> Seq(V)]
                        /\ \A v \in V : /\ IsInjective(n.buffers[v])
                                        /\ n.buffers[v] # <<>> => n.kind[v] = "subGraph"
                        /\ \A b \in V : n.kind[b] = "buffer" =>
                                          \E v \in V : b \in Range(n.buffers[v])
                        /\ n.nested \in [V -> Nat]
    /\ MaxLevel \in Nat
    /\ EditCached \in BOOLEAN

VARIABLES
    net,        \* the netlist of this behaviour; it does not change
    standing,   \* vertices not destroyed
    ins,        \* d_inConnections
    outs,       \* d_outConnections
    level,      \* d_level
    calc,       \* vertices whose d_needUpdate has VS_CALC (or, inside
                \* updateLevel, VS_IN_PROGRESS: both stop the recursion)
    used,       \* vertices whose d_needUpdate has VS_USED_LEVEL
    answer,     \* the last call and what it returned
    purging,    \* removeWasteVertices has scrubbed and has yet to delete
    phase,      \* "idle", or the call in progress: "levels" (updateLevels,
                \* with which all calls begin), "search" (getVerticesByLevel)
    roots,      \* vertices from which that call has yet to start a walk
    stack,      \* the walk: [at, next], a vertex and the connection it
                \* will look at next
    wanted,     \* the level that is searched for
    found,      \* the vertices of that level met so far
    trust       \* "clean": no edge was edited since the first level was
                \* cached; "reset": the flags were clear at the last edit, or
                \* have been cleared since; "stale": neither

walk == <<phase, roots, stack, wanted, found>>
vars == <<net, standing, ins, outs, level, calc, used, answer, purging, walk, trust>>
graph == <<net, standing, ins, outs>>
cache == <<level, calc, used>>

Vertex == DOMAIN net.kind
Kind == net.kind
Buffers == net.buffers
Nested == net.nested

Of(kinds) == {v \in standing : Kind[v] \in kinds}
Inner == Of({"gate", "sequential", "subGraph"})
Outputs == Of({"output"})

\* d_vertices: the buffers of subgraph instances are kept elsewhere.
Bucketed == {v \in standing : Kind[v] # "buffer"}

NoAnswer == [call |-> "none"]

Owners == {v \in Vertex : Buffers[v] # <<>>}

Init ==
    /\ net \in Nets
    /\ standing = Vertex
    /\ ins = [v \in Vertex |-> SetToSeq({u \in Owners : v \in Range(Buffers[u])})]
    /\ outs = Buffers
    /\ level = [v \in Vertex |-> 0]
    /\ calc = {}
    /\ used = {}
    /\ answer = NoAnswer
    /\ purging = FALSE
    /\ phase = "idle"
    /\ roots = {}
    /\ stack = <<>>
    /\ wanted = 0
    /\ found = {}
    /\ trust = "clean"

Idle == phase = "idle" /\ ~purging

-----------------------------------------------------------------------------
(* Edits.                                                                  *)

Edited == trust' = IF calc # {} THEN "stale"
                   ELSE IF trust = "clean" /\ \A v \in Vertex : level[v] = 0 THEN "clean"
                   ELSE "reset"

AddEdge(u, v) ==
    /\ Idle
    /\ v \notin Range(outs[u])
    /\ Kind[v] \in {"output", "buffer"} => ins[v] = <<>>
    /\ outs' = [outs EXCEPT ![u] = Append(@, v)]
    /\ ins' = [ins EXCEPT ![v] = Append(@, u)]
    /\ answer' = NoAnswer
    /\ Edited
    /\ UNCHANGED <<net, standing, cache, purging, walk>>

RemoveEdge(u, v) ==
    /\ Idle
    /\ v \in Range(outs[u])
    /\ outs' = [outs EXCEPT ![u] = SwapRemove(@, v)]
    /\ ins' = [ins EXCEPT ![v] = SwapRemove(@, u)]
    /\ answer' = NoAnswer
    /\ Edited
    /\ UNCHANGED <<net, standing, cache, purging, walk>>

\* clearNeedUpdateStates, clearAllStates: the flags of every bucketed vertex,
\* not its level.
ClearNeedUpdateStates ==
    /\ Idle
    /\ calc' = calc \ Bucketed
    /\ used' = used \ Bucketed
    /\ answer' = NoAnswer
    /\ trust' = IF trust = "clean" THEN "clean" ELSE "reset"
    /\ UNCHANGED <<graph, level, purging, walk>>

-----------------------------------------------------------------------------
(* updateLevels: updateLevel of every output in turn.                      *)

Highest(S) == CHOOSE n \in S \cup {0} : \A m \in S \cup {0} : m <= n

\* "Instance level must be > 0 so removeWasteVertices keeps live subgraphs."
InstanceLevel(maxIn) == maxIn + 1

\* GraphVertexSubGraph::updateLevel reads its drivers' levels as they are,
\* and gives each buffer a level too.
SubGraphLevels(v) ==
    LET maxIn == Highest({level[u] : u \in Range(ins[v])})
        at(b) == maxIn + (IF Nested[b] > 0 THEN Nested[b] ELSE 1)
    IN  [w \in Vertex |-> IF w = v THEN InstanceLevel(maxIn)
                          ELSE IF w \in Range(outs[v]) THEN at(w)
                          ELSE level[w]]

\* Mutant: the driver's level is taken as it is.
SameLevel(own, driver) == IF driver >= own THEN driver ELSE own

\* A level only ever grows.
Raised(own, driver) == IF driver >= own THEN driver + 1 ELSE own

Bounded(levels) == \A v \in Vertex : levels[v] <= MaxLevel

Earliest(S) == CHOOSE v \in S : \A w \in S : v <= w

Pushed(frames, v) == Append(frames, [at |-> v, next |-> 1])
Advanced(frames) == [frames EXCEPT ![Len(frames)].next = @ + 1]
Top == stack[Len(stack)]

\* The call of updateLevel. A vertex is flagged before its drivers are
\* visited: a cycle stops there.
UpdateLevel(v) ==
    IF v \in calc THEN UNCHANGED <<level, calc, stack>>
    ELSE /\ calc' = calc \cup {v}
         /\ level' = CASE Kind[v] = "input"    -> [level EXCEPT ![v] = 0]
                       [] Kind[v] = "subGraph" -> SubGraphLevels(v)
                       [] OTHER                -> level
         /\ stack' = IF Kind[v] \in {"input", "subGraph"} THEN stack ELSE Pushed(stack, v)

UpdateLevelsBegin ==
    /\ phase = "idle"
    /\ phase' = "levels"
    /\ roots' = Outputs
    /\ UNCHANGED <<graph, cache, answer, purging, stack, wanted, found, trust>>

UpdateOutput ==
    /\ phase = "levels"
    /\ stack = <<>> /\ roots # {}
    /\ roots' = roots \ {Earliest(roots)}
    /\ UpdateLevel(Earliest(roots))
    /\ Bounded(level')
    /\ UNCHANGED <<graph, used, answer, purging, phase, wanted, found, trust>>

\* The next driver of the vertex on top: updated unless it is flagged, and
\* when it is, its level counts as it stands.
UpdateDriver ==
    /\ phase = "levels"
    /\ stack # <<>> /\ Top.next <= Len(ins[Top.at])
    /\ LET u == ins[Top.at][Top.next] IN
         IF u \notin calc THEN UpdateLevel(u)
         ELSE /\ level' = [level EXCEPT ![Top.at] = Raised(@, level[u])]
              /\ stack' = Advanced(stack)
              /\ calc' = calc
    /\ Bounded(level')
    /\ UNCHANGED <<graph, used, answer, purging, phase, roots, wanted, found, trust>>

UpdateReturn ==
    /\ phase = "levels"
    /\ stack # <<>> /\ Top.next > Len(ins[Top.at])
    /\ stack' = SubSeq(stack, 1, Len(stack) - 1)
    /\ UNCHANGED <<graph, cache, answer, purging, phase, roots, wanted, found, trust>>

Updated == phase = "levels" /\ roots = {} /\ stack = <<>>

\* updateLevels itself; getMaxLevel changes the same state.
UpdateLevelsEnd ==
    /\ Updated /\ ~purging
    /\ phase' = "idle"
    /\ answer' = NoAnswer
    /\ UNCHANGED <<graph, cache, purging, roots, stack, wanted, found, trust>>

-----------------------------------------------------------------------------
(* getVerticesByLevel, once updateLevels is through.                       *)

\* Mutant: the search also stops above the level wanted.
StopAtOrAbove(at, lev) == at >= lev

\* The search does not go on behind a vertex of the level wanted.
StopAt(at, lev) == at = lev

\* The search starts from the side the level is closer to.
FromOutputs(l) == Highest({level[v] : v \in Outputs}) <= 2 * l
Starts(l) == IF FromOutputs(l) THEN Outputs ELSE Of({"input", "constant"})
Neighbours == IF FromOutputs(wanted) THEN ins ELSE outs

\* clearUsedLevelStates.
UsedAfter(visited) == visited \ Bucketed

GetVerticesByLevel(l) ==
    /\ Updated /\ ~purging
    /\ IF l = 0
       THEN /\ answer' = [call |-> "byLevel", level |-> 0, found |-> Of({"input", "constant"})]
            /\ phase' = "idle"
            /\ UNCHANGED <<roots, wanted>>
       ELSE /\ phase' = "search"
            /\ wanted' = l
            /\ roots' = Starts(l)
            /\ UNCHANGED answer
    /\ UNCHANGED <<graph, cache, purging, stack, found, trust>>

\* The call of GraphVertexBase::getVerticesByLevel, frames being the stack of
\* its caller.
Visit(v, frames) ==
    IF v \in used \/ v \notin calc
    THEN stack' = frames /\ UNCHANGED <<used, found>>
    ELSE /\ used' = used \cup {v}
         /\ found' = IF level[v] = wanted THEN found \cup {v} ELSE found
         /\ stack' = IF StopAt(level[v], wanted) THEN frames ELSE Pushed(frames, v)

SearchStart ==
    /\ phase = "search"
    /\ stack = <<>> /\ roots # {}
    /\ roots' = roots \ {Earliest(roots)}
    /\ Visit(Earliest(roots), stack)
    /\ UNCHANGED <<graph, level, calc, answer, purging, phase, wanted, trust>>

SearchNext ==
    /\ phase = "search"
    /\ stack # <<>> /\ Top.next <= Len(Neighbours[Top.at])
    /\ Visit(Neighbours[Top.at][Top.next], Advanced(stack))
    /\ UNCHANGED <<graph, level, calc, answer, purging, phase, roots, wanted, trust>>

SearchReturn ==
    /\ phase = "search"
    /\ stack # <<>> /\ Top.next > Len(Neighbours[Top.at])
    /\ stack' = SubSeq(stack, 1, Len(stack) - 1)
    /\ UNCHANGED <<graph, cache, answer, purging, phase, roots, wanted, found, trust>>

SearchEnd ==
    /\ phase = "search"
    /\ stack = <<>> /\ roots = {}
    /\ phase' = "idle"
    /\ used' = UsedAfter(used)
    /\ answer' = [call |-> "byLevel", level |-> wanted, found |-> found]
    /\ wanted' = 0
    /\ found' = {}
    /\ UNCHANGED <<graph, level, calc, purging, roots, stack, trust>>

-----------------------------------------------------------------------------
(* removeWasteVertices.                                                    *)

\* What removeEmptyLogicVertices leaves: the largest set in which every gate
\* and sequential cell has a driver of the set.
Supported ==
    UNION {S \in SUBSET standing :
             \A v \in S : Kind[v] \in {"gate", "sequential"} => Range(ins[v]) \cap S # {}}

\* The vectors after the edges of some vertices were cut, one after the other.
Unlinked(adj, gone) ==
    LET order == SetToSeq(gone)
        cut[k \in 0..Len(order)] ==
          IF k = 0 THEN adj
          ELSE LET left == cut[k - 1] IN [v \in Vertex |-> SwapRemove(left[v], order[k])]
    IN  [v \in Vertex |-> IF v \in gone THEN <<>> ELSE cut[Len(order)][v]]

RemoveEmptyLogicVertices ==
    LET gone == standing \ Supported IN
    /\ Idle
    /\ purging' = TRUE
    /\ standing' = Supported
    /\ ins' = Unlinked(ins, gone)
    /\ outs' = Unlinked(outs, gone)
    /\ answer' = NoAnswer
    /\ IF gone = {} THEN UNCHANGED trust ELSE Edited
    /\ UNCHANGED <<net, cache, walk>>

\* Level 0 is taken to mean: in nobody's fan-in. A subgraph instance takes
\* its buffers along.
Waste ==
    LET zero == {v \in Inner : level[v] = 0}
        bufs == {b \in Of({"buffer"}) : \E v \in zero : b \in Range(outs[v])}
        read == {u \in standing : Range(outs[u]) \ zero # {}}
    IN  zero \cup bufs \cup (Of({"input", "constant"}) \ read)

RemoveWasteVertices ==
    /\ Updated /\ purging
    /\ phase' = "idle"
    /\ purging' = FALSE
    /\ standing' = standing \ Waste
    /\ ins' = Unlinked(ins, Waste)
    /\ outs' = Unlinked(outs, Waste)
    /\ answer' = [call |-> "waste"]
    /\ UNCHANGED <<net, cache, roots, stack, wanted, found, trust>>

Next ==
    \/ \E e \in net.wires :
         /\ {e[1], e[2]} \subseteq standing
         /\ calc # {} => EditCached
         /\ \/ AddEdge(e[1], e[2])
            \/ RemoveEdge(e[1], e[2])
    \/ ClearNeedUpdateStates
    \/ UpdateLevelsBegin \/ UpdateOutput \/ UpdateDriver \/ UpdateReturn \/ UpdateLevelsEnd
    \/ \E l \in 0..MaxLevel : GetVerticesByLevel(l)
    \/ SearchStart \/ SearchNext \/ SearchReturn \/ SearchEnd
    \/ RemoveEmptyLogicVertices
    \/ RemoveWasteVertices

Spec == Init /\ [][Next]_vars

-----------------------------------------------------------------------------
(* Properties.                                                             *)

\* The vertices with a path to an output.
FanIn ==
    {v \in standing :
        \A S \in SUBSET standing :
            (Outputs \subseteq S /\ \A w \in S : Range(ins[w]) \subseteq S) => v \in S}

\* What the documentation means by a level: "how far is vertex from an
\* input", the longest way counted. Only for graphs without cycles.
Acyclic == \A S \in (SUBSET standing) \ {{}} : \E v \in S : Range(ins[v]) \cap S = {}

Depth[v \in Vertex] ==
    IF ins[v] = <<>> THEN 0 ELSE 1 + Highest({Depth[u] : u \in Range(ins[v])})

Driven == \A v \in FanIn : Kind[v] \notin {"input", "constant"} => ins[v] # <<>>

Flat == \A v \in Vertex : Kind[v] # "subGraph"

\* Vertices whose updateLevel is running.
InProgress == IF phase = "levels" THEN {stack[k].at : k \in DOMAIN stack} ELSE {}

Exact == Acyclic => \A v \in (FanIn \cap calc) \ InProgress : level[v] = Depth[v]

(* In a graph without instances updateLevels computes the longest distance *)
(* from the inputs, whatever the order the vertices are reached in, as     *)
(* long as the graph has not been edited since levels were first cached.   *)
LevelsExact == Flat /\ trust = "clean" => Exact

(* "The level becomes max(input levels) + 1. Before repeated calls, reset  *)
(* state flags used by level traversal" (GraphVertexBase.hpp): a client    *)
(* that resets the flags after an edit gets exact levels.                  *)
LevelsExactAfterReset == Flat /\ trust \in {"clean", "reset"} => Exact

(* There getVerticesByLevel returns the vertices of that level in the      *)
(* fan-in of the outputs, from whichever side it searches.                 *)
ByLevelComplete ==
    Flat /\ trust = "clean" /\ Acyclic /\ Driven /\ answer.call = "byLevel" /\ answer.level > 0 =>
        answer.found = {v \in FanIn : Depth[v] = answer.level}

(* Asked again, getVerticesByLevel answers the same: it leaves "all        *)
(* vertices ... not used for getVerticesByLevel" (OrientedGraph.hpp).      *)
ByLevelRepeatable ==
    [][answer.call = "byLevel" /\ answer'.call = "byLevel" /\ answer'.level = answer.level =>
         answer'.found = answer.found]_vars

(* removeWasteVertices on a graph not edited since levels were cached      *)
(* deletes the gates, cells and subgraphs without a path to an output, and *)
(* no others, also in graphs with cycles.                                  *)
WasteExact ==
    [][purging /\ ~purging' /\ trust = "clean" => Inner' = Inner \cap FanIn]_vars

(* It does so in graphs without instances.                                 *)
WasteExactFlat ==
    [][Flat /\ purging /\ ~purging' /\ trust = "clean" => Inner' = Inner \cap FanIn]_vars

=============================================================================
