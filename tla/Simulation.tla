---- MODULE Simulation ----
(* The four-valued evaluation of a graph: OrientedGraph::graphSimulation,   *)
(* simulationRemove and the updateValue / removeValue methods they call.    *)
(* The vertices are fixed while values move, so a circuit is a record:      *)
(*   kind[v]      the type of a vertex, or the gate of a gate vertex        *)
(*   ins[v]       d_inConnections; outs[v] the buffers of a subGraph        *)
(*   cell[v]      the flags of a sequential cell                            *)
(*   const[v]     the value of a constant                                   *)
(*   nested[v]    the graph a subGraph vertex instantiates                  *)
(*   input, output, gate, sub, seq: the vectors of d_vertices, per graph    *)
(*   signals      bound: the values the vectors of a run may hold           *)
(* The buffers of a subGraph are in no vector: addSubGraph keeps them in    *)
(* d_allSubGraphsOutputs only.  A method that calls itself on other         *)
(* vertices is a function of the memory and the vertex, given the calls     *)
(* inside it; Depth says how deep those go.                                 *)
EXTENDS GateTables, Integers, Sequences, FiniteSets, SequencesExt

CONSTANT Circuits    \* the circuits to simulate

VARIABLES circuit,    \* the circuit of this behaviour; it does not change
          cells,      \* what the vertices remember, see Fresh
          applied,    \* the vector of the last graphSimulation, <<>> after a removal
          answer      \* what that call returned

vars == <<circuit, cells, applied, answer>>

Undefined == "n"      \* ValueStates::UndefinedState

Values == {"0", "1", "x", "z", Undefined}

GateTypes == {"Buf", "Not", "And", "Nand", "Or", "Nor", "Xor", "Xnor"}

Vertices(c) == DOMAIN c.kind
Of(c, type) == {v \in Vertices(c) : c.kind[v] = type}
Gate(c, v) == c.kind[v] \in GateTypes

(***************************************************************************)
(* The circuits a client can build.                                        *)
(***************************************************************************)
One(b) == IF b THEN 1 ELSE 0

CellTypes == [ff : BOOLEAN, async : BOOLEAN, neg : BOOLEAN, en : BOOLEAN,
              clear : {"none", "RST", "CLR"}, set : BOOLEAN]

\* A cell has a driver for each of its signals.
CellsBuilt(c) ==
  /\ c.cell \in [Of(c, "seq") -> CellTypes]
  /\ \A f \in Of(c, "seq") :
       LET k == c.cell[f]
       IN  Len(c.ins[f]) = 1 + One(k.ff) + One(k.en) + One(k.clear # "none") + One(k.set)

\* An instance has a driver for each input of its graph, or none yet, and only
\* its buffers take its values.
InstancesBuilt(c) ==
  /\ c.nested \in [Of(c, "sub") -> DOMAIN c.input]
  /\ \A v \in Of(c, "sub") : Len(c.ins[v]) \in {0, Len(c.input[c.nested[v]])}
  /\ \A v \in Vertices(c) : ToSet(c.ins[v]) \cap Of(c, "sub") # {} => Gate(c, v)

GraphsBuilt(c) ==
  /\ "top" \in DOMAIN c.input
  /\ c.input \in [DOMAIN c.input -> Seq(Of(c, "input"))]
  /\ c.output \in [DOMAIN c.input -> Seq(Of(c, "output"))]
  /\ c.seq \in [DOMAIN c.input -> Seq(Of(c, "seq"))]

Built(c) ==
  /\ c.signals \subseteq Values \ {Undefined}
  /\ IsFiniteSet(Vertices(c))
  /\ c.kind \in [Vertices(c) -> GateTypes \cup {"input", "output", "const", "seq", "sub"}]
  /\ c.ins \in [Vertices(c) -> Seq(Vertices(c))]
  /\ \A v \in Of(c, "Buf") \cup Of(c, "Not") : Len(c.ins[v]) <= 1
  /\ c.const \in [Of(c, "const") -> Values]
  /\ CellsBuilt(c)
  /\ InstancesBuilt(c)
  /\ GraphsBuilt(c)

ASSUME CircuitsAssumption == \A c \in Circuits : Built(c)

(***************************************************************************)
(* What the vertices remember, and calls on them.                          *)
(***************************************************************************)
Memory(c) ==
  [value   : [Vertices(c) -> Values],
   prevClk : [Of(c, "seq") -> Values],
   staged  : [Of(c, "seq") -> {<<>>} \cup (Values \X Values)],  \* empty: d_hasStaged is false
   sim     : [Of(c, "sub") -> Seq(Values)],                     \* d_simOutputs
   active  : SUBSET Vertices(c),                                \* UpdateValueCycleGuard's set
   endless : BOOLEAN]                                           \* a removal goes on for ever

Fresh(c) ==
  [value   |-> [v \in Vertices(c) |-> IF c.kind[v] = "const" THEN c.const[v] ELSE Unknown],
   prevClk |-> [f \in Of(c, "seq") |-> Unknown],
   staged  |-> [f \in Of(c, "seq") |-> <<>>],
   sim     |-> [v \in Of(c, "sub") |-> <<>>],
   active  |-> {},
   endless |-> FALSE]

\* A method is called on a vertex and changes the memory.
Calls(c) == Memory(c) \X Vertices(c)

\* Bound: deeper than any calls within calls that end.
Depth(c) == (Cardinality(Vertices(c)) + 1) * (Cardinality(Vertices(c)) + 1)

\* The state s, that after the call on list[1], that after list[2] and so on.
Trace(call, s, list) ==
  LET after[i \in Nat] == IF i = 0 THEN s ELSE call[<<after[i - 1], list[i]>>]
  IN  after

Through(call, s, list) == Trace(call, s, list)[Len(list)]

\* The place of v in a list.
At(list, v) == CHOOSE i \in DOMAIN list : list[i] = v

(***************************************************************************)
(* Where a cell finds its pins.                                            *)
(***************************************************************************)
\* A missing signal takes no place, so the later ones move up.
Pin(c, f, name) ==
  LET k == c.cell[f]
      en == 2 + One(k.ff)
      clear == en + One(k.en)
  IN  c.ins[f][CASE name = "data"  -> 1
                 [] name = "clk"   -> 2
                 [] name = "en"    -> en
                 [] name = "clear" -> clear
                 [] name = "set"   -> clear + One(k.clear # "none")]

Has(c, f, name) ==
  CASE name = "data"  -> TRUE
    [] name = "clk"   -> c.cell[f].ff
    [] name = "en"    -> c.cell[f].en
    [] name = "clear" -> c.cell[f].clear # "none"
    [] name = "set"   -> c.cell[f].set

\* What a clear or set signal asks for; "none" when it is inactive.
Effect(c, f, name, v) ==
  LET active == IF name = "clear" /\ c.cell[f].clear = "RST" THEN "0" ELSE "1"
  IN  IF v = active THEN (IF name = "set" THEN "1" ELSE "0")
      ELSE IF v = Invert(active) THEN "none" ELSE Unknown

(***************************************************************************)
(* updateValue of each kind of vertex; s is the memory before the call and *)
(* `up' stands for the calls of updateValue inside it.                     *)
(***************************************************************************)
\* Gates look at a driver's value and compute it only when it is undefined.
Pull(up, s, v) == IF s.value[v] = Undefined THEN up[<<s, v>>] ELSE s

Buffered(c, s, v, sub) ==
  LET at == At(c.outs[sub], v)
  IN  IF at \in DOMAIN s.sim[sub] THEN s.sim[sub][at] ELSE Unknown

Merged(c, up, v, s, d) ==
  LET p == Pull(up, s, d)
  IN  [p EXCEPT !.value[v] = Table(c.kind[v], @, p.value[d])]

Merging(c, up, v) == [call \in Calls(c) |-> Merged(c, up, v, call[1], call[2])]

GateValue(c, up, s, v) ==
  LET first == c.ins[v][1]
      start == Pull(up, s, first)
  IN  IF c.kind[v] = "Buf" /\ c.kind[first] = "sub"
      THEN [start EXCEPT !.value[v] = Buffered(c, start, v, first)]
      ELSE Through(Merging(c, up, v),
                   [start EXCEPT !.value[v] = Single(c.kind[v], start.value[first])],
                   Tail(c.ins[v]))

Agreed(up, v, s, d) ==
  LET p == up[<<s, d>>]
  IN  IF p.value[d] = p.value[v] THEN p ELSE [p EXCEPT !.value[v] = Unknown]

Agreeing(c, up, v) == [call \in Calls(c) |-> Agreed(up, v, call[1], call[2])]

OutputValue(c, up, s, v) ==
  LET first == up[<<s, c.ins[v][1]>>]
  IN  Through(Agreeing(c, up, v), [first EXCEPT !.value[v] = first.value[c.ins[v][1]]],
              Tail(c.ins[v]))

\* Gates and outputs answer "x" without inputs and when they are already on the
\* path of calls.
Guarded(c, up, s, v) ==
  LET unknown == [s EXCEPT !.value[v] = Unknown]
      inside == [unknown EXCEPT !.active = @ \cup {v}]
  IN  IF v \in s.active \/ c.ins[v] = <<>> THEN unknown
      ELSE [(IF Gate(c, v) THEN GateValue(c, up, inside, v) ELSE OutputValue(c, up, inside, v))
              EXCEPT !.active = s.active]

\* Another sequential cell is sampled as it stands.
Look(c, up, s, f, name) ==
  IF ~Has(c, f, name) \/ c.kind[Pin(c, f, name)] = "seq" THEN s ELSE up[<<s, Pin(c, f, name)>>]

\* A cell without an enable is enabled.
Seen(c, s, f, name) == IF Has(c, f, name) THEN s.value[Pin(c, f, name)] ELSE "1"

\* A clear or set signal has its say unless one before it decided.
Unforced(s) == [cells |-> s, by |-> "none"]

Forced(c, up, forced, f, name) ==
  IF forced.by # "none" \/ ~Has(c, f, name) THEN forced
  ELSE LET s == Look(c, up, forced.cells, f, name)
       IN  [cells |-> s, by |-> Effect(c, f, name, s.value[Pin(c, f, name)])]

Captured(v) == IF v \in {"0", "1"} THEN v ELSE Unknown

Held(v) == IF v = Undefined THEN Unknown ELSE v

\* An asynchronous clear needs no edge.
ClearFF(c, up, s, f) ==
  IF c.cell[f].async THEN Forced(c, up, Unforced(s), f, "clear") ELSE Unforced(s)

\* What the clear and set signals ask for at an edge.
EdgeFF(c, up, clear, f) ==
  Forced(c, up, IF c.cell[f].async THEN clear ELSE Forced(c, up, clear, f, "clear"), f, "set")

Edge(k) == IF k.neg THEN <<"1", "0">> ELSE <<"0", "1">>

\* f keeps the value q it had when its data pin was evaluated.
NextFF(forced, tick, q, data, en) ==
  IF forced.by # "none" THEN forced.by
  ELSE IF ~tick THEN Held(q)
  ELSE IF en = "1" THEN Captured(data) ELSE q

StageFF(c, up, s, f) ==
  LET s1 == Look(c, up, s, f, "data")
      s2 == Look(c, up, s1, f, "clk")
      s3 == Look(c, up, s2, f, "en")
      clk == Seen(c, s2, f, "clk")
      clear == ClearFF(c, up, s3, f)
      tick == <<clear.cells.prevClk[f], clk>> = Edge(c.cell[f])
      forced == IF clear.by # "none" \/ ~tick THEN clear ELSE EdgeFF(c, up, clear, f)
      next == NextFF(forced, tick, s1.value[f], Seen(c, s1, f, "data"), Seen(c, s3, f, "en"))
  IN  [forced.cells EXCEPT !.staged[f] = <<next, clk>>]

\* The enable is not looked at when the latch is forced.
StageLatch(c, up, s, f) ==
  LET s1 == Look(c, up, s, f, "data")
      forced == Forced(c, up, Forced(c, up, Unforced(s1), f, "clear"), f, "set")
      s2 == IF forced.by # "none" THEN forced.cells ELSE Look(c, up, forced.cells, f, "en")
      next == IF forced.by # "none" THEN forced.by
              ELSE IF Seen(c, s2, f, "en") = "1" THEN Captured(Seen(c, s1, f, "data"))
              ELSE Held(s1.value[f])
  IN  [s2 EXCEPT !.staged[f] = <<next, s1.prevClk[f]>>]

Stage(c, up, s, f) == IF c.cell[f].ff THEN StageFF(c, up, s, f) ELSE StageLatch(c, up, s, f)

Commit(s, f) ==
  IF s.staged[f] = <<>> THEN s
  ELSE [s EXCEPT !.value[f] = s.staged[f][1], !.prevClk[f] = s.staged[f][2], !.staged[f] = <<>>]

(***************************************************************************)
(* graphSimulation of graph g on one vector.                               *)
(***************************************************************************)
\* A mutant: the gates keep the values of the last vector.
OutputsInvalidated(c, s, g) ==
  [s EXCEPT !.value = [v \in DOMAIN @ |->
     IF v \in ToSet(c.output[g] \o c.sub[g]) THEN Undefined ELSE @[v]]]

Invalidated(c, s, g) ==
  [s EXCEPT !.value = [v \in DOMAIN @ |->
     IF v \in ToSet(c.gate[g]) \cup ToSet(c.output[g]) \cup ToSet(c.sub[g]) THEN Undefined ELSE @[v]]]

Driven(c, s, g, vector) ==
  [s EXCEPT !.value = [v \in DOMAIN @ |->
     IF v \in ToSet(c.input[g]) THEN vector[At(c.input[g], v)] ELSE @[v]]]

FlipFlops(c, g) == {f \in ToSet(c.seq[g]) : c.cell[f].ff}
Latches(c, g) == ToSet(c.seq[g]) \ FlipFlops(c, g)

\* The loops over the sequential vertices pass the cells of the other kind over.
UpdatingLatches(c, up) ==
  [call \in Calls(c) |-> IF c.cell[call[2]].ff THEN call[1] ELSE up[call]]

StagingFFs(c, up) ==
  [call \in Calls(c) |-> IF c.cell[call[2]].ff THEN Stage(c, up, call[1], call[2]) ELSE call[1]]

CommittingFFs(c) ==
  [call \in Calls(c) |-> IF c.cell[call[2]].ff THEN Commit(call[1], call[2]) ELSE call[1]]

\* A mutant: the newest latch first.
NewestFirst(c, up, s, g) == Through(UpdatingLatches(c, up), s, Reverse(c.seq[g]))

Levelled(c, up, s, g) == Through(UpdatingLatches(c, up), s, c.seq[g])

\* A mutant: each flip-flop changes as soon as it has sampled.
OneByOne(c, up, s, g) ==
  Through([call \in Calls(c) |-> CommittingFFs(c)[<<StagingFFs(c, up)[call], call[2]>>]], s, c.seq[g])

\* Every flip-flop samples before any of them changes.
Clocked(c, up, s, g) == Through(CommittingFFs(c), Through(StagingFFs(c, up), s, c.seq[g]), c.seq[g])

\* Each value is taken as its output is computed; no later output changes it.
Answered(c, g, s) ==
  [cells |-> s, outputs |-> [i \in DOMAIN c.output[g] |-> s.value[c.output[g][i]]]]

Simulated(c, up, s, g, vector) ==
  LET ready == Levelled(c, up, Driven(c, Invalidated(c, s, g), g, vector), g)
  IN  Answered(c, g, Through(up, Clocked(c, up, ready, g), c.output[g]))

Instantiated(s, v, outputs) ==
  [s EXCEPT !.sim[v] = outputs, !.value[v] = IF outputs = <<>> THEN Unknown ELSE outputs[1]]

\* The values of the drivers are collected as each is updated.
Run(c, up, s, v) ==
  LET after == Trace(up, s, c.ins[v])
      vector == [i \in DOMAIN c.ins[v] |-> after[i].value[c.ins[v][i]]]
  IN  Simulated(c, up, after[Len(c.ins[v])], c.nested[v], vector)

SubGraphValue(c, up, s, v) ==
  IF c.ins[v] = <<>> THEN [s EXCEPT !.value[v] = Unknown, !.sim[v] = <<>>]
  ELSE IF s.value[v] # Undefined THEN s
  ELSE Instantiated(Run(c, up, s, v).cells, v, Run(c, up, s, v).outputs)

UpdateOnce(c, up, s, v) ==
  CASE Gate(c, v) \/ c.kind[v] = "output" -> Guarded(c, up, s, v)
    [] c.kind[v] = "sub"                   -> SubGraphValue(c, up, s, v)
    [] c.kind[v] = "seq"                   -> Commit(Stage(c, up, s, v), v)
    [] OTHER                               -> s

\* updateValue: one gate or output is never twice on the path of calls, and a
\* cell or an instance calls gates and outputs.
Update(c) ==
  LET up[n \in Nat] ==
        IF n = 0 THEN [call \in Calls(c) |-> call[1]]
        ELSE [call \in Calls(c) |-> UpdateOnce(c, up[n - 1], call[1], call[2])]
  IN  up[Depth(c)]

(***************************************************************************)
(* simulationRemove and removeValue, `rm' for the calls of removeValue     *)
(* inside it.  What follows a call that goes on for ever never happens.    *)
(***************************************************************************)
\* Gates go on to the drivers that still have a value, and to all in a mutant.
AnyDriver(s, d) == TRUE

StillDefined(s, d) == s.value[d] # Undefined

RemovingDefined(c, rm) ==
  [call \in Calls(c) |-> IF StillDefined(call[1], call[2]) THEN rm[call] ELSE call[1]]

Forgotten(s, f) == [s EXCEPT !.prevClk[f] = Unknown, !.staged[f] = <<>>]

Cleared(s, v) == [s EXCEPT !.value[v] = Undefined]

\* A mutant: a removal starts at the outputs alone.
ResetOutputs(c, rm, s, g) == Through(rm, s, c.output[g])

Reset(c, rm, s, g) == Through(rm, s, c.output[g] \o c.seq[g])

RemoveOnce(c, rm, s, v) ==
  CASE c.kind[v] = "input"  -> Cleared(s, v)
    [] c.kind[v] = "const"  -> [s EXCEPT !.value[v] = c.const[v]]
    [] c.kind[v] = "sub"    -> Reset(c, rm, [Cleared(s, v) EXCEPT !.sim[v] = <<>>], c.nested[v])
    [] Gate(c, v)           -> Through(RemovingDefined(c, rm), Cleared(s, v), c.ins[v])
    [] c.kind[v] = "seq"    -> Through(rm, Cleared(Forgotten(s, v), v), c.ins[v])
    [] c.kind[v] = "output" -> Through(rm, Cleared(s, v), c.ins[v])

Removal(c) ==
  LET rm[n \in Nat] ==
        IF n = 0 THEN [call \in Calls(c) |-> [call[1] EXCEPT !.endless = TRUE]]
        ELSE [call \in Calls(c) |-> IF call[1].endless THEN call[1]
                                     ELSE RemoveOnce(c, rm[n - 1], call[1], call[2])]
  IN  rm[Depth(c)]

(***************************************************************************)
(* The calls a user makes on the top graph.                                *)
(***************************************************************************)
Init ==
  /\ circuit \in Circuits
  /\ cells = Fresh(circuit)
  /\ applied = <<>>
  /\ answer = <<>>

Vectors(c) == [DOMAIN c.input["top"] -> c.signals]

\* A vector of another length throws before anything changes.
GraphSimulation(vector) ==
  /\ ~cells.endless
  /\ \E run \in {Simulated(circuit, Update(circuit), cells, "top", vector)} :
       /\ cells' = run.cells
       /\ answer' = run.outputs
  /\ applied' = vector
  /\ UNCHANGED circuit

SimulationRemove ==
  /\ ~cells.endless
  /\ applied # <<>>
  /\ cells' = Reset(circuit, Removal(circuit), cells, "top")
  /\ applied' = <<>>
  /\ answer' = <<>>
  /\ UNCHANGED circuit

Next ==
  \/ \E vector \in Vectors(circuit) : GraphSimulation(vector)
  \/ SimulationRemove

Spec == Init /\ [][Next]_vars

(***************************************************************************)
(* The value a vertex has when every gate below it is worked out anew from *)
(* inputs, constants and the values the sequential cells hold.             *)
(***************************************************************************)
Assignments(c) == [Vertices(c) -> Values]

\* A gate, an output without gates: what is made of the values of the drivers.
Chained(c, v, of) ==
  LET chain == [call \in Values \X Vertices(c) |-> Table(c.kind[v], call[1], of[call[2]])]
  IN  Through(chain, Single(c.kind[v], of[c.ins[v][1]]), Tail(c.ins[v]))

Agreement(c, v, of) ==
  IF \A d \in ToSet(c.ins[v]) : of[d] = of[c.ins[v][1]] THEN of[c.ins[v][1]] ELSE Unknown

\* The inputs of a nested graph have the values of the drivers of the instance.
Inside(c, sub, value, of) ==
  [w \in Vertices(c) |->
     IF w \in ToSet(c.input[c.nested[sub]])
     THEN of[c.ins[sub][At(c.input[c.nested[sub]], w)]]
     ELSE value[w]]

ConeOnce(c, cone, value, v) ==
  LET of == [d \in Vertices(c) |-> cone[<<value, d>>]]
      first == c.ins[v][1]
  IN  IF c.kind[v] \in {"input", "const", "seq"} THEN value[v]
      ELSE IF c.ins[v] = <<>> THEN Unknown
      ELSE IF c.kind[v] = "output" THEN Agreement(c, v, of)
      ELSE IF c.kind[first] = "sub"
      THEN cone[<<Inside(c, first, value, of),
                  c.output[c.nested[first]][At(c.outs[first], v)]>>]
      ELSE Chained(c, v, of)

Cone(c, value, v) ==
  LET cone[n \in Nat] ==
        IF n = 0 THEN [call \in Assignments(c) \X Vertices(c) |-> Unknown]
        ELSE [call \in Assignments(c) \X Vertices(c) |-> ConeOnce(c, cone[n - 1], call[1], call[2])]
  IN  cone[Depth(c)][<<value, v>>]

\* The gates a vertex is worked out from.
Below(c, v) ==
  LET below[n \in Nat] ==
        IF n = 0 THEN [u \in Vertices(c) |-> {}]
        ELSE [u \in Vertices(c) |->
                UNION {IF Gate(c, d) THEN {d} \cup below[n - 1][d] ELSE {} : d \in ToSet(c.ins[u])}]
  IN  below[Depth(c)][v]

(* The always block toVerilog prints for a flip-flop: what q becomes when   *)
(* the clock goes from `was` to `clk`, for control signals that are known.  *)
Block(k, q, edge, data, en, clear, set) ==
  LET cleared == \/ k.clear = "RST" /\ clear = "0"
                 \/ k.clear = "CLR" /\ clear = "1"
  IN  IF k.async /\ cleared THEN "0"
      ELSE IF ~edge THEN Held(q)
      ELSE IF cleared THEN "0"
      ELSE IF k.set /\ set = "1" THEN "1"
      ELSE IF k.en /\ en = "0" THEN q ELSE Captured(data)

\* (a)ff...: always @(posedge clk ...)
PosedgeBlock(k, q, was, clk, data, en, clear, set) ==
  Block(k, q, was = "0" /\ clk = "1", data, en, clear, set)

\* n(a)ff...: always @(negedge clk ...)
NegedgeBlock(k, q, was, clk, data, en, clear, set) ==
  Block(k, q, was = "1" /\ clk = "0", data, en, clear, set)

Exported(k, q, was, clk, data, en, clear, set) ==
  IF k.neg THEN NegedgeBlock(k, q, was, clk, data, en, clear, set)
  ELSE PosedgeBlock(k, q, was, clk, data, en, clear, set)

(***************************************************************************)
(* Properties.                                                             *)
(***************************************************************************)
\* The signal at a pin just before the edge: the new inputs, the old registers.
Before(f, name) ==
  LET old == Driven(circuit, cells, "top", applied').value
  IN  IF Has(circuit, f, name) THEN Cone(circuit, old, Pin(circuit, f, name)) ELSE "0"

\* All flip-flops of a graph move together: whatever the order of the registry,
\* whatever gates lie between them and whatever was evaluated before, each one
\* ends a vector with what its exported always block makes of the registers as
\* they were before the edge (graphSimulation's comment: FF->FF chains match
\* q <= d).
RegistersMatchExport ==
  [][applied' # <<>> =>
       \A f \in FlipFlops(circuit, "top") :
          ({Before(f, name) : name \in {"clk", "en", "clear", "set"}} \subseteq {"0", "1"}) =>
             cells'.value[f] =
                Exported(circuit.cell[f], cells.value[f], cells.prevClk[f], Before(f, "clk"),
                         Before(f, "data"), Before(f, "en"), Before(f, "clear"),
                         Before(f, "set"))]_vars

Settled(o) ==
  answer[At(circuit.output["top"], o)] = Cone(circuit, cells.value, o)

\* The vector that graphSimulation returns is the one the inputs and the
\* registers give: no gate answers with a value of before the edge or of an
\* earlier vector.
OutputsSettled ==
  applied # <<>> => \A o \in ToSet(circuit.output["top"]) : Settled(o)

\* No gate below an output's own driver feeds a sequential cell, which would
\* evaluate it before the edge.
Apart(o) ==
  (UNION {Below(circuit, d) : d \in ToSet(circuit.ins[o])})
    \cap (UNION {Below(circuit, f) : f \in ToSet(circuit.seq["top"])}) = {}

\* What does hold, where no buffer of an instance feeds a gate: outputs apart
\* from the cells are settled, after any sequence of vectors.
OutputsSettledApart ==
  applied # <<>> => \A o \in ToSet(circuit.output["top"]) : Apart(o) => Settled(o)

\* After simulationRemove a graph answers as one that was never simulated:
\* the next vector leaves the same registers, those of the nested graphs
\* included, and gives the same values on the outputs apart from the cells.
RemovalForgets ==
  [][applied' = <<>> /\ ~cells'.endless =>
       \A vector \in Vectors(circuit) :
          LET again == Simulated(circuit, Update(circuit), cells', "top", vector)
              first == Simulated(circuit, Update(circuit), Fresh(circuit), "top", vector)
          IN  /\ \A i \in DOMAIN circuit.output["top"] :
                    Apart(circuit.output["top"][i]) => again.outputs[i] = first.outputs[i]
              /\ again.cells.prevClk = first.cells.prevClk
              /\ \A f \in Of(circuit, "seq") :
                    again.cells.value[f] = first.cells.value[f]]_vars

\* simulationRemove returns ("Resets values after simulation").
RemovalReturns == ~cells.endless

\* Cells, or outputs that drive something, that feed one another with no gate
\* between.
Ringed(c) ==
  \E S \in SUBSET (Of(c, "seq") \cup Of(c, "output")) \ {{}} :
     \A f \in S : ToSet(c.ins[f]) \cap S # {}

\* simulationRemove returns on every circuit but those, whatever loops through
\* gates and cells there are and whatever state they are in.
RemovalReturnsUnlessRinged == ~Ringed(circuit) => RemovalReturns

\* Latches settle before any flip-flop samples: a transparent latch holds what
\* its data pin carries.
LatchesSettled ==
  applied # <<>> =>
    \A l \in Latches(circuit, "top") :
       LET at(name) == Cone(circuit, cells.value, Pin(circuit, l, name))
       IN  (at("en") = "1" /\ circuit.cell[l].clear = "none" /\ ~circuit.cell[l].set)
             => cells.value[l] = Captured(at("data"))
====
