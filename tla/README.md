# A TLA+ model of CircuitGen_Graph

CircuitGen_Graph is a C++ library that builds digital circuits as graphs: a client
(or the Verilog reader) creates vertices, connects and disconnects them, lets the
graph simplify itself, simulates it on four-valued vectors, compares, flattens and
exports it, and generates testbenches for it. This directory holds a model of that
code: TLA+ modules translated from the source, configurations that TLC checks on small
instances, and proofs that TLAPS checks for every instance. Paths below are relative to
the repository; `OG` stands for `src/OrientedGraph.cpp`, `OH` for
`include/CircuitGenGraph/OrientedGraph.hpp`, `TB` for `src/TestbenchGenerator.cpp`, `VS`,
`VG`, `VB` and `VQ` for `src/GraphVertexSubGraph.cpp`, `...Gates`, `...Base` and
`...Sequential`. `PROJECT.json` maps every definition to the lines it models.

How to run, in this directory: `tlc -config graph_wires.cfg MCCircuitGraph` for a
run of the tables below, `tlapm CircuitGraph_proofs.tla` for proofs.

## 1. The system

Everything runs on one thread; nothing is persisted. What makes the code hard is not
concurrency but *redundant state*: every edge is stored twice, counted once and
counted again by gate types; levels, hashes, verdicts and simulation values are cached in
the vertices; buckets are compacted in place while the edges of their members are
cut; calls may fail half way; and the same circuit is written down in six formats, each
by code of its own. The model asks what long sequences of legal calls do to all that.
The one place with real concurrency is outside: the generated testbench runs under a
Verilog simulator, which orders the events of an instant as it likes.

| component | state it keeps | operations | interacts with | what makes it correct | where it is hard |
|---|---|---|---|---|---|
| Editing core (`OrientedGraph`, `GraphVertexBase`, vertex kinds) | vertices by address; `d_vertices` by type, `d_allSubGraphsOutputs`; `d_inConnections`, `d_outConnections`; `d_edgesCount`, `d_gatesCount`, `d_edgesGatesCount` | `addInput` .. `addSubGraph`, `addEdge(s)`, `removeEdge`, `setGateIfDefault`; counting and listing | everything reads it; the reader, a client, the scrub and the waste removal edit it | both ends of an edge agree; nothing reads a destroyed vertex; counters equal what they count | an edge refused half way, gates that change type under existing edges, swap-with-last removal |
| Scrub (`removeEmptyLogicVertices`) | the bucket being compacted, vertices removed in this pass | one call, a loop in a loop | edits the core; every export runs it first | removes exactly what hangs in the air, ends | cascades backwards in a bucket already compacted, cycles |
| Waste removal (`removeWasteVertices`) | iterator, `counterForResize` | one call | scrub, level cache, core | deletes what has no way to an output, nothing else, and cuts exactly the destroyed tail | scan with swap to the back, 8-bit counter, instances that take their buffers along |
| Level cache (`updateLevels`, `getVerticesByLevel`) | `d_level`, flags `VS_CALC`, `VS_USED_LEVEL` | update, search by level, clear flags | reads the adjacency, read by waste removal | level = longest way from an input; a search finds all vertices of a level | nothing invalidates the cache when edges change; instances do not recurse; cycles |
| Simulation (`graphSimulation`, `simulationRemove`, `updateValue`) | `d_value`, `d_prevClk`, staged values, the vertices on the path of calls | simulate one vector, remove all values | recursion over the adjacency, into nested graphs | registers do what the exported `always` block does, outputs fit the inputs and registers | evaluation order, stale values, two-phase clocking, feedback, nested state |
| Sequential Verilog templates | none | `SequentialTypeToVerilog` | the reference of the simulation, run by the bench | same next state as the simulation | priority of clear, set, enable; async against sync |
| Arena (`MultiLinearAllocator`, `GraphMemory`) | blocks, offset, pool of names | `allocate`, `create`, `internalize` | gives the vertices their addresses | regions are disjoint, aligned, inside a block | alignment, growth, objects bigger than a block |
| Verilog reader (`GraphReader`, `Context`) | name table, current graph, nested graphs by name | callbacks of the parser | builds graphs through the core | the graph is the module that was read | names used before they are declared, inverters and gates made on demand, several modules in one context |
| Structural hash, `operator==` | hash and state of each vertex and graph | `calculateHash`, `clearHashStates` | reads the adjacency | equal structure, equal hash, in any order of creation | cycles, caches no edit resets, graphs nested in graphs |
| `isConnected`, `dfs` | a cached verdict per graph | one call | asks nested graphs, passes through their instances | the verdict is how the whole circuit hangs together | choice of the start vertex, ports of disconnected instances |
| `unrollGraph` | the map from vertices to copies | one call | reads instances, builds a flat graph | the flat graph is the circuit | order of the walk, a map keyed by the vertex of a shared graph |
| Verilog export | files, instance counters, `d_alreadyParsedVerilog`, the parameters of nested graphs | `toVerilog` of graphs and instances, both bus exports, `parseVerilogPorts`, `parseVerilogParameters` | scrubs first; writes nested graphs on the way; read back by a compiler, or the bench | the files, put together, compile to the circuit | several graphs and instances exported in any order with edits between, positional ports, files missing half way |
| DOT and GraphML export | per-graph "already drawn" flags | `toDOT`, three `toGraphML` | scrub, `unrollGraph` | the drawing is the circuit | prefixes and clusters of shared graphs, numbering, chains of inverters |
| Buses | widths, slices, constants | `addSliceBus`, `setValue` | both bus exports | the export by single bits means the export by vectors | operands of different width, slices past the end |
| Testbench generator | vectors with expectations, `d_hasSequential`, names read when it was made | generate and add vectors, internal simulation, Icarus, comparison, golden bench | simulation, Verilog export, external programs, a running simulator | simulation and bench agree; one vector is one clock | a circuit edited in between, tools that fail, races at clock edges, reset polarity, port order |
| Utilities, logging | none | string tables, string helpers | everybody | | |

## 2. The modules

```
AdjacencyVector            swap-with-last removal, used wherever edges are
  CircuitGraph             the editing core and the scrub
    MCCircuitGraph;        CircuitGraph_proofs  theorems
  LevelCache               levels, searches, the choice of waste
    MCLevelCache;          LevelCache_proofs  theorems
  Hierarchy                graphs with instances, and the flat circuit they stand for
    Connectivity           isConnected
    StructuralHash         calculateHash, operator==
    Unroll                 unrollGraph
      GraphExport          the three GraphML formats
    VerilogExport          toVerilog;  on VerilogSource, the regular expressions
      BusExport            buses and their two exports
      Census               counting and listing queries
    DotExport              toDOT (on GraphExport and VerilogExport)
      Structure            all of these over one circuit that is edited
        MCStructure
WasteRemoval               what removeWasteVertices promises (abstract)
  WasteScan                the scan that does it (detailed)
    MCWasteScan;           WasteScan_proofs  theorems
Arena                      what the allocator promises (abstract)
  Allocator                blocks, offsets, growth (detailed)
    MCAllocator;           Allocator_proofs  theorems
GateTables                 the four-valued truth tables
  Simulation               four-valued simulation of fixed circuits
    MCSimulation;          Simulation_proofs  theorems
  GraphReader              readVerilog: callbacks, names, several files in a Context
    MCGraphReader;         GraphReader_proofs, then GraphReader_meaning  theorems
  Testbench                the generator, its two runs and their comparison
    GoldenBench            generate: a graph against a golden model
      SequentialBench      the bench of a circuit with cells, running
        MCBench
SequenceLemmas             facts about sequences and least numbers, for the proofs
```

**CircuitGraph.** A vertex is a number, handed out in order and never reused, as the
arena does (`Allocator` justifies it). `ins`, `outs`, `bucket`, `buffers` and the three
counters are the fields of the same meaning. A client's calls are one action each, and
every one finds the graph idle: `AddTerminal`, `AddGate`, `AddSequential`, `AddSubGraph`,
`AddEdge`, `AddEdgeThrows`, `RemoveEdge`, `SetGateIfDefault`. `AddEdgeThrows` is `addEdge`
when `GraphVertexGates::addVertexToInConnections` throws for a driven GateBuf or GateNot:
`d_outConnections` of the driver has been appended to by then (OG:746-747).
`removeEmptyLogicVertices` is a loop of steps (`ScrubBegin`, `ScrubKeep`,
`ScrubRemove`, `ScrubSwitch`, `ScrubRepeat`, `ScrubEnd`), one per vertex looked at,
so that properties hold in the middle of it too. Where the code would read a destroyed
vertex (`SeenGates`), either outcome of the read is taken.

**LevelCache.** Vertices exist from the start, a behaviour picks one of `Nets`, and edges
among its `wires` come and go. The two recursions are walks with a stack of frames (a vertex
and the connection it looks at next), one step per vertex entered, connection looked at or
frame left, so that what is half done can be spoken of: `UpdateLevelsBegin`, `UpdateOutput`,
`UpdateDriver`, `UpdateReturn`, `UpdateLevelsEnd` are `updateLevels` with the `updateLevel` of
each kind of vertex (`UpdateLevel`); `GetVerticesByLevel`, `SearchStart`, `SearchNext`,
`SearchReturn`, `SearchEnd` the search by level, which begins with an update. `removeWasteVertices` is
the scrub, by its result (`RemoveEmptyLogicVertices`), an update, and the deletion by level
(`RemoveWasteVertices`). A nested graph is represented by the levels of its outputs. `trust`
records whether the cache may be trusted by its documentation. `LevelCacheAssumption` is what
`addSubGraph` and the asserts of `addVertexToInConnections` keep (buffers belong to one
instance, nothing drives an input or a constant), and the choice that no wire leaves an output.

**WasteRemoval, WasteScan.** The first module is the documentation's promise as a
specification of its own: while there is an inner vertex of level 0, one goes, with its
edges and buffers, and then inputs and constants without readers, in any order, until
none is left. The second is the scan over each bucket as the code does it. `Promise`
states that `ScanSpec` implements `WasteRemoval!Spec` (the variables `standing`,
`edges`, `zero` are shared, so the refinement mapping is the identity), liveness
included.

**Arena, Allocator.** `Arena` keeps a set of regions and what the last request was answered:
it gives a region that is aligned, inside a block and apart from all others, or refuses when no
fresh block could hold the object or nothing has been given yet. `Allocator` is `align`, `allocate`
and `create` on blocks and an offset, and `internalize`, which keeps names in a set beside them.
The refinement maps the pointers handed out to the bytes they own, and what `create` or
`allocate` returned, a pointer or null, to the answer
(`A == INSTANCE Arena WITH regions <- {Bytes(p) : p \in handed}, answer <- returned`), so that
a refusal is a step of `Arena` with a guard to meet and no stutter.

**Hierarchy** is the state all structural queries share: a design is a set of vertices,
each at home in a graph; an instance refers to a graph, which other instances may share;
its ports are positions in `d_inConnections` and its buffers. Edges come and go between
calls; an `addEdge` the driven BUF or NOT refuses throws and leaves its half in
`d_outConnections` (`AddEdgeThrows`, `refused`), which hashes, searches, copies and GraphML
drawings read on (`Consumers`). `FlatVertices` and `FlatEdges` are the reference: the flat circuit the hierarchy
stands for, in which a vertex occurs once per path of instances that leads to it.

- **Connectivity** is `isConnected`: the count of each graph, `Dfs` with its ways through
  instances of disconnected graphs, the caches `d_connected` of all graphs, and the null
  start vertex (`StartsNowhere`). The reference is the component of a union of port links.
- **StructuralHash** takes `hashCombine` to be injective, so a hash is the term it is mixed
  from; it models the sentinel for vertices in progress, the caches, `clearHashStates` and
  `operator==`. The references are graph isomorphism and equality of output functions.
- **Unroll** is the walk of `unrollGraph`, `vPairs` and the last loop over edges; a new vertex
  is a path of instances and its original, so that copies can be held against `FlatEdges`.
- **VerilogExport** is `toVerilog` of a graph or an instance as one action: the scrub of the
  graph and all below it, what is opened, counted and written, the parameters read on the
  way, what throws half way. A text is what a compiler finds in it: declared nets,
  assignments, cells, instances; `TextEdges` reads the files back. **VerilogSource** is the
  pair of parsers by regular expression, on tokens.
- **BusExport** is the width arithmetic of buses, `toVerilogBusEnabledAsOneBit` bit by bit,
  and the meaning of the vector export in Verilog. **GraphExport** and **DotExport** are the
  nodes and edges of the drawings. **Census** are the counts and lists.
- **Structure** composes them: `Wire`, `AskConnected`, `AskHash`, `Export`, `Describe`
  (`setVerilogPath`) and `ExportInstance` on one design. Queries that keep nothing
  (`unrollGraph`, drawings, bus exports, counts) are operators that the invariants evaluate in
  every state. A design names the queries it is meant for; the others would only multiply
  states, as they share nothing but the edges.

**Simulation.** A behaviour picks one circuit and then makes calls on it:
`GraphSimulation(vector)` and `SimulationRemove`. `UpdateOnce` is `updateValue` of every
scalar vertex kind, from memory to memory, given the calls of `updateValue` inside it, so the
order of evaluation, the guard against cycles, `invalidateValue`, the two phases of the
flip-flops, nested graphs and their shared vertices are all as in the code. `Update` ties the
knot: a recursive function over how deep calls are nested, `Depth` levels of it. `RemoveOnce` and
`Removal` do the same for `removeValue`, whose recursion may have no end; then the last level is
reached and `endless` set. `Cone` and `Exported` are references the simulation is compared
with: what the gates give when worked out anew, and what the exported `always` block makes of the
registers. `Built` is what a client can build, instances and loops included.

**GraphReader.** A behaviour reads a sequence of files with one `Context`. Each callback
of the parser is an action (`OnModuleHeader`, `OnInputs`, `OnOutputs`, `OnWires`,
`OnParameter`, `OnAssign`, `OnElem`, `OnMaj3`, `OnEndmodule`), `ReadVerilogFails` the
exception that leaves the Context as it is. `ctx` holds `d_currentGraphNamesList` and
the vertices of `d_currentGraph`; `Inversion`, `OutputGate` and `MajorityAsLogic` create
the vertices the code creates on demand. A vertex is a graph and a place in it, so a
name that points into a graph already freed can be told. The parser is lorina, which is
not in the tree: `Ready` leaves the order of assignments open, but a net that has no
vertex yet, or will get another one (a constant), is assigned before it is used.
`WellFormed` says what any file has by the signatures of the callbacks (the number of
operands of each); `Legal` and `Unreserved` what a file must keep to be promised anything:
nets are of one kind, declared once and driven once, an operator or a net is assigned to what
is declared, and no net ends like the names the reader makes up. `Loopless` files, where no
net is assigned what depends on it, have one meaning; a file with a combinational loop is read
like any other, but nothing is said of what it computes. `SuffixAssumption` is what
the proofs need to know of strings, that names with different suffixes differ and the suffix
can be cut off again. `Simulated` evaluates the graph, `Meaning` the file, both in rounds.

**Testbench, GoldenBench, SequentialBench.** One client, one generator, one circuit that
the client goes on editing. `Testbench` has every call that collects vectors,
`RunInternalSimulation`, `RunIcarusVerification`, `CompareSimulations`, and two versions of
every gate: `Value`, as the library simulates it, and `NetOf`, as Verilog reads the exported
text. The external programs work, are missing, do not compile or break off (`Tools`).
`GoldenBench` is `parseGoldenModel` and the loop over all input words. In `SequentialBench`
the bench of a circuit with cells runs: the stimulus block is a script of assignments,
waits and checks, clocks toggle by themselves, cells wake up in any order, non-blocking
assignments take effect once an instant is quiet.

## 3. What TLC checks

| run | instance | distinct states | properties | shows |
|---|---|---|---|---|
| graph_wires | 3 vertices, 3 edges; inputs, BUF gates, cells, forward wires | 376 thousand | TypeOK, EdgesCountExact, GatesCountExact, EdgesGatesCountCovers, ScrubKeepsSupported, ScrubLeavesNoEmpty, ScrubTerminates | counters never fall behind the graph, though wires get their gate late and edges are refused; the scrub removes all that hangs in the air and nothing else, and ends |
| graph_hierarchy | 4 vertices, 3 edges; AND, BUF, instances with a buffer | 592 thousand | InsMatchOuts, DriversLive, EdgesGatesCountExact | both ends agree and drivers live, whatever is edited and scrubbed; without forward wires gate edges are counted exactly |
| waste_scan | 8 vertices, every combination of nine edges that leaves no gate undriven, and of five levels | 18 thousand | NeverReadsDestroyed, BucketsExact, Promise | the in-place scan implements the documented promise |
| levels | a flat netlist of 5 vertices with a cycle through a cell, one of 6 with an instance and its buffer, built before levels are cached | 752 thousand | LevelsExact, ByLevelComplete, WasteExactFlat | levels, searches and the choice of waste are exact where the graph is flat |
| sim_cells | two flip-flops and two gates in every wiring, cells with all controls, latches, a sequential nested graph, two instances of one | 6.8 thousand | OutputsSettledApart, LatchesSettled, RemovalReturnsUnlessRinged, RegistersMatchExport, RemovalForgets | simulation and exported Verilog agree on registers, outputs fit registers and inputs, a removal leaves nothing behind |
| reader | 1122 modules of two assignments in either order, larger ones with outputs as operands, majorities, literals of every base assigned or declared, files after others and after failures | 143 thousand | OutputsAsWritten, LegalFilesAreRead | the graph computes what the file says, and legal files are read |
| arena | three vertex classes and two byte arrays through a buffer of 168 bytes and chunks of 176 | 91 thousand | ArenaPromise | the allocator implements `Arena`, in what it gives and in what it refuses |
| structure | 19 designs: shared, nested and disconnected instances, refused edges, cells, chains of inverters, buses, 192 renderings of Verilog headers; three edits, three exports | 35 thousand | VerdictIsLinkage, HashIsCurrent, EqualityIsStructure, UnrollIsFaithful, TextIsCircuit, TextIsLegal, InterfacesAsDeclared, CensusComplete, DrawingIsCircuit, OneBitRefines | verdicts, hashes, copies, files, drawings and counts are about the circuit as it is |
| bench | a netlist of gates with twelve golden models, one with gates beside the output that the scrub takes, and ten circuits with cells on one or two clocks, both edges, latches; three vectors, four calls | 457 thousand | CompareAgrees, GoldenDecides, OneClockPerVector, ResetReaches, ExpectationsKept, BenchEnds | simulation, bench and golden model agree; a vector is one clock in whatever order processes run; the bench ends |

Three runs show that something the repository says is not what the code does; each
checks one property and TLC finds it violated:

| run | property | what happens |
|---|---|---|
| waste_many | NeverReadsDestroyed | with 256 waste vertices in one bucket `counterForResize` (`uint8_t`) is 0 again and the scan walks into what it destroyed |
| sim_buffer | OutputsSettled | buffers of instances are in no bucket, so they are not invalidated: a gate behind one uses the value of an earlier vector |
| compare_sequential | SuccessMeansRun | comparing a circuit with cells succeeds exactly when nothing ran, because Icarus is missing, the bench does not compile or there are no vectors: both results are empty, and empty equals empty |

Every property of a passing run has a mutant in its module (marked so in a comment):
a variant of one definition, as a plausible bug would have it, under which the same run
fails.

### The properties that take several components to break

- *UnrollIsFaithful, TextIsCircuit, DrawingIsCircuit, VerdictIsLinkage* hold the copies,
  the files, the drawings and the verdict against one reference, the flat circuit of
  `Hierarchy`. `TextIsCircuit` is about files written in any order and any number of times
  with edits and scrubs between, as long as none is stale.
- *EqualityIsStructure* has both directions: isomorphic circuits built in different orders
  are equal, and equal circuits compute the same; the second is what shows that leaving the
  order of drivers out of the hash is harmless for gates.
- *RegistersMatchExport* compares two programs of the repository: the two-phase simulation
  and the templates of the `always` blocks. *CompareAgrees* does so for the whole way through
  generator, export and external run, on the circuit as it was when the call began though the
  export scrubs it half way; *OneBitRefines* does for the two exports of buses.
- *OneClockPerVector* quantifies over every scheduling the Verilog standard leaves open.

### Bounds, and why they are enough

- *CircuitGraph*: `MaxVertices`, `MaxEdges`, `MaxDrivers` bound creation and the adjacency
  entries alive at a time, `MaxBuffers` the outputs of an instance. Three or four vertices
  make every pattern the code tells apart: a vertex with two consumers, one with two
  drivers, a chain, a cycle, a half edge beside an edge, a cascade of two removals that runs
  against the order of a bucket, an instance with a buffer. Edges may be removed and added
  for ever. The theorems hold for all bounds.
- *WasteScan*: buckets of up to three vertices put waste at the front, in the middle and
  at the end of a bucket; every set of the nine wires and every set of level-0 vertices is a
  start. `CounterValues` is 256, as in the code, in both runs.
- *LevelCache*: `MaxLevel` stops an update that goes beyond it, which only cycles that are reset
  and visited again reach. The output and the buffer take one driver. `EditCached = FALSE`
  builds the graph before the first level is cached, the only use the documentation allows.
- *Allocator*: `BufSize` and `ChunkSize` are small, with the sizes of the classes as they are
  in a 64-bit build: an object fits the rest of a block, needs a chunk, fits neither, or is
  bigger than any. Three blocks (`MaxBlocks`) are a first, a current and an old one. One name
  (`Names`) is enough, for names take no bytes of the blocks. The theorems hold for all sizes.
- *Structure*: `MaxEdits` and `MaxExports` allow an edit before, between and after the
  queries, and two graphs to be exported with one of them twice. Designs have instances that
  share a graph, sit in one another two deep (the bound in `Paths`), are wired to one another,
  are passed through straight, and whose graph falls apart. Buses are up to four bits wide.
- *Simulation*: two flip-flops suffice for chains, swaps and feedback through gates in
  either registry order; vectors are arbitrary sequences over the `signals` of the circuit,
  x included where all controls of one cell are exercised. `Vectors` have the length of the
  inputs: others throw before anything changes. Nested circuits are one level deep. `Depth` is
  a number no nesting of calls that ends can reach; that it is enough is proved, for removals in
  `RemovalReturnsCorrect` and for evaluation in the theorems about synchronous circuits and latches.
- *GraphReader*: `Pairs` has every file of one wire and one output over two inputs, three
  operators (or assignment) each and all pairs of literals; order and sharing of inverters,
  aliases and output gates need no more. The larger files are those of
  `test/testModulesForReading` and one with majorities. Two files per Context suffice, for
  on_endmodule and on_module_header leave nothing else behind.
- *Testbench*: `MaxVectors = 3` gives a first vector, one after it and one more, which is
  what registers in two stages tell apart; `MaxCalls = 4` is collect, edit, run, compare. Clock
  periods from 2 to 6 and resets from 1 to 5 units include resets shorter and longer than a
  period and half periods of one unit.
- Symmetry is not used; vertices are ordered by address.

### Fairness

`ScrubTerminates` assumes weak fairness of `ScrubStep`, and `Promise` that of `ScanNext`:
both are loops inside one synchronous call on one thread, so a started loop makes its next
step. `BenchEnds` assumes weak fairness of `Simulate`: vvp goes on as long as it has
something to simulate, and the caller waits for it in `pclose`. That vvp breaks off
(`BreakOff`) is possible and not assumed. Nothing is assumed about the client.

Deadlock is not checked: a client may stop at any time, bounded graphs fill up, and a scan
that has returned does nothing more.

## 4. What TLAPS proves

Seven modules of theorems about components; `SequenceLemmas` holds the facts about sequences and least and greatest
numbers that they share. What is listed below is what a reader should know of; every other lemma is
a step towards it.

`CircuitGraph_proofs`, for every `MaxVertices`, `MaxEdges`, `MaxDrivers`, `MaxBuffers`,
set of gate types, with and without asserts, from `CircuitGraphAssumption` alone:

- `TypeCorrect`: `Spec => []TypeOK`;
- `EdgesPaired`: `Spec => []InsMatchOuts`, every in-connection has its out-connection and no
  vector repeats a vertex;
- `NoDanglingDriver`: `Spec => []DriversLive`, no vertex reads a destroyed driver, in the
  middle of a scrub either;
- `EdgesCounted`: `Spec => []EdgesCountExact`;
- `Invariant`: the inductive invariant `IInv` behind them.

`DriversLive` alone is not inductive: the scrub unlinks a vertex through its *out*-list, so
one must know that each reader is in that list (`InsMatchOuts`), that the lists mention no
vertex not yet created, or a new vertex would inherit edges (`OutsCreated`), and that what
the scrub is about to look at was created (`Registered`). `IInv` is the conjunction. The
proof has one lemma per action; `SwapRemoveFacts` carries the adjacency through
swap-with-last removals. `EdgesCountExact` is inductive relative to `IInv`: each action adds
or removes a set of pairs to `Edges` whose size is what it adds to the counter
(`Cardinality` lemmas of the library).

Its second part, on top of that and from the same assumption, is about the buckets and the scrub
that walks them:

- `Registry`: `Spec => []RInv`. `RInv` adds to `IInv` that the gate and the sequential bucket
  list exactly the live vertices of their type, each once, with what the scrub has taken
  out and not put back counted in (`Filed`), that buffers are live gates, and, with
  asserts, that no vertex drives itself;
- `ScrubInvariant`: `Spec => [](RInv /\ Swept)`, in a round that has removed nothing so far all
  that was kept has a driver;
- `ScrubLeavesDriven`: `Spec => ScrubLeavesNoEmpty`. `Swept` alone says something about
  buckets; `Filed` is what carries it to all vertices;
- `ScrubSparesSupported`: `Spec => ScrubKeepsSupported`. No history variable is needed:
  `Supported` is the union of the sets that support themselves, a vertex without drivers is in
  none of them, and whatever supports itself does so before and after that vertex goes;
- `ScrubReaches`: when the call returns `Live = Supported`. The export modules and `Testbench`
  take the scrub for one step with that result;
- `ScrubDescends`: each step of the scrub lowers a triple of natural numbers (vertices that
  live and whether the round removed any, bucket, rest of the bucket). That is the argument
  behind `ScrubTerminates`, whose temporal part stays with TLC.

Its third part is about `d_gatesCount` and `d_edgesGatesCount`:

- `GatesCounted`: `Asserts /\ Spec => []GatesCountExact`;
- `GateEdgesCovered`: `Asserts /\ Spec => []EdgesGatesCountCovers`. The invariant speaks of
  `Excess`, the counter minus the edges it counts, for each pair of types: every action moves
  both by the same amount, except conversions of a GateDefault, which leave the entries of
  the old type behind;
- `GateEdgesExact`: `Asserts /\ ~ForwardWires /\ Spec => []EdgesGatesCountExact`, for without a
  GateDefault nothing is ever converted and the excess stays 0;
- `GateKept`: `Asserts /\ Spec => GateSetOnce`, the type of a gate never changes once it has one.

`Asserts` and `~ForwardWires` are needed: section 5 names the runs that fail without them. TLC
checks the three counters under the same two settings.

`WasteScan_proofs`, for every graph, every levels and every `CounterValues`, from
`WasteRemovalAssumption`, `WasteScanAssumption` and the hypothesis
`SmallBuckets == \A t \in Scanned : Len(Bucket[t]) < CounterValues`, which `waste_many`
shows to be needed:

- `ScanInvariant`: the inductive invariant `ScanIInv`: exactly the `counter` last vertices
  of the current bucket are destroyed, all other buckets stand, nothing standing is lost;
- `ScanSafe`: `[]NeverReadsDestroyed`; `ScanBuckets`: `[]BucketsExact`;
- `ScanKeepsPromise`: every step of the scan is a step of `WasteRemoval` or leaves its
  variables alone (the safety half of `Promise`). It needs `KeptInv` besides: what lies
  before the iterator, and in the inner buckets already scanned, is not waste; otherwise an
  input might be removed while an inner vertex of level 0 still stands.

`Allocator_proofs`, for every size, alignment, buffer and chunk:

- `AllocatorTypes`: blocks, offset and pointers keep their types;
- `NoOverlap`: no two vertices share a byte. Its invariant says that everything handed out of
  the current block ends before the offset, and that every pointer is into a block there is;
  what an old block holds then never meets what is given next;
- `AllocatorImplementsArena`: `Spec => ArenaPromise`, the whole refinement. A refusal changes the
  answer and nothing else, so it has to be a `Refuse` of `Arena`; an allocator that always returned
  null would not do. A request refused at offset 0 is one of an arena that has given nothing, for
  otherwise the offset of a first block has moved and that of a chunk holds an object.

`GraphReader_proofs`, for all files, any number of them read with one Context, any size and any
number of assignments, from `GraphReaderAssumption` and `SuffixAssumption`:

- `LegalRead`: `Spec => []LegalFilesAreRead`, no callback throws or uses a freed vertex on a
  legal file, in whatever order assignments are reported;
- `ReaderInvariant`: `Spec => []ReaderInv`. Between two callbacks of a legal file the context
  is `Open`: every name stands for a vertex of the graph at hand; the nets declared or
  assigned so far are known; an output is an output vertex; a wire that still waits for its
  assignment is an untyped gate without drivers *that no other name stands for*; and a net
  nobody declared, like the gate of an output that is not assigned yet, has no name.

The part about other names is what the proof hangs on. An inversion may be an alias of a
wire, an output gate may be asked for as an operand, and a majority hands its wire to
`setGateIfDefault` unchecked: `addEdge` throws if that wire is a buffer with a driver,
`setGateIfDefault` if it has a type, and both are excluded only because no callback for one
net can have reached the vertex of another that waits. The proof has a lemma per operation on
a context (`NewFacts`, `BindFacts`, `AddEdgeFacts`, `RightHSFacts`, ...), each of which keeps `Open`, and
one per callback. `Ready` enters in `Timely`: an operand is known when it is looked up. The
strings of names are opaque to the provers; `Unreserved` and `SuffixAssumption` are all that is used.

The last part of `GraphReader_proofs` and `GraphReader_meaning`, from the same assumptions, say that
the graph means what the file says:

- `ReadAsWritten`: `Spec => []OutputsAsWritten`, the outputs of a graph that was read have, for
  every vector, the values the assignments give them: for all legal files without loops and
  any order of assignments, `d_numberOfVertices` uninitialised or not, and *whatever files were
  read or failed before*;
- `MeaningInvariant`: `Spec => []MeaningInv`, which says three things. Names never point into
  a graph `d_graphs` keeps (`Apart`, proved of every callback on any file, legal or not); without
  it a name left from a failed file could connect the next one to a graph that lives on. In the
  middle of a legal file the graph is `Listed` while lists are reported, and then `Reads` the file.
  Every finished graph is `Faithful`.

`Reads(c, f, P, X)` is the strengthening: the assignments `P` are to come and the vertices `X` have
no drivers yet. It speaks of *any* values that satisfy the equations of the vertices outside `X`
(`Fits`), whatever those in `X` have, so nothing in it is recursive: for every assignment
reported, *if* its operands have bits, the vertex of its net has the bit the assignment says
(`Computes`; an `AND` or `OR` that lost a repeated operand included), inverters have the inverse
(`Inverters`), and what such a vertex depends on leads to the operands (`Depends`). The vertex
of a net that waits is in `X`, and no output gate or inverter of it exists that could be found
instead. There is a lemma for each callback (`StatementReads` puts them together), the longest
those of `MajorityAsLogic` with its five gates.

Only for a finished graph are the recursive functions `Simulated` and `Meaning` looked at, and what
they compute for every input is not induction the provers cannot do but a least counterexample
(`RoundsSettle`): where nothing depends on itself, each round settles one value more for good, or
all have settled; so as many rounds as there are members suffice.
`Depends` and `Loopless` make the graph free of loops (`NoLoops`), so `Simulated` solves the equations
of the graph, `Meaning` those of the file, and along `Loopless` the two agree on every net. A gate that
lost an operand other than of an `AND` or `OR` is what the property excepts.

`LevelCache_proofs`, for every netlist without instances, cycles included, and any sequence of
edits, updates, searches and deletions, from `LevelCacheAssumption`:

- `SpecLevelsExact`: `Spec => []LevelsExact`;
- `SpecByLevelComplete`: `Spec => []ByLevelComplete`;
- `SpecWasteExactFlat`: `Spec => WasteExactFlat`, for which no acyclicity is needed;
- `LevelInvariant`: `Spec => []LevelInv`, the inductive invariant behind them, which speaks of
  every step of both walks.

`Depth` is recursive, and no induction over it is needed: `Measured` and `Answered` speak of
*any* function `d` that could be the distance from the inputs (`Distance(d)`), the walk never
asks which, and on a graph with cycles there is none. While a level is computed it is never above
`d`, and it is above the drivers its frame has passed; so it is `d` when the frame is left. Going
down the stack `d` decreases strictly, so a driver found flagged is no vertex in progress but one
that has returned: this is where a cycle would break exactness, and why `LevelsExact` supposes
none. `Behind` says of a search that whatever was met has had its neighbours met, except those
its frame has yet to look at and those behind a vertex of the level wanted; when the stack is
empty, the vertices of that level were all met, from either side. For the waste `calc` is what
counts: when an update is through it is the fan-in (`UpdatedFacts`), and every vertex of the
fan-in with a driver has a level above 0. `DepthFacts` shows that `Depth` is such a `d` where
`Acyclic` holds, by a largest set of vertices on which the equation has a solution; the other
inductions are least counterexamples.

`Simulation_proofs`, for every circuit that can be built (`CircuitsAssumption`), with no bound on
vertices, nesting, loops or the vectors and removals of a behaviour:

- `MemoryTyped`: `Spec => []Remembers`, the memory keeps its type through all calls;
- `RemovalReturnsCorrect`: `Spec => []RemovalReturnsUnlessRinged`. A gate goes on only to drivers
  that still have a value, and loses its own first; so along a path of calls the vertices with a
  value get fewer, or the path leads through cells and outputs only, where without a ring it
  cannot be longer than there are vertices (`Enough`).

For circuits that are `Synchronous`, as a client builds them who clocks a flat graph from
outside: `Flat` (no instances, no loops through gates, outputs that drive nothing) and
`ClockedOutside` (all cells flip-flops whose clock and asynchronous clear come straight from inputs
or constants):

- `OutputsSettledApartCorrect`: `Spec /\ Synchronous(circuit) => []OutputsSettledApart`;
- `RegistersMatchExportCorrect`: `Spec /\ Synchronous(circuit) => RegistersMatchExport`;
- `RemovalForgetsCorrect`: `... /\ circuit.input["top"] # <<>> => RemovalForgets` (without inputs the
  empty vector of a simulation cannot be told from a removal in `applied`).

And for `Flat` circuits with any flip-flops, whose latches are `LatchesForward` (each reads, directly
or through gates, inputs, constants and latches added before it):

- `LatchesSettledCorrect`: `Spec /\ Flat(circuit) /\ LatchesForward(circuit) => []LatchesSettled`.

147 of the 153 circuits of `sim_cells` are `Synchronous`; the chain of latches is `LatchesForward`.
Both hypotheses are needed: section 5 shows circuits with derived clocks, and with latches, on which
`OutputsSettledApart` fails, and latches added against the flow of data that do not settle.

The inductive invariant is `Rests`: nothing is staged, no call under way, constants have
their value (`Idling`), and either all cells have a value (`Steady`) or all are as a removal
leaves them, without value and clock sample (`Forgetful`). That the two never mix is what the
proof hangs on, for the code tells them apart by a value alone: a cell without one, met while
another is sampled, *wakes* (its `updateValue` stages and commits at once), yet must
afterwards sample the same as if it had not. `Waking` describes every memory on the way (each cell
asleep, or awake with the value `Woken` says, which depends on its clear pin only, since from the
unknown clock sample no edge is seen); `Cleaning` that whoever evaluates a gate gives it the value of
its `Cone` over the registers *before* the edge, whichever cell or gate asks first, and touches
nothing outside. `Sampling` is the loop over the flip-flops, each with what `Outcome` makes of its
pins whatever the order; `CommittedAll` is what moving them together gives. After the commit the gates that
feed cells (`Feeding`) are stale and must not be read: those that neither feed a cell nor
depend on one that does (`Aside`) are untouched so far, and `Calm` says that computing one
output after another gives them their `Cone` over the registers *after* the edge, and no output
disturbs an answer given before. `ConeLeaves` (a cone depends on inputs, constants and cells
only) is what `RemovalForgets` needs.

For latches the invariant is `Quiet`: no call is under way, and evaluated again every latch keeps its
value (`Latched`). While they are updated one by one (`Even`), the only gates with a value are those
that read settled latches (`Reading`); the next latch finds what it reads there or has it
computed (`EvenStep`). Afterwards anything may be evaluated, flip-flops that wake in the middle of a
gate and latches that an output or another cell asks for again: `UpdateSettles` shows that from a memory
that agrees with the settled values (`Fit`) every call leads to one that does (`Firmly`), for a latch
is idempotent in its pins (`LatchNextFacts`) and what it reads no flip-flop reaches. For this the
calls within calls must not run out: `Room` counts the vertices not yet being evaluated twice,
as each gate on the path may have called a flip-flop without a value.

The recursions are over numbers, so no theorem with an operator for parameter is needed:
`RoundsPlayed` builds their values up to any number, `Rounds` gives each from the one before, and
`Induction` is about the set of numbers for which something holds, by a least counterexample.
What holds where nothing loops is by the numbers that `Layers` gives the gates.

Only model-checked:

- liveness (`ScrubTerminates`, `BenchEnds`, the liveness half of `Promise`), which is out of the
  provers' reach, as is ENABLED;
- levels and waste of graphs with instances (`levels` has one): exactness is not claimed of
  them, as section 5 shows;
- simulation of graphs with instances, `RemovalForgets` and `OutputsSettledApart` with latches or an
  instance. Of latches that read a flip-flop or a later latch `LatchesSettled` is not true: they hold
  its value of before the edge, or of before its own update;
- what a RECURSIVE operator computes: values in the bench modules, and the walks, terms and
  texts of `Structure`. After such an operator the provers have no arithmetic, and facts
  about it need induction over data. `OutputsAsWritten` and the properties of `Simulation`
  could be proved because those modules use recursive functions over numbers instead;
- the properties whose truth depends on what instances a run has (`ResetReaches`,
  `OneClockPerVector`: no theorem for all periods, circuits and resets is true, as section 5
  shows).

## 5. Disagreements without a run of their own

A few lines of configuration or a property of the module away (the circuits are in the MC
modules):

- `graph_hierarchy` with `ConsumersLive`: `addEdge` that throws on a driven buffer leaves an
  out-connection behind; once the scrub destroys the buffer, its old source lists a
  destroyed vertex.
- `Asserts = FALSE` (a build with NDEBUG): `GateSetOnce` and `GatesCountExact` fail, for
  `setGateIfDefault` then overwrites any gate (`GraphVertexGates.cpp:38-42`).
- `ForwardWires = TRUE`: `EdgesGatesCountExact` fails, the entries of GateDefault are never
  reduced (OG:564-575); `EdgesGatesCountCovers` is what holds.
- `levels` with `WasteExact`: gates that feed only an instance keep level 0 and are deleted
  with a way to an output; with `ByLevelRepeatable`: a second search stops at the buffers,
  whose flags no clear reaches (OG:185-187); with `EditCached = TRUE` a gate connected after
  levels were cached is waste, and `LevelsExactAfterReset` fails: the reset of flags that
  `GraphVertexBase.hpp:606-608` asks for lowers no level (`d_level` is only ever raised).
- `MajorityRuns`: a majority assigned to an output is cast to a gate, writes behind the
  object, and the output gets two drivers (`OneSource`). Other files: `q = a ^ a` and
  `w = ~a, q = w ^ ~a` lose an operand; a net called `a_not` is taken for `~a`; after a file
  that failed, names of the freed graph are looked up (`ContextReusable`); with
  `Hints = {"garbage"}` alone any file may fail, for `d_numberOfVertices` has no initialiser and
  `Context context;` (`VerilogImport.md:11`) gives it none; literals wider than 64 bits and
  digits `x` and `_` are not the constants they write.
- `AfterEdge`: `OutputsSettled` fails, a gate evaluated while a flip-flop samples keeps its
  value of before the edge; `Rings`: `RemovalReturns` fails, `removeValue` of two cells that
  feed one another recurses for ever; `InstanceChain`: `RemovalForgets` fails, an instance
  that only feeds another one is not reset; `LatchesBackwards`: `LatchesSettled` fails, latches
  are updated once, in the order they were added.
- `OutputsSettledApart` on circuits that are not `Synchronous`: an output wired straight to a cell
  calls its `updateValue` once more (`GraphVertexOutput.cpp:35`), after the commit. A flip-flop clocked
  by another one, read by one output directly and by another through a buffer, answers 0 and 1 in
  one vector; a latch whose data is a flip-flop, read directly, takes the value of after the edge
  while the gates behind it keep x. In a synchronous circuit the second call sees no edge.
- `structure` with `RecalculatedIsExact`: `isConnected(true)` reaches no nested graph (OH:1517);
  with `ClearedHashIsCurrent`: `clearHashStates` resets neither nested graphs nor the buffers of
  instances (OH:252-253); with `ReturnsWhetherWritten`: `toVerilog` returns true when it wrote
  nothing (OH:1163).
- `bench` with `FirstVectorIsOneClock`: the first vector is sampled once or twice, as the reset
  ends before or after an edge (`TestbenchGenerator.hpp:178`).

Preconditions in the properties name others, which a client may want to know of:

- *A refused edge* (`refused = {}`): after an `addEdge` that threw, `isConnected` calls a circuit
  connected by the edge that is not there, `unrollGraph` copies it and throws for the same reason,
  the GraphML exports draw it (OG:1606, 1769, 1840), and `operator==` tells the graph from its
  equal to which the edge was never added.
- *isConnected* starts at a null pointer when the first vertex sits in a bucket behind the
  instances (OG:2028-2041, verdict "crash"); the way back from a buffer misses inputs an inner
  instance is wired to, and joins through constants inside a disconnected instance.
- *Hash*: the comment at OG:970-971 promises a fixpoint of two passes, but the second finds every
  vertex calculated and changes nothing; rings hash by the order of their buckets
  (`GraphUtils.hpp:48`); the order of the pins of a cell does not enter.
- *unrollGraph* is exact for graphs instantiated once, one level deep, without cells, with
  gates between instances (`UnrollIsExact`). Otherwise it loses edges or cells, or throws from
  `vPairs.at`; it invents nothing (`docs/en/Subgraphs.md:40` promises more).
- *Verilog export*: an undriven port of an instance is an out-of-range read; a graph and the
  graph nested in it both written by instance define a cell module twice; outputs with two
  drivers read the first, which the simulation takes for a conflict (against the comment at
  VB:360); a missing file of an instance throws in the middle of the parent's file; parameters
  in a nested file are those of the instance read last; ANSI ports of a module with parameters
  never match; symbolic ranges add their names to the ports.
- *Bus export*: with the one-bit form a concatenation keeps its last operand only, narrower
  operands are 1'bx instead of zero; scalars that read buses, and slices of scalars, read nets
  that are not declared; scalar cells are `always` blocks on wires; of a cell wider than its data the
  one-bit form leaves the upper bits undriven where the vector form loads 0 (`CellBits` compares
  the bits the data has); the comment at VQ:602 on
  extending the set of a cell describes neither export.
- *toDOT*: two different graphs nested in one parent get the same cluster name (VS:151-153,
  `OneNested`); a nested graph already drawn reports success for a file it does not write
  (OG:1517).
- *Counts*: `fullSize` counts gates where its documentation says vertices, a graph nested in
  two graphs twice and several instances once; `isEmpty` of a graph of registers is true.
- *Bench*: one reset polarity for RST and CLR cells; a period below 2 makes `always #0`, below 4
  a race when cells use both edges; only the first clock is waited for; a clock through a gate
  becomes a second clock; a name that is both clock and enable is declared twice; `timeout` is
  not used; an expectation with an x is replaced by what the simulation gives; undriven outputs
  are z in Verilog and x in the library; NAND, NOR and XNOR of three nets differ; a gate without
  drivers is x to the internal simulation, and then `toVerilog` scrubs it: of `n` without drivers and
  `m = xor(n, a)` the comparison holds x against a (TB:788, then 650; `Agreeing`). The golden bench
  passes without looking when a graph has 31 inputs or more (TB:1036), compares the outputs of the
  model alone, so that a graph with more of them passes unseen where the bench compiles (TB:993,
  1027), and joins names declared in one list into one; `input wire [W-1:0] x` is a port called
  `wire` to it.
- *Arena*: the comment at `GraphMemory.hpp:47` calls 154 bytes the biggest vertex, which is
  192; the first vertex is refused when it does not fit the buffer, though a chunk would hold it.
- Two instances of a sequential graph share its registers in simulation, while the exported
  Verilog gives each its own.

## 6. What is abstracted, and what is not modelled

Abstracted: names are model values or positions, texts are what a reader of the format finds in
them, hashes are terms (collisions of `hashCombine` are left out), a destroyed vertex keeps its
number. Arity checks of vectors throw before any change and are not actions. Where the code
reads or writes behind an object, either outcome is taken, or the behaviour ends
(`exported.undefined`, verdict "crash"). In `Simulation` the pins of a cell are taken in order;
swap-with-last removal can reorder them, a hazard without a promise to check against.

Not modelled:

- *lorina*, the parser behind the reader: not in the tree. `GraphReader` leaves open what its
  documentation leaves open, the order of callbacks.
- *easylogging++*: vendored, compiled in under LOGFLAG only; no state of the graph depends on it.
- *String tables and helpers* (`GraphUtils`, `DefaultAuxiliaryMethods`), layout, indentation,
  comments, labels and templates in exports: no state and no control.
- *Simulation of buses*: `updateValueBus` and the broadcast of bus cells; the library has no
  simulation of gates on buses or of slices, so nothing composes. `setWidth` after construction.
- *Files of toDOT* (OG:1520-1562) and instances in the bus exports; processes, pipes and the VCD
  dump of the testbench; what lies in `submodules` from earlier exports, all of which a bench
  compiles.
- *SET pins in the bench of cells*: their nets are no data, are set to 0 at the start and then left
  alone (TB:1093, 1344).
- *The golden bench on circuits with cells*, which `generate` takes for logic; octal and decimal
  literals of more than 21 and 19 digits in the reader.
- *Concurrency*: the library has none. *Crash recovery*: nothing is persisted.

## 7. What could come next

1. Proofs: simulation of graphs with instances, whose nested registers `Rests` would have to
   speak of; outputs of circuits with latches; `ExpectationsKept`.
2. What holds of the levels of a graph with instances, as a theorem: `updateLevel` of an
   instance does not recurse, so its fan-in is a second set of roots nobody visits.
3. One design in which `Simulation` and `Unroll` meet: values of the unrolled graph against those
   of the hierarchical one, two instances of a sequential graph included.
