------------------------------ MODULE Testbench ------------------------------
(***************************************************************************)
(* TestbenchGenerator: the vectors it collects for a circuit, the internal *)
(* simulation, the run of the generated bench under Icarus Verilog and the *)
(* comparison of the two, while a client goes on editing the circuit.      *)
(*                                                                         *)
(* A circuit is flat.  Its gates are computed twice: as graphSimulation    *)
(* does and as Verilog does with the text toVerilog writes.  The bench of  *)
(* a circuit with cells runs in SequentialBench.                           *)
(***************************************************************************)
EXTENDS GateTables, AdjacencyVector, SequencesExt, FiniteSetsExt

CONSTANTS
    Circuits,   \* the circuits a behaviour may start from; a circuit has the fields
                \*   inputs, outputs: the ports in order
                \*   kind:    gate -> And, Nand, Or, Nor, Xor, Xnor, Not or Buf
                \*   drivers: gate or output -> its drivers at the start
                \*   wires:   the edges a client adds and removes
                \*   custom:  <<inputs, expected>> a client passes to addTestVector
                \*   cell:    its sequential cells, see SequentialBench
                \*   clocked: what a client passes to addSequentialTestVector
    MaxVectors, \* bound: vectors of a generator
    MaxCalls    \* bound: edits and calls in a behaviour

VARIABLES
    circuit,    \* the circuit of this behaviour
    drivers,    \* d_inConnections of gates and outputs
    gone,       \* gates removed by removeEmptyLogicVertices
    ports,      \* the inputs of the graph; d_inputNames stays circuit.inputs
    vectors,    \* d_testVectors
    cycles,     \* d_seqTestVectors
    outcome,    \* what the last call returned
    calls

bench == <<circuit, drivers, gone, ports, vectors, cycles, outcome, calls>>

Single1 == {"Not", "Buf"}
Undriven == "z"

HasCells == circuit.cell # <<>>     \* d_hasSequential

Live == {g \in DOMAIN circuit.kind : g \notin gone}

-----------------------------------------------------------------------------
(* The two simulations.                                                    *)

\* graphSimulation: undriven and contradicting drivers give x.
RECURSIVE Value(_, _)
Value(v, vector) ==
    IF v \in DOMAIN vector THEN vector[v]
    ELSE IF drivers[v] = <<>> THEN Unknown
    ELSE LET read == [i \in DOMAIN drivers[v] |-> Value(drivers[v][i], vector)]
         IN  IF v \in DOMAIN circuit.kind
             THEN FoldLeft(LAMBDA a, b : Table(circuit.kind[v], a, b),
                           Single(circuit.kind[v], read[1]), Tail(read))
             ELSE IF Cardinality(Range(read)) = 1 THEN read[1] ELSE Unknown

\* Verilog's value of a net of a module with gates kind wired as w; an output
\* reads its first driver, one without any and a port the bench does not know
\* float.
RECURSIVE NetOf(_, _, _, _)
NetOf(kind, w, v, vector) ==
    IF v \in DOMAIN vector THEN vector[v]
    ELSE IF v \notin DOMAIN w \/ w[v] = <<>> THEN Undriven
    ELSE IF v \in DOMAIN kind
    THEN Expression(kind[v], [i \in DOMAIN w[v] |-> NetOf(kind, w, w[v][i], vector)])
    ELSE NetOf(kind, w, w[v][1], vector)

NetValue(w, v, vector) == NetOf(circuit.kind, w, v, vector)

Bound(names, values) == [n \in Range(names) |-> values[SelectInSeq(names, LAMBDA m : m = n)]]

Computed(values) ==
    [i \in DOMAIN circuit.outputs |-> Value(circuit.outputs[i], Bound(ports, values))]

\* removeEmptyLogicVertices, as toVerilog begins.
RECURSIVE ScrubbedWires(_, _)
ScrubbedWires(w, removed) ==
    LET next == {g \in DOMAIN circuit.kind \ removed : w[g] = <<>>}
    IN  IF next = {} THEN [wires |-> w, gone |-> removed]
        ELSE ScrubbedWires([v \in DOMAIN w |-> FoldSet(LAMBDA g, s : SwapRemove(s, g), w[v], next)],
                           removed \cup next)

Scrubbed == ScrubbedWires(drivers, gone)

-----------------------------------------------------------------------------
(* The calls.                                                              *)

Returned(call) ==
    [call |-> call, success |-> FALSE, total |-> 0, passed |-> 0, failed |-> 0,
     thrown |-> FALSE, ran |-> FALSE, internal |-> <<>>, icarus |-> <<>>, golden |-> ""]

Thrown(call) == [Returned(call) EXCEPT !.thrown = TRUE]

BenchInit ==
    /\ circuit \in Circuits
    /\ drivers = circuit.drivers
    /\ gone = {}
    /\ ports = circuit.inputs
    /\ vectors = <<>>
    /\ cycles = <<>>
    /\ outcome = Returned("")
    /\ calls = 0

Called == calls < MaxCalls /\ calls' = calls + 1

\* Only a port list of the old length fits the graph.
Fits == Len(ports) = Len(circuit.inputs)

Vector(values, expected) ==
    [inputs |-> values, expected |-> expected, actual |-> <<>>, passed |-> FALSE]

Combinations == [DOMAIN circuit.inputs -> {"0", "1"}]

\* d_testVectors is cleared before the first simulation can throw.
GenerateExhaustiveVectors ==
    /\ Called
    /\ IF HasCells THEN vectors' = vectors /\ outcome' = Thrown("vectors")
       ELSE IF ~Fits THEN vectors' = <<>> /\ outcome' = Thrown("vectors")
       ELSE /\ vectors' = [i \in 1..Cardinality(Combinations) |->
                             LET values == SetToSeq(Combinations)[i]
                             IN  Vector(values, Computed(values))]
            /\ outcome' = Returned("vectors")
    /\ UNCHANGED <<circuit, drivers, gone, ports, cycles>>

\* generateRandomVectors(1, seed) and addTestVector without expectations; on a
\* circuit with cells, where no call reads d_testVectors, not modelled.
AddComputedVector(values) ==
    /\ Called
    /\ ~HasCells
    /\ Len(vectors) < MaxVectors
    /\ vectors' = IF Fits THEN Append(vectors, Vector(values, Computed(values))) ELSE vectors
    /\ outcome' = IF Fits THEN Returned("vectors") ELSE Thrown("vectors")
    /\ UNCHANGED <<circuit, drivers, gone, ports, cycles>>

AddTestVector(values, expected) ==
    /\ Called
    /\ Len(vectors) < MaxVectors
    /\ vectors' = Append(vectors, Vector(values, expected))
    /\ outcome' = Returned("vectors")
    /\ UNCHANGED <<circuit, drivers, gone, ports, cycles>>

Unchecked(values) == [data |-> values, expected |-> <<>>, check |-> FALSE]

\* generateSequentialTestVectors(1, seed): one vector that checks nothing.
GenerateSequentialTestVectors(values) ==
    /\ Called
    /\ HasCells
    /\ cycles' = <<Unchecked(values)>>
    /\ outcome' = Returned("vectors")
    /\ UNCHANGED <<circuit, drivers, gone, ports, vectors>>

AddSequentialTestVector(cycle) ==
    /\ Called
    /\ Len(cycles) < MaxVectors
    /\ cycles' = Append(cycles, cycle)
    /\ outcome' = Returned("vectors")
    /\ UNCHANGED <<circuit, drivers, gone, ports, vectors>>

ClearTestVectors ==
    /\ Called
    /\ vectors' = <<>>
    /\ outcome' = Returned("vectors")
    /\ UNCHANGED <<circuit, drivers, gone, ports, cycles>>

ClearSequentialTestVectors ==
    /\ Called
    /\ cycles' = <<>>
    /\ outcome' = Returned("vectors")
    /\ UNCHANGED <<circuit, drivers, gone, ports, vectors>>

\* Mutant: every expectation is overwritten.
AlwaysSimulated(tv) ==
    LET actual == Computed(tv.inputs)
    IN  [tv EXCEPT !.actual = actual, !.expected = actual, !.passed = TRUE]

\* An expectation with an unknown in it is replaced by what comes out.
Simulated(tv) ==
    LET actual == Computed(tv.inputs)
        expected == IF Unknown \in Range(tv.expected) THEN actual ELSE tv.expected
    IN  [tv EXCEPT !.actual = actual, !.expected = expected, !.passed = (actual = expected)]

Passed(verdicts) == Len(SelectSeq(verdicts, LAMBDA b : b))

\* runInternalSimulation; it supports no cells.
Internal ==
    IF HasCells THEN [vectors |-> vectors, result |-> Returned("internal")]
    ELSE LET run == [i \in DOMAIN vectors |-> Simulated(vectors[i])]
             verdicts == [i \in DOMAIN run |-> run[i].passed]
         IN  [vectors |-> run,
              result |-> [Returned("internal") EXCEPT
                            !.internal = verdicts,
                            !.total = Len(run),
                            !.passed = Passed(verdicts),
                            !.failed = Len(run) - Passed(verdicts),
                            !.success = Passed(verdicts) = Len(run)]]

\* The bench compares each output with === .
Verdict(w, tv) ==
    \A i \in DOMAIN circuit.outputs :
        NetValue(w, circuit.outputs[i], Bound(circuit.inputs, tv.inputs)) = tv.expected[i]

\* What the bench prints for each vector, wired as w.
Verdicts(w, tvs) == [i \in DOMAIN tvs |-> Verdict(w, tvs[i])]

Total(tvs) == IF HasCells THEN Len(cycles) ELSE Len(tvs)

\* runIcarusVerification: `tool' is what becomes of the external programs,
\* `verdicts' what the bench prints; a vector that checks nothing prints none.
\* A run that breaks off ends with an exit code that is not 0.
Icarus(tvs, tool, verdicts) ==
    IF tool \in {"missing", "fails to compile"} \/ Total(tvs) = 0 THEN Returned("icarus")
    ELSE [Returned("icarus") EXCEPT
            !.ran = tool = "works",
            !.icarus = verdicts,
            !.total = Total(tvs),
            !.passed = Passed(verdicts),
            !.failed = Len(verdicts) - Passed(verdicts),
            !.success = tool = "works" /\ Passed(verdicts) = Len(verdicts)]

Tools == {"works", "missing", "fails to compile", "breaks off"}

\* What is read from the pipe: all, or what was printed before the end.
Outputs(tool, verdicts) ==
    IF tool = "breaks off" THEN {SubSeq(verdicts, 1, n) : n \in 0..Len(verdicts)} ELSE {verdicts}

\* toVerilog, and with it the scrub, comes after the check for the tool.
Exported(tool) ==
    /\ drivers' = IF tool = "missing" THEN drivers ELSE Scrubbed.wires
    /\ gone' = IF tool = "missing" THEN gone ELSE Scrubbed.gone

RunInternalSimulation ==
    /\ Called
    /\ IF vectors # <<>> /\ ~HasCells /\ ~Fits
       THEN vectors' = vectors /\ outcome' = Thrown("internal")
       ELSE vectors' = Internal.vectors /\ outcome' = Internal.result
    /\ UNCHANGED <<circuit, drivers, gone, ports, cycles>>

\* The bench of a circuit with cells is another matter: StartBench.
Answers(tool) == tool \in {"missing", "fails to compile"} \/ ~HasCells \/ cycles = <<>>

RunIcarusVerification ==
    /\ Called
    /\ \E tool \in Tools :
         /\ Answers(tool)
         /\ Exported(tool)
         /\ \E printed \in Outputs(tool, Verdicts(Scrubbed.wires, vectors)) :
              outcome' = Icarus(vectors, tool, printed)
    /\ UNCHANGED <<circuit, ports, vectors, cycles>>

\* compareSimulations: equal success and equal counts; runIcarusVerification
\* returns no vectors to compare.
Compared(internal, icarus) ==
    LET same == /\ internal.success = icarus.success
                /\ internal.passed = icarus.passed
                /\ internal.failed = icarus.failed
                /\ internal.total = icarus.total
    IN  [Returned("compare") EXCEPT
            !.success = same,
            !.total = Total(vectors),
            !.passed = IF same THEN internal.passed ELSE 0,
            !.failed = IF same THEN internal.failed ELSE 0,
            !.ran = icarus.ran,
            !.internal = internal.internal,
            !.icarus = icarus.icarus]

CompareSimulations ==
    /\ Called
    /\ IF vectors # <<>> /\ ~HasCells /\ ~Fits
       THEN outcome' = Thrown("compare") /\ UNCHANGED <<drivers, gone, vectors>>
       ELSE \E tool \in Tools :
              /\ Answers(tool)
              /\ vectors' = Internal.vectors
              /\ Exported(tool)
              /\ \E printed \in Outputs(tool, Verdicts(Scrubbed.wires, Internal.vectors)) :
                   outcome' = Compared(Internal.result, Icarus(Internal.vectors, tool, printed))
    /\ UNCHANGED <<circuit, ports, cycles>>

EditCircuit ==
    /\ Called
    /\ \E e \in circuit.wires :
         /\ {e[1], e[2]} \cap gone = {}
         /\ IF e[1] \in Range(drivers[e[2]])
            THEN drivers' = [drivers EXCEPT ![e[2]] = SwapRemove(@, e[1])]
            ELSE /\ e[2] \in DOMAIN circuit.kind /\ circuit.kind[e[2]] \in Single1 => drivers[e[2]] = <<>>
                 /\ drivers' = [drivers EXCEPT ![e[2]] = Append(@, e[1])]
    /\ outcome' = Returned("")
    /\ UNCHANGED <<circuit, gone, ports, vectors, cycles>>

\* addInput, after the generator has read the ports.
AddInput ==
    /\ Called
    /\ Fits
    /\ ports' = Append(ports, "late")
    /\ outcome' = Returned("")
    /\ UNCHANGED <<circuit, drivers, gone, vectors, cycles>>

BenchNext ==
    \/ GenerateExhaustiveVectors
    \/ \E values \in Combinations : AddComputedVector(values)
    \/ \E c \in circuit.custom : AddTestVector(c[1], c[2])
    \/ \E cycle \in circuit.clocked : GenerateSequentialTestVectors(cycle.data)
    \/ \E cycle \in circuit.clocked : AddSequentialTestVector(cycle)
    \/ ClearSequentialTestVectors
    \/ ClearTestVectors
    \/ RunInternalSimulation
    \/ RunIcarusVerification
    \/ CompareSimulations
    \/ EditCircuit
    \/ AddInput

-----------------------------------------------------------------------------
\* The gates and nets v is computed from.
RECURSIVE FanIn(_)
FanIn(v) == {v} \cup (IF v \in DOMAIN drivers THEN UNION {FanIn(u) : u \in Range(drivers[v])} ELSE {})

\* The circuits whose text computes what the simulation computes: every output
\* has one driver, and of the gates it is computed from every one has drivers,
\* the inverted ones two.
Agreeing ==
    /\ \A i \in DOMAIN circuit.outputs : Len(drivers[circuit.outputs[i]]) = 1
    /\ \A g \in DOMAIN circuit.kind \cap UNION {FanIn(o) : o \in Range(circuit.outputs)} :
         /\ drivers[g] # <<>>
         /\ circuit.kind[g] \in Inverted => Len(drivers[g]) = 2

(* compareSimulations "compares internal simulation against Icarus         *)
(* Verilog": called on such a circuit, if the bench runs to its end, it    *)
(* succeeds and the two agree on every vector, whenever the vectors were   *)
(* collected, whatever they expect, and whatever the scrub between the two *)
(* simulations takes. A gate without drivers behind an output is excluded: *)
(* the internal simulation reads x, and the text is written after the scrub*)
(* took the gate from the pins it drove. For logic the call never succeeds *)
(* on the verdicts of a run that broke off.                                *)
CompareAgrees ==
    [][outcome'.call = "compare" /\ ~HasCells =>
         /\ outcome'.ran /\ Agreeing => outcome'.success /\ outcome'.internal = outcome'.icarus
         /\ outcome'.success => Len(outcome'.icarus) = Len(outcome'.internal)]_bench

(* No call rewrites what a client said a vector should give, as long as it *)
(* said it in full (runInternalSimulation).                                *)
ExpectationsKept ==
    [][\A i \in DOMAIN vectors :
         /\ outcome'.call \in {"internal", "compare", "icarus"}
         /\ Unknown \notin Range(vectors[i].expected)
         => vectors'[i].inputs = vectors[i].inputs /\ vectors'[i].expected = vectors[i].expected]_bench

(* "Compares internal simulation against Icarus Verilog"                   *)
(* (TestbenchGenerator.hpp, compareSimulations): a comparison that says    *)
(* the two agree has run Icarus.                                           *)
SuccessMeansRun == outcome.call = "compare" /\ outcome.success => outcome.ran
=============================================================================
