----------------------------- MODULE GoldenBench -----------------------------
(***************************************************************************)
(* TestbenchGenerator::generate: a bench that counts through all values of *)
(* the inputs of a golden Verilog model and of a graph and compares what   *)
(* both give.  The ports of the model are found by regular expressions,    *)
(* line by line; ports and vertices meet in the order they are found.      *)
(***************************************************************************)
EXTENDS Testbench, Integers

\* circuit.golden[f] is a Verilog file with the fields
\*   named:   whether a line has `module' and a name; a file that cannot be
\*            opened has no such line
\*   lines:   line -> the declarations on it, separated by commas, each with
\*            its dir, the names it declares, the word before its range or
\*            name, "" or "signed" or "wire" (which stands for reg too), and
\*            its range: <<>>, <<msb, lsb>> or <<text>>
\*   bits:    port -> its nets, from bit 0
\*   kind, drivers: what the module computes, like those of a circuit

\* ([a-zA-Z0-9_,\s]+): what is left of a line up to the next bracket.
RECURSIVE Captured(_)
Captured(line) ==
    LET next == line[2]
    IN  Head(line).names
        \o (IF Len(line) = 1 THEN <<>>
            ELSE <<next.dir>> \o (IF next.word = "" THEN <<>> ELSE <<next.word>>)
                 \o (IF next.range = <<>> THEN Captured(Tail(line)) ELSE <<>>))

Width(range) ==
    IF Len(range) # 2 THEN 1
    ELSE IF range[1] >= range[2] THEN range[1] - range[2] + 1
    ELSE range[2] - range[1] + 1

\* portRegex knows wire and reg, but takes them for a name where no range of
\* numbers and no name follows.
TakenForName(d) == d.word = "signed" \/ (d.word = "wire" /\ Len(d.range) = 1)

\* The first match of portRegex in a line, if any. The words it takes for one
\* name are joined; only a single one is the name of a port.
LinePort(line) ==
    LET i == SelectInSeq(line, LAMBDA d : TakenForName(d) \/ Len(d.range) # 1)
        d == line[i]
    IN  IF i = 0 THEN <<>>
        ELSE LET rest == Captured(SubSeq(line, i, Len(line)))
             IN  <<[dir |-> d.dir,
                    width |-> IF TakenForName(d) THEN 1 ELSE Width(d.range),
                    words |-> IF ~TakenForName(d) THEN rest
                              ELSE <<d.word>> \o (IF d.range = <<>> THEN rest ELSE <<>>)]>>

\* parseGoldenModel
GoldenPorts(golden) == FlattenSeq([i \in DOMAIN golden.lines |-> LinePort(golden.lines[i])])

WidthOf(found, dir) ==
    FoldLeft(LAMBDA n, p : IF p.dir = dir THEN n + p.width ELSE n, 0, found)

\* Mutant: the offset stays where it is.
OffsetKept(found, i) == 0

\* in_offset and out_offset at the i'th port.
Offset(found, i) == WidthOf(SubSeq(found, 1, i - 1), found[i].dir)

\* Which bit of test_in or golden_out a net of the model is.
Wired(golden, found, dir) ==
    {<<golden.bits[found[i].words[1]][j], Offset(found, i) + j - 1>> :
        <<i, j>> \in {<<k, b>> \in (DOMAIN found) \X (1..WidthOf(found, dir)) :
                        found[k].dir = dir /\ b <= found[k].width}}

BenchCompiles(golden, found) ==
    \A i \in DOMAIN found : Len(found[i].words) = 1 /\ found[i].words[1] \in DOMAIN golden.bits

\* An output of the graph past the model's is connected to a bit of graph_out
\* that does not exist: whether that compiles is left open.
Compilations(golden, found) ==
    IF ~BenchCompiles(golden, found) THEN {FALSE}
    ELSE IF Len(circuit.outputs) > WidthOf(found, "output") THEN BOOLEAN
    ELSE {TRUE}

\* for (i = 0; i < (1 << n); i = i + 1) test_in = i; both sides have 32 bits.
Words(n) == IF n < 31 THEN [0..(n - 1) -> {"0", "1"}] ELSE {}

GoldenOut(golden, found, word) ==
    LET vector == [n \in {p[1] : p \in Wired(golden, found, "input")} |->
                     word[(CHOOSE p \in Wired(golden, found, "input") : p[1] = n)[2]]]
    IN  [k \in 0..(WidthOf(found, "output") - 1) |->
           IF \E p \in Wired(golden, found, "output") : p[2] = k
           THEN NetOf(golden.kind, golden.drivers,
                      (CHOOSE p \in Wired(golden, found, "output") : p[2] = k)[1], vector)
           ELSE Undriven]

GraphOut(found, word) ==
    LET vector == Bound(ports, [i \in DOMAIN ports |-> IF i - 1 \in DOMAIN word THEN word[i - 1] ELSE Unknown])
    IN  [k \in 0..(WidthOf(found, "output") - 1) |->
           IF k + 1 \in DOMAIN circuit.outputs
           THEN NetValue(Scrubbed.wires, circuit.outputs[k + 1], vector) ELSE Undriven]

\* The bench, run on the text of the graph. It prints "SUCCESS! All
\* combinations passed." when it ran and nothing failed.
GoldenRun(golden, found, compiles) ==
    LET words == Words(WidthOf(found, "input"))
        errors == {w \in words : GoldenOut(golden, found, w) # GraphOut(found, w)}
    IN  IF ~compiles THEN [Returned("golden") EXCEPT !.success = TRUE]
        ELSE [Returned("golden") EXCEPT !.success = TRUE, !.ran = TRUE,
                                        !.total = Cardinality(words), !.failed = Cardinality(errors)]

\* generate, and a client that exports the graph and runs the bench. On a
\* circuit with cells, which generate takes for logic, not modelled.
CompareWithGolden(f) ==
    LET golden == circuit.golden[f]
        found == GoldenPorts(golden)
    IN  /\ Called
        /\ ~HasCells
        /\ IF golden.named /\ found # <<>>
           THEN /\ Exported("works")
                /\ \E compiles \in Compilations(golden, found) :
                     outcome' = [GoldenRun(golden, found, compiles) EXCEPT !.golden = f]
           ELSE UNCHANGED <<drivers, gone>> /\ outcome' = [Returned("golden") EXCEPT !.golden = f]
        /\ UNCHANGED <<circuit, ports, vectors, cycles>>

-----------------------------------------------------------------------------
\* One port a line, with a range of numbers or none.
OnePortPerLine(golden) ==
    \A i \in DOMAIN golden.lines :
      LET line == golden.lines[i]
      IN  line # <<>> => /\ Len(line) = 1
                         /\ Len(line[1].names) = 1
                         /\ line[1].word # "signed"
                         /\ Len(line[1].range) # 1

\* The nets of the ports of one direction, in the order they are declared.
Declared(golden, dir) ==
    FlattenSeq([i \in DOMAIN golden.lines |->
        FlattenSeq([j \in DOMAIN golden.lines[i] |->
            IF golden.lines[i][j].dir # dir THEN <<>>
            ELSE FlattenSeq([n \in DOMAIN golden.lines[i][j].names |->
                               golden.bits[golden.lines[i][j].names[n]]])])])

\* The graph computes what the model does, on every output bit of the model.
SameAsGolden(golden) ==
    LET in == Declared(golden, "input")
        out == Declared(golden, "output")
    IN  \A values \in [DOMAIN in -> {"0", "1"}] : \A i \in DOMAIN out :
          NetOf(golden.kind, golden.drivers, out[i], Bound(in, values))
            = IF i \in DOMAIN circuit.outputs
              THEN NetValue(drivers, circuit.outputs[i], Bound(ports, values))
              ELSE Undriven

(* "Exhaustive testbench: graph against golden Verilog model"              *)
(* (TestbenchGenerator.hpp, generate): for a model that declares one port  *)
(* a line, as many input bits as the graph has and fewer than 31, the      *)
(* bench runs, and says that all combinations passed exactly when graph    *)
(* and model compute the same on the outputs of the model.  Further        *)
(* outputs of the graph are compared with nothing; with them the bench may *)
(* not compile.                                                            *)
GoldenDecides ==
    outcome.call = "golden" /\ outcome.success =>
      LET golden == circuit.golden[outcome.golden]
      IN  /\ OnePortPerLine(golden)
          /\ Len(Declared(golden, "input")) = Len(ports)
          /\ Len(ports) < 31
          => /\ Len(circuit.outputs) <= Len(Declared(golden, "output")) => outcome.ran
             /\ outcome.ran => (outcome.failed = 0 <=> SameAsGolden(golden))
=============================================================================
