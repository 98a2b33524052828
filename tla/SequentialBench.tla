--------------------------- MODULE SequentialBench ---------------------------
(***************************************************************************)
(* The bench TestbenchGenerator writes for a circuit with sequential       *)
(* cells, running under a Verilog simulator: clocks that toggle by         *)
(* themselves, the stimulus block that waits for their edges, and cells    *)
(* that wake up in no particular order.                                    *)
(*                                                                         *)
(* The text of the stimulus block is the script; the scheduling is that of *)
(* the Verilog standard: events of one instant in any order, non-blocking  *)
(* assignments once none is left, then the next instant.  Statements       *)
(* between two waits of the block, and the combinational logic, take       *)
(* effect at once.                                                         *)
(***************************************************************************)
EXTENDS GoldenBench

\* circuit.cell[c] has the fields
\*   ff:    whether it is a flip-flop; otherwise a latch
\*   edge:  "pos" or "neg" for a flip-flop
\*   data, clk, en: the nets of these pins, clk and en "" when missing
\*   clear: its RST or CLR net or ""; level: the value that clears
\*   async: whether RST is in the sensitivity list
\* SET pins are left out: the bench sets their nets to 0 and never again.
\* circuit.firstClock: the first of its clocks in alphabetical order.
\* circuit.config: the fields of TestbenchConfig the bench depends on.

VARIABLES
    call,       \* the call that waits for the simulator, or ""
    script,     \* what the stimulus block has still to do
    stimulus,   \* [waits |-> "" or "time" or "edge", until |-> a time]
    time,
    due,        \* clock -> when it toggles next
    level,      \* the values of the inputs of the circuit
    register,   \* the outputs of the cells
    woken,      \* cells whose always block is to be evaluated
    staged,     \* pending non-blocking assignments
    seen,       \* the registers at each check
    printed     \* the verdicts printed

simulator == <<script, stimulus, time, due, level, register, woken, staged, seen, printed>>
allVars == <<bench, call, simulator>>

Cells == DOMAIN circuit.cell
Config == circuit.config

-----------------------------------------------------------------------------
(* detectClockSignals.                                                     *)

Flops == {c \in Cells : circuit.cell[c].ff}
ClockNames == {circuit.cell[c].clk : c \in Flops}
EnableNames == {circuit.cell[c].en : c \in Cells \ Flops}
ResetNames == {circuit.cell[c].clear : c \in Cells} \ {""}
DataInputs ==
    SelectSeq(circuit.inputs, LAMBDA n : n \notin ClockNames \cup EnableNames \cup ResetNames)

\* A name of two roles is declared twice, which no compiler takes.
Compiles ==
    /\ ClockNames \cap EnableNames = {}
    /\ ClockNames \cap ResetNames = {}
    /\ EnableNames \cap ResetNames = {}

\* The edge the stimulus block waits for: one negative flip-flop decides.
Edge == IF \E c \in Flops : circuit.cell[c].edge = "neg" THEN "neg" ELSE "pos"

-----------------------------------------------------------------------------
(* generateSequentialStimulusBlock.                                        *)

All(names, value) == [n \in names |-> value]

Set(values) == [do |-> "set", values |-> values]
Delay(units) == [do |-> "delay", units |-> units]
AwaitEdge == [do |-> "edge"]
Check(i) == [do |-> "check", vector |-> i]

ResetLevel == IF Config.resetActiveValue = 0 THEN "0" ELSE "1"

DataOf(i) == Bound(DataInputs, cycles[i].data)

\* Mutant: the block does not step past the edge.
OneCycleAtTheEdge(i) ==
    <<Set(DataOf(i) @@ All(EnableNames, "1"))>>
    \o (IF ClockNames # {} THEN <<AwaitEdge>> ELSE <<Delay(Config.stimulusDelay)>>)
    \o <<Check(i), Set(All(EnableNames, "0"))>>

OneCycle(i) ==
    <<Set(DataOf(i) @@ All(EnableNames, "1"))>>
    \o (IF ClockNames # {} THEN <<AwaitEdge, Delay(1)>> ELSE <<Delay(Config.stimulusDelay)>>)
    \o <<Check(i), Set(All(EnableNames, "0"))>>

\* Mutant: the reset is released before the wait.
ReleasedAtOnce ==
    <<Set(All(ResetNames, ResetLevel) @@ All(Range(circuit.inputs), "0")),
      Set(All(ResetNames, Invert(ResetLevel))),
      Delay(Config.resetDuration)>>
    \o (IF ClockNames # {} THEN <<AwaitEdge>> ELSE <<>>)
    \o FlattenSeq([i \in DOMAIN cycles |-> OneCycle(i)])

StimulusBlock ==
    <<Set(All(ResetNames, ResetLevel) @@ All(Range(circuit.inputs), "0")),
      Delay(Config.resetDuration),
      Set(All(ResetNames, Invert(ResetLevel)))>>
    \o (IF ClockNames # {} THEN <<AwaitEdge>> ELSE <<>>)
    \o FlattenSeq([i \in DOMAIN cycles |-> OneCycle(i)])

\* generateClockBlock: always #(clockPeriod / 2) clk = ~clk.
\* Mutant: one division too many.
QuarterPeriod == Config.clockPeriod \div 4

HalfPeriod == Config.clockPeriod \div 2

-----------------------------------------------------------------------------
(* The simulator.                                                          *)

Nets(levels, registers) == registers @@ levels
Read(net, levels, registers) == NetValue(drivers, net, Nets(levels, registers))

\* The always block of a cell: clear before enable.
NextValue(c, levels, registers) ==
    LET k == circuit.cell[c]
    IN  IF k.clear # "" /\ levels[k.clear] = k.level THEN "0"
        ELSE IF k.en = "" \/ levels[k.en] = "1" THEN Read(k.data, levels, registers)
        ELSE registers[c]

Falls(a, b) == a # b /\ (a = "1" \/ b = "0")
Rises(a, b) == a # b /\ (a = "0" \/ b = "1")
Moves(direction, a, b) == IF direction = "neg" THEN Falls(a, b) ELSE Rises(a, b)

\* The cells an always block wakes when levels and registers change.
Sensitive(levels, registers) ==
    {c \in Cells :
        LET k == circuit.cell[c]
            changes(net) == Read(net, level, register) # Read(net, levels, registers)
        IN  IF k.ff
            THEN \/ Moves(k.edge, level[k.clk], levels[k.clk])
                 \/ k.async /\ Falls(level[k.clear], levels[k.clear])
            ELSE \E net \in {k.data, k.en, k.clear} \ {""} : changes(net)}

Blank == All(Range(circuit.inputs), Unknown)

Off ==
    /\ call = ""
    /\ script = <<>>
    /\ stimulus = [waits |-> "", until |-> 0]
    /\ time = 0
    /\ due = <<>>
    /\ level = <<>>
    /\ register = <<>>
    /\ woken = {}
    /\ staged = <<>>
    /\ seen = <<>>
    /\ printed = <<>>

\* vvp begins; runIcarusVerification and compareSimulations wait for it.
StartBench(from) ==
    /\ call = ""
    /\ Called
    /\ HasCells
    /\ cycles # <<>>
    /\ Compiles
    /\ call' = from
    /\ script' = StimulusBlock
    /\ due' = All(ClockNames, HalfPeriod)
    /\ level' = Blank
    /\ register' = All(Cells, Unknown)
    /\ UNCHANGED <<circuit, drivers, gone, ports, vectors, cycles, outcome,
                   stimulus, time, woken, staged, seen, printed>>

Runs(statement) ==
    /\ call # ""
    /\ stimulus.waits = ""
    /\ script # <<>>
    /\ Head(script).do = statement
    /\ script' = Tail(script)

\* An always block that is not yet waiting when the block starts misses the
\* first change.
Assign ==
    /\ Runs("set")
    /\ level' = Head(script).values @@ level
    /\ \E waiting \in (IF level = Blank THEN SUBSET Cells ELSE {Cells}) :
         woken' = woken \cup (Sensitive(level', register) \cap waiting)
    /\ UNCHANGED <<bench, call, stimulus, time, due, register, staged, seen, printed>>

Wait ==
    /\ \/ /\ Runs("delay")
          /\ stimulus' = [waits |-> "time", until |-> time + Head(script).units]
       \/ /\ Runs("edge")
          /\ stimulus' = [waits |-> "edge", until |-> 0]
    /\ UNCHANGED <<bench, call, time, due, level, register, woken, staged, seen, printed>>

CheckOutputs ==
    /\ Runs("check")
    /\ LET cycle == cycles[Head(script).vector]
           agrees == \A i \in DOMAIN circuit.outputs :
                        Read(circuit.outputs[i], level, register) = cycle.expected[i]
       IN  printed' = IF cycle.check THEN Append(printed, agrees) ELSE printed
    /\ seen' = Append(seen, register)
    /\ UNCHANGED <<bench, call, stimulus, time, due, level, register, woken, staged>>

\* The call returns what the bench printed.
End(tool) ==
    /\ call # ""
    /\ outcome' = LET icarus == Icarus(vectors, tool, printed)
                  IN  IF call = "compare" THEN Compared(Internal.result, icarus) ELSE icarus
    /\ call' = ""
    /\ script' = <<>>
    /\ stimulus' = [waits |-> "", until |-> 0]
    /\ time' = 0
    /\ due' = <<>>
    /\ level' = <<>>
    /\ register' = <<>>
    /\ woken' = {}
    /\ staged' = <<>>
    /\ seen' = <<>>
    /\ printed' = <<>>
    /\ UNCHANGED <<circuit, drivers, gone, ports, vectors, cycles, calls>>

\* $finish
Finish == stimulus.waits = "" /\ script = <<>> /\ End("works")

\* vvp is killed, or cannot be started.
BreakOff == End("breaks off")

\* The stimulus block waits for d_clockNames[0] alone.
Toggle(k) ==
    /\ call # ""
    /\ due[k] = time
    /\ due' = [due EXCEPT ![k] = time + HalfPeriod]
    /\ level' = [level EXCEPT ![k] = Invert(@)]
    /\ woken' = woken \cup Sensitive(level', register)
    /\ stimulus' = IF /\ stimulus.waits = "edge"
                      /\ k = circuit.firstClock
                      /\ Moves(Edge, level[k], level'[k])
                   THEN [stimulus EXCEPT !.waits = ""] ELSE stimulus
    /\ UNCHANGED <<bench, call, script, time, register, staged, seen, printed>>

Evaluate(c) ==
    /\ c \in woken
    /\ woken' = woken \ {c}
    /\ staged' = (c :> NextValue(c, level, register)) @@ staged
    /\ UNCHANGED <<bench, call, script, stimulus, time, due, level, register, seen, printed>>

Quiet ==
    /\ call # ""
    /\ woken = {}
    /\ stimulus.waits # ""
    /\ \A k \in DOMAIN due : due[k] > time

Commit ==
    /\ Quiet
    /\ staged # <<>>
    /\ register' = staged @@ register
    /\ staged' = <<>>
    /\ woken' = Sensitive(level, register')
    /\ UNCHANGED <<bench, call, script, stimulus, time, due, level, seen, printed>>

Advance ==
    /\ Quiet
    /\ staged = <<>>
    /\ time' = Min(Range(due) \cup (IF stimulus.waits = "time" THEN {stimulus.until} ELSE {}))
    /\ stimulus' = IF stimulus.waits = "time" /\ stimulus.until = time'
                   THEN [stimulus EXCEPT !.waits = ""] ELSE stimulus
    /\ UNCHANGED <<bench, call, script, due, level, register, woken, staged, seen, printed>>

Simulate ==
    \/ Assign
    \/ Wait
    \/ CheckOutputs
    \/ Finish
    \/ \E k \in DOMAIN due : Toggle(k)
    \/ \E c \in Cells : Evaluate(c)
    \/ Commit
    \/ Advance

Init == BenchInit /\ Off

Next ==
    \/ call = "" /\ BenchNext /\ UNCHANGED <<call, simulator>>
    \/ call = "" /\ (\E f \in DOMAIN circuit.golden : CompareWithGolden(f)) /\ UNCHANGED <<call, simulator>>
    \/ \E from \in {"icarus", "compare"} : StartBench(from)
    \/ Simulate
    \/ BreakOff

Spec == Init /\ [][Next]_allVars

\* vvp goes on as long as there is something to simulate.
FairSpec == Spec /\ WF_allVars(Simulate)

-----------------------------------------------------------------------------
(* What one clock does to the registers, cell types and edges aside.       *)

Inactive == IF Config.resetActiveValue = 0 THEN "1" ELSE "0"

Applied(i) == DataOf(i) @@ All(EnableNames, "1") @@ All(ResetNames, Inactive)
                        @@ All(Range(circuit.inputs), "0")

After(cells, i, registers) ==
    [c \in Cells |-> IF c \in cells THEN NextValue(c, Applied(i), registers) ELSE registers[c]]

RECURSIVE Settled(_, _)
Settled(i, registers) ==
    LET next == After(Cells \ Flops, i, registers)
    IN  IF next = registers THEN registers ELSE Settled(i, next)

Clocked(i, registers) ==
    LET at(edge, r) == Settled(i, After({c \in Flops : circuit.cell[c].edge = edge}, i, r))
        other == IF Edge = "pos" THEN "neg" ELSE "pos"
    IN  at(Edge, at(other, Settled(i, registers)))

(* A vector is "for one clock cycle of a sequential circuit"               *)
(* (TestbenchGenerator.hpp, SequentialTestVector): from one check to the   *)
(* next, each cell has taken the data of that vector at exactly one active *)
(* edge, in whatever order the simulator runs the processes of an instant. *)
OneClockPerVector ==
    \A i \in 2..Len(seen) : seen[i] = Clocked(i, seen[i - 1])

(* When the reset lasts longer than a period and has the polarity of the   *)
(* cells it clears, no such cell shows an unknown value at a check.        *)
ResetReaches ==
    Config.resetDuration > Config.clockPeriod
    => \A i \in DOMAIN seen : \A c \in Flops :
         /\ circuit.cell[c].clear # ""
         /\ circuit.cell[c].level # Inactive
         => seen[i][c] # Unknown

(* The generated bench reaches $finish and the call returns.               *)
BenchEnds == call # "" ~> call = ""

(* The first vector too is for one clock cycle: where the reset clears     *)
(* every cell, the registers at its check are those of one clock more.     *)
FirstVectorIsOneClock ==
    Len(seen) = 1 => seen[1] = Clocked(1, All(Cells, "0"))
=============================================================================
