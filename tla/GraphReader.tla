----------------------------- MODULE GraphReader -----------------------------
(***************************************************************************)
(* readVerilog: the callbacks with which the parser (lorina, external)     *)
(* hands a module over to GraphReader, and the Context they share. A file  *)
(* is a record: inputs, outputs and wires are sets of nets, assigns a set  *)
(* of statements [op, lhs, args], an operand [net, not]; complete says     *)
(* whether the parser reaches endmodule.                                   *)
(***************************************************************************)
EXTENDS GateTables, Integers, Sequences, FiniteSets, SequencesExt

CONSTANTS
    Runs,       \* the files read one after the other with one Context
    Hints       \* what d_numberOfVertices of a new Context may hold:
                \* "zero" when it was value-initialised, else "garbage"

NotName(net) == net \o "_not"      \* SUFFIX_INVERSION
GateName(net) == net \o "_gate"    \* SUFFIX_OUTPUT_GATE

ElemOps == {"And", "Nand", "Or", "Nor", "Xor", "Xnor"}
ValueOps == {"Const", "Parameter"}

\* A file as the grammar of the parser has it: lists are finite, on_elem has
\* two operands, on_elem3 (of which there are three) and on_maj3 have three,
\* on_assign of a net has one.
WellFormed(f) ==
    /\ IsFiniteSet(f.inputs) /\ IsFiniteSet(f.outputs) /\ IsFiniteSet(f.wires)
    /\ IsFiniteSet(f.assigns)
    /\ \A s \in f.assigns :
         /\ s.op \in ValueOps => s.value.digits \in Seq(STRING) \ {<<>>}
         /\ s.op \in ElemOps \cup ValueOps \cup {"Assign", "Maj"}
         /\ s.args \in Seq([net : STRING, not : BOOLEAN])
         /\ Len(s.args) \in CASE s.op \in ValueOps -> {0}
                             [] s.op = "Assign"   -> {1}
                             [] s.op = "Maj"      -> {3}
                             [] s.op \in {"And", "Or", "Xor"}    -> {2, 3}
                             [] s.op \in {"Nand", "Nor", "Xnor"} -> {2}

Assigned(f) == {s.lhs : s \in f.assigns}
Nets(f) == f.inputs \cup f.outputs \cup f.wires \cup Assigned(f)
AllFiles == UNION {Range(run) : run \in Runs}

ASSUME GraphReaderAssumption ==
    /\ Hints \subseteq {"zero", "garbage"}
    /\ Runs \subseteq Seq(AllFiles)
    /\ \A f \in AllFiles : WellFormed(f)

\* What is true of strings with something appended.
ASSUME SuffixAssumption ==
    \A f \in AllFiles : \A m, n \in Nets(f) :
      /\ NotName(m) # GateName(n)
      /\ GateName(m) = GateName(n) => m = n
      /\ NotName(m) = NotName(n) => m = n

VARIABLES
    queue,      \* files not read to the end, the one being read first
    stage,      \* "idle" or "module"
    undeclared, \* declarations the parser has yet to report
    pending,    \* assignments it has yet to report
    ctx,        \* names: d_currentGraphNamesList; graph, verts: d_currentGraph
                \* and its vertices; kept: the graphs d_graphs keeps alive;
                \* at: the vertex the last look-up returned; lost: the gates
                \* an operand of which was refused as a duplicate; status:
                \* "ok", "error" (a throw) or "undefined" (behaviour)
    graphs,     \* d_graphs
    hint,       \* d_numberOfVertices
    clean       \* no file has failed so far

vars == <<queue, stage, undeclared, pending, ctx, graphs, hint, clean>>

File == queue[1]

-----------------------------------------------------------------------------
(* Graph and name table. Every operator takes a context to the next; one   *)
(* that has thrown stays as it is. A vertex is a graph and a place in it.  *)

After(c, d) == IF c.status = "ok" THEN d ELSE c
Ended(c, how) == [c EXCEPT !.status = how]

Vert(c, v) == c.verts[v[2]]

\* d_currentGraph owns the graph being read: the next header frees it unless
\* d_graphs got it. The names that point into it stay.
Freed(c, v) == v[1] # c.graph /\ v[1] \notin c.kept

Vertex(type, gate, name) == [type |-> type, gate |-> gate, name |-> name, ins |-> <<>>, outs |-> {}]

New(c, type, gate, name) ==
    After(c, [c EXCEPT
        !.verts = Append(@, Vertex(type, gate, name)),
        !.at = <<c.graph, Len(c.verts) + 1>>])

Entered(table, name, v) == [n \in DOMAIN table \cup {name} |-> IF n = name THEN v ELSE table[n]]

Bind(c, name) == After(c, [c EXCEPT !.names = Entered(@, name, c.at)])
Registered(c, name) == Bind(c, name)

Lookup(c, name) == [c EXCEPT !.at = c.names[name]]

Taken(c, v) == Vert(c, v).gate \in {"Buf", "Not"} /\ Vert(c, v).ins # <<>>

Drives(c, u, v) == [c EXCEPT !.verts[u[2]].outs = @ \cup {v[2]}]
DrivenBy(c, u, v) == [c EXCEPT !.verts[v[2]].ins = Append(@, u[2])]
Refused(c, v) == [c EXCEPT !.lost = @ \cup {Vert(c, v).gate}]

AddEdge(c, u, v) ==
    After(c, IF Freed(c, u) \/ Freed(c, v) THEN Ended(c, "undefined")
             ELSE IF u[1] # v[1] THEN Ended(c, "error")
             ELSE IF v[2] \in Vert(c, u).outs THEN Refused(c, v)
             ELSE IF Taken(c, v) THEN Ended(Drives(c, u, v), "error")
             ELSE DrivenBy(Drives(c, u, v), u, v))

\* The cast to GraphVertexGates is not checked: on another vertex d_gate is
\* memory behind the object, and the build may survive that or not.
SetGateIfDefault(c, v, gate, survives) ==
    After(c, IF Freed(c, v) THEN Ended(c, "undefined")
             ELSE IF Vert(c, v).type # "gate" THEN (IF survives THEN c ELSE Ended(c, "undefined"))
             ELSE IF Vert(c, v).gate # "Default" THEN Ended(c, "error")
             ELSE [c EXCEPT !.verts[v[2]].gate = gate])

-----------------------------------------------------------------------------
(* Operands and left-hand sides.                                           *)

\* get_or_create_inversion
Inversion(c, net) ==
    LET d == Registered(New(c, "gate", "Not", NotName(net)), NotName(net)) IN
    IF NotName(net) \in DOMAIN c.names THEN Lookup(c, NotName(net))
    ELSE AddEdge(d, c.names[net], d.at)

\* getRightHS, get_vertex_by_name
RightHS(c, arg) ==
    After(c, IF arg.net \notin DOMAIN c.names THEN Ended(c, "error")
             ELSE IF arg.not THEN Inversion(c, arg.net)
             ELSE Lookup(c, arg.net))

Connect(c, arg, v) == LET d == RightHS(c, arg) IN AddEdge(d, d.at, v)

\* Mutant: operands are connected to the output itself.
OutputItself(c, net) == Lookup(c, net)

\* What drives an output, created when it is asked for first.
OutputGate(c, net) ==
    LET d == New(c, "gate", "Default", GateName(net)) IN
    IF GateName(net) \in DOMAIN c.names THEN Lookup(c, GateName(net))
    ELSE Bind(AddEdge(d, d.at, c.names[net]), GateName(net))

LeftHS(c, net) ==
    After(c, IF net \notin DOMAIN c.names THEN Ended(c, "error")
             ELSE IF Freed(c, c.names[net]) THEN Ended(c, "undefined")
             ELSE IF Vert(c, c.names[net]).type = "output" THEN OutputGate(c, net)
             ELSE Lookup(c, net))

-----------------------------------------------------------------------------
(* What the callbacks do to the context.                                   *)

\* One vertex per net, in the order of the list.
Declared(c, type, gate, nets) ==
    LET list == SetToSeq(nets)
        place(net) == CHOOSE k \in DOMAIN list : list[k] = net
    IN  [c EXCEPT !.verts = @ \o [k \in 1..Len(list) |-> Vertex(type, gate, list[k])],
                  !.names = [n \in DOMAIN @ \cup nets |->
                               IF n \in nets THEN <<c.graph, Len(c.verts) + place(n)>> ELSE @[n]]]

\* A literal has its base ("" when it is a plain number, "text" when it is
\* neither) and its digits, "x" and "_" among them.
DigitsOf(base) ==
    LET octal == {"0", "1", "2", "3", "4", "5", "6", "7"}
    IN  CASE base = "b" -> {"0", "1"}
          [] base = "o" -> octal
          [] base \in {"d", ""} -> octal \cup {"8", "9"}
          [] OTHER -> octal \cup {"8", "9", "a", "b", "c", "d", "e", "f"}

Bit(odd) == IF odd THEN "1" ELSE "0"
IsOdd(digit) == digit \in {"1", "3", "5", "7", "9", "b", "d", "f"}

\* What stoull reads of the digits, and whether it throws: the digits that
\* surely fit 64 bits.
Readable(l) ==
    LET bad == SelectInSeq(l.digits, LAMBDA d : d \notin DigitsOf(l.base))
    IN  IF bad = 0 THEN l.digits ELSE SubSeq(l.digits, 1, bad - 1)

TooLong(l) ==
    LET read == Readable(l)
        first == SelectInSeq(read, LAMBDA d : d # "0")
    IN  first > 0 /\ Len(read) - first + 1 > [b |-> 64, o |-> 21, d |-> 19, h |-> 16][l.base]

\* Mutant: the first digit instead of the last.
LeadingBit(l) == Bit(IsOdd(Head(Readable(l))))

LowestBit(l) == Bit(IsOdd(Last(Readable(l))))

\* parseConstValue: bit 0.
ParseConstValue(l) ==
    CASE l.base = "text" -> Unknown
      [] l.base = "" -> LowestBit(l)
      [] OTHER -> IF Readable(l) = <<>> \/ TooLong(l) THEN "0" ELSE LowestBit(l)

\* on_parameter: the name moves to a new vertex.
Parameter(c, s) == Bind(New(c, "constant", ParseConstValue(s.value), s.lhs), s.lhs)

\* on_assign of a constant; one that does not match is looked up as a net.
Constant(c, s) ==
    IF /\ s.value.base # "text"
       /\ Range(s.value.digits) \subseteq DigitsOf(IF s.value.base = "" THEN "" ELSE "h")
    THEN Parameter(c, s) ELSE Ended(c, "error")

Alias(c, name, v) ==
    After(c, IF name \in DOMAIN c.names THEN c ELSE Bind([c EXCEPT !.at = v], name))

Buffered(c, s, survives) ==
    LET arg == s.args[1]
        v == c.names[s.lhs]
        typed == SetGateIfDefault(c, v, IF arg.not THEN "Not" ELSE "Buf", survives)
        known == IF arg.not THEN Alias(typed, NotName(arg.net), v) ELSE typed
    IN  IF s.lhs \notin DOMAIN c.names THEN Ended(c, "error")
        ELSE IF Freed(c, v) THEN Ended(c, "undefined")
        ELSE IF Vert(c, v).type = "output" THEN Connect(c, arg, v)
        ELSE Connect(known, [arg EXCEPT !.not = FALSE], v)

\* on_elem, and on_elem3, which asks for the same left-hand side again.
Elem(c, s) ==
    LET left == LeftHS(c, s.lhs)
        v == left.at
        default == Vert(left, v).type = "gate" /\ Vert(left, v).gate = "Default"
        typed == After(left, IF Freed(left, v) THEN Ended(left, "undefined")
                             ELSE IF default THEN SetGateIfDefault(left, v, s.op, TRUE) ELSE left)
        two == Connect(Connect(typed, s.args[1], v), s.args[2], v)
    IN  IF Len(s.args) = 3 THEN Connect(two, s.args[3], v) ELSE two

Pair(c, gate, u, w) ==
    LET d == New(c, "gate", gate, "") IN AddEdge(AddEdge(d, u, d.at), w, d.at)

\* Vertices that are no gates say GateDefault too.
SaysDefault(c, v) == Vert(c, v).type # "gate" \/ Vert(c, v).gate = "Default"

MajorityAsLogic(c, at, v, survives) ==
    LET ab == Pair(c, "And", at[1], at[2])
        ac == Pair(ab, "And", at[1], at[3])
        bc == Pair(ac, "And", at[2], at[3])
        or1 == Pair(bc, "Or", ab.at, ac.at)
        or2 == IF SaysDefault(or1, v) THEN [SetGateIfDefault(or1, v, "Or", survives) EXCEPT !.at = v]
               ELSE New(or1, "gate", "Or", "")
    IN  After(c, IF Freed(c, v) THEN Ended(c, "undefined")
                 ELSE AddEdge(AddEdge(or2, or1.at, or2.at), bc.at, or2.at))

\* addSubGraph of the three-input majority, and its one buffer.
GenerateMajority(c, at) ==
    LET d == New(c, "subGraph", "", "Majority3")
        wired == AddEdge(AddEdge(AddEdge(d, at[1], d.at), at[2], d.at), at[3], d.at)
        buf == New(wired, "gate", "Buf", "")
    IN  AddEdge(buf, d.at, buf.at)

\* The order in which C++ evaluates the three operands is left open; it only
\* decides which inverter is created first.
Majority(c, s, survives) ==
    LET one == RightHS(c, s.args[1])
        two == RightHS(one, s.args[2])
        three == RightHS(two, s.args[3])
        at == <<one.at, two.at, three.at>>
    IN  After(three, IF s.lhs \in DOMAIN c.names
                     THEN MajorityAsLogic(three, at, c.names[s.lhs], survives)
                     ELSE Bind(GenerateMajority(three, at), s.lhs))

-----------------------------------------------------------------------------
(* One step per callback.                                                  *)

Fresh == [graph |-> 0, names |-> <<>>, verts |-> <<>>, kept |-> {}, at |-> <<0, 0>>,
          lost |-> {}, status |-> "ok"]

Init ==
    /\ queue \in Runs
    /\ stage = "idle"
    /\ undeclared = {}
    /\ pending = {}
    /\ ctx = Fresh
    /\ graphs = <<>>
    /\ hint \in Hints
    /\ clean = TRUE

\* A new graph; the table of names is left as it is.
OnModuleHeader ==
    /\ stage = "idle"
    /\ queue # <<>>
    /\ stage' = "module"
    /\ undeclared' = {"inputs", "outputs", "wires"}
    /\ pending' = File.assigns
    /\ ctx' = [ctx EXCEPT !.graph = @ + 1, !.verts = <<>>, !.lost = {}]
    /\ UNCHANGED <<queue, graphs, hint, clean>>

\* Whatever the length of the lists, d_numberOfVertices is what reserve gets.
Declaration(kind, type, gate, nets) ==
    /\ stage = "module" /\ ctx.status = "ok"
    /\ kind \in undeclared
    /\ undeclared' = undeclared \ {kind}
    /\ \E fits \in BOOLEAN :
         /\ hint = "zero" => fits
         /\ ctx' = IF fits THEN Declared(ctx, type, gate, nets) ELSE Ended(ctx, "error")
    /\ UNCHANGED <<queue, stage, pending, graphs, hint, clean>>

OnInputs == Declaration("inputs", "input", "", File.inputs)
OnOutputs == Declaration("outputs", "output", "", File.outputs)
OnWires == Declaration("wires", "gate", "Default", File.wires)

\* The parser reports assignments in an order of its own; a net without a
\* vertex, or one that gets a new vertex, is assigned before it is used.
Ready(s) ==
    \A i \in DOMAIN s.args, t \in pending :
        t.lhs = s.args[i].net => t.lhs \in File.wires \cup File.outputs /\ t.op \notin ValueOps

Assignment(s) ==
    /\ stage = "module" /\ ctx.status = "ok"
    /\ undeclared = {}
    /\ Ready(s)
    /\ pending' = pending \ {s}
    /\ UNCHANGED <<queue, stage, undeclared, graphs, hint, clean>>

OnParameter(s) == s.op = "Parameter" /\ Assignment(s) /\ ctx' = Parameter(ctx, s)

OnAssign(s) ==
    /\ Assignment(s)
    /\ \/ s.op = "Const" /\ ctx' = Constant(ctx, s)
       \/ s.op = "Assign" /\ \E survives \in BOOLEAN : ctx' = Buffered(ctx, s, survives)

OnElem(s) ==
    /\ s.op \in ElemOps
    /\ Assignment(s)
    /\ ctx' = Elem(ctx, s)

OnMaj3(s) ==
    s.op = "Maj" /\ Assignment(s) /\ \E survives \in BOOLEAN : ctx' = Majority(ctx, s, survives)

\* Mutant: the names stay.
AllNames(names) == names
NamesAfter(names) == <<>>

OnEndmodule ==
    /\ stage = "module" /\ ctx.status = "ok"
    /\ undeclared = {} /\ pending = {}
    /\ File.complete
    /\ stage' = "idle"
    /\ queue' = Tail(queue)
    /\ graphs' = Entered(graphs, File.name, [file |-> File, verts |-> ctx.verts,
                                             lost |-> ctx.lost, graph |-> ctx.graph])
    /\ ctx' = [ctx EXCEPT !.names = NamesAfter(@),
                          !.kept = {graphs'[n].graph : n \in DOMAIN graphs'}]
    /\ UNCHANGED <<undeclared, pending, hint, clean>>

\* readVerilog throws: a callback has, or the parser met an error.
ReadVerilogFails ==
    /\ stage = "module"
    /\ \/ ctx.status = "error"
       \/ ctx.status = "ok" /\ undeclared = {} /\ pending = {} /\ ~File.complete
    /\ stage' = "idle"
    /\ queue' = Tail(queue)
    /\ undeclared' = {}
    /\ pending' = {}
    /\ ctx' = [ctx EXCEPT !.status = "ok"]
    /\ clean' = FALSE
    /\ UNCHANGED <<graphs, hint>>

Next ==
    \/ OnModuleHeader
    \/ OnInputs
    \/ OnOutputs
    \/ OnWires
    \/ \E s \in pending : OnParameter(s) \/ OnAssign(s) \/ OnElem(s) \/ OnMaj3(s)
    \/ OnEndmodule
    \/ ReadVerilogFails

Spec == Init /\ [][Next]_vars

-----------------------------------------------------------------------------
(* What a graph computes, and what the file says.                          *)

Vote(a, b, c) == Table("Or", Table("Or", Both(a, b), Both(a, c)), Both(b, c))

\* What a gate makes of its inputs, one after the other.
Chain(gate, in) ==
    LET upTo[k \in 1..Len(in)] ==
          IF k = 1 THEN Single(gate, in[1]) ELSE Table(gate, upTo[k - 1], in[k])
    IN  upTo[Len(in)]

\* updateValue of one vertex, given the values of the others.
Value(vert, env, in) ==
    CASE vert.type = "input"    -> env[vert.name]
      [] vert.type = "constant" -> vert.gate
      [] vert.type = "output"   -> IF in # <<>> /\ Range(in) = {in[1]} THEN in[1] ELSE Unknown
      [] vert.type = "subGraph" -> IF Len(in) = 3 THEN Vote(in[1], in[2], in[3]) ELSE Unknown
      [] vert.type = "gate"     -> IF in = <<>> THEN Unknown ELSE Chain(vert.gate, in)

\* All vertices at once, as often as it takes.
Simulated(verts, env) ==
    LET val[k \in Nat] ==
          IF k = 0 THEN [v \in DOMAIN verts |-> Unknown]
          ELSE LET before == val[k - 1] IN
               [v \in DOMAIN verts |->
                  Value(verts[v], env, [i \in DOMAIN verts[v].ins |-> before[verts[v].ins[i]]])]
    IN  val[Len(verts)]

\* Bit 0 of a literal and the expression of an assignment, as Verilog defines
\* them.
Literal(l) == IF Last(l.digits) = "x" THEN Unknown ELSE Bit(IsOdd(Last(l.digits)))

Formula(s, val) ==
    LET lit(arg) == IF arg.not THEN Invert(val[arg.net]) ELSE val[arg.net]
        ones == Cardinality({i \in DOMAIN s.args : lit(s.args[i]) = "1"})
    IN  IF s.op \in ValueOps THEN Literal(s.value)
        ELSE IF \E i \in DOMAIN s.args : lit(s.args[i]) = Unknown THEN Unknown
        ELSE CASE s.op = "Assign" -> Bit(ones = 1)
               [] s.op = "And"  -> Bit(ones = Len(s.args))
               [] s.op = "Nand" -> Bit(ones # Len(s.args))
               [] s.op = "Or"   -> Bit(ones > 0)
               [] s.op = "Nor"  -> Bit(ones = 0)
               [] s.op = "Xor"  -> Bit(ones % 2 = 1)
               [] s.op = "Xnor" -> Bit(ones % 2 = 0)
               [] s.op = "Maj"  -> Bit(ones >= 2)

\* What drives a net.
Source(f, net) == CHOOSE s \in f.assigns : s.lhs = net

Meaning(f, env) ==
    LET nets == f.inputs \cup Assigned(f)
        val[k \in Nat] ==
          IF k = 0 THEN [n \in nets |-> IF n \in f.inputs THEN env[n] ELSE Unknown]
          ELSE LET before == val[k - 1] IN
               [n \in nets |-> IF n \in f.inputs THEN env[n] ELSE Formula(Source(f, n), before)]
    IN  val[Cardinality(f.assigns)]

-----------------------------------------------------------------------------
(* The files the reader is made for.                                       *)

\* A number of at most 64 bits, without x and underscores.
Plain(l) == l.base # "text" /\ Range(l.digits) \subseteq DigitsOf(l.base) /\ (l.base = "" \/ ~TooLong(l))

\* Every net is declared once and driven once, every operand is driven, and
\* what an operator or a net is assigned to is declared.
Legal(f) ==
    /\ f.complete
    /\ f.inputs \cap (f.wires \cup f.outputs \cup Assigned(f)) = {}
    /\ f.wires \cap f.outputs = {}
    /\ f.wires \cup f.outputs \subseteq Assigned(f)
    /\ \A s, t \in f.assigns : s.lhs = t.lhs => s = t
    /\ \A s \in f.assigns :
         /\ s.op \in ValueOps => Plain(s.value)
         /\ s.op \in ElemOps \cup {"Assign"} => s.lhs \in f.wires \cup f.outputs
         /\ \A i \in DOMAIN s.args : s.args[i].net \in f.inputs \cup Assigned(f)

\* No net is called like the inverter or the output gate of another.
Unreserved(f) ==
    LET nets == f.inputs \cup Assigned(f)
    IN  \A m, n \in nets : m \notin {NotName(n), GateName(n)}

\* No net is assigned what depends on it: with a loop a file has no one meaning.
Loopless(f) ==
    \A nets \in SUBSET Assigned(f) :
      nets # {} => \E n \in nets : \A i \in DOMAIN Source(f, n).args : Source(f, n).args[i].net \notin nets

\* Constants and majorities are assigned to wires.
OutputsByGates(f) == \A s \in f.assigns : s.op \in ValueOps \cup {"Maj"} => s.lhs \notin f.outputs

-----------------------------------------------------------------------------
(* Properties.                                                             *)

(* A file that was read has become a graph whose outputs have, for every   *)
(* vector, the values its assignments give them: whatever the order the    *)
(* assignments are reported in, inverters shared or aliased, outputs used  *)
(* as operands, and whether an earlier file failed. A gate must not have   *)
(* lost an operand: addEdge drops the second edge from the same vertex,    *)
(* and only AND and OR do not mind.                                        *)
OutputsAsWritten ==
    stage = "idle" =>
      \A name \in DOMAIN graphs :
        LET g == graphs[name] IN
        Legal(g.file) /\ Unreserved(g.file) /\ OutputsByGates(g.file) /\ Loopless(g.file)
          /\ g.lost \subseteq {"And", "Or"} =>
            \A env \in [g.file.inputs -> {"0", "1"}] :
              LET val == Simulated(g.verts, env)
                  meant == Meaning(g.file, env)
              IN  \A v \in DOMAIN val :
                    g.verts[v].type = "output" => val[v] = meant[g.verts[v].name]

(* With a value-initialised Context no callback throws or runs into        *)
(* undefined behaviour on a legal file, also when other files have been    *)
(* read before: names of theirs are gone.                                  *)
LegalFilesAreRead ==
    stage = "module" /\ clean /\ hint = "zero"
      /\ Legal(File) /\ Unreserved(File) /\ OutputsByGates(File) => ctx.status = "ok"

(* "Each output is connected to exactly one logic gate, which acts as its  *)
(* signal source" (on_outputs in GraphReader.hpp).                         *)
OneSource ==
    \A name \in DOMAIN graphs :
      LET verts == graphs[name].verts
      IN  Legal(graphs[name].file) =>
            \A v \in DOMAIN verts : verts[v].type = "output" => Len(verts[v].ins) = 1

(* "Reuse the same Context across files" (VerilogImport.md): a file is     *)
(* read as with a new Context, though an earlier one failed.               *)
ContextReusable ==
    stage = "module" /\ hint = "zero"
      /\ Legal(File) /\ Unreserved(File) /\ OutputsByGates(File) => ctx.status = "ok"
=============================================================================
