---------------------------- MODULE VerilogExport ----------------------------
(***************************************************************************)
(* OrientedGraph::toVerilog: the graph is scrubbed of undriven logic, its  *)
(* nested graphs are exported (always without a file name, so that nothing *)
(* of them is written), and the text of the module goes to a file if one   *)
(* could be opened.  A text is what a Verilog compiler reads in it:        *)
(* declared nets, continuous assignments, cells and instances.             *)
(***************************************************************************)
EXTENDS Hierarchy, VerilogSource

CONSTANT MaxExports     \* bound: calls of toVerilog in a behaviour

VARIABLES
    exports,    \* calls so far
    gone,       \* vertices removed by removeEmptyLogicVertices
    files,      \* graph -> the text last written for it
    counts,     \* <<graph, nested>> -> d_graphInstanceToVerilogCount
    stale,      \* graphs changed since their file was written
    exported,   \* the last call: its graph, what it returned, whether it wrote;
                \* thrown when a Verilog file is missing, undefined when it read
                \* pins an instance no longer has
    path,       \* instance -> d_verilogPath, "" when it has none
    parameters  \* graph -> d_verilogParameters

exporting == <<exports, gone, files, counts, stale, exported, path, parameters>>

Nothing ==
    [graph |-> "", returned |-> FALSE, wrote |-> FALSE, thrown |-> FALSE, undefined |-> FALSE]

-----------------------------------------------------------------------------
(* removeEmptyLogicVertices on a circuit c = [ins, gone].                  *)

ScrubVertex(c, v) ==
    IF v \in c.gone \/ c.ins[v] # <<>> THEN c
    ELSE [ins |-> [w \in Vertices |-> SwapRemove(c.ins[w], v)], gone |-> c.gone \cup {v}]

ScrubPass(c, g) == FoldLeft(ScrubVertex, c, Bucket(g, "gate") \o Bucket(g, "sequential"))

RECURSIVE Scrubbed(_, _)
Scrubbed(c, g) == IF ScrubPass(c, g) = c THEN c ELSE Scrubbed(ScrubPass(c, g), g)

\* getVerilogInstance() prints every instance, and so exports every nested
\* graph below g.
Below(g) == {GraphAt(g, p) : p \in PathsFrom(g)} \ {g}

AllScrubbed(c, g) == FoldSet(LAMBDA h, d : Scrubbed(d, h), Scrubbed(c, g), Below(g))

-----------------------------------------------------------------------------
(* The text of one module.                                                 *)

Live(c, g, type) == SelectSeq(Bucket(g, type), LAMBDA v : v \notin c.gone)

\* Mutant: the outputs of instances are forgotten.
DeclaredBuckets(c, g, byInstance) ==
    [v \in Range(Inputs(g)) |-> "input"] @@ [v \in Range(Outputs(g)) |-> "output"]
    @@ [v \in Range(Live(c, g, "gate")) \cup Range(Live(c, g, "constant")) |-> "wire"]
    @@ [v \in Range(Live(c, g, "sequential")) |-> IF byInstance THEN "wire" ELSE "reg"]

\* verilogVerticesDeclaration and the declarations of constants.
Declared(c, g, byInstance) ==
    [v \in Range(Inputs(g)) |-> "input"] @@ [v \in Range(Outputs(g)) |-> "output"]
    @@ [v \in BuffersIn(g) \cup Range(Live(c, g, "gate")) \cup Range(Live(c, g, "constant")) |-> "wire"]
    @@ [v \in Range(Live(c, g, "sequential")) |-> IF byInstance THEN "wire" ELSE "reg"]

\* What an assignment reads: an output its first driver, a buffer or inverter
\* its last, another gate all.
Reads(c, v) ==
    IF Type(v) = "output" THEN <<c.ins[v][1]>>
    ELSE IF design.kind[v] \in Unary THEN <<Last(c.ins[v])>>
    ELSE c.ins[v]

Assigned(c, g) ==
    [v \in {w \in Range(Live(c, g, "gate") \o Outputs(g)) : c.ins[w] # <<>>} |-> Reads(c, v)]
    @@ [v \in Range(Live(c, g, "constant")) |-> <<>>]

CellsOf(c, g) == [v \in Range(Live(c, g, "sequential")) |-> c.ins[v]]

\* getGraphInstVerilog counts the instances of one nested graph.
Number(k, before, h) == k + Len(SelectSeq(before, LAMBDA s : design.nested[s] = h))

\* Mutant: the ports are connected in the order the nets are stored, outputs first.
PinsReversed(c, s) ==
    LET h == design.nested[s]
    IN  [o \in Range(Outputs(h)) |-> BuffersOf(s)[PositionOf(Outputs(h), o)]]
        @@ [i \in Range(Inputs(h)) |-> Reverse(c.ins[s])[PositionOf(Inputs(h), i)]]

\* GraphVertexSubGraph::toVerilog: port .name ( net ), both by position.
Pins(c, s) ==
    LET h == design.nested[s]
    IN  [i \in Range(Inputs(h)) |-> c.ins[s][PositionOf(Inputs(h), i)]]
        @@ [o \in Range(Outputs(h)) |-> BuffersOf(s)[PositionOf(Outputs(h), o)]]

\* An instance of a graph without outputs is not printed.
Printed(g) == SelectSeq(Bucket(g, "subGraph"), LAMBDA s : Outputs(design.nested[s]) # <<>>)

InstanceTexts(c, g) ==
    [i \in DOMAIN Printed(g) |->
        LET s == Printed(g)[i]
            h == design.nested[s]
        IN  [module |-> h, number |-> Number(counts[g, h], SubSeq(Printed(g), 1, i - 1), h),
             pins |-> Pins(c, s)]]

Text(c, g, byInstance, list, read) ==
    [parameters |-> list, read |-> read, declared |-> Declared(c, g, byInstance), assigned |-> Assigned(c, g),
     cells |-> CellsOf(c, g), byInstance |-> byInstance, instances |-> InstanceTexts(c, g)]

-----------------------------------------------------------------------------
(* What a call does, in order: each instance first exports its graph       *)
(* ("enter"), for which it reads the file it was given, and then prints    *)
(* itself, reading one driver per input of its graph.                      *)

RECURSIVE Visits(_)
Visits(g) ==
    FlattenSeq([i \in DOMAIN Bucket(g, "subGraph") |->
        LET s == Bucket(g, "subGraph")[i]
        IN  <<<<"enter", s>>>> \o Visits(design.nested[s]) \o <<<<"print", s>>>>])

MissingFile(e) == e[1] = "enter" /\ path[e[2]] \notin DOMAIN design.sources \cup {""}

\* An instance of a graph without outputs reads no pins.
PinsMissing(c, e) ==
    /\ e[1] = "print"
    /\ Outputs(design.nested[e[2]]) # <<>>
    /\ Len(c.ins[e[2]]) < Len(Inputs(design.nested[e[2]]))

\* The visits up to the one that throws or reads beyond its pins.
Made(c, visits) ==
    LET end == SelectInSeq(visits, LAMBDA e : MissingFile(e) \/ PinsMissing(c, e))
    IN  IF end = 0 THEN visits ELSE SubSeq(visits, 1, end - 1)

Entered(visits, h) ==
    SelectSeq(visits, LAMBDA e : e[1] = "enter" /\ design.nested[e[2]] = h)

\* The parameters a graph has after visits: of the last file read for it.
ParametersAfter(visits, h) ==
    LET reads == SelectSeq(Entered(visits, h), LAMBDA e : path[e[2]] # "")
    IN  IF reads = <<>> THEN parameters[h]
        ELSE StoredParameters(design.sources[path[Last(reads)[2]]].lines)

ExportInit ==
    /\ exports = 0
    /\ gone = {}
    /\ files = <<>>
    /\ counts = [e \in Graphs \X Graphs |-> 0]
    /\ stale = {}
    /\ exported = Nothing
    /\ path = [s \in Instances |-> ""]
    /\ parameters = [g \in Graphs |-> <<>>]

IsNested(g) == \E s \in Instances : design.nested[s] = g

Opens(g, named) == named /\ (IsNested(g) => design.submodules)

\* getGraphInstVerilog counts what is printed, also to nowhere.
Counted(visits) ==
    [e \in Graphs \X Graphs |->
        counts[e] + Len(SelectSeq(visits, LAMBDA v :
            /\ v[1] = "print"
            /\ Outputs(design.nested[v[2]]) # <<>>
            /\ <<design.home[v[2]], design.nested[v[2]]>> = e))]

\* toVerilog(path, name): TRUE whether or not the stream could be opened; what
\* throws leaves a torn file. `through' is the instance it was called of, if any:
\* that reads its own file first.
ExportOf(g, named, byInstance, through) ==
    LET visits == (IF through = "" THEN <<>> ELSE <<<<"enter", through>>>>) \o Visits(g)
        enter(d, e) == IF e[1] = "enter" THEN Scrubbed(d, design.nested[e[2]]) ELSE d
        scrubbed(d, list) == FoldLeft(enter, Scrubbed(d, g), list)
        before == [ins |-> ins, gone |-> gone]
        made == Made(scrubbed(before, visits), visits)
        begun == through = "" \/ made # <<>>
        c == IF begun THEN scrubbed(before, made) ELSE before
        touched == {h \in Graphs : \E v \in c.gone \ gone : design.home[v] = h}
        complete == made = visits
        wrote == Opens(g, named) /\ complete
        thrown == ~complete /\ MissingFile(visits[Len(made) + 1])
        list == ParametersAfter(made, g)
        read == IF through = "" THEN "" ELSE path[through]
    IN  /\ exports < MaxExports
        /\ exports' = exports + 1
        /\ ins' = c.ins
        /\ gone' = c.gone
        /\ refused' = {e \in refused : e[1] \notin c.gone}
        /\ parameters' = [h \in Graphs |-> ParametersAfter(made, h)]
        /\ files' = IF wrote THEN (g :> Text(c, g, byInstance, list, read)) @@ files
                    ELSE [h \in DOMAIN files \ (IF begun /\ Opens(g, named) THEN {g} ELSE {}) |-> files[h]]
        /\ counts' = Counted(made)
        /\ stale' = (stale \cup touched) \ (IF wrote THEN {g} ELSE {})
        /\ exported' = [graph |-> g, returned |-> complete, wrote |-> wrote,
                        thrown |-> thrown, undefined |-> ~complete /\ ~thrown]
        /\ UNCHANGED <<design, edits, path>>

ToVerilog(g, named, byInstance) == ExportOf(g, named, byInstance, "")

\* GraphVertexSubGraph::toVerilog(path, name)
InstanceToVerilog(s, named) == ExportOf(design.nested[s], named, FALSE, s)

SetVerilogPath(s, file) ==
    /\ edits < MaxEdits
    /\ edits' = edits + 1
    /\ path' = [path EXCEPT ![s] = file]
    /\ exported' = Nothing
    /\ UNCHANGED <<design, ins, refused, exports, gone, files, counts, stale, parameters>>

ExportEdited ==
    /\ stale' = stale \cup {design.home[v] : v \in {w \in Vertices : ins'[w] # ins[w]}}
    /\ exported' = Nothing
    /\ UNCHANGED <<exports, gone, files, counts, path, parameters>>

-----------------------------------------------------------------------------
(* Reading the texts back.                                                 *)

InstanceText(g, s) == files[g].instances[PositionOf(Printed(g), s)]

\* The net an output port is bound to, from inside.
BoundTo(g, n) == {s \in Range(Printed(g)) :
                    \E o \in Range(Outputs(design.nested[s])) : InstanceText(g, s).pins[o] = n}

RECURSIVE TextSources(_, _, _)
TextSources(top, p, n) ==
    LET g == GraphAt(top, p)
    IN  IF files[g].declared[n] = "input" /\ p # <<>>
        THEN TextSources(top, Front(p), InstanceText(GraphAt(top, Front(p)), Last(p)).pins[n])
        ELSE IF BoundTo(g, n) # {}
        THEN UNION {LET h == design.nested[s]
                        port == CHOOSE o \in Range(Outputs(h)) : InstanceText(g, s).pins[o] = n
                    IN  IF port \notin DOMAIN files[h].assigned THEN {}
                        ELSE TextSources(top, Append(p, s), files[h].assigned[port][1])
                    : s \in BoundTo(g, n)}
        ELSE {<<p, n>>}

\* The edges of the flat circuit the files of top and below stand for.
TextEdges(top) ==
    UNION {LET text == files[GraphAt(top, p)]
               reads == text.assigned @@ text.cells
           IN  UNION {UNION {{<<m, <<p, v>>>> : m \in TextSources(top, p, u)} : u \in Range(reads[v])}
                      : v \in {w \in DOMAIN reads : p = <<>> \/ text.declared[w] # "output"}}
           : p \in PathsFrom(top)}

Compiled(g) == Below(g) \cup {g} \subseteq DOMAIN files \ stale

-----------------------------------------------------------------------------
(* The files of a graph and of everything nested in it, written in any     *)
(* order and any number of times, with edits and scrubs between, compile   *)
(* to the circuit the graphs are, when none changed after its file was     *)
(* written and no output has two drivers (toVerilog).                      *)
TextIsCircuit ==
    \A g \in DOMAIN files :
        /\ ~exported.undefined
        /\ Compiled(g)
        /\ \A v \in Vertices : Type(v) = "output" => Len(ins[v]) <= 1
        => TextEdges(g) = FlatEdges(g)

(* Every text is one Verilog can compile: what it reads or binds is        *)
(* declared, continuous assignments and instances drive wires, always      *)
(* blocks registers, and no two instances share a name                     *)
(* (verilogVerticesDeclaration, getGraphInstVerilog).                      *)
TextIsLegal ==
    \A g \in DOMAIN files :
        LET text == files[g]
            bound == UNION {Range(text.instances[i].pins) : i \in DOMAIN text.instances}
            read == UNION {Range(r) : r \in Range(text.assigned) \cup Range(text.cells)}
        IN  /\ bound \cup read \cup DOMAIN text.assigned \cup DOMAIN text.cells
                 \subseteq DOMAIN text.declared
            /\ \A v \in DOMAIN text.assigned : text.declared[v] \in {"wire", "output"}
            /\ \A v \in DOMAIN text.cells :
                 text.declared[v] = (IF text.byInstance THEN "wire" ELSE "reg")
            /\ \A i, j \in DOMAIN text.instances :
                 /\ text.instances[i].module = text.instances[j].module
                 /\ text.instances[i].number = text.instances[j].number
                 => i = j

(* checkPortsMatch accepts no file whose ports are not those of the nested *)
(* graph, and every such file in the styles parseVerilogPorts is made for: *)
(* one module, the directions in the header or in statements of their own, *)
(* names grouped or not, plain ranges, comments to the end of a line.      *)
PortsAsDeclared ==
    \A s \in Instances :
      LET file == design.sources[path[s]]
          h == design.nested[s]
          match == PortsMatch(Range(Inputs(h)), Range(Outputs(h)), Ports(file.lines))
          declared == file.inputs = Range(Inputs(h)) /\ file.outputs = Range(Outputs(h))
      IN  path[s] \in DOMAIN design.sources =>
            (match => declared) /\ (declared /\ file.plain => match)

(* The file of a graph exported through an instance has exactly the        *)
(* parameters the Verilog file of that instance declares, in order, the    *)
(* last value of each: whatever files other instances of the graph read,   *)
(* with exports between them that threw half way.                          *)
ParametersAsDeclared ==
    \A h \in DOMAIN files :
        files[h].read # "" => files[h].parameters = design.sources[files[h].read].parameters

(* What an instance takes from the Verilog file it refers to, for the      *)
(* header of its parent's file and its own: ports and parameters are those *)
(* that are declared there.                                                *)
InterfacesAsDeclared == PortsAsDeclared /\ ParametersAsDeclared

(* "@return flag, if file was correctly created or not" (OrientedGraph.hpp *)
(* on toVerilog).                                                          *)
ReturnsWhetherWritten == exported.returned => exported.wrote
=============================================================================
