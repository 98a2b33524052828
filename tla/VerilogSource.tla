---------------------------- MODULE VerilogSource ----------------------------
(***************************************************************************)
(* How a subgraph instance reads the Verilog file it was given: no parser, *)
(* but regular expressions over the text. parseVerilogPorts collects the   *)
(* names of the ports, parseVerilogParametersFromText the parameters.      *)
(* A text is a sequence of tokens, a file a sequence of lines; a comment   *)
(* to the end of a line starts with the token "//", white space and quoted *)
(* commas are left out.                                                    *)
(***************************************************************************)
EXTENDS Integers, Sequences, SequencesExt

Symbols == {"(", ")", "[", "]", "{", "}", ",", ";", ":", "#", "=", "+", "-", "/*", "*/",
            "0", "1", "2", "3", "4", "8"}

IsName(t) == t \notin Symbols

PortKeywords == {"wire", "tri", "reg", "logic", "bit", "integer", "signed", "unsigned"}
ParameterKeywords == PortKeywords \cup {"parameter", "localparam", "real"}

FirstOf(text, S) == SelectInSeq(text, LAMBDA t : t \in S)
Before(text, t) == IF FirstOf(text, {t}) = 0 THEN text ELSE SubSeq(text, 1, FirstOf(text, {t}) - 1)
From(text, i) == SubSeq(text, i, Len(text))

\* readVerilogFileWithoutLineComments
WithoutLineComments(lines) == FlattenSeq([i \in DOMAIN lines |-> Before(lines[i], "//")])

\* \bword\b([^;]*); each match starts behind the one before.
RECURSIVE Statements(_, _)
Statements(text, words) ==
    LET rest == From(text, FirstOf(text, words) + 1)
        end == FirstOf(rest, {";"})
    IN  IF FirstOf(text, words) = 0 \/ end = 0 THEN <<>>
        ELSE <<SubSeq(rest, 1, end - 1)>> \o Statements(From(rest, end + 1), words)

\* Depths of brackets; a closing one too many is forgiven.
Deeper(depth, t) ==
    LET step(open, close) == IF t = open THEN 1 ELSE IF t = close /\ depth[open] > 0 THEN -1 ELSE 0
    IN  [o \in {"(", "[", "{"} |->
            depth[o] + step(o, CASE o = "(" -> ")" [] o = "[" -> "]" [] o = "{" -> "}")]

NoDepth == [o \in {"(", "[", "{"} |-> 0]

\* Chunks between commas: everywhere (std::getline), or with
\* splitTopLevelByComma outside brackets.
AtTopLevel(depth) == depth = NoDepth

Split(text, everywhere) ==
    LET step(s, t) ==
          [depth |-> Deeper(s.depth, t),
           chunks |-> IF t = "," /\ (everywhere \/ AtTopLevel(s.depth)) THEN Append(s.chunks, <<>>)
                      ELSE [s.chunks EXCEPT ![Len(s.chunks)] = Append(@, t)]]
    IN  FoldLeft(step, [depth |-> NoDepth, chunks |-> <<<<>>>>], text).chunks

-----------------------------------------------------------------------------
(* Ports.                                                                  *)

NoPorts == [inputs |-> <<>>, outputs |-> <<>>]

\* appendPortNames
PortNames(text) == SelectSeq(text, LAMBDA t : IsName(t) /\ t \notin PortKeywords)

\* collectPortsFromANSIDeclaration: a direction holds until the next one.
ANSIPorts(text) ==
    LET step(s, chunk) ==
          LET at == FirstOf(chunk, {"input", "output"})
              list == IF at = 0 THEN s.list ELSE IF chunk[at] = "input" THEN "inputs" ELSE "outputs"
          IN  [list |-> list,
               ports |-> IF list = "" THEN s.ports
                         ELSE [s.ports EXCEPT ![list] = @ \o PortNames(From(chunk, at + 1))]]
    IN  FoldLeft(step, [list |-> "", ports |-> NoPorts], Split(text, TRUE)).ports

\* module\s+\w+\s*\(([^)]*)\)\s*; where it ends when it starts at i, else 0.
HeaderEnd(text, i) ==
    LET close == i + 2 + FirstOf(From(text, i + 3), {")"})
    IN  IF /\ i + 2 <= Len(text)
           /\ text[i] = "module" /\ IsName(text[i + 1]) /\ text[i + 2] = "("
           /\ close > i + 2 /\ close < Len(text) /\ text[close + 1] = ";"
        THEN close + 1 ELSE 0

HeaderAt(text) == SelectInSeq([i \in DOMAIN text |-> HeaderEnd(text, i)], LAMBDA e : e > 0)

\* Mutant: the header stays, and its ports are read as statements too.
HeadersStay(text) == text

\* regex_replace(clean, moduleRegex, ";")
RECURSIVE WithoutHeaders(_)
WithoutHeaders(text) ==
    LET i == HeaderAt(text)
    IN  IF i = 0 THEN text
        ELSE SubSeq(text, 1, i - 1) \o <<";">> \o WithoutHeaders(From(text, HeaderEnd(text, i) + 1))

\* parseVerilogPorts
Ports(lines) ==
    LET clean == WithoutLineComments(lines)
        i == HeaderAt(clean)
        ansi == IF i = 0 THEN NoPorts ELSE ANSIPorts(SubSeq(clean, i + 3, HeaderEnd(clean, i) - 2))
        body == WithoutHeaders(clean)
        stated(word) == PortNames(FlattenSeq(Statements(body, {word})))
    IN  [inputs |-> ansi.inputs \o stated("input"), outputs |-> ansi.outputs \o stated("output")]

\* checkPortsMatch, with the names of the inputs and outputs of a graph.
PortsMatch(inputs, outputs, ports) ==
    Range(ports.inputs) = inputs /\ Range(ports.outputs) = outputs

-----------------------------------------------------------------------------
(* Parameters.                                                             *)

\* extractParameterName: the last name that is no keyword.
ParameterName(text) ==
    LET names == SelectSeq(text, LAMBDA t : IsName(t) /\ t \notin ParameterKeywords)
    IN  IF names = <<>> THEN "" ELSE Last(names)

\* collectParameterAssignments
Assignments(declaration) ==
    LET assigned(chunk) == /\ FirstOf(chunk, {"="}) \in 2..(Len(chunk) - 1)
                           /\ ParameterName(Before(chunk, "=")) # ""
        chunks == SelectSeq(Split(declaration, FALSE), assigned)
    IN  [i \in DOMAIN chunks |-> <<ParameterName(Before(chunks[i], "=")),
                                   From(chunks[i], FirstOf(chunks[i], {"="}) + 1)>>]

\* module\s+\w+\s*#\s*\(([\s\S]*?)\)\s*\( as an interval of the text, the first
\* closing bracket that an opening one follows.
ParameterPorts(text) ==
    LET starts == {i \in 1..(Len(text) - 3) : /\ text[i] = "module" /\ IsName(text[i + 1])
                                              /\ text[i + 2] = "#" /\ text[i + 3] = "("}
        ends(i) == {j \in (i + 4)..(Len(text) - 1) : text[j] = ")" /\ text[j + 1] = "("}
        fits == {i \in starts : ends(i) # {}}
        least(S) == CHOOSE i \in S : \A j \in S : i <= j
    IN  IF fits = {} THEN <<0, 0>> ELSE <<least(fits) + 4, least(ends(least(fits))) - 1>>

\* parseVerilogParametersFromText
Parameters(lines) ==
    LET clean == WithoutLineComments(lines)
        at == ParameterPorts(clean)
        header == IF at[1] = 0 THEN <<>> ELSE SubSeq(clean, at[1], at[2])
        body == IF at[1] = 0 THEN clean ELSE SubSeq(clean, 1, at[1] - 1) \o From(clean, at[2] + 1)
        stated == Statements(body, {"parameter", "localparam"})
    IN  Assignments(header) \o FlattenSeq([i \in DOMAIN stated |-> Assignments(stated[i])])

\* addVerilogParameter: a name that is there gets the new value.
WithParameter(list, p) ==
    LET i == SelectInSeq(list, LAMBDA q : q[1] = p[1])
    IN  IF i = 0 THEN Append(list, p) ELSE [list EXCEPT ![i] = p]

\* parseAndStoreVerilogParameters: what was there is cleared.
StoredParameters(lines) == FoldLeft(WithParameter, <<>>, Parameters(lines))
=============================================================================
