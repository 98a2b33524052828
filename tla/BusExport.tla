------------------------------ MODULE BusExport ------------------------------
(***************************************************************************)
(* Circuits with buses and their two exports: toVerilogBusEnabled prints a *)
(* bus as a vector, toVerilogBusEnabledAsOneBit as one net per bit, with   *)
(* 1'bx where an operand has no such bit.  Both keep nothing, so they are  *)
(* evaluated in the properties.                                            *)
(***************************************************************************)
EXTENDS VerilogExport, GateTables

\* Of a design with buses these fields matter as well:
\*   width: bus -> its width
\*   slice: slice -> the <<begin, width>> given to addSliceBus
\*   bits:  constant bus -> the string given to setValue, as a sequence

IsBus(v) == v \in DOMAIN design.width \cup DOMAIN design.slice

-----------------------------------------------------------------------------
(* Widths.                                                                 *)

\* Mutant: a slice that reaches past the bus keeps the width asked for.
ClampedBegin(source, begin, width) ==
    IF begin >= source THEN [begin |-> source - 1, width |-> 1]
    ELSE [begin |-> begin, width |-> width]

\* addSliceBus, on a bus `source' wide.
Clamped(source, begin, width) ==
    IF width = 0 THEN [begin |-> begin, width |-> 1]
    ELSE IF begin + width <= source THEN [begin |-> begin, width |-> width]
    ELSE IF begin >= source THEN [begin |-> source - 1, width |-> 1]
    ELSE [begin |-> begin, width |-> source - begin]

RECURSIVE Slice(_)
Width(v) ==
    IF v \in DOMAIN design.width THEN design.width[v]
    ELSE IF v \in DOMAIN design.slice THEN Slice(v).width ELSE 1

Slice(v) ==
    LET source == design.ins[v][1]
    IN  IF IsBus(source)
        THEN Clamped(Width(source), design.slice[v][1], design.slice[v][2])
        ELSE [begin |-> 0, width |-> 1]

\* d_valueBus, most significant bit first; setValue pads or cuts on the left.
ValueBus(v) ==
    LET w == Width(v)
        s == design.bits[v]
    IN  IF Len(s) < w THEN [i \in 1..(w - Len(s)) |-> Unknown] \o s
        ELSE SubSeq(s, Len(s) - w + 1, Len(s))

-----------------------------------------------------------------------------
(* The one-bit export.  A net is <<v>> for a scalar, <<v, j>> for name_j.  *)

Filler == <<>>      \* 1'bx

\* Mutant: the comparison of the width is off by one.
BitNetPastEnd(v, j) ==
    IF IsBus(v) THEN (IF j <= Width(v) THEN <<v, j>> ELSE Filler)
    ELSE IF j = 0 THEN <<v>> ELSE Filler

\* What an operand is at bit j (getNamesVectorFirst, getNamesVector).
BitNet(v, j) ==
    IF IsBus(v) THEN (IF j < Width(v) THEN <<v, j>> ELSE Filler)
    ELSE IF j = 0 THEN <<v>> ELSE Filler

\* Mutant: the bits of a slice count from 0.
SliceFromZero(c, v, j) == <<c.ins[v][1], j>>

SliceNet(c, v, j) == <<c.ins[v][1], Slice(v).begin + j>>

\* Mutant: name_0 is the first character.
LiteralFirst(v, j) == ValueBus(v)[j + 1]

Literal(v, j) == ValueBus(v)[Width(v) - j]

\* What the assignment of bit j of a bus output reads, from its first driver;
\* bits beyond that driver have no assignment, which is as good as 1'bx.
OutputBit(c, v, j) == BitNet(c.ins[v][1], j)

\* What the assignment of bit j of a bus reads.
BitReads(c, v, j) ==
    IF design.kind[v] = "GateSlice" THEN <<SliceNet(c, v, j)>>
    ELSE IF Type(v) = "output" THEN <<OutputBit(c, v, j)>>
    ELSE IF design.kind[v] \in Unary THEN <<BitNet(Last(c.ins[v]), j)>>
    ELSE [i \in DOMAIN c.ins[v] |-> BitNet(c.ins[v][i], j)]

\* A cell becomes one instance per bit its data has; scalar pins go to all.
CellBits(c, v) ==
    LET data == c.ins[v][1] IN IF IsBus(data) THEN Min({Width(v), Width(data)}) ELSE Width(v)

CellNet(c, v, p, j) == LET pin == c.ins[v][p] IN IF IsBus(pin) THEN BitNet(pin, j) ELSE <<pin>>

Net(v, j) == IF IsBus(v) THEN <<v, j>> ELSE <<v>>

NetsOf(v) == {Net(v, j) : j \in 0..(Width(v) - 1)}

GateOf(v) ==
    [GateAnd |-> "And", GateNand |-> "Nand", GateOr |-> "Or", GateNor |-> "Nor",
     GateXor |-> "Xor", GateXnor |-> "Xnor", GateNot |-> "Not", GateBuf |-> "Buf",
     GateSlice |-> "Buf", GateConcatenation |-> "Concatenation"][design.kind[v]]

\* { a , b } assigned to one bit is b.
Combine(v, read) == IF GateOf(v) = "Concatenation" THEN Last(read) ELSE Expression(GateOf(v), read)

\* Verilog's value of a net; `now' gives the bits of inputs and cells.
RECURSIVE BitValue(_, _, _)
BitValue(c, net, now) ==
    IF net = Filler THEN Unknown
    ELSE LET v == net[1]
             j == IF Len(net) = 2 THEN net[2] ELSE 0
             reads == IF IsBus(v) THEN BitReads(c, v, j)
                      ELSE [i \in DOMAIN Reads(c, v) |-> <<Reads(c, v)[i]>>]
             values == [i \in DOMAIN reads |-> BitValue(c, reads[i], now)]
         IN  IF net \in DOMAIN now THEN now[net]
             ELSE CASE Type(v) = "constant" -> IF IsBus(v) THEN Literal(v, j) ELSE design.kind[v]
                    [] Type(v) = "output" -> values[1]
                    [] OTHER -> Combine(v, values)

-----------------------------------------------------------------------------
(* The vector export: operands are extended with zeroes to the widest net  *)
(* of the assignment.                                                      *)

\* The bits of a concatenation, least significant first.
Concatenated(c, v) ==
    FlattenSeq([i \in DOMAIN c.ins[v] |->
        LET u == Reverse(c.ins[v])[i] IN [k \in 1..Width(u) |-> <<u, k - 1>>]])

RECURSIVE VectorValue(_, _, _, _)
VectorValue(c, v, j, now) ==
    LET at(u, k) == VectorValue(c, u, k, now)
        bits == Concatenated(c, v)
    IN  IF j >= Width(v) THEN "0"
        ELSE IF Net(v, j) \in DOMAIN now THEN now[Net(v, j)]
        ELSE CASE Type(v) = "constant" -> IF IsBus(v) THEN Reverse(ValueBus(v))[j + 1] ELSE design.kind[v]
               [] design.kind[v] = "GateSlice" -> at(c.ins[v][1], Slice(v).begin + j)
               [] design.kind[v] = "GateConcatenation" ->
                    IF j < Len(bits) THEN at(bits[j + 1][1], bits[j + 1][2]) ELSE "0"
               [] Type(v) = "output" -> at(c.ins[v][1], j)
               [] OTHER -> Expression(GateOf(v), [i \in DOMAIN Reads(c, v) |-> at(Reads(c, v)[i], j)])

-----------------------------------------------------------------------------
(* Where bit j of v depends on an operand that is too short for it.        *)
RECURSIVE Short(_, _, _)
Short(c, v, j) ==
    IF j >= Width(v) THEN TRUE
    ELSE CASE Type(v) \in {"input", "constant", "sequential"} -> FALSE
      [] design.kind[v] = "GateSlice" -> Short(c, c.ins[v][1], Slice(v).begin + j)
      [] design.kind[v] = "GateConcatenation" -> Short(c, Last(c.ins[v]), j)
      [] OTHER -> \E i \in DOMAIN Reads(c, v) : Short(c, Reads(c, v)[i], j)

Assignable(c, g) ==
    {v \in Range(Live(c, g, "gate") \o Outputs(g)) : c.ins[v] # <<>>}

\* The circuits either export can print: no scalar reads a bus, a slice reads
\* one as wide as it was made for, cells are buses with scalar controls.
Printable(c, g) ==
    /\ \A v \in Assignable(c, g) :
         /\ ~IsBus(v) => \A u \in Range(c.ins[v]) : ~IsBus(u)
         /\ design.kind[v] = "GateSlice" =>
              /\ Len(c.ins[v]) = 1
              /\ IsBus(c.ins[v][1])
              /\ Width(c.ins[v][1]) >= Width(design.ins[v][1])
    /\ \A v \in Range(Live(c, g, "sequential")) :
         IsBus(v) /\ \A p \in 2..Len(c.ins[v]) : ~IsBus(c.ins[v][p])

\* Values of the inputs and of what the cells hold.
Moments(c, g) ==
    [UNION {NetsOf(v) : v \in Range(Inputs(g) \o Live(c, g, "sequential"))} -> {"0", "1"}]

(* The one-bit export of a graph reads only nets it declares, gives every  *)
(* bit the value the vector export gives it, or leaves it unknown where an *)
(* operand is too short, and loads into the cells what the vector export   *)
(* loads (toVerilogBusEnabledAsOneBit, toVerilogBusEnabled, addSliceBus,   *)
(* GraphVertexBusConstant::setValue).  Of a cell wider than its data this  *)
(* is about the bits the data has: the one-bit export leaves the others    *)
(* undriven, the vector export loads them with 0.                          *)
OneBitRefines ==
    \A g \in {h \in Graphs : "buses" \in design.queries} :
        LET c == AllScrubbed([ins |-> ins, gone |-> gone], g)
            declared == UNION {NetsOf(v) : v \in DOMAIN Declared(c, g, TRUE)} \cup {Filler}
            cells == Range(Live(c, g, "sequential"))
        IN  Printable(c, g) =>
              /\ \A v \in {w \in Assignable(c, g) : IsBus(w)} : \A j \in 0..(Width(v) - 1) :
                   Range(BitReads(c, v, j)) \subseteq declared
              /\ \A now \in Moments(c, g) :
                   /\ \A v \in Assignable(c, g) : \A j \in 0..(Width(v) - 1) :
                        LET bit == BitValue(c, Net(v, j), now)
                        IN  \/ bit = VectorValue(c, v, j, now)
                            \/ bit = Unknown /\ Short(c, v, j)
                   /\ \A v \in cells : \A p \in DOMAIN c.ins[v] : \A j \in 0..(CellBits(c, v) - 1) :
                        LET pin == c.ins[v][p]
                            k == IF IsBus(pin) THEN j ELSE 0
                            bit == BitValue(c, CellNet(c, v, p, j), now)
                        IN  \/ bit = VectorValue(c, pin, k, now)
                            \/ bit = Unknown /\ Short(c, pin, k)
=============================================================================
