---- MODULE MCSimulation ----
(* Circuits for Simulation.tla.  Feedback and a registry order that is not   *)
(* the order of the wires need no special call: a client takes all edges of *)
(* a cell away and adds others, in the order of its pins.                   *)
EXTENDS Simulation, TLC

Known == {"0", "1"}
UnknownToo == Known \cup {"x"}

Plain == [ff |-> TRUE, async |-> FALSE, neg |-> FALSE, en |-> FALSE, clear |-> "none", set |-> FALSE]
Latch == [Plain EXCEPT !.ff = FALSE, !.en = TRUE]

Flat(signals, kind, ins, cell, const, input, output, gate, seq) ==
  [signals |-> signals, kind |-> kind, ins |-> ins, outs |-> <<>>, cell |-> cell, const |-> const, nested |-> <<>>,
   input |-> ("top" :> input), output |-> ("top" :> output), gate |-> ("top" :> gate),
   sub |-> ("top" :> <<>>), seq |-> ("top" :> seq)]

Kinds ==
  "clk" :> "input" @@ "d" :> "input" @@ "e" :> "input" @@ "f1" :> "seq" @@ "f2" :> "seq"
    @@ "g1" :> "Not" @@ "g2" :> "Nand" @@ "o1" :> "output" @@ "o2" :> "output"

\* Two flip-flops and two gates.  f1 takes any of the cells below with e at its
\* control pin, the data pins and the inner gate are wired in every way, and
\* the registry has the flip-flops in both orders.
ControlCells ==
  {[Plain EXCEPT !.en = TRUE], [Plain EXCEPT !.clear = "RST", !.async = TRUE],
   [Plain EXCEPT !.clear = "CLR"], [Plain EXCEPT !.set = TRUE]}

RegisterCircuits ==
  {Flat(Known, Kinds,
        "clk" :> <<>> @@ "d" :> <<>> @@ "e" :> <<>>
          @@ "f1" :> <<d1, "clk", "e">> @@ "f2" :> <<d2, "clk">>
          @@ "g1" :> <<a>> @@ "g2" :> <<"g1", "d">> @@ "o1" :> <<"f2">> @@ "o2" :> <<"g2">>,
        "f1" :> cell @@ "f2" :> Plain, <<>>,
        <<"clk", "d", "e">>, <<"o1", "o2">>, <<"g1", "g2">>, order) :
     cell \in ControlCells, d1 \in {"d", "f2", "g2"},
     d2 \in {"f1", "g1", "g2"}, a \in {"f1", "f2"}, order \in {<<"f1", "f2">>, <<"f2", "f1">>}}

\* One flip-flop with every control pin at once: ffrse, ffcse and naffrse.
FullCells ==
  {[ff |-> TRUE, async |-> async, neg |-> async, en |-> TRUE, clear |-> clear, set |-> TRUE] :
     async \in BOOLEAN, clear \in {"RST", "CLR"}} \ {[ff |-> TRUE, async |-> TRUE, neg |-> TRUE,
                                                en |-> TRUE, clear |-> "CLR", set |-> TRUE]}

ControlCircuits ==
  {Flat(UnknownToo, "clk" :> "input" @@ "en" :> "input" @@ "r" :> "input" @@ "s" :> "input"
          @@ "f1" :> "seq" @@ "g1" :> "Not" @@ "o1" :> "output",
        "clk" :> <<>> @@ "en" :> <<>> @@ "r" :> <<>> @@ "s" :> <<>>
          @@ "f1" :> <<"g1", "clk", "en", "r", "s">> @@ "g1" :> <<"f1">> @@ "o1" :> <<"f1">>,
        "f1" :> cell, <<>>, <<"clk", "en", "r", "s">>, <<"o1">>, <<"g1">>, <<"f1">>) :
     cell \in FullCells}

\* A register whose complement is its next value, read through a buffer.
Toggle ==
  Flat(Known, "clk" :> "input" @@ "r" :> "input" @@ "f1" :> "seq" @@ "g1" :> "Not" @@ "g2" :> "Buf"
         @@ "o1" :> "output",
       "clk" :> <<>> @@ "r" :> <<>> @@ "f1" :> <<"g1", "clk", "r">> @@ "g1" :> <<"f1">>
         @@ "g2" :> <<"g1">> @@ "o1" :> <<"g2">>,
       "f1" :> [Plain EXCEPT !.clear = "CLR", !.async = TRUE], <<>>, <<"clk", "r">>, <<"o1">>,
       <<"g1", "g2">>, <<"f1">>)
AfterEdge == {Toggle}

\* Two flip-flops that feed one another directly.
Ring ==
  Flat(Known, "clk" :> "input" @@ "s" :> "input" @@ "f1" :> "seq" @@ "f2" :> "seq" @@ "o1" :> "output",
       "clk" :> <<>> @@ "s" :> <<>> @@ "f1" :> <<"f2", "clk", "s">> @@ "f2" :> <<"f1", "clk">>
         @@ "o1" :> <<"f2">>,
       "f1" :> [Plain EXCEPT !.set = TRUE] @@ "f2" :> Plain, <<>>, <<"clk", "s">>, <<"o1">>, <<>>,
       <<"f1", "f2">>)
Rings == {Ring}

\* A latch that reads, through a gate, a latch registered after it.
LatchChain(order) ==
  Flat(Known, "en" :> "input" @@ "d" :> "input" @@ "l1" :> "seq" @@ "l2" :> "seq" @@ "g1" :> "Buf"
         @@ "g2" :> "Buf" @@ "o1" :> "output",
       "en" :> <<>> @@ "d" :> <<>> @@ "l1" :> <<"d", "en">> @@ "l2" :> <<"g1", "en">>
         @@ "g1" :> <<"l1">> @@ "g2" :> <<"l2">> @@ "o1" :> <<"g2">>,
       "l1" :> Latch @@ "l2" :> Latch, <<>>, <<"en", "d">>, <<"o1">>, <<"g1", "g2">>, order)
LatchesInOrder == {LatchChain(<<"l1", "l2">>)}
LatchesBackwards == {LatchChain(<<"l2", "l1">>)}

\* Instances of graphs with one flip-flop: `up` in the top graph, and `down`
\* fed by its buffer when the chain is long.
Instance(long) ==
  [signals |-> Known, kind |-> "clk" :> "input" @@ "d" :> "input" @@ "up" :> "sub" @@ "b1" :> "Buf" @@ "o1" :> "output"
              @@ "c1" :> "input" @@ "i1" :> "input" @@ "q1" :> "seq" @@ "y1" :> "output"
              @@ IF long THEN "down" :> "sub" @@ "b2" :> "Buf"
                                @@ "i2" :> "input" @@ "h2" :> "Not" @@ "y2" :> "output"
                 ELSE <<>>,
   ins |-> "clk" :> <<>> @@ "d" :> <<>> @@ "up" :> <<"clk", "d">> @@ "b1" :> <<"up">>
              @@ "o1" :> <<IF long THEN "b2" ELSE "b1">>
              @@ "c1" :> <<>> @@ "i1" :> <<>> @@ "q1" :> <<"i1", "c1">> @@ "y1" :> <<"q1">>
              @@ IF long THEN "down" :> <<"b1">> @@ "b2" :> <<"down">>
                                @@ "i2" :> <<>> @@ "h2" :> <<"i2">> @@ "y2" :> <<"h2">>
                 ELSE <<>>,
   outs |-> "up" :> <<"b1">> @@ IF long THEN "down" :> <<"b2">> ELSE <<>>,
   cell |-> "q1" :> Plain, const |-> <<>>,
   nested |-> "up" :> "one" @@ IF long THEN "down" :> "two" ELSE <<>>,
   input |-> "top" :> <<"clk", "d">> @@ "one" :> <<"c1", "i1">>
                @@ IF long THEN "two" :> <<"i2">> ELSE <<>>,
   output |-> "top" :> <<"o1">> @@ "one" :> <<"y1">> @@ IF long THEN "two" :> <<"y2">> ELSE <<>>,
   gate |-> "top" :> <<>> @@ "one" :> <<>> @@ "two" :> <<"h2">>,
   sub |-> "top" :> (IF long THEN <<"up", "down">> ELSE <<"up">>) @@ "one" :> <<>> @@ "two" :> <<>>,
   seq |-> "top" :> <<>> @@ "one" :> <<"q1">> @@ IF long THEN "two" :> <<>> ELSE <<>>]
OneInstance == {Instance(FALSE)}
InstanceChain == {Instance(TRUE)}

\* Two instances of one graph without cells, the second fed by the first.
TwoInstances ==
  {[signals |-> Known, kind |-> "a" :> "input" @@ "b" :> "input" @@ "u" :> "sub" @@ "w" :> "sub"
               @@ "b1" :> "Buf" @@ "b2" :> "Buf" @@ "o1" :> "output" @@ "o2" :> "output"
               @@ "i1" :> "input" @@ "i2" :> "input" @@ "n" :> "Nor" @@ "y" :> "output",
    ins |-> "a" :> <<>> @@ "b" :> <<>> @@ "u" :> <<"a", "b">> @@ "w" :> <<second, "b">>
               @@ "b1" :> <<"u">> @@ "b2" :> <<"w">> @@ "o1" :> <<"b1">> @@ "o2" :> <<"b2">>
               @@ "i1" :> <<>> @@ "i2" :> <<>> @@ "n" :> <<"i1", "i2">> @@ "y" :> <<"n">>,
    outs |-> "u" :> <<"b1">> @@ "w" :> <<"b2">>, cell |-> <<>>, const |-> <<>>,
    nested |-> "u" :> "one" @@ "w" :> "one",
    input |-> "top" :> <<"a", "b">> @@ "one" :> <<"i1", "i2">>,
    output |-> "top" :> order @@ "one" :> <<"y">>,
    gate |-> "top" :> <<>> @@ "one" :> <<"n">>, sub |-> "top" :> <<"u", "w">> @@ "one" :> <<>>,
    seq |-> "top" :> <<>> @@ "one" :> <<>>] :
     second \in {"a", "b1"}, order \in {<<"o1", "o2">>, <<"o2", "o1">>}}

\* The buffer of an instance read by a gate: maj(a) & b.
BufferIntoGate ==
  {[signals |-> Known, kind |-> "a" :> "input" @@ "b" :> "input" @@ "m" :> "sub" @@ "b1" :> "Buf" @@ "g1" :> "And"
               @@ "o1" :> "output" @@ "i1" :> "input" @@ "y1" :> "output",
    ins |-> "a" :> <<>> @@ "b" :> <<>> @@ "m" :> <<"a">> @@ "b1" :> <<"m">>
               @@ "g1" :> <<"b1", "b">> @@ "o1" :> <<"g1">> @@ "i1" :> <<>> @@ "y1" :> <<"i1">>,
    outs |-> "m" :> <<"b1">>, cell |-> <<>>, const |-> <<>>, nested |-> "m" :> "one",
    input |-> "top" :> <<"a", "b">> @@ "one" :> <<"i1">>,
    output |-> "top" :> <<"o1">> @@ "one" :> <<"y1">>,
    gate |-> "top" :> <<"g1">> @@ "one" :> <<>>, sub |-> "top" :> <<"m">> @@ "one" :> <<>>,
    seq |-> "top" :> <<>> @@ "one" :> <<>>]}

SmallCircuits == RegisterCircuits \cup ControlCircuits \cup OneInstance \cup TwoInstances \cup LatchesInOrder
====
