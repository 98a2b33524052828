----------------------------- MODULE MCStructure -----------------------------
(* Small circuits for the structural queries.                              *)
EXTENDS Structure

\* One instance of a graph with two inputs, a gate and two outputs; in the
\* parent a gate on each side.
OneInstance ==
    [home |-> [i |-> "sub", j |-> "sub", n |-> "sub", o |-> "sub", w |-> "sub",
               a |-> "top", b |-> "top", g |-> "top", s |-> "top", p |-> "top",
               q |-> "top", y |-> "top"],
     type |-> [i |-> "input", j |-> "input", n |-> "gate", o |-> "output", w |-> "output",
               a |-> "input", b |-> "input", g |-> "gate", s |-> "subGraph", p |-> "gate",
               q |-> "gate", y |-> "output"],
     kind |-> [i |-> "", j |-> "", n |-> "GateAnd", o |-> "", w |-> "",
               a |-> "", b |-> "", g |-> "GateOr", s |-> "", p |-> "GateBuf",
               q |-> "GateBuf", y |-> ""],
     order |-> <<"i", "j", "n", "o", "w", "a", "b", "g", "s", "p", "q", "y">>,
     nested |-> [s |-> "sub"],
     buffers |-> [s |-> <<"p", "q">>],
     ins |-> [i |-> <<>>, j |-> <<>>, n |-> <<"i">>, o |-> <<"n">>, w |-> <<>>,
              a |-> <<>>, b |-> <<>>, g |-> <<>>, s |-> <<"a", "b">>, p |-> <<"s">>,
              q |-> <<"s">>, y |-> <<>>],
     wires |-> {<<"i", "n">>, <<"j", "n">>, <<"j", "w">>, <<"i", "w">>, <<"n", "w">>,
                <<"a", "g">>, <<"p", "g">>, <<"q", "g">>, <<"q", "y">>, <<"g", "y">>},
     queries |-> {"connected"},
     unrolled |-> {}, submodules |-> TRUE, width |-> <<>>, slice |-> <<>>, bits |-> <<>>]

\* Two graphs to compare, their gates created in opposite orders.
Twins ==
    [home |-> [i |-> "left", j |-> "left", n |-> "left", m |-> "left", o |-> "left",
               a |-> "right", b |-> "right", g |-> "right", h |-> "right", y |-> "right"],
     type |-> [i |-> "input", j |-> "input", n |-> "gate", m |-> "gate", o |-> "output",
               a |-> "input", b |-> "input", g |-> "gate", h |-> "gate", y |-> "output"],
     kind |-> [i |-> "", j |-> "", n |-> "GateAnd", m |-> "GateNot", o |-> "",
               a |-> "", b |-> "", g |-> "GateNot", h |-> "GateAnd", y |-> ""],
     order |-> <<"i", "j", "n", "m", "o", "a", "b", "g", "h", "y">>,
     nested |-> <<>>,
     buffers |-> <<>>,
     ins |-> [i |-> <<>>, j |-> <<>>, n |-> <<"i">>, m |-> <<>>, o |-> <<"n">>,
              a |-> <<>>, b |-> <<>>, g |-> <<>>, h |-> <<"a", "b">>, y |-> <<"h">>],
     wires |-> {<<"j", "n">>, <<"j", "m">>, <<"i", "m">>, <<"m", "n">>, <<"i", "n">>,
                <<"a", "h">>, <<"b", "g">>, <<"g", "h">>, <<"b", "h">>},
     queries |-> {"hash"},
     unrolled |-> {}, submodules |-> TRUE, width |-> <<>>, slice |-> <<>>, bits |-> <<>>]

\* A cell with all controls beside an instance, and a cell inside.
Cells ==
    [home |-> [i |-> "sub", n |-> "sub", l |-> "sub", o |-> "sub",
               a |-> "top", b |-> "top", c |-> "top", e |-> "top", g |-> "top",
               s |-> "top", p |-> "top", f |-> "top", y |-> "top"],
     type |-> [i |-> "input", n |-> "gate", l |-> "sequential", o |-> "output",
               a |-> "input", b |-> "input", c |-> "input", e |-> "input", g |-> "gate",
               s |-> "subGraph", p |-> "gate", f |-> "sequential", y |-> "output"],
     kind |-> [i |-> "", n |-> "GateNot", l |-> "dffr", o |-> "",
               a |-> "", b |-> "", c |-> "", e |-> "", g |-> "GateOr",
               s |-> "", p |-> "GateBuf", f |-> "dffers", y |-> ""],
     order |-> <<"i", "n", "l", "o", "a", "b", "c", "e", "g", "s", "p", "f", "y">>,
     nested |-> [s |-> "sub"],
     buffers |-> [s |-> <<"p">>],
     ins |-> [i |-> <<>>, n |-> <<"i">>, l |-> <<"n">>, o |-> <<"l">>,
              a |-> <<>>, b |-> <<>>, c |-> <<>>, e |-> <<>>, g |-> <<"a">>,
              s |-> <<"g">>, p |-> <<"s">>, f |-> <<"g", "b", "c", "e", "a">>, y |-> <<"f">>],
     wires |-> {<<"n", "l">>, <<"i", "l">>, <<"p", "y">>, <<"p", "f">>, <<"a", "f">>,
                <<"f", "y">>, <<"p", "g">>, <<"b", "g">>},
     queries |-> {},
     unrolled |-> {"top"}, submodules |-> TRUE, width |-> <<>>, slice |-> <<>>, bits |-> <<>>]

\* A graph in a graph in a graph, wired by position in the opposite order.
Deep ==
    [home |-> [i |-> "sub", j |-> "sub", n |-> "sub", o |-> "sub", w |-> "sub",
               c |-> "mid", d |-> "mid", t |-> "mid", r |-> "mid", u |-> "mid",
               e |-> "mid", f |-> "mid",
               a |-> "top", b |-> "top", s |-> "top", p |-> "top", q |-> "top", y |-> "top"],
     type |-> [i |-> "input", j |-> "input", n |-> "gate", o |-> "output", w |-> "output",
               c |-> "input", d |-> "input", t |-> "subGraph", r |-> "gate", u |-> "gate",
               e |-> "output", f |-> "output",
               a |-> "input", b |-> "input", s |-> "subGraph", p |-> "gate", q |-> "gate",
               y |-> "output"],
     kind |-> [i |-> "", j |-> "", n |-> "GateOr", o |-> "", w |-> "",
               c |-> "", d |-> "", t |-> "", r |-> "GateBuf", u |-> "GateBuf",
               e |-> "", f |-> "",
               a |-> "", b |-> "", s |-> "", p |-> "GateBuf", q |-> "GateBuf", y |-> ""],
     order |-> <<"i", "j", "n", "o", "w", "c", "d", "t", "r", "u", "e", "f",
                 "a", "b", "s", "p", "q", "y">>,
     nested |-> [t |-> "sub", s |-> "mid"],
     buffers |-> [t |-> <<"r", "u">>, s |-> <<"p", "q">>],
     ins |-> [i |-> <<>>, j |-> <<>>, n |-> <<"i">>, o |-> <<"n">>, w |-> <<"j">>,
              c |-> <<>>, d |-> <<>>, t |-> <<"d", "c">>, r |-> <<"t">>, u |-> <<"t">>,
              e |-> <<"r">>, f |-> <<"u">>,
              a |-> <<>>, b |-> <<>>, s |-> <<"a", "b">>, p |-> <<"s">>, q |-> <<"s">>,
              y |-> <<"p">>],
     wires |-> {<<"j", "n">>, <<"n", "w">>, <<"c", "e">>, <<"r", "f">>, <<"q", "y">>, <<"a", "y">>},
     queries |-> {"connected"},
     unrolled |-> {}, submodules |-> TRUE, width |-> <<>>, slice |-> <<>>, bits |-> <<>>]

\* A nested graph of a constant alone, in a graph with outputs alone.
Closed ==
    [home |-> [k |-> "sub", o |-> "sub", s |-> "top", p |-> "top", y |-> "top"],
     type |-> [k |-> "constant", o |-> "output", s |-> "subGraph", p |-> "gate", y |-> "output"],
     kind |-> [k |-> "1", o |-> "", s |-> "", p |-> "GateBuf", y |-> ""],
     order |-> <<"k", "o", "s", "p", "y">>,
     nested |-> [s |-> "sub"],
     buffers |-> [s |-> <<"p">>],
     ins |-> [k |-> <<>>, o |-> <<"k">>, s |-> <<>>, p |-> <<"s">>, y |-> <<"p">>],
     wires |-> {<<"k", "o">>, <<"p", "y">>},
     queries |-> {"connected"},
     unrolled |-> {}, submodules |-> TRUE, width |-> <<>>, slice |-> <<>>, bits |-> <<>>]

\* Two instances of one graph, one of them driven by an inverter.
Shared ==
    [home |-> [i |-> "sub", j |-> "sub", n |-> "sub", m |-> "sub", o |-> "sub",
               a |-> "top", k |-> "top", g |-> "top", h |-> "top", s |-> "top", p |-> "top",
               t |-> "top", q |-> "top", f |-> "top", y |-> "top"],
     type |-> [i |-> "input", j |-> "input", n |-> "gate", m |-> "gate", o |-> "output",
               a |-> "input", k |-> "constant", g |-> "gate", h |-> "gate",
               s |-> "subGraph", p |-> "gate", t |-> "subGraph", q |-> "gate",
               f |-> "sequential", y |-> "output"],
     kind |-> [i |-> "", j |-> "", n |-> "GateAnd", m |-> "GateOr", o |-> "",
               a |-> "", k |-> "1", g |-> "GateNot", h |-> "GateOr",
               s |-> "", p |-> "GateBuf", t |-> "", q |-> "GateBuf",
               f |-> "dff", y |-> ""],
     order |-> <<"i", "j", "n", "m", "o", "a", "k", "g", "h", "s", "p", "t", "q", "f", "y">>,
     nested |-> [s |-> "sub", t |-> "sub"],
     buffers |-> [s |-> <<"p">>, t |-> <<"q">>],
     ins |-> [i |-> <<>>, j |-> <<>>, n |-> <<"i">>, m |-> <<"n", "j">>, o |-> <<"m">>,
              a |-> <<>>, k |-> <<>>, g |-> <<"a">>, h |-> <<"p">>,
              s |-> <<"a", "k">>, p |-> <<"s">>, t |-> <<"p", "g">>, q |-> <<"t">>,
              f |-> <<"h", "a">>, y |-> <<"f">>],
     wires |-> {<<"i", "n">>, <<"j", "m">>, <<"a", "g">>, <<"p", "h">>, <<"q", "h">>},
     queries |-> {"export"},
     unrolled |-> {}, submodules |-> TRUE, width |-> <<>>, slice |-> <<>>, bits |-> <<>>]

\* Buffers and inverters that fork and join.
Chains ==
    [home |-> [v \in {"a", "b", "c", "n", "m", "u", "x", "y"} |-> "top"],
     type |-> [a |-> "input", b |-> "gate", c |-> "gate", n |-> "gate", m |-> "gate",
               u |-> "gate", x |-> "sequential", y |-> "output"],
     kind |-> [a |-> "", b |-> "GateBuf", c |-> "GateNot", n |-> "GateNot", m |-> "GateNot",
               u |-> "GateAnd", x |-> "dff", y |-> ""],
     order |-> <<"a", "b", "c", "n", "m", "u", "x", "y">>,
     nested |-> <<>>,
     buffers |-> <<>>,
     ins |-> [a |-> <<>>, b |-> <<"a">>, c |-> <<"b">>, n |-> <<"b">>, m |-> <<"n">>,
              u |-> <<"c", "m">>, x |-> <<"u", "a">>, y |-> <<"x">>],
     wires |-> {<<"a", "b">>, <<"c", "n">>, <<"b", "n">>, <<"a", "u">>, <<"m", "y">>, <<"u", "c">>,
                <<"b", "c">>, <<"x", "b">>},
     queries |-> {"drawn"},
     unrolled |-> {}, submodules |-> TRUE, width |-> <<>>, slice |-> <<>>, bits |-> <<>>]

\* Pictures depend on the edges alone.
DrawnOf(d) == [d EXCEPT !.queries = {"drawn"}, !.unrolled = {}]

\* A circuit of which only the texts are asked for.
Exported(d, wires) ==
    [d EXCEPT !.queries = {"export"}, !.unrolled = {}, !.wires = wires]

\* unrollGraph depends on the edges alone: no caches beside it.
Unrolled(d) == [d EXCEPT !.queries = {}, !.unrolled = {"top"}]

\* Operands of every length: a gate wider than both its operands, slices that
\* end within, at and past the end of the bus, a literal shorter than its bus,
\* a cell narrower than its data.
Buses ==
    [home |-> [v \in {"a", "b", "s", "k", "n", "x", "i", "r", "t", "e", "w", "q", "y", "z"} |-> "top"],
     type |-> [a |-> "input", b |-> "input", s |-> "input", k |-> "constant", n |-> "gate", x |-> "gate",
               i |-> "gate", r |-> "gate", t |-> "gate", e |-> "gate", w |-> "gate",
               q |-> "sequential", y |-> "output", z |-> "output"],
     kind |-> [a |-> "", b |-> "", s |-> "", k |-> "", n |-> "GateNand", x |-> "GateXor",
               i |-> "GateNot", r |-> "GateSlice", t |-> "GateSlice", e |-> "GateSlice",
               w |-> "GateConcatenation", q |-> "dffe", y |-> "", z |-> ""],
     order |-> <<"a", "b", "s", "k", "n", "x", "i", "r", "t", "e", "w", "q", "y", "z">>,
     nested |-> <<>>,
     buffers |-> <<>>,
     ins |-> [a |-> <<>>, b |-> <<>>, s |-> <<>>, k |-> <<>>, n |-> <<"a", "b">>, x |-> <<"n", "k">>,
              i |-> <<"r">>, r |-> <<"b">>, t |-> <<"b">>, e |-> <<"b">>, w |-> <<"a", "t">>,
              q |-> <<"x", "s", "s">>, y |-> <<"w">>, z |-> <<"i">>],
     wires |-> {<<"s", "n">>, <<"k", "n">>, <<"q", "x">>, <<"n", "r">>, <<"b", "r">>, <<"x", "y">>, <<"w", "y">>},
     queries |-> {"buses"},
     unrolled |-> {}, submodules |-> TRUE,
     width |-> [a |-> 2, b |-> 3, k |-> 4, n |-> 4, x |-> 3, i |-> 3, w |-> 4, q |-> 2, y |-> 4, z |-> 2],
     slice |-> [r |-> <<1, 2>>, t |-> <<1, 5>>, e |-> <<4, 1>>],
     bits |-> [k |-> <<"1", "0">>]]

-----------------------------------------------------------------------------
(* Verilog files for instances of a graph with inputs i, j and output o.   *)

Separated(chunks, by) ==
    FoldLeft(LAMBDA text, c : IF text = <<>> THEN c ELSE text \o <<by>> \o c, <<>>, chunks)

Listed(names) == [k \in DOMAIN names |-> <<names[k]>>]

Directed(word, type, names, grouped) ==
    IF grouped THEN <<<<word>> \o type \o Separated(Listed(names), ",")>>
    ELSE [k \in DOMAIN names |-> <<word>> \o type \o <<names[k]>>]

AssignmentList(list) == Separated([k \in DOMAIN list |-> <<list[k][1], "=">> \o list[k][2]], ",")

Symbolic == <<"[", "W", "-", "1", ":", "0", "]">>

\* Ports in the header (ansi) or in statements; parameters in the header
\* and in the body.
File(f) ==
    LET ports == f.inputs \o f.outputs
        in == Directed("input", f.type, f.inputs, f.grouped)
        out == Directed("output", f.type, f.outputs, f.grouped)
        directed == IF f.outFirst THEN out \o in ELSE in \o out
        opening == <<"module", "m">>
          \o (IF f.header = <<>> THEN <<>> ELSE <<"#", "(", "parameter">> \o AssignmentList(f.header) \o <<")">>)
        stated == <<"localparam", "integer">> \o AssignmentList(f.body) \o <<";">>
    IN  [lines |-> <<opening, <<"(">>>>
                     \o (IF f.ansi THEN <<Separated(directed, ","), <<")", ";", "//", "input", "k", ";">>>>
                         ELSE <<Separated(Listed(ports), ",") \o <<")", ";", "//", "output", "k", ";">>,
                                Separated(directed, ";") \o <<";">>>>)
                     \o (IF f.body = <<>> THEN <<>> ELSE <<stated>>) \o <<<<"endmodule">>>>,
         inputs |-> Range(f.inputs), outputs |-> Range(f.outputs), parameters |-> f.header \o f.body,
         plain |-> f.type # Symbolic /\ (f.ansi => f.header = <<>>)]

W == <<"W", <<"4">>>>
L == <<"L", <<"W", "+", "1">>>>
K == <<"K", <<"{", "1", ",", "2", "}">>>>

Renderings ==
    {f \in [inputs : {<<"j", "i">>, <<"i">>, <<"i", "j", "k">>}, outputs : {<<"o">>, <<"j", "o">>},
            type : {<<>>, <<"reg", "signed", "[", "3", ":", "0", "]">>, Symbolic},
            grouped : BOOLEAN, outFirst : BOOLEAN, ansi : BOOLEAN, header : {<<>>, <<W, K>>}, body : {<<>>}] :
       Range(f.inputs) \cap Range(f.outputs) = {}}

Parameterized(header, body, ansi) ==
    File([inputs |-> <<"i", "j">>, outputs |-> <<"o">>, type |-> <<>>, grouped |-> TRUE,
          outFirst |-> FALSE, ansi |-> ansi, header |-> header, body |-> body])

\* Two instances of one graph below a third graph; only the files matter.
Described ==
    [home |-> [i |-> "sub", j |-> "sub", n |-> "sub", o |-> "sub",
               a |-> "top", b |-> "top", s |-> "top", p |-> "top", t |-> "top", q |-> "top", y |-> "top"],
     type |-> [i |-> "input", j |-> "input", n |-> "gate", o |-> "output",
               a |-> "input", b |-> "input", s |-> "subGraph", p |-> "gate", t |-> "subGraph", q |-> "gate",
               y |-> "output"],
     kind |-> [i |-> "", j |-> "", n |-> "GateAnd", o |-> "",
               a |-> "", b |-> "", s |-> "", p |-> "GateBuf", t |-> "", q |-> "GateBuf", y |-> ""],
     order |-> <<"i", "j", "n", "o", "a", "b", "s", "p", "t", "q", "y">>,
     nested |-> [s |-> "sub", t |-> "sub"],
     buffers |-> [s |-> <<"p">>, t |-> <<"q">>],
     ins |-> [i |-> <<>>, j |-> <<>>, n |-> <<"i", "j">>, o |-> <<"n">>,
              a |-> <<>>, b |-> <<>>, s |-> <<"a", "b">>, p |-> <<"s">>, t |-> <<"a", "p">>, q |-> <<"t">>,
              y |-> <<"q">>],
     wires |-> {},
     queries |-> {"export"},
     unrolled |-> {}, submodules |-> TRUE, width |-> <<>>, slice |-> <<>>, bits |-> <<>>,
     sources |-> ("wk.v" :> Parameterized(<<W, K>>, <<L>>, TRUE)) @@ ("wl.v" :> Parameterized(<<>>, <<W, L>>, FALSE)),
     paths |-> [s |-> {"wk.v", "missing.v"}, t |-> {"wl.v", ""}]]

\* All renderings of the ports, for one of the instances.
Rendered ==
    LET names == {ToString(f) : f \in Renderings}
    IN  [Described EXCEPT !.queries = {},
                          !.sources = [n \in names |-> File(CHOOSE f \in Renderings : ToString(f) = n)],
                          !.paths = [s |-> names]]

\* A gate outside the instance takes one driver and refuses the others; at the
\* start it hangs on one output of the instance alone.
Refusing(d) == [d EXCEPT !.kind["g"] = "GateNot", !.ins["g"] = <<"q">>, !.ins["y"] = <<"q">>]

NoFiles(d) == d @@ [sources |-> <<>>, paths |-> <<>>]

SmallDesigns ==
    {Described, Rendered} \cup {NoFiles(d) : d \in {OneInstance, Deep, Closed, Twins, Buses, Cells, Unrolled(OneInstance), Refusing(OneInstance),
     Unrolled(Refusing(OneInstance)), DrawnOf(Refusing(OneInstance)), Unrolled(Deep),
     Chains, DrawnOf(Shared), DrawnOf(Deep), DrawnOf(OneInstance), Shared, Exported(Cells, {<<"n", "l">>, <<"l", "n">>, <<"p", "g">>, <<"f", "y">>})}}
=============================================================================
