------------------------------- MODULE MCBench -------------------------------
(***************************************************************************)
(* Small circuits and benches for TLC.                                     *)
(***************************************************************************)
EXTENDS SequentialBench

Clock(period, reset) ==
    [clockPeriod |-> period, resetDuration |-> reset, stimulusDelay |-> 2, resetActiveValue |-> 0]

Port(dir, range, name) == <<[dir |-> dir, names |-> <<name>>, word |-> "", range |-> range]>>

Worded(word, line) == <<[line[1] EXCEPT !.word = word]>>

\* A model of what Logic computes, or of less.
Golden(lines, bits, out1, out2) ==
    [named |-> TRUE, lines |-> lines, bits |-> bits,
     kind |-> [gn |-> "Nor", gm |-> "Xor", gk |-> "Not"],
     drivers |-> ("gn" :> <<bits.i[1], IF Len(bits.i) = 1 THEN bits.j[1] ELSE bits.i[2]>>)
                   @@ ("gm" :> <<"gn", bits.i[1]>>) @@ ("gk" :> <<"gm">>)
                   @@ (out1 :> <<"gk">>) @@ (out2 :> <<"gm">>)]

Bus(name, n) == [k \in 1..n |-> name \o ToString(k)]
Models ==
    LET vector == [i |-> Bus("i", 2), o |-> Bus("o", 1), p |-> Bus("p", 1)]
        scalars == [i |-> Bus("i", 1), j |-> Bus("j", 1), o |-> Bus("o", 2)]
        wide == [i |-> Bus("i", 31), o |-> Bus("o", 1), p |-> Bus("p", 1)]
        outs == <<Port("output", <<>>, "o"), Port("output", <<>>, "p")>>
    IN  [vector |-> Golden(<<<<>>, Port("input", <<1, 0>>, "i")>> \o outs, vector, "o1", "p1"),
         crossed |-> Golden(<<Port("input", <<0, 1>>, "i")>> \o outs, vector, "p1", "o1"),
         scalars |-> Golden(<<Port("output", <<1, 0>>, "o"), Port("input", <<>>, "i"), Port("input", <<>>, "j")>>,
                            scalars, "o1", "o2"),
         list |-> Golden(<<Port("output", <<1, 0>>, "o"), Port("input", <<>>, "i") \o Port("input", <<>>, "j")>>,
                         scalars, "o1", "o2"),
         signed |-> Golden(<<Worded("signed", Port("input", <<1, 0>>, "i"))>> \o outs, vector, "o1", "p1"),
         wired |-> Golden(<<Worded("wire", Port("input", <<1, 0>>, "i"))>> \o outs, vector, "o1", "p1"),
         typed |-> Golden(<<Worded("wire", Port("input", <<"W">>, "i"))>> \o outs, vector, "o1", "p1"),
         narrow |-> Golden(<<Port("input", <<1, 0>>, "i"), Port("output", <<>>, "o")>>, vector, "o1", "p1"),
         broad |-> [Golden(<<Port("input", <<1, 0>>, "i")>> \o outs \o <<Port("output", <<>>, "r")>>,
                           vector @@ [r |-> Bus("r", 1)], "o1", "p1")
                      EXCEPT !.drivers = @ @@ ("r1" :> <<"gm">>)],
         symbolic |-> Golden(<<Port("input", <<"W">>, "i")>> \o outs, vector, "o1", "p1"),
         wide |-> Golden(<<Port("input", <<30, 0>>, "i")>> \o outs, wide, "o1", "p1"),
         none |-> [Golden(<<>>, vector, "o1", "p1") EXCEPT !.named = FALSE]]

Logic ==
    [inputs |-> <<"a", "b">>, outputs |-> <<"y", "w">>,
     kind |-> [n |-> "Nor", m |-> "Xor", k |-> "Not"],
     drivers |-> [n |-> <<"a", "b">>, m |-> <<"n", "a">>, k |-> <<"m">>, y |-> <<"k">>, w |-> <<"m">>],
     wires |-> {<<"b", "n">>, <<"n", "m">>, <<"b", "m">>, <<"m", "k">>, <<"n", "w">>},
     custom |-> {<<<<"0", "1">>, <<"1", "0">>>>, <<<<"1", "x">>, <<"x", "1">>>>},
     cell |-> <<>>, clocked |-> {}, firstClock |-> "", config |-> Clock(2, 1), golden |-> Models]

\* h and k hang beside the output: the scrub may take them, and n.
Spare ==
    [Logic EXCEPT
       !.outputs = <<"y">>,
       !.kind = [n |-> "Buf", m |-> "Xor", h |-> "Not", k |-> "Not"],
       !.drivers = [n |-> <<"b">>, m |-> <<"n", "a">>, h |-> <<"n">>, k |-> <<"h">>, y |-> <<"m">>],
       !.wires = {<<"b", "n">>, <<"n", "m">>, <<"b", "m">>, <<"n", "h">>},
       !.custom = {<<<<"0", "1">>, <<"1">>>>, <<<<"1", "x">>, <<"x">>>>},
       !.golden = <<>>]

Flop(edge, data, clear) ==
    [ff |-> TRUE, edge |-> edge, data |-> data, clk |-> "clk", en |-> "",
     clear |-> clear, level |-> "0", async |-> FALSE]

Latch(data) ==
    [ff |-> FALSE, edge |-> "pos", data |-> data, clk |-> "", en |-> "en",
     clear |-> "", level |-> "0", async |-> FALSE]

Ones == {[data |-> <<"1">>, expected |-> <<"1">>, check |-> TRUE],
         [data |-> <<"0">>, expected |-> <<>>, check |-> FALSE]}

Sequential(inputs, cell, config) ==
    [inputs |-> inputs, outputs |-> <<"y">>, kind |-> <<>>, drivers |-> [y |-> <<"q">>],
     wires |-> {}, custom |-> {}, cell |-> cell, clocked |-> Ones, firstClock |-> "clk",
     config |-> config, golden |-> <<>>]

\* q toggles when a is 1: q <= q ^ a, cleared by rst.
Toggler(async, config) ==
    [Sequential(<<"a", "clk", "rst">>, [q |-> [Flop("pos", "t", "rst") EXCEPT !.async = async]], config)
       EXCEPT !.kind = [t |-> "Xor"], !.drivers = [t |-> <<"q", "a">>, y |-> <<"q">>]]

\* A pipeline whose stages clock on the edges given.
Pipeline(first, second, config) ==
    Sequential(<<"a", "clk">>, [p |-> Flop(first, "a", ""), q |-> Flop(second, "p", "")], config)

\* Two clocks; the bench waits for the first.
TwoClocks(config) ==
    Sequential(<<"a", "clk", "clk2">>,
               [p |-> Flop("pos", "a", ""), q |-> [Flop("pos", "p", "") EXCEPT !.clk = "clk2"]], config)

Latches == Sequential(<<"a", "en">>, [p |-> Latch("a"), q |-> Latch("p")], Clock(2, 1))

LatchedFlop(config) ==
    Sequential(<<"a", "clk", "en">>, [p |-> Latch("a"), q |-> Flop("pos", "p", "")], config)

\* The latch is enabled by the clock itself.
ClockedLatch ==
    Sequential(<<"a", "clk">>, [p |-> [Latch("a") EXCEPT !.en = "clk"], q |-> Flop("pos", "p", "")],
               Clock(2, 1))

SmallCircuits ==
    {Logic, Spare, Toggler(FALSE, Clock(2, 3)), Toggler(TRUE, Clock(4, 5)), Toggler(TRUE, Clock(6, 2)),
     Pipeline("pos", "pos", Clock(2, 2)), Pipeline("neg", "neg", Clock(3, 3)),
     Pipeline("pos", "neg", Clock(4, 4)), TwoClocks(Clock(2, 1)),
     Latches, LatchedFlop(Clock(4, 2)), ClockedLatch}

Togglers == {Toggler(FALSE, Clock(2, 3))}
=============================================================================
