---------------------------- MODULE MCGraphReader ----------------------------
(***************************************************************************)
(* Small Verilog files for GraphReader.                                    *)
(***************************************************************************)
EXTENDS GraphReader, FiniteSetsExt

Net(n) == [net |-> n, not |-> FALSE]
Inv(n) == [net |-> n, not |-> TRUE]
St(op, lhs, args) == [op |-> op, lhs |-> lhs, args |-> args]
Const(lhs, base, digits) ==
    [op |-> "Const", lhs |-> lhs, args |-> <<>>, value |-> [base |-> base, digits |-> digits]]
Literals(nets) == {[net |-> n, not |-> b] : n \in nets, b \in BOOLEAN}

Of(name, wires, outputs, assigns) ==
    [name |-> name, inputs |-> {"a", "b", "c"}, wires |-> wires, outputs |-> outputs,
     assigns |-> assigns, complete |-> TRUE]

\* All expressions with one operator over some nets.
Expressions(lhs, ops, nets) ==
    {St("Assign", lhs, <<l>>) : l \in Literals(nets)}
      \cup {St(op, lhs, SetToSeq(p)) : op \in ops, p \in kSubset(2, Literals(nets))}

\* Two inputs, a wire and an output: every pair of assignments, in either order.
Pairs ==
    {[name |-> "m", inputs |-> {"a", "b"}, wires |-> {"w"}, outputs |-> {"q"},
      assigns |-> {s, t}, complete |-> TRUE] :
        s \in Expressions("w", {"And", "Nor", "Xor"}, {"a", "b"}),
        t \in Expressions("q", {"Or", "Nand", "Xnor"}, {"a", "b", "w"})}

\* The modules of test/testModulesForReading.
SimpleStructure ==
    Of("simpleStructure", {"e", "f"}, {"q", "q2"},
       {St("Or", "e", <<Net("a"), Inv("b"), Net("c")>>), St("Xnor", "f", <<Net("a"), Net("e")>>),
        St("And", "q", <<Net("f"), Net("e")>>), St("Assign", "q2", <<Inv("b")>>)})

OutputAsGate ==
    Of("outputAsGate", {"w"}, {"q1", "q2", "q3", "q4"},
       {St("And", "q1", <<Net("a"), Net("b")>>), St("Assign", "q2", <<Inv("q1")>>),
        St("Or", "q3", <<Net("q1"), Net("q2"), Net("b")>>), St("Nand", "w", <<Net("q3"), Inv("q1")>>),
        St("Assign", "q4", <<Net("w")>>)})

\* Majorities of a declared and an undeclared wire, a constant wire.
Majorities ==
    Of("majorities", {"w", "k"}, {"q", "p"},
       {St("Maj", "w", <<Net("a"), Inv("b"), Net("c")>>), St("Maj", "m", <<Inv("b"), Net("w"), Net("k")>>),
        Const("k", "b", <<"1">>), St("Assign", "q", <<Inv("m")>>), St("Xor", "p", <<Net("w"), Net("m"), Inv("k")>>)})

\* Literals, assigned to a wire or declared as a parameter.
Numbers ==
    {<<"b", <<"1", "0">>>>, <<"h", <<"a", "f">>>>, <<"h", <<"0", "c">>>>, <<"o", <<"1", "7">>>>,
     <<"d", <<"9", "2">>>>, <<"", <<"1", "2">>>>, <<"", <<"2", "7">>>>, <<"b", <<"0", "x">>>>,
     <<"b", <<"x", "1">>>>, <<"b", <<"1", "2">>>>, <<"h", <<"1", "_", "0">>>>, <<"h", [i \in 1..16 |-> "f"]>>,
     <<"h", [i \in 1..17 |-> "f"]>>, <<"text", <<"x">>>>}

Valued ==
    {Of("valued", IF op = "Const" THEN {"k"} ELSE {}, {"q", "p"},
        {[Const("k", n[1], n[2]) EXCEPT !.op = op],
         St("Xor", "q", <<Net("a"), Net("k")>>), St("Assign", "p", <<Inv("k")>>)}) :
       n \in Numbers, op \in {"Const", "Parameter"}}

\* A file with an inverter and an output gate; the same with an operand nobody
\* drives, and breaking off before endmodule.
Small == Of("small", {}, {"q"}, {St("And", "q", <<Inv("a"), Net("b")>>)})
Undriven == Of("small", {}, {"q", "p"}, {St("And", "q", <<Inv("a"), Net("b")>>), St("Assign", "p", <<Net("d")>>)})
BreaksOff == [Small EXCEPT !.complete = FALSE]

Files == {SimpleStructure, OutputAsGate, Majorities}
Singles == {<<f>> : f \in Pairs}
Reused == {<<f, SimpleStructure>> : f \in {Small, Undriven, BreaksOff}} \cup {<<f>> : f \in Files \cup Valued}

AllRuns == Singles \cup Reused

\* A majority for an output.
MajorityOut == Of("majority", {}, {"q"}, {St("Maj", "q", <<Net("a"), Net("b"), Net("c")>>)})
MajorityRuns == {<<MajorityOut>>, <<Small, MajorityOut>>}
=============================================================================
