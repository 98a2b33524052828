----------------------------- MODULE GateTables -----------------------------
(***************************************************************************)
(* The four-valued truth tables of the gates, shared by the modules that   *)
(* evaluate graphs, and the expressions toVerilog prints for them.         *)
(***************************************************************************)
EXTENDS SequencesExt

Unknown == "x"        \* ValueStates::NoSignal

Invert(a) == IF a = "0" THEN "1" ELSE IF a = "1" THEN "0" ELSE Unknown

Both(a, b) == IF "0" \in {a, b} THEN "0" ELSE IF {a, b} = {"1"} THEN "1" ELSE Unknown

Differ(a, b) == IF {a, b} \subseteq {"0", "1"} THEN (IF a = b THEN "0" ELSE "1") ELSE Unknown

Table(gate, a, b) ==
  CASE gate = "And"  -> Both(a, b)
    [] gate = "Nand" -> Invert(Both(a, b))
    [] gate = "Or"   -> Invert(Both(Invert(a), Invert(b)))
    [] gate = "Nor"  -> Both(Invert(a), Invert(b))
    [] gate = "Xor"  -> Differ(a, b)
    [] gate = "Xnor" -> Invert(Differ(a, b))

\* What a gate makes of its first input.
Single(gate, a) ==
  CASE gate = "Not" -> Invert(a)
    [] gate = "Buf" -> Invert(Invert(a))
    [] OTHER -> a

Inverted == {"Nand", "Nor", "Xnor"}

\* The operator between the operands of an assignment.
Operator(gate) ==
  CASE gate = "Nand" -> "And" [] gate = "Nor" -> "Or" [] gate = "Xnor" -> "Xor" [] OTHER -> gate

\* Mutant: the inversion binds to the first operand alone.
InvertedFirst(gate, read) ==
  IF gate = "Not" THEN Invert(Last(read))
  ELSE IF gate = "Buf" THEN Last(read)
  ELSE FoldLeft(LAMBDA a, b : Table(Operator(gate), a, b),
                IF gate \in Inverted THEN Invert(read[1]) ELSE read[1], Tail(read))

\* What toVerilog prints: ~ ( a | b | c ) for inverted gates, the last driver
\* of buffers and inverters.
Expression(gate, read) ==
  LET chain == FoldLeft(LAMBDA a, b : Table(Operator(gate), a, b), read[1], Tail(read))
  IN  IF gate = "Not" THEN Invert(Last(read))
      ELSE IF gate = "Buf" THEN Last(read)
      ELSE IF gate \in Inverted THEN Invert(chain) ELSE chain
=============================================================================
