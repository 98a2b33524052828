---------------------------- MODULE MCWasteScan ----------------------------
(***************************************************************************)
(* A small netlist for WasteScan: input 1 and constant 2 drive the gates 3 *)
(* and 4, sequential cell 6 and subgraph 7 with its buffer 8; the buffer   *)
(* drives gate 5. Every set of these edges that leaves no gate or cell     *)
(* without a driver, every set of inner vertices at level 0.               *)
(***************************************************************************)
EXTENDS WasteScan, TLC

SmallVertex == 1..8
SmallKind == (1 :> "input") @@ (2 :> "constant") @@ (6 :> "sequential")
             @@ (7 :> "subGraph") @@ (8 :> "buffer")
             @@ [v \in SmallVertex |-> "gate"]
SmallBuffers == [v \in SmallVertex |-> IF v = 7 THEN {8} ELSE {}]
Wires == {<<1, 3>>, <<2, 4>>, <<3, 4>>, <<4, 3>>, <<1, 6>>, <<3, 6>>, <<2, 7>>, <<8, 5>>,
          <<3, 5>>}
SmallGraphs ==
    {e \cup {<<7, 8>>} : e \in
       {f \in SUBSET Wires : \A v \in {3, 4, 5, 6} : \E u \in SmallVertex : <<u, v>> \in f}}
SmallLevels0 == {z \cup {1, 2} : z \in SUBSET {3, 4, 5, 6, 7}}
SmallBucket == ("gate" :> <<5, 3, 4>>) @@ ("sequential" :> <<6>>) @@ ("subGraph" :> <<7>>)
               @@ ("input" :> <<1>>) @@ ("constant" :> <<2>>)

(* A graph without outputs: input 0 drives 256 gates, all at level 0.      *)
ManyVertex == 0..256
ManyKind == [v \in ManyVertex |-> IF v = 0 THEN "input" ELSE "gate"]
ManyBuffers == [v \in ManyVertex |-> {}]
ManyGraphs == {{0} \X (1..256)}
ManyLevels0 == {ManyVertex}
ManyBucket == [t \in Scanned |-> CASE t = "gate" -> [i \in 1..256 |-> i]
                                   [] t = "input" -> <<0>>
                                   [] OTHER -> <<>>]
=============================================================================
