---------------------------- MODULE MCLevelCache ----------------------------
(***************************************************************************)
(* Small netlists for LevelCache.                                          *)
(***************************************************************************)
EXTENDS LevelCache

\* Two gates and a cell, cycles among them; the output takes one driver.
FlatNet ==
    [kind |-> <<"input", "gate", "gate", "sequential", "output">>,
     wires |-> {<<1, 2>>, <<1, 3>>, <<2, 3>>, <<3, 4>>, <<4, 2>>, <<3, 5>>, <<4, 5>>},
     buffers |-> [v \in 1..5 |-> <<>>],
     nested |-> [v \in 1..5 |-> 1]]

\* A gate in front of a subgraph instance with one buffer, one behind it.
HierNet ==
    [kind |-> <<"input", "gate", "subGraph", "buffer", "gate", "output">>,
     wires |-> {<<1, 2>>, <<2, 3>>, <<1, 3>>, <<4, 5>>, <<5, 6>>, <<4, 6>>},
     buffers |-> <<<<>>, <<>>, <<4>>, <<>>, <<>>, <<>>>>,
     nested |-> [v \in 1..6 |-> 1]]

FlatNets == {FlatNet}
HierNets == {HierNet}
AllNets == {FlatNet, HierNet}
=============================================================================
