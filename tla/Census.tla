------------------------------- MODULE Census -------------------------------
(***************************************************************************)
(* The queries that count and list the vertices of a graph, with or        *)
(* without those of the graphs nested in it. Buffers are in no bucket and  *)
(* are neither counted nor listed.                                         *)
(***************************************************************************)
EXTENDS VerilogExport

Standing(g, type) == SelectSeq(Bucket(g, type), LAMBDA v : v \notin gone)

\* d_subGraphs is a set: a graph is in it once for all its instances.
SubGraphs(g) == {design.nested[s] : s \in InstancesIn(g)}

baseSize(g) == Len(Standing(g, "gate"))

RECURSIVE fullSize(_)
fullSize(g) == FoldSet(LAMBDA h, n : n + fullSize(h), baseSize(g), SubGraphs(g))

isEmpty(g) == fullSize(g) = 0

\* An instance fills a bucket: only a graph without any asks those nested in it.
RECURSIVE isEmptyFull(_)
isEmptyFull(g) ==
    /\ \A type \in {"input", "constant", "gate", "sequential", "subGraph", "output"} :
         Standing(g, type) = <<>>
    /\ \A h \in SubGraphs(g) : isEmptyFull(h)

\* Mutant: cells are passed over.
TypesWithoutCells == <<"input", "constant", "gate", "subGraph", "output">>

\* The order of getVerticeByIndex.
IndexedTypes == <<"input", "constant", "gate", "sequential", "subGraph", "output">>

sumFullSize(g) ==
    FoldLeft(LAMBDA n, type : n + Len(Standing(g, type)), 0,
             <<"input", "constant", "gate", "output", "sequential", "subGraph">>)

\* getVerticeByIndex, called below sumFullSize; "none" is a read past the end.
RECURSIVE VerticeFrom(_, _, _)
VerticeFrom(g, types, i) ==
    LET bucket == Standing(g, types[1])
    IN  IF i < Len(bucket) THEN bucket[i + 1]
        ELSE IF Len(types) = 1 THEN "none"
        ELSE VerticeFrom(g, Tail(types), i - Len(bucket))

VerticeByIndex(g, i) == VerticeFrom(g, IndexedTypes, i)

\* getVerticesByType without a name: the vertices of one type, then those of
\* each nested graph.
RECURSIVE VerticesByType(_, _, _)
VerticesByType(g, type, addSubGraphs) ==
    LET nested == IF addSubGraphs THEN SubGraphs(g) ELSE {}
    IN  FoldSet(LAMBDA h, all : all \o VerticesByType(h, type, TRUE), Standing(g, type), nested)

\* getVerticesByName
RECURSIVE VerticesByName(_, _, _)
VerticesByName(g, name, addSubGraphs) ==
    LET own == FoldLeft(LAMBDA all, type : all \o SelectSeq(Standing(g, type), LAMBDA v : v = name),
                        <<>>, IndexedTypes)
        nested == IF addSubGraphs THEN SubGraphs(g) ELSE {}
    IN  FoldSet(LAMBDA h, all : all \o VerticesByName(h, name, TRUE), own, nested)

-----------------------------------------------------------------------------
\* A graph nested in two graphs is met once from each.
NestedOnce(g) ==
    \A h \in Below(g) : Cardinality({f \in Below(g) \cup {g} : h \in SubGraphs(f)}) = 1

(* The indices below sumFullSize list every vertex of a graph exactly once *)
(* (getVerticeByIndex), a search with subgraphs lists every vertex of the  *)
(* hierarchy exactly once however many instances a graph has               *)
(* (getVerticesByType, getVerticesByName), and fullSize is how many gates  *)
(* such a search finds: after any edits and scrubs of any of the graphs.   *)
CensusComplete ==
    \A g \in Graphs :
      LET own == Bucketed(g) \ gone
          all(type) == {v \in UNION {Bucketed(h) : h \in Below(g) \cup {g}} \ gone : Type(v) = type}
          once(list, S) == Range(list) = S /\ Len(list) = Cardinality(S)
      IN  /\ once([i \in 1..sumFullSize(g) |-> VerticeByIndex(g, i - 1)], own)
          /\ isEmpty(g) <=> all("gate") = {}
          /\ isEmptyFull(g) => \A h \in Below(g) \cup {g} : isEmpty(h)
          /\ NestedOnce(g) =>
               /\ fullSize(g) = Len(VerticesByType(g, "gate", TRUE))
               /\ \A type \in {"input", "gate", "sequential"} :
                    once(VerticesByType(g, type, TRUE), all(type))
               /\ \A v \in all("gate") : VerticesByName(g, v, TRUE) = <<v>>
=============================================================================
