------------------------- MODULE CircuitGraph_proofs -------------------------
(***************************************************************************)
(* Theorems about CircuitGraph, for every bound, every set of gate types   *)
(* and both builds (with and without asserts).                             *)
(***************************************************************************)
EXTENDS CircuitGraph, SequenceLemmas

(* What InsMatchOuts and DriversLive need to be inductive: adjacency       *)
(* vectors and buckets mention only vertices the arena has handed out.     *)
OutsCreated ==
    \A u \in Vertex : /\ Range(outs[u]) \subseteq 1..created
                      /\ outs[u] # <<>> => u \in 1..created

Registered ==
    /\ \A t \in VertexTypes : Range(bucket[t]) \subseteq 1..created
    /\ Range(todo) \subseteq 1..created

IInv == TypeOK /\ InsMatchOuts /\ DriversLive /\ OutsCreated /\ Registered

-----------------------------------------------------------------------------
(* The invariant, action by action.                                        *)

(* Counting one entry of a table of counters up or down.                   *)
LEMMA CounterType ==
    ASSUME NEW S, NEW f \in [S -> Int], NEW p
    PROVE  /\ [f EXCEPT ![p] = @ + 1] \in [S -> Int]
           /\ [f EXCEPT ![p] = @ - 1] \in [S -> Int]
<1>1. \A x \in S : f[x] + 1 \in Int /\ f[x] - 1 \in Int
  OBVIOUS
<1>2. [f EXCEPT ![p] = @ + 1] \in [S -> Int]
  BY <1>1
<1>3. [f EXCEPT ![p] = @ - 1] \in [S -> Int]
  BY <1>1
<1> QED BY <1>2, <1>3

LEMMA VertexFacts ==
    ASSUME IInv
    PROVE  /\ Live \subseteq Vertex /\ Live \subseteq 1..created
           /\ created \in Nat /\ created <= MaxVertices
           /\ 1..created \subseteq Vertex
           /\ \A v \in Vertex : ins[v] \in Seq(Vertex) /\ outs[v] \in Seq(Vertex)
           /\ \A v \in Vertex : IsInjective(ins[v]) /\ IsInjective(outs[v])
BY CircuitGraphAssumption DEF IInv, TypeOK, InsMatchOuts, Live, Vertex

LEMMA InitInvariant == Init => IInv
<1> SUFFICES ASSUME Init PROVE IInv
  OBVIOUS
<1>1. \A v \in Vertex : ins[v] = <<>> /\ outs[v] = <<>>
  BY DEF Init
<1>2. Range(<<>>) = {} /\ IsInjective(<<>>)
  BY DEF Range, IsInjective
<1>3. TypeOK
  <2>1. created \in 0..MaxVertices
    BY CircuitGraphAssumption DEF Init
  <2> QED BY <2>1 DEF Init, TypeOK, Vertex
<1>4. InsMatchOuts /\ DriversLive /\ OutsCreated
  BY <1>1, <1>2 DEF InsMatchOuts, DriversLive, OutsCreated
<1>5. Registered
  BY <1>2 DEF Init, Registered
<1> QED BY <1>3, <1>4, <1>5 DEF IInv

(* A step that leaves the adjacency alone and only hands out or destroys   *)
(* nothing keeps the relational part of the invariant.                     *)
LEMMA SameAdjacency ==
    ASSUME IInv, UNCHANGED <<created, destroyed, ins, outs>>
    PROVE  InsMatchOuts' /\ DriversLive' /\ OutsCreated'
BY DEF IInv, InsMatchOuts, DriversLive, OutsCreated, Live

(* A step that hands out vertices without connecting them does so too.     *)
LEMMA MoreVertices ==
    ASSUME IInv, UNCHANGED <<destroyed, ins, outs>>,
           created' \in Nat, created <= created'
    PROVE  InsMatchOuts' /\ DriversLive' /\ OutsCreated'
BY VertexFacts DEF IInv, InsMatchOuts, DriversLive, OutsCreated, Live

(* Handing out vertices and putting the first of them in a bucket.         *)
LEMMA NewInBucket ==
    ASSUME IInv, NEW t \in VertexTypes, NEW n \in Nat,
           created' = Fresh + n, created' <= MaxVertices,
           bucket' = [bucket EXCEPT ![t] = Append(@, Fresh)],
           UNCHANGED <<destroyed, todo>>
    PROVE  /\ created' \in 0..MaxVertices /\ created <= created'
           /\ Fresh \in Vertex /\ Fresh \notin 1..created /\ Fresh \in 1..created'
           /\ created \in Nat /\ Fresh = created + 1
           /\ 1..created \subseteq 1..created'
           /\ destroyed' \subseteq 1..created'
           /\ bucket' \in [VertexTypes -> Seq(Vertex)]
           /\ Registered'
<1>1. created \in Nat /\ Fresh = created + 1 /\ MaxVertices \in Nat
  BY VertexFacts, CircuitGraphAssumption DEF Fresh
<1>2. Fresh \in Vertex /\ Fresh \notin 1..created /\ Fresh \in 1..created'
  BY <1>1 DEF Vertex
<1>3. /\ created' \in 0..MaxVertices /\ created <= created'
      /\ 1..created \subseteq 1..created'
  BY <1>1
<1>4. destroyed' \subseteq 1..created' /\ bucket' \in [VertexTypes -> Seq(Vertex)]
  BY <1>2, <1>3 DEF IInv, TypeOK
<1>5. Registered'
  <2>1. bucket'[t] = Append(bucket[t], Fresh) /\ bucket[t] \in Seq(Vertex)
    BY DEF IInv, TypeOK
  <2>2. Range(bucket'[t]) = Range(bucket[t]) \cup {Fresh}
    BY <1>2, <2>1, AppendFacts
  <2>3. \A x \in VertexTypes : x # t => bucket'[x] = bucket[x]
    BY DEF IInv, TypeOK
  <2> QED BY <1>2, <1>3, <2>2, <2>3 DEF IInv, Registered
<1> QED BY <1>1, <1>2, <1>3, <1>4, <1>5

LEMMA AddTerminalInvariant ==
    ASSUME IInv, NEW t \in {"input", "constant", "output"}, AddTerminal(t)
    PROVE  IInv'
<1> USE DEF AddTerminal, adjacency, loop
<1>1. t \in VertexTypes /\ created' = Fresh + 0 /\ created' <= MaxVertices
  BY VertexFacts, CircuitGraphAssumption DEF Fresh, VertexTypes
<1>2. /\ created' \in 0..MaxVertices /\ created <= created' /\ destroyed' \subseteq 1..created'
      /\ bucket' \in [VertexTypes -> Seq(Vertex)] /\ Registered'
  BY <1>1, NewInBucket
<1>3. InsMatchOuts' /\ DriversLive' /\ OutsCreated'
  BY <1>2, MoreVertices
<1>4. TypeOK'
  BY <1>1, <1>2 DEF IInv, TypeOK
<1> QED BY <1>2, <1>3, <1>4 DEF IInv

LEMMA AddGateInvariant ==
    ASSUME IInv, NEW g \in Gates, AddGate(g)
    PROVE  IInv'
<1> USE DEF AddGate, adjacency, loop
<1>1. "gate" \in VertexTypes /\ created' = Fresh + 0 /\ created' <= MaxVertices
  BY VertexFacts, CircuitGraphAssumption DEF Fresh, VertexTypes
<1>2. /\ created' \in 0..MaxVertices /\ created <= created' /\ destroyed' \subseteq 1..created'
      /\ bucket' \in [VertexTypes -> Seq(Vertex)] /\ Registered'
  BY <1>1, NewInBucket
<1>3. InsMatchOuts' /\ DriversLive' /\ OutsCreated'
  BY <1>2, MoreVertices
<1>4. gatesCount' \in [Gates -> Int]
  BY DEF IInv, TypeOK
<1>5. TypeOK'
  BY <1>1, <1>2, <1>4 DEF IInv, TypeOK
<1> QED BY <1>2, <1>3, <1>5 DEF IInv

(* A list of drivers: live vertices, none twice, none of them fresh.       *)
LEMMA DriverFacts ==
    ASSUME IInv, NEW d \in DriverLists
    PROVE  /\ d \in Seq(Vertex) /\ IsInjective(d) /\ Len(d) \in Nat
           /\ Range(d) \subseteq Live
<1>1. PICK n \in Nat : d \in [1..n -> Live] /\ IsInjective(d)
  BY CircuitGraphAssumption DEF DriverLists
<1>2. d \in Seq(Live) /\ d \in Seq(Vertex)
  BY <1>1, VertexFacts
<1> QED BY <1>1, <1>2, RangeInside

LEMMA AddSequentialInvariant ==
    ASSUME IInv, NEW d \in DriverLists, AddSequential(d)
    PROVE  IInv'
<1> USE DEF AddSequential, loop
<1>1. "sequential" \in VertexTypes /\ created' = Fresh + 0 /\ created' <= MaxVertices
  BY VertexFacts, CircuitGraphAssumption DEF Fresh, VertexTypes
<1>2. /\ created' \in 0..MaxVertices /\ created <= created' /\ destroyed' \subseteq 1..created'
      /\ bucket' \in [VertexTypes -> Seq(Vertex)] /\ Registered'
      /\ Fresh \in Vertex /\ Fresh \notin 1..created /\ Fresh \in 1..created'
      /\ 1..created \subseteq 1..created'
  BY <1>1, NewInBucket
<1>3. /\ d \in Seq(Vertex) /\ IsInjective(d) /\ Len(d) \in Nat
      /\ Range(d) \subseteq Live /\ Fresh \notin Range(d)
  BY <1>2, DriverFacts, VertexFacts
<1>4. \A v \in Vertex : /\ ins'[v] = IF v = Fresh THEN d ELSE ins[v]
                        /\ outs'[v] = IF v \in Range(d) THEN Append(outs[v], Fresh) ELSE outs[v]
  BY DEF IInv, TypeOK
<1>5. ASSUME NEW v \in Vertex
      PROVE  /\ outs'[v] \in Seq(Vertex) /\ IsInjective(outs'[v])
             /\ Range(outs'[v]) = Range(outs[v]) \cup (IF v \in Range(d) THEN {Fresh} ELSE {})
  <2>1. Fresh \notin Range(outs[v]) /\ outs[v] \in Seq(Vertex) /\ IsInjective(outs[v])
    BY <1>2, VertexFacts DEF IInv, OutsCreated
  <2>2. /\ Append(outs[v], Fresh) \in Seq(Vertex)
        /\ Range(Append(outs[v], Fresh)) = Range(outs[v]) \cup {Fresh}
        /\ IsInjective(Append(outs[v], Fresh))
    BY <1>2, <2>1, AppendFacts
  <2> QED BY <1>4, <2>1, <2>2
<1>6. TypeOK'
  <2>1. ins' \in [Vertex -> Seq(Vertex)] /\ outs' \in [Vertex -> Seq(Vertex)]
    BY <1>3, <1>5 DEF IInv, TypeOK
  <2>2. edgesCount' \in Int
    BY <1>3 DEF IInv, TypeOK
  <2> QED BY <1>1, <1>2, <2>1, <2>2 DEF IInv, TypeOK
<1>7. InsMatchOuts'
  <2>1. ASSUME NEW u \in Vertex, NEW v \in Vertex, u \in Range(ins'[v])
        PROVE  v \in Range(outs'[u])
    BY <1>3, <1>4, <1>5, <2>1 DEF IInv, InsMatchOuts
  <2>2. \A v \in Vertex : IsInjective(ins'[v])
    BY <1>3, <1>4, VertexFacts
  <2> QED BY <1>5, <2>1, <2>2 DEF InsMatchOuts
<1>8. DriversLive'
  <2>1. Live \subseteq Live' /\ Fresh \in Live'
    BY <1>2 DEF Live, IInv, TypeOK
  <2> QED BY <1>3, <1>4, <2>1 DEF IInv, DriversLive
<1>9. OutsCreated'
  <2>1. ASSUME NEW v \in Vertex PROVE Range(outs'[v]) \subseteq 1..created'
    <3>1. Range(outs[v]) \subseteq 1..created
      BY DEF IInv, OutsCreated
    <3>2. 1..created \subseteq 1..created' /\ Fresh \in 1..created'
      BY <1>2
    <3> QED BY <1>5, <3>1, <3>2
  <2>2. ASSUME NEW v \in Vertex, outs'[v] # <<>> PROVE v \in 1..created'
    BY <1>2, <1>3, <1>4, <2>2, VertexFacts DEF IInv, OutsCreated
  <2> QED BY <2>1, <2>2 DEF OutsCreated
<1> QED BY <1>2, <1>6, <1>7, <1>8, <1>9 DEF IInv

LEMMA AddSubGraphInvariant ==
    ASSUME IInv, NEW d \in DriverLists, NEW n \in 0..MaxBuffers, AddSubGraph(d, n)
    PROVE  IInv'
<1> DEFINE bufs == (Fresh + 1)..(Fresh + n)
           own == [i \in 1..n |-> Fresh + i]
<1> USE DEF AddSubGraph, loop
<1>1. "subGraph" \in VertexTypes /\ n \in Nat /\ created' = Fresh + n /\ created' <= MaxVertices
  BY VertexFacts, CircuitGraphAssumption DEF Fresh, VertexTypes
<1>2. /\ created' \in 0..MaxVertices /\ created <= created' /\ destroyed' \subseteq 1..created'
      /\ bucket' \in [VertexTypes -> Seq(Vertex)] /\ Registered'
      /\ Fresh \in Vertex /\ Fresh \notin 1..created /\ Fresh \in 1..created'
      /\ 1..created \subseteq 1..created'
      /\ created \in Nat /\ Fresh = created + 1
  BY <1>1, NewInBucket
<1>3. /\ bufs \subseteq Vertex /\ bufs \subseteq 1..created'
      /\ Fresh \notin bufs /\ bufs \cap (1..created) = {}
  <2>1. ASSUME NEW x \in bufs
        PROVE  x \in Vertex /\ x \in 1..created' /\ x # Fresh /\ x \notin 1..created
    <3>1. x \in Int /\ created + 2 <= x /\ x <= created'
      BY <1>1, <1>2
    <3>2. MaxVertices \in Nat /\ created' \in Nat /\ created' <= MaxVertices
      BY <1>1, <1>2, CircuitGraphAssumption
    <3>3. x # Fresh /\ x \notin 1..created
      BY <1>2, <3>1
    <3>4. x \in 1..created' /\ x \in 1..MaxVertices
      BY <1>2, <3>1, <3>2
    <3> QED BY <3>3, <3>4 DEF Vertex
  <2> QED BY <2>1
<1>4. /\ d \in Seq(Vertex) /\ IsInjective(d) /\ Len(d) \in Nat
      /\ Range(d) \subseteq Live /\ Fresh \notin Range(d) /\ Range(d) \cap bufs = {}
      /\ Range(d) \subseteq 1..created
  BY <1>2, <1>3, DriverFacts, VertexFacts
<1>5. /\ own \in Seq(Vertex) /\ IsInjective(own) /\ Range(own) = bufs
      /\ DOMAIN own = 1..n
  <2>1. \A i \in 1..n : Fresh + i \in bufs
    BY <1>1, <1>2
  <2>2. own \in [1..n -> Vertex]
    BY <1>3, <2>1
  <2>3. own \in Seq(Vertex)
    BY <1>1, <2>2
  <2>4. IsInjective(own)
    BY <1>1, <1>2 DEF IsInjective
  <2>5. \A x \in bufs : x - Fresh \in 1..n /\ own[x - Fresh] = x
    BY <1>1, <1>2
  <2>6. Range(own) = bufs
    BY <2>1, <2>5 DEF Range
  <2> QED BY <2>3, <2>4, <2>6
<1>6. \A v \in Vertex :
        /\ ins'[v] = IF v = Fresh THEN d ELSE IF v \in bufs THEN <<Fresh>> ELSE ins[v]
        /\ outs'[v] = IF v = Fresh THEN own
                      ELSE IF v \in Range(d) THEN Append(outs[v], Fresh) ELSE outs[v]
  OBVIOUS
<1> HIDE DEF bufs, own
<1>7. /\ <<Fresh>> \in Seq(Vertex) /\ IsInjective(<<Fresh>>) /\ Range(<<Fresh>>) = {Fresh}
  BY <1>2 DEF IsInjective, Range
<1>8. ASSUME NEW v \in Vertex
      PROVE  /\ outs'[v] \in Seq(Vertex) /\ IsInjective(outs'[v])
             /\ Range(outs'[v]) = IF v = Fresh THEN bufs
                                  ELSE Range(outs[v]) \cup (IF v \in Range(d) THEN {Fresh} ELSE {})
  <2>1. Fresh \notin Range(outs[v]) /\ outs[v] \in Seq(Vertex) /\ IsInjective(outs[v])
    BY <1>2, VertexFacts DEF IInv, OutsCreated
  <2>2. /\ Append(outs[v], Fresh) \in Seq(Vertex)
        /\ Range(Append(outs[v], Fresh)) = Range(outs[v]) \cup {Fresh}
        /\ IsInjective(Append(outs[v], Fresh))
    BY <1>2, <2>1, AppendFacts
  <2> QED BY <1>5, <1>6, <2>1, <2>2
<1>9. ASSUME NEW v \in Vertex
      PROVE  /\ ins'[v] \in Seq(Vertex) /\ IsInjective(ins'[v])
             /\ Range(ins'[v]) = IF v = Fresh THEN Range(d)
                                 ELSE IF v \in bufs THEN {Fresh} ELSE Range(ins[v])
  BY <1>4, <1>6, <1>7, VertexFacts
<1>10. TypeOK'
  <2>1. ins' \in [Vertex -> Seq(Vertex)]
    <3>1. ins' = [v \in Vertex |-> ins'[v]]
      BY DEF bufs
    <3> QED BY <1>9, <3>1
  <2>2. outs' \in [Vertex -> Seq(Vertex)]
    <3>1. outs' = [v \in Vertex |-> outs'[v]]
      OBVIOUS
    <3> QED BY <1>8, <3>1
  <2>3. edgesCount' \in Int
    BY <1>1, <1>4 DEF IInv, TypeOK
  <2>4. gate' \in [Vertex -> Gates \cup {"none"}]
    BY CircuitGraphAssumption DEF IInv, TypeOK, Gates
  <2>5. vtype' \in [Vertex -> VertexTypes \cup {"none"}]
    BY DEF IInv, TypeOK, VertexTypes
  <2>6. buffers' \subseteq Vertex
    BY <1>3 DEF IInv, TypeOK, bufs
  <2> QED BY <1>2, <2>1, <2>2, <2>3, <2>4, <2>5, <2>6 DEF IInv, TypeOK
<1>11. InsMatchOuts'
  <2>1. ASSUME NEW u \in Vertex, NEW v \in Vertex, u \in Range(ins'[v])
        PROVE  v \in Range(outs'[u])
    <3>1. CASE v = Fresh
      BY <1>4, <1>8, <1>9, <2>1, <3>1
    <3>2. CASE v \in bufs
      <4>1. v # Fresh
        BY <1>3, <3>2
      <4>2. u = Fresh
        BY <1>9, <2>1, <3>2, <4>1
      <4> QED BY <1>8, <3>2, <4>2
    <3>3. CASE v # Fresh /\ v \notin bufs
      <4>1. v \in Range(outs[u]) /\ u \in 1..created
        BY <1>9, <2>1, <3>3, VertexFacts DEF IInv, InsMatchOuts, DriversLive
      <4> QED BY <1>2, <1>8, <4>1
    <3> QED BY <3>1, <3>2, <3>3
  <2> QED BY <1>8, <1>9, <2>1 DEF InsMatchOuts
<1>12. DriversLive'
  <2>1. Live \subseteq Live' /\ Fresh \in Live' /\ bufs \subseteq Live'
    BY <1>2, <1>3 DEF Live, IInv, TypeOK
  <2>2. ASSUME NEW u \in Vertex, NEW v \in Vertex, u \in Range(ins'[v])
        PROVE  u \in Live' /\ v \in Live'
    BY <1>4, <1>9, <2>1, <2>2 DEF IInv, DriversLive
  <2> QED BY <2>2 DEF DriversLive
<1>13. OutsCreated'
  <2>1. ASSUME NEW v \in Vertex PROVE Range(outs'[v]) \subseteq 1..created'
    <3>1. bufs \subseteq 1..created' /\ {Fresh} \subseteq 1..created'
      BY <1>2, <1>3
    <3>2. Range(outs[v]) \subseteq 1..created
      BY DEF IInv, OutsCreated
    <3>3. Range(outs[v]) \subseteq 1..created'
      BY <1>2, <3>2
    <3>4. CASE v = Fresh
      BY <1>8, <3>1, <3>4
    <3>5. CASE v # Fresh
      BY <1>8, <3>1, <3>3, <3>5
    <3> QED BY <3>4, <3>5
  <2>2. ASSUME NEW v \in Vertex, outs'[v] # <<>> PROVE v \in 1..created'
    BY <1>2, <1>4, <1>6, <2>2 DEF IInv, OutsCreated
  <2> QED BY <2>1, <2>2 DEF OutsCreated
<1> QED BY <1>2, <1>10, <1>11, <1>12, <1>13 DEF IInv

LEMMA AddEdgeInvariant ==
    ASSUME IInv, NEW u \in Live, NEW v \in Live, AddEdge(u, v)
    PROVE  IInv'
<1> USE DEF AddEdge, registry, loop
<1>1. u \in Vertex /\ v \in Vertex /\ u \in 1..created /\ v \in 1..created
  BY VertexFacts
<1>2. /\ outs'[u] = Append(outs[u], v) /\ ins'[v] = Append(ins[v], u)
      /\ \A x \in Vertex : x # u => outs'[x] = outs[x]
      /\ \A x \in Vertex : x # v => ins'[x] = ins[x]
  BY <1>1 DEF IInv, TypeOK
<1>3. u \notin Range(ins[v]) /\ v \notin Range(outs[u])
  BY <1>1 DEF IInv, InsMatchOuts
<1>4. /\ outs'[u] \in Seq(Vertex) /\ IsInjective(outs'[u])
      /\ Range(outs'[u]) = Range(outs[u]) \cup {v}
      /\ ins'[v] \in Seq(Vertex) /\ IsInjective(ins'[v])
      /\ Range(ins'[v]) = Range(ins[v]) \cup {u}
  BY <1>1, <1>2, <1>3, VertexFacts, AppendFacts
<1>5. TypeOK'
  <2>1. ins' \in [Vertex -> Seq(Vertex)] /\ outs' \in [Vertex -> Seq(Vertex)]
    BY <1>1, <1>2, <1>4 DEF IInv, TypeOK
  <2>2. edgesCount' \in Int
    BY DEF IInv, TypeOK
  <2>3. edgesGatesCount' \in [Gates \X Gates -> Int]
    BY CounterType DEF IInv, TypeOK
  <2> QED BY <2>1, <2>2, <2>3 DEF IInv, TypeOK
<1>6. InsMatchOuts'
  BY <1>1, <1>2, <1>4, VertexFacts DEF IInv, InsMatchOuts
<1>7. DriversLive'
  <2>1. Live' = Live
    BY DEF Live
  <2> QED BY <1>1, <1>2, <1>4, <2>1 DEF IInv, DriversLive
<1>8. OutsCreated'
  BY <1>1, <1>2, <1>4 DEF IInv, OutsCreated
<1>9. Registered'
  BY DEF IInv, Registered
<1> QED BY <1>5, <1>6, <1>7, <1>8, <1>9 DEF IInv

LEMMA AddEdgeThrowsInvariant ==
    ASSUME IInv, NEW u \in Live, NEW v \in Live, AddEdgeThrows(u, v)
    PROVE  IInv'
<1> USE DEF AddEdgeThrows, registry, loop
<1>1. u \in Vertex /\ v \in Vertex /\ u \in 1..created /\ v \in 1..created
  BY VertexFacts
<1>2. /\ outs'[u] = Append(outs[u], v)
      /\ \A x \in Vertex : x # u => outs'[x] = outs[x]
  BY <1>1 DEF IInv, TypeOK
<1>3. /\ outs'[u] \in Seq(Vertex) /\ IsInjective(outs'[u])
      /\ Range(outs'[u]) = Range(outs[u]) \cup {v}
  BY <1>1, <1>2, VertexFacts, AppendFacts
<1>4. TypeOK'
  BY <1>1, <1>2, <1>3 DEF IInv, TypeOK
<1>5. InsMatchOuts'
  BY <1>1, <1>2, <1>3, VertexFacts DEF IInv, InsMatchOuts
<1>6. DriversLive'
  BY DEF IInv, DriversLive, Live
<1>7. OutsCreated'
  BY <1>1, <1>2, <1>3 DEF IInv, OutsCreated
<1>8. Registered'
  BY DEF IInv, Registered
<1> QED BY <1>4, <1>5, <1>6, <1>7, <1>8 DEF IInv

LEMMA RemoveEdgeInvariant ==
    ASSUME IInv, NEW u \in Live, NEW v \in Live, RemoveEdge(u, v)
    PROVE  IInv'
<1> USE DEF RemoveEdge, registry, loop
<1>1. u \in Vertex /\ v \in Vertex /\ u \in 1..created /\ v \in 1..created
  BY VertexFacts
<1>2. /\ outs'[u] = SwapRemove(outs[u], v) /\ ins'[v] = SwapRemove(ins[v], u)
      /\ \A x \in Vertex : x # u => outs'[x] = outs[x]
      /\ \A x \in Vertex : x # v => ins'[x] = ins[x]
  BY <1>1 DEF IInv, TypeOK
<1>3. /\ outs'[u] \in Seq(Vertex) /\ IsInjective(outs'[u])
      /\ Range(outs'[u]) = Range(outs[u]) \ {v}
      /\ ins'[v] \in Seq(Vertex) /\ IsInjective(ins'[v])
      /\ Range(ins'[v]) = Range(ins[v]) \ {u}
  BY <1>1, <1>2, VertexFacts, SwapRemoveFacts
<1>4. TypeOK'
  <2>1. ins' \in [Vertex -> Seq(Vertex)] /\ outs' \in [Vertex -> Seq(Vertex)]
    BY <1>1, <1>2, <1>3 DEF IInv, TypeOK
  <2>2. edgesCount' \in Int
    BY DEF IInv, TypeOK
  <2>3. edgesGatesCount' \in [Gates \X Gates -> Int]
    <3>1. edgesGatesCount \in [Gates \X Gates -> Int]
      BY DEF IInv, TypeOK
    <3>2. \/ edgesGatesCount' = [edgesGatesCount EXCEPT ![<<gate[u], gate[v]>>] = @ - 1]
          \/ edgesGatesCount' = edgesGatesCount
      OBVIOUS
    <3>3. [edgesGatesCount EXCEPT ![<<gate[u], gate[v]>>] = @ - 1] \in [Gates \X Gates -> Int]
      BY <3>1, CounterType
    <3> QED BY <3>1, <3>2, <3>3
  <2> QED BY <2>1, <2>2, <2>3 DEF IInv, TypeOK
<1>5. InsMatchOuts'
  BY <1>1, <1>2, <1>3, VertexFacts DEF IInv, InsMatchOuts
<1>6. DriversLive'
  <2>1. Live' = Live
    BY DEF Live
  <2> QED BY <1>1, <1>2, <1>3, <2>1 DEF IInv, DriversLive
<1>7. OutsCreated'
  BY <1>1, <1>2, <1>3 DEF IInv, OutsCreated
<1>8. Registered'
  BY DEF IInv, Registered
<1> QED BY <1>4, <1>5, <1>6, <1>7, <1>8 DEF IInv

(* Every count of drivers or consumers of a vertex is a natural number.    *)
LEMMA CountType ==
    ASSUME IInv, NEW v \in Vertex, NEW S, S \subseteq Range(ins[v]) \/ S \subseteq Range(outs[v])
    PROVE  IsFiniteSet(S) /\ Cardinality(S) \in Nat
<1>1. IsFiniteSet(Range(ins[v])) /\ IsFiniteSet(Range(outs[v]))
  BY VertexFacts, RangeCardinality
<1>2. IsFiniteSet(S)
  BY <1>1, FS_Subset
<1> QED BY <1>2, FS_CardinalityType

LEMMA SetGateIfDefaultInvariant ==
    ASSUME IInv, NEW v \in Live, NEW type \in GateTypes, SetGateIfDefault(v, type)
    PROVE  IInv'
<1> USE DEF registry, loop
<1>1. v \in Vertex
  BY VertexFacts
<1>2. PICK seen \in SeenGates :
        edgesGatesCount' = [p \in Gates \X Gates |->
                              edgesGatesCount[p] + NewGateEdges(v, type, seen, p[1], p[2])]
  BY DEF SetGateIfDefault
<1>3. ASSUME NEW g, NEW h PROVE NewGateEdges(v, type, seen, g, h) \in Int
  <2> DEFINE from == {u \in Range(ins[v]) : vtype[u] = "gate" /\ gate[u] = g}
             to == {w \in Range(outs[v]) : vtype[w] = "gate" /\ seen[w] = h}
  <2>1. Cardinality(from) \in Nat /\ Cardinality(to) \in Nat
    BY <1>1, CountType
  <2> HIDE DEF from, to
  <2>2. (IF h = type THEN Cardinality(from) ELSE 0) + (IF g = type THEN Cardinality(to) ELSE 0) \in Int
    BY <2>1
  <2> QED BY <2>2 DEF NewGateEdges, from, to
<1>4. TypeOK'
  <2>1. edgesGatesCount' \in [Gates \X Gates -> Int]
    BY <1>2, <1>3 DEF IInv, TypeOK
  <2>2. gate' \in [Vertex -> Gates \cup {"none"}]
    BY DEF SetGateIfDefault, IInv, TypeOK, Gates
  <2>3. gatesCount' \in [Gates -> Int]
    <3>1. gatesCount \in [Gates -> Int] /\ type \in Gates /\ "GateDefault" \in Gates
      BY DEF IInv, TypeOK, Gates
    <3>2. type # "GateDefault"
      BY CircuitGraphAssumption
    <3>3. gatesCount' = [gatesCount EXCEPT !["GateDefault"] = @ - 1, ![type] = @ + 1]
      BY DEF SetGateIfDefault, Converted
    <3> QED BY <3>1, <3>2, <3>3
  <2> QED BY <2>1, <2>2, <2>3 DEF SetGateIfDefault, IInv, TypeOK
<1>5. InsMatchOuts' /\ DriversLive' /\ OutsCreated'
  BY SameAdjacency DEF SetGateIfDefault
<1>6. Registered'
  BY DEF SetGateIfDefault, IInv, Registered
<1> QED BY <1>4, <1>5, <1>6 DEF IInv

(* scrubOnce takes a bucket to walk: it holds only vertices handed out.    *)
LEMMA WalkFacts ==
    ASSUME IInv, NEW type \in {"gate", "sequential"}, Walk(type), UNCHANGED created
    PROVE  /\ bucket' \in [VertexTypes -> Seq(Vertex)]
           /\ todo' \in Seq(Vertex)
           /\ scrub' \in {"idle", "gate", "sequential"}
           /\ Registered'
<1>1. Range(<<>>) = {}
  BY DEF Range
<1>2. type \in VertexTypes
  BY DEF VertexTypes
<1>3. /\ bucket' \in [VertexTypes -> Seq(Vertex)]
      /\ \A t \in VertexTypes : bucket'[t] = IF t = type THEN <<>> ELSE bucket[t]
      /\ todo' = bucket[type]
  <2>1. bucket \in [VertexTypes -> Seq(Vertex)] /\ <<>> \in Seq(Vertex)
    BY DEF IInv, TypeOK
  <2>2. bucket' = [bucket EXCEPT ![type] = <<>>] /\ todo' = bucket[type]
    BY DEF Walk
  <2> QED BY <1>2, <2>1, <2>2
<1> QED BY <1>1, <1>2, <1>3 DEF Walk, IInv, TypeOK, Registered

LEMMA ScrubWalkInvariant ==
    ASSUME IInv, ScrubBegin \/ ScrubSwitch \/ ScrubRepeat
    PROVE  IInv'
<1> USE DEF ScrubBegin, ScrubSwitch, ScrubRepeat, adjacency
<1>1. \E type \in {"gate", "sequential"} : Walk(type)
  OBVIOUS
<1>2. /\ UNCHANGED <<created, destroyed, vtype, gate, buffers, gatesCount, adjacency>>
      /\ pass' \in Nat
  BY DEF IInv, TypeOK
<1>3. /\ bucket' \in [VertexTypes -> Seq(Vertex)]
      /\ todo' \in Seq(Vertex)
      /\ scrub' \in {"idle", "gate", "sequential"}
      /\ Registered'
  BY <1>1, <1>2, WalkFacts
<1>4. InsMatchOuts' /\ DriversLive' /\ OutsCreated'
  BY <1>2, SameAdjacency
<1>5. TypeOK'
  BY <1>2, <1>3 DEF IInv, TypeOK
<1> QED BY <1>3, <1>4, <1>5 DEF IInv

LEMMA ScrubKeepInvariant ==
    ASSUME IInv, ScrubKeep
    PROVE  IInv'
<1> USE DEF ScrubKeep, adjacency
<1>1. todo \in Seq(Vertex) /\ todo # <<>>
  BY DEF IInv, TypeOK
<1>2. /\ Head(todo) \in Range(todo)
      /\ Tail(todo) \in Seq(Vertex)
      /\ Range(Tail(todo)) \subseteq Range(todo)
  BY <1>1, HeadTailFacts
<1>3. Head(todo) \in Vertex /\ Head(todo) \in 1..created
  BY <1>2, VertexFacts DEF IInv, Registered
<1>4. scrub \in VertexTypes
  BY DEF IInv, TypeOK, VertexTypes
<1>5. /\ bucket' \in [VertexTypes -> Seq(Vertex)]
      /\ bucket'[scrub] = Append(bucket[scrub], Head(todo))
      /\ \A t \in VertexTypes : t # scrub => bucket'[t] = bucket[t]
      /\ bucket[scrub] \in Seq(Vertex)
  BY <1>3, <1>4 DEF IInv, TypeOK
<1>6. Range(bucket'[scrub]) = Range(bucket[scrub]) \cup {Head(todo)}
  BY <1>3, <1>5, AppendFacts
<1>7. Registered'
  BY <1>2, <1>3, <1>4, <1>5, <1>6 DEF IInv, Registered
<1>8. TypeOK'
  BY <1>2, <1>5 DEF IInv, TypeOK
<1>9. InsMatchOuts' /\ DriversLive' /\ OutsCreated'
  BY SameAdjacency
<1> QED BY <1>7, <1>8, <1>9 DEF IInv

LEMMA ScrubRemoveInvariant ==
    ASSUME IInv, ScrubRemove
    PROVE  IInv'
<1> DEFINE v == Head(todo)
<1>1. todo \in Seq(Vertex) /\ todo # <<>>
  BY DEF ScrubRemove, IInv, TypeOK
<1>2. /\ v \in Range(todo)
      /\ Tail(todo) \in Seq(Vertex)
      /\ Range(Tail(todo)) \subseteq Range(todo)
  BY <1>1, HeadTailFacts
<1>3. v \in Vertex /\ v \in 1..created
  BY <1>2, VertexFacts DEF IInv, Registered
<1>4. /\ ins[v] = <<>>
      /\ outs' = [outs EXCEPT ![v] = <<>>]
      /\ ins' = [w \in Vertex |-> IF w \in Consumers(v) THEN SwapRemove(ins[w], v) ELSE ins[w]]
      /\ destroyed' = destroyed \cup {v} /\ todo' = Tail(todo) /\ pass' = pass + 1
      /\ UNCHANGED <<created, vtype, bucket, buffers, gate, scrub>>
  BY DEF ScrubRemove, Undriven, registry
<1>5. /\ Cardinality(Consumers(v)) \in Nat
      /\ \A h : Cardinality({w \in Consumers(v) : vtype[w] = "gate" /\ gate[w] = h}) \in Nat
  BY <1>3, CountType DEF Consumers
<1>6. edgesCount' \in Int
  BY <1>5 DEF ScrubRemove, IInv, TypeOK
<1>7. edgesGatesCount' \in [Gates \X Gates -> Int]
  <2> DEFINE lost(g, h) == IF gate[v] = g
                           THEN Cardinality({w \in Consumers(v) : vtype[w] = "gate" /\ gate[w] = h})
                           ELSE 0
  <2>1. \A g, h : lost(g, h) \in Int
    BY <1>5
  <2>2. edgesGatesCount' = IF scrub = "gate"
                           THEN [p \in Gates \X Gates |-> edgesGatesCount[p] - lost(p[1], p[2])]
                           ELSE edgesGatesCount
    BY DEF ScrubRemove
  <2> HIDE DEF lost
  <2> QED BY <2>1, <2>2 DEF IInv, TypeOK
<1>8. gatesCount' \in [Gates -> Int]
  <2>1. gatesCount \in [Gates -> Int]
    BY DEF IInv, TypeOK
  <2>2. \/ gatesCount' = [gatesCount EXCEPT ![gate[v]] = @ - 1]
        \/ gatesCount' = gatesCount
    BY DEF ScrubRemove
  <2> QED BY <2>1, <2>2, CounterType
<1> HIDE DEF v
<1>9. ASSUME NEW w \in Vertex
      PROVE  /\ ins'[w] \in Seq(Vertex) /\ IsInjective(ins'[w])
             /\ Range(ins'[w]) = Range(ins[w]) \ {v}
  <2>1. ins[w] \in Seq(Vertex) /\ IsInjective(ins[w])
    BY VertexFacts
  <2>2. CASE w \in Consumers(v)
    BY <1>4, <2>1, <2>2, SwapRemoveFacts
  <2>3. CASE w \notin Consumers(v)
    <3>1. v \notin Range(ins[w])
      BY <1>3, <2>3 DEF Consumers, IInv, InsMatchOuts
    <3> QED BY <1>4, <2>1, <2>3, <3>1
  <2> QED BY <2>2, <2>3
<1>10. /\ Range(ins[v]) = {} /\ Range(outs'[v]) = {} /\ outs'[v] = <<>>
       /\ IsInjective(outs'[v]) /\ \A w \in Vertex : w # v => outs'[w] = outs[w]
  BY <1>3, <1>4 DEF IInv, TypeOK, Range, IsInjective
<1>11. TypeOK'
  <2>1. ins' \in [Vertex -> Seq(Vertex)]
    <3>1. ins' = [w \in Vertex |-> ins'[w]]
      BY <1>4
    <3> QED BY <1>9, <3>1
  <2>2. outs' \in [Vertex -> Seq(Vertex)]
    BY <1>4 DEF IInv, TypeOK
  <2>3. destroyed' \subseteq 1..created'
    BY <1>3, <1>4 DEF IInv, TypeOK
  <2>4. todo' \in Seq(Vertex) /\ pass' \in Nat
    BY <1>2, <1>4 DEF IInv, TypeOK
  <2> QED BY <1>4, <1>6, <1>7, <1>8, <2>1, <2>2, <2>3, <2>4 DEF IInv, TypeOK
<1>12. InsMatchOuts'
  <2>1. ASSUME NEW u \in Vertex, NEW w \in Vertex, u \in Range(ins'[w])
        PROVE  w \in Range(outs'[u])
    BY <1>9, <1>10, <2>1 DEF IInv, InsMatchOuts
  <2>2. \A w \in Vertex : IsInjective(outs'[w])
    BY <1>10, VertexFacts
  <2> QED BY <1>9, <2>1, <2>2 DEF InsMatchOuts
<1>13. DriversLive'
  <2>1. Live' = Live \ {v}
    BY <1>4 DEF Live
  <2>2. ASSUME NEW u \in Vertex, NEW w \in Vertex, u \in Range(ins'[w])
        PROVE  u \in Live' /\ w \in Live'
    BY <1>9, <1>10, <2>1, <2>2 DEF IInv, DriversLive
  <2> QED BY <2>2 DEF DriversLive
<1>14. OutsCreated'
  BY <1>3, <1>4, <1>10 DEF IInv, OutsCreated
<1>15. Registered'
  BY <1>2, <1>4 DEF IInv, Registered
<1> QED BY <1>11, <1>12, <1>13, <1>14, <1>15 DEF IInv

LEMMA ScrubEndInvariant ==
    ASSUME IInv, ScrubEnd
    PROVE  IInv'
<1> USE DEF ScrubEnd, adjacency, registry
<1>1. InsMatchOuts' /\ DriversLive' /\ OutsCreated'
  BY SameAdjacency
<1> QED BY <1>1 DEF IInv, TypeOK, Registered

-----------------------------------------------------------------------------

THEOREM NextInvariant == IInv /\ [Next]_vars => IInv'
<1> SUFFICES ASSUME IInv, [Next]_vars PROVE IInv'
  OBVIOUS
<1>1. CASE Build
  <2>1. ASSUME NEW t \in Types \cap {"input", "constant", "output"}, AddTerminal(t) PROVE IInv'
    BY <2>1, AddTerminalInvariant
  <2>2. ASSUME NEW g \in Gates, AddGate(g) PROVE IInv'
    BY <2>2, AddGateInvariant
  <2>3. ASSUME NEW d \in DriverLists, AddSequential(d) PROVE IInv'
    BY <2>3, AddSequentialInvariant
  <2>4. ASSUME NEW d \in DriverLists, NEW n \in 0..MaxBuffers, AddSubGraph(d, n) PROVE IInv'
    BY <2>4, AddSubGraphInvariant
  <2> QED BY <1>1, <2>1, <2>2, <2>3, <2>4 DEF Build
<1>2. CASE Edit
  <2>1. ASSUME NEW u \in Live, NEW v \in Live, AddEdge(u, v) PROVE IInv'
    BY <2>1, AddEdgeInvariant
  <2>2. ASSUME NEW u \in Live, NEW v \in Live, AddEdgeThrows(u, v) PROVE IInv'
    BY <2>2, AddEdgeThrowsInvariant
  <2>3. ASSUME NEW u \in Live, NEW v \in Live, RemoveEdge(u, v) PROVE IInv'
    BY <2>3, RemoveEdgeInvariant
  <2>4. ASSUME NEW v \in Live, NEW type \in GateTypes, SetGateIfDefault(v, type) PROVE IInv'
    BY <2>4, SetGateIfDefaultInvariant
  <2> QED BY <1>2, <2>1, <2>2, <2>3, <2>4 DEF Edit
<1>3. CASE ScrubBegin
  BY <1>3, ScrubWalkInvariant
<1>4. CASE ScrubStep
  BY <1>4, ScrubKeepInvariant, ScrubRemoveInvariant, ScrubWalkInvariant, ScrubEndInvariant
     DEF ScrubStep
<1>5. CASE UNCHANGED vars
  <2>1. InsMatchOuts' /\ DriversLive' /\ OutsCreated'
    BY <1>5, SameAdjacency DEF vars
  <2> QED BY <1>5, <2>1 DEF vars, IInv, TypeOK, Registered
<1> QED BY <1>1, <1>2, <1>3, <1>4, <1>5 DEF Next

THEOREM Invariant == Spec => []IInv
BY InitInvariant, NextInvariant, PTL DEF Spec

(* Every variable keeps its type: the counters stay integers, the vectors  *)
(* hold vertices.                                                          *)
THEOREM TypeCorrect == Spec => []TypeOK
<1>1. IInv => TypeOK
  BY DEF IInv
<1> QED BY Invariant, <1>1, PTL

(* Whatever is added, connected, disconnected or scrubbed, every           *)
(* in-connection has its out-connection and no vector repeats a vertex.    *)
THEOREM EdgesPaired == Spec => []InsMatchOuts
<1>1. IInv => InsMatchOuts
  BY DEF IInv
<1> QED BY Invariant, <1>1, PTL

(* No live vertex ever reads a destroyed one.                              *)
THEOREM NoDanglingDriver == Spec => []DriversLive
<1>1. IInv => DriversLive
  BY DEF IInv
<1> QED BY Invariant, <1>1, PTL

-----------------------------------------------------------------------------
(* d_edgesCount is the number of edges.                                    *)

LEMMA EdgeFacts ==
    ASSUME IInv
    PROVE  /\ IsFiniteSet(Edges) /\ Cardinality(Edges) \in Nat
           /\ Edges \subseteq Vertex \X Vertex
           /\ \A u, v \in Vertex : <<u, v>> \in Edges <=> u \in Range(ins[v])
<1>1. IsFiniteSet(Vertex)
  BY CircuitGraphAssumption, FS_Interval DEF Vertex
<1>2. IsFiniteSet(Vertex \X Vertex)
  BY <1>1, FS_Product
<1>3. Edges \subseteq Vertex \X Vertex
  BY DEF Edges
<1>4. IsFiniteSet(Edges) /\ Cardinality(Edges) \in Nat
  BY <1>2, <1>3, FS_Subset, FS_CardinalityType
<1> QED BY <1>3, <1>4 DEF Edges

(* The edges into one vertex, or out of one, are as many as their other    *)
(* ends.                                                                   *)
LEMMA StarFacts ==
    ASSUME NEW S, NEW x, IsFiniteSet(S)
    PROVE  /\ IsFiniteSet(S \X {x}) /\ Cardinality(S \X {x}) = Cardinality(S)
           /\ IsFiniteSet({x} \X S) /\ Cardinality({x} \X S) = Cardinality(S)
<1>1. IsFiniteSet({x}) /\ Cardinality({x}) = 1 /\ Cardinality(S) \in Nat
  BY FS_Singleton, FS_CardinalityType
<1>2. /\ IsFiniteSet(S \X {x})
      /\ Cardinality(S \X {x}) = Cardinality(S) * Cardinality({x})
  BY <1>1, FS_Product
<1>3. /\ IsFiniteSet({x} \X S)
      /\ Cardinality({x} \X S) = Cardinality({x}) * Cardinality(S)
  BY <1>1, FS_Product
<1> QED BY <1>1, <1>2, <1>3

(* Growing and shrinking a set of edges.                                   *)
LEMMA MorePairs ==
    ASSUME NEW E, NEW P, IsFiniteSet(E), IsFiniteSet(P), E \cap P = {}
    PROVE  /\ IsFiniteSet(E \cup P)
           /\ Cardinality(E \cup P) = Cardinality(E) + Cardinality(P)
<1>1. Cardinality(E) \in Nat /\ Cardinality(P) \in Nat
  BY FS_CardinalityType
<1>2. /\ IsFiniteSet(E \cup P)
      /\ Cardinality(E \cup P) = Cardinality(E) + Cardinality(P) - Cardinality(E \cap P)
  BY FS_Union
<1>3. Cardinality(E \cap P) = 0
  BY FS_EmptySet
<1> QED BY <1>1, <1>2, <1>3

LEMMA FewerPairs ==
    ASSUME NEW E, NEW P, IsFiniteSet(E), P \subseteq E
    PROVE  Cardinality(E \ P) = Cardinality(E) - Cardinality(P)
<1>1. E \cap P = P
  OBVIOUS
<1>2. Cardinality(E \ P) = Cardinality(E) - Cardinality(E \cap P)
  BY FS_Difference
<1> QED BY <1>1, <1>2

LEMMA SameEdges ==
    ASSUME EdgesCountExact, UNCHANGED <<ins, edgesCount>>
    PROVE  EdgesCountExact'
BY DEF EdgesCountExact, Edges

LEMMA AddSequentialCounts ==
    ASSUME IInv, EdgesCountExact, NEW d \in DriverLists, AddSequential(d)
    PROVE  EdgesCountExact'
<1>1. Fresh \in Vertex /\ Fresh \notin Live
  BY VertexFacts, CircuitGraphAssumption DEF AddSequential, Fresh, Vertex
<1>2. /\ d \in Seq(Vertex) /\ IsInjective(d) /\ Len(d) \in Nat
      /\ Range(d) \subseteq Vertex
  BY DriverFacts, VertexFacts
<1>3. \A v \in Vertex : ins'[v] = IF v = Fresh THEN d ELSE ins[v]
  BY DEF AddSequential, IInv, TypeOK
<1>4. \A u \in Vertex : u \notin Range(ins[Fresh])
  BY <1>1 DEF IInv, DriversLive
<1>5. Edges' = Edges \cup (Range(d) \X {Fresh})
  BY <1>1, <1>2, <1>3, <1>4 DEF Edges
<1>6. Edges \cap (Range(d) \X {Fresh}) = {}
  BY <1>1, <1>4 DEF Edges
<1>7. IsFiniteSet(Range(d)) /\ Cardinality(Range(d)) = Len(d)
  BY <1>2, RangeCardinality
<1>8. /\ IsFiniteSet(Range(d) \X {Fresh})
      /\ Cardinality(Range(d) \X {Fresh}) = Len(d)
  BY <1>7, StarFacts
<1>9. Cardinality(Edges') = Cardinality(Edges) + Len(d)
  BY <1>5, <1>6, <1>8, EdgeFacts, MorePairs
<1> QED BY <1>9 DEF AddSequential, EdgesCountExact

LEMMA AddEdgeCounts ==
    ASSUME IInv, EdgesCountExact, NEW u \in Live, NEW v \in Live, AddEdge(u, v)
    PROVE  EdgesCountExact'
<1>1. u \in Vertex /\ v \in Vertex
  BY VertexFacts
<1>2. /\ ins'[v] = Append(ins[v], u)
      /\ \A x \in Vertex : x # v => ins'[x] = ins[x]
  BY <1>1 DEF AddEdge, IInv, TypeOK
<1>3. u \notin Range(ins[v]) /\ Range(ins'[v]) = Range(ins[v]) \cup {u}
  BY <1>1, <1>2, VertexFacts, AppendFacts DEF AddEdge, IInv, InsMatchOuts
<1>4. Edges' = Edges \cup {<<u, v>>}
  <2>1. \A y \in Vertex :
          Range(ins'[y]) = IF y = v THEN Range(ins[v]) \cup {u} ELSE Range(ins[y])
    BY <1>2, <1>3
  <2>2. ASSUME NEW x \in Vertex, NEW y \in Vertex
        PROVE  x \in Range(ins'[y]) <=> x \in Range(ins[y]) \/ (x = u /\ y = v)
    BY <1>1, <2>1
  <2>3. Edges' \subseteq Edges \cup {<<u, v>>}
    BY <2>2 DEF Edges
  <2>4. Edges \subseteq Edges' /\ <<u, v>> \in Edges'
    BY <1>1, <2>2 DEF Edges
  <2> QED BY <2>3, <2>4
<1>5. <<u, v>> \notin Edges
  BY <1>3 DEF Edges
<1>6. Cardinality(Edges') = Cardinality(Edges) + 1
  BY <1>4, <1>5, EdgeFacts, FS_AddElement
<1> QED BY <1>6 DEF AddEdge, EdgesCountExact

LEMMA RemoveEdgeCounts ==
    ASSUME IInv, EdgesCountExact, NEW u \in Live, NEW v \in Live, RemoveEdge(u, v)
    PROVE  EdgesCountExact'
<1>1. u \in Vertex /\ v \in Vertex
  BY VertexFacts
<1>2. /\ ins'[v] = SwapRemove(ins[v], u)
      /\ \A x \in Vertex : x # v => ins'[x] = ins[x]
  BY <1>1 DEF RemoveEdge, IInv, TypeOK
<1>3. Range(ins'[v]) = Range(ins[v]) \ {u}
  BY <1>1, <1>2, VertexFacts, SwapRemoveFacts
<1>4. Edges' = Edges \ {<<u, v>>}
  BY <1>1, <1>2, <1>3 DEF Edges
<1>5. Cardinality(Edges') = IF <<u, v>> \in Edges THEN Cardinality(Edges) - 1
                                                  ELSE Cardinality(Edges)
  BY <1>4, EdgeFacts, FS_RemoveElement
<1>6. Deleted(u, v) <=> <<u, v>> \in Edges
  BY <1>1 DEF Deleted, RemoveEdge, Edges
<1> QED BY <1>5, <1>6 DEF RemoveEdge, EdgesCountExact

LEMMA ScrubRemoveCounts ==
    ASSUME IInv, EdgesCountExact, ScrubRemove
    PROVE  EdgesCountExact'
<1> DEFINE v == Head(todo)
<1>1. v \in Vertex
  <2>1. todo \in Seq(Vertex) /\ todo # <<>>
    BY DEF ScrubRemove, IInv, TypeOK
  <2> QED BY <2>1
<1>2. /\ ins' = [w \in Vertex |-> IF w \in Consumers(v) THEN SwapRemove(ins[w], v) ELSE ins[w]]
      /\ edgesCount' = edgesCount - Cardinality(Consumers(v))
  BY DEF ScrubRemove
<1> HIDE DEF v
<1>3. /\ \A w \in Vertex : w \in Consumers(v) <=> v \in Range(ins[w])
      /\ Consumers(v) \subseteq Vertex
  BY <1>1, VertexFacts, RangeInside DEF Consumers, IInv, InsMatchOuts
<1>4. ASSUME NEW w \in Vertex
      PROVE  Range(ins'[w]) = Range(ins[w]) \ {v}
  <2>1. ins[w] \in Seq(Vertex) /\ IsInjective(ins[w])
    BY VertexFacts
  <2>2. CASE w \in Consumers(v)
    BY <1>2, <2>1, <2>2, SwapRemoveFacts
  <2>3. CASE w \notin Consumers(v)
    BY <1>2, <1>3, <2>3
  <2> QED BY <2>2, <2>3
<1>5. Edges' = Edges \ ({v} \X Consumers(v)) /\ {v} \X Consumers(v) \subseteq Edges
  BY <1>1, <1>3, <1>4 DEF Edges
<1>6. /\ IsFiniteSet(Consumers(v)) /\ Cardinality(Consumers(v)) \in Nat
  BY <1>1, CountType DEF Consumers
<1>7. Cardinality(Edges') = Cardinality(Edges) - Cardinality(Consumers(v))
  <2>1. Cardinality({v} \X Consumers(v)) = Cardinality(Consumers(v))
    BY <1>6, StarFacts
  <2>2. Cardinality(Edges \ ({v} \X Consumers(v)))
          = Cardinality(Edges) - Cardinality({v} \X Consumers(v))
    BY <1>5, EdgeFacts, FewerPairs
  <2> QED BY <1>5, <2>1, <2>2
<1> QED BY <1>2, <1>6, <1>7, EdgeFacts DEF EdgesCountExact

LEMMA AddSubGraphCounts ==
    ASSUME IInv, EdgesCountExact, NEW d \in DriverLists, NEW n \in 0..MaxBuffers, AddSubGraph(d, n)
    PROVE  EdgesCountExact'
<1> DEFINE bufs == (Fresh + 1)..(Fresh + n)
           into == Range(d) \X {Fresh}
           from == {Fresh} \X bufs
<1>1. /\ n \in Nat /\ created \in Nat /\ Fresh = created + 1 /\ Fresh + n <= MaxVertices
      /\ Fresh \in Vertex /\ Fresh \notin Live
  <2>1. n \in Nat /\ created \in Nat /\ MaxVertices \in Nat /\ Fresh = created + 1
    BY VertexFacts, CircuitGraphAssumption DEF Fresh
  <2>2. Fresh + n <= MaxVertices
    BY <2>1 DEF AddSubGraph
  <2> QED BY <2>1, <2>2, VertexFacts DEF Vertex
<1>2. ASSUME NEW x \in bufs PROVE x \in Vertex /\ x # Fresh /\ x \notin Live
  <2>1. x \in Int /\ created + 2 <= x /\ x <= Fresh + n
    BY <1>1
  <2>2. MaxVertices \in Nat /\ Live \subseteq 1..created
    BY VertexFacts, CircuitGraphAssumption
  <2>3. x \in 1..MaxVertices /\ x # Fresh /\ x \notin 1..created
    BY <1>1, <2>1, <2>2
  <2> QED BY <2>2, <2>3 DEF Vertex
<1>3. IsFiniteSet(bufs) /\ Cardinality(bufs) = n
  BY <1>1, FS_Interval
<1>4. /\ d \in Seq(Vertex) /\ IsInjective(d) /\ Len(d) \in Nat
      /\ Range(d) \subseteq Vertex /\ Range(d) \subseteq Live
  BY DriverFacts, VertexFacts
<1>5. \A v \in Vertex :
        ins'[v] = IF v = Fresh THEN d ELSE IF v \in bufs THEN <<Fresh>> ELSE ins[v]
  BY DEF AddSubGraph
<1>6. edgesCount' = edgesCount + Len(d) + n
  BY DEF AddSubGraph
<1> HIDE DEF bufs
<1>7. Range(<<Fresh>>) = {Fresh}
  BY DEF Range
<1>8. \A u, v \in Vertex : u \in Range(ins[v]) => v # Fresh /\ v \notin bufs
  BY <1>1, <1>2 DEF IInv, DriversLive
<1>9. \A u, v \in Vertex :
        u \in Range(ins'[v]) <=> \/ u \in Range(ins[v])
                                 \/ v = Fresh /\ u \in Range(d)
                                 \/ v \in bufs /\ u = Fresh
  BY <1>1, <1>2, <1>5, <1>7, <1>8
<1>10. Edges' = (Edges \cup into) \cup from
  <2>1. Edges' \subseteq (Edges \cup into) \cup from
    BY <1>9 DEF Edges
  <2>2. Edges \subseteq Edges' /\ into \subseteq Edges' /\ from \subseteq Edges'
    <3>1. Edges \subseteq Edges'
      BY <1>9 DEF Edges
    <3>2. into \subseteq Edges'
      BY <1>1, <1>4, <1>9 DEF Edges
    <3>3. from \subseteq Edges'
      BY <1>1, <1>2, <1>9 DEF Edges
    <3> QED BY <3>1, <3>2, <3>3
  <2> QED BY <2>1, <2>2
<1>11. Edges \cap into = {} /\ (Edges \cup into) \cap from = {}
  <2>1. Edges \cap into = {} /\ Edges \cap from = {}
    BY <1>8, EdgeFacts DEF Edges
  <2>2. into \cap from = {}
    BY <1>1, <1>4
  <2> QED BY <2>1, <2>2
<1>12. IsFiniteSet(Range(d)) /\ Cardinality(Range(d)) = Len(d)
  BY <1>4, RangeCardinality
<1>13. /\ IsFiniteSet(into) /\ Cardinality(into) = Len(d)
       /\ IsFiniteSet(from) /\ Cardinality(from) = n
  BY <1>3, <1>12, StarFacts
<1> HIDE DEF into, from
<1>14. /\ IsFiniteSet(Edges \cup into)
       /\ Cardinality(Edges \cup into) = Cardinality(Edges) + Len(d)
  BY <1>11, <1>13, EdgeFacts, MorePairs
<1>15. Cardinality((Edges \cup into) \cup from) = Cardinality(Edges \cup into) + n
  BY <1>11, <1>13, <1>14, MorePairs
<1>16. Cardinality((Edges \cup into) \cup from) = Cardinality(Edges) + Len(d) + n
  BY <1>14, <1>15
<1> QED BY <1>6, <1>10, <1>16 DEF EdgesCountExact

LEMMA NextCounts == IInv /\ EdgesCountExact /\ [Next]_vars => EdgesCountExact'
<1> SUFFICES ASSUME IInv, EdgesCountExact, [Next]_vars PROVE EdgesCountExact'
  OBVIOUS
<1>1. CASE Build
  <2>1. ASSUME NEW t \in Types \cap {"input", "constant", "output"}, AddTerminal(t)
        PROVE  EdgesCountExact'
    BY <2>1, SameEdges DEF AddTerminal, adjacency
  <2>2. ASSUME NEW g \in Gates, AddGate(g) PROVE EdgesCountExact'
    BY <2>2, SameEdges DEF AddGate, adjacency
  <2>3. ASSUME NEW d \in DriverLists, AddSequential(d) PROVE EdgesCountExact'
    BY <2>3, AddSequentialCounts
  <2>4. ASSUME NEW d \in DriverLists, NEW n \in 0..MaxBuffers, AddSubGraph(d, n)
        PROVE  EdgesCountExact'
    BY <2>4, AddSubGraphCounts
  <2> QED BY <1>1, <2>1, <2>2, <2>3, <2>4 DEF Build
<1>2. CASE Edit
  <2>1. ASSUME NEW u \in Live, NEW v \in Live, AddEdge(u, v) PROVE EdgesCountExact'
    BY <2>1, AddEdgeCounts
  <2>2. ASSUME NEW u \in Live, NEW v \in Live, AddEdgeThrows(u, v) PROVE EdgesCountExact'
    BY <2>2, SameEdges DEF AddEdgeThrows
  <2>3. ASSUME NEW u \in Live, NEW v \in Live, RemoveEdge(u, v) PROVE EdgesCountExact'
    BY <2>3, RemoveEdgeCounts
  <2>4. ASSUME NEW v \in Live, NEW type \in GateTypes, SetGateIfDefault(v, type)
        PROVE  EdgesCountExact'
    BY <2>4, SameEdges DEF SetGateIfDefault
  <2> QED BY <1>2, <2>1, <2>2, <2>3, <2>4 DEF Edit
<1>3. CASE ScrubBegin \/ ScrubKeep \/ ScrubSwitch \/ ScrubRepeat \/ ScrubEnd
  BY <1>3, SameEdges DEF ScrubBegin, ScrubKeep, ScrubSwitch, ScrubRepeat, ScrubEnd, adjacency
<1>4. CASE ScrubRemove
  BY <1>4, ScrubRemoveCounts
<1>5. CASE UNCHANGED vars
  BY <1>5, SameEdges DEF vars
<1> QED BY <1>1, <1>2, <1>3, <1>4, <1>5 DEF Next, ScrubStep

(* getEdgesCount is exact after any history of calls, failed ones and      *)
(* scrubs in progress included.                                            *)
THEOREM EdgesCounted == Spec => []EdgesCountExact
<1>1. Init => EdgesCountExact
  <2>1. Range(<<>>) = {}
    BY DEF Range
  <2>2. ASSUME Init PROVE Edges = {} /\ edgesCount = 0
    BY <2>1, <2>2 DEF Init, Edges
  <2> QED BY <2>2, FS_EmptySet DEF EdgesCountExact
<1> QED BY <1>1, Invariant, NextCounts, PTL DEF Spec

-----------------------------------------------------------------------------
(* Where the vertices are filed, and what follows for the scrub of         *)
(* vertices without drivers.                                               *)

(* Exactly the gates have an operation, and a vertex not handed out yet    *)
(* has no type.                                                            *)
GatesTyped ==
    \A v \in Vertex : /\ gate[v] \in Gates <=> vtype[v] = "gate"
                      /\ v \notin 1..created => vtype[v] = "none"

(* The output buffers of instances are live gates; with asserts nobody     *)
(* gives them another operation.                                           *)
BuffersApart ==
    \A v \in buffers : /\ v \in Live
                       /\ vtype[v] = "gate"
                       /\ Asserts => gate[v] = "GateBuf"

(* With asserts no vertex drives itself.                                   *)
Unlooped == Asserts => \A v \in Vertex : v \notin Range(ins[v])

\* What scrubOnce has taken out of bucket t and not looked at yet.
Waiting(t) == IF scrub = t THEN Range(todo) ELSE {}

\* The vertices bucket t has to hold.
Members(t) == {v \in Live : vtype[v] = t /\ v \notin buffers}

(* Bucket t lists the live vertices of type t that are not output buffers, *)
(* each once; while the scrub walks it, those it has kept and those it has *)
(* still to look at make up the list.                                      *)
FiledAs(t) ==
    /\ IsInjective(bucket[t])
    /\ Range(bucket[t]) \cup Waiting(t) = Members(t)
    /\ Range(bucket[t]) \cap Waiting(t) = {}

Filed == IsInjective(todo) /\ FiledAs("gate") /\ FiledAs("sequential")

RInv == IInv /\ GatesTyped /\ BuffersApart /\ Unlooped /\ Filed

-----------------------------------------------------------------------------

LEMMA RegistryFacts ==
    ASSUME RInv
    PROVE  /\ IInv
           /\ \A v \in Vertex : v \notin 1..created => vtype[v] = "none" /\ gate[v] = "none"
           /\ \A v \in Vertex : gate[v] \in Gates <=> vtype[v] = "gate"
           /\ \A v \in Vertex : v \in buffers \/ v \in Live => v \in 1..created
           /\ Fresh \notin 1..created /\ Fresh \notin Live /\ Fresh \notin buffers
           /\ "none" \notin Gates /\ "GateBuf" \in Gates
<1>1. \A v \in Vertex : v \notin 1..created => vtype[v] = "none" /\ gate[v] = "none"
  BY DEF RInv, IInv, TypeOK, GatesTyped, VertexTypes
<1>2. \A v : v \in buffers \/ v \in Live => v \in 1..created
  BY DEF RInv, BuffersApart, Live
<1>3. Fresh \notin 1..created
  BY VertexFacts DEF Fresh, RInv
<1> QED BY <1>1, <1>2, <1>3, CircuitGraphAssumption DEF RInv, GatesTyped, Gates

LEMMA InitRegistry == Init => RInv
<1> SUFFICES ASSUME Init PROVE RInv
  OBVIOUS
<1>1. Range(<<>>) = {} /\ IsInjective(<<>>)
  BY DEF Range, IsInjective
<1>2. GatesTyped
  BY CircuitGraphAssumption DEF Init, GatesTyped, Vertex, Gates
<1>3. Live = {} /\ \A v \in Vertex : ins[v] = <<>>
  BY DEF Init, Live
<1>4. Filed
  BY <1>1, <1>3 DEF Init, Filed, FiledAs, Waiting, Members, VertexTypes
<1> QED BY <1>1, <1>2, <1>3, <1>4, InitInvariant DEF Init, RInv, BuffersApart, Unlooped

(* A call that moves edges only.                                           *)
LEMMA EdgesOnly ==
    ASSUME RInv, UNCHANGED <<created, destroyed, vtype, gate, bucket, buffers, scrub, todo>>
    PROVE  GatesTyped' /\ BuffersApart' /\ Filed'
BY DEF RInv, GatesTyped, BuffersApart, Filed, FiledAs, Waiting, Members, Live

(* A call that hands out Fresh as a vertex of type t, and possibly buffers *)
(* after it.                                                               *)
LEMMA NewFiled ==
    ASSUME RInv, NEW t \in VertexTypes, NEW n \in Nat, NEW bufs,
           bufs = (Fresh + 1)..(Fresh + n),
           scrub = "idle",
           created' = Fresh + n, created' <= MaxVertices,
           vtype' = [v \in Vertex |-> IF v = Fresh THEN t
                                      ELSE IF v \in bufs THEN "gate" ELSE vtype[v]],
           bucket' = [bucket EXCEPT ![t] = Append(@, Fresh)],
           buffers' = buffers \cup bufs,
           UNCHANGED <<destroyed, scrub, todo>>
    PROVE  /\ Live' = Live \cup {Fresh} \cup bufs
           /\ Fresh \notin bufs /\ bufs \cap (1..created) = {} /\ bufs \subseteq Vertex
           /\ Fresh \in Vertex
           /\ Filed'
<1>1. /\ created \in Nat /\ Fresh = created + 1 /\ IInv /\ Fresh \in Vertex
      /\ Fresh \notin 1..created
  BY NewInBucket DEF RInv
<1>2. MaxVertices \in Nat /\ destroyed \subseteq 1..created
  BY <1>1, CircuitGraphAssumption DEF IInv, TypeOK
<1>3. ASSUME NEW x \in bufs
      PROVE  x \in Vertex /\ x \in 1..created' /\ x # Fresh /\ x \notin 1..created
  <2>1. x \in Int /\ created + 2 <= x /\ x <= created' /\ created' \in Int
    BY <1>1
  <2> QED BY <1>1, <1>2, <2>1 DEF Vertex
<1>4. 1..created' = (1..created) \cup {Fresh} \cup bufs
  <2>1. ASSUME NEW x \in 1..created', x \notin 1..created, x # Fresh PROVE x \in bufs
    BY <1>1, <2>1
  <2>2. 1..created \subseteq 1..created' /\ Fresh \in 1..created'
    BY <1>1
  <2> QED BY <1>3, <2>1, <2>2
<1>5. Live' = Live \cup {Fresh} \cup bufs
  BY <1>1, <1>2, <1>3, <1>4 DEF Live
<1>6. /\ bucket[t] \in Seq(Vertex) /\ bucket'[t] = Append(bucket[t], Fresh)
      /\ \A x \in VertexTypes : x # t => bucket'[x] = bucket[x]
  BY <1>1 DEF IInv, TypeOK
<1>7. ASSUME NEW x \in {"gate", "sequential"} PROVE FiledAs(x)'
  <2>1. x \in VertexTypes /\ x # "idle" /\ Waiting(x) = {} /\ Waiting(x)' = {} /\ FiledAs(x)
    BY DEF VertexTypes, Waiting, RInv, Filed
  <2>2. IsInjective(bucket[x]) /\ Range(bucket[x]) = Members(x)
    BY <2>1 DEF FiledAs
  <2>3. Fresh \notin Members(x)
    BY <1>1, VertexFacts DEF Members
  <2>4. Members(x)' = IF x = t THEN Members(x) \cup {Fresh} ELSE Members(x)
    <3>1. \A v \in Live : v \in Vertex /\ v # Fresh /\ v \notin bufs
      BY <1>1, <1>3, VertexFacts
    <3>2. buffers \subseteq 1..created
      BY RegistryFacts DEF RInv, BuffersApart, Live
    <3>3. Fresh \notin buffers'
      BY <1>1, <1>3, <3>2
    <3> QED BY <1>1, <1>3, <1>5, <3>1, <3>3 DEF Members
  <2>5. CASE x = t
    BY <1>1, <1>6, <2>1, <2>2, <2>3, <2>4, <2>5, AppendFacts DEF FiledAs
  <2>6. CASE x # t
    BY <1>6, <2>1, <2>2, <2>4, <2>6 DEF FiledAs
  <2> QED BY <2>5, <2>6
<1>8. Filed'
  BY <1>7 DEF RInv, Filed
<1> QED BY <1>1, <1>3, <1>5, <1>8

(* addInput, addConst, addOutput, addGate, addSequential: one vertex.      *)
LEMMA OneFiled ==
    ASSUME RInv, NEW t \in VertexTypes, scrub = "idle",
           created' = Fresh, created' <= MaxVertices,
           vtype' = [vtype EXCEPT ![Fresh] = t],
           bucket' = [bucket EXCEPT ![t] = Append(@, Fresh)],
           UNCHANGED <<destroyed, buffers, scrub, todo>>
    PROVE  /\ Live' = Live \cup {Fresh} /\ Fresh \in Vertex
           /\ \A v \in Vertex : vtype'[v] = IF v = Fresh THEN t ELSE vtype[v]
           /\ Filed'
<1> DEFINE bufs == (Fresh + 1)..(Fresh + 0)
<1>1. created \in Nat /\ Fresh = created + 1
  BY VertexFacts DEF RInv, Fresh
<1>2. bufs = {} /\ created' = Fresh + 0
  BY <1>1
<1>3. /\ vtype' = [v \in Vertex |-> IF v = Fresh THEN t
                                    ELSE IF v \in bufs THEN "gate" ELSE vtype[v]]
      /\ buffers' = buffers \cup bufs
  BY <1>2 DEF RInv, IInv, TypeOK
<1>4. 0 \in Nat /\ bufs = (Fresh + 1)..(Fresh + 0)
  OBVIOUS
<1> HIDE DEF bufs
<1>5. /\ Live' = Live \cup {Fresh} \cup bufs /\ Fresh \in Vertex
      /\ Filed'
  BY <1>2, <1>3, <1>4, NewFiled
<1> QED BY <1>2, <1>3, <1>5

LEMMA AddTerminalRegistry ==
    ASSUME RInv, NEW t \in {"input", "constant", "output"}, AddTerminal(t)
    PROVE  RInv'
<1> USE DEF AddTerminal, adjacency, loop
<1>1. t \in VertexTypes /\ t # "gate" /\ created' <= MaxVertices
  BY VertexFacts, CircuitGraphAssumption DEF Fresh, VertexTypes, RInv
<1>2. /\ Live' = Live \cup {Fresh} /\ Fresh \in Vertex
      /\ \A v \in Vertex : vtype'[v] = IF v = Fresh THEN t ELSE vtype[v]
      /\ Filed'
  BY <1>1, OneFiled
<1>3. IInv'
  BY AddTerminalInvariant DEF RInv
<1>4. GatesTyped'
  <2>1. 1..created \subseteq 1..created' /\ Fresh \in 1..created'
    BY VertexFacts DEF RInv, Fresh
  <2> QED BY <1>1, <1>2, <2>1, RegistryFacts DEF GatesTyped
<1>5. BuffersApart'
  BY <1>2, RegistryFacts DEF RInv, BuffersApart, IInv, TypeOK
<1> QED BY <1>2, <1>3, <1>4, <1>5 DEF RInv, Unlooped

LEMMA AddGateRegistry ==
    ASSUME RInv, NEW g \in Gates, AddGate(g)
    PROVE  RInv'
<1> USE DEF AddGate, adjacency, loop
<1>1. "gate" \in VertexTypes /\ created' <= MaxVertices
  BY VertexFacts, CircuitGraphAssumption DEF Fresh, VertexTypes, RInv
<1>2. /\ Live' = Live \cup {Fresh} /\ Fresh \in Vertex
      /\ \A v \in Vertex : vtype'[v] = IF v = Fresh THEN "gate" ELSE vtype[v]
      /\ Filed'
  BY <1>1, OneFiled
<1>3. IInv'
  BY AddGateInvariant DEF RInv
<1>4. \A v \in Vertex : gate'[v] = IF v = Fresh THEN g ELSE gate[v]
  BY <1>2 DEF RInv, IInv, TypeOK
<1>5. GatesTyped'
  <2>1. 1..created \subseteq 1..created' /\ Fresh \in 1..created'
    BY VertexFacts DEF RInv, Fresh
  <2> QED BY <1>2, <1>4, <2>1, RegistryFacts DEF GatesTyped
<1>6. BuffersApart'
  BY <1>2, <1>4, RegistryFacts DEF RInv, BuffersApart, IInv, TypeOK
<1> QED BY <1>2, <1>3, <1>5, <1>6 DEF RInv, Unlooped

LEMMA AddSequentialRegistry ==
    ASSUME RInv, NEW d \in DriverLists, AddSequential(d)
    PROVE  RInv'
<1> USE DEF AddSequential, loop
<1>1. "sequential" \in VertexTypes /\ created' <= MaxVertices
  BY VertexFacts, CircuitGraphAssumption DEF Fresh, VertexTypes, RInv
<1>2. /\ Live' = Live \cup {Fresh} /\ Fresh \in Vertex
      /\ \A v \in Vertex : vtype'[v] = IF v = Fresh THEN "sequential" ELSE vtype[v]
      /\ Filed'
  BY <1>1, OneFiled
<1>3. IInv'
  BY AddSequentialInvariant DEF RInv
<1>4. GatesTyped'
  <2>1. 1..created \subseteq 1..created' /\ Fresh \in 1..created'
    BY VertexFacts DEF RInv, Fresh
  <2> QED BY <1>2, <2>1, RegistryFacts DEF GatesTyped
<1>5. BuffersApart'
  BY <1>2, RegistryFacts DEF RInv, BuffersApart, IInv, TypeOK
<1>6. Unlooped'
  <2>1. Range(d) \subseteq Live
    BY DriverFacts DEF RInv
  <2>2. \A v \in Vertex : ins'[v] = IF v = Fresh THEN d ELSE ins[v]
    BY DEF RInv, IInv, TypeOK
  <2> QED BY <2>1, <2>2, RegistryFacts DEF RInv, Unlooped
<1> QED BY <1>2, <1>3, <1>4, <1>5, <1>6 DEF RInv

\* The output buffers an instance with n outputs comes with.
Nested(n) == (Fresh + 1)..(Fresh + n)

LEMMA AddSubGraphFiled ==
    ASSUME RInv, NEW d \in DriverLists, NEW n \in 0..MaxBuffers, AddSubGraph(d, n)
    PROVE  /\ Live' = Live \cup {Fresh} \cup Nested(n)
           /\ Fresh \notin Nested(n) /\ Nested(n) \cap (1..created) = {} /\ Nested(n) \subseteq Vertex
           /\ Fresh \in Vertex
           /\ Filed'
           /\ vtype' = [v \in Vertex |-> IF v = Fresh THEN "subGraph"
                                         ELSE IF v \in Nested(n) THEN "gate" ELSE vtype[v]]
           /\ gate' = [v \in Vertex |-> IF v \in Nested(n) THEN "GateBuf" ELSE gate[v]]
           /\ buffers' = buffers \cup Nested(n)
           /\ ins' = [v \in Vertex |-> IF v = Fresh THEN d
                                       ELSE IF v \in Nested(n) THEN <<Fresh>> ELSE ins[v]]
           /\ n \in Nat /\ created' = Fresh + n
<1>1. /\ "subGraph" \in VertexTypes /\ n \in Nat /\ created' = Fresh + n
      /\ created' <= MaxVertices
  BY VertexFacts, CircuitGraphAssumption DEF AddSubGraph, Fresh, VertexTypes, RInv
<1>2. /\ vtype' = [v \in Vertex |-> IF v = Fresh THEN "subGraph"
                                    ELSE IF v \in Nested(n) THEN "gate" ELSE vtype[v]]
      /\ gate' = [v \in Vertex |-> IF v \in Nested(n) THEN "GateBuf" ELSE gate[v]]
      /\ buffers' = buffers \cup Nested(n)
      /\ ins' = [v \in Vertex |-> IF v = Fresh THEN d
                                  ELSE IF v \in Nested(n) THEN <<Fresh>> ELSE ins[v]]
      /\ scrub = "idle" /\ UNCHANGED <<destroyed, scrub, todo>>
      /\ bucket' = [bucket EXCEPT !["subGraph"] = Append(@, Fresh)]
  BY DEF AddSubGraph, Nested, loop
<1>3. /\ Live' = Live \cup {Fresh} \cup Nested(n)
      /\ Fresh \notin Nested(n) /\ Nested(n) \cap (1..created) = {} /\ Nested(n) \subseteq Vertex
      /\ Fresh \in Vertex
      /\ Filed'
  BY <1>1, <1>2, NewFiled DEF Nested
<1> QED BY <1>1, <1>2, <1>3

LEMMA AddSubGraphRegistry ==
    ASSUME RInv, NEW d \in DriverLists, NEW n \in 0..MaxBuffers, AddSubGraph(d, n)
    PROVE  RInv'
<1>1. /\ Live' = Live \cup {Fresh} \cup Nested(n)
      /\ Fresh \notin Nested(n) /\ Nested(n) \cap (1..created) = {} /\ Nested(n) \subseteq Vertex
      /\ Fresh \in Vertex
      /\ Filed'
      /\ vtype' = [v \in Vertex |-> IF v = Fresh THEN "subGraph"
                                    ELSE IF v \in Nested(n) THEN "gate" ELSE vtype[v]]
      /\ gate' = [v \in Vertex |-> IF v \in Nested(n) THEN "GateBuf" ELSE gate[v]]
      /\ buffers' = buffers \cup Nested(n)
      /\ ins' = [v \in Vertex |-> IF v = Fresh THEN d
                                  ELSE IF v \in Nested(n) THEN <<Fresh>> ELSE ins[v]]
      /\ n \in Nat /\ created' = Fresh + n
  BY AddSubGraphFiled
<1>2. IInv'
  BY AddSubGraphInvariant DEF RInv
<1>3. /\ \A v \in Vertex : v \notin 1..created' => v \notin 1..created /\ v # Fresh /\ v \notin Nested(n)
      /\ created \in Nat /\ Fresh = created + 1
  BY <1>1, VertexFacts DEF RInv, Fresh, Nested
<1>4. GatesTyped'
  BY <1>1, <1>3, RegistryFacts DEF GatesTyped
<1>5. BuffersApart'
  <2>1. \A v \in buffers : v \in Vertex /\ v # Fresh /\ v \notin Nested(n)
    BY <1>1, RegistryFacts DEF RInv, IInv, TypeOK
  <2> QED BY <1>1, <2>1 DEF RInv, BuffersApart
<1>6. Unlooped'
  <2>1. Range(d) \subseteq Live /\ Range(<<Fresh>>) = {Fresh}
    BY DriverFacts DEF RInv, Range
  <2> QED BY <1>1, <2>1, RegistryFacts DEF RInv, Unlooped
<1> QED BY <1>1, <1>2, <1>4, <1>5, <1>6 DEF RInv

LEMMA EdgeRegistry ==
    ASSUME RInv, NEW u \in Live, NEW v \in Live,
           AddEdge(u, v) \/ AddEdgeThrows(u, v) \/ RemoveEdge(u, v)
    PROVE  RInv'
<1>1. IInv'
  BY AddEdgeInvariant, AddEdgeThrowsInvariant, RemoveEdgeInvariant DEF RInv
<1>2. GatesTyped' /\ BuffersApart' /\ Filed'
  BY EdgesOnly DEF AddEdge, AddEdgeThrows, RemoveEdge, registry, loop
<1>3. Unlooped'
  <2>1. u \in Vertex /\ v \in Vertex /\ ins[v] \in Seq(Vertex) /\ IsInjective(ins[v])
    BY VertexFacts DEF RInv
  <2>2. CASE AddEdge(u, v)
    <3>1. Asserts => u # v
      BY <2>2 DEF AddEdge, MayConnect
    <3>2. /\ Range(Append(ins[v], u)) = Range(ins[v]) \cup {u}
          /\ ins' = [ins EXCEPT ![v] = Append(@, u)]
      BY <2>1, <2>2, AppendFacts DEF AddEdge
    <3> QED BY <3>1, <3>2 DEF RInv, IInv, TypeOK, Unlooped
  <2>3. CASE AddEdgeThrows(u, v)
    BY <2>3 DEF AddEdgeThrows, RInv, Unlooped
  <2>4. CASE RemoveEdge(u, v)
    <3>1. /\ Range(SwapRemove(ins[v], u)) = Range(ins[v]) \ {u}
          /\ ins' = [ins EXCEPT ![v] = SwapRemove(@, u)]
      BY <2>1, <2>4, SwapRemoveFacts DEF RemoveEdge
    <3> QED BY <3>1 DEF RInv, IInv, TypeOK, Unlooped
  <2> QED BY <2>2, <2>3, <2>4
<1> QED BY <1>1, <1>2, <1>3 DEF RInv

LEMMA SetGateIfDefaultRegistry ==
    ASSUME RInv, NEW v \in Live, NEW type \in GateTypes, SetGateIfDefault(v, type)
    PROVE  RInv'
<1> USE DEF registry, loop
<1>1. IInv'
  BY SetGateIfDefaultInvariant DEF RInv
<1>2. /\ vtype[v] = "gate" /\ v \in Vertex
      /\ Asserts => gate[v] = "GateDefault"
      /\ gate' = [gate EXCEPT ![v] = type]
      /\ UNCHANGED <<created, destroyed, vtype, ins, bucket, buffers, scrub, todo>>
  BY VertexFacts DEF RInv, SetGateIfDefault
<1>3. \A x \in Vertex : gate'[x] = IF x = v THEN type ELSE gate[x]
  BY <1>2 DEF RInv, IInv, TypeOK
<1>4. GatesTyped'
  BY <1>2, <1>3 DEF RInv, GatesTyped, Gates
<1>5. BuffersApart'
  <2>1. "GateBuf" # "GateDefault" /\ buffers \subseteq Vertex
    BY DEF RInv, IInv, TypeOK
  <2> QED BY <1>2, <1>3, <2>1 DEF RInv, BuffersApart, Live
<1>6. Filed'
  BY <1>2 DEF RInv, Filed, FiledAs, Waiting, Members, Live
<1> QED BY <1>1, <1>2, <1>4, <1>5, <1>6 DEF RInv, Unlooped

(* scrubOnce starts on a bucket when it has none, or is done with one.     *)
LEMMA WalkFiled ==
    ASSUME RInv, NEW type \in {"gate", "sequential"}, Walk(type),
           scrub = "idle" \/ todo = <<>>,
           UNCHANGED <<created, destroyed, vtype, buffers>>
    PROVE  Filed'
<1>1. Range(<<>>) = {} /\ IsInjective(<<>>)
  BY DEF Range, IsInjective
<1>2. /\ scrub' = type /\ todo' = bucket[type]
      /\ \A t \in VertexTypes : bucket'[t] = IF t = type THEN <<>> ELSE bucket[t]
  BY DEF Walk, RInv, IInv, TypeOK
<1>3. ASSUME NEW t \in {"gate", "sequential"} PROVE FiledAs(t)'
  <2>1. FiledAs(t) /\ Waiting(t) = {} /\ t \in VertexTypes /\ Members(t)' = Members(t)
    BY <1>1 DEF RInv, Filed, Waiting, VertexTypes, Members, Live
  <2>2. CASE t = type
    BY <1>1, <1>2, <2>1, <2>2 DEF FiledAs, Waiting
  <2>3. CASE t # type
    BY <1>2, <2>1, <2>3 DEF FiledAs, Waiting
  <2> QED BY <2>2, <2>3
<1>4. IsInjective(todo')
  BY <1>2 DEF RInv, Filed, FiledAs
<1> QED BY <1>3, <1>4 DEF Filed

LEMMA ScrubWalkRegistry ==
    ASSUME RInv, ScrubBegin \/ ScrubSwitch \/ ScrubRepeat
    PROVE  RInv'
<1> USE DEF ScrubBegin, ScrubSwitch, ScrubRepeat, adjacency
<1>1. IInv'
  BY ScrubWalkInvariant DEF RInv
<1>2. Filed'
  BY WalkFiled
<1> QED BY <1>1, <1>2 DEF RInv, GatesTyped, BuffersApart, Unlooped, Live

(* What the scrub looks at next: a live vertex of the bucket it walks.     *)
LEMMA NextLooked ==
    ASSUME RInv, scrub # "idle", todo # <<>>
    PROVE  LET v == Head(todo) IN
           /\ scrub \in {"gate", "sequential"}
           /\ v \in Vertex /\ v \in Live /\ vtype[v] = scrub /\ v \notin buffers
           /\ Tail(todo) \in Seq(Vertex) /\ IsInjective(Tail(todo))
           /\ v \notin Range(Tail(todo)) /\ Range(todo) = Range(Tail(todo)) \cup {v}
           /\ v \notin Range(bucket[scrub])
           /\ FiledAs(scrub)
<1>1. scrub \in {"gate", "sequential"} /\ todo \in Seq(Vertex)
  BY DEF RInv, IInv, TypeOK
<1>2. /\ Tail(todo) \in Seq(Vertex) /\ IsInjective(Tail(todo))
      /\ Head(todo) \notin Range(Tail(todo)) /\ Range(todo) = Range(Tail(todo)) \cup {Head(todo)}
  BY <1>1, HeadTailFacts DEF RInv, Filed
<1>3. FiledAs(scrub) /\ Waiting(scrub) = Range(todo)
  BY <1>1 DEF RInv, Filed, Waiting
<1>4. Head(todo) \in Members(scrub) /\ Head(todo) \notin Range(bucket[scrub])
  BY <1>2, <1>3 DEF FiledAs
<1>5. Head(todo) \in Vertex
  BY <1>4, VertexFacts DEF RInv, Members
<1> QED BY <1>1, <1>2, <1>3, <1>4, <1>5 DEF Members

LEMMA ScrubKeepRegistry ==
    ASSUME RInv, ScrubKeep
    PROVE  RInv'
<1> DEFINE v == Head(todo)
<1> USE DEF ScrubKeep, adjacency
<1>1. IInv'
  BY ScrubKeepInvariant DEF RInv
<1>2. /\ scrub \in {"gate", "sequential"} /\ v \in Vertex
      /\ IsInjective(Tail(todo)) /\ v \notin Range(Tail(todo))
      /\ Range(todo) = Range(Tail(todo)) \cup {v}
      /\ v \notin Range(bucket[scrub])
  BY NextLooked
<1> HIDE DEF v
<1>3. /\ todo' = Tail(todo) /\ scrub \in VertexTypes /\ bucket[scrub] \in Seq(Vertex)
      /\ \A t \in VertexTypes : bucket'[t] = IF t = scrub THEN Append(bucket[t], v) ELSE bucket[t]
  BY <1>2 DEF RInv, IInv, TypeOK, VertexTypes, v
<1>4. ASSUME NEW t \in {"gate", "sequential"} PROVE FiledAs(t)'
  <2>1. FiledAs(t) /\ Members(t)' = Members(t) /\ t \in VertexTypes
    BY DEF RInv, Filed, Members, Live, VertexTypes
  <2>2. CASE t = scrub
    <3>1. /\ Range(Append(bucket[t], v)) = Range(bucket[t]) \cup {v}
          /\ IsInjective(Append(bucket[t], v))
      BY <1>2, <1>3, <2>1, <2>2, AppendFacts DEF FiledAs
    <3> QED BY <1>2, <1>3, <2>1, <2>2, <3>1 DEF FiledAs, Waiting
  <2>3. CASE t # scrub
    BY <1>3, <2>1, <2>3 DEF FiledAs, Waiting
  <2> QED BY <2>2, <2>3
<1>5. Filed'
  BY <1>2, <1>3, <1>4 DEF Filed
<1> QED BY <1>1, <1>5 DEF RInv, GatesTyped, BuffersApart, Unlooped, Live

(* The scrub takes the vertex out of every list of drivers.                *)
LEMMA ScrubUnlinks ==
    ASSUME RInv, ScrubRemove
    PROVE  /\ Live' = Live \ {Head(todo)}
           /\ \A w \in Vertex : Range(ins'[w]) = Range(ins[w]) \ {Head(todo)}
           /\ \A w \in Vertex : w \in Consumers(Head(todo)) <=> Head(todo) \in Range(ins[w])
           /\ Consumers(Head(todo)) \subseteq Vertex
<1> DEFINE v == Head(todo)
<1>1. v \in Vertex
  BY NextLooked DEF ScrubRemove
<1>2. /\ ins' = [w \in Vertex |-> IF w \in Consumers(v) THEN SwapRemove(ins[w], v) ELSE ins[w]]
      /\ destroyed' = destroyed \cup {v} /\ created' = created
  BY DEF ScrubRemove, registry
<1> HIDE DEF v
<1>3. /\ \A w \in Vertex : w \in Consumers(v) <=> v \in Range(ins[w])
      /\ Consumers(v) \subseteq Vertex
  BY <1>1, VertexFacts, RangeInside DEF RInv, Consumers, IInv, InsMatchOuts
<1>4. ASSUME NEW w \in Vertex
      PROVE  Range(ins'[w]) = Range(ins[w]) \ {v}
  <2>1. ins[w] \in Seq(Vertex) /\ IsInjective(ins[w])
    BY VertexFacts DEF RInv
  <2>2. CASE w \in Consumers(v)
    BY <1>2, <2>1, <2>2, SwapRemoveFacts
  <2>3. CASE w \notin Consumers(v)
    BY <1>2, <1>3, <2>3
  <2> QED BY <2>2, <2>3
<1>5. Live' = Live \ {v}
  BY <1>2 DEF Live
<1> QED BY <1>3, <1>4, <1>5 DEF v

LEMMA ScrubRemoveRegistry ==
    ASSUME RInv, ScrubRemove
    PROVE  RInv'
<1> DEFINE v == Head(todo)
<1>1. IInv'
  BY ScrubRemoveInvariant DEF RInv
<1>2. /\ scrub \in {"gate", "sequential"} /\ v \in Live /\ vtype[v] = scrub /\ v \notin buffers
      /\ IsInjective(Tail(todo)) /\ v \notin Range(Tail(todo))
      /\ Range(todo) = Range(Tail(todo)) \cup {v}
      /\ v \notin Range(bucket[scrub])
  BY NextLooked DEF ScrubRemove
<1>3. /\ todo' = Tail(todo) /\ Live' = Live \ {v}
      /\ \A w \in Vertex : Range(ins'[w]) = Range(ins[w]) \ {v}
      /\ UNCHANGED <<created, vtype, gate, bucket, buffers, scrub>>
  BY ScrubUnlinks DEF ScrubRemove, registry
<1> HIDE DEF v
<1>4. ASSUME NEW t \in {"gate", "sequential"} PROVE FiledAs(t)'
  <2>1. FiledAs(t) /\ Members(t)' = Members(t) \ {v}
    BY <1>3 DEF RInv, Filed, Members
  <2>2. CASE t = scrub
    BY <1>2, <1>3, <2>1, <2>2 DEF FiledAs, Waiting
  <2>3. CASE t # scrub
    <3>1. v \notin Members(t)
      BY <1>2, <2>3 DEF Members
    <3> QED BY <1>3, <2>1, <2>3, <3>1 DEF FiledAs, Waiting
  <2> QED BY <2>2, <2>3
<1>5. Filed'
  BY <1>2, <1>3, <1>4 DEF Filed
<1>6. GatesTyped' /\ BuffersApart' /\ Unlooped'
  BY <1>2, <1>3 DEF RInv, GatesTyped, BuffersApart, Unlooped
<1> QED BY <1>1, <1>5, <1>6 DEF RInv

LEMMA ScrubEndRegistry ==
    ASSUME RInv, ScrubEnd
    PROVE  RInv'
<1>1. IInv'
  BY ScrubEndInvariant DEF RInv
<1>2. /\ UNCHANGED <<created, destroyed, vtype, gate, ins, bucket, buffers, todo>>
      /\ todo = <<>> /\ scrub' = "idle"
  BY DEF ScrubEnd, adjacency, registry
<1>3. Range(<<>>) = {}
  BY DEF Range
<1>4. Filed'
  BY <1>2, <1>3 DEF RInv, Filed, FiledAs, Waiting, Members, Live
<1> QED BY <1>1, <1>2, <1>4 DEF RInv, GatesTyped, BuffersApart, Unlooped, Live

-----------------------------------------------------------------------------

THEOREM NextRegistry == RInv /\ [Next]_vars => RInv'
<1> SUFFICES ASSUME RInv, [Next]_vars PROVE RInv'
  OBVIOUS
<1>1. CASE Build
  <2>1. ASSUME NEW t \in Types \cap {"input", "constant", "output"}, AddTerminal(t) PROVE RInv'
    BY <2>1, AddTerminalRegistry
  <2>2. ASSUME NEW g \in Gates, AddGate(g) PROVE RInv'
    BY <2>2, AddGateRegistry
  <2>3. ASSUME NEW d \in DriverLists, AddSequential(d) PROVE RInv'
    BY <2>3, AddSequentialRegistry
  <2>4. ASSUME NEW d \in DriverLists, NEW n \in 0..MaxBuffers, AddSubGraph(d, n) PROVE RInv'
    BY <2>4, AddSubGraphRegistry
  <2> QED BY <1>1, <2>1, <2>2, <2>3, <2>4 DEF Build
<1>2. CASE Edit
  <2>1. ASSUME NEW u \in Live, NEW v \in Live,
               AddEdge(u, v) \/ AddEdgeThrows(u, v) \/ RemoveEdge(u, v)
        PROVE  RInv'
    BY <2>1, EdgeRegistry
  <2>2. ASSUME NEW v \in Live, NEW type \in GateTypes, SetGateIfDefault(v, type) PROVE RInv'
    BY <2>2, SetGateIfDefaultRegistry
  <2> QED BY <1>2, <2>1, <2>2 DEF Edit
<1>3. CASE ScrubBegin
  BY <1>3, ScrubWalkRegistry
<1>4. CASE ScrubStep
  BY <1>4, ScrubKeepRegistry, ScrubRemoveRegistry, ScrubWalkRegistry, ScrubEndRegistry
     DEF ScrubStep
<1>5. CASE UNCHANGED vars
  <2>1. IInv'
    BY <1>5, NextInvariant DEF RInv
  <2> QED BY <1>5, <2>1
          DEF vars, RInv, GatesTyped, BuffersApart, Unlooped, Filed, FiledAs, Waiting, Members, Live
<1> QED BY <1>1, <1>2, <1>3, <1>4, <1>5 DEF Next

(* Whatever was called, the gate and sequential buckets list exactly the   *)
(* live vertices of their type, each once: what scrubOnce walks and every  *)
(* exporter iterates over. The walk in progress is accounted for too.      *)
THEOREM Registry == Spec => []RInv
BY InitRegistry, NextRegistry, PTL DEF Spec

-----------------------------------------------------------------------------
(* What the scrub does to the graph.                                       *)

Driven(t) == \A v \in Range(bucket[t]) : ins[v] # <<>>

(* In a round that has removed nothing so far, whatever the walk has kept  *)
(* has a driver.                                                           *)
Swept ==
    pass = 0 => /\ scrub = "gate" => Driven("gate")
                /\ scrub = "sequential" => Driven("gate") /\ Driven("sequential")

LEMMA NextSwept ==
    ASSUME RInv, Swept, [Next]_vars
    PROVE  Swept'
<1>1. Range(<<>>) = {}
  BY DEF Range
<1>2. bucket \in [VertexTypes -> Seq(Vertex)] /\ pass \in Nat
  BY DEF RInv, IInv, TypeOK
<1>3. CASE scrub' = "idle"
  BY <1>3 DEF Swept
<1>4. CASE ScrubBegin \/ ScrubRepeat
  BY <1>1, <1>2, <1>4 DEF ScrubBegin, ScrubRepeat, Walk, Swept, Driven, VertexTypes
<1>5. CASE ScrubSwitch
  BY <1>1, <1>2, <1>5 DEF ScrubSwitch, Walk, Swept, Driven, VertexTypes, adjacency
<1>6. CASE ScrubRemove
  <2>1. pass' # 0
    BY <1>2, <1>6 DEF ScrubRemove
  <2> QED BY <2>1 DEF Swept
<1>7. CASE ScrubKeep
  <2> DEFINE v == Head(todo)
  <2>1. v \in Vertex /\ scrub \in {"gate", "sequential"}
    BY <1>7, NextLooked DEF ScrubKeep
  <2>2. ins[v] # <<>> /\ UNCHANGED <<ins, scrub, pass>>
    BY <1>7 DEF ScrubKeep, Undriven, adjacency
  <2>3. \A t \in {"gate", "sequential"} :
          bucket'[t] = IF t = scrub THEN Append(bucket[t], v) ELSE bucket[t]
    BY <1>2, <1>7, <2>1 DEF ScrubKeep, VertexTypes
  <2> HIDE DEF v
  <2>4. \A t \in {"gate", "sequential"} :
          Range(bucket'[t]) = IF t = scrub THEN Range(bucket[t]) \cup {v} ELSE Range(bucket[t])
    <3>1. bucket[scrub] \in Seq(Vertex)
      BY <1>2, <2>1 DEF VertexTypes
    <3>2. Range(Append(bucket[scrub], v)) = Range(bucket[scrub]) \cup {v}
      BY <2>1, <3>1, AppendFacts
    <3> QED BY <2>3, <3>2
  <2>5. \A t \in {"gate", "sequential"} : Driven(t) => Driven(t)'
    BY <2>2, <2>4 DEF Driven
  <2> QED BY <2>2, <2>5 DEF Swept
<1>8. CASE UNCHANGED vars
  BY <1>8 DEF vars, Swept, Driven
<1>9. CASE (Build \/ Edit) /\ scrub' # "idle"
  BY <1>9 DEF Build, Edit, AddTerminal, AddGate, AddSequential, AddSubGraph, AddEdge,
              AddEdgeThrows, RemoveEdge, SetGateIfDefault, loop
<1> QED BY <1>3, <1>4, <1>5, <1>6, <1>7, <1>8, <1>9 DEF Next, ScrubStep, ScrubEnd

THEOREM ScrubInvariant == Spec => [](RInv /\ Swept)
<1>1. Init => Swept
  BY DEF Init, Swept
<1>2. RInv /\ Swept /\ [Next]_vars => Swept'
  BY NextSwept
<1> QED BY <1>1, <1>2, Registry, PTL DEF Spec

(* A step that ends the scrub ends a round that removed nothing.           *)
LEMMA EndSwept ==
    ASSUME RInv, Swept, [Next]_vars, scrub # "idle", scrub' = "idle"
    PROVE  \A v \in Live : Logic(v) => ins[v] # <<>>
<1>1. ScrubEnd
  BY DEF Next, Build, Edit, AddTerminal, AddGate, AddSequential, AddSubGraph, AddEdge,
         AddEdgeThrows, RemoveEdge, SetGateIfDefault, ScrubBegin, ScrubStep, ScrubKeep,
         ScrubRemove, ScrubSwitch, ScrubRepeat, Walk, registry, vars
<1>2. scrub = "sequential" /\ todo = <<>> /\ pass = 0
  BY <1>1 DEF ScrubEnd, Again, RInv, IInv, TypeOK
<1>3. Driven("gate") /\ Driven("sequential")
  BY <1>2 DEF Swept
<1>4. Waiting("gate") = {} /\ Waiting("sequential") = {}
  BY <1>2 DEF Waiting, Range
<1>5. /\ Members("gate") = Range(bucket["gate"])
      /\ Members("sequential") = Range(bucket["sequential"])
  BY <1>4 DEF RInv, Filed, FiledAs
<1>6. ASSUME NEW v \in Live, Logic(v) PROVE v \in Members("gate") \cup Members("sequential")
  <2>1. vtype[v] = "sequential" => v \notin buffers
    BY DEF RInv, BuffersApart
  <2> QED BY <1>6, <2>1 DEF Members, Logic
<1> QED BY <1>3, <1>5, <1>6 DEF Driven

(* When removeEmptyLogicVertices returns, every live gate and sequential   *)
(* cell has a driver: a round without removals has looked at all of them.  *)
THEOREM ScrubLeavesDriven == Spec => ScrubLeavesNoEmpty
<1>1. ASSUME RInv, Swept, [Next]_vars
      PROVE  [scrub # "idle" /\ scrub' = "idle" =>
                \A v \in Live : Logic(v) => ins[v] # <<>>]_vars
  BY <1>1, EndSwept
<1> QED BY <1>1, ScrubInvariant, PTL DEF Spec, ScrubLeavesNoEmpty

\* A set of live vertices whose gates and cells have drivers in the set.
Supports(S) == S \subseteq Live /\ \A v \in S : Logic(v) => Range(ins[v]) \cap S # {}

LEMMA SupportedFacts ==
    /\ Supported \subseteq Live
    /\ \A S : Supports(S) => S \subseteq Supported
<1>1. \A S : Supports(S) <=> S \in {T \in SUBSET Live :
                                       \A v \in T : Logic(v) => Range(ins[v]) \cap T # {}}
  BY DEF Supports
<1> QED BY <1>1 DEF Supported

(* Taking out a gate or cell without drivers leaves the same sets          *)
(* supported.                                                              *)
LEMMA RemoveKeepsSupports ==
    ASSUME RInv, ScrubRemove
    PROVE  /\ \A S : Supports(S)' <=> Supports(S)
           /\ Head(todo) \notin Supported
<1> DEFINE v == Head(todo)
<1>1. /\ v \in Vertex /\ v \in Live /\ Logic(v) /\ ins[v] = <<>>
      /\ Live \subseteq Vertex /\ Range(<<>>) = {}
  BY NextLooked, VertexFacts DEF ScrubRemove, Undriven, Logic, RInv, Range
<1>2. /\ Live' = Live \ {v}
      /\ \A w \in Vertex : Range(ins'[w]) = Range(ins[w]) \ {v}
      /\ \A w : Logic(w)' <=> Logic(w)
  BY ScrubUnlinks DEF ScrubRemove, registry, Logic
<1> HIDE DEF v
<1>3. ASSUME NEW S, Supports(S) PROVE v \notin S
  BY <1>1, <1>3 DEF Supports
<1>4. ASSUME NEW S, Supports(S) PROVE Supports(S)'
  <2>1. v \notin S /\ S \subseteq Live'
    BY <1>2, <1>3, <1>4 DEF Supports
  <2>2. ASSUME NEW x \in S, Logic(x)' PROVE Range(ins'[x]) \cap S # {}
    <3>1. Range(ins[x]) \cap S # {} /\ x \in Vertex
      BY <1>1, <1>2, <1>4, <2>2 DEF Supports
    <3> QED BY <1>2, <2>1, <3>1
  <2> QED BY <2>1, <2>2 DEF Supports
<1>5. ASSUME NEW S, Supports(S)' PROVE Supports(S)
  BY <1>1, <1>2, <1>5 DEF Supports
<1>6. v \notin Supported
  BY <1>3 DEF Supported, Supports
<1> QED BY <1>4, <1>5, <1>6 DEF v

(* No step of the scrub touches what is driven, however indirectly: the    *)
(* supported vertices and the edges out of them stay.                      *)
THEOREM ScrubSparesSupported == Spec => ScrubKeepsSupported
<1> DEFINE Spared == /\ Supported' = Supported
                     /\ Supported \subseteq Live'
                     /\ {e \in Edges' : e[1] \in Supported} = {e \in Edges : e[1] \in Supported}
<1>1. ASSUME RInv, ScrubRemove PROVE Spared
  <2>1. /\ \A S : Supports(S)' <=> Supports(S)
        /\ Head(todo) \notin Supported
    BY <1>1, RemoveKeepsSupports
  <2>2. /\ Live' = Live \ {Head(todo)}
        /\ \A w \in Vertex : Range(ins'[w]) = Range(ins[w]) \ {Head(todo)}
    BY <1>1, ScrubUnlinks
  <2>3. Supported' = Supported
    <3>1. \A S : S \in SUBSET Live' /\ (\A v \in S : Logic(v)' => Range(ins'[v]) \cap S # {})
            <=> S \in SUBSET Live /\ (\A v \in S : Logic(v) => Range(ins[v]) \cap S # {})
      BY <2>1 DEF Supports
    <3> QED BY <3>1 DEF Supported
  <2>4. Supported \subseteq Live'
    BY <2>1, <2>2 DEF Supported
  <2>5. {e \in Edges' : e[1] \in Supported} = {e \in Edges : e[1] \in Supported}
    BY <2>1, <2>2 DEF Edges
  <2> QED BY <2>3, <2>4, <2>5
<1>2. ASSUME RInv, [Next]_vars, scrub # "idle", ~ScrubRemove PROVE Spared
  <2>1. UNCHANGED <<created, destroyed, vtype, ins, buffers>>
    BY <1>2 DEF Next, Build, Edit, AddTerminal, AddGate, AddSequential, AddSubGraph, AddEdge,
           AddEdgeThrows, RemoveEdge, SetGateIfDefault, ScrubBegin, ScrubStep, ScrubKeep,
           ScrubSwitch, ScrubRepeat, ScrubEnd, registry, adjacency, vars
  <2>2. Live' = Live /\ Edges' = Edges /\ Supported' = Supported
    BY <2>1 DEF Live, Edges, Supported, Logic
  <2> QED BY <2>2 DEF Supported
<1>3. ASSUME RInv, [Next]_vars PROVE [scrub # "idle" => Spared]_vars
  BY <1>1, <1>2, <1>3
<1> QED BY <1>3, Registry, PTL DEF Spec, ScrubKeepsSupported

(* The loop of removals comes to what the callers of the exporters take it *)
(* for in one step: when it ends, exactly the supported vertices are left. *)
ScrubReachesSupported == [][scrub # "idle" /\ scrub' = "idle" => Live = Supported]_vars

THEOREM ScrubReaches == Spec => ScrubReachesSupported
<1>1. ASSUME RInv, Swept, [Next]_vars, scrub # "idle", scrub' = "idle"
      PROVE  Live = Supported
  <2>1. \A v \in Live : Logic(v) => ins[v] # <<>>
    BY <1>1, EndSwept
  <2>2. ASSUME NEW v \in Live, Logic(v) PROVE Range(ins[v]) \cap Live # {}
    <3>1. v \in Vertex /\ ins[v] \in Seq(Vertex) /\ Range(ins[v]) # {}
      BY <1>1, <2>1, <2>2, VertexFacts, EmptyRange DEF RInv
    <3>2. PICK u \in Range(ins[v]) : u \in Vertex
      BY <3>1, RangeInside
    <3> QED BY <1>1, <3>1, <3>2 DEF RInv, IInv, DriversLive
  <2>3. Supports(Live)
    BY <2>2 DEF Supports
  <2> QED BY <2>3, SupportedFacts
<1>2. ASSUME RInv, Swept, [Next]_vars
      PROVE  [scrub # "idle" /\ scrub' = "idle" => Live = Supported]_vars
  BY <1>1, <1>2
<1> QED BY <1>2, ScrubInvariant, PTL DEF Spec, ScrubReachesSupported

(* Why the do-while loop ends: every step removes a vertex, or opens a     *)
(* round after one that removed some, or goes on to the next bucket, or    *)
(* has less of the bucket left. The triple is one of natural numbers and   *)
(* goes down in the lexicographic order.                                   *)
Removable == 2 * Cardinality(Live) + (IF pass > 0 THEN 1 ELSE 0)
Phase == IF scrub = "gate" THEN 2 ELSE IF scrub = "sequential" THEN 1 ELSE 0
Left == Len(todo)

ScrubAdvances ==
    [][ScrubStep =>
         /\ Removable \in Nat /\ Phase \in Nat /\ Left \in Nat
         /\ \/ Removable' < Removable
            \/ Removable' = Removable /\ Phase' < Phase
            \/ Removable' = Removable /\ Phase' = Phase /\ Left' < Left]_vars

THEOREM ScrubDescends == Spec => ScrubAdvances
<1> DEFINE Down == /\ Removable \in Nat /\ Phase \in Nat /\ Left \in Nat
                   /\ \/ Removable' < Removable
                      \/ Removable' = Removable /\ Phase' < Phase
                      \/ Removable' = Removable /\ Phase' = Phase /\ Left' < Left
<1>1. ASSUME RInv, ScrubStep PROVE Down
  <2>1. IsFiniteSet(Live) /\ Cardinality(Live) \in Nat
    <3>1. IsFiniteSet(Vertex) /\ Live \subseteq Vertex
      BY <1>1, VertexFacts, CircuitGraphAssumption, FS_Interval DEF RInv, Vertex
    <3> QED BY <3>1, FS_Subset, FS_CardinalityType
  <2>2. pass \in Nat /\ todo \in Seq(Vertex) /\ scrub \in {"idle", "gate", "sequential"}
    BY <1>1 DEF RInv, IInv, TypeOK
  <2>3. Removable \in Nat /\ Phase \in Nat /\ Left \in Nat
    BY <2>1, <2>2 DEF Removable, Phase, Left
  <2>4. CASE ScrubKeep
    <3>1. Removable' = Removable /\ Phase' = Phase
      BY <2>4 DEF ScrubKeep, Removable, Phase, Live
    <3>2. Left' < Left
      BY <2>2, <2>4 DEF ScrubKeep, Left
    <3> QED BY <2>3, <3>1, <3>2
  <2>5. CASE ScrubRemove
    <3>1. Live' = Live \ {Head(todo)} /\ Head(todo) \in Live
      BY <1>1, <2>5, ScrubUnlinks, NextLooked DEF ScrubRemove
    <3>2. Cardinality(Live') = Cardinality(Live) - 1
      BY <2>1, <3>1, FS_RemoveElement
    <3>3. pass' > 0
      BY <2>2, <2>5 DEF ScrubRemove
    <3>4. Removable' < Removable
      BY <2>1, <3>2, <3>3 DEF Removable
    <3> QED BY <2>3, <3>4
  <2>6. CASE ScrubSwitch
    <3>1. Removable' = Removable /\ Phase = 2 /\ Phase' = 1
      BY <2>6 DEF ScrubSwitch, Walk, Removable, Phase, Live
    <3> QED BY <2>3, <3>1
  <2>7. CASE ScrubRepeat
    <3>1. Live' = Live /\ pass > 0 /\ pass' = 0
      BY <2>7 DEF ScrubRepeat, Again, Live
    <3>2. Removable' < Removable
      BY <2>1, <3>1 DEF Removable
    <3> QED BY <2>3, <3>2
  <2>8. CASE ScrubEnd
    <3>1. Removable' = Removable /\ Phase = 1 /\ Phase' = 0
      BY <2>8 DEF ScrubEnd, registry, Removable, Phase, Live
    <3> QED BY <2>3, <3>1
  <2> QED BY <1>1, <2>4, <2>5, <2>6, <2>7, <2>8 DEF ScrubStep
<1>2. ASSUME RInv, [Next]_vars PROVE [ScrubStep => Down]_vars
  BY <1>1, <1>2
<1> QED BY <1>2, Registry, PTL DEF Spec, ScrubAdvances

-----------------------------------------------------------------------------
(* The counters of gates and of edges between gates.                       *)

(* d_gatesCount is the number of gates of each type.                       *)

LEMMA CountedFacts ==
    ASSUME RInv
    PROVE  /\ \A g \in Gates : IsFiniteSet(Counted(g)) /\ Cardinality(Counted(g)) \in Nat
           /\ IsFiniteSet(Live)
<1>1. IsFiniteSet(Vertex)
  BY CircuitGraphAssumption, FS_Interval DEF Vertex
<1>2. Live \subseteq Vertex
  BY VertexFacts DEF RInv
<1>3. IsFiniteSet(Live)
  BY <1>1, <1>2, FS_Subset
<1>4. \A g \in Gates : Counted(g) \subseteq Live
  BY DEF Counted
<1> QED BY <1>3, <1>4, FS_Subset, FS_CardinalityType

(* A step that changes neither the counters nor which gates they count.    *)
LEMMA SameCounted ==
    ASSUME GatesCountExact, \A g \in Gates : Counted(g)' = Counted(g), gatesCount' = gatesCount
    PROVE  GatesCountExact'
BY DEF GatesCountExact

LEMMA BuildCountsGates ==
    ASSUME RInv, GatesCountExact, Build
    PROVE  GatesCountExact'
<1>1. ASSUME NEW t \in Types \cap {"input", "constant", "output"}, AddTerminal(t)
      PROVE  GatesCountExact'
  <2>1. t \in VertexTypes /\ t # "gate" /\ created' <= MaxVertices
    BY <1>1, VertexFacts, CircuitGraphAssumption DEF AddTerminal, Fresh, VertexTypes, RInv
  <2>2. /\ Live' = Live \cup {Fresh} /\ Fresh \in Vertex
        /\ \A v \in Vertex : vtype'[v] = IF v = Fresh THEN t ELSE vtype[v]
    BY <1>1, <2>1, OneFiled DEF AddTerminal, loop
  <2>3. \A g \in Gates : Counted(g)' = Counted(g)
    BY <1>1, <2>1, <2>2, RegistryFacts, VertexFacts DEF AddTerminal, Counted, RInv
  <2> QED BY <1>1, <2>3, SameCounted DEF AddTerminal
<1>2. ASSUME NEW g \in Gates, AddGate(g) PROVE GatesCountExact'
  <2>1. "gate" \in VertexTypes /\ created' <= MaxVertices
    BY <1>2, VertexFacts, CircuitGraphAssumption DEF AddGate, Fresh, VertexTypes, RInv
  <2>2. /\ Live' = Live \cup {Fresh} /\ Fresh \in Vertex
        /\ \A v \in Vertex : vtype'[v] = IF v = Fresh THEN "gate" ELSE vtype[v]
    BY <1>2, <2>1, OneFiled DEF AddGate, loop
  <2>3. \A v \in Vertex : gate'[v] = IF v = Fresh THEN g ELSE gate[v]
    BY <1>2, <2>2 DEF AddGate, RInv, IInv, TypeOK
  <2>4. \A h \in Gates : Counted(h)' = IF h = g THEN Counted(h) \cup {Fresh} ELSE Counted(h)
    BY <1>2, <2>2, <2>3, RegistryFacts, VertexFacts DEF AddGate, Counted, RInv
  <2>5. Fresh \notin Counted(g)
    BY RegistryFacts DEF Counted
  <2>6. Cardinality(Counted(g)') = Cardinality(Counted(g)) + 1
    BY <2>4, <2>5, CountedFacts, FS_AddElement
  <2>7. \A h \in Gates : gatesCount'[h] = IF h = g THEN gatesCount[h] + 1 ELSE gatesCount[h]
    BY <1>2 DEF AddGate, RInv, IInv, TypeOK
  <2> QED BY <2>4, <2>6, <2>7 DEF GatesCountExact
<1>3. ASSUME NEW d \in DriverLists, AddSequential(d) PROVE GatesCountExact'
  <2>1. "sequential" \in VertexTypes /\ created' <= MaxVertices
    BY <1>3, VertexFacts, CircuitGraphAssumption DEF AddSequential, Fresh, VertexTypes, RInv
  <2>2. /\ Live' = Live \cup {Fresh} /\ Fresh \in Vertex
        /\ \A v \in Vertex : vtype'[v] = IF v = Fresh THEN "sequential" ELSE vtype[v]
    BY <1>3, <2>1, OneFiled DEF AddSequential, loop
  <2>3. \A g \in Gates : Counted(g)' = Counted(g)
    BY <1>3, <2>2, RegistryFacts, VertexFacts DEF AddSequential, Counted, RInv
  <2> QED BY <1>3, <2>3, SameCounted DEF AddSequential
<1>4. ASSUME NEW d \in DriverLists, NEW n \in 0..MaxBuffers, AddSubGraph(d, n)
      PROVE  GatesCountExact'
  <2>1. /\ Live' = Live \cup {Fresh} \cup Nested(n) /\ Fresh \in Vertex /\ Nested(n) \subseteq Vertex
        /\ Nested(n) \cap (1..created) = {}
        /\ vtype' = [v \in Vertex |-> IF v = Fresh THEN "subGraph"
                                      ELSE IF v \in Nested(n) THEN "gate" ELSE vtype[v]]
        /\ gate' = [v \in Vertex |-> IF v \in Nested(n) THEN "GateBuf" ELSE gate[v]]
        /\ buffers' = buffers \cup Nested(n)
    BY <1>4, AddSubGraphFiled
  <2>2. gatesCount' = gatesCount
    BY <1>4 DEF AddSubGraph
  <2>3. \A g \in Gates : Counted(g)' = Counted(g)
    BY <2>1, RegistryFacts, VertexFacts DEF Counted, RInv
  <2> QED BY <2>2, <2>3, SameCounted
<1> QED BY <1>1, <1>2, <1>3, <1>4 DEF Build

LEMMA SetGateIfDefaultCounts ==
    ASSUME RInv, GatesCountExact, Asserts,
           NEW v \in Live, NEW type \in GateTypes, SetGateIfDefault(v, type)
    PROVE  GatesCountExact'
<1>1. /\ vtype[v] = "gate" /\ v \in Vertex /\ gate[v] = "GateDefault" /\ v \notin buffers
      /\ gate' = [gate EXCEPT ![v] = type]
      /\ gatesCount' = [gatesCount EXCEPT !["GateDefault"] = @ - 1, ![type] = @ + 1]
      /\ UNCHANGED <<created, destroyed, vtype, buffers>>
  BY VertexFacts DEF RInv, BuffersApart, SetGateIfDefault, Converted, registry
<1>2. type # "GateDefault" /\ type \in Gates /\ "GateDefault" \in Gates
  BY CircuitGraphAssumption DEF Gates
<1>3. \A x \in Vertex : gate'[x] = IF x = v THEN type ELSE gate[x]
  BY <1>1 DEF RInv, IInv, TypeOK
<1>4. \A g \in Gates : Counted(g)' = IF g = type THEN Counted(g) \cup {v}
                                     ELSE IF g = "GateDefault" THEN Counted(g) \ {v}
                                     ELSE Counted(g)
  BY <1>1, <1>2, <1>3, VertexFacts DEF Counted, RInv, Live
<1>5. v \in Counted("GateDefault") /\ v \notin Counted(type)
  BY <1>1, <1>2 DEF Counted
<1>6. /\ Cardinality(Counted(type)') = Cardinality(Counted(type)) + 1
      /\ Cardinality(Counted("GateDefault")') = Cardinality(Counted("GateDefault")) - 1
  <2>1. /\ Counted(type)' = Counted(type) \cup {v}
        /\ Counted("GateDefault")' = Counted("GateDefault") \ {v}
        /\ IsFiniteSet(Counted(type)) /\ IsFiniteSet(Counted("GateDefault"))
    BY <1>2, <1>4, CountedFacts
  <2>2. Cardinality(Counted(type) \cup {v}) = Cardinality(Counted(type)) + 1
    BY <1>5, <2>1, FS_AddElement
  <2>3. Cardinality(Counted("GateDefault") \ {v}) = Cardinality(Counted("GateDefault")) - 1
    BY <1>5, <2>1, FS_RemoveElement
  <2> QED BY <2>1, <2>2, <2>3
<1>7. \A g \in Gates : gatesCount'[g] = IF g = type THEN gatesCount[g] + 1
                                        ELSE IF g = "GateDefault" THEN gatesCount[g] - 1
                                        ELSE gatesCount[g]
  BY <1>1, <1>2 DEF RInv, IInv, TypeOK
<1> QED BY <1>4, <1>6, <1>7 DEF GatesCountExact

LEMMA ScrubRemoveCountsGates ==
    ASSUME RInv, GatesCountExact, ScrubRemove
    PROVE  GatesCountExact'
<1> DEFINE v == Head(todo)
<1>1. /\ scrub \in {"gate", "sequential"} /\ v \in Vertex
      /\ v \in Live /\ vtype[v] = scrub /\ v \notin buffers
  BY NextLooked DEF ScrubRemove
<1>2. /\ Live' = Live \ {v}
      /\ gatesCount' = IF scrub = "gate" THEN [gatesCount EXCEPT ![gate[v]] = @ - 1]
                                         ELSE gatesCount
      /\ UNCHANGED <<vtype, gate, buffers>>
  BY ScrubUnlinks DEF ScrubRemove, registry
<1> HIDE DEF v
<1>3. CASE scrub = "gate"
  <2>1. gate[v] \in Gates /\ v \in Counted(gate[v])
    BY <1>1, <1>3, RegistryFacts DEF Counted
  <2>2. \A g \in Gates : Counted(g)' = IF g = gate[v] THEN Counted(g) \ {v} ELSE Counted(g)
    BY <1>2 DEF Counted
  <2>3. Cardinality(Counted(gate[v]) \ {v}) = Cardinality(Counted(gate[v])) - 1
    BY <2>1, CountedFacts, FS_RemoveElement
  <2>4. \A g \in Gates : gatesCount'[g] = IF g = gate[v] THEN gatesCount[g] - 1
                                                         ELSE gatesCount[g]
    BY <1>2, <1>3, <2>1 DEF RInv, IInv, TypeOK
  <2> QED BY <2>1, <2>2, <2>3, <2>4 DEF GatesCountExact
<1>4. CASE scrub = "sequential"
  <2>1. \A g \in Gates : Counted(g)' = Counted(g)
    BY <1>1, <1>2, <1>4 DEF Counted
  <2> QED BY <1>2, <1>4, <2>1, SameCounted
<1> QED BY <1>1, <1>3, <1>4

LEMMA NextCountsGates ==
    ASSUME Asserts, RInv, GatesCountExact, [Next]_vars
    PROVE  GatesCountExact'
<1>1. CASE Edit
  <2>1. ASSUME NEW u \in Live, NEW v \in Live,
               AddEdge(u, v) \/ AddEdgeThrows(u, v) \/ RemoveEdge(u, v)
        PROVE  GatesCountExact'
    BY <2>1, SameCounted DEF AddEdge, AddEdgeThrows, RemoveEdge, registry, Counted, Live
  <2>2. ASSUME NEW v \in Live, NEW type \in GateTypes, SetGateIfDefault(v, type)
        PROVE  GatesCountExact'
    BY <2>2, SetGateIfDefaultCounts
  <2> QED BY <1>1, <2>1, <2>2 DEF Edit
<1>2. CASE ScrubBegin \/ ScrubKeep \/ ScrubSwitch \/ ScrubRepeat \/ ScrubEnd
  BY <1>2, SameCounted
     DEF ScrubBegin, ScrubKeep, ScrubSwitch, ScrubRepeat, ScrubEnd, registry, Counted, Live
<1>3. CASE UNCHANGED vars
  BY <1>3, SameCounted DEF vars, Counted, Live
<1> QED BY <1>1, <1>2, <1>3, BuildCountsGates, ScrubRemoveCountsGates DEF Next, ScrubStep

(* With asserts, getGatesCount is exact for every type after any history   *)
(* of calls and in the middle of a scrub. Without them setGateIfDefault    *)
(* takes a wire off GateDefault whatever the gate was.                     *)
THEOREM GatesCounted == Asserts /\ Spec => []GatesCountExact
<1> SUFFICES ASSUME Asserts PROVE Spec => []GatesCountExact
  OBVIOUS
<1>1. Init => GatesCountExact
  <2>1. ASSUME Init, NEW g \in Gates PROVE gatesCount[g] = 0 /\ Counted(g) = {}
    BY <2>1 DEF Init, Counted, Live
  <2> QED BY <2>1, FS_EmptySet DEF GatesCountExact
<1>2. RInv /\ GatesCountExact /\ [Next]_vars => GatesCountExact'
  BY NextCountsGates
<1> QED BY <1>1, <1>2, Registry, PTL DEF Spec

-----------------------------------------------------------------------------
(* d_edgesGatesCount and the edges between gates.                          *)

\* How far the counter is ahead of the edges.
Excess(g, h) == edgesGatesCount[<<g, h>>] - Cardinality(GateEdges(g, h))

LEMMA GateEdgeFacts ==
    ASSUME RInv, NEW g \in Gates, NEW h \in Gates
    PROVE  /\ IsFiniteSet(GateEdges(g, h)) /\ Cardinality(GateEdges(g, h)) \in Nat
           /\ edgesGatesCount[<<g, h>>] \in Int
           /\ \A u, v \in Vertex : <<u, v>> \in Edges <=> u \in Range(ins[v])
           /\ \A u, v \in Vertex : <<u, v>> \in Edges => u \in Live /\ v \in Live
<1>1. IsFiniteSet(Edges) /\ GateEdges(g, h) \subseteq Edges
  BY EdgeFacts DEF RInv, GateEdges
<1>2. IsFiniteSet(GateEdges(g, h)) /\ Cardinality(GateEdges(g, h)) \in Nat
  BY <1>1, FS_Subset, FS_CardinalityType
<1>3. edgesGatesCount[<<g, h>>] \in Int
  BY DEF RInv, IInv, TypeOK
<1>4. \A u, v \in Vertex : <<u, v>> \in Edges <=> u \in Range(ins[v])
  BY EdgeFacts DEF RInv
<1>5. \A u, v \in Vertex : <<u, v>> \in Edges => u \in Live /\ v \in Live
  BY <1>4 DEF RInv, IInv, DriversLive
<1> QED BY <1>2, <1>3, <1>4, <1>5

(* A step that counts nothing, keeps the ends of every edge as they are    *)
(* and adds edges only where one end is no gate.                           *)
LEMMA SameExcess ==
    ASSUME RInv, NEW g \in Gates, NEW h \in Gates,
           edgesGatesCount' = edgesGatesCount,
           \A u, v \in Vertex : u \in Range(ins[v]) =>
               u \in Range(ins'[v]) /\ gate'[u] = gate[u] /\ gate'[v] = gate[v],
           \A u, v \in Vertex : u \in Range(ins'[v]) =>
               u \in Range(ins[v]) \/ gate'[u] \notin Gates \/ gate'[v] \notin Gates
    PROVE  Excess(g, h)' = Excess(g, h)
<1>1. GateEdges(g, h)' = GateEdges(g, h)
  BY DEF GateEdges, Edges
<1> QED BY <1>1 DEF Excess

LEMMA BuildExcess ==
    ASSUME RInv, Build, NEW g \in Gates, NEW h \in Gates
    PROVE  Excess(g, h)' = Excess(g, h)
<1>1. ASSUME NEW t \in Types \cap {"input", "constant", "output"}, AddTerminal(t)
      PROVE  Excess(g, h)' = Excess(g, h)
  BY <1>1, SameExcess DEF AddTerminal, adjacency
<1>2. ASSUME NEW k \in Gates, AddGate(k) PROVE Excess(g, h)' = Excess(g, h)
  <2>1. /\ \A v \in Vertex : v # Fresh => gate'[v] = gate[v]
        /\ ins' = ins /\ edgesGatesCount' = edgesGatesCount
    BY <1>2 DEF AddGate, adjacency, RInv, IInv, TypeOK
  <2>2. \A u, v \in Vertex : u \in Range(ins[v]) => u # Fresh /\ v # Fresh
    BY GateEdgeFacts, RegistryFacts
  <2> QED BY <2>1, <2>2, SameExcess
<1>3. ASSUME NEW d \in DriverLists, AddSequential(d) PROVE Excess(g, h)' = Excess(g, h)
  <2>1. /\ \A v \in Vertex : ins'[v] = IF v = Fresh THEN d ELSE ins[v]
        /\ gate' = gate /\ edgesGatesCount' = edgesGatesCount
    BY <1>3 DEF AddSequential, RInv, IInv, TypeOK
  <2>2. \A u, v \in Vertex : u \in Range(ins[v]) => v # Fresh
    BY GateEdgeFacts, RegistryFacts
  <2>3. \A v \in Vertex : v = Fresh => gate[v] \notin Gates
    BY RegistryFacts
  <2> QED BY <2>1, <2>2, <2>3, SameExcess
<1>4. ASSUME NEW d \in DriverLists, NEW n \in 0..MaxBuffers, AddSubGraph(d, n)
      PROVE  Excess(g, h)' = Excess(g, h)
  <2>1. /\ Fresh \notin Nested(n) /\ Nested(n) \cap (1..created) = {} /\ Fresh \in Vertex
        /\ Nested(n) \subseteq Vertex
        /\ gate' = [v \in Vertex |-> IF v \in Nested(n) THEN "GateBuf" ELSE gate[v]]
        /\ ins' = [v \in Vertex |-> IF v = Fresh THEN d
                                    ELSE IF v \in Nested(n) THEN <<Fresh>> ELSE ins[v]]
    BY <1>4, AddSubGraphFiled
  <2>2. \A u, v \in Vertex : u \in Range(ins[v]) =>
          u # Fresh /\ v # Fresh /\ u \notin Nested(n) /\ v \notin Nested(n)
    BY <2>1, GateEdgeFacts, RegistryFacts
  <2>3. gate[Fresh] \notin Gates /\ gate'[Fresh] = gate[Fresh] /\ Range(<<Fresh>>) = {Fresh}
    BY <2>1, RegistryFacts DEF Range
  <2>4. edgesGatesCount' = edgesGatesCount
    BY <1>4 DEF AddSubGraph
  <2> QED BY <2>1, <2>2, <2>3, <2>4, SameExcess
<1> QED BY <1>1, <1>2, <1>3, <1>4 DEF Build

(* A step that counts the edges it makes or unmakes.                       *)
LEMMA MovedExcess ==
    ASSUME RInv, NEW g \in Gates, NEW h \in Gates, NEW k \in Int,
           edgesGatesCount'[<<g, h>>] = edgesGatesCount[<<g, h>>] + k,
           Cardinality(GateEdges(g, h)') = Cardinality(GateEdges(g, h)) + k
    PROVE  Excess(g, h)' = Excess(g, h)
<1>1. edgesGatesCount[<<g, h>>] \in Int /\ Cardinality(GateEdges(g, h)) \in Int
  <2>1. edgesGatesCount[<<g, h>>] \in Int
    BY GateEdgeFacts
  <2>2. Cardinality(GateEdges(g, h)) \in Nat
    BY GateEdgeFacts
  <2> QED BY <2>1, <2>2
<1>2. Excess(g, h)' = edgesGatesCount'[<<g, h>>] - Cardinality(GateEdges(g, h)')
  BY DEF Excess
<1>3. Excess(g, h) = edgesGatesCount[<<g, h>>] - Cardinality(GateEdges(g, h))
  BY DEF Excess
<1> QED BY <1>1, <1>2, <1>3

(* One entry of the table moves by one when both ends are gates.           *)
LEMMA PairCounter ==
    ASSUME NEW f \in [Gates \X Gates -> Int], NEW a \in Gates, NEW b \in Gates,
           NEW g \in Gates, NEW h \in Gates, NEW k \in Int
    PROVE  [f EXCEPT ![<<a, b>>] = @ + k][<<g, h>>]
             = IF a = g /\ b = h THEN f[<<g, h>>] + k ELSE f[<<g, h>>]
<1>1. <<g, h>> \in Gates \X Gates
  OBVIOUS
<1>2. <<a, b>> = <<g, h>> <=> a = g /\ b = h
  OBVIOUS
<1> QED BY <1>1, <1>2

LEMMA AddEdgeExcess ==
    ASSUME RInv, NEW u \in Live, NEW v \in Live, AddEdge(u, v), NEW g \in Gates, NEW h \in Gates
    PROVE  Excess(g, h)' = Excess(g, h)
<1>1. u \in Vertex /\ v \in Vertex /\ ins[v] \in Seq(Vertex)
  BY VertexFacts DEF RInv
<1>2. /\ ins' = [ins EXCEPT ![v] = Append(@, u)] /\ gate' = gate
      /\ edgesGatesCount' =
           IF vtype[u] = "gate" /\ vtype[v] = "gate"
           THEN [edgesGatesCount EXCEPT ![<<gate[u], gate[v]>>] = @ + 1]
           ELSE edgesGatesCount
      /\ u \notin Range(ins[v])
  BY <1>1 DEF AddEdge, RInv, IInv, InsMatchOuts
<1>3. Range(Append(ins[v], u)) = Range(ins[v]) \cup {u}
  BY <1>1, AppendFacts
<1>4. \A x, y \in Vertex :
        x \in Range(ins'[y]) <=> x \in Range(ins[y]) \/ (x = u /\ y = v)
  BY <1>1, <1>2, <1>3 DEF RInv, IInv, TypeOK
<1>5. CASE gate[u] = g /\ gate[v] = h
  <2>1. vtype[u] = "gate" /\ vtype[v] = "gate"
    BY <1>1, <1>5, RegistryFacts
  <2>2. GateEdges(g, h)' = GateEdges(g, h) \cup {<<u, v>>}
    <3>1. ASSUME NEW e \in GateEdges(g, h)' PROVE e \in GateEdges(g, h) \cup {<<u, v>>}
      BY <1>2, <1>4 DEF GateEdges, Edges
    <3>2. GateEdges(g, h) \subseteq GateEdges(g, h)'
      BY <1>2, <1>4 DEF GateEdges, Edges
    <3>3. <<u, v>> \in GateEdges(g, h)'
      BY <1>1, <1>2, <1>4, <1>5 DEF GateEdges, Edges
    <3> QED BY <3>1, <3>2, <3>3
  <2>3. <<u, v>> \notin GateEdges(g, h)
    BY <1>2 DEF GateEdges, Edges
  <2>4. Cardinality(GateEdges(g, h) \cup {<<u, v>>}) = Cardinality(GateEdges(g, h)) + 1
    BY <2>3, GateEdgeFacts, FS_AddElement
  <2>5. edgesGatesCount'[<<g, h>>] = edgesGatesCount[<<g, h>>] + 1
    BY <1>2, <1>5, <2>1, PairCounter DEF RInv, IInv, TypeOK
  <2>6. Cardinality(GateEdges(g, h)') = Cardinality(GateEdges(g, h)) + 1
    BY <2>2, <2>4
  <2> QED BY <2>5, <2>6, MovedExcess
<1>6. CASE ~(gate[u] = g /\ gate[v] = h)
  <2>1. GateEdges(g, h)' = GateEdges(g, h)
    BY <1>2, <1>4, <1>6 DEF GateEdges, Edges
  <2>2. edgesGatesCount'[<<g, h>>] = edgesGatesCount[<<g, h>>]
    <3>1. vtype[u] = "gate" /\ vtype[v] = "gate" => gate[u] \in Gates /\ gate[v] \in Gates
      BY <1>1, RegistryFacts
    <3> QED BY <1>2, <1>6, <3>1, PairCounter DEF RInv, IInv, TypeOK
  <2> QED BY <2>1, <2>2 DEF Excess
<1> QED BY <1>5, <1>6

LEMMA RemoveEdgeExcess ==
    ASSUME RInv, NEW u \in Live, NEW v \in Live, RemoveEdge(u, v),
           NEW g \in Gates, NEW h \in Gates
    PROVE  Excess(g, h)' = Excess(g, h)
<1>1. u \in Vertex /\ v \in Vertex /\ ins[v] \in Seq(Vertex) /\ IsInjective(ins[v])
  BY VertexFacts DEF RInv
<1>2. /\ ins' = [ins EXCEPT ![v] = SwapRemove(@, u)] /\ gate' = gate
      /\ edgesGatesCount' =
           IF u \in Range(ins[v]) /\ vtype[u] = "gate" /\ vtype[v] = "gate"
           THEN [edgesGatesCount EXCEPT ![<<gate[u], gate[v]>>] = @ + (-1)]
           ELSE edgesGatesCount
  <2>1. \A p \in Gates \X Gates : edgesGatesCount[p] - 1 = edgesGatesCount[p] + (-1)
    BY DEF RInv, IInv, TypeOK
  <2>2. edgesGatesCount \in [Gates \X Gates -> Int]
    BY DEF RInv, IInv, TypeOK
  <2>3. [edgesGatesCount EXCEPT ![<<gate[u], gate[v]>>] = @ - 1]
          = [edgesGatesCount EXCEPT ![<<gate[u], gate[v]>>] = @ + (-1)]
    BY <2>1, <2>2
  <2> QED BY <2>3 DEF RemoveEdge, Deleted
<1>3. Range(SwapRemove(ins[v], u)) = Range(ins[v]) \ {u}
  BY <1>1, SwapRemoveFacts
<1>4. \A x, y \in Vertex :
        x \in Range(ins'[y]) <=> x \in Range(ins[y]) /\ ~(x = u /\ y = v)
  BY <1>1, <1>2, <1>3 DEF RInv, IInv, TypeOK
<1>5. GateEdges(g, h)' = GateEdges(g, h) \ {<<u, v>>}
  BY <1>2, <1>4 DEF GateEdges, Edges
<1>6. CASE u \in Range(ins[v]) /\ gate[u] = g /\ gate[v] = h
  <2>1. vtype[u] = "gate" /\ vtype[v] = "gate"
    BY <1>1, <1>6, RegistryFacts
  <2>2. <<u, v>> \in GateEdges(g, h)
    BY <1>1, <1>6 DEF GateEdges, Edges
  <2>3. Cardinality(GateEdges(g, h) \ {<<u, v>>}) = Cardinality(GateEdges(g, h)) - 1
    BY <2>2, GateEdgeFacts, FS_RemoveElement
  <2>4. Cardinality(GateEdges(g, h)') = Cardinality(GateEdges(g, h)) + (-1)
    BY <1>5, <2>3, GateEdgeFacts
  <2>5. edgesGatesCount'[<<g, h>>] = edgesGatesCount[<<g, h>>] + (-1)
    BY <1>2, <1>6, <2>1, PairCounter DEF RInv, IInv, TypeOK
  <2> QED BY <2>4, <2>5, MovedExcess
<1>7. CASE ~(u \in Range(ins[v]) /\ gate[u] = g /\ gate[v] = h)
  <2>1. GateEdges(g, h)' = GateEdges(g, h)
    BY <1>5, <1>7 DEF GateEdges, Edges
  <2>2. edgesGatesCount'[<<g, h>>] = edgesGatesCount[<<g, h>>]
    <3>1. vtype[u] = "gate" /\ vtype[v] = "gate" => gate[u] \in Gates /\ gate[v] \in Gates
      BY <1>1, RegistryFacts
    <3>2. CASE u \in Range(ins[v]) /\ vtype[u] = "gate" /\ vtype[v] = "gate"
      BY <1>2, <1>7, <3>1, <3>2, PairCounter DEF RInv, IInv, TypeOK
    <3>3. CASE ~(u \in Range(ins[v]) /\ vtype[u] = "gate" /\ vtype[v] = "gate")
      BY <1>2, <3>3
    <3> QED BY <3>2, <3>3
  <2> QED BY <2>1, <2>2 DEF Excess
<1> QED BY <1>6, <1>7

(* Whatever the scrub unlinks it takes off the counters, a sequential cell *)
(* having nothing to take off.                                             *)
LEMMA ScrubRemoveExcess ==
    ASSUME RInv, ScrubRemove, NEW g \in Gates, NEW h \in Gates
    PROVE  Excess(g, h)' = Excess(g, h)
<1> DEFINE v == Head(todo)
           to == {w \in Consumers(v) : vtype[w] = "gate" /\ gate[w] = h}
           lost == IF gate[v] = g THEN Cardinality(to) ELSE 0
<1>1. /\ scrub \in {"gate", "sequential"} /\ v \in Vertex /\ vtype[v] = scrub
  BY NextLooked DEF ScrubRemove
<1>2. /\ \A w \in Vertex : Range(ins'[w]) = Range(ins[w]) \ {v}
      /\ \A w \in Vertex : w \in Consumers(v) <=> v \in Range(ins[w])
      /\ Consumers(v) \subseteq Vertex
  BY ScrubUnlinks
<1>3. gate' = gate /\ edgesGatesCount'[<<g, h>>] =
        IF scrub = "gate" THEN edgesGatesCount[<<g, h>>] - lost ELSE edgesGatesCount[<<g, h>>]
  BY DEF ScrubRemove
<1>4. IsFiniteSet(to) /\ Cardinality(to) \in Nat
  BY <1>1, CountType DEF RInv, Consumers
<1> HIDE DEF v
<1>5. ASSUME NEW x \in Vertex, NEW y \in Vertex
      PROVE  <<x, y>> \in GateEdges(g, h)' <=> <<x, y>> \in GateEdges(g, h) /\ x # v
  BY <1>2, <1>3 DEF GateEdges, Edges
<1>6. GateEdges(g, h)' \subseteq Vertex \X Vertex /\ GateEdges(g, h) \subseteq Vertex \X Vertex
  BY DEF GateEdges, Edges
<1>7. CASE gate[v] = g
  <2>1. scrub = "gate" /\ lost = Cardinality(to)
    BY <1>1, <1>7, RegistryFacts
  <2>2. {v} \X to \subseteq GateEdges(g, h)
    BY <1>1, <1>2, <1>7 DEF GateEdges, Edges
  <2>3. \A x, y \in Vertex : <<x, y>> \in GateEdges(g, h) /\ x = v => y \in to
    BY <1>2, RegistryFacts DEF GateEdges, Edges
  <2>4. GateEdges(g, h)' = GateEdges(g, h) \ ({v} \X to)
    <3> HIDE DEF to
    <3>1. \A x, y \in Vertex :
            <<x, y>> \in GateEdges(g, h)' <=> <<x, y>> \in GateEdges(g, h) \ ({v} \X to)
      BY <1>5, <2>3
    <3> QED BY <1>6, <3>1
  <2> HIDE DEF to, lost
  <2>5. Cardinality({v} \X to) = Cardinality(to)
    BY <1>4, StarFacts
  <2>6. Cardinality(GateEdges(g, h) \ ({v} \X to))
          = Cardinality(GateEdges(g, h)) - Cardinality({v} \X to)
    BY <2>2, GateEdgeFacts, FewerPairs
  <2> DEFINE k == -Cardinality(to)
  <2>7. k \in Int
    BY <1>4
  <2>8. edgesGatesCount[<<g, h>>] \in Int /\ Cardinality(GateEdges(g, h)) \in Nat
    BY GateEdgeFacts
  <2>9. Cardinality(GateEdges(g, h)') = Cardinality(GateEdges(g, h)) + k
    BY <1>4, <2>4, <2>5, <2>6, <2>8
  <2>10. edgesGatesCount'[<<g, h>>] = edgesGatesCount[<<g, h>>] + k
    BY <1>3, <1>4, <2>1, <2>8
  <2> HIDE DEF k
  <2> QED BY <2>7, <2>9, <2>10, MovedExcess
<1>8. CASE gate[v] # g
  <2>1. GateEdges(g, h)' = GateEdges(g, h)
    <3>1. \A x, y \in Vertex : <<x, y>> \in GateEdges(g, h) => x # v
      BY <1>8 DEF GateEdges
    <3> QED BY <1>5, <1>6, <3>1
  <2>2. edgesGatesCount'[<<g, h>>] = edgesGatesCount[<<g, h>>]
    <3>1. edgesGatesCount[<<g, h>>] \in Int /\ lost = 0
      BY <1>8, GateEdgeFacts
    <3> HIDE DEF lost
    <3> QED BY <1>3, <3>1
  <2> QED BY <2>1, <2>2 DEF Excess
<1> QED BY <1>7, <1>8

(* A set covered by three finite ones is no larger than they are together. *)
LEMMA CoveredByThree ==
    ASSUME NEW S, NEW A, NEW B, NEW C,
           IsFiniteSet(A), IsFiniteSet(B), IsFiniteSet(C), S \subseteq A \cup B \cup C
    PROVE  /\ Cardinality(S) \in Nat
           /\ Cardinality(S) <= Cardinality(A) + Cardinality(B) + Cardinality(C)
<1>1. /\ Cardinality(A) \in Nat /\ Cardinality(B) \in Nat /\ Cardinality(C) \in Nat
      /\ Cardinality(A \cap B) \in Nat /\ Cardinality((A \cup B) \cap C) \in Nat
  <2>1. IsFiniteSet(A \cap B) /\ IsFiniteSet((A \cup B) \cap C)
    BY FS_Subset
  <2> QED BY <2>1, FS_CardinalityType
<1>2. /\ IsFiniteSet(A \cup B)
      /\ Cardinality(A \cup B) = Cardinality(A) + Cardinality(B) - Cardinality(A \cap B)
  BY FS_Union
<1>3. /\ IsFiniteSet((A \cup B) \cup C)
      /\ Cardinality((A \cup B) \cup C)
           = Cardinality(A \cup B) + Cardinality(C) - Cardinality((A \cup B) \cap C)
  BY <1>2, FS_Union
<1>4. Cardinality(S) <= Cardinality((A \cup B) \cup C) /\ Cardinality(S) \in Nat
  BY <1>3, FS_Subset, FS_CardinalityType
<1> QED BY <1>1, <1>2, <1>3, <1>4

(* The edges of a wire that becomes a gate are all counted, once from each *)
(* list they are in: no edge of it is missed, entries of d_outConnections  *)
(* without their twin are counted on top.                                  *)
LEMMA SetGateIfDefaultExcess ==
    ASSUME Asserts, RInv, NEW v \in Live, NEW type \in GateTypes, SetGateIfDefault(v, type),
           NEW g \in Gates, NEW h \in Gates
    PROVE  Excess(g, h)' \in Int /\ Excess(g, h) <= Excess(g, h)'
<1>1. PICK seen \in SeenGates :
        edgesGatesCount' = [p \in Gates \X Gates |->
                              edgesGatesCount[p] + NewGateEdges(v, type, seen, p[1], p[2])]
  BY DEF SetGateIfDefault
<1> DEFINE from == {u \in Range(ins[v]) : vtype[u] = "gate" /\ gate[u] = g}
           to == {w \in Range(outs[v]) : vtype[w] = "gate" /\ seen[w] = h}
           into == IF h = type THEN from \X {v} ELSE {}
           out == IF g = type THEN {v} \X to ELSE {}
<1>2. v \in Vertex /\ gate' = [gate EXCEPT ![v] = type] /\ ins' = ins
  BY VertexFacts DEF RInv, SetGateIfDefault
<1>3. \A x \in Vertex : gate'[x] = IF x = v THEN type ELSE gate[x]
  BY <1>2 DEF RInv, IInv, TypeOK
<1>4. \A x \in Live : seen[x] = gate[x]
  BY VertexFacts DEF SeenGates, RInv, Live
<1>5. IsFiniteSet(from) /\ IsFiniteSet(to)
  BY <1>2, CountType DEF RInv
<1>6. GateEdges(g, h)' \subseteq GateEdges(g, h) \cup into \cup out
  <2>1. ASSUME NEW x \in Vertex, NEW y \in Vertex, x \in Range(ins[y]),
               gate'[x] = g, gate'[y] = h
        PROVE  <<x, y>> \in GateEdges(g, h) \cup into \cup out
    <3>1. x # y /\ x \in Live /\ y \in Live /\ y \in Range(outs[x])
      BY <2>1 DEF RInv, Unlooped, IInv, DriversLive, InsMatchOuts
    <3>2. CASE x = v
      <4>1. g = type /\ gate[y] = h /\ vtype[y] = "gate" /\ seen[y] = h
        BY <1>3, <1>4, <2>1, <3>1, <3>2, RegistryFacts
      <4> QED BY <3>1, <3>2, <4>1
    <3>3. CASE y = v
      <4>1. h = type /\ gate[x] = g /\ vtype[x] = "gate"
        BY <1>3, <2>1, <3>1, <3>3, RegistryFacts
      <4> QED BY <2>1, <3>3, <4>1
    <3>4. CASE x # v /\ y # v
      BY <1>3, <2>1, <3>4 DEF GateEdges, Edges
    <3> QED BY <3>2, <3>3, <3>4
  <2>2. \A e \in GateEdges(g, h)' : \E x, y \in Vertex :
          e = <<x, y>> /\ x \in Range(ins[y]) /\ gate'[x] = g /\ gate'[y] = h
    BY <1>2 DEF GateEdges, Edges
  <2> HIDE DEF into, out
  <2> QED BY <2>1, <2>2
<1> HIDE DEF from, to
<1>7. /\ IsFiniteSet(into) /\ Cardinality(into) = IF h = type THEN Cardinality(from) ELSE 0
      /\ IsFiniteSet(out) /\ Cardinality(out) = IF g = type THEN Cardinality(to) ELSE 0
  BY <1>5, StarFacts, FS_EmptySet
<1> HIDE DEF into, out
<1>8. /\ IsFiniteSet(GateEdges(g, h)) /\ Cardinality(GateEdges(g, h)) \in Nat
      /\ edgesGatesCount[<<g, h>>] \in Int
      /\ Cardinality(into) \in Nat /\ Cardinality(out) \in Nat
  BY <1>7, GateEdgeFacts, FS_CardinalityType
<1>9. /\ Cardinality(GateEdges(g, h)') \in Nat
      /\ Cardinality(GateEdges(g, h)') <= Cardinality(GateEdges(g, h)) + Cardinality(into)
                                              + Cardinality(out)
  BY <1>6, <1>7, <1>8, CoveredByThree
<1>10. NewGateEdges(v, type, seen, g, h) = Cardinality(into) + Cardinality(out)
  BY <1>7 DEF NewGateEdges, from, to
<1>11. edgesGatesCount'[<<g, h>>] = edgesGatesCount[<<g, h>>] + Cardinality(into) + Cardinality(out)
  <2>1. edgesGatesCount'[<<g, h>>]
          = edgesGatesCount[<<g, h>>] + NewGateEdges(v, type, seen, g, h)
    BY <1>1
  <2> QED BY <1>8, <1>10, <2>1
<1>12. /\ Excess(g, h)' = edgesGatesCount'[<<g, h>>] - Cardinality(GateEdges(g, h)')
       /\ Excess(g, h) = edgesGatesCount[<<g, h>>] - Cardinality(GateEdges(g, h))
  BY DEF Excess
<1> QED BY <1>8, <1>9, <1>11, <1>12

(* No call takes more off a counter than the edges it takes away; only     *)
(* setGateIfDefault puts more on it than it adds.                          *)
LEMMA NextExcess ==
    ASSUME RInv, [Next]_vars, NEW g \in Gates, NEW h \in Gates
    PROVE  \/ Excess(g, h)' = Excess(g, h)
           \/ \E v \in Live, type \in GateTypes : SetGateIfDefault(v, type)
<1>1. CASE Edit
  <2>1. ASSUME NEW u \in Live, NEW v \in Live, AddEdgeThrows(u, v)
        PROVE  Excess(g, h)' = Excess(g, h)
    BY <2>1, SameExcess DEF AddEdgeThrows
  <2> QED BY <1>1, <2>1, AddEdgeExcess, RemoveEdgeExcess DEF Edit
<1>2. CASE ScrubBegin \/ ScrubKeep \/ ScrubSwitch \/ ScrubRepeat \/ ScrubEnd
  BY <1>2, SameExcess
     DEF ScrubBegin, ScrubKeep, ScrubSwitch, ScrubRepeat, ScrubEnd, adjacency
<1>3. CASE UNCHANGED vars
  BY <1>3, SameExcess DEF vars
<1> QED BY <1>1, <1>2, <1>3, BuildExcess, ScrubRemoveExcess DEF Next, ScrubStep

LEMMA ExcessFacts ==
    ASSUME RInv, NEW g \in Gates, NEW h \in Gates
    PROVE  /\ Excess(g, h) \in Int
           /\ 0 <= Excess(g, h) => Cardinality(GateEdges(g, h)) <= edgesGatesCount[<<g, h>>]
           /\ Excess(g, h) = 0 => Cardinality(GateEdges(g, h)) = edgesGatesCount[<<g, h>>]
<1>1. edgesGatesCount[<<g, h>>] \in Int
  BY GateEdgeFacts
<1>2. Cardinality(GateEdges(g, h)) \in Nat
  BY GateEdgeFacts
<1> QED BY <1>1, <1>2 DEF Excess

LEMMA InitExcess == ASSUME Init, NEW g \in Gates, NEW h \in Gates PROVE Excess(g, h) = 0
<1>1. Range(<<>>) = {}
  BY DEF Range
<1>2. GateEdges(g, h) = {} /\ edgesGatesCount[<<g, h>>] = 0
  BY <1>1 DEF Init, GateEdges, Edges
<1> QED BY <1>2, FS_EmptySet DEF Excess

(* With asserts, getEdgesGatesCount never falls below the number of edges  *)
(* between gates of two types, wires declared before their gate included:  *)
(* the unsigned counters never wrap below zero.                            *)
THEOREM GateEdgesCovered == Asserts /\ Spec => []EdgesGatesCountCovers
<1> DEFINE Ahead == \A g, h \in Gates : 0 <= Excess(g, h)
<1> SUFFICES ASSUME Asserts PROVE Spec => []EdgesGatesCountCovers
  OBVIOUS
<1>1. Init => Ahead
  BY InitExcess
<1>2. ASSUME RInv, Ahead, [Next]_vars PROVE Ahead'
  <2>1. ASSUME NEW g \in Gates, NEW h \in Gates PROVE 0 <= Excess(g, h)'
    <3>1. Excess(g, h) \in Int /\ 0 <= Excess(g, h)
      BY <1>2, ExcessFacts
    <3>2. CASE Excess(g, h)' = Excess(g, h)
      BY <3>1, <3>2
    <3>3. CASE \E v \in Live, type \in GateTypes : SetGateIfDefault(v, type)
      <4>1. Excess(g, h)' \in Int /\ Excess(g, h) <= Excess(g, h)'
        BY <1>2, <3>3, SetGateIfDefaultExcess
      <4> QED BY <3>1, <4>1
    <3> QED BY <1>2, <3>2, <3>3, NextExcess
  <2> QED BY <2>1
<1>3. ASSUME RInv, Ahead PROVE EdgesGatesCountCovers
  BY <1>3, ExcessFacts DEF EdgesGatesCountCovers
<1> HIDE DEF Ahead
<1> QED BY <1>1, <1>2, <1>3, Registry, PTL DEF Spec

(* A graph built without wires has no GateDefault: asserts then leave      *)
(* setGateIfDefault nothing to convert.                                    *)
Wireless == \A v \in Vertex : gate[v] # "GateDefault"

LEMMA NothingToConvert ==
    ASSUME Asserts, RInv, Wireless
    PROVE  ~ \E v \in Live, type \in GateTypes : SetGateIfDefault(v, type)
BY VertexFacts DEF Wireless, SetGateIfDefault, RInv

LEMMA NextWireless ==
    ASSUME Asserts, ~ForwardWires, RInv, Wireless, [Next]_vars
    PROVE  Wireless'
<1>1. ~ \E v \in Live, type \in GateTypes : SetGateIfDefault(v, type)
  BY NothingToConvert
<1>2. CASE Build
  <2>1. ASSUME NEW g \in Gates, AddGate(g) PROVE Wireless'
    BY <2>1 DEF AddGate, Wireless, RInv, IInv, TypeOK
  <2>2. ASSUME NEW d \in DriverLists, NEW n \in 0..MaxBuffers, AddSubGraph(d, n)
        PROVE  Wireless'
    BY <2>2, AddSubGraphFiled DEF Wireless
  <2> QED BY <1>2, <2>1, <2>2 DEF Build, AddTerminal, AddSequential, Wireless
<1>3. CASE Edit
  BY <1>1, <1>3 DEF Edit, AddEdge, AddEdgeThrows, RemoveEdge, Wireless
<1>4. CASE ScrubBegin \/ ScrubStep \/ UNCHANGED vars
  BY <1>4 DEF ScrubBegin, ScrubStep, ScrubKeep, ScrubRemove, ScrubSwitch, ScrubRepeat, ScrubEnd,
              vars, Wireless
<1> QED BY <1>1, <1>2, <1>3, <1>4 DEF Next

(* In a graph that declares no wire ahead of its gate, getEdgesGatesCount  *)
(* is exactly the number of edges between gates of two types.              *)
THEOREM GateEdgesExact == Asserts /\ ~ForwardWires /\ Spec => []EdgesGatesCountExact
<1> DEFINE Even == \A g, h \in Gates : Excess(g, h) = 0
<1> SUFFICES ASSUME Asserts, ~ForwardWires PROVE Spec => []EdgesGatesCountExact
  OBVIOUS
<1>1. Init => Even /\ Wireless
  <2>1. "none" # "GateDefault"
    OBVIOUS
  <2> QED BY <2>1, InitExcess DEF Init, Wireless
<1>2. ASSUME RInv, Even, Wireless, [Next]_vars PROVE Even' /\ Wireless'
  BY <1>2, NextExcess, NextWireless, NothingToConvert
<1>3. ASSUME RInv, Even PROVE EdgesGatesCountExact
  BY <1>3, ExcessFacts DEF EdgesGatesCountExact
<1> HIDE DEF Even
<1> QED BY <1>1, <1>2, <1>3, Registry, PTL DEF Spec

-----------------------------------------------------------------------------
(* With asserts a gate keeps the operation it was given for as long as it  *)
(* lives: setGateIfDefault converts only what is still GateDefault, and no *)
(* other call writes d_gate of a vertex that exists.                       *)
THEOREM GateKept == Asserts /\ Spec => GateSetOnce
<1> SUFFICES ASSUME Asserts PROVE Spec => GateSetOnce
  OBVIOUS
<1>1. ASSUME RInv, Next, NEW x \in Live, gate[x] \in GateTypes PROVE gate'[x] = gate[x]
  <2>1. x \in Vertex /\ x # Fresh /\ x \in 1..created /\ gate[x] # "GateDefault"
    BY <1>1, RegistryFacts, VertexFacts, CircuitGraphAssumption DEF RInv
  <2>2. CASE Build
    <3>1. ASSUME NEW d \in DriverLists, NEW n \in 0..MaxBuffers, AddSubGraph(d, n)
          PROVE  gate'[x] = gate[x]
      BY <1>1, <2>1, <3>1, AddSubGraphFiled
    <3> QED BY <1>1, <2>1, <2>2, <3>1
            DEF Build, AddTerminal, AddGate, AddSequential, RInv, IInv, TypeOK
  <2>3. CASE Edit
    <3>1. ASSUME NEW v \in Live, NEW type \in GateTypes, SetGateIfDefault(v, type)
          PROVE  gate'[x] = gate[x]
      <4>1. v # x /\ gate' = [gate EXCEPT ![v] = type]
        BY <2>1, <3>1 DEF SetGateIfDefault
      <4> QED BY <1>1, <2>1, <4>1 DEF RInv, IInv, TypeOK
    <3> QED BY <2>3, <3>1 DEF Edit, AddEdge, AddEdgeThrows, RemoveEdge
  <2>4. CASE ScrubBegin \/ ScrubStep
    BY <2>4 DEF ScrubBegin, ScrubStep, ScrubKeep, ScrubRemove, ScrubSwitch, ScrubRepeat, ScrubEnd
  <2> QED BY <1>1, <2>2, <2>3, <2>4 DEF Next
<1>2. ASSUME RInv, [Next]_vars
      PROVE  [\A v \in Live : gate[v] \in GateTypes => gate'[v] = gate[v]]_vars
  BY <1>1, <1>2
<1> QED BY <1>2, Registry, PTL DEF Spec, GateSetOnce
=============================================================================
