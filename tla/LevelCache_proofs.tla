-------------------------- MODULE LevelCache_proofs --------------------------
(***************************************************************************)
(* In a graph without instances the levels are exact, the searches by      *)
(* level complete and the waste is what no output reads, for every         *)
(* netlist: proofs of LevelsExact, ByLevelComplete and WasteExactFlat.     *)
(***************************************************************************)
EXTENDS LevelCache, SequenceLemmas

-----------------------------------------------------------------------------
(* The invariant.                                                          *)

Frame == [at : Vertex, next : Nat \ {0}]

(* What the variables hold.                                                *)
TypeOK ==
    /\ net \in Nets
    /\ standing \subseteq Vertex
    /\ ins \in [Vertex -> Seq(Vertex)]
    /\ outs \in [Vertex -> Seq(Vertex)]
    /\ level \in [Vertex -> Nat]
    /\ calc \subseteq Vertex
    /\ used \subseteq standing
    /\ purging \in BOOLEAN
    /\ phase \in {"idle", "levels", "search"}
    /\ roots \subseteq standing
    /\ stack \in Seq(Frame)
    /\ wanted \in Nat
    /\ found \subseteq Vertex
    /\ trust \in {"clean", "reset", "stale"}

(* Both ends of an edge agree, between vertices that stand.                *)
Paired ==
    /\ \A v \in Vertex : IsInjective(ins[v]) /\ IsInjective(outs[v])
    /\ \A u, v \in Vertex : u \in Range(ins[v]) <=> v \in Range(outs[u])
    /\ \A u, v \in Vertex : u \in Range(ins[v]) =>
         /\ u \in standing /\ v \in standing
         /\ Kind[u] # "output" /\ Kind[v] \notin {"input", "constant"}

(* Which call may be in progress, and what is left of it when it is over.  *)
Phases ==
    /\ phase = "idle" => roots = {} /\ stack = <<>>
    /\ phase # "search" => used = {} /\ found = {}
    /\ phase = "search" => ~purging
    /\ phase = "levels" => roots \subseteq Outputs
    /\ purging => \A v \in Inner : ins[v] # <<>>

\* Those whose updateLevel has returned.
Settled == calc \ InProgress

(* d tells how far the vertices of the fan-in are from the inputs.         *)
Distance(d) ==
    \A v \in FanIn : /\ ins[v] = <<>> => d[v] = 0
                     /\ ins[v] # <<>> => \E u \in Range(ins[v]) : d[v] = d[u] + 1
                     /\ \A u \in Range(ins[v]) : d[u] < d[v]

(* Levels are of the fan-in only, and what has returned has seen all its   *)
(* drivers.                                                                *)
Flagged ==
    /\ calc \subseteq FanIn
    /\ \A v \in Vertex : level[v] # 0 => v \in FanIn
    /\ \A v \in Settled : /\ Range(ins[v]) \subseteq calc
                          /\ ins[v] # <<>> => level[v] # 0

(* A frame has seen the drivers it has passed.                             *)
Walking ==
    phase = "levels" =>
      /\ Outputs \ roots \subseteq calc
      /\ \A k \in DOMAIN stack :
           /\ stack[k].at \in calc
           /\ stack[k].next <= Len(ins[stack[k].at]) + 1
           /\ \A i \in 1..(stack[k].next - 1) : ins[stack[k].at][i] \in calc
           /\ stack[k].next > 1 => level[stack[k].at] # 0

(* No level is too high, those that are done are exact, and a frame is     *)
(* above the drivers it has passed. The walk goes down: a driver that is   *)
(* flagged is no vertex of the stack.                                      *)
Measured(d) ==
    /\ \A v \in FanIn : level[v] <= d[v]
    /\ \A v \in Settled : level[v] = d[v]
    /\ phase = "levels" =>
         \A k \in DOMAIN stack :
           /\ \A j \in 1..(k - 1) : d[stack[k].at] < d[stack[j].at]
           /\ \A i \in 1..(stack[k].next - 1) : d[ins[stack[k].at][i]] < level[stack[k].at]

\* What the frames of a search have passed was met, and so was what follows
\* a vertex that was left, unless the search went no further there.
Behind(frames, met, passed) ==
    /\ \A k \in DOMAIN frames :
         /\ frames[k].at \in met
         /\ frames[k].next <= Len(Neighbours[frames[k].at]) + 1
         /\ \A i \in 1..(frames[k].next - 1) :
              Neighbours[frames[k].at][i] \in calc => Neighbours[frames[k].at][i] \in passed
    /\ \A v \in met \ {frames[k].at : k \in DOMAIN frames} :
         level[v] # wanted => Range(Neighbours[v]) \cap calc \subseteq met

(* The search has met what it can reach from where it started, but for     *)
(* what its frames have yet to look at and what lies behind the level.     *)
Searching ==
    phase = "search" =>
      /\ calc = FanIn
      /\ used \subseteq calc
      /\ found = {v \in used : level[v] = wanted}
      /\ (Starts(wanted) \ roots) \cap calc \subseteq used
      /\ Behind(stack, used, used)

Answered(d) ==
    answer.call = "byLevel" /\ answer.level > 0 /\ Driven =>
      answer.found = {v \in FanIn : d[v] = answer.level}

Clean ==
    trust = "clean" =>
      /\ Flagged
      /\ Walking
      /\ Searching
      /\ \A d \in [Vertex -> Nat] : Distance(d) => Measured(d) /\ Answered(d)

LevelInv == Flat => TypeOK /\ Paired /\ Phases /\ Clean

-----------------------------------------------------------------------------
(* Operators.                                                              *)

(* The greatest of the levels, 0 if there are none.                        *)
LEMMA HighestFacts ==
    ASSUME NEW S, S \subseteq Nat, IsFiniteSet(S)
    PROVE  /\ Highest(S) \in Nat
           /\ \A m \in S : m <= Highest(S)
           /\ S # {} => Highest(S) \in S
<1> DEFINE T == S \cup {0}
<1>1. T \subseteq Nat /\ IsFiniteSet(T) /\ T # {}
  BY FS_AddElement
<1>2. \E n \in T : \A m \in T : m <= n
  <2> HIDE DEF T
  <2> QED BY <1>1, Greatest
<1>3. /\ Highest(S) \in T
      /\ \A m \in T : m <= Highest(S)
  BY <1>2 DEF Highest
<1>4. Highest(S) \in Nat /\ \A m \in S : m <= Highest(S)
  BY <1>1, <1>3
<1>5. ASSUME S # {} PROVE Highest(S) \in S
  <2>1. PICK m \in S : TRUE
    BY <1>5
  <2>2. m \in Nat /\ m <= Highest(S)
    BY <2>1, <1>4
  <2> QED BY <1>3, <1>4, <2>1, <2>2
<1> QED BY <1>4, <1>5

LEMMA EarliestFacts ==
    ASSUME NEW S, S \subseteq Nat, S # {}
    PROVE  Earliest(S) \in S
BY Least DEF Earliest

LEMMA SetToSeqFacts ==
    ASSUME NEW S, IsFiniteSet(S)
    PROVE  /\ SetToSeq(S) \in Seq(S)
           /\ IsInjective(SetToSeq(S))
           /\ Range(SetToSeq(S)) = S
BY ListingFacts DEF SetToSeq

(* The frames of a walk: one is entered, the top one goes on, the top one  *)
(* is left.                                                                *)
LEMMA FrameFacts ==
    ASSUME NEW s \in Seq(Frame)
    PROVE  /\ Len(s) \in Nat /\ DOMAIN s = 1..Len(s)
           /\ s = <<>> <=> Len(s) = 0
           /\ \A k \in 1..Len(s) : s[k].at \in Vertex /\ s[k].next \in Nat \ {0}
<1>1. \A f \in Frame : f.at \in Vertex /\ f.next \in Nat \ {0}
  BY DEF Frame
<1>2. \A k \in 1..Len(s) : s[k] \in Frame
  OBVIOUS
<1> QED BY <1>1, <1>2

LEMMA PushedFacts ==
    ASSUME NEW s \in Seq(Frame), NEW v \in Vertex
    PROVE  /\ Pushed(s, v) \in Seq(Frame)
           /\ Len(Pushed(s, v)) = Len(s) + 1
           /\ \A k \in 1..Len(s) : Pushed(s, v)[k] = s[k]
           /\ Pushed(s, v)[Len(s) + 1].at = v /\ Pushed(s, v)[Len(s) + 1].next = 1
<1> DEFINE f == [at |-> v, next |-> 1]
<1>1. f \in Frame /\ f.at = v /\ f.next = 1
  BY DEF Frame
<1>2. Pushed(s, v) = Append(s, f)
  BY DEF Pushed
<1> HIDE DEF f
<1> QED BY <1>1, <1>2

LEMMA AdvancedFacts ==
    ASSUME NEW s \in Seq(Frame), s # <<>>
    PROVE  /\ Advanced(s) \in Seq(Frame)
           /\ Len(Advanced(s)) = Len(s)
           /\ \A k \in 1..Len(s) :
                /\ Advanced(s)[k].at = s[k].at
                /\ Advanced(s)[k].next = IF k = Len(s) THEN s[k].next + 1 ELSE s[k].next
<1> DEFINE n == Len(s)
<1>1. n \in 1..Len(s) /\ Len(s) \in Nat /\ s \in [1..n -> Frame]
  OBVIOUS
<1>2. s[n] \in Frame
  BY <1>1
<1>3. [s[n] EXCEPT !.next = @ + 1] \in Frame
  BY <1>2 DEF Frame
<1>4. Advanced(s) = [s EXCEPT ![n] = [s[n] EXCEPT !.next = @ + 1]]
  BY DEF Advanced
<1>5. Advanced(s) \in [1..n -> Frame]
  BY <1>1, <1>3, <1>4
<1>6. Advanced(s) \in Seq(Frame) /\ Len(Advanced(s)) = n
  BY <1>1, <1>5
<1>7. ASSUME NEW k \in 1..n
      PROVE  /\ Advanced(s)[k].at = s[k].at
             /\ Advanced(s)[k].next = IF k = n THEN s[k].next + 1 ELSE s[k].next
  BY <1>1, <1>2, <1>4 DEF Frame
<1> QED BY <1>6, <1>7

LEMMA ReturnedFacts ==
    ASSUME NEW F, NEW s \in Seq(F), s # <<>>
    PROVE  /\ SubSeq(s, 1, Len(s) - 1) \in Seq(F)
           /\ Len(SubSeq(s, 1, Len(s) - 1)) = Len(s) - 1
           /\ \A k \in 1..(Len(s) - 1) : SubSeq(s, 1, Len(s) - 1)[k] = s[k]
<1>1. Len(s) \in Nat \ {0} /\ \A k \in 1..Len(s) : s[k] \in F
  OBVIOUS
<1> DEFINE n == Len(s) - 1
           r == SubSeq(s, 1, n)
<1>2. r = [k \in 1..n |-> s[k]]
  BY <1>1
<1>3. n \in Nat
  BY <1>1
<1>4. \A k \in 1..n : s[k] \in F
  BY <1>1
<1>5. r \in Seq(F) /\ Len(r) = n /\ \A k \in 1..n : r[k] = s[k]
  <2> HIDE DEF r, n
  <2>1. r \in [1..n -> F]
    BY <1>2, <1>4
  <2> QED BY <1>2, <1>3, <2>1
<1> QED BY <1>5

(* The edges of the vertices that go are cut one vertex after the other;   *)
(* that leaves each of the others its edges to those that stay.            *)
Cut(f, V, adj, n, order) ==
    f = [k \in 0..n |-> IF k = 0 THEN adj ELSE [v \in V |-> SwapRemove(f[k - 1][v], order[k])]]

LEMMA CutExists ==
    ASSUME NEW V, NEW adj, NEW n \in Nat, NEW order
    PROVE  \E f : Cut(f, V, adj, n, order)
<1> DEFINE Next1(left, k) == [v \in V |-> SwapRemove(left[v], order[k])]
           P(m) == \E f : f = [k \in 0..m |-> IF k = 0 THEN adj ELSE Next1(f[k - 1], k)]
           Bad == {m \in Nat : ~P(m)}
<1>1. SUFFICES ASSUME Bad # {} PROVE FALSE
  BY DEF Cut
<1>2. PICK m \in Bad : \A k \in Bad : m <= k
  <2>1. Bad \subseteq Nat
    OBVIOUS
  <2> HIDE DEF Bad
  <2> QED BY <1>1, <2>1, Least
<1> HIDE DEF Next1
<1>3. m # 0
  <2>1. P(0)
    <3> DEFINE f == [k \in 0..0 |-> adj]
    <3>1. f = [k \in 0..0 |-> IF k = 0 THEN adj ELSE Next1(f[k - 1], k)]
      OBVIOUS
    <3> QED BY <3>1
  <2> QED BY <2>1
<1>4. P(m - 1) /\ m \in Nat
  <2>1. m - 1 \in Nat /\ m \in Nat /\ ~(m <= m - 1)
    BY <1>3
  <2>2. m - 1 \notin Bad
    BY <1>2, <2>1
  <2> QED BY <2>1, <2>2
<1>5. PICK f : f = [k \in 0..(m - 1) |-> IF k = 0 THEN adj ELSE Next1(f[k - 1], k)]
  BY <1>4
<1> DEFINE g == [k \in 0..m |-> IF k = m THEN Next1(f[m - 1], m) ELSE f[k]]
<1>6. ASSUME NEW k \in 0..m
      PROVE  g[k] = IF k = 0 THEN adj ELSE Next1(g[k - 1], k)
  <2>1. CASE k = 0
    BY <2>1, <1>3, <1>4, <1>5
  <2>2. CASE k = m
    <3>1. m - 1 \in 0..m /\ m - 1 # m
      BY <1>3, <1>4
    <3>2. g[m - 1] = f[m - 1] /\ g[m] = Next1(f[m - 1], m)
      BY <3>1, <1>4
    <3> QED BY <2>2, <1>3, <3>2
  <2>3. CASE k # 0 /\ k # m
    <3>1. k - 1 \in 0..m /\ k - 1 # m /\ k \in 0..(m - 1)
      BY <2>3, <1>4
    <3>2. g[k - 1] = f[k - 1] /\ g[k] = f[k]
      BY <2>3, <3>1
    <3>3. f[k] = Next1(f[k - 1], k)
      BY <1>5, <2>3, <3>1
    <3> QED BY <2>3, <3>2, <3>3
  <2> QED BY <2>1, <2>2, <2>3
<1>7. g = [k \in 0..m |-> IF k = 0 THEN adj ELSE Next1(g[k - 1], k)]
  <2>1. g = [k \in 0..m |-> g[k]]
    OBVIOUS
  <2> HIDE DEF g
  <2> QED BY <1>6, <2>1
<1>8. P(m)
  <2> HIDE DEF g
  <2> QED BY <1>7
<1> QED BY <1>8

CutAway(adj, gone, rest) ==
    /\ rest \in [Vertex -> Seq(Vertex)]
    /\ \A v \in Vertex : IsInjective(rest[v])
    /\ \A v \in gone : rest[v] = <<>>
    /\ \A v \in Vertex \ gone : Range(rest[v]) = Range(adj[v]) \ gone
    /\ \A v \in Vertex \ gone : Range(adj[v]) \cap gone = {} => rest[v] = adj[v]

LEMMA UnlinkedFacts ==
    ASSUME IsFiniteSet(Vertex), NEW gone, gone \subseteq Vertex,
           NEW adj \in [Vertex -> Seq(Vertex)], \A v \in Vertex : IsInjective(adj[v])
    PROVE  CutAway(adj, gone, Unlinked(adj, gone))
<1> DEFINE order == SetToSeq(gone)
           n == Len(order)
           cut == CHOOSE f : Cut(f, Vertex, adj, n, order)
<1>1. order \in Seq(gone) /\ IsInjective(order) /\ Range(order) = gone
  BY SetToSeqFacts, FS_Subset
<1>2. n \in Nat /\ \A k \in 1..n : order[k] \in gone
  <2> HIDE DEF order
  <2> QED BY <1>1
<1>3. Unlinked(adj, gone) = [v \in Vertex |-> IF v \in gone THEN <<>> ELSE cut[n][v]]
  BY DEF Unlinked, Cut
<1> HIDE DEF order, n
<1>4. Cut(cut, Vertex, adj, n, order)
  BY <1>2, CutExists, Zenon
<1>5. /\ cut[0] = adj
      /\ \A k \in 1..n : \A v \in Vertex : cut[k][v] = SwapRemove(cut[k - 1][v], order[k])
  <2> HIDE DEF cut
  <2>1. cut[0] = adj
    BY <1>2, <1>4 DEF Cut
  <2>2. ASSUME NEW k \in 1..n PROVE \A v \in Vertex : cut[k][v] = SwapRemove(cut[k - 1][v], order[k])
    <3>1. k \in 0..n /\ k # 0
      BY <1>2
    <3>2. cut[k] = [v \in Vertex |-> SwapRemove(cut[k - 1][v], order[k])]
      BY <1>4, <3>1 DEF Cut
    <3> QED BY <3>2
  <2> QED BY <2>1, <2>2
<1> HIDE DEF cut
<1> DEFINE Good(k) ==
      \A v \in Vertex : /\ cut[k][v] \in Seq(Vertex) /\ IsInjective(cut[k][v])
                        /\ Range(cut[k][v]) = Range(adj[v]) \ {order[i] : i \in 1..k}
                        /\ Range(adj[v]) \cap gone = {} => cut[k][v] = adj[v]
<1>6. Good(0)
  BY <1>5
<1>7. ASSUME NEW k \in 1..n, Good(k - 1) PROVE Good(k)
  <2> SUFFICES ASSUME NEW v \in Vertex
               PROVE  /\ cut[k][v] \in Seq(Vertex) /\ IsInjective(cut[k][v])
                      /\ Range(cut[k][v]) = Range(adj[v]) \ {order[i] : i \in 1..k}
                      /\ Range(adj[v]) \cap gone = {} => cut[k][v] = adj[v]
    OBVIOUS
  <2>1. /\ cut[k - 1][v] \in Seq(Vertex) /\ IsInjective(cut[k - 1][v])
        /\ Range(cut[k - 1][v]) = Range(adj[v]) \ {order[i] : i \in 1..(k - 1)}
        /\ Range(adj[v]) \cap gone = {} => cut[k - 1][v] = adj[v]
    BY <1>7
  <2>2. cut[k][v] = SwapRemove(cut[k - 1][v], order[k])
    BY <1>5
  <2>3. /\ cut[k][v] \in Seq(Vertex) /\ IsInjective(cut[k][v])
        /\ Range(cut[k][v]) = Range(cut[k - 1][v]) \ {order[k]}
    BY <2>1, <2>2, SwapRemoveFacts
  <2>4. {order[i] : i \in 1..k} = {order[i] : i \in 1..(k - 1)} \cup {order[k]}
    <3>1. 1..k = 1..(k - 1) \cup {k}
      BY <1>2
    <3> QED BY <3>1
  <2>5. Range(adj[v]) \cap gone = {} => cut[k][v] = adj[v]
    <3>1. Range(adj[v]) \cap gone = {} => order[k] \notin Range(cut[k - 1][v])
      BY <1>2, <2>1
    <3> QED BY <2>1, <2>2, <3>1 DEF SwapRemove
  <2> QED BY <2>1, <2>3, <2>4, <2>5
<1>8. Good(n)
  <2> DEFINE Bad == {k \in 0..n : ~Good(k)}
  <2> HIDE DEF Good
  <2>1. SUFFICES ASSUME Bad # {} PROVE FALSE
    BY <1>2
  <2>2. Bad \subseteq Nat
    BY <1>2
  <2>3. PICK m \in Bad : \A k \in Bad : m <= k
    <3> HIDE DEF Bad
    <3> QED BY <2>1, <2>2, Least
  <2>4. m \in 1..n
    BY <1>2, <1>6, <2>3
  <2>5. m - 1 \in 0..n /\ m - 1 \notin Bad
    BY <1>2, <2>3, <2>4
  <2> QED BY <1>7, <2>3, <2>4, <2>5
<1>9. {order[i] : i \in 1..n} = gone
  <2>1. DOMAIN order = 1..n
    BY <1>1 DEF n
  <2> QED BY <1>1, <2>1 DEF Range
<1>10. \A v \in Vertex : /\ cut[n][v] \in Seq(Vertex) /\ IsInjective(cut[n][v])
                         /\ Range(cut[n][v]) = Range(adj[v]) \ gone
                         /\ Range(adj[v]) \cap gone = {} => cut[n][v] = adj[v]
  BY <1>8, <1>9
<1>11. <<>> \in Seq(Vertex) /\ IsInjective(<<>>)
  BY DEF IsInjective
<1> HIDE DEF Good
<1>12. Unlinked(adj, gone) \in [Vertex -> Seq(Vertex)]
  BY <1>3, <1>10, <1>11
<1> QED BY <1>3, <1>10, <1>11, <1>12 DEF CutAway

-----------------------------------------------------------------------------
(* The graph.                                                              *)

(* What the assumption on the netlists says of one without instances.      *)
LEMMA FlatFacts ==
    ASSUME Flat, net \in Nets
    PROVE  /\ IsFiniteSet(Vertex) /\ Vertex \subseteq Nat
           /\ \A v \in Vertex : Kind[v] \notin {"buffer", "subGraph"} /\ Buffers[v] = <<>>
           /\ Buffers \in [Vertex -> Seq(Vertex)]
           /\ \A e \in net.wires : /\ e[1] \in Vertex /\ e[2] \in Vertex
                                   /\ Kind[e[1]] # "output"
                                   /\ Kind[e[2]] \notin {"input", "constant"}
<1>1. /\ IsFiniteSet(Vertex) /\ Vertex \subseteq Nat
      /\ net.wires \subseteq Vertex \X Vertex
      /\ \A e \in net.wires : Kind[e[1]] # "output" /\ Kind[e[2]] \notin {"input", "constant"}
      /\ Buffers \in [Vertex -> Seq(Vertex)]
      /\ \A v \in Vertex : Buffers[v] # <<>> => Kind[v] = "subGraph"
      /\ \A b \in Vertex : Kind[b] = "buffer" => \E v \in Vertex : b \in Range(Buffers[v])
  BY LevelCacheAssumption DEF Vertex, Kind, Buffers
<1>2. \A v \in Vertex : Kind[v] # "subGraph" /\ Buffers[v] = <<>>
  BY <1>1 DEF Flat
<1>3. \A b \in Vertex : Kind[b] # "buffer"
  <2>1. \A v \in Vertex : Range(Buffers[v]) = {}
    BY <1>2 DEF Range
  <2> QED BY <1>1, <2>1
<1>4. \A e \in net.wires : e[1] \in Vertex /\ e[2] \in Vertex
  BY <1>1
<1> QED BY <1>1, <1>2, <1>3, <1>4

(* The fan-in is the least set of vertices that holds the outputs and the  *)
(* drivers of what it holds.                                               *)
LEMMA FanInFacts ==
    ASSUME TypeOK, Paired
    PROVE  /\ FanIn \subseteq standing
           /\ Outputs \subseteq FanIn
           /\ \A v \in FanIn : Range(ins[v]) \subseteq FanIn
           /\ \A S \in SUBSET standing :
                Outputs \subseteq S /\ (\A v \in S : Range(ins[v]) \subseteq S) => FanIn \subseteq S
<1> DEFINE Closed(S) == Outputs \subseteq S /\ \A w \in S : Range(ins[w]) \subseteq S
<1>1. FanIn = {v \in standing : \A S \in SUBSET standing : Closed(S) => v \in S}
  BY DEF FanIn
<1>2. Outputs \subseteq standing
  BY DEF Outputs, Of
<1>3. ASSUME NEW v \in FanIn, NEW u \in Range(ins[v]) PROVE u \in FanIn
  <2>1. v \in Vertex /\ ins[v] \in Seq(Vertex)
    BY <1>1 DEF TypeOK
  <2>2. u \in Vertex
    BY <2>1, RangeInside
  <2>3. u \in standing
    BY <2>1, <2>2 DEF Paired
  <2> QED BY <1>1, <2>3
<1> QED BY <1>1, <1>2, <1>3

-----------------------------------------------------------------------------
(* Depth.                                                                  *)

LEMMA ImageFinite ==
    ASSUME NEW R, IsFiniteSet(R), NEW f
    PROVE  IsFiniteSet({f[u] : u \in R})
<1> DEFINE I == {f[u] : u \in R}
           g == [u \in R |-> f[u]]
<1>1. g \in Surjection(R, I)
  BY DEF Surjection
<1>2. IsFiniteSet(I)
  <2> HIDE DEF g, I
  <2> QED BY <1>1, FS_Surjection
<1> QED BY <1>2

DepthRule(f, v) == IF ins[v] = <<>> THEN 0 ELSE 1 + Highest({f[u] : u \in Range(ins[v])})

LEMMA DepthRuleFacts ==
    ASSUME TypeOK, Paired, NEW v \in Vertex, NEW f, \A u \in Range(ins[v]) : f[u] \in Nat
    PROVE  /\ DepthRule(f, v) \in Nat
           /\ \A u \in Range(ins[v]) : f[u] < DepthRule(f, v)
           /\ ins[v] # <<>> => \E u \in Range(ins[v]) : DepthRule(f, v) = f[u] + 1
<1> DEFINE R == Range(ins[v])
           I == {f[u] : u \in R}
<1>1. ins[v] \in Seq(Vertex) /\ IsInjective(ins[v])
  BY DEF TypeOK, Paired
<1>2. IsFiniteSet(R) /\ (R = {} <=> ins[v] = <<>>)
  BY <1>1, RangeCardinality, EmptyRange
<1>3. I \subseteq Nat /\ IsFiniteSet(I)
  <2>1. I \subseteq Nat
    OBVIOUS
  <2>2. IsFiniteSet(I)
    <3> HIDE DEF R
    <3> QED BY <1>2, ImageFinite
  <2> QED BY <2>1, <2>2
<1>4. /\ Highest(I) \in Nat
      /\ \A m \in I : m <= Highest(I)
      /\ I # {} => Highest(I) \in I
  <2> HIDE DEF I
  <2> QED BY <1>3, HighestFacts
<1> DEFINE h == Highest(I)
<1>5. /\ h \in Nat
      /\ \A u \in R : f[u] <= h
      /\ R # {} => \E u \in R : h = f[u]
  <2> HIDE DEF h
  <2> QED BY <1>4 DEF h
<1>6. DepthRule(f, v) = IF ins[v] = <<>> THEN 0 ELSE 1 + h
  BY DEF DepthRule
<1>7. \A u \in R : f[u] \in Nat
  OBVIOUS
<1> HIDE DEF h, R
<1>8. /\ DepthRule(f, v) \in Nat
      /\ \A u \in R : f[u] < DepthRule(f, v)
      /\ ins[v] # <<>> => \E u \in R : DepthRule(f, v) = f[u] + 1
  BY <1>2, <1>5, <1>6, <1>7
<1> QED BY <1>8 DEF R

\* What is solved so far: every vertex of G has its depth, and so have its
\* drivers.
Solved(G) ==
    /\ \A v \in G : Range(ins[v]) \subseteq G
    /\ \E f \in [Vertex -> Nat] : \A v \in G : f[v] = DepthRule(f, v)

LEMMA SolvedGrows ==
    ASSUME TypeOK, Paired, Acyclic, NEW G \in SUBSET Vertex, G # Vertex, Solved(G)
    PROVE  \E v \in Vertex \ G : Solved(G \cup {v})
<1>1. PICK v \in Vertex \ G : Range(ins[v]) \subseteq G
  <2>1. \A w \in Vertex : Range(ins[w]) \subseteq Vertex
    BY RangeInside DEF TypeOK
  <2>2. CASE Vertex \ G \subseteq standing
    <3>1. Vertex \ G \in (SUBSET standing) \ {{}}
      BY <2>2
    <3>2. PICK w \in Vertex \ G : Range(ins[w]) \cap (Vertex \ G) = {}
      BY <3>1 DEF Acyclic
    <3> QED BY <2>1, <3>2
  <2>3. CASE ~(Vertex \ G \subseteq standing)
    <3>1. PICK w \in Vertex \ G : w \notin standing
      BY <2>3
    <3>2. Range(ins[w]) = {}
      BY <2>1, <3>1 DEF Paired
    <3> QED BY <3>2
  <2> QED BY <2>2, <2>3
<1>2. PICK f \in [Vertex -> Nat] : \A w \in G : f[w] = DepthRule(f, w)
  BY DEF Solved
<1> DEFINE g == [f EXCEPT ![v] = DepthRule(f, v)]
<1>3. DepthRule(f, v) \in Nat
  BY <1>1, DepthRuleFacts
<1>4. g \in [Vertex -> Nat] /\ g[v] = DepthRule(f, v) /\ \A w \in G : g[w] = f[w]
  BY <1>1, <1>3
<1> HIDE DEF g
<1>5. ASSUME NEW w \in G \cup {v} PROVE DepthRule(g, w) = DepthRule(f, w)
  <2>1. Range(ins[w]) \subseteq G
    BY <1>1 DEF Solved
  <2>2. {g[u] : u \in Range(ins[w])} = {f[u] : u \in Range(ins[w])}
    BY <1>4, <2>1
  <2> QED BY <2>2 DEF DepthRule
<1>6. \A w \in G \cup {v} : g[w] = DepthRule(g, w)
  BY <1>2, <1>4, <1>5
<1>7. \A w \in G \cup {v} : Range(ins[w]) \subseteq G \cup {v}
  BY <1>1 DEF Solved
<1>8. Solved(G \cup {v})
  BY <1>4, <1>6, <1>7 DEF Solved
<1> QED BY <1>1, <1>8

LEMMA AllSolved ==
    ASSUME TypeOK, Paired, Acyclic, IsFiniteSet(Vertex)
    PROVE  Solved(Vertex)
<1> DEFINE Parts == {G \in SUBSET Vertex : Solved(G)}
           T == {Cardinality(Vertex \ G) : G \in Parts}
<1>1. {} \in Parts
  <2>1. [v \in Vertex |-> 0] \in [Vertex -> Nat]
    OBVIOUS
  <2>2. Solved({})
    BY <2>1 DEF Solved
  <2> QED BY <2>2
<1>2. \A G \in SUBSET Vertex : IsFiniteSet(Vertex \ G) /\ Cardinality(Vertex \ G) \in Nat
  <2>1. \A G \in SUBSET Vertex : Vertex \ G \in SUBSET Vertex
    OBVIOUS
  <2> QED BY <2>1, FS_Subset, FS_CardinalityType
<1>3. PICK G \in Parts : \A H \in Parts : Cardinality(Vertex \ G) <= Cardinality(Vertex \ H)
  <2>1. T \subseteq Nat /\ T # {}
    BY <1>1, <1>2
  <2> HIDE DEF T
  <2>2. PICK n \in T : \A m \in T : n <= m
    BY <2>1, Least
  <2> QED BY <2>2 DEF T
<1>4. SUFFICES ASSUME G # Vertex PROVE FALSE
  BY <1>3
<1>5. PICK v \in Vertex \ G : Solved(G \cup {v})
  BY <1>4, SolvedGrows
<1> DEFINE H == G \cup {v}
           rest == Vertex \ G
           m == Cardinality(rest)
           n == Cardinality(Vertex \ H)
<1>6. H \in Parts
  BY <1>5
<1>7. Vertex \ H = rest \ {v} /\ v \in rest /\ IsFiniteSet(rest) /\ m \in Nat
  BY <1>2
<1>8. n = m - 1
  <2> HIDE DEF rest, H
  <2> QED BY <1>7, FS_RemoveElement
<1>9. m <= n
  <2> HIDE DEF H, Parts
  <2> QED BY <1>3, <1>6
<1>10. m \in Nat
  BY <1>7
<1> HIDE DEF m, n
<1> QED BY <1>8, <1>9, <1>10

(* In a graph without cycles Depth is a distance from the inputs.          *)
LEMMA DepthFacts ==
    ASSUME TypeOK, Paired, Acyclic, IsFiniteSet(Vertex)
    PROVE  Depth \in [Vertex -> Nat] /\ Distance(Depth)
<1> DEFINE Rule(f) == [v \in Vertex |-> DepthRule(f, v)]
<1>1. PICK f \in [Vertex -> Nat] : \A v \in Vertex : f[v] = DepthRule(f, v)
  BY AllSolved DEF Solved
<1>2. f = Rule(f)
  BY <1>1
<1>3. Depth = CHOOSE g : g = Rule(g)
  BY DEF Depth, DepthRule
<1>4. Depth = Rule(Depth)
  <2> HIDE DEF Rule
  <2> QED BY <1>2, <1>3
<1>5. DOMAIN Depth = Vertex /\ \A v \in Vertex : Depth[v] = DepthRule(Depth, v)
  BY <1>4
<1>6. Depth = [v \in Vertex |-> Depth[v]]
  BY <1>4
<1> HIDE DEF Rule
<1> DEFINE S == {v \in Vertex : Depth[v] \notin Nat}
<1>7. S = {}
  <2>1. SUFFICES ASSUME S # {} PROVE FALSE
    OBVIOUS
  <2>2. S \subseteq standing
    <3> SUFFICES ASSUME NEW v \in Vertex, v \notin standing PROVE Depth[v] \in Nat
      OBVIOUS
    <3>1. Range(ins[v]) \subseteq Vertex
      BY RangeInside DEF TypeOK
    <3>2. Range(ins[v]) = {}
      BY <3>1 DEF Paired
    <3> QED BY <1>5, <3>2, DepthRuleFacts
  <2>3. PICK v \in S : Range(ins[v]) \cap S = {}
    BY <2>1, <2>2 DEF Acyclic
  <2>4. v \in Vertex /\ Range(ins[v]) \subseteq Vertex
    BY RangeInside DEF TypeOK
  <2>5. \A u \in Range(ins[v]) : Depth[u] \in Nat
    BY <2>3, <2>4
  <2>6. DepthRule(Depth, v) \in Nat
    BY <2>4, <2>5, DepthRuleFacts
  <2> QED BY <1>5, <2>4, <2>6
<1>8. \A v \in Vertex : Depth[v] \in Nat
  BY <1>7
<1>9. Depth \in [Vertex -> Nat]
  <2> DEFINE D == Depth
  <2>1. D = [v \in Vertex |-> D[v]] /\ \A v \in Vertex : D[v] \in Nat
    BY <1>6, <1>8
  <2> HIDE DEF D
  <2>2. D \in [Vertex -> Nat]
    BY <2>1
  <2> QED BY <2>2 DEF D
<1>10. ASSUME NEW v \in FanIn
       PROVE  /\ ins[v] = <<>> => Depth[v] = 0
              /\ ins[v] # <<>> => \E u \in Range(ins[v]) : Depth[v] = Depth[u] + 1
              /\ \A u \in Range(ins[v]) : Depth[u] < Depth[v]
  <2>1. v \in Vertex /\ Range(ins[v]) \subseteq Vertex
    BY FanInFacts, RangeInside DEF TypeOK
  <2>2. \A u \in Range(ins[v]) : Depth[u] \in Nat
    BY <1>8, <2>1
  <2>3. Depth[v] = DepthRule(Depth, v)
    BY <1>5, <2>1
  <2>4. ins[v] = <<>> => DepthRule(Depth, v) = 0
    BY DEF DepthRule
  <2> QED BY <2>1, <2>2, <2>3, <2>4, DepthRuleFacts
<1> QED BY <1>9, <1>10 DEF Distance

-----------------------------------------------------------------------------
(* The steps that leave the graph as it is, or forget the levels.          *)

LEMMA SameGraph ==
    ASSUME TypeOK, Paired, UNCHANGED graph
    PROVE  /\ Vertex' = Vertex /\ Kind' = Kind
           /\ Outputs' = Outputs /\ Inner' = Inner /\ FanIn' = FanIn
           /\ Driven' <=> Driven
           /\ \A d : Distance(d)' <=> Distance(d)
           /\ Paired'
           /\ standing' \subseteq Vertex /\ ins' \in [Vertex -> Seq(Vertex)]
           /\ outs' \in [Vertex -> Seq(Vertex)] /\ net' \in Nets
<1>1. net' = net /\ standing' = standing /\ ins' = ins /\ outs' = outs
  BY DEF graph
<1>2. Vertex' = Vertex /\ Kind' = Kind
  BY <1>1 DEF Vertex, Kind
<1>3. Outputs' = Outputs /\ Inner' = Inner
  BY <1>1, <1>2 DEF Outputs, Inner, Of
<1>4. FanIn' = FanIn
  BY <1>1, <1>3 DEF FanIn
<1>5. Driven' <=> Driven
  BY <1>1, <1>2, <1>4 DEF Driven
<1>6. \A d : Distance(d)' <=> Distance(d)
  BY <1>1, <1>4 DEF Distance
<1>7. Paired'
  BY <1>1, <1>2 DEF Paired
<1> QED BY <1>1, <1>2, <1>3, <1>4, <1>5, <1>6, <1>7 DEF TypeOK

\* Nothing is cached: every level is as it was made.
Blank == calc = {} /\ \A v \in Vertex : level[v] = 0

LEMMA BlankIsClean ==
    Blank /\ standing \subseteq Vertex /\ phase = "idle" /\ answer.call # "byLevel" => Clean
<1> SUFFICES ASSUME Blank, standing \subseteq Vertex, phase = "idle", answer.call # "byLevel"
             PROVE  Clean
  OBVIOUS
<1>1. FanIn \subseteq Vertex
  BY DEF FanIn
<1>2. Flagged /\ Walking /\ Searching
  BY DEF Blank, Flagged, Walking, Searching, Settled
<1>3. \A d \in [Vertex -> Nat] : Measured(d) /\ Answered(d)
  BY <1>1 DEF Blank, Measured, Answered, Settled
<1> QED BY <1>2, <1>3 DEF Clean

LEMMA InitLevelInv ==
    ASSUME Init, Flat
    PROVE  TypeOK /\ Paired /\ Phases /\ Clean
<1>1. net \in Nets
  BY DEF Init
<1>2. /\ IsFiniteSet(Vertex) /\ Vertex \subseteq Nat
      /\ \A v \in Vertex : Buffers[v] = <<>>
      /\ Buffers \in [Vertex -> Seq(Vertex)]
  BY <1>1, FlatFacts
<1>3. SetToSeq({}) = <<>>
  <2> DEFINE e == SetToSeq({})
  <2>1. e \in Seq({}) /\ Range(e) = {}
    BY FS_EmptySet, SetToSeqFacts
  <2>2. e = <<>>
    <3> HIDE DEF e
    <3> QED BY <2>1, EmptyRange
  <2> QED BY <2>2
<1>4. \A v \in Vertex : ins[v] = <<>> /\ outs[v] = <<>>
  <2>1. Owners = {}
    BY <1>2 DEF Owners
  <2>2. \A v \in Vertex : {u \in Owners : v \in Range(Buffers[u])} = {}
    BY <2>1
  <2>3. \A v \in Vertex : ins[v] = SetToSeq({u \in Owners : v \in Range(Buffers[u])})
    BY DEF Init
  <2>4. \A v \in Vertex : ins[v] = SetToSeq({})
    BY <2>2, <2>3
  <2> QED BY <1>2, <1>3, <2>4 DEF Init
<1>5. TypeOK
  <2>1. ins \in [Vertex -> Seq(Vertex)]
    <3>1. ins = [v \in Vertex |-> ins[v]] /\ <<>> \in Seq(Vertex)
      BY DEF Init
    <3> QED BY <1>4, <3>1
  <2>2. stack \in Seq(Frame)
    BY DEF Init
  <2>3. outs \in [Vertex -> Seq(Vertex)] /\ level \in [Vertex -> Nat]
    BY <1>2 DEF Init
  <2> QED BY <2>1, <2>2, <2>3 DEF Init, TypeOK
<1>6. Paired
  BY <1>4 DEF Paired, Range, IsInjective
<1>7. Phases
  BY DEF Init, Phases
<1>8. Clean
  <2>1. Blank
    BY DEF Init, Blank
  <2>2. answer.call # "byLevel"
    BY DEF Init, NoAnswer
  <2> QED BY <2>1, <2>2, BlankIsClean DEF Init
<1> QED BY <1>5, <1>6, <1>7, <1>8

\* An edit that leaves no doubt is one made before any level was cached.
LEMMA EditedFacts ==
    ASSUME TypeOK, Edited, net' = net, UNCHANGED cache, standing' \subseteq Vertex,
           phase' = "idle", answer' = NoAnswer
    PROVE  trust' \in {"clean", "reset", "stale"} /\ Clean'
<1>1. trust' \in {"clean", "reset", "stale"}
  BY DEF Edited
<1>2. Vertex' = Vertex /\ level' = level /\ calc' = calc
  BY DEF Vertex, cache
<1>3. ASSUME trust' = "clean" PROVE Clean'
  <2>1. Blank
    BY <1>3 DEF Edited, Blank
  <2>2. Blank'
    BY <2>1, <1>2 DEF Blank
  <2>3. (Blank /\ standing \subseteq Vertex /\ phase = "idle" /\ answer.call # "byLevel")'
    BY <1>2, <2>2 DEF NoAnswer
  <2> QED BY <2>3, BlankIsClean, PTL
<1>4. trust' # "clean" => Clean'
  BY DEF Clean
<1> QED BY <1>1, <1>3, <1>4

LEMMA AddEdgeStep ==
    ASSUME Flat, TypeOK, Paired, Phases, Clean, NEW u \in standing, NEW v \in standing,
           NEW e \in net.wires, u = e[1], v = e[2], AddEdge(u, v)
    PROVE  TypeOK' /\ Paired' /\ Phases' /\ Clean'
<1>1. /\ phase = "idle" /\ ~purging /\ v \notin Range(outs[u])
      /\ outs' = [outs EXCEPT ![u] = Append(@, v)]
      /\ ins' = [ins EXCEPT ![v] = Append(@, u)]
      /\ net' = net /\ standing' = standing /\ UNCHANGED cache /\ purging' = purging
      /\ phase' = phase /\ roots' = roots /\ stack' = stack /\ wanted' = wanted /\ found' = found
      /\ answer' = NoAnswer /\ Edited
  BY DEF AddEdge, Idle, walk
<1>2. u \in Vertex /\ v \in Vertex
  BY DEF TypeOK
<1>3. Kind[u] # "output" /\ Kind[v] \notin {"input", "constant"}
  <2>1. net \in Nets
    BY DEF TypeOK
  <2>2. Kind[e[1]] # "output" /\ Kind[e[2]] \notin {"input", "constant"}
    BY <2>1, FlatFacts
  <2> QED BY <2>2
<1>4. Vertex' = Vertex /\ Kind' = Kind
  BY <1>1 DEF Vertex, Kind
<1>5. /\ ins[v] \in Seq(Vertex) /\ outs[u] \in Seq(Vertex)
      /\ IsInjective(ins[v]) /\ IsInjective(outs[u])
      /\ u \notin Range(ins[v])
  BY <1>1, <1>2 DEF TypeOK, Paired
<1>6. /\ Append(ins[v], u) \in Seq(Vertex) /\ Append(outs[u], v) \in Seq(Vertex)
      /\ Range(Append(ins[v], u)) = Range(ins[v]) \cup {u}
      /\ Range(Append(outs[u], v)) = Range(outs[u]) \cup {v}
      /\ IsInjective(Append(ins[v], u)) /\ IsInjective(Append(outs[u], v))
  BY <1>1, <1>2, <1>5, AppendFacts
<1>7. /\ ins' \in [Vertex -> Seq(Vertex)] /\ outs' \in [Vertex -> Seq(Vertex)]
      /\ \A w \in Vertex : ins'[w] = IF w = v THEN Append(ins[v], u) ELSE ins[w]
      /\ \A w \in Vertex : outs'[w] = IF w = u THEN Append(outs[u], v) ELSE outs[w]
  BY <1>1, <1>2, <1>6 DEF TypeOK
<1>8. TypeOK' /\ Clean'
  <2>1. trust' \in {"clean", "reset", "stale"} /\ Clean'
    <3>1. standing' \subseteq Vertex
      BY <1>1 DEF TypeOK
    <3> QED BY <1>1, <3>1, EditedFacts
  <2> QED BY <1>1, <1>4, <1>7, <2>1 DEF TypeOK, Frame, cache
<1>9. Paired'
  <2>1. \A w \in Vertex : IsInjective(ins'[w]) /\ IsInjective(outs'[w])
    BY <1>6, <1>7 DEF Paired
  <2>2. \A x, w \in Vertex : x \in Range(ins'[w]) <=> x \in Range(ins[w]) \/ (x = u /\ w = v)
    BY <1>6, <1>7
  <2>3. \A x, w \in Vertex : w \in Range(outs'[x]) <=> w \in Range(outs[x]) \/ (x = u /\ w = v)
    BY <1>6, <1>7
  <2> QED BY <1>1, <1>3, <1>4, <2>1, <2>2, <2>3 DEF Paired
<1>10. Phases'
  BY <1>1 DEF Phases, cache
<1> QED BY <1>8, <1>9, <1>10

LEMMA RemoveEdgeStep ==
    ASSUME Flat, TypeOK, Paired, Phases, Clean, NEW u \in standing, NEW v \in standing,
           RemoveEdge(u, v)
    PROVE  TypeOK' /\ Paired' /\ Phases' /\ Clean'
<1>1. /\ phase = "idle" /\ ~purging
      /\ outs' = [outs EXCEPT ![u] = SwapRemove(@, v)]
      /\ ins' = [ins EXCEPT ![v] = SwapRemove(@, u)]
      /\ net' = net /\ standing' = standing /\ UNCHANGED cache /\ purging' = purging
      /\ phase' = phase /\ roots' = roots /\ stack' = stack /\ wanted' = wanted /\ found' = found
      /\ answer' = NoAnswer /\ Edited
  BY DEF RemoveEdge, Idle, walk
<1>2. u \in Vertex /\ v \in Vertex
  BY DEF TypeOK
<1>4. Vertex' = Vertex /\ Kind' = Kind
  BY <1>1 DEF Vertex, Kind
<1>5. /\ ins[v] \in Seq(Vertex) /\ outs[u] \in Seq(Vertex)
      /\ IsInjective(ins[v]) /\ IsInjective(outs[u])
  BY <1>1, <1>2 DEF TypeOK, Paired
<1>6. /\ SwapRemove(ins[v], u) \in Seq(Vertex) /\ SwapRemove(outs[u], v) \in Seq(Vertex)
      /\ Range(SwapRemove(ins[v], u)) = Range(ins[v]) \ {u}
      /\ Range(SwapRemove(outs[u], v)) = Range(outs[u]) \ {v}
      /\ IsInjective(SwapRemove(ins[v], u)) /\ IsInjective(SwapRemove(outs[u], v))
  BY <1>5, SwapRemoveFacts
<1>7. /\ ins' \in [Vertex -> Seq(Vertex)] /\ outs' \in [Vertex -> Seq(Vertex)]
      /\ \A w \in Vertex : ins'[w] = IF w = v THEN SwapRemove(ins[v], u) ELSE ins[w]
      /\ \A w \in Vertex : outs'[w] = IF w = u THEN SwapRemove(outs[u], v) ELSE outs[w]
  BY <1>1, <1>2, <1>6 DEF TypeOK
<1>8. TypeOK' /\ Clean'
  <2>1. trust' \in {"clean", "reset", "stale"} /\ Clean'
    <3>1. standing' \subseteq Vertex
      BY <1>1 DEF TypeOK
    <3> QED BY <1>1, <3>1, EditedFacts
  <2> QED BY <1>1, <1>4, <1>7, <2>1 DEF TypeOK, Frame, cache
<1>9. Paired'
  <2>1. \A w \in Vertex : IsInjective(ins'[w]) /\ IsInjective(outs'[w])
    BY <1>6, <1>7 DEF Paired
  <2>2. \A x, w \in Vertex : x \in Range(ins'[w]) <=> x \in Range(ins[w]) /\ ~(x = u /\ w = v)
    BY <1>6, <1>7
  <2>3. \A x, w \in Vertex : w \in Range(outs'[x]) <=> w \in Range(outs[x]) /\ ~(x = u /\ w = v)
    BY <1>6, <1>7
  <2> QED BY <1>1, <1>4, <2>1, <2>2, <2>3 DEF Paired
<1>10. Phases'
  BY <1>1 DEF Phases, cache
<1> QED BY <1>8, <1>9, <1>10

\* No vertex is a buffer: all have their flags cleared.
LEMMA FlatBucketed ==
    ASSUME Flat, TypeOK
    PROVE  Bucketed = standing
<1>1. \A v \in Vertex : Kind[v] # "buffer"
  BY FlatFacts DEF TypeOK
<1> QED BY <1>1 DEF Bucketed, TypeOK

LEMMA ClearStep ==
    ASSUME Flat, TypeOK, Paired, Phases, Clean, ClearNeedUpdateStates
    PROVE  TypeOK' /\ Paired' /\ Phases' /\ Clean'
<1>1. /\ phase = "idle" /\ ~purging /\ UNCHANGED graph
      /\ calc' = calc \ standing /\ used' = used \ standing
      /\ answer' = NoAnswer /\ level' = level /\ purging' = purging
      /\ trust' = IF trust = "clean" THEN "clean" ELSE "reset"
      /\ phase' = phase /\ roots' = roots /\ stack' = stack /\ wanted' = wanted /\ found' = found
  BY FlatBucketed DEF ClearNeedUpdateStates, Idle, walk
<1>2. /\ Vertex' = Vertex /\ Kind' = Kind /\ FanIn' = FanIn /\ Paired'
      /\ \A d : Distance(d)' <=> Distance(d)
      /\ standing' \subseteq Vertex /\ ins' \in [Vertex -> Seq(Vertex)]
      /\ outs' \in [Vertex -> Seq(Vertex)] /\ net' \in Nets
  BY <1>1, SameGraph
<1>3. used' = {} /\ standing' = standing
  BY <1>1 DEF TypeOK, graph
<1>4. TypeOK'
  BY <1>1, <1>2, <1>3 DEF TypeOK, Frame
<1>5. Phases'
  BY <1>1, <1>3 DEF Phases
<1>6. ASSUME trust' = "clean" PROVE Clean'
  <2>1. trust = "clean"
    BY <1>1, <1>6
  <2>2. Flagged /\ \A d \in [Vertex -> Nat] : Distance(d) => Measured(d)
    BY <2>1 DEF Clean
  <2>3. calc' = {}
    BY <1>1, <2>2, FanInFacts DEF Flagged
  <2>4. Flagged' /\ Walking' /\ Searching'
    BY <1>1, <1>2, <2>2, <2>3 DEF Flagged, Walking, Searching, Settled
  <2>5. ASSUME NEW d \in [Vertex -> Nat], Distance(d)' PROVE Measured(d)' /\ Answered(d)'
    <3>1. \A v \in FanIn : level[v] <= d[v]
      BY <1>2, <2>2, <2>5 DEF Measured
    <3>2. Measured(d)'
      BY <1>1, <1>2, <2>3, <3>1 DEF Measured, Settled
    <3> QED BY <1>1, <3>2 DEF Answered, NoAnswer
  <2> QED BY <1>2, <2>4, <2>5 DEF Clean
<1>7. trust' # "clean" => Clean'
  BY DEF Clean
<1> QED BY <1>2, <1>4, <1>5, <1>6, <1>7

-----------------------------------------------------------------------------
(* updateLevels.                                                           *)

LEMMA UpdateLevelsBeginStep ==
    ASSUME Flat, TypeOK, Paired, Phases, Clean, UpdateLevelsBegin
    PROVE  TypeOK' /\ Paired' /\ Phases' /\ Clean'
<1>1. /\ phase = "idle" /\ UNCHANGED graph /\ phase' = "levels" /\ roots' = Outputs
      /\ calc' = calc /\ used' = used /\ answer' = answer /\ level' = level /\ purging' = purging
      /\ trust' = trust /\ stack' = stack /\ wanted' = wanted /\ found' = found
  BY DEF UpdateLevelsBegin, cache
<1>2. /\ Vertex' = Vertex /\ Kind' = Kind /\ FanIn' = FanIn /\ Paired'
      /\ Outputs' = Outputs /\ Inner' = Inner /\ (Driven' <=> Driven)
      /\ \A d : Distance(d)' <=> Distance(d)
      /\ standing' \subseteq Vertex /\ ins' \in [Vertex -> Seq(Vertex)]
      /\ outs' \in [Vertex -> Seq(Vertex)] /\ net' \in Nets
  BY <1>1, SameGraph
<1>3. ins' = ins /\ standing' = standing /\ Outputs \subseteq standing /\ stack = <<>>
  BY <1>1 DEF graph, Outputs, Of, Phases
<1>4. TypeOK'
  BY <1>1, <1>2, <1>3 DEF TypeOK, Frame
<1>5. Phases'
  BY <1>1, <1>2, <1>3 DEF Phases
<1>6. InProgress' = InProgress /\ Settled' = Settled
  BY <1>1, <1>3 DEF InProgress, Settled
<1>7. ASSUME trust' = "clean" PROVE Clean'
  <2>1. Flagged /\ \A d \in [Vertex -> Nat] : Distance(d) => Measured(d) /\ Answered(d)
    BY <1>1, <1>7 DEF Clean
  <2>2. Flagged' /\ Walking' /\ Searching'
    BY <1>1, <1>2, <1>3, <1>6, <2>1 DEF Flagged, Walking, Searching
  <2>3. ASSUME NEW d \in [Vertex -> Nat], Distance(d)' PROVE Measured(d)' /\ Answered(d)'
    <3>1. Measured(d) /\ Answered(d)
      BY <1>2, <2>1, <2>3
    <3> QED BY <1>1, <1>2, <1>3, <1>6, <3>1 DEF Measured, Answered
  <2> QED BY <1>2, <2>2, <2>3 DEF Clean
<1>8. trust' # "clean" => Clean'
  BY DEF Clean
<1> QED BY <1>2, <1>4, <1>5, <1>7, <1>8

\* What one call of updateLevel does where there are no instances.
LEMMA UpdateLevelFacts ==
    ASSUME Flat, TypeOK, NEW v \in Vertex, v \notin calc, UpdateLevel(v)
    PROVE  /\ calc' = calc \cup {v}
           /\ level' \in [Vertex -> Nat]
           /\ \A w \in Vertex : level'[w] = IF w = v /\ Kind[v] = "input" THEN 0 ELSE level[w]
           /\ stack' = IF Kind[v] = "input" THEN stack ELSE Pushed(stack, v)
<1>1. Kind[v] # "subGraph"
  BY DEF Flat
<1>2. CASE Kind[v] = "input"
  <2>1. calc' = calc \cup {v} /\ level' = [level EXCEPT ![v] = 0] /\ stack' = stack
    BY <1>2 DEF UpdateLevel
  <2>2. level \in [Vertex -> Nat]
    BY DEF TypeOK
  <2> QED BY <1>2, <2>1, <2>2
<1>3. CASE Kind[v] # "input"
  BY <1>1, <1>3 DEF UpdateLevel, TypeOK
<1> QED BY <1>2, <1>3

LEMMA UpdateOutputStep ==
    ASSUME Flat, TypeOK, Paired, Phases, Clean, UpdateOutput
    PROVE  TypeOK' /\ Paired' /\ Phases' /\ Clean'
<1> DEFINE v == Earliest(roots)
<1>1. /\ phase = "levels" /\ UNCHANGED graph /\ phase' = phase /\ stack = <<>> /\ roots # {}
      /\ roots' = roots \ {v} /\ UpdateLevel(v)
      /\ used' = used /\ answer' = answer /\ purging' = purging
      /\ trust' = trust /\ wanted' = wanted /\ found' = found
  BY DEF UpdateOutput
<1>2. /\ Vertex' = Vertex /\ Kind' = Kind /\ FanIn' = FanIn /\ Paired'
      /\ Outputs' = Outputs /\ Inner' = Inner /\ (Driven' <=> Driven)
      /\ \A d : Distance(d)' <=> Distance(d)
      /\ standing' \subseteq Vertex /\ ins' \in [Vertex -> Seq(Vertex)]
      /\ outs' \in [Vertex -> Seq(Vertex)] /\ net' \in Nets
  BY <1>1, SameGraph
<1>3. v \in roots /\ roots \subseteq Outputs
  <2>1. roots \subseteq Nat /\ roots \subseteq Outputs
    <3>1. Vertex \subseteq Nat
      BY FlatFacts DEF TypeOK
    <3> QED BY <1>1, <3>1 DEF TypeOK, Phases
  <2> QED BY <1>1, <2>1, EarliestFacts
<1> HIDE DEF v
<1>4. v \in Vertex /\ v \in FanIn /\ Kind[v] = "output" /\ ins' = ins /\ standing' = standing
  BY <1>1, <1>3, FanInFacts DEF TypeOK, graph, Outputs, Of
<1>5. /\ calc' = calc \cup {v} /\ level' = level
      /\ v \in calc => stack' = <<>>
      /\ v \notin calc => stack' = <<[at |-> v, next |-> 1]>>
  <2>1. CASE v \in calc
    BY <1>1, <2>1 DEF UpdateLevel
  <2>2. CASE v \notin calc
    BY <1>1, <1>4, <2>2 DEF UpdateLevel, Pushed
  <2> QED BY <2>1, <2>2
<1>6. TypeOK'
  <2>1. stack' \in Seq(Frame)
    <3>1. [at |-> v, next |-> 1] \in Frame /\ <<>> \in Seq(Frame)
      BY <1>4 DEF Frame
    <3> DEFINE f == [at |-> v, next |-> 1]
    <3>2. stack' = <<>> \/ stack' = <<f>>
      BY <1>5
    <3>3. f \in Frame
      BY <3>1
    <3> HIDE DEF f
    <3>4. <<f>> \in Seq(Frame)
      BY <3>3
    <3> QED BY <3>1, <3>2, <3>4
  <2>2. Frame' = Frame
    BY <1>2 DEF Frame
  <2> QED BY <1>1, <1>2, <1>4, <1>5, <2>1, <2>2 DEF TypeOK
<1>7. Phases'
  BY <1>1, <1>2, <1>3, <1>4 DEF Phases
<1>8. Settled = calc /\ Settled' = calc
  BY <1>1, <1>5 DEF InProgress, Settled
<1>9. ASSUME trust' = "clean" PROVE Clean'
  <2>1. /\ Flagged /\ Walking
        /\ \A d \in [Vertex -> Nat] : Distance(d) => Measured(d) /\ Answered(d)
    BY <1>1, <1>9 DEF Clean
  <2>2. Flagged'
    BY <1>2, <1>4, <1>5, <1>8, <2>1 DEF Flagged
  <2>3. Searching'
    BY <1>1 DEF Searching
  <2>4. Walking'
    <3>1. Outputs' \ roots' \subseteq calc'
      BY <1>1, <1>2, <1>5, <2>1 DEF Walking
    <3>2. ASSUME NEW k \in DOMAIN stack'
          PROVE  k = 1 /\ stack'[k].at = v /\ stack'[k].next = 1
      BY <1>5
    <3>3. Len(ins[v]) \in Nat
      BY <1>4 DEF TypeOK
    <3>4. \A k \in DOMAIN stack' :
             /\ stack'[k].at \in calc'
             /\ stack'[k].next <= Len(ins'[stack'[k].at]) + 1
             /\ \A i \in 1..(stack'[k].next - 1) : ins'[stack'[k].at][i] \in calc'
             /\ stack'[k].next > 1 => level'[stack'[k].at] # 0
      BY <1>4, <1>5, <3>2, <3>3
    <3> QED BY <3>1, <3>4 DEF Walking
  <2>5. ASSUME NEW d \in [Vertex -> Nat], Distance(d)' PROVE Measured(d)' /\ Answered(d)'
    <3>1. Measured(d) /\ Answered(d)
      BY <1>2, <2>1, <2>5
    <3>2. \A k \in DOMAIN stack' : k = 1 /\ stack'[k].at = v /\ stack'[k].next = 1
      BY <1>5
    <3>3. Measured(d)'
      BY <1>2, <1>5, <1>8, <3>1, <3>2 DEF Measured
    <3> QED BY <1>1, <1>2, <3>1, <3>3 DEF Answered
  <2> QED BY <1>2, <2>2, <2>3, <2>4, <2>5 DEF Clean
<1>10. trust' # "clean" => Clean'
  BY DEF Clean
<1> QED BY <1>2, <1>6, <1>7, <1>9, <1>10

LEMMA TopFacts ==
    ASSUME TypeOK, stack # <<>>
    PROVE  /\ Len(stack) \in Nat \ {0} /\ DOMAIN stack = 1..Len(stack)
           /\ Top = stack[Len(stack)] /\ Top.at \in Vertex /\ Top.next \in Nat \ {0}
           /\ \A k \in 1..Len(stack) : stack[k].at \in Vertex /\ stack[k].next \in Nat \ {0}
           /\ stack \in Seq(Frame)
<1>1. stack \in Seq(Frame)
  BY DEF TypeOK
<1>2. /\ Len(stack) \in Nat /\ DOMAIN stack = 1..Len(stack)
      /\ stack = <<>> <=> Len(stack) = 0
      /\ \A k \in 1..Len(stack) : stack[k].at \in Vertex /\ stack[k].next \in Nat \ {0}
  BY <1>1, FrameFacts
<1>3. Len(stack) \in 1..Len(stack)
  BY <1>2
<1> QED BY <1>1, <1>2, <1>3 DEF Top

\* The driver looked at is called: it has no flag yet.
LEMMA CallDriverStep ==
    ASSUME Flat, TypeOK, Paired, Phases, Clean, UpdateDriver,
           NEW u, u = ins[Top.at][Top.next], u \notin calc
    PROVE  TypeOK' /\ Paired' /\ Phases' /\ Clean'
<1> DEFINE n == Len(stack)
           v == Top.at
<1>1. /\ phase = "levels" /\ UNCHANGED graph /\ phase' = phase /\ roots' = roots
      /\ stack # <<>> /\ Top.next <= Len(ins[v]) /\ UpdateLevel(u)
      /\ used' = used /\ answer' = answer /\ purging' = purging
      /\ trust' = trust /\ wanted' = wanted /\ found' = found
  BY DEF UpdateDriver
<1>2. /\ Vertex' = Vertex /\ Kind' = Kind /\ FanIn' = FanIn /\ Paired'
      /\ Outputs' = Outputs /\ Inner' = Inner /\ (Driven' <=> Driven)
      /\ \A d : Distance(d)' <=> Distance(d)
      /\ standing' \subseteq Vertex /\ ins' \in [Vertex -> Seq(Vertex)]
      /\ outs' \in [Vertex -> Seq(Vertex)] /\ net' \in Nets /\ ins' = ins /\ standing' = standing
  BY <1>1, SameGraph DEF graph
<1>3. /\ n \in Nat \ {0} /\ DOMAIN stack = 1..n
      /\ v \in Vertex /\ v = stack[n].at /\ Top.next \in Nat \ {0}
      /\ \A k \in 1..n : stack[k].at \in Vertex /\ stack[k].next \in Nat \ {0}
      /\ stack \in Seq(Frame)
  BY <1>1, TopFacts
<1>4. u \in Range(ins[v]) /\ u \in Vertex /\ ins[v] \in Seq(Vertex)
  <2>1. ins[v] \in Seq(Vertex)
    BY <1>3 DEF TypeOK
  <2>2. Top.next \in DOMAIN ins[v]
    BY <1>1, <1>3, <2>1
  <2>3. u \in Range(ins[v])
    BY <2>2 DEF Range
  <2> QED BY <2>1, <2>3, RangeInside
<1>5. /\ calc' = calc \cup {u}
      /\ level' \in [Vertex -> Nat]
      /\ \A w \in Vertex : level'[w] = IF w = u /\ Kind[u] = "input" THEN 0 ELSE level[w]
      /\ stack' = IF Kind[u] = "input" THEN stack ELSE Pushed(stack, u)
  BY <1>1, <1>4, UpdateLevelFacts
<1>6. /\ Pushed(stack, u) \in Seq(Frame)
      /\ Len(Pushed(stack, u)) = n + 1
      /\ \A k \in 1..n : Pushed(stack, u)[k] = stack[k]
      /\ Pushed(stack, u)[n + 1].at = u /\ Pushed(stack, u)[n + 1].next = 1
  BY <1>3, <1>4, PushedFacts
<1>7. TypeOK'
  <2>1. stack' \in Seq(Frame')
    BY <1>2, <1>3, <1>5, <1>6 DEF Frame
  <2> QED BY <1>1, <1>2, <1>4, <1>5, <2>1 DEF TypeOK
<1>8. Phases'
  BY <1>1, <1>2 DEF Phases
<1> DEFINE m == IF Kind[u] = "input" THEN n ELSE n + 1
<1>9. /\ DOMAIN stack' = 1..m
      /\ \A k \in 1..n : stack'[k] = stack[k]
      /\ Kind[u] # "input" => stack'[n + 1].at = u /\ stack'[n + 1].next = 1
  <2>1. CASE Kind[u] = "input"
    BY <1>3, <1>5, <2>1
  <2>2. CASE Kind[u] # "input"
    <3> DEFINE p == Pushed(stack, u)
    <3>1. p \in Seq(Frame) /\ Len(p) = n + 1 /\ stack' = p
      BY <1>5, <1>6, <2>2
    <3>2. DOMAIN p = 1..Len(p)
      <4> HIDE DEF p
      <4> QED BY <3>1, FrameFacts
    <3> QED BY <1>6, <2>2, <3>1, <3>2
  <2> QED BY <2>1, <2>2
<1>10. \A k \in 1..m : k \in 1..n \/ (k = n + 1 /\ Kind[u] # "input")
  BY <1>3
<1>11. Kind[u] = "input" => ins[u] = <<>>
  <2>1. Kind[u] = "input" => Range(ins[u]) = {}
    <3>1. Range(ins[u]) \subseteq Vertex
      BY <1>4, RangeInside DEF TypeOK
    <3> QED BY <1>4, <3>1 DEF Paired
  <2>2. ins[u] \in Seq(Vertex)
    BY <1>4 DEF TypeOK
  <2> QED BY <2>1, <2>2, EmptyRange
<1> HIDE DEF m
<1>12. ASSUME trust' = "clean" PROVE Clean'
  <2>1. /\ Flagged /\ Walking
        /\ \A d \in [Vertex -> Nat] : Distance(d) => Measured(d) /\ Answered(d)
    BY <1>1, <1>12 DEF Clean
  <2>2. v \in calc /\ v \in FanIn /\ u \in FanIn
    <3>1. v \in calc
      BY <1>1, <1>3, <2>1 DEF Walking
    <3> QED BY <1>4, <2>1, <3>1, FanInFacts DEF Flagged
  <2>3. \A k \in 1..n : stack[k].at \in calc /\ stack[k].at # u
    BY <1>1, <1>3, <2>1 DEF Walking
  <2>4. Settled' = IF Kind[u] = "input" THEN Settled \cup {u} ELSE Settled
    <3>1. InProgress = {stack[k].at : k \in 1..n}
      BY <1>1, <1>3 DEF InProgress
    <3>2. InProgress' = {stack'[k].at : k \in 1..m}
      BY <1>1, <1>9 DEF InProgress
    <3>3. CASE Kind[u] = "input"
      <4>1. InProgress' = InProgress
        BY <1>9, <1>10, <3>1, <3>2, <3>3 DEF m
      <4>2. u \notin InProgress
        BY <2>3, <3>1
      <4> QED BY <1>5, <3>3, <4>1, <4>2 DEF Settled
    <3>4. CASE Kind[u] # "input"
      <4>1. 1..m = 1..n \cup {n + 1}
        BY <1>3, <3>4 DEF m
      <4>2. InProgress' = InProgress \cup {u}
        BY <1>9, <3>1, <3>2, <3>4, <4>1
      <4> QED BY <1>5, <3>4, <4>2 DEF Settled
    <3> QED BY <3>3, <3>4
  <2>5. Flagged'
    <3>1. calc' \subseteq FanIn'
      BY <1>2, <1>5, <2>1, <2>2 DEF Flagged
    <3>2. \A w \in Vertex : level'[w] # 0 => w \in FanIn
      BY <1>5, <2>1 DEF Flagged
    <3>3. ASSUME NEW w \in Settled', NEW i \in DOMAIN ins[w] PROVE w \in Settled
      <4>1. w # u \/ Kind[u] # "input"
        BY <1>11, <3>3
      <4> QED BY <2>4, <3>3, <4>1
    <3>4. ASSUME NEW w \in Settled'
          PROVE  Range(ins[w]) \subseteq calc' /\ (ins[w] # <<>> => level'[w] # 0)
      <4>1. CASE w \in Settled
        <5>1. w \in Vertex /\ w # u
          BY <4>1 DEF TypeOK, Settled
        <5> QED BY <1>5, <2>1, <4>1, <5>1 DEF Flagged
      <4>2. CASE w \notin Settled
        <5>1. ins[w] = <<>>
          BY <1>11, <2>4, <3>4, <4>2
        <5> QED BY <5>1 DEF Range
      <4> QED BY <4>1, <4>2
    <3> QED BY <1>2, <3>1, <3>2, <3>4 DEF Flagged
  <2>6. Searching'
    BY <1>1 DEF Searching
  <2>7. Walking'
    <3>1. Outputs' \ roots' \subseteq calc'
      BY <1>1, <1>2, <1>5, <2>1 DEF Walking
    <3>2. ASSUME NEW k \in 1..n
          PROVE  /\ stack'[k].at \in calc'
                 /\ stack'[k].next <= Len(ins'[stack'[k].at]) + 1
                 /\ \A i \in 1..(stack'[k].next - 1) : ins'[stack'[k].at][i] \in calc'
                 /\ stack'[k].next > 1 => level'[stack'[k].at] # 0
      <4>1. /\ stack[k].at \in calc
            /\ stack[k].next <= Len(ins[stack[k].at]) + 1
            /\ \A i \in 1..(stack[k].next - 1) : ins[stack[k].at][i] \in calc
            /\ stack[k].next > 1 => level[stack[k].at] # 0
        BY <1>1, <1>3, <2>1 DEF Walking
      <4>2. level'[stack[k].at] = level[stack[k].at]
        BY <1>3, <1>5, <2>3
      <4> QED BY <1>2, <1>5, <1>9, <4>1, <4>2
    <3>3. ASSUME Kind[u] # "input"
          PROVE  /\ stack'[n + 1].at \in calc'
                 /\ stack'[n + 1].next <= Len(ins'[stack'[n + 1].at]) + 1
                 /\ \A i \in 1..(stack'[n + 1].next - 1) : ins'[stack'[n + 1].at][i] \in calc'
                 /\ stack'[n + 1].next > 1 => level'[stack'[n + 1].at] # 0
      <4>1. Len(ins[u]) \in Nat
        BY <1>4 DEF TypeOK
      <4>2. stack'[n + 1].at = u /\ stack'[n + 1].next = 1
        BY <1>9, <3>3
      <4>3. u \in calc' /\ 1 <= Len(ins'[u]) + 1 /\ 1..(1 - 1) = {}
        BY <1>2, <1>5, <4>1
      <4> HIDE DEF n
      <4> QED BY <4>2, <4>3
    <3>4. \A k \in DOMAIN stack' :
             /\ stack'[k].at \in calc'
             /\ stack'[k].next <= Len(ins'[stack'[k].at]) + 1
             /\ \A i \in 1..(stack'[k].next - 1) : ins'[stack'[k].at][i] \in calc'
             /\ stack'[k].next > 1 => level'[stack'[k].at] # 0
      BY <1>9, <1>10, <3>2, <3>3
    <3> QED BY <3>1, <3>4 DEF Walking
  <2>8. ASSUME NEW d \in [Vertex -> Nat], Distance(d)' PROVE Measured(d)' /\ Answered(d)'
    <3>1. Distance(d) /\ Measured(d) /\ Answered(d)
      BY <1>2, <2>1, <2>8
    <3>2. \A w \in FanIn : level'[w] <= d[w]
      <4>1. FanIn \subseteq Vertex
        BY FanInFacts DEF TypeOK
      <4> QED BY <1>5, <3>1, <4>1 DEF Measured
    <3>3. \A w \in Settled' : level'[w] = d[w]
      <4>1. \A w \in Settled : level'[w] = d[w]
        BY <1>5, <3>1 DEF Measured, Settled, TypeOK
      <4>2. Kind[u] = "input" => level'[u] = d[u]
        BY <1>4, <1>5, <1>11, <2>2, <3>1 DEF Distance
      <4> QED BY <2>4, <4>1, <4>2
    <3>4. ASSUME NEW k \in 1..n
          PROVE  /\ \A j \in 1..(k - 1) : d[stack'[k].at] < d[stack'[j].at]
                 /\ \A i \in 1..(stack'[k].next - 1) : d[ins'[stack'[k].at][i]] < level'[stack'[k].at]
      <4>1. /\ \A j \in 1..(k - 1) : d[stack[k].at] < d[stack[j].at]
            /\ \A i \in 1..(stack[k].next - 1) : d[ins[stack[k].at][i]] < level[stack[k].at]
        BY <1>1, <1>3, <3>1 DEF Measured
      <4>2. level'[stack[k].at] = level[stack[k].at]
        BY <1>3, <1>5, <2>3
      <4>3. \A j \in 1..(k - 1) : j \in 1..n
        BY <1>3
      <4> QED BY <1>2, <1>9, <4>1, <4>2, <4>3
    <3>5. ASSUME Kind[u] # "input", NEW j \in 1..n PROVE d[u] < d[stack[j].at]
      <4>1. d[u] < d[v]
        BY <1>4, <2>2, <3>1 DEF Distance
      <4>2. j = n \/ d[v] < d[stack[j].at]
        <5>1. n \in DOMAIN stack /\ (j = n \/ j \in 1..(n - 1))
          <6> HIDE DEF n, v
          <6> QED BY <1>3
        <5> HIDE DEF n, v
        <5> QED BY <1>1, <1>3, <3>1, <5>1 DEF Measured
      <4>3. d[u] \in Nat /\ d[v] \in Nat /\ d[stack[j].at] \in Nat
        BY <1>3, <1>4
      <4>4. CASE j = n
        BY <1>3, <4>1, <4>4
      <4>5. CASE d[v] < d[stack[j].at]
        <5> HIDE DEF v
        <5> QED BY <4>1, <4>3, <4>5
      <4> QED BY <4>2, <4>4, <4>5
    <3>6. \A k \in DOMAIN stack' :
             /\ \A j \in 1..(k - 1) : d[stack'[k].at] < d[stack'[j].at]
             /\ \A i \in 1..(stack'[k].next - 1) : d[ins'[stack'[k].at][i]] < level'[stack'[k].at]
      <4>1. ASSUME Kind[u] # "input"
            PROVE  /\ \A j \in 1..(n + 1 - 1) : d[stack'[n + 1].at] < d[stack'[j].at]
                   /\ stack'[n + 1].next - 1 = 0
        <5>1. n \in Nat
          BY <1>3
        <5> HIDE DEF n
        <5> QED BY <1>9, <3>5, <4>1, <5>1
      <4> QED BY <1>9, <1>10, <3>4, <4>1
    <3>7. Measured(d)'
      BY <1>2, <3>2, <3>3, <3>6 DEF Measured
    <3> QED BY <1>1, <1>2, <3>1, <3>7 DEF Answered
  <2> QED BY <1>2, <2>5, <2>6, <2>7, <2>8 DEF Clean
<1>13. trust' # "clean" => Clean'
  BY DEF Clean
<1> QED BY <1>2, <1>7, <1>8, <1>12, <1>13

\* The driver looked at has its flag: its level counts as it stands.
LEMMA CountDriverStep ==
    ASSUME Flat, TypeOK, Paired, Phases, Clean, UpdateDriver,
           NEW u, u = ins[Top.at][Top.next], u \in calc
    PROVE  TypeOK' /\ Paired' /\ Phases' /\ Clean'
<1> DEFINE n == Len(stack)
           v == Top.at
           x == Top.next
           r == Raised(level[v], level[u])
<1>1. /\ phase = "levels" /\ UNCHANGED graph /\ phase' = phase /\ roots' = roots
      /\ stack # <<>> /\ x <= Len(ins[v])
      /\ level' = [level EXCEPT ![v] = r] /\ stack' = Advanced(stack) /\ calc' = calc
      /\ used' = used /\ answer' = answer /\ purging' = purging
      /\ trust' = trust /\ wanted' = wanted /\ found' = found
  BY DEF UpdateDriver
<1>2. /\ Vertex' = Vertex /\ Kind' = Kind /\ FanIn' = FanIn /\ Paired'
      /\ Outputs' = Outputs /\ Inner' = Inner /\ (Driven' <=> Driven)
      /\ \A d : Distance(d)' <=> Distance(d)
      /\ standing' \subseteq Vertex /\ ins' \in [Vertex -> Seq(Vertex)]
      /\ outs' \in [Vertex -> Seq(Vertex)] /\ net' \in Nets /\ ins' = ins /\ standing' = standing
  BY <1>1, SameGraph DEF graph
<1>3. /\ n \in Nat \ {0} /\ DOMAIN stack = 1..n
      /\ v \in Vertex /\ v = stack[n].at /\ x \in Nat \ {0} /\ x = stack[n].next
      /\ \A k \in 1..n : stack[k].at \in Vertex /\ stack[k].next \in Nat \ {0}
      /\ stack \in Seq(Frame)
  BY <1>1, TopFacts
<1>4. u \in Range(ins[v]) /\ u \in Vertex /\ ins[v] \in Seq(Vertex) /\ u = ins[v][x]
  <2>1. ins[v] \in Seq(Vertex)
    BY <1>3 DEF TypeOK
  <2>2. x \in DOMAIN ins[v]
    BY <1>1, <1>3, <2>1
  <2>3. u \in Range(ins[v])
    BY <2>2 DEF Range
  <2> QED BY <2>1, <2>3, RangeInside
<1>5. /\ stack' \in Seq(Frame) /\ DOMAIN stack' = 1..n
      /\ \A k \in 1..n : /\ stack'[k].at = stack[k].at
                         /\ stack'[k].next = IF k = n THEN x + 1 ELSE stack[k].next
  <2>1. /\ stack' \in Seq(Frame) /\ Len(stack') = n
        /\ \A k \in 1..n : /\ stack'[k].at = stack[k].at
                           /\ stack'[k].next = IF k = n THEN stack[k].next + 1 ELSE stack[k].next
    BY <1>1, <1>3, AdvancedFacts
  <2>2. DOMAIN stack' = 1..Len(stack')
    BY <2>1
  <2>3. DOMAIN stack' = 1..n
    BY <2>1, <2>2
  <2> HIDE DEF n
  <2> QED BY <1>3, <2>1, <2>3
<1>6. /\ level[v] \in Nat /\ level[u] \in Nat /\ r \in Nat
      /\ r >= level[v] /\ r > level[u]
      /\ r = level[v] \/ r = level[u] + 1
  <2>1. level[v] \in Nat /\ level[u] \in Nat
    BY <1>3, <1>4 DEF TypeOK
  <2> QED BY <2>1 DEF Raised
<1> HIDE DEF r
<1>7. /\ level' \in [Vertex -> Nat]
      /\ \A w \in Vertex : level'[w] = IF w = v THEN r ELSE level[w]
  BY <1>1, <1>3, <1>6 DEF TypeOK
<1>8. TypeOK'
  <2>1. Frame' = Frame
    BY <1>2 DEF Frame
  <2> QED BY <1>1, <1>2, <1>5, <1>7, <2>1 DEF TypeOK
<1>9. Phases'
  BY <1>1, <1>2 DEF Phases
<1>10. Settled' = Settled /\ v \notin Settled
  <2>1. InProgress = {stack[k].at : k \in 1..n}
    BY <1>1, <1>3 DEF InProgress
  <2>2. InProgress' = {stack'[k].at : k \in 1..n}
    BY <1>1, <1>5 DEF InProgress
  <2>3. InProgress' = InProgress
    BY <1>5, <2>1, <2>2
  <2>4. n \in 1..n
    BY <1>3
  <2>5. v \in InProgress
    BY <1>3, <2>1, <2>4
  <2> QED BY <1>1, <2>3, <2>5 DEF Settled
<1> HIDE DEF n, v, x
<1>11. ASSUME NEW w \in Vertex PROVE level'[w] \in Nat /\ level[w] \in Nat /\ level'[w] >= level[w]
  <2>1. level \in [Vertex -> Nat]
    BY DEF TypeOK
  <2>2. level[w] \in Nat /\ level'[w] = IF w = v THEN r ELSE level[w]
    BY <1>7, <2>1
  <2>3. CASE w = v
    BY <1>6, <2>2, <2>3
  <2>4. CASE w # v
    BY <2>2, <2>4
  <2> QED BY <2>3, <2>4
<1>12. ASSUME trust' = "clean" PROVE Clean'
  <2>1. /\ Flagged /\ Walking
        /\ \A d \in [Vertex -> Nat] : Distance(d) => Measured(d) /\ Answered(d)
    BY <1>1, <1>12 DEF Clean
  <2>2. v \in calc /\ v \in FanIn /\ n \in 1..n
    <3>1. n \in 1..n
      BY <1>3
    <3>2. v \in calc
      BY <1>1, <1>3, <2>1, <3>1 DEF Walking
    <3> QED BY <2>1, <3>1, <3>2 DEF Flagged
  <2>3. Flagged'
    <3>1. \A w \in Vertex : level'[w] # 0 => w \in FanIn
      BY <1>7, <2>1, <2>2 DEF Flagged
    <3>2. \A w \in Settled' : w \in Vertex /\ w # v
      BY <1>10 DEF Settled, TypeOK
    <3>3. \A w \in Settled' : Range(ins[w]) \subseteq calc /\ (ins[w] # <<>> => level'[w] # 0)
      BY <1>7, <1>10, <2>1, <3>2 DEF Flagged
    <3> QED BY <1>1, <1>2, <2>1, <3>1, <3>3 DEF Flagged
  <2>4. Searching'
    BY <1>1 DEF Searching
  <2>5. Walking'
    <3>1. Outputs' \ roots' \subseteq calc'
      BY <1>1, <1>2, <2>1 DEF Walking
    <3>2. ASSUME NEW k \in 1..n
          PROVE  /\ stack'[k].at \in calc'
                 /\ stack'[k].next <= Len(ins'[stack'[k].at]) + 1
                 /\ \A i \in 1..(stack'[k].next - 1) : ins'[stack'[k].at][i] \in calc'
                 /\ stack'[k].next > 1 => level'[stack'[k].at] # 0
      <4>1. /\ stack[k].at \in calc
            /\ stack[k].next <= Len(ins[stack[k].at]) + 1
            /\ \A i \in 1..(stack[k].next - 1) : ins[stack[k].at][i] \in calc
            /\ stack[k].next > 1 => level[stack[k].at] # 0
        BY <1>1, <1>3, <2>1 DEF Walking
      <4>2. CASE k = n
        <5>1. stack'[k].at = v /\ stack'[k].next = x + 1
          BY <1>3, <1>5, <4>2
        <5>2. x + 1 <= Len(ins[v]) + 1 /\ Len(ins[v]) \in Nat
          BY <1>1, <1>3, <1>4
        <5>3. \A i \in 1..(x + 1 - 1) : i = x \/ i \in 1..(x - 1)
          BY <1>3
        <5>4. \A i \in 1..(x + 1 - 1) : ins[v][i] \in calc
          BY <1>3, <1>4, <4>1, <4>2, <5>3
        <5>5. level'[v] # 0
          BY <1>3, <1>6, <1>7
        <5>6. \A i \in 1..(stack'[k].next - 1) : ins'[stack'[k].at][i] \in calc'
          <6> SUFFICES ASSUME NEW i \in 1..(stack'[k].next - 1)
                       PROVE  ins'[stack'[k].at][i] \in calc'
            OBVIOUS
          <6>1. i \in 1..(x + 1 - 1)
            BY <1>3, <5>1
          <6> QED BY <1>1, <1>2, <5>1, <5>4, <6>1
        <5>7. stack'[k].next <= Len(ins'[stack'[k].at]) + 1
          BY <1>2, <5>1, <5>2
        <5>8. stack'[k].at \in calc' /\ level'[stack'[k].at] # 0
          BY <1>1, <2>2, <5>1, <5>5
        <5> QED BY <5>6, <5>7, <5>8
      <4>3. CASE k # n
        <5>1. stack'[k].at = stack[k].at /\ stack'[k].next = stack[k].next /\ stack[k].at \in Vertex
          BY <1>3, <1>5, <4>3
        <5>2. stack[k].next > 1 => level'[stack[k].at] # 0
          BY <1>6, <1>7, <4>1, <5>1
        <5> QED BY <1>1, <1>2, <4>1, <5>1, <5>2
      <4> QED BY <4>2, <4>3
    <3> QED BY <1>5, <3>1, <3>2 DEF Walking
  <2>6. ASSUME NEW d \in [Vertex -> Nat], Distance(d)' PROVE Measured(d)' /\ Answered(d)'
    <3>1. Distance(d) /\ Measured(d) /\ Answered(d)
      BY <1>2, <2>1, <2>6
    <3>2. /\ d[v] \in Nat /\ d[u] \in Nat /\ d[u] < d[v] /\ level[v] <= d[v]
      BY <1>3, <1>4, <2>2, <3>1 DEF Distance, Measured
    <3>3. \A k \in 1..(n - 1) : k \in 1..n /\ d[v] < d[stack[k].at] /\ d[stack[k].at] \in Nat
      <4>1. \A k \in 1..(n - 1) : k \in 1..n
        BY <1>3
      <4>2. \A k \in 1..(n - 1) : d[v] < d[stack[k].at]
        BY <1>1, <1>3, <2>2, <3>1 DEF Measured
      <4> QED BY <1>3, <4>1, <4>2
    <3>4. u \in Settled
      <4>1. SUFFICES ASSUME u \in InProgress PROVE FALSE
        BY DEF Settled
      <4>2. PICK k \in 1..n : u = stack[k].at
        BY <1>1, <1>3, <4>1 DEF InProgress
      <4>3. k = n \/ k \in 1..(n - 1)
        BY <1>3
      <4>4. d[u] = d[v] \/ d[v] < d[u]
        BY <1>3, <3>3, <4>2, <4>3
      <4> QED BY <3>2, <4>4
    <3>5. level[u] = d[u]
      BY <3>1, <3>4 DEF Measured
    <3>6. r <= d[v] /\ d[u] < r
      BY <1>6, <3>2, <3>5
    <3>7. \A w \in FanIn : level'[w] <= d[w]
      <4>1. FanIn \subseteq Vertex
        BY FanInFacts DEF TypeOK
      <4> QED BY <1>7, <3>1, <3>6, <4>1 DEF Measured
    <3>8. \A w \in Settled' : level'[w] = d[w]
      BY <1>7, <1>10, <3>1 DEF Measured, Settled, TypeOK
    <3>9. ASSUME NEW k \in 1..n
          PROVE  /\ \A j \in 1..(k - 1) : d[stack'[k].at] < d[stack'[j].at]
                 /\ \A i \in 1..(stack'[k].next - 1) : d[ins'[stack'[k].at][i]] < level'[stack'[k].at]
      <4>1. /\ \A j \in 1..(k - 1) : d[stack[k].at] < d[stack[j].at]
            /\ \A i \in 1..(stack[k].next - 1) : d[ins[stack[k].at][i]] < level[stack[k].at]
        BY <1>1, <1>3, <3>1 DEF Measured
      <4>2. \A j \in 1..(k - 1) : j \in 1..n
        BY <1>3
      <4>3. \A j \in 1..(k - 1) : d[stack'[k].at] < d[stack'[j].at]
        BY <1>5, <4>1, <4>2
      <4>4. CASE k = n
        <5>1. stack'[k].at = v /\ stack'[k].next = x + 1 /\ level'[v] = r
          BY <1>3, <1>5, <1>7, <4>4
        <5>2. \A i \in 1..(x + 1 - 1) : i = x \/ i \in 1..(x - 1)
          BY <1>3
        <5>3. \A i \in 1..(x - 1) : ins[v][i] \in Vertex /\ d[ins[v][i]] < level[v]
          <6>1. \A i \in 1..(x - 1) : i \in 1..Len(ins[v])
            BY <1>1, <1>3, <1>4
          <6>2. \A i \in 1..(x - 1) : ins[v][i] \in Vertex
            BY <1>4, <6>1
          <6> QED BY <1>3, <4>1, <4>4, <6>2
        <5>4. \A i \in 1..(x - 1) : d[ins[v][i]] < r
          <6>1. \A i \in 1..(x - 1) : d[ins[v][i]] \in Nat
            BY <5>3
          <6> QED BY <1>6, <5>3, <6>1
        <5>5. \A i \in 1..(x + 1 - 1) : d[ins[v][i]] < r
          BY <1>4, <3>6, <5>2, <5>4
        <5>6. \A i \in 1..(stack'[k].next - 1) : d[ins'[stack'[k].at][i]] < level'[stack'[k].at]
          <6> SUFFICES ASSUME NEW i \in 1..(stack'[k].next - 1)
                       PROVE  d[ins'[stack'[k].at][i]] < level'[stack'[k].at]
            OBVIOUS
          <6>1. i \in 1..(x + 1 - 1)
            BY <1>3, <5>1
          <6> QED BY <1>2, <5>1, <5>5, <6>1
        <5> QED BY <4>3, <5>6
      <4>5. CASE k # n
        <5>1. k \in 1..(n - 1)
          BY <1>3, <4>5
        <5>2. stack[k].at # v
          BY <3>2, <3>3, <5>1
        <5>3. /\ stack'[k].at = stack[k].at /\ stack'[k].next = stack[k].next
              /\ level'[stack[k].at] = level[stack[k].at]
          BY <1>3, <1>5, <1>7, <4>5, <5>2
        <5> QED BY <1>2, <4>1, <4>3, <5>3
      <4> QED BY <4>4, <4>5
    <3>10. Measured(d)'
      BY <1>2, <1>5, <3>7, <3>8, <3>9 DEF Measured
    <3> QED BY <1>1, <1>2, <3>1, <3>10 DEF Answered
  <2> QED BY <1>2, <2>3, <2>4, <2>5, <2>6 DEF Clean
<1>13. trust' # "clean" => Clean'
  BY DEF Clean
<1> QED BY <1>2, <1>8, <1>9, <1>12, <1>13

LEMMA UpdateDriverStep ==
    ASSUME Flat, TypeOK, Paired, Phases, Clean, UpdateDriver
    PROVE  TypeOK' /\ Paired' /\ Phases' /\ Clean'
<1> DEFINE u == ins[Top.at][Top.next]
<1>1. CASE u \in calc
  BY <1>1, CountDriverStep
<1>2. CASE u \notin calc
  BY <1>2, CallDriverStep
<1> QED BY <1>1, <1>2

LEMMA UpdateReturnStep ==
    ASSUME Flat, TypeOK, Paired, Phases, Clean, UpdateReturn
    PROVE  TypeOK' /\ Paired' /\ Phases' /\ Clean'
<1> DEFINE n == Len(stack)
           v == Top.at
           x == Top.next
<1>1. /\ phase = "levels" /\ UNCHANGED graph /\ phase' = phase /\ roots' = roots
      /\ stack # <<>> /\ x > Len(ins[v])
      /\ stack' = SubSeq(stack, 1, Len(stack) - 1)
      /\ level' = level /\ calc' = calc
      /\ used' = used /\ answer' = answer /\ purging' = purging
      /\ trust' = trust /\ wanted' = wanted /\ found' = found
  BY DEF UpdateReturn, cache
<1>2. /\ Vertex' = Vertex /\ Kind' = Kind /\ FanIn' = FanIn /\ Paired'
      /\ Outputs' = Outputs /\ Inner' = Inner /\ (Driven' <=> Driven)
      /\ \A d : Distance(d)' <=> Distance(d)
      /\ standing' \subseteq Vertex /\ ins' \in [Vertex -> Seq(Vertex)]
      /\ outs' \in [Vertex -> Seq(Vertex)] /\ net' \in Nets /\ ins' = ins /\ standing' = standing
  BY <1>1, SameGraph DEF graph
<1>3. /\ n \in Nat \ {0} /\ DOMAIN stack = 1..n
      /\ v \in Vertex /\ v = stack[n].at /\ x \in Nat \ {0} /\ x = stack[n].next
      /\ \A k \in 1..n : stack[k].at \in Vertex /\ stack[k].next \in Nat \ {0}
      /\ stack \in Seq(Frame)
  BY <1>1, TopFacts
<1>4. ins[v] \in Seq(Vertex) /\ Len(ins[v]) \in Nat /\ DOMAIN ins[v] = 1..Len(ins[v])
  BY <1>3 DEF TypeOK
<1>5. /\ stack' \in Seq(Frame) /\ DOMAIN stack' = 1..(n - 1)
      /\ \A k \in 1..(n - 1) : stack'[k] = stack[k]
  <2>1. /\ stack' \in Seq(Frame) /\ Len(stack') = n - 1
        /\ \A k \in 1..(n - 1) : stack'[k] = stack[k]
    BY <1>1, <1>3, ReturnedFacts
  <2>2. DOMAIN stack' = 1..Len(stack')
    BY <2>1
  <2> HIDE DEF n
  <2> QED BY <2>1, <2>2
<1>6. TypeOK'
  <2>1. Frame' = Frame
    BY <1>2 DEF Frame
  <2> QED BY <1>1, <1>2, <1>5, <2>1 DEF TypeOK
<1>7. Phases'
  BY <1>1, <1>2 DEF Phases
<1> HIDE DEF n, v, x
<1>8. Settled \subseteq Settled' /\ Settled' \subseteq Settled \cup {v}
  <2>1. InProgress = {stack[k].at : k \in 1..n}
    BY <1>1, <1>3 DEF InProgress
  <2>2. InProgress' = {stack'[k].at : k \in 1..(n - 1)}
    BY <1>1, <1>5 DEF InProgress
  <2>3. \A k \in 1..n : k = n \/ k \in 1..(n - 1)
    BY <1>3
  <2>4. \A k \in 1..(n - 1) : k \in 1..n
    BY <1>3
  <2>5. InProgress' \subseteq InProgress /\ InProgress \subseteq InProgress' \cup {v}
    BY <1>3, <1>5, <2>1, <2>2, <2>3, <2>4
  <2> QED BY <1>1, <2>5 DEF Settled
<1>9. \A k \in 1..(n - 1) : k \in 1..n
  BY <1>3
<1>10. ASSUME trust' = "clean" PROVE Clean'
  <2>1. /\ Flagged /\ Walking
        /\ \A d \in [Vertex -> Nat] : Distance(d) => Measured(d) /\ Answered(d)
    BY <1>1, <1>10 DEF Clean
  <2>2. /\ v \in calc /\ v \in FanIn /\ x = Len(ins[v]) + 1
        /\ \A i \in 1..Len(ins[v]) : ins[v][i] \in calc
        /\ ins[v] # <<>> => level[v] # 0
    <3>1. n \in 1..n
      BY <1>3
    <3>2. /\ v \in calc /\ x <= Len(ins[v]) + 1
          /\ \A i \in 1..(x - 1) : ins[v][i] \in calc
          /\ x > 1 => level[v] # 0
      BY <1>1, <1>3, <2>1, <3>1 DEF Walking
    <3>3. x = Len(ins[v]) + 1 /\ x - 1 = Len(ins[v])
      <4> DEFINE m == Len(ins[v])
      <4>1. m \in Nat /\ x \in Nat /\ x > m /\ x <= m + 1
        BY <1>1, <1>3, <1>4, <3>2
      <4> HIDE DEF m
      <4>2. x = m + 1 /\ x - 1 = m
        BY <4>1
      <4> QED BY <4>2 DEF m
    <3>4. ins[v] # <<>> => x > 1
      BY <1>4, <3>3
    <3> QED BY <2>1, <3>2, <3>3, <3>4 DEF Flagged
  <2>3. Range(ins[v]) \subseteq calc
    BY <1>4, <2>2 DEF Range
  <2>4. Flagged'
    <3>1. \A w \in Settled' : Range(ins[w]) \subseteq calc /\ (ins[w] # <<>> => level[w] # 0)
      BY <1>8, <2>1, <2>2, <2>3 DEF Flagged
    <3> QED BY <1>1, <1>2, <2>1, <3>1 DEF Flagged
  <2>5. Searching'
    BY <1>1 DEF Searching
  <2>6. Walking'
    <3>1. Outputs' \ roots' \subseteq calc'
      BY <1>1, <1>2, <2>1 DEF Walking
    <3>2. \A k \in 1..(n - 1) :
             /\ stack[k].at \in calc
             /\ stack[k].next <= Len(ins[stack[k].at]) + 1
             /\ \A i \in 1..(stack[k].next - 1) : ins[stack[k].at][i] \in calc
             /\ stack[k].next > 1 => level[stack[k].at] # 0
      BY <1>1, <1>3, <1>9, <2>1 DEF Walking
    <3> QED BY <1>1, <1>2, <1>5, <3>1, <3>2 DEF Walking
  <2>7. ASSUME NEW d \in [Vertex -> Nat], Distance(d)' PROVE Measured(d)' /\ Answered(d)'
    <3>1. Distance(d) /\ Measured(d) /\ Answered(d)
      BY <1>2, <2>1, <2>7
    <3>2. level[v] = d[v]
      <4>1. level[v] <= d[v] /\ level[v] \in Nat /\ d[v] \in Nat
        BY <1>3, <2>2, <3>1 DEF Measured, TypeOK
      <4>2. CASE ins[v] = <<>>
        <5>1. d[v] = 0
          BY <2>2, <3>1, <4>2 DEF Distance
        <5> QED BY <4>1, <5>1
      <4>3. CASE ins[v] # <<>>
        <5>1. PICK u \in Range(ins[v]) : d[v] = d[u] + 1
          BY <2>2, <3>1, <4>3 DEF Distance
        <5>2. PICK i \in 1..Len(ins[v]) : u = ins[v][i]
          BY <1>4 DEF Range
        <5>3. n \in DOMAIN stack /\ i \in 1..(x - 1)
          BY <1>3, <1>4, <2>2
        <5>4. d[u] < level[v]
          BY <1>1, <1>3, <3>1, <5>2, <5>3 DEF Measured
        <5>5. u \in Vertex
          BY <1>4, <5>2
        <5>6. d[u] \in Nat
          BY <5>5
        <5> QED BY <4>1, <5>1, <5>4, <5>6
      <4> QED BY <4>2, <4>3
    <3>3. \A w \in Settled' : level[w] = d[w]
      BY <1>8, <3>1, <3>2 DEF Measured
    <3>4. ASSUME NEW k \in 1..(n - 1)
          PROVE  /\ \A j \in 1..(k - 1) : d[stack'[k].at] < d[stack'[j].at]
                 /\ \A i \in 1..(stack'[k].next - 1) : d[ins[stack'[k].at][i]] < level[stack'[k].at]
      <4>1. \A j \in 1..(k - 1) : j \in 1..(n - 1)
        BY <1>3
      <4>2. /\ \A j \in 1..(k - 1) : d[stack[k].at] < d[stack[j].at]
            /\ \A i \in 1..(stack[k].next - 1) : d[ins[stack[k].at][i]] < level[stack[k].at]
        BY <1>1, <1>3, <1>9, <3>1 DEF Measured
      <4> QED BY <1>5, <4>1, <4>2
    <3>5. Measured(d)'
      BY <1>1, <1>2, <1>5, <3>1, <3>3, <3>4 DEF Measured
    <3> QED BY <1>1, <1>2, <3>1, <3>5 DEF Answered
  <2> QED BY <1>2, <2>4, <2>5, <2>6, <2>7 DEF Clean
<1>11. trust' # "clean" => Clean'
  BY DEF Clean
<1> QED BY <1>2, <1>6, <1>7, <1>10, <1>11

(* When the last output is through, all of the fan-in has its level.       *)
LEMMA UpdatedFacts ==
    ASSUME TypeOK, Paired, Clean, Updated, trust = "clean"
    PROVE  /\ InProgress = {} /\ Settled = calc /\ calc = FanIn
           /\ \A v \in FanIn : ins[v] # <<>> => level[v] # 0
           /\ \A d \in [Vertex -> Nat] : Distance(d) => \A v \in FanIn : level[v] = d[v]
<1>1. InProgress = {} /\ Settled = calc
  BY DEF Updated, InProgress, Settled
<1>2. Flagged /\ Walking /\ \A d \in [Vertex -> Nat] : Distance(d) => Measured(d)
  BY DEF Clean
<1>3. calc = FanIn
  <2>1. Outputs \subseteq calc
    BY <1>2 DEF Updated, Walking
  <2>2. calc \subseteq FanIn /\ \A v \in calc : Range(ins[v]) \subseteq calc
    BY <1>1, <1>2 DEF Flagged
  <2> QED BY <2>1, <2>2, FanInFacts
<1>4. \A v \in FanIn : ins[v] # <<>> => level[v] # 0
  BY <1>1, <1>2, <1>3 DEF Flagged
<1>5. \A d \in [Vertex -> Nat] : Distance(d) => \A v \in FanIn : level[v] = d[v]
  BY <1>1, <1>2, <1>3 DEF Measured
<1> QED BY <1>1, <1>3, <1>4, <1>5

LEMMA UpdateLevelsEndStep ==
    ASSUME Flat, TypeOK, Paired, Phases, Clean, UpdateLevelsEnd
    PROVE  TypeOK' /\ Paired' /\ Phases' /\ Clean'
<1>1. /\ phase = "levels" /\ stack = <<>> /\ roots = {} /\ ~purging /\ UNCHANGED graph
      /\ phase' = "idle" /\ roots' = roots /\ stack' = stack
      /\ level' = level /\ calc' = calc /\ Updated
      /\ used' = used /\ answer' = NoAnswer /\ purging' = purging
      /\ trust' = trust /\ wanted' = wanted /\ found' = found
  BY DEF UpdateLevelsEnd, Updated, cache
<1>2. /\ Vertex' = Vertex /\ Kind' = Kind /\ FanIn' = FanIn /\ Paired'
      /\ Outputs' = Outputs /\ Inner' = Inner
      /\ \A d : Distance(d)' <=> Distance(d)
      /\ standing' \subseteq Vertex /\ ins' \in [Vertex -> Seq(Vertex)]
      /\ outs' \in [Vertex -> Seq(Vertex)] /\ net' \in Nets /\ ins' = ins /\ standing' = standing
  BY <1>1, SameGraph DEF graph
<1>3. TypeOK'
  <2>1. Frame' = Frame
    BY <1>2 DEF Frame
  <2> QED BY <1>1, <1>2, <2>1 DEF TypeOK
<1>4. Phases'
  BY <1>1, <1>2 DEF Phases
<1>5. ASSUME trust' = "clean" PROVE Clean'
  <2>1. Flagged /\ InProgress = {} /\ InProgress' = {} /\ Settled' = Settled
    BY <1>1, <1>5 DEF Clean, InProgress, Settled
  <2>2. Flagged' /\ Walking' /\ Searching'
    BY <1>1, <1>2, <2>1 DEF Flagged, Walking, Searching
  <2>3. ASSUME NEW d \in [Vertex -> Nat], Distance(d)' PROVE Measured(d)' /\ Answered(d)'
    <3>1. Measured(d)
      BY <1>1, <1>2, <1>5, <2>3 DEF Clean
    <3>2. Measured(d)'
      BY <1>1, <1>2, <2>1, <3>1 DEF Measured
    <3> QED BY <1>1, <3>2 DEF Answered, NoAnswer
  <2> QED BY <1>2, <2>2, <2>3 DEF Clean
<1>6. trust' # "clean" => Clean'
  BY DEF Clean
<1> QED BY <1>2, <1>3, <1>4, <1>5, <1>6

-----------------------------------------------------------------------------
(* getVerticesByLevel.                                                     *)

LEMMA NeighboursFacts ==
    ASSUME TypeOK, Paired
    PROVE  /\ Neighbours \in [Vertex -> Seq(Vertex)]
           /\ \A v \in Vertex : Range(Neighbours[v]) \subseteq standing
           /\ \A l : Starts(l) \subseteq standing
<1>1. /\ Neighbours \in [Vertex -> Seq(Vertex)]
      /\ Neighbours = ins \/ Neighbours = outs
  BY DEF Neighbours, TypeOK
<1>2. ASSUME NEW v \in Vertex PROVE Range(Neighbours[v]) \subseteq standing
  <2>1. Range(ins[v]) \subseteq Vertex /\ Range(outs[v]) \subseteq Vertex
    BY RangeInside DEF TypeOK
  <2>2. Range(ins[v]) \subseteq standing /\ Range(outs[v]) \subseteq standing
    BY <2>1 DEF Paired
  <2> QED BY <1>1, <2>2
<1> QED BY <1>1, <1>2 DEF Starts, Outputs, Of

LEMMA SameSearch ==
    ASSUME TypeOK, Paired, UNCHANGED graph, UNCHANGED <<level, calc, wanted>>
    PROVE  /\ Neighbours' = Neighbours
           /\ Starts(wanted)' = Starts(wanted)
<1>1. /\ ins' = ins /\ outs' = outs /\ standing' = standing /\ net' = net
      /\ level' = level /\ calc' = calc /\ wanted' = wanted
  BY DEF graph
<1>2. Neighbours' = Neighbours /\ Starts(wanted)' = Starts(wanted)
  BY <1>1 DEF Neighbours, Starts, FromOutputs, Outputs, Of, Kind
<1> QED BY <1>2

LEMMA GetVerticesByLevelStep ==
    ASSUME Flat, TypeOK, Paired, Phases, Clean, NEW l \in 0..MaxLevel, GetVerticesByLevel(l)
    PROVE  TypeOK' /\ Paired' /\ Phases' /\ Clean'
<1>1. /\ phase = "levels" /\ stack = <<>> /\ roots = {} /\ ~purging /\ UNCHANGED graph
      /\ level' = level /\ calc' = calc /\ Updated /\ stack' = stack
      /\ used' = used /\ purging' = purging /\ trust' = trust /\ found' = found
  BY DEF GetVerticesByLevel, Updated, cache
<1>2. /\ l = 0 => /\ answer' = [call |-> "byLevel", level |-> 0, found |-> Of({"input", "constant"})]
                  /\ phase' = "idle" /\ roots' = roots /\ wanted' = wanted
      /\ l # 0 => /\ phase' = "search" /\ wanted' = l /\ roots' = Starts(l) /\ answer' = answer
  BY DEF GetVerticesByLevel
<1>3. /\ Vertex' = Vertex /\ Kind' = Kind /\ FanIn' = FanIn /\ Paired'
      /\ Outputs' = Outputs /\ Inner' = Inner /\ (Driven' <=> Driven)
      /\ \A d : Distance(d)' <=> Distance(d)
      /\ standing' \subseteq Vertex /\ ins' \in [Vertex -> Seq(Vertex)]
      /\ outs' \in [Vertex -> Seq(Vertex)] /\ net' \in Nets /\ ins' = ins /\ outs' = outs
      /\ standing' = standing /\ net' = net
  BY <1>1, SameGraph DEF graph
<1>4. used = {} /\ found = {}
  BY <1>1 DEF Phases
<1>5. TypeOK'
  <2>1. Frame' = Frame
    BY <1>3 DEF Frame
  <2>2. wanted' \in Nat /\ roots' \subseteq standing /\ phase' \in {"idle", "levels", "search"}
    <3>1. l \in Nat
      BY LevelCacheAssumption
    <3> QED BY <1>1, <1>2, <3>1, NeighboursFacts DEF TypeOK
  <2> QED BY <1>1, <1>3, <2>1, <2>2 DEF TypeOK
<1>6. Phases'
  BY <1>1, <1>2, <1>3, <1>4 DEF Phases
<1>7. ASSUME trust' = "clean" PROVE Clean'
  <2>1. Flagged /\ InProgress = {} /\ InProgress' = {} /\ Settled' = Settled
    BY <1>1, <1>2, <1>7 DEF Clean, InProgress, Settled
  <2>2. Flagged' /\ Walking'
    BY <1>1, <1>2, <1>3, <2>1 DEF Flagged, Walking
  <2>3. Searching'
    <3>1. SUFFICES ASSUME l # 0 PROVE Searching'
      BY <1>2 DEF Searching
    <3>2. calc = FanIn
      BY <1>1, <1>7, UpdatedFacts
    <3>3. Starts(wanted)' = Starts(l)
      BY <1>1, <1>2, <1>3, <3>1 DEF Starts, FromOutputs, Of
    <3>4. Behind(stack, used, used)'
      BY <1>1, <1>4 DEF Behind
    <3> QED BY <1>1, <1>2, <1>3, <1>4, <3>1, <3>2, <3>3, <3>4 DEF Searching
  <2>4. ASSUME NEW d \in [Vertex -> Nat], Distance(d)' PROVE Measured(d)' /\ Answered(d)'
    <3>1. Measured(d) /\ Answered(d)
      BY <1>1, <1>3, <1>7, <2>4 DEF Clean
    <3>2. Measured(d)'
      BY <1>1, <1>2, <1>3, <2>1, <3>1 DEF Measured
    <3>3. Answered(d)'
      BY <1>2, <1>3, <3>1 DEF Answered
    <3> QED BY <3>2, <3>3
  <2> QED BY <1>3, <2>2, <2>3, <2>4 DEF Clean
<1>8. trust' # "clean" => Clean'
  BY DEF Clean
<1> QED BY <1>3, <1>5, <1>6, <1>7, <1>8

\* A vertex is looked at: it is met unless it has no flag, and the search
\* goes on behind it unless it has the level.
LEMMA VisitFacts ==
    ASSUME TypeOK, Paired, NEW w \in Vertex, NEW s \in Seq(Frame), Visit(w, s),
           used \subseteq calc, found = {v \in used : level[v] = wanted},
           Behind(s, used, used \cup {w})
    PROVE  /\ used \subseteq used' /\ used' \subseteq used \cup {w} /\ used' \subseteq calc
           /\ w \in calc => w \in used'
           /\ found' = {v \in used' : level[v] = wanted}
           /\ Behind(stack', used', used')
<1> DEFINE N == Neighbours
           n == Len(s)
<1>1. N \in [Vertex -> Seq(Vertex)]
  BY NeighboursFacts
<1>2. n \in Nat /\ DOMAIN s = 1..n
  BY FrameFacts
<1> HIDE DEF N, n
<1>3. CASE w \in used \/ w \notin calc
  <2>1. stack' = s /\ used' = used /\ found' = found
    BY <1>3 DEF Visit
  <2>2. \A x : x \in calc => (x \in used \cup {w} <=> x \in used)
    BY <1>3
  <2>3. Behind(s, used, used)
    BY <2>2 DEF Behind
  <2> QED BY <1>3, <2>1, <2>3
<1>4. CASE w \notin used /\ w \in calc
  <2>1. /\ used' = used \cup {w}
        /\ found' = {v \in used' : level[v] = wanted}
        /\ stack' = IF level[w] = wanted THEN s ELSE Pushed(s, w)
    BY <1>4 DEF Visit, StopAt
  <2>2. \A v \in used \ {s[k].at : k \in DOMAIN s} :
           level[v] # wanted => Range(N[v]) \cap calc \subseteq used
    BY DEF Behind, N
  <2>3. \A k \in DOMAIN s :
           /\ s[k].at \in used
           /\ s[k].next <= Len(N[s[k].at]) + 1
           /\ \A i \in 1..(s[k].next - 1) : N[s[k].at][i] \in calc => N[s[k].at][i] \in used'
    BY <2>1 DEF Behind, N
  <2>4. CASE level[w] = wanted
    <3>1. stack' = s
      BY <2>1, <2>4
    <3>2. \A v \in used' \ {s[k].at : k \in DOMAIN s} :
             level[v] # wanted => Range(N[v]) \cap calc \subseteq used'
      BY <2>1, <2>2, <2>4
    <3>3. Behind(s, used', used')
      BY <2>1, <2>3, <3>2 DEF Behind, N
    <3> QED BY <1>4, <2>1, <3>1, <3>3
  <2>5. CASE level[w] # wanted
    <3> DEFINE p == Pushed(s, w)
    <3>1. /\ p \in Seq(Frame) /\ Len(p) = n + 1
          /\ \A k \in 1..n : p[k] = s[k]
          /\ p[n + 1].at = w /\ p[n + 1].next = 1
      BY PushedFacts DEF n
    <3>2. stack' = p
      BY <2>1, <2>5
    <3> HIDE DEF p
    <3>3. DOMAIN p = 1..(n + 1)
      BY <3>1
    <3>4. \A k \in 1..(n + 1) : k \in 1..n \/ k = n + 1
      BY <1>2
    <3>5. \A k \in 1..n : k \in 1..(n + 1)
      BY <1>2
    <3>6. n + 1 \in 1..(n + 1)
      BY <1>2
    <3>7. {p[k].at : k \in DOMAIN p} = {s[k].at : k \in DOMAIN s} \cup {w}
      BY <1>2, <3>1, <3>3, <3>4, <3>5, <3>6
    <3>8. \A v \in used' \ {p[k].at : k \in DOMAIN p} :
             level[v] # wanted => Range(N[v]) \cap calc \subseteq used'
      BY <2>1, <2>2, <3>7
    <3>9. ASSUME NEW k \in DOMAIN p
          PROVE  /\ p[k].at \in used'
                 /\ p[k].next <= Len(N[p[k].at]) + 1
                 /\ \A i \in 1..(p[k].next - 1) : N[p[k].at][i] \in calc => N[p[k].at][i] \in used'
      <4>1. CASE k \in 1..n
        BY <1>2, <2>1, <2>3, <3>1, <4>1
      <4>2. CASE k = n + 1
        <5>1. p[k].at = w /\ p[k].next = 1
          BY <3>1, <4>2
        <5>2. w \in used' /\ 1 <= Len(N[w]) + 1 /\ 1..(1 - 1) = {}
          BY <1>1, <2>1
        <5> QED BY <5>1, <5>2
      <4> QED BY <3>3, <3>4, <4>1, <4>2
    <3>10. Behind(p, used', used')
      BY <3>8, <3>9 DEF Behind, N
    <3> QED BY <1>4, <2>1, <3>2, <3>10
  <2> QED BY <2>4, <2>5
<1> QED BY <1>3, <1>4

LEMMA VisitTyped ==
    ASSUME TypeOK, NEW w \in standing, NEW s \in Seq(Frame), Visit(w, s)
    PROVE  stack' \in Seq(Frame) /\ used' \subseteq standing /\ found' \subseteq Vertex
<1>1. w \in Vertex
  BY DEF TypeOK
<1>2. CASE w \in used \/ w \notin calc
  BY <1>2 DEF Visit, TypeOK
<1>3. CASE w \notin used /\ w \in calc
  <2>1. used' \subseteq standing /\ found' \subseteq Vertex
    BY <1>1, <1>3 DEF Visit, TypeOK
  <2>2. stack' = s \/ stack' = Pushed(s, w)
    BY <1>3 DEF Visit
  <2> QED BY <1>1, <2>1, <2>2, PushedFacts
<1> QED BY <1>2, <1>3

\* A step of the search changes nothing else.
LEMMA SearchMoves ==
    ASSUME TypeOK, Paired, Phases, Clean, phase = "search", phase' = phase, UNCHANGED graph,
           UNCHANGED <<level, calc, answer, purging, wanted, trust>>,
           roots' \subseteq standing, stack' \in Seq(Frame), used' \subseteq standing,
           found' \subseteq Vertex,
           trust = "clean" => Searching'
    PROVE  TypeOK' /\ Paired' /\ Phases' /\ Clean'
<1>1. /\ Vertex' = Vertex /\ FanIn' = FanIn /\ Paired' /\ (Driven' <=> Driven)
      /\ \A d : Distance(d)' <=> Distance(d)
      /\ standing' \subseteq Vertex /\ ins' \in [Vertex -> Seq(Vertex)]
      /\ outs' \in [Vertex -> Seq(Vertex)] /\ net' \in Nets /\ ins' = ins /\ standing' = standing
  BY SameGraph DEF graph
<1>2. TypeOK'
  <2>1. Frame' = Frame
    BY <1>1 DEF Frame
  <2> QED BY <1>1, <2>1 DEF TypeOK
<1>3. Phases'
  BY DEF Phases
<1>4. Settled' = Settled
  BY DEF Settled, InProgress
<1>5. ASSUME trust' = "clean" PROVE Clean'
  <2>1. Flagged' /\ Walking' /\ Searching'
    BY <1>1, <1>4, <1>5 DEF Clean, Flagged, Walking
  <2>2. ASSUME NEW d \in [Vertex -> Nat], Distance(d)' PROVE Measured(d)' /\ Answered(d)'
    <3>1. Measured(d) /\ Answered(d)
      BY <1>1, <1>5, <2>2 DEF Clean
    <3> QED BY <1>1, <1>4, <3>1 DEF Measured, Answered
  <2> QED BY <1>1, <2>1, <2>2 DEF Clean
<1>6. trust' # "clean" => Clean'
  BY DEF Clean
<1> QED BY <1>1, <1>2, <1>3, <1>5, <1>6

LEMMA SearchStartStep ==
    ASSUME Flat, TypeOK, Paired, Phases, Clean, SearchStart
    PROVE  TypeOK' /\ Paired' /\ Phases' /\ Clean'
<1> DEFINE v == Earliest(roots)
<1>1. /\ phase = "search" /\ phase' = phase /\ UNCHANGED graph
      /\ stack = <<>> /\ roots # {} /\ roots' = roots \ {v} /\ Visit(v, stack)
      /\ UNCHANGED <<level, calc, answer, purging, wanted, trust>>
  BY DEF SearchStart
<1>2. v \in roots /\ v \in standing /\ v \in Vertex
  <2>1. roots \subseteq Nat
    BY FlatFacts DEF TypeOK
  <2> QED BY <1>1, <2>1, EarliestFacts DEF TypeOK
<1> HIDE DEF v
<1>3. stack \in Seq(Frame) /\ roots' \subseteq standing
  BY <1>1 DEF TypeOK
<1>4. stack' \in Seq(Frame) /\ used' \subseteq standing /\ found' \subseteq Vertex
  BY <1>1, <1>2, <1>3, VisitTyped
<1>5. ASSUME trust = "clean" PROVE Searching'
  <2>1. /\ calc = FanIn /\ used \subseteq calc
        /\ found = {x \in used : level[x] = wanted}
        /\ (Starts(wanted) \ roots) \cap calc \subseteq used
        /\ Behind(stack, used, used)
    BY <1>1, <1>5 DEF Clean, Searching
  <2>2. Behind(stack, used, used \cup {v})
    BY <2>1 DEF Behind
  <2>3. /\ used \subseteq used' /\ used' \subseteq calc
        /\ v \in calc => v \in used'
        /\ found' = {x \in used' : level[x] = wanted}
        /\ Behind(stack', used', used')
    BY <1>1, <1>2, <1>3, <2>1, <2>2, VisitFacts
  <2>4. (Starts(wanted) \ roots') \cap calc \subseteq used'
    BY <1>1, <2>1, <2>3
  <2>5. FanIn' = FanIn
    BY <1>1, SameGraph
  <2>6. Starts(wanted)' = Starts(wanted) /\ Behind(stack, used, used)'
    <3>1. Neighbours' = Neighbours /\ level' = level /\ calc' = calc /\ wanted' = wanted
      BY <1>1, SameSearch
    <3>2. Behind(stack, used, used)'
      BY <2>3, <3>1 DEF Behind
    <3> QED BY <1>1, <3>2, SameSearch
  <2> QED BY <1>1, <2>1, <2>3, <2>4, <2>5, <2>6 DEF Searching
<1> QED BY <1>1, <1>3, <1>4, <1>5, SearchMoves

LEMMA SearchNextStep ==
    ASSUME Flat, TypeOK, Paired, Phases, Clean, SearchNext
    PROVE  TypeOK' /\ Paired' /\ Phases' /\ Clean'
<1> DEFINE n == Len(stack)
           v == Top.at
           x == Top.next
           w == Neighbours[v][x]
           s == Advanced(stack)
<1>1. /\ phase = "search" /\ phase' = phase /\ UNCHANGED graph
      /\ stack # <<>> /\ x <= Len(Neighbours[v]) /\ roots' = roots /\ Visit(w, s)
      /\ UNCHANGED <<level, calc, answer, purging, wanted, trust>>
  BY DEF SearchNext
<1>2. /\ n \in Nat \ {0} /\ DOMAIN stack = 1..n
      /\ v \in Vertex /\ v = stack[n].at /\ x \in Nat \ {0} /\ x = stack[n].next
      /\ \A k \in 1..n : stack[k].at \in Vertex /\ stack[k].next \in Nat \ {0}
      /\ stack \in Seq(Frame)
  BY <1>1, TopFacts
<1>3. /\ s \in Seq(Frame) /\ Len(s) = n
      /\ \A k \in 1..n : /\ s[k].at = stack[k].at
                         /\ s[k].next = IF k = n THEN stack[k].next + 1 ELSE stack[k].next
  BY <1>1, <1>2, AdvancedFacts
<1> HIDE DEF n, v, x, s
<1>4. /\ Neighbours[v] \in Seq(Vertex) /\ Len(Neighbours[v]) \in Nat
      /\ w \in Range(Neighbours[v]) /\ w \in standing /\ w \in Vertex
  <2>1. Neighbours[v] \in Seq(Vertex) /\ Range(Neighbours[v]) \subseteq standing
    BY <1>2, NeighboursFacts
  <2>2. x \in DOMAIN Neighbours[v] /\ Len(Neighbours[v]) \in Nat
    BY <1>1, <1>2, <2>1
  <2> QED BY <2>1, <2>2 DEF Range, TypeOK
<1>5. DOMAIN s = 1..n
  BY <1>2, <1>3
<1>6. roots' \subseteq standing
  BY <1>1 DEF TypeOK
<1>7. w = Neighbours[v][x]
  OBVIOUS
<1> HIDE DEF w
<1>8. stack' \in Seq(Frame) /\ used' \subseteq standing /\ found' \subseteq Vertex
  BY <1>1, <1>3, <1>4, VisitTyped
<1>9. ASSUME trust = "clean" PROVE Searching'
  <2>1. /\ calc = FanIn /\ used \subseteq calc
        /\ found = {y \in used : level[y] = wanted}
        /\ (Starts(wanted) \ roots) \cap calc \subseteq used
        /\ Behind(stack, used, used)
    BY <1>1, <1>9 DEF Clean, Searching
  <2>2. Behind(s, used, used \cup {w})
    <3>1. {s[k].at : k \in DOMAIN s} = {stack[k].at : k \in DOMAIN stack}
      BY <1>2, <1>3, <1>5
    <3>2. ASSUME NEW k \in 1..n
          PROVE  /\ s[k].at \in used
                 /\ s[k].next <= Len(Neighbours[s[k].at]) + 1
                 /\ \A i \in 1..(s[k].next - 1) :
                      Neighbours[s[k].at][i] \in calc => Neighbours[s[k].at][i] \in used \cup {w}
      <4>1. /\ stack[k].at \in used
            /\ stack[k].next <= Len(Neighbours[stack[k].at]) + 1
            /\ \A i \in 1..(stack[k].next - 1) :
                 Neighbours[stack[k].at][i] \in calc => Neighbours[stack[k].at][i] \in used
        BY <1>2, <2>1 DEF Behind
      <4>2. CASE k # n
        BY <1>3, <4>1, <4>2
      <4>3. CASE k = n
        <5>1. s[k].at = v /\ s[k].next = x + 1 /\ stack[k].at = v /\ stack[k].next = x
          BY <1>2, <1>3, <4>3
        <5>2. ASSUME NEW i \in 1..(s[k].next - 1), Neighbours[v][i] \in calc
              PROVE  Neighbours[v][i] \in used \cup {w}
          <6>1. i \in 1..(x + 1 - 1)
            BY <1>2, <5>1
          <6>2. i = x \/ i \in 1..(x - 1)
            BY <1>2, <6>1
          <6> QED BY <1>7, <4>1, <5>1, <5>2, <6>2
        <5>3. x + 1 <= Len(Neighbours[v]) + 1
          BY <1>1, <1>2, <1>4
        <5> QED BY <4>1, <5>1, <5>2, <5>3
      <4> QED BY <4>2, <4>3
    <3> QED BY <1>5, <2>1, <3>1, <3>2 DEF Behind
  <2>3. /\ used \subseteq used' /\ used' \subseteq calc
        /\ found' = {y \in used' : level[y] = wanted}
        /\ Behind(stack', used', used')
    BY <1>1, <1>3, <1>4, <2>1, <2>2, VisitFacts
  <2>4. (Starts(wanted) \ roots') \cap calc \subseteq used'
    BY <1>1, <2>1, <2>3
  <2>5. FanIn' = FanIn
    BY <1>1, SameGraph
  <2>6. Starts(wanted)' = Starts(wanted) /\ Behind(stack, used, used)'
    <3>1. Neighbours' = Neighbours /\ level' = level /\ calc' = calc /\ wanted' = wanted
      BY <1>1, SameSearch
    <3>2. Behind(stack, used, used)'
      BY <2>3, <3>1 DEF Behind
    <3> QED BY <1>1, <3>2, SameSearch
  <2> QED BY <1>1, <2>1, <2>3, <2>4, <2>5, <2>6 DEF Searching
<1> QED BY <1>1, <1>6, <1>8, <1>9, SearchMoves

LEMMA SearchReturnStep ==
    ASSUME Flat, TypeOK, Paired, Phases, Clean, SearchReturn
    PROVE  TypeOK' /\ Paired' /\ Phases' /\ Clean'
<1> DEFINE n == Len(stack)
           v == Top.at
           x == Top.next
<1>1. /\ phase = "search" /\ phase' = phase /\ UNCHANGED graph
      /\ stack # <<>> /\ x > Len(Neighbours[v]) /\ roots' = roots
      /\ stack' = SubSeq(stack, 1, Len(stack) - 1) /\ used' = used /\ found' = found
      /\ UNCHANGED <<level, calc, answer, purging, wanted, trust>>
  BY DEF SearchReturn, cache
<1>2. /\ n \in Nat \ {0} /\ DOMAIN stack = 1..n
      /\ v \in Vertex /\ v = stack[n].at /\ x \in Nat \ {0} /\ x = stack[n].next
      /\ stack \in Seq(Frame)
  BY <1>1, TopFacts
<1>3. /\ stack' \in Seq(Frame) /\ DOMAIN stack' = 1..(n - 1)
      /\ \A k \in 1..(n - 1) : stack'[k] = stack[k]
  <2>1. /\ stack' \in Seq(Frame) /\ Len(stack') = n - 1
        /\ \A k \in 1..(n - 1) : stack'[k] = stack[k]
    BY <1>1, <1>2, ReturnedFacts
  <2>2. DOMAIN stack' = 1..Len(stack')
    BY <2>1
  <2> HIDE DEF n
  <2> QED BY <2>1, <2>2
<1> HIDE DEF n, v, x
<1>4. Neighbours[v] \in Seq(Vertex) /\ Len(Neighbours[v]) \in Nat
  BY <1>2, NeighboursFacts
<1>5. roots' \subseteq standing /\ used' \subseteq standing /\ found' \subseteq Vertex
  BY <1>1 DEF TypeOK
<1>6. ASSUME trust = "clean" PROVE Searching'
  <2>1. /\ calc = FanIn /\ used \subseteq calc
        /\ found = {y \in used : level[y] = wanted}
        /\ (Starts(wanted) \ roots) \cap calc \subseteq used
        /\ Behind(stack, used, used)
    BY <1>1, <1>6 DEF Clean, Searching
  <2>2. Behind(stack', used, used)
    <3>1. \A k \in 1..n : k = n \/ k \in 1..(n - 1)
      BY <1>2
    <3>2. \A k \in 1..(n - 1) : k \in 1..n
      BY <1>2
    <3>3. {stack[k].at : k \in DOMAIN stack} \subseteq {stack'[k].at : k \in DOMAIN stack'} \cup {v}
      BY <1>2, <1>3, <3>1
    <3>4. Range(Neighbours[v]) \cap calc \subseteq used
      <4>1. n \in 1..n
        BY <1>2
      <4>2. /\ x <= Len(Neighbours[v]) + 1
            /\ \A i \in 1..(x - 1) : Neighbours[v][i] \in calc => Neighbours[v][i] \in used
        BY <1>2, <2>1, <4>1 DEF Behind
      <4>3. \A i \in 1..Len(Neighbours[v]) : i \in 1..(x - 1)
        BY <1>1, <1>2, <1>4
      <4>4. DOMAIN Neighbours[v] = 1..Len(Neighbours[v])
        BY <1>4
      <4> QED BY <4>2, <4>3, <4>4 DEF Range
    <3>5. \A y \in used \ {stack'[k].at : k \in DOMAIN stack'} :
             level[y] # wanted => Range(Neighbours[y]) \cap calc \subseteq used
      BY <2>1, <3>3, <3>4 DEF Behind
    <3>6. \A k \in 1..(n - 1) :
             /\ stack[k].at \in used
             /\ stack[k].next <= Len(Neighbours[stack[k].at]) + 1
             /\ \A i \in 1..(stack[k].next - 1) :
                  Neighbours[stack[k].at][i] \in calc => Neighbours[stack[k].at][i] \in used
      BY <1>2, <2>1, <3>2 DEF Behind
    <3> QED BY <1>3, <3>5, <3>6 DEF Behind
  <2>3. FanIn' = FanIn
    BY <1>1, SameGraph
  <2>4. Starts(wanted)' = Starts(wanted) /\ Behind(stack, used, used)'
    <3>1. Neighbours' = Neighbours /\ level' = level /\ calc' = calc /\ wanted' = wanted
      BY <1>1, SameSearch
    <3>2. Behind(stack, used, used)'
      BY <1>1, <2>2, <3>1 DEF Behind
    <3> QED BY <1>1, <3>2, SameSearch
  <2> QED BY <1>1, <2>1, <2>3, <2>4 DEF Searching
<1> QED BY <1>1, <1>3, <1>5, <1>6, SearchMoves

(* A search that is over has met every vertex of the level, from whichever *)
(* side it came.                                                           *)
LEMMA SearchIsComplete ==
    ASSUME Flat, TypeOK, Paired, Phases, Clean, trust = "clean", phase = "search",
           stack = <<>>, roots = {}, Driven,
           NEW d \in [Vertex -> Nat], Distance(d), wanted > 0
    PROVE  found = {v \in FanIn : d[v] = wanted}
<1>1. /\ calc = FanIn /\ used \subseteq calc
      /\ found = {v \in used : level[v] = wanted}
      /\ Starts(wanted) \cap calc \subseteq used
      /\ Behind(stack, used, used)
  BY DEF Clean, Searching
<1>2. \A v \in FanIn : level[v] = d[v]
  <2>1. Settled = calc
    BY DEF Settled, InProgress
  <2> QED BY <1>1, <2>1 DEF Clean, Measured
<1>3. \A v \in used : level[v] # wanted => Range(Neighbours[v]) \cap calc \subseteq used
  BY <1>1 DEF Behind
<1>4. /\ FanIn \subseteq standing /\ FanIn \subseteq Vertex /\ Outputs \subseteq FanIn
      /\ \A v \in FanIn : Range(ins[v]) \subseteq FanIn
      /\ \A S \in SUBSET standing :
           Outputs \subseteq S /\ (\A v \in S : Range(ins[v]) \subseteq S) => FanIn \subseteq S
  BY FanInFacts DEF TypeOK
<1>5. wanted \in Nat /\ \A v \in FanIn : d[v] \in Nat
  BY <1>4 DEF TypeOK
<1>6. ASSUME NEW v \in FanIn, d[v] = wanted PROVE v \in used
  <2>1. CASE FromOutputs(wanted)
    <3> DEFINE C == {y \in FanIn : y \in used \/ d[y] < wanted}
    <3>1. Neighbours = ins /\ Starts(wanted) = Outputs
      BY <2>1 DEF Neighbours, Starts
    <3>2. Outputs \subseteq C
      BY <1>1, <1>4, <3>1
    <3>3. ASSUME NEW y \in C, NEW z \in Range(ins[y]) PROVE z \in C
      <4>1. z \in FanIn /\ d[z] < d[y] /\ d[z] \in Nat /\ d[y] \in Nat
        BY <1>4, <1>5 DEF Distance
      <4>2. CASE d[y] <= wanted
        BY <1>5, <4>1, <4>2
      <4>3. CASE ~(d[y] <= wanted)
        <5>1. y \in used /\ level[y] # wanted
          BY <1>2, <1>5, <4>1, <4>3
        <5> QED BY <1>1, <1>3, <3>1, <4>1, <5>1
      <4> QED BY <4>2, <4>3
    <3>4. FanIn \subseteq C
      <4>1. C \in SUBSET standing
        BY <1>4
      <4> HIDE DEF C
      <4> QED BY <1>4, <3>2, <3>3, <4>1
    <3> QED BY <1>5, <1>6, <3>4
  <2>2. CASE ~FromOutputs(wanted)
    <3> DEFINE Missing == {y \in FanIn : y \notin used /\ d[y] <= wanted}
               T == {d[y] : y \in Missing}
    <3>1. Neighbours = outs /\ Starts(wanted) = Of({"input", "constant"})
      BY <2>2 DEF Neighbours, Starts
    <3>2. Missing = {}
      <4>1. SUFFICES ASSUME Missing # {} PROVE FALSE
        OBVIOUS
      <4>2. PICK y \in Missing : \A z \in Missing : d[y] <= d[z]
        <5>1. T \subseteq Nat /\ T # {}
          BY <1>5, <4>1
        <5> HIDE DEF T
        <5>2. PICK m \in T : \A k \in T : m <= k
          BY <5>1, Least
        <5> QED BY <5>2 DEF T
      <4>3. Kind[y] \notin {"input", "constant"}
        <5>1. y \notin Of({"input", "constant"})
          BY <1>1, <3>1
        <5> QED BY <1>4, <5>1 DEF Of
      <4>4. ins[y] # <<>>
        BY <4>3 DEF Driven
      <4>5. PICK z \in Range(ins[y]) : d[y] = d[z] + 1
        BY <4>4 DEF Distance
      <4>6. z \in FanIn /\ d[z] \in Nat /\ d[y] \in Nat /\ d[y] <= wanted
        BY <1>4, <1>5
      <4>7. z \in used /\ d[z] # wanted
        <5>1. ~(d[y] <= d[z]) /\ d[z] <= wanted /\ d[z] # wanted
          BY <1>5, <4>5, <4>6
        <5> QED BY <4>2, <4>6, <5>1
      <4>8. y \in Range(outs[z])
        BY <1>4, <4>5, <4>6 DEF Paired
      <4>9. y \in used
        BY <1>1, <1>2, <1>3, <3>1, <4>6, <4>7, <4>8
      <4> QED BY <4>9
    <3> QED BY <1>5, <1>6, <3>2
  <2> QED BY <2>1, <2>2
<1> QED BY <1>1, <1>2, <1>6

LEMMA SearchEndStep ==
    ASSUME Flat, TypeOK, Paired, Phases, Clean, SearchEnd
    PROVE  TypeOK' /\ Paired' /\ Phases' /\ Clean'
<1>1. /\ phase = "search" /\ stack = <<>> /\ roots = {} /\ UNCHANGED graph
      /\ phase' = "idle" /\ used' = used \ standing
      /\ answer' = [call |-> "byLevel", level |-> wanted, found |-> found]
      /\ wanted' = 0 /\ found' = {} /\ level' = level /\ calc' = calc /\ purging' = purging
      /\ roots' = roots /\ stack' = stack /\ trust' = trust
  BY FlatBucketed DEF SearchEnd, UsedAfter
<1>2. /\ Vertex' = Vertex /\ Kind' = Kind /\ FanIn' = FanIn /\ Paired'
      /\ Inner' = Inner /\ (Driven' <=> Driven)
      /\ \A d : Distance(d)' <=> Distance(d)
      /\ standing' \subseteq Vertex /\ ins' \in [Vertex -> Seq(Vertex)]
      /\ outs' \in [Vertex -> Seq(Vertex)] /\ net' \in Nets /\ ins' = ins /\ standing' = standing
  BY <1>1, SameGraph DEF graph
<1>3. used' = {}
  BY <1>1 DEF TypeOK
<1>4. TypeOK'
  <2>1. Frame' = Frame
    BY <1>2 DEF Frame
  <2> QED BY <1>1, <1>2, <1>3, <2>1 DEF TypeOK
<1>5. Phases'
  BY <1>1, <1>2, <1>3 DEF Phases
<1>6. ASSUME trust' = "clean" PROVE Clean'
  <2>1. Flagged /\ Settled' = Settled
    BY <1>1, <1>6 DEF Clean, Settled, InProgress
  <2>2. Flagged' /\ Walking' /\ Searching'
    BY <1>1, <1>2, <2>1 DEF Flagged, Walking, Searching
  <2>3. ASSUME NEW d \in [Vertex -> Nat], Distance(d)' PROVE Measured(d)' /\ Answered(d)'
    <3>1. Distance(d) /\ Measured(d)
      BY <1>1, <1>2, <1>6, <2>3 DEF Clean
    <3>2. Measured(d)'
      BY <1>1, <1>2, <2>1, <3>1 DEF Measured
    <3>3. Answered(d)'
      <4>1. Driven /\ wanted > 0 => found = {v \in FanIn : d[v] = wanted}
        BY <1>1, <1>6, <3>1, SearchIsComplete
      <4>2. answer'.level = wanted /\ answer'.found = found
        BY <1>1
      <4> QED BY <1>2, <4>1, <4>2 DEF Answered
    <3> QED BY <3>2, <3>3
  <2> QED BY <1>2, <2>2, <2>3 DEF Clean
<1>7. trust' # "clean" => Clean'
  BY DEF Clean
<1> QED BY <1>2, <1>4, <1>5, <1>6, <1>7

-----------------------------------------------------------------------------
(* removeWasteVertices.                                                    *)

\* Vertices that go take their edges along, and nothing else.
LEMMA UnlinkStep ==
    ASSUME Flat, TypeOK, Paired, NEW gone, gone \subseteq standing,
           standing' = standing \ gone, net' = net,
           ins' = Unlinked(ins, gone), outs' = Unlinked(outs, gone)
    PROVE  /\ Vertex' = Vertex /\ Kind' = Kind /\ net' \in Nets /\ Paired'
           /\ standing' \subseteq Vertex
           /\ ins' \in [Vertex -> Seq(Vertex)] /\ outs' \in [Vertex -> Seq(Vertex)]
           /\ \A v \in standing' : Range(ins'[v]) = Range(ins[v]) \ gone
           /\ \A v \in Vertex \ gone : Range(ins[v]) \cap gone = {} => ins'[v] = ins[v]
           /\ \A v \in Vertex \ gone : Range(outs[v]) \cap gone = {} => outs'[v] = outs[v]
<1>1. Vertex' = Vertex /\ Kind' = Kind /\ net' \in Nets
  BY DEF Vertex, Kind, TypeOK
<1>2. IsFiniteSet(Vertex) /\ gone \subseteq Vertex
  BY FlatFacts DEF TypeOK
<1>3. /\ ins \in [Vertex -> Seq(Vertex)] /\ outs \in [Vertex -> Seq(Vertex)]
      /\ \A v \in Vertex : IsInjective(ins[v]) /\ IsInjective(outs[v])
  BY DEF TypeOK, Paired
<1>4. /\ ins' \in [Vertex -> Seq(Vertex)]
      /\ \A v \in Vertex : IsInjective(ins'[v])
      /\ \A v \in gone : ins'[v] = <<>>
      /\ \A v \in Vertex \ gone : Range(ins'[v]) = Range(ins[v]) \ gone
      /\ \A v \in Vertex \ gone : Range(ins[v]) \cap gone = {} => ins'[v] = ins[v]
  <2>1. CutAway(ins, gone, ins')
    BY <1>2, <1>3, UnlinkedFacts
  <2> QED BY <2>1 DEF CutAway
<1>5. /\ outs' \in [Vertex -> Seq(Vertex)]
      /\ \A v \in Vertex : IsInjective(outs'[v])
      /\ \A v \in gone : outs'[v] = <<>>
      /\ \A v \in Vertex \ gone : Range(outs'[v]) = Range(outs[v]) \ gone
      /\ \A v \in Vertex \ gone : Range(outs[v]) \cap gone = {} => outs'[v] = outs[v]
  <2>1. CutAway(outs, gone, outs')
    BY <1>2, <1>3, UnlinkedFacts
  <2> QED BY <2>1 DEF CutAway
<1>6. standing' \subseteq Vertex /\ standing' \subseteq Vertex \ gone
  BY DEF TypeOK
<1>7. \A v \in gone : Range(ins'[v]) = {} /\ Range(outs'[v]) = {}
  BY <1>4, <1>5 DEF Range
<1>8. \A u, v \in Vertex :
         /\ u \in Range(ins'[v]) <=> u \in Range(ins[v]) /\ u \notin gone /\ v \notin gone
         /\ v \in Range(outs'[u]) <=> v \in Range(outs[u]) /\ u \notin gone /\ v \notin gone
  <2> SUFFICES ASSUME NEW u \in Vertex, NEW v \in Vertex
               PROVE  /\ u \in Range(ins'[v]) <=> u \in Range(ins[v]) /\ u \notin gone /\ v \notin gone
                      /\ v \in Range(outs'[u]) <=> v \in Range(outs[u]) /\ u \notin gone /\ v \notin gone
    OBVIOUS
  <2>1. u \in Range(ins'[v]) <=> u \in Range(ins[v]) /\ u \notin gone /\ v \notin gone
    BY <1>4, <1>7
  <2>2. v \in Range(outs'[u]) <=> v \in Range(outs[u]) /\ u \notin gone /\ v \notin gone
    BY <1>5, <1>7
  <2> QED BY <2>1, <2>2
<1>9. Paired'
  BY <1>1, <1>4, <1>5, <1>8 DEF Paired
<1> QED BY <1>1, <1>4, <1>5, <1>6, <1>9

LEMMA RemoveEmptyStep ==
    ASSUME Flat, TypeOK, Paired, Phases, Clean, RemoveEmptyLogicVertices
    PROVE  TypeOK' /\ Paired' /\ Phases' /\ Clean'
<1> DEFINE gone == standing \ Supported
<1>1. /\ phase = "idle" /\ ~purging /\ purging' = TRUE /\ standing' = Supported /\ net' = net
      /\ ins' = Unlinked(ins, gone) /\ outs' = Unlinked(outs, gone)
      /\ answer' = NoAnswer /\ UNCHANGED cache
      /\ gone = {} => trust' = trust
      /\ gone # {} => Edited
      /\ phase' = phase /\ roots' = roots /\ stack' = stack /\ wanted' = wanted /\ found' = found
  BY DEF RemoveEmptyLogicVertices, Idle, walk
<1>2. Supported \subseteq standing
  BY DEF Supported
<1>3. gone \subseteq standing /\ standing' = standing \ gone
  BY <1>1, <1>2
<1>4. \A v \in Supported : Kind[v] \in {"gate", "sequential"} => Range(ins[v]) \cap Supported # {}
  BY DEF Supported
<1>5. \A v \in Supported : v \notin gone
  OBVIOUS
<1>6. \A u \in Supported : u \notin gone
  OBVIOUS
<1> HIDE DEF gone
<1>7. /\ Vertex' = Vertex /\ Kind' = Kind /\ net' \in Nets /\ Paired'
      /\ standing' \subseteq Vertex
      /\ ins' \in [Vertex -> Seq(Vertex)] /\ outs' \in [Vertex -> Seq(Vertex)]
      /\ \A v \in standing' : Range(ins'[v]) = Range(ins[v]) \ gone
      /\ \A v \in Vertex \ gone : Range(ins[v]) \cap gone = {} => ins'[v] = ins[v]
      /\ \A v \in Vertex \ gone : Range(outs[v]) \cap gone = {} => outs'[v] = outs[v]
  BY <1>1, <1>3, UnlinkStep
<1>8. used = {} /\ found = {} /\ roots = {} /\ stack = <<>>
  BY <1>1 DEF Phases
<1>9. level' = level /\ calc' = calc /\ used' = used
  BY <1>1 DEF cache
<1>10. Phases'
  <2>1. ASSUME NEW v \in Inner' PROVE ins'[v] # <<>>
    <3>1. v \in Supported /\ Kind[v] \in {"gate", "sequential", "subGraph"} /\ v \in Vertex
      BY <1>1, <1>7 DEF Inner, Of
    <3>2. Kind[v] \in {"gate", "sequential"}
      BY <3>1 DEF Flat
    <3>3. Range(ins'[v]) # {}
      BY <1>1, <1>4, <1>6, <1>7, <3>1, <3>2
    <3> QED BY <3>3 DEF Range
  <2> QED BY <1>1, <1>8, <1>9, <2>1 DEF Phases
<1>11. ASSUME gone # {} PROVE trust' \in {"clean", "reset", "stale"} /\ Clean'
  BY <1>1, <1>7, <1>11, EditedFacts
<1>12. ASSUME gone = {} PROVE trust' \in {"clean", "reset", "stale"} /\ Clean'
  <2>1. ins' = ins /\ outs' = outs /\ standing' = standing
    <3>1. \A v \in Vertex : ins'[v] = ins[v] /\ outs'[v] = outs[v]
      BY <1>7, <1>12
    <3> QED BY <1>3, <1>7, <1>12, <3>1 DEF TypeOK
  <2>2. FanIn' = FanIn /\ \A d : Distance(d)' <=> Distance(d)
    BY <1>1, <2>1, SameGraph DEF graph
  <2>3. ASSUME trust' = "clean" PROVE Clean'
    <3>1. Flagged /\ Settled' = Settled
      BY <1>1, <1>9, <1>12, <2>3 DEF Clean, Settled, InProgress
    <3>2. Flagged' /\ Walking' /\ Searching'
      BY <1>1, <1>7, <1>9, <2>1, <2>2, <3>1 DEF Flagged, Walking, Searching
    <3>3. ASSUME NEW d \in [Vertex -> Nat], Distance(d)' PROVE Measured(d)' /\ Answered(d)'
      <4>1. Measured(d)
        BY <1>1, <1>12, <2>2, <2>3, <3>3 DEF Clean
      <4>2. Measured(d)'
        BY <1>1, <1>9, <2>2, <3>1, <4>1 DEF Measured
      <4> QED BY <1>1, <4>2 DEF Answered, NoAnswer
    <3> QED BY <1>7, <3>2, <3>3 DEF Clean
  <2>4. trust' # "clean" => Clean'
    BY DEF Clean
  <2> QED BY <1>1, <1>12, <2>3, <2>4 DEF TypeOK
<1>13. TypeOK'
  <2>1. Frame' = Frame
    BY <1>7 DEF Frame
  <2> QED BY <1>1, <1>7, <1>8, <1>9, <1>11, <1>12, <2>1 DEF TypeOK
<1> QED BY <1>7, <1>10, <1>11, <1>12, <1>13

\* Once the levels are there, the waste is what no output reads.
LEMMA WasteFacts ==
    ASSUME Flat, TypeOK, Paired, Phases, Clean, Updated, purging, trust = "clean"
    PROVE  /\ Waste \cap FanIn = {}
           /\ Inner \ Waste = Inner \cap FanIn
           /\ Waste \cap Outputs = {}
<1> DEFINE zero == {v \in Inner : level[v] = 0}
           bufs == {b \in Of({"buffer"}) : \E v \in zero : b \in Range(outs[v])}
           read == {u \in standing : Range(outs[u]) \ zero # {}}
           sources == Of({"input", "constant"})
<1>1. Waste = zero \cup bufs \cup (sources \ read)
  BY DEF Waste
<1>2. bufs = {}
  <2>1. \A v \in Vertex : Kind[v] # "buffer"
    BY FlatFacts DEF TypeOK
  <2>2. Of({"buffer"}) = {}
    BY <2>1 DEF Of, TypeOK
  <2> QED BY <2>2
<1>3. /\ FanIn \subseteq standing /\ FanIn \subseteq Vertex /\ Outputs \subseteq FanIn
      /\ \A v \in FanIn : Range(ins[v]) \subseteq FanIn
      /\ \A S \in SUBSET standing :
           Outputs \subseteq S /\ (\A v \in S : Range(ins[v]) \subseteq S) => FanIn \subseteq S
  BY FanInFacts DEF TypeOK
<1>4. \A v \in Inner : level[v] # 0 <=> v \in FanIn
  <2>1. \A v \in FanIn : ins[v] # <<>> => level[v] # 0
    BY UpdatedFacts
  <2>2. \A v \in Inner : ins[v] # <<>> /\ v \in Vertex
    BY DEF Phases, Inner, Of, TypeOK
  <2>3. \A v \in Vertex : level[v] # 0 => v \in FanIn
    BY DEF Clean, Flagged
  <2> QED BY <2>1, <2>2, <2>3
<1>5. zero \cap FanIn = {} /\ Inner \ zero = Inner \cap FanIn
  BY <1>4
<1>6. sources \cap Inner = {} /\ sources \cap Outputs = {} /\ Inner \cap Outputs = {}
  BY DEF Of, Inner, Outputs
<1>7. ASSUME NEW u \in sources, u \in FanIn PROVE u \in read
  <2> DEFINE S == FanIn \ {u}
  <2>1. Outputs \subseteq S /\ S \in SUBSET standing
    BY <1>3, <1>6
  <2>2. ~(FanIn \subseteq S)
    BY <1>7
  <2>3. PICK w \in S : ~(Range(ins[w]) \subseteq S)
    BY <1>3, <2>1, <2>2
  <2>4. w \in FanIn /\ u \in Range(ins[w])
    BY <1>3, <2>3
  <2>5. w \in Range(outs[u])
    BY <1>3, <1>7, <2>4 DEF Paired
  <2>6. w \notin zero
    BY <1>5, <2>4
  <2> QED BY <1>3, <1>7, <2>5, <2>6
<1> HIDE DEF zero, bufs, read, sources
<1>8. zero \subseteq Inner
  BY DEF zero
<1> QED BY <1>1, <1>2, <1>5, <1>6, <1>7, <1>8

LEMMA RemoveWasteStep ==
    ASSUME Flat, TypeOK, Paired, Phases, Clean, RemoveWasteVertices
    PROVE  TypeOK' /\ Paired' /\ Phases' /\ Clean'
<1>1. /\ Updated /\ phase = "levels" /\ roots = {} /\ stack = <<>> /\ purging
      /\ phase' = "idle" /\ purging' = FALSE /\ standing' = standing \ Waste
      /\ ins' = Unlinked(ins, Waste) /\ outs' = Unlinked(outs, Waste)
      /\ answer' = [call |-> "waste"] /\ net' = net
      /\ level' = level /\ calc' = calc /\ used' = used
      /\ roots' = roots /\ stack' = stack /\ wanted' = wanted /\ found' = found /\ trust' = trust
  BY DEF RemoveWasteVertices, Updated, cache
<1>2. Waste \subseteq standing
  BY DEF Waste, Inner, Of
<1>3. /\ Vertex' = Vertex /\ Kind' = Kind /\ net' \in Nets /\ Paired'
      /\ standing' \subseteq Vertex
      /\ ins' \in [Vertex -> Seq(Vertex)] /\ outs' \in [Vertex -> Seq(Vertex)]
      /\ \A v \in standing' : Range(ins'[v]) = Range(ins[v]) \ Waste
      /\ \A v \in Vertex \ Waste : Range(ins[v]) \cap Waste = {} => ins'[v] = ins[v]
  BY <1>1, <1>2, UnlinkStep
<1>4. used = {} /\ found = {}
  BY <1>1 DEF Phases
<1>5. TypeOK'
  <2>1. Frame' = Frame
    BY <1>3 DEF Frame
  <2> QED BY <1>1, <1>3, <1>4, <2>1 DEF TypeOK
<1>6. Phases'
  BY <1>1, <1>4 DEF Phases
<1>7. ASSUME trust' = "clean" PROVE Clean'
  <2>1. Waste \cap FanIn = {} /\ Waste \cap Outputs = {}
    BY <1>1, <1>7, WasteFacts
  <2>2. /\ FanIn \subseteq standing /\ FanIn \subseteq Vertex /\ Outputs \subseteq FanIn
        /\ \A v \in FanIn : Range(ins[v]) \subseteq FanIn
        /\ \A S \in SUBSET standing :
             Outputs \subseteq S /\ (\A v \in S : Range(ins[v]) \subseteq S) => FanIn \subseteq S
    BY FanInFacts DEF TypeOK
  <2>3. \A v \in FanIn : ins'[v] = ins[v]
    BY <1>3, <2>1, <2>2
  <2>4. Outputs' = Outputs
    BY <1>1, <1>3, <2>1 DEF Outputs, Of
  <2>5. FanIn' = FanIn
    <3> DEFINE Held(S) == Outputs' \subseteq S /\ \A w \in S : Range(ins'[w]) \subseteq S
    <3>1. FanIn' = {v \in standing' : \A S \in SUBSET standing' : Held(S) => v \in S}
      BY DEF FanIn
    <3>2. FanIn' \subseteq FanIn
      <4>1. FanIn \in SUBSET standing' /\ Held(FanIn)
        BY <1>1, <2>1, <2>2, <2>3, <2>4
      <4> QED BY <3>1, <4>1
    <3>3. FanIn \subseteq FanIn'
      <4> SUFFICES ASSUME NEW S \in SUBSET standing', Held(S) PROVE FanIn \subseteq S
        <5>1. FanIn \subseteq standing'
          BY <1>1, <2>1, <2>2
        <5> QED BY <3>1, <5>1
      <4> DEFINE R == S \cap FanIn
      <4>1. R \in SUBSET standing /\ Outputs \subseteq R
        BY <1>1, <2>2, <2>4
      <4>2. \A w \in R : Range(ins[w]) \subseteq R
        BY <2>2, <2>3
      <4>3. FanIn \subseteq R
        <5> HIDE DEF R
        <5> QED BY <2>2, <4>1, <4>2
      <4> QED BY <4>3
    <3> QED BY <3>2, <3>3
  <2>6. \A d : Distance(d)' => Distance(d)
    BY <2>3, <2>5 DEF Distance
  <2>7. Flagged /\ Settled = calc /\ Settled' = Settled /\ calc = FanIn
    <3>1. Flagged /\ Settled = calc /\ calc = FanIn
      BY <1>1, <1>7, UpdatedFacts DEF Clean
    <3>2. Settled' = calc
      BY <1>1 DEF Settled, InProgress
    <3> QED BY <3>1, <3>2
  <2>8. Flagged'
    BY <1>1, <1>3, <2>3, <2>5, <2>7 DEF Flagged
  <2>9. Walking' /\ Searching'
    BY <1>1 DEF Walking, Searching
  <2>10. ASSUME NEW d \in [Vertex -> Nat], Distance(d)' PROVE Measured(d)' /\ Answered(d)'
    <3>1. Measured(d)
      BY <1>1, <1>7, <2>6, <2>10 DEF Clean
    <3>2. Measured(d)'
      BY <1>1, <2>5, <2>7, <3>1 DEF Measured
    <3>3. Answered(d)'
      BY <1>1 DEF Answered
    <3> QED BY <3>2, <3>3
  <2> QED BY <1>3, <2>8, <2>9, <2>10 DEF Clean
<1>8. trust' # "clean" => Clean'
  BY DEF Clean
<1> QED BY <1>3, <1>5, <1>6, <1>7, <1>8

-----------------------------------------------------------------------------
(* Theorems.                                                               *)

LEMMA NetStays ==
    ASSUME [Next]_vars
    PROVE  net' = net /\ (Flat' <=> Flat)
<1>1. net' = net
  BY DEF Next, vars, graph, AddEdge, RemoveEdge, ClearNeedUpdateStates, UpdateLevelsBegin,
         UpdateOutput, UpdateDriver, UpdateReturn, UpdateLevelsEnd, GetVerticesByLevel,
         SearchStart, SearchNext, SearchReturn, SearchEnd, RemoveEmptyLogicVertices,
         RemoveWasteVertices
<1> QED BY <1>1 DEF Flat, Vertex, Kind

LEMMA StutterStep ==
    ASSUME Flat, TypeOK, Paired, Phases, Clean, UNCHANGED vars
    PROVE  TypeOK' /\ Paired' /\ Phases' /\ Clean'
<1>1. /\ UNCHANGED graph
      /\ level' = level /\ calc' = calc /\ used' = used /\ answer' = answer /\ purging' = purging
      /\ phase' = phase /\ roots' = roots /\ stack' = stack /\ wanted' = wanted
      /\ found' = found /\ trust' = trust
  BY DEF vars, walk, graph
<1>2. /\ Vertex' = Vertex /\ FanIn' = FanIn /\ Paired' /\ (Driven' <=> Driven)
      /\ Outputs' = Outputs /\ Inner' = Inner
      /\ \A d : Distance(d)' <=> Distance(d)
      /\ ins' = ins /\ outs' = outs /\ standing' = standing /\ net' = net
  BY <1>1, SameGraph DEF graph
<1>3. TypeOK' /\ Phases'
  BY <1>1, <1>2 DEF TypeOK, Frame, Phases
<1>4. Settled' = Settled
  BY <1>1 DEF Settled, InProgress
<1>5. ASSUME trust' = "clean" PROVE Clean'
  <2>1. Searching'
    <3>1. Searching
      BY <1>1, <1>5 DEF Clean
    <3>2. Neighbours' = Neighbours /\ Starts(wanted)' = Starts(wanted)
      BY <1>1, SameSearch
    <3> QED BY <1>1, <1>2, <3>1, <3>2 DEF Searching, Behind
  <2>2. Flagged' /\ Walking'
    BY <1>1, <1>2, <1>4, <1>5 DEF Clean, Flagged, Walking
  <2>3. ASSUME NEW d \in [Vertex -> Nat], Distance(d)' PROVE Measured(d)' /\ Answered(d)'
    <3>1. Measured(d) /\ Answered(d)
      BY <1>1, <1>2, <1>5, <2>3 DEF Clean
    <3> QED BY <1>1, <1>2, <1>4, <3>1 DEF Measured, Answered
  <2> QED BY <1>2, <2>1, <2>2, <2>3 DEF Clean
<1>6. trust' # "clean" => Clean'
  BY DEF Clean
<1> QED BY <1>2, <1>3, <1>5, <1>6

LEMMA NextLevelInv ==
    ASSUME Flat, TypeOK, Paired, Phases, Clean, [Next]_vars
    PROVE  TypeOK' /\ Paired' /\ Phases' /\ Clean'
<1>1. ASSUME NEW e \in net.wires, {e[1], e[2]} \subseteq standing, AddEdge(e[1], e[2])
      PROVE  TypeOK' /\ Paired' /\ Phases' /\ Clean'
  BY <1>1, AddEdgeStep
<1>2. ASSUME NEW e \in net.wires, {e[1], e[2]} \subseteq standing, RemoveEdge(e[1], e[2])
      PROVE  TypeOK' /\ Paired' /\ Phases' /\ Clean'
  BY <1>2, RemoveEdgeStep
<1>3. CASE ClearNeedUpdateStates
  BY <1>3, ClearStep
<1>4. CASE UpdateLevelsBegin
  BY <1>4, UpdateLevelsBeginStep
<1>5. CASE UpdateOutput
  BY <1>5, UpdateOutputStep
<1>6. CASE UpdateDriver
  BY <1>6, UpdateDriverStep
<1>7. CASE UpdateReturn
  BY <1>7, UpdateReturnStep
<1>8. CASE UpdateLevelsEnd
  BY <1>8, UpdateLevelsEndStep
<1>9. ASSUME NEW l \in 0..MaxLevel, GetVerticesByLevel(l)
      PROVE  TypeOK' /\ Paired' /\ Phases' /\ Clean'
  BY <1>9, GetVerticesByLevelStep
<1>10. CASE SearchStart
  BY <1>10, SearchStartStep
<1>11. CASE SearchNext
  BY <1>11, SearchNextStep
<1>12. CASE SearchReturn
  BY <1>12, SearchReturnStep
<1>13. CASE SearchEnd
  BY <1>13, SearchEndStep
<1>14. CASE RemoveEmptyLogicVertices
  BY <1>14, RemoveEmptyStep
<1>15. CASE RemoveWasteVertices
  BY <1>15, RemoveWasteStep
<1>16. CASE UNCHANGED vars
  BY <1>16, StutterStep
<1> QED BY <1>1, <1>2, <1>3, <1>4, <1>5, <1>6, <1>7, <1>8, <1>9, <1>10, <1>11, <1>12, <1>13,
           <1>14, <1>15, <1>16 DEF Next

(* Without instances, whatever is edited, reset, searched and deleted in   *)
(* whatever order, the edges agree on both ends; and as long as no edge    *)
(* was edited after the first level was cached, only the fan-in of the     *)
(* outputs has levels, none too high, and every updateLevel that returned  *)
(* left an exact one.                                                      *)
THEOREM LevelInvariant == Spec => []LevelInv
<1>1. Init => LevelInv
  BY InitLevelInv DEF LevelInv
<1>2. LevelInv /\ [Next]_vars => LevelInv'
  <2> SUFFICES ASSUME LevelInv, [Next]_vars, Flat' PROVE (TypeOK /\ Paired /\ Phases /\ Clean)'
    BY DEF LevelInv
  <2>1. Flat /\ TypeOK /\ Paired /\ Phases /\ Clean
    BY NetStays DEF LevelInv
  <2> QED BY <2>1, NextLevelInv
<1> QED BY <1>1, <1>2, PTL DEF Spec

(* updateLevels leaves in every vertex whose call has returned the longest *)
(* distance from the inputs, in every graph without cycles and instances   *)
(* that was not edited since levels were first cached.                     *)
THEOREM SpecLevelsExact == Spec => []LevelsExact
<1>1. LevelInv => LevelsExact
  <2> SUFFICES ASSUME LevelInv, Flat, trust = "clean", Acyclic
               PROVE  \A v \in (FanIn \cap calc) \ InProgress : level[v] = Depth[v]
    BY DEF LevelsExact, Exact
  <2>1. TypeOK /\ Paired /\ Clean
    BY DEF LevelInv
  <2>2. IsFiniteSet(Vertex)
    BY <2>1, FlatFacts DEF TypeOK
  <2>3. Depth \in [Vertex -> Nat] /\ Distance(Depth)
    BY <2>1, <2>2, DepthFacts
  <2>4. Measured(Depth)
    BY <2>1, <2>3 DEF Clean
  <2> QED BY <2>4 DEF Measured, Settled
<1> QED BY <1>1, LevelInvariant, PTL

(* There getVerticesByLevel returns every vertex of the fan-in that has    *)
(* the level and no other, whichever side the search started from.         *)
THEOREM SpecByLevelComplete == Spec => []ByLevelComplete
<1>1. LevelInv => ByLevelComplete
  <2> SUFFICES ASSUME LevelInv, Flat, trust = "clean", Acyclic, Driven,
                      answer.call = "byLevel", answer.level > 0
               PROVE  answer.found = {v \in FanIn : Depth[v] = answer.level}
    BY DEF ByLevelComplete
  <2>1. TypeOK /\ Paired /\ Clean
    BY DEF LevelInv
  <2>2. IsFiniteSet(Vertex)
    BY <2>1, FlatFacts DEF TypeOK
  <2>3. Depth \in [Vertex -> Nat] /\ Distance(Depth)
    BY <2>1, <2>2, DepthFacts
  <2>4. Answered(Depth)
    BY <2>1, <2>3 DEF Clean
  <2> QED BY <2>4 DEF Answered
<1> QED BY <1>1, LevelInvariant, PTL

(* removeWasteVertices deletes there the gates and cells without a path to *)
(* an output and no others, cycles or not.                                 *)
THEOREM SpecWasteExactFlat == Spec => WasteExactFlat
<1>1. LevelInv /\ [Next]_vars =>
        [Flat /\ purging /\ ~purging' /\ trust = "clean" => Inner' = Inner \cap FanIn]_vars
  <2> SUFFICES ASSUME LevelInv, [Next]_vars, Flat, purging, ~purging', trust = "clean"
               PROVE  Inner' = Inner \cap FanIn
    OBVIOUS
  <2>1. TypeOK /\ Paired /\ Phases /\ Clean
    BY DEF LevelInv
  <2>2. RemoveWasteVertices
    BY DEF Next, vars, AddEdge, RemoveEdge, ClearNeedUpdateStates, UpdateLevelsBegin,
           UpdateOutput, UpdateDriver, UpdateReturn, UpdateLevelsEnd, GetVerticesByLevel,
           SearchStart, SearchNext, SearchReturn, SearchEnd, RemoveEmptyLogicVertices
  <2>3. Updated /\ standing' = standing \ Waste /\ net' = net
    BY <2>2 DEF RemoveWasteVertices
  <2>4. Inner' = Inner \ Waste
    BY <2>3 DEF Inner, Of, Kind
  <2> QED BY <2>1, <2>3, <2>4, WasteFacts
<1> QED BY <1>1, LevelInvariant, PTL DEF Spec, WasteExactFlat
=============================================================================
