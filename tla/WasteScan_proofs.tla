--------------------------- MODULE WasteScan_proofs ---------------------------
(***************************************************************************)
(* The scan is right for every graph, every assignment of levels and every *)
(* order of the buckets, as long as no bucket holds as many vertices as    *)
(* counterForResize has values.                                            *)
(***************************************************************************)
EXTENDS WasteScan, SequenceLemmas

SmallBuckets == \A t \in Scanned : Len(Bucket[t]) < CounterValues

\* A bucket holds vertices of its own kind, each once, among them every one
\* that stands.
BucketSound(t) ==
    /\ IsInjective(bucket[t])
    /\ Len(bucket[t]) < CounterValues
    /\ \A v \in Range(bucket[t]) : Kind[v] = t
    /\ \A v \in standing : Kind[v] = t => v \in Range(bucket[t])

\* The destroyed vertices of the bucket being scanned are its last ones, as
\* many as the counter says.
TailDestroyed ==
    /\ counter <= Len(bucket[Type])
    /\ iter <= Limit
    /\ \A j \in 1..Len(bucket[Type]) : bucket[Type][j] \in standing <=> j < Limit

ScanIInv ==
    /\ ScanTypeOK
    /\ NeverReadsDestroyed
    /\ \A t \in Scanned : BucketSound(t)
    /\ turn <= Len(Order) => TailDestroyed
    /\ \A t \in Scanned : (turn > Len(Order) \/ t # Type) => Range(bucket[t]) \subseteq standing

LEMMA OrderFacts ==
    /\ Len(Order) = 5
    /\ \A i \in 1..5 : Order[i] \in Scanned
    /\ Scanned = Inner \cup Terminal
BY DEF Order, Scanned, Range, Inner, Terminal

(* Swapping two entries keeps a vector's elements.                         *)
LEMMA SwapFacts ==
    ASSUME NEW S, NEW s \in Seq(S), IsInjective(s), NEW i \in 1..Len(s), NEW j \in 1..Len(s)
    PROVE  /\ Swap(s, i, j) \in Seq(S)
           /\ Len(Swap(s, i, j)) = Len(s)
           /\ IsInjective(Swap(s, i, j))
           /\ Range(Swap(s, i, j)) = Range(s)
           /\ Swap(s, i, j)[i] = s[j] /\ Swap(s, i, j)[j] = s[i]
           /\ \A k \in 1..Len(s) : k # i /\ k # j => Swap(s, i, j)[k] = s[k]
<1> DEFINE r == Swap(s, i, j)
<1>1. DOMAIN s = 1..Len(s) /\ Len(s) \in Nat
  OBVIOUS
<1>2. r \in Seq(S) /\ Len(r) = Len(s) /\ DOMAIN r = 1..Len(s)
  BY <1>1 DEF Swap
<1>3. /\ r[i] = s[j] /\ r[j] = s[i]
      /\ \A k \in 1..Len(s) : k # i /\ k # j => r[k] = s[k]
  BY <1>1 DEF Swap
<1> HIDE DEF r
<1>4. IsInjective(r)
  BY <1>1, <1>2, <1>3 DEF IsInjective
<1>5. Range(r) = Range(s)
  <2>1. \A x \in Range(r) : x \in Range(s)
    BY <1>1, <1>2, <1>3 DEF Range
  <2>2. \A x \in Range(s) : x \in Range(r)
    BY <1>1, <1>2, <1>3 DEF Range
  <2> QED BY <2>1, <2>2
<1> QED BY <1>2, <1>3, <1>4, <1>5 DEF r

(* The same for any two positions of a bucket.                             *)
LEMMA VertexSwapFacts ==
    \A s \in Seq(Vertex) : IsInjective(s) =>
      \A i, j \in 1..Len(s) :
        /\ Swap(s, i, j) \in Seq(Vertex) /\ Len(Swap(s, i, j)) = Len(s)
        /\ IsInjective(Swap(s, i, j)) /\ Range(Swap(s, i, j)) = Range(s)
        /\ Swap(s, i, j)[i] = s[j] /\ Swap(s, i, j)[j] = s[i]
        /\ \A k \in 1..Len(s) : k # i /\ k # j => Swap(s, i, j)[k] = s[k]
<1> SUFFICES ASSUME NEW s \in Seq(Vertex), IsInjective(s),
                    NEW i \in 1..Len(s), NEW j \in 1..Len(s)
             PROVE  /\ Swap(s, i, j) \in Seq(Vertex) /\ Len(Swap(s, i, j)) = Len(s)
                    /\ IsInjective(Swap(s, i, j)) /\ Range(Swap(s, i, j)) = Range(s)
                    /\ Swap(s, i, j)[i] = s[j] /\ Swap(s, i, j)[j] = s[i]
                    /\ \A k \in 1..Len(s) : k # i /\ k # j => Swap(s, i, j)[k] = s[k]
  OBVIOUS
<1> QED BY SwapFacts


LEMMA ScanInitInvariant == SmallBuckets /\ ScanInit => ScanIInv
<1> SUFFICES ASSUME SmallBuckets, ScanInit PROVE ScanIInv
  OBVIOUS
<1>1. /\ standing = Vertex /\ edges \in Graphs /\ zero \in Levels0 /\ bucket = Bucket
      /\ turn = 1 /\ iter = 1 /\ counter = 0 /\ gates = Len(Bucket["gate"]) /\ dead = FALSE
  BY DEF ScanInit, Init
<1>2. \A t \in Scanned : /\ bucket[t] \in Seq(Vertex)
                         /\ Len(bucket[t]) \in Nat
                         /\ Range(bucket[t]) \subseteq standing
  BY <1>1, WasteScanAssumption, RangeInside
<1>3. ScanTypeOK
  <2>1. Len(Bucket["gate"]) \in Int
    BY <1>1, <1>2, OrderFacts DEF Inner
  <2>2. edges \subseteq Vertex \X Vertex /\ zero \subseteq Vertex
    BY <1>1, WasteRemovalAssumption
  <2>3. turn \in 1..(Len(Order) + 1)
    BY <1>1, OrderFacts
  <2>4. iter \in Nat \ {0} /\ counter \in 0..(CounterValues - 1)
    BY <1>1, WasteScanAssumption
  <2> QED BY <1>1, <2>1, <2>2, <2>3, <2>4, WasteScanAssumption DEF ScanTypeOK
<1>4. \A t \in Scanned : BucketSound(t)
  BY <1>1, WasteScanAssumption DEF BucketSound, SmallBuckets
<1>5. TailDestroyed
  <2>1. Type \in Scanned
    BY <1>1, OrderFacts DEF Type
  <2> QED BY <1>1, <1>2, <2>1 DEF TailDestroyed, Limit, Range
<1> QED BY <1>1, <1>2, <1>3, <1>4, <1>5 DEF ScanIInv, NeverReadsDestroyed

(* What the invariant says of the entry the iterator points at.            *)
LEMMA VertFacts ==
    ASSUME ScanIInv, Scanning
    PROVE  /\ Type \in Scanned /\ turn <= Len(Order)
           /\ bucket[Type] \in Seq(Vertex) /\ Len(bucket[Type]) \in Nat
           /\ Len(bucket[Type]) < CounterValues
           /\ iter \in 1..Len(bucket[Type])
           /\ Limit \in Nat /\ iter < Limit /\ Limit <= Len(bucket[Type]) + 1
           /\ counter \in Nat /\ counter < Len(bucket[Type])
           /\ Limit = Len(bucket[Type]) + 1 - counter
           /\ Vert \in Vertex /\ Vert \in standing /\ Kind[Vert] = Type
<1>1. Type \in Scanned /\ turn <= Len(Order)
  BY OrderFacts DEF Scanning, ScanIInv, ScanTypeOK, Type
<1>2. /\ bucket[Type] \in Seq(Vertex) /\ Len(bucket[Type]) \in Nat
      /\ Len(bucket[Type]) < CounterValues /\ CounterValues \in Nat
  BY <1>1, WasteScanAssumption DEF ScanIInv, ScanTypeOK, BucketSound
<1>3. /\ Limit = Len(bucket[Type]) + 1 - counter /\ counter \in Nat
      /\ iter \in Nat \ {0} /\ iter <= Limit /\ iter # Limit /\ counter <= Len(bucket[Type])
  BY <1>1, <1>2 DEF ScanIInv, ScanTypeOK, TailDestroyed, Scanning, Limit
<1>4. iter \in 1..Len(bucket[Type]) /\ iter < Limit /\ counter < Len(bucket[Type])
  BY <1>2, <1>3
<1>5. Vert \in Vertex /\ Vert \in Range(bucket[Type])
  BY <1>2, <1>4 DEF Vert, Range
<1>6. Vert \in standing /\ Kind[Vert] = Type
  BY <1>1, <1>4, <1>5 DEF ScanIInv, TailDestroyed, BucketSound, Vert
<1> QED BY <1>1, <1>2, <1>3, <1>4, <1>5, <1>6

LEMMA KeepVertexInvariant ==
    ASSUME ScanIInv, KeepVertex
    PROVE  ScanIInv'
<1>1. Scanning
  BY DEF KeepVertex
<1>2. /\ dead' = FALSE /\ iter' = iter + 1
      /\ UNCHANGED <<standing, edges, zero, bucket, turn, counter, gates>>
  BY <1>1, VertFacts DEF KeepVertex
<1>3. ScanTypeOK'
  <2>1. iter' \in Nat \ {0}
    BY <1>2 DEF ScanIInv, ScanTypeOK
  <2>2. counter' \in 0..(CounterValues - 1) /\ turn' \in 1..(Len(Order) + 1)
    BY <1>2 DEF ScanIInv, ScanTypeOK
  <2> QED BY <1>2, <2>1, <2>2 DEF ScanIInv, ScanTypeOK
<1>4. TailDestroyed'
  BY <1>1, <1>2, VertFacts DEF ScanIInv, TailDestroyed, Type, Limit
<1> QED BY <1>2, <1>3, <1>4 DEF ScanIInv, NeverReadsDestroyed, BucketSound, Type

LEMMA DestroyVertexInvariant ==
    ASSUME ScanIInv, DestroyVertex
    PROVE  ScanIInv'
<1> DEFINE v == Vert
           s == bucket[Type]
           r == Swap(s, iter, Limit - 1)
<1>1. Scanning
  BY DEF DestroyVertex
<1>2. /\ Type \in Scanned /\ turn <= Len(Order) /\ s \in Seq(Vertex) /\ Len(s) \in Nat
      /\ Len(s) < CounterValues
      /\ iter \in 1..Len(s) /\ Limit \in Nat /\ iter < Limit /\ Limit <= Len(s) + 1
      /\ counter \in Nat /\ counter < Len(s) /\ Limit = Len(s) + 1 - counter
      /\ v \in Vertex /\ v \in standing /\ Kind[v] = Type
  BY <1>1, VertFacts
<1>3. Limit - 1 \in 1..Len(s) /\ IsInjective(s) /\ s[iter] = v
  BY <1>2 DEF ScanIInv, BucketSound, Vert
<1>4. /\ edges' = Without(Taken(v)) /\ standing' = standing \ Taken(v)
      /\ counter' = Wrapped(counter + 1)
      /\ iter' = iter /\ dead' = FALSE /\ UNCHANGED <<zero, turn>>
      /\ gates' = GatesAfter
  BY <1>2 DEF DestroyVertex, Stay
<1>5. /\ bucket' = [bucket EXCEPT ![Type] = r]
  BY DEF DestroyVertex
<1>6. /\ r \in Seq(Vertex) /\ Len(r) = Len(s) /\ IsInjective(r) /\ Range(r) = Range(s)
      /\ r[iter] = s[Limit - 1] /\ r[Limit - 1] = v
      /\ \A k \in 1..Len(s) : k # iter /\ k # Limit - 1 => r[k] = s[k]
  <2>1. /\ r \in Seq(Vertex) /\ Len(r) = Len(s) /\ IsInjective(r) /\ Range(r) = Range(s)
        /\ r[iter] = s[Limit - 1] /\ r[Limit - 1] = s[iter]
        /\ \A k \in 1..Len(s) : k # iter /\ k # Limit - 1 => r[k] = s[k]
    <3> HIDE DEF v
    <3>1. s \in Seq(Vertex) /\ IsInjective(s) /\ iter \in 1..Len(s) /\ Limit - 1 \in 1..Len(s)
      BY <1>2, <1>3
    <3> HIDE DEF s
    <3> QED BY <3>1, VertexSwapFacts
  <2> QED BY <1>3, <2>1
<1> HIDE DEF r
<1>7. /\ bucket' \in [Scanned -> Seq(Vertex)]
      /\ bucket'[Type] = r /\ \A t \in Scanned : t # Type => bucket'[t] = bucket[t]
  BY <1>2, <1>5, <1>6 DEF ScanIInv, ScanTypeOK
<1>8. counter' = counter + 1
  <2>1. counter + 1 < CounterValues /\ CounterValues \in Nat
    BY <1>2, WasteScanAssumption
  <2> QED BY <1>2, <1>4, <2>1 DEF Wrapped
<1>9. Type' = Type /\ Limit' = Limit - 1
  <2>1. Type' = Type
    BY <1>4 DEF Type
  <2>2. Limit' = Len(bucket'[Type]) + 1 - counter'
    BY <2>1 DEF Limit
  <2>3. Len(bucket'[Type]) = Len(s)
    BY <1>6, <1>7
  <2>4. Limit' = Len(s) + 1 - (counter + 1) /\ Limit = Len(s) + 1 - counter
    BY <1>2, <1>8, <2>2, <2>3
  <2>5. \A l, c \in Nat : l + 1 - (c + 1) = (l + 1 - c) - 1
    OBVIOUS
  <2>6. Len(s) + 1 - (counter + 1) = (Len(s) + 1 - counter) - 1
    BY <1>2, <2>5
  <2> HIDE DEF s
  <2> QED BY <2>1, <2>4, <2>6
<1>10. \A w \in Vertex : Kind[w] \in Scanned /\ w # v => (w \in standing' <=> w \in standing)
  <2>1. \A w \in Taken(v) : w = v \/ Kind[w] = "buffer"
    BY <1>2, WasteRemovalAssumption DEF Taken
  <2> QED BY <1>4, <2>1, OrderFacts DEF Inner, Terminal
<1>11. v \notin standing' /\ standing' \subseteq standing
  BY <1>4 DEF Taken
<1>12. ScanTypeOK'
  <2>1. gates' \in Int
    BY <1>4 DEF GatesAfter, ScanIInv, ScanTypeOK
  <2>2. counter' \in 0..(CounterValues - 1)
    BY <1>2, <1>8, WasteScanAssumption
  <2>3. edges' \subseteq edges /\ standing' \subseteq standing
    BY <1>4, <1>11 DEF Without
  <2> QED BY <1>4, <1>7, <2>1, <2>2, <2>3 DEF ScanIInv, ScanTypeOK
<1>13. \A t \in Scanned : BucketSound(t)'
  <2> SUFFICES ASSUME NEW t \in Scanned PROVE BucketSound(t)'
    OBVIOUS
  <2>1. BucketSound(t)
    BY DEF ScanIInv
  <2>2. /\ IsInjective(bucket'[t]) /\ Len(bucket'[t]) = Len(bucket[t])
        /\ Range(bucket'[t]) = Range(bucket[t])
    BY <1>6, <1>7, <2>1 DEF BucketSound
  <2> QED BY <1>11, <2>1, <2>2 DEF BucketSound
<1>14. TailDestroyed'
  <2>1. counter' <= Len(bucket'[Type']) /\ iter' <= Limit'
    BY <1>2, <1>4, <1>6, <1>7, <1>8, <1>9
  <2>2. ASSUME NEW j \in 1..Len(s) PROVE r[j] \in standing' <=> j < Limit - 1
    <3>1. r[j] \in Vertex /\ Kind[r[j]] \in Scanned
      <4>1. r[j] \in Range(r) /\ r[j] \in Vertex
        BY <1>6 DEF Range
      <4>2. \A w \in Range(s) : Kind[w] = Type
        BY <1>2 DEF ScanIInv, BucketSound
      <4> QED BY <1>2, <1>6, <4>1, <4>2
    <3>2. \A k \in 1..Len(s) : s[k] \in standing <=> k < Limit
      BY <1>2 DEF ScanIInv, TailDestroyed
    <3>3. CASE j = Limit - 1
      BY <1>2, <1>6, <1>11, <3>3
    <3>4. CASE j # Limit - 1
      <4>1. r[j] # v
        <5>1. DOMAIN r = 1..Len(s)
          BY <1>6
        <5> QED BY <1>3, <1>6, <3>4, <5>1 DEF IsInjective
      <4>2. r[j] \in standing' <=> r[j] \in standing
        BY <1>10, <3>1, <4>1
      <4>3. CASE j = iter
        <5>1. r[j] = s[Limit - 1]
          BY <1>6, <4>3
        <5>2. j < Limit - 1 /\ Limit - 1 < Limit
          BY <1>2, <3>4, <4>3
        <5>3. s[Limit - 1] \in standing
          BY <1>3, <3>2, <5>2
        <5> HIDE DEF s
        <5> QED BY <4>2, <5>1, <5>2, <5>3
      <4>4. CASE j # iter
        <5>1. r[j] = s[j]
          BY <1>6, <3>4, <4>4
        <5>2. j < Limit <=> j < Limit - 1
          <6>1. Limit \in Nat /\ j \in Int
            BY <1>2
          <6> QED BY <3>4, <6>1
        <5>3. s[j] \in standing <=> j < Limit
          BY <3>2
        <5> HIDE DEF s
        <5> QED BY <4>2, <5>1, <5>2, <5>3
      <4> QED BY <4>3, <4>4
    <3> QED BY <3>3, <3>4
  <2> QED BY <1>6, <1>7, <1>9, <2>1, <2>2 DEF TailDestroyed
<1>15. ASSUME NEW t \in Scanned, t # Type PROVE Range(bucket'[t]) \subseteq standing'
  <2>1. Range(bucket[t]) \subseteq standing /\ \A w \in Range(bucket[t]) : Kind[w] = t
    BY <1>2, <1>15 DEF ScanIInv, BucketSound
  <2>2. standing \subseteq Vertex
    BY DEF ScanIInv, ScanTypeOK
  <2> QED BY <1>2, <1>7, <1>10, <1>15, <2>1, <2>2
<1> QED
  <2>1. (\A t \in Scanned : (turn > Len(Order) \/ t # Type) => Range(bucket[t]) \subseteq standing)'
    <3>1. turn' = turn /\ ~(turn > Len(Order))
      BY <1>2, <1>4, OrderFacts DEF ScanIInv, ScanTypeOK
    <3> QED BY <1>9, <1>15, <3>1
  <2> QED BY <1>4, <1>12, <1>13, <1>14, <2>1 DEF ScanIInv, NeverReadsDestroyed

LEMMA EndOfBucketInvariant ==
    ASSUME ScanIInv, EndOfBucket
    PROVE  ScanIInv'
<1> DEFINE s == bucket[Type]
           r == Cut(s)
<1>1. /\ turn <= Len(Order) /\ iter = Limit
      /\ bucket' = [bucket EXCEPT ![Type] = r]
      /\ turn' = turn + 1 /\ iter' = 1 /\ counter' = 0 /\ dead' = FALSE
      /\ UNCHANGED <<standing, edges, zero, gates>>
  BY DEF EndOfBucket
<1>2. Type \in Scanned /\ turn \in 1..5
  BY <1>1, OrderFacts DEF ScanIInv, ScanTypeOK, Type
<1>3. /\ s \in Seq(Vertex) /\ Len(s) \in Nat /\ Len(s) < CounterValues /\ IsInjective(s)
      /\ counter \in Nat /\ counter <= Len(s)
      /\ Limit = Len(s) + 1 - counter
      /\ \A j \in 1..Len(s) : s[j] \in standing <=> j < Limit
  BY <1>1, <1>2 DEF ScanIInv, ScanTypeOK, BucketSound, TailDestroyed, Limit
<1> HIDE DEF s
<1>4. /\ r \in Seq(Vertex) /\ Len(r) = Len(s) - counter
      /\ \A j \in 1..(Len(s) - counter) : r[j] = s[j]
  BY <1>3 DEF Cut
<1> HIDE DEF r
<1>5. DOMAIN r = 1..(Len(s) - counter) /\ DOMAIN s = 1..Len(s)
  BY <1>3, <1>4
<1>6. IsInjective(r) /\ Len(r) < CounterValues
  BY <1>3, <1>4, <1>5, WasteScanAssumption DEF IsInjective
<1>7. Range(r) = Range(s) \cap standing
  <2>1. \A x \in Range(r) : x \in Range(s) /\ x \in standing
    BY <1>3, <1>4, <1>5 DEF Range
  <2>2. ASSUME NEW x \in Range(s), x \in standing PROVE x \in Range(r)
    <3>1. PICK j \in 1..Len(s) : s[j] = x
      BY <1>5 DEF Range
    <3>2. j \in 1..(Len(s) - counter)
      BY <1>3, <2>2, <3>1
    <3> QED BY <1>4, <1>5, <3>1, <3>2 DEF Range
  <2> QED BY <2>1, <2>2
<1>8. /\ bucket' \in [Scanned -> Seq(Vertex)]
      /\ bucket'[Type] = r /\ \A t \in Scanned : t # Type => bucket'[t] = bucket[t]
  BY <1>1, <1>2, <1>4 DEF ScanIInv, ScanTypeOK
<1>9. \A t \in Scanned : BucketSound(t)'
  <2>1. \A t \in Scanned : BucketSound(t)
    BY DEF ScanIInv
  <2>2. ASSUME NEW t \in Scanned PROVE BucketSound(t)'
    <3>1. CASE t = Type
      <4>1. bucket'[t] = r /\ s = bucket[t]
        BY <1>8, <3>1 DEF s
      <4> QED BY <1>1, <1>6, <1>7, <2>1, <4>1 DEF BucketSound
    <3>2. CASE t # Type
      BY <1>1, <1>8, <2>1, <3>2 DEF BucketSound
    <3> QED BY <3>1, <3>2
  <2> QED BY <2>2
<1>10. \A t \in Scanned : Range(bucket'[t]) \subseteq standing'
  BY <1>1, <1>7, <1>8 DEF ScanIInv
<1>11. ScanTypeOK'
  <2>1. turn' \in 1..(Len(Order) + 1) /\ iter' \in Nat \ {0}
    BY <1>1, <1>2, OrderFacts
  <2>2. counter' \in 0..(CounterValues - 1)
    BY <1>1, WasteScanAssumption
  <2> QED BY <1>1, <1>8, <2>1, <2>2 DEF ScanIInv, ScanTypeOK
<1>12. ASSUME turn' <= Len(Order) PROVE TailDestroyed'
  <2>1. Type' \in Scanned
    BY <1>1, <1>2, <1>12, OrderFacts DEF Type
  <2> DEFINE n == bucket'[Type']
  <2>2. n \in Seq(Vertex) /\ Len(n) \in Nat /\ DOMAIN n = 1..Len(n)
    BY <1>8, <2>1
  <2>3. \A j \in 1..Len(n) : n[j] \in standing'
    BY <1>10, <2>1, <2>2 DEF Range
  <2>4. Limit' = Len(n) + 1
    BY <1>1, <2>2 DEF Limit
  <2>5. counter' <= Len(n) /\ iter' <= Limit'
    BY <1>1, <2>2, <2>4
  <2>6. \A j \in 1..Len(n) : j < Limit'
    BY <2>2, <2>4
  <2> QED BY <2>3, <2>5, <2>6 DEF TailDestroyed
<1> QED BY <1>1, <1>9, <1>10, <1>11, <1>12 DEF ScanIInv, NeverReadsDestroyed

LEMMA ScanNextInvariant == ScanIInv /\ [ScanNext]_allvars => ScanIInv'
<1> SUFFICES ASSUME ScanIInv, [ScanNext]_allvars PROVE ScanIInv'
  OBVIOUS
<1>1. CASE UNCHANGED allvars
  BY <1>1 DEF allvars, scan, ScanIInv, ScanTypeOK, NeverReadsDestroyed, BucketSound,
              TailDestroyed, Type, Limit
<1> QED BY <1>1, KeepVertexInvariant, DestroyVertexInvariant, EndOfBucketInvariant DEF ScanNext

THEOREM ScanInvariant == SmallBuckets /\ ScanSpec => []ScanIInv
BY ScanInitInvariant, ScanNextInvariant, PTL DEF ScanSpec

(* With fewer vertices in every bucket than counterForResize has values,   *)
(* removeWasteVertices never looks at a vertex it has destroyed.           *)
THEOREM ScanSafe == SmallBuckets /\ ScanSpec => []NeverReadsDestroyed
<1>1. ScanIInv => NeverReadsDestroyed
  BY DEF ScanIInv
<1> QED BY ScanInvariant, <1>1, PTL

(* ... and leaves each bucket with exactly its standing vertices.          *)
THEOREM ScanBuckets == SmallBuckets /\ ScanSpec => []BucketsExact
<1>1. ASSUME ScanIInv, Done, NEW t \in Scanned
      PROVE  IsInjective(bucket[t]) /\ Range(bucket[t]) = {v \in standing : Kind[v] = t}
  BY <1>1 DEF ScanIInv, BucketSound, Done
<1>2. ScanIInv => BucketsExact
  BY <1>1 DEF BucketsExact
<1> QED BY ScanInvariant, <1>2, PTL

-----------------------------------------------------------------------------
(* The scan keeps the promise: every step of it is a step of WasteRemoval, *)
(* or none. When a terminal goes, the scans before have taken every inner  *)
(* vertex of level 0.                                                      *)

KeptBefore ==
    turn <= Len(Order) =>
        \A j \in 1..Len(bucket[Type]) :
            j < iter /\ Kind[bucket[Type][j]] \in Inner => bucket[Type][j] \notin zero

ScannedBefore ==
    \A i \in 1..Len(Order) : i < turn /\ Order[i] \in Inner =>
        \A v \in standing : Kind[v] = Order[i] => v \notin zero

KeptInv == KeptBefore /\ ScannedBefore

LEMMA KeptInit == SmallBuckets /\ ScanInit => KeptInv
<1> SUFFICES ASSUME ScanInit PROVE KeptInv
  OBVIOUS
<1>1. turn = 1 /\ iter = 1
  BY DEF ScanInit
<1>2. ScannedBefore
  BY <1>1, OrderFacts DEF ScannedBefore
<1>3. KeptBefore
  BY <1>1 DEF KeptBefore
<1> QED BY <1>2, <1>3 DEF KeptInv

LEMMA KeptNext == ScanIInv /\ KeptInv /\ [ScanNext]_allvars => KeptInv'
<1> SUFFICES ASSUME ScanIInv, KeptInv, [ScanNext]_allvars PROVE KeptInv'
  OBVIOUS
<1>1. CASE KeepVertex
  <2>1. Scanning /\ UNCHANGED <<standing, zero, bucket, turn>> /\ iter' = iter + 1
    BY <1>1 DEF KeepVertex
  <2>2. /\ Type \in Scanned /\ iter \in 1..Len(bucket[Type])
        /\ Vert \in standing /\ Kind[Vert] = Type
    BY <2>1, VertFacts
  <2>3. Kind[Vert] \in Inner => Vert \notin zero
    BY <1>1, <2>2 DEF KeepVertex, HasReaders, Inner, Terminal
  <2>4. KeptBefore'
    <3> SUFFICES ASSUME turn' <= Len(Order), NEW j \in 1..Len(bucket[Type]), j < iter + 1,
                        Kind[bucket[Type][j]] \in Inner
                 PROVE  bucket[Type][j] \notin zero
      BY <2>1 DEF KeptBefore, Type
    <3>1. CASE j = iter
      BY <2>3, <3>1 DEF Vert
    <3>2. CASE j # iter
      BY <2>1, <2>2, <3>2 DEF KeptInv, KeptBefore
    <3> QED BY <3>1, <3>2
  <2> QED BY <2>1, <2>4 DEF KeptInv, ScannedBefore
<1>2. CASE DestroyVertex
  <2>1. /\ Scanning /\ zero' = zero /\ turn' = turn /\ iter' = iter
        /\ bucket' = [bucket EXCEPT ![Type] = Swap(@, iter, Limit - 1)]
        /\ standing' \subseteq standing
    BY <1>2 DEF DestroyVertex, Stay
  <2>2. /\ Type \in Scanned /\ bucket[Type] \in Seq(Vertex) /\ Len(bucket[Type]) \in Nat
        /\ iter \in 1..Len(bucket[Type]) /\ Limit - 1 \in 1..Len(bucket[Type])
        /\ iter <= Limit - 1
        /\ IsInjective(bucket[Type]) /\ Type' = Type
    <3>1. Type' = Type
      BY <2>1 DEF Type
    <3>2. Type \in Scanned /\ IsInjective(bucket[Type])
      BY <2>1, VertFacts DEF ScanIInv, BucketSound
    <3>3. /\ bucket[Type] \in Seq(Vertex) /\ Len(bucket[Type]) \in Nat
          /\ iter \in 1..Len(bucket[Type]) /\ Limit \in Nat /\ iter < Limit
          /\ Limit <= Len(bucket[Type]) + 1
      BY <2>1, VertFacts
    <3> QED BY <3>1, <3>2, <3>3
  <2>3. bucket'[Type] = Swap(bucket[Type], iter, Limit - 1)
    BY <2>1, <2>2 DEF ScanIInv, ScanTypeOK
  <2>4. /\ Len(bucket'[Type]) = Len(bucket[Type])
        /\ \A k \in 1..Len(bucket[Type]) : k < iter => bucket'[Type][k] = bucket[Type][k]
    <3> DEFINE s == bucket[Type]
    <3>1. s \in Seq(Vertex) /\ IsInjective(s) /\ iter \in 1..Len(s) /\ Limit - 1 \in 1..Len(s)
      BY <2>2
    <3> HIDE DEF s
    <3>2. /\ Len(Swap(s, iter, Limit - 1)) = Len(s)
          /\ \A k \in 1..Len(s) : k # iter /\ k # Limit - 1 => Swap(s, iter, Limit - 1)[k] = s[k]
      BY <3>1, VertexSwapFacts
    <3>3. \A k \in 1..Len(s) : k < iter => k # iter /\ k # Limit - 1
      BY <2>2, <3>1
    <3>4. bucket'[Type] = Swap(s, iter, Limit - 1)
      BY <2>3 DEF s
    <3>5. \A k \in 1..Len(s) : k < iter => bucket'[Type][k] = s[k]
      BY <3>2, <3>3, <3>4
    <3> QED BY <3>2, <3>4, <3>5 DEF s
  <2>5. KeptBefore'
    BY <2>1, <2>2, <2>4 DEF KeptInv, KeptBefore
  <2>6. ScannedBefore'
    BY <2>1 DEF KeptInv, ScannedBefore
  <2> QED BY <2>5, <2>6 DEF KeptInv
<1>3. CASE EndOfBucket
  <2>1. /\ turn <= Len(Order) /\ iter = Limit /\ turn' = turn + 1 /\ iter' = 1
        /\ UNCHANGED <<standing, zero>>
    BY <1>3 DEF EndOfBucket
  <2>2. Type \in Scanned /\ turn \in 1..5 /\ Len(Order) = 5
    BY <2>1, OrderFacts DEF ScanIInv, ScanTypeOK, Type
  <2>3. KeptBefore'
    BY <2>1 DEF KeptBefore
  <2>4. ASSUME NEW v \in standing, Kind[v] = Type, Type \in Inner PROVE v \notin zero
    <3>1. /\ v \in Range(bucket[Type]) /\ bucket[Type] \in Seq(Vertex)
      BY <2>2, <2>4 DEF ScanIInv, ScanTypeOK, BucketSound
    <3>2. PICK j \in 1..Len(bucket[Type]) : bucket[Type][j] = v
      BY <3>1 DEF Range
    <3>3. j < iter
      BY <2>1, <2>4, <3>2 DEF ScanIInv, TailDestroyed
    <3> QED BY <2>1, <2>4, <3>2, <3>3 DEF KeptInv, KeptBefore
  <2>5. ScannedBefore'
    <3> SUFFICES ASSUME NEW i \in 1..Len(Order), i < turn + 1, Order[i] \in Inner,
                        NEW v \in standing, Kind[v] = Order[i]
                 PROVE  v \notin zero
      BY <2>1 DEF ScannedBefore
    <3>1. CASE i = turn
      BY <2>4, <3>1 DEF Type
    <3>2. CASE i # turn
      <4>1. i < turn
        BY <2>2, <3>2
      <4> QED BY <4>1 DEF KeptInv, ScannedBefore
    <3> QED BY <3>1, <3>2
  <2> QED BY <2>3, <2>5 DEF KeptInv
<1>4. CASE UNCHANGED allvars
  BY <1>4 DEF allvars, scan, KeptInv, KeptBefore, ScannedBefore, Type
<1> QED BY <1>1, <1>2, <1>3, <1>4 DEF ScanNext

LEMMA DestroysOnlyWaste ==
    ASSUME ScanIInv, KeptInv, DestroyVertex
    PROVE  Waste(Vert)
<1>1. Scanning /\ Vert \in zero /\ ~HasReaders(Vert)
  BY DEF DestroyVertex
<1>2. /\ Type \in Scanned /\ Vert \in Vertex /\ Vert \in standing /\ Kind[Vert] = Type
      /\ turn <= Len(Order)
  BY <1>1, VertFacts
<1>3. CASE Type \in Inner
  BY <1>1, <1>2, <1>3 DEF Waste
<1>4. CASE Type \notin Inner
  <2>1. Type \in Terminal /\ Fanout(Vert) = {}
    BY <1>1, <1>2, <1>4, OrderFacts DEF HasReaders
  <2>2. turn \in 4..5
    BY <1>2, <1>4 DEF ScanIInv, ScanTypeOK, Type, Order, Inner
  <2>3. ASSUME NEW w \in zero \cap standing, Kind[w] \in Inner PROVE FALSE
    <3>1. PICK i \in 1..3 : Kind[w] = Order[i]
      BY <2>3 DEF Order, Inner
    <3>2. i \in 1..Len(Order) /\ i < turn
      BY <2>2, OrderFacts
    <3> QED BY <2>3, <3>1, <3>2 DEF KeptInv, ScannedBefore
  <2> QED BY <1>1, <1>2, <2>1, <2>3 DEF Waste
<1> QED BY <1>3, <1>4

(* Nothing but waste is ever destroyed, and with it go its edges and, for  *)
(* a subgraph, its buffers: the scan implements the safety of the promise. *)
THEOREM ScanKeepsPromise ==
    SmallBuckets /\ ScanSpec => Init /\ [][Next]_<<standing, edges, zero>>
<1>1. ScanInit => Init
  BY DEF ScanInit
<1>2. ScanIInv /\ KeptInv /\ [ScanNext]_allvars => [Next]_<<standing, edges, zero>>
  <2> SUFFICES ASSUME ScanIInv, KeptInv, [ScanNext]_allvars
               PROVE  [Next]_<<standing, edges, zero>>
    OBVIOUS
  <2>1. CASE DestroyVertex
    <3>1. Waste(Vert) /\ Vert \in Vertex
      BY <2>1, DestroysOnlyWaste, VertFacts DEF DestroyVertex
    <3>2. Remove(Vert)
      BY <2>1, <3>1 DEF DestroyVertex, Remove
    <3> QED BY <3>1, <3>2 DEF Next
  <2>2. CASE KeepVertex \/ EndOfBucket \/ UNCHANGED allvars
    BY <2>2 DEF KeepVertex, EndOfBucket, allvars
  <2> QED BY <2>1, <2>2 DEF ScanNext
<1> QED BY <1>1, <1>2, KeptInit, KeptNext, ScanInvariant, PTL DEF ScanSpec
=============================================================================
