--------------------------- MODULE SequenceLemmas ---------------------------
(***************************************************************************)
(* Facts about finite sequences used as vectors without repetitions, which *)
(* the proofs about the adjacency vectors and buckets rest on, and about   *)
(* sets of natural numbers: the least and the greatest are what stands in  *)
(* for induction here.                                                     *)
(***************************************************************************)
EXTENDS AdjacencyVector, FiniteSets, FiniteSetTheorems, WellFoundedInduction, TLAPS

(* push_back adds one element and keeps a repetition-free vector so.       *)
LEMMA AppendFacts ==
    ASSUME NEW S, NEW s \in Seq(S), NEW e \in S
    PROVE  /\ Append(s, e) \in Seq(S)
           /\ Range(Append(s, e)) = Range(s) \cup {e}
           /\ IsInjective(s) /\ e \notin Range(s) => IsInjective(Append(s, e))
<1>1. Append(s, e) \in Seq(S)
  OBVIOUS
<1>2. /\ DOMAIN Append(s, e) = 1..(Len(s) + 1)
      /\ Append(s, e)[Len(s) + 1] = e
      /\ \A i \in 1..Len(s) : Append(s, e)[i] = s[i]
      /\ DOMAIN s = 1..Len(s)
      /\ Len(s) \in Nat
  OBVIOUS
<1>3. Range(Append(s, e)) = Range(s) \cup {e}
  <2>1. \A x \in Range(Append(s, e)) : x \in Range(s) \cup {e}
    BY <1>2 DEF Range
  <2>2. \A x \in Range(s) \cup {e} : x \in Range(Append(s, e))
    BY <1>2 DEF Range
  <2> QED BY <2>1, <2>2
<1>4. ASSUME IsInjective(s), e \notin Range(s) PROVE IsInjective(Append(s, e))
  BY <1>2, <1>4 DEF Range, IsInjective
<1> QED BY <1>1, <1>3, <1>4

(* The head is an element, the tail has no others.                         *)
LEMMA HeadTailFacts ==
    ASSUME NEW S, NEW s \in Seq(S), s # <<>>
    PROVE  /\ Head(s) \in Range(s)
           /\ Tail(s) \in Seq(S)
           /\ Range(Tail(s)) \subseteq Range(s)
           /\ IsInjective(s) => Head(s) \notin Range(Tail(s)) /\ IsInjective(Tail(s))
           /\ Range(s) = Range(Tail(s)) \cup {Head(s)}
<1>1. /\ DOMAIN s = 1..Len(s)
      /\ Len(s) \in Nat
      /\ Len(s) > 0
      /\ Head(s) = s[1]
      /\ Tail(s) \in Seq(S)
      /\ DOMAIN Tail(s) = 1..(Len(s) - 1)
      /\ \A i \in 1..(Len(s) - 1) : Tail(s)[i] = s[i + 1]
  OBVIOUS
<1>2. Head(s) \in Range(s) /\ Range(Tail(s)) \subseteq Range(s)
  BY <1>1 DEF Range
<1>3. IsInjective(s) => Head(s) \notin Range(Tail(s)) /\ IsInjective(Tail(s))
  BY <1>1 DEF Range, IsInjective
<1>4. ASSUME NEW x \in Range(s), x # Head(s) PROVE x \in Range(Tail(s))
  <2>1. PICK i \in 1..Len(s) : s[i] = x
    BY <1>1, <1>4 DEF Range
  <2>2. i - 1 \in 1..(Len(s) - 1) /\ Tail(s)[i - 1] = x
    BY <1>1, <1>4, <2>1
  <2> QED BY <1>1, <2>2 DEF Range
<1> QED BY <1>1, <1>2, <1>3, <1>4

(* A sequence is empty when it has no elements.                            *)
LEMMA EmptyRange ==
    ASSUME NEW S, NEW s \in Seq(S)
    PROVE  Range(s) = {} <=> s = <<>>
<1>1. DOMAIN s = 1..Len(s) /\ Len(s) \in Nat
  OBVIOUS
<1>2. s = <<>> => Range(s) = {}
  BY DEF Range
<1>3. ASSUME s # <<>> PROVE Range(s) # {}
  <2>1. 1 \in DOMAIN s
    BY <1>1, <1>3
  <2> QED BY <2>1 DEF Range
<1> QED BY <1>2, <1>3

(* The elements of a sequence over S are in S.                             *)
LEMMA RangeInside ==
    ASSUME NEW S, NEW s \in Seq(S)
    PROVE  Range(s) \subseteq S
BY DEF Range

(* A repetition-free sequence has as many elements as positions.           *)
LEMMA RangeCardinality ==
    ASSUME NEW S, NEW s \in Seq(S), IsInjective(s)
    PROVE  IsFiniteSet(Range(s)) /\ Cardinality(Range(s)) = Len(s)
<1>1. DOMAIN s = 1..Len(s) /\ Len(s) \in Nat
  OBVIOUS
<1>2. s \in Bijection(1..Len(s), Range(s))
  BY <1>1 DEF Bijection, Injection, Surjection, IsInjective, Range
<1>3. ExistsBijection(1..Len(s), Range(s))
  BY <1>2 DEF ExistsBijection
<1>4. Cardinality(Range(s)) = Len(s)
  BY <1>1, <1>3, FS_CountingElements
<1>5. IsFiniteSet(Range(s))
  BY <1>1, <1>3, FS_NatBijection
<1> QED BY <1>4, <1>5

(* Overwriting position i with the last element and shrinking by one       *)
(* removes exactly the element at i and keeps a repetition-free vector so. *)
LEMMA SwapShrinkFacts ==
    ASSUME NEW S, NEW s \in Seq(S), IsInjective(s),
           NEW i \in 1..Len(s),
           NEW r \in [1..(Len(s) - 1) -> S],
           \A j \in 1..(Len(s) - 1) : r[j] = IF j = i THEN s[Len(s)] ELSE s[j]
    PROVE  /\ r \in Seq(S)
           /\ Range(r) = Range(s) \ {s[i]}
           /\ IsInjective(r)
<1>1. DOMAIN s = 1..Len(s) /\ \A j \in 1..Len(s) : s[j] \in S
  OBVIOUS
<1>2. \A j, k \in 1..Len(s) : s[j] = s[k] => j = k
  BY <1>1 DEF IsInjective
<1>3. Len(s) \in 1..Len(s) /\ Len(s) - 1 \in Nat /\ Len(s) \in Nat
  OBVIOUS
<1>4. DOMAIN r = 1..(Len(s) - 1)
  OBVIOUS
<1>5. r \in Seq(S)
  BY <1>3
<1>6. ASSUME NEW x \in Range(r) PROVE x \in Range(s) \ {s[i]}
  <2>1. PICK j \in 1..(Len(s) - 1) : x = r[j]
    BY <1>4 DEF Range
  <2>2. CASE j = i
    <3>1. x = s[Len(s)] /\ Len(s) # i
      BY <2>1, <2>2
    <3> QED BY <1>1, <1>2, <1>3, <3>1 DEF Range
  <2>3. CASE j # i
    <3>1. x = s[j] /\ j \in 1..Len(s)
      BY <2>1, <2>3
    <3> QED BY <1>1, <1>2, <2>3, <3>1 DEF Range
  <2> QED BY <2>2, <2>3
<1>7. ASSUME NEW x \in Range(s) \ {s[i]} PROVE x \in Range(r)
  <2>1. PICK k \in 1..Len(s) : s[k] = x
    BY <1>1 DEF Range
  <2>2. k # i
    BY <1>7, <2>1
  <2>3. CASE k = Len(s)
    <3>1. i \in 1..(Len(s) - 1) /\ r[i] = x
      BY <2>1, <2>2, <2>3
    <3> QED BY <1>4, <3>1 DEF Range
  <2>4. CASE k # Len(s)
    <3>1. k \in 1..(Len(s) - 1) /\ r[k] = x
      BY <2>1, <2>2, <2>4
    <3> QED BY <1>4, <3>1 DEF Range
  <2> QED BY <2>3, <2>4
<1>8. IsInjective(r)
  <2>1. ASSUME NEW j \in 1..(Len(s) - 1), NEW k \in 1..(Len(s) - 1), r[j] = r[k]
        PROVE  j = k
    <3>1. \A l \in 1..(Len(s) - 1) : r[l] = IF l = i THEN s[Len(s)] ELSE s[l]
      OBVIOUS
    <3>2. j \in 1..Len(s) /\ k \in 1..Len(s) /\ j # Len(s) /\ k # Len(s)
      OBVIOUS
    <3> QED BY <1>2, <1>3, <2>1, <3>1, <3>2
  <2> QED BY <1>4, <2>1 DEF IsInjective
<1> QED BY <1>5, <1>6, <1>7, <1>8

(* removeVertexToInConnections takes one entry out and keeps the others.   *)
LEMMA SwapRemoveFacts ==
    ASSUME NEW S, NEW s \in Seq(S), IsInjective(s), NEW v
    PROVE  /\ SwapRemove(s, v) \in Seq(S)
           /\ Range(SwapRemove(s, v)) = Range(s) \ {v}
           /\ IsInjective(SwapRemove(s, v))
<1>1. CASE v \notin Range(s)
  BY <1>1 DEF SwapRemove
<1>2. CASE v \in Range(s)
  <2>1. DOMAIN s = 1..Len(s) /\ Len(s) \in Nat
    OBVIOUS
  <2>2. \E i \in DOMAIN s : s[i] = v
    BY <1>2 DEF Range
  <2>3. PICK i \in 1..Len(s) :
          /\ s[i] = v
          /\ SwapRemove(s, v) =
               [j \in 1..(Len(s) - 1) |-> IF j = i THEN s[Len(s)] ELSE s[j]]
    BY <1>2, <2>1, <2>2 DEF SwapRemove
  <2> DEFINE r == SwapRemove(s, v)
  <2>4. /\ s[i] = v
        /\ r \in [1..(Len(s) - 1) -> S]
        /\ \A j \in 1..(Len(s) - 1) : r[j] = IF j = i THEN s[Len(s)] ELSE s[j]
    BY <2>1, <2>3
  <2> HIDE DEF r
  <2>5. r \in Seq(S) /\ Range(r) = Range(s) \ {s[i]} /\ IsInjective(r)
    BY <2>4, SwapShrinkFacts
  <2> QED BY <2>4, <2>5 DEF r
<1> QED BY <1>1, <1>2

(* A finite set listed without repetition is listed completely.            *)
LEMMA ListingFacts ==
    ASSUME NEW S, IsFiniteSet(S),
           NEW list, list = CHOOSE f \in [1..Cardinality(S) -> S] : IsInjective(f)
    PROVE  /\ list \in Seq(S)
           /\ IsInjective(list)
           /\ Range(list) = S
<1> DEFINE n == Cardinality(S)
<1>1. n \in Nat /\ ExistsBijection(1..n, S)
  BY FS_CardinalityType
<1>2. PICK f \in [1..n -> S] : IsInjective(f)
  BY <1>1 DEF ExistsBijection, Bijection, Injection
<1>3. list \in [1..n -> S] /\ IsInjective(list)
  BY <1>2
<1>4. list \in Seq(S) /\ Len(list) = n
  BY <1>1, <1>3
<1>5. Range(list) \subseteq S /\ Cardinality(Range(list)) = n
  BY <1>3, <1>4, RangeCardinality, RangeInside
<1>6. Range(list) = S
  BY <1>5, FS_Subset DEF n
<1> QED BY <1>3, <1>4, <1>6

-----------------------------------------------------------------------------
(* Numbers.                                                                *)

LEMMA Least ==
    ASSUME NEW T, T \subseteq Nat, T # {}
    PROVE  \E x \in T : \A y \in T : x <= y
<1> DEFINE R == StrictSubsetOrdering(Nat)
           F == {1..n : n \in T}
           S == FiniteSubsetsOf(Nat)
<1>1. IsWellFoundedOn(R, S)
  BY FS_StrictSubsetOrderingWellFounded
<1>2. F \subseteq S /\ F # {}
  <2>1. \A n \in T : 1..n \subseteq Nat /\ IsFiniteSet(1..n)
    BY FS_Interval
  <2> QED BY <2>1 DEF FiniteSubsetsOf
<1>3. PICK m \in F : \A k \in F : ~ (<<k, m>> \in R)
  <2> HIDE DEF F, S, R
  <2> QED BY <1>1, <1>2, WFMin
<1>4. PICK x \in T : m = 1..x
  OBVIOUS
<1>5. ASSUME NEW y \in T PROVE x <= y
  <2> SUFFICES ASSUME y < x PROVE FALSE
    OBVIOUS
  <2>1. 1..y \subseteq 1..x /\ x \in 1..x /\ x \notin 1..y
    OBVIOUS
  <2>2. 1..y \in SUBSET Nat /\ 1..x \in SUBSET Nat
    OBVIOUS
  <2>3. <<1..y, 1..x>> \in R
    BY <2>1, <2>2 DEF StrictSubsetOrdering
  <2> QED BY <1>3, <1>4, <2>3
<1> QED BY <1>5

LEMMA Greatest ==
    ASSUME NEW S, S \subseteq Nat, IsFiniteSet(S), S # {}
    PROVE  \E x \in S : \A y \in S : y <= x
<1> DEFINE Topped(R) == \E x \in R : \A y \in R : y <= x
           Bad == {R \in SUBSET S : R # {} /\ ~Topped(R)}
           T == {Cardinality(R) : R \in Bad}
<1>1. SUFFICES ASSUME Bad # {} PROVE FALSE
  OBVIOUS
<1>2. \A R \in SUBSET S : IsFiniteSet(R) /\ Cardinality(R) \in Nat
  BY FS_Subset, FS_CardinalityType
<1>3. PICK R \in Bad : \A Q \in Bad : Cardinality(R) <= Cardinality(Q)
  <2>1. T \subseteq Nat /\ T # {}
    BY <1>1, <1>2
  <2> HIDE DEF T
  <2>2. PICK n \in T : \A m \in T : n <= m
    BY <2>1, Least
  <2> QED BY <2>2 DEF T
<1>4. PICK x \in R : TRUE
  OBVIOUS
<1> DEFINE Q == R \ {x}
<1>5. Cardinality(Q) = Cardinality(R) - 1 /\ Q \in SUBSET S /\ Cardinality(R) \in Nat
  BY <1>2, FS_RemoveElement
<1>6. Q \notin Bad
  <2> DEFINE m == Cardinality(R)
             n == Cardinality(Q)
  <2>1. Q \in Bad => m <= n
    <3> HIDE DEF Bad, Q
    <3> QED BY <1>3
  <2>2. n = m - 1 /\ m \in Nat
    BY <1>5
  <2> HIDE DEF m, n
  <2> QED BY <2>1, <2>2
<1>7. CASE Q = {}
  <2>1. R = {x} /\ x \in Nat
    BY <1>7
  <2>2. Topped(R)
    BY <2>1
  <2> QED BY <2>2
<1>8. CASE Q # {}
  <2>1. PICK y \in Q : \A z \in Q : z <= y
    BY <1>5, <1>6, <1>8
  <2>2. x \in Nat /\ y \in Nat /\ R \subseteq Nat
    OBVIOUS
  <2>3. \A z \in R : z <= (IF x <= y THEN y ELSE x)
    BY <2>1, <2>2
  <2>4. Topped(R)
    BY <2>3
  <2> QED BY <2>4
<1> QED BY <1>7, <1>8
=============================================================================
