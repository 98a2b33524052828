--------------------------- MODULE Allocator_proofs ---------------------------
(***************************************************************************)
(* The linear allocator keeps the promise of an arena for every set of     *)
(* classes, every size and alignment and both block sizes.                 *)
(***************************************************************************)
EXTENDS Allocator, TLAPS

\* The pointers lie below the offset of the block they are in, the offset of
\* the last one; a block after the first is never empty.
BelowOffset ==
    /\ buf_size = A!BlockSize(blocks)
    /\ \A p \in handed : /\ p.block <= blocks
                         /\ p.at + SizeOf[p.type] <= A!BlockSize(p.block)
                         /\ p.block = blocks => p.at + SizeOf[p.type] <= offset
    /\ blocks > 1 => offset > 0

IInv == TypeOK /\ BelowOffset /\ VerticesApart

USE AllocatorAssumption DEF AllocatorAssumption

(* A positive multiple of a leaves no remainder.                           *)
LEMMA Multiple ==
    ASSUME NEW a \in Nat \ {0}, NEW k \in Nat
    PROVE  (a * k) % a = 0
OBVIOUS

(* Division with remainder.                                                *)
LEMMA DivMod ==
    ASSUME NEW n \in Nat, NEW a \in Nat \ {0}
    PROVE  n \div a \in Nat /\ n % a \in 0..(a - 1) /\ n = a * (n \div a) + (n % a)
<1>1. n % a \in 0..(a - 1)
  OBVIOUS
<1>2. n \div a \in Int
  OBVIOUS
<1>3. n = a * (n \div a) + (n % a)
  OBVIOUS
<1>4. n \div a >= 0
  OBVIOUS
<1> QED
  BY <1>1, <1>2, <1>3, <1>4

(* align<T>() moves the offset up to a multiple of the alignment.          *)
LEMMA AlignedFacts ==
    ASSUME NEW n \in Nat, NEW t \in Types
    PROVE  /\ Aligned(n, t) \in Nat
           /\ Aligned(n, t) >= n
           /\ Aligned(n, t) % AlignOf[t] = 0
           /\ Aligned(n, t) = 0 => n = 0
<1> DEFINE a == AlignOf[t]
           q == n \div a
           r == n % a
<1>1. a \in Nat \ {0}
  OBVIOUS
<1>2. q \in Nat /\ r \in 0..(a - 1) /\ n = a * q + r
  BY <1>1, DivMod
<1>3. Aligned(n, t) = IF r = 0 THEN n ELSE n + (a - r)
  BY DEF Aligned
<1>4. r = n % AlignOf[t]
  OBVIOUS
<1>5. a = AlignOf[t]
  OBVIOUS
<1> HIDE DEF a, q, r
<1>6. CASE r = 0
  BY <1>3, <1>4, <1>6
<1>7. CASE r # 0
  <2>1. Aligned(n, t) = n + (a - r) /\ n + (a - r) = a * q + a
    BY <1>1, <1>2, <1>3, <1>7
  <2>2. a * q + a = a * (q + 1) /\ q + 1 \in Nat
    BY <1>1, <1>2
  <2> DEFINE k == q + 1
  <2>3. k \in Nat
    BY <2>2
  <2> HIDE DEF k
  <2>4. (a * k) % a = 0
    BY <1>1, <2>3, Multiple
  <2>5. Aligned(n, t) = a * k
    BY <2>1, <2>2 DEF k
  <2> QED
    BY <1>1, <1>2, <1>5, <2>1, <2>4, <2>5
<1> QED
  BY <1>6, <1>7

(* A pointer below the offset of the last block is apart from one that     *)
(* starts at or after that offset.                                         *)
LEMMA FreshIsApart ==
    ASSUME IInv, NEW t \in Types, NEW b \in 1..MaxBlocks, NEW n \in Nat,
           b >= blocks, b = blocks => n >= offset,
           NEW p \in handed
    PROVE  /\ A!Apart(Bytes(p), Bytes(Pointer(b, n, t)))
           /\ A!Apart(Bytes(Pointer(b, n, t)), Bytes(p))
           /\ Bytes(p) # Bytes(Pointer(b, n, t))
<1>1. /\ p.block \in 1..MaxBlocks /\ p.at \in Nat /\ p.type \in Types
      /\ p.block <= blocks
      /\ p.block = blocks => p.at + SizeOf[p.type] <= offset
  BY DEF IInv, TypeOK, BelowOffset
<1>2. SizeOf[p.type] \in Nat \ {0} /\ SizeOf[t] \in Nat \ {0}
  BY <1>1
<1>3. blocks \in 1..MaxBlocks /\ offset \in Nat
  BY DEF IInv, TypeOK
<1>4. p.block # b \/ p.at + SizeOf[p.type] <= n
  BY <1>1, <1>2, <1>3
<1>5. /\ Bytes(p) = [block |-> p.block, from |-> p.at, to |-> p.at + SizeOf[p.type]]
      /\ Bytes(Pointer(b, n, t)) = [block |-> b, from |-> n, to |-> n + SizeOf[t]]
  BY DEF Bytes, Pointer
<1>6. p.block # b \/ p.at # n
  BY <1>1, <1>2, <1>4
<1> QED
  BY <1>4, <1>5, <1>6 DEF A!Apart

LEMMA InitIInv == Init => IInv
BY DEF Init, IInv, TypeOK, BelowOffset, VerticesApart, A!BlockSize

(* What the two successful ways through allocate have in common.           *)
LEMMA HandedIInv ==
    ASSUME IInv, NEW t \in Types, NEW b \in 1..MaxBlocks, NEW n \in Nat,
           b = blocks \/ b = blocks + 1, b = blocks => n >= offset,
           n + SizeOf[t] <= A!BlockSize(b),
           blocks' = b, buf_size' = A!BlockSize(b), offset' = n + SizeOf[t],
           handed' = handed \cup {Pointer(b, n, t)}, strings' \subseteq Names,
           returned' = [type |-> t, null |-> FALSE]
    PROVE  IInv'
<1> DEFINE new == Pointer(b, n, t)
<1>1. /\ blocks \in 1..MaxBlocks /\ offset \in Nat /\ SizeOf[t] \in Nat \ {0}
      /\ handed \subseteq [block : 1..MaxBlocks, at : Nat, type : Types]
  BY DEF IInv, TypeOK
<1>2. new.block = b /\ new.at = n /\ new.type = t
      /\ new \in [block : 1..MaxBlocks, at : Nat, type : Types]
  BY DEF Pointer
<1>3. TypeOK'
  BY <1>1, <1>2 DEF TypeOK, A!BlockSize
<1>4. BelowOffset'
  <2>1. ASSUME NEW p \in handed
        PROVE  /\ p.block <= b
               /\ p.at + SizeOf[p.type] <= A!BlockSize(p.block)
               /\ p.block = b => p.at + SizeOf[p.type] <= n + SizeOf[t]
    <3>1. /\ p.block \in 1..MaxBlocks /\ p.at \in Nat /\ p.type \in Types
          /\ p.block <= blocks
          /\ p.at + SizeOf[p.type] <= A!BlockSize(p.block)
          /\ p.block = blocks => p.at + SizeOf[p.type] <= offset
      BY <2>1 DEF IInv, TypeOK, BelowOffset
    <3>2. SizeOf[p.type] \in Nat
      BY <3>1
    <3> QED
      BY <1>1, <3>1, <3>2
  <2>2. \A p \in handed' : /\ p.block <= b
                           /\ p.at + SizeOf[p.type] <= A!BlockSize(p.block)
                           /\ p.block = b => p.at + SizeOf[p.type] <= n + SizeOf[t]
    BY <1>1, <1>2, <2>1
  <2>3. b > 1 => n + SizeOf[t] > 0
    BY <1>1
  <2> QED
    BY <2>2, <2>3 DEF BelowOffset, A!BlockSize
<1>5. VerticesApart'
  <2>1. ASSUME NEW p \in handed', NEW q \in handed'
        PROVE  p = q \/ A!Apart(Bytes(p), Bytes(q))
    <3>1. CASE p \in handed /\ q \in handed
      BY <3>1 DEF IInv, VerticesApart
    <3>2. CASE p \in handed /\ q = new
      BY <1>1, <3>2, FreshIsApart
    <3>3. CASE p = new /\ q \in handed
      BY <1>1, <3>3, FreshIsApart
    <3> QED
      BY <2>1, <3>1, <3>2, <3>3
  <2> QED
    BY <2>1 DEF VerticesApart, A!Apart, Bytes
<1> QED
  BY <1>3, <1>4, <1>5 DEF IInv

LEMMA NextIInv == IInv /\ [Next]_vars => IInv'
<1> SUFFICES ASSUME IInv, [Next]_vars PROVE IInv'
  OBVIOUS
<1>1. ASSUME NEW t \in Types, AllocateHere(t) PROVE IInv'
  <2>1. /\ blocks \in 1..MaxBlocks /\ offset \in Nat /\ strings \subseteq Names
        /\ buf_size = A!BlockSize(blocks)
    BY DEF IInv, TypeOK, BelowOffset
  <2>2. Aligned(offset, t) \in Nat /\ Aligned(offset, t) >= offset
    BY <2>1, AlignedFacts
  <2> QED
    BY <1>1, <2>1, <2>2, HandedIInv DEF AllocateHere, Fits
<1>2. ASSUME NEW t \in Types, AllocateInChunk(t) PROVE IInv'
  <2>1. /\ blocks \in 1..MaxBlocks /\ offset \in Nat /\ strings \subseteq Names
        /\ SizeOf[t] \in Nat
    BY DEF IInv, TypeOK
  <2>2. /\ blocks + 1 \in 1..MaxBlocks /\ A!BlockSize(blocks + 1) = ChunkSize
        /\ FreshOffset(t) = 0
    BY <1>2, <2>1 DEF AllocateInChunk, A!BlockSize, FreshOffset
  <2>3. 0 + SizeOf[t] <= A!BlockSize(blocks + 1)
    BY <1>2, <2>1, <2>2 DEF AllocateInChunk, Hopeless
  <2>4. /\ blocks' = blocks + 1 /\ buf_size' = A!BlockSize(blocks + 1)
        /\ offset' = 0 + SizeOf[t] /\ handed' = handed \cup {Pointer(blocks + 1, 0, t)}
        /\ strings' \subseteq Names /\ returned' = [type |-> t, null |-> FALSE]
    BY <1>2, <2>1, <2>2 DEF AllocateInChunk
  <2> QED
    BY <2>1, <2>2, <2>3, <2>4, HandedIInv
<1>3. ASSUME NEW t \in Types, AllocateNull(t) PROVE IInv'
  <2>1. offset \in Nat
    BY DEF IInv, TypeOK
  <2>2. offset' = Aligned(offset, t) /\ offset' \in Nat /\ offset' >= offset
    BY <1>3, <2>1, AlignedFacts DEF AllocateNull
  <2>3. UNCHANGED <<blocks, buf_size, handed, strings>>
    BY <1>3 DEF AllocateNull
  <2>4. TypeOK'
    BY <1>3, <2>2, <2>3 DEF AllocateNull, IInv, TypeOK
  <2>5. BelowOffset'
    <3>1. \A p \in handed : p.at \in Nat /\ SizeOf[p.type] \in Nat
      BY DEF IInv, TypeOK
    <3> QED
      BY <2>1, <2>2, <2>3, <3>1 DEF IInv, BelowOffset, A!BlockSize
  <2>6. VerticesApart'
    BY <2>3 DEF IInv, VerticesApart, A!Apart, Bytes
  <2> QED
    BY <2>4, <2>5, <2>6 DEF IInv
<1>4. ASSUME NEW s \in Names, Internalize(s) PROVE IInv'
  BY <1>4 DEF IInv, TypeOK, BelowOffset, VerticesApart, A!Apart, A!BlockSize, Bytes, Internalize
<1>5. CASE UNCHANGED vars
  BY <1>5 DEF IInv, TypeOK, BelowOffset, VerticesApart, A!Apart, A!BlockSize, Bytes, vars
<1> QED
  BY <1>1, <1>2, <1>3, <1>4, <1>5 DEF Next, Create

(* Pointers, offset and sizes keep their types.                            *)
THEOREM AllocatorTypes == Spec => []TypeOK
<1>1. IInv => TypeOK
  BY DEF IInv
<1> QED
  BY <1>1, InitIInv, NextIInv, PTL DEF Spec

(* No two vertices of a graph overlap, whatever classes it creates and     *)
(* whatever sizes the blocks have: allocate never hands a byte out twice.  *)
THEOREM NoOverlap == Spec => []VerticesApart
<1>1. IInv => VerticesApart
  BY DEF IInv
<1> QED
  BY <1>1, InitIInv, NextIInv, PTL DEF Spec

Regions == {Bytes(p) : p \in handed}

(* A pointer at or after the offset, aligned and inside its block, is what *)
(* the arena may give.                                                     *)
LEMMA GivesRegion ==
    ASSUME IInv, NEW t \in Types, NEW b \in 1..MaxBlocks, NEW n \in Nat,
           b >= blocks, b = blocks => n >= offset,
           n % AlignOf[t] = 0, n + SizeOf[t] <= A!BlockSize(b),
           handed' = handed \cup {Pointer(b, n, t)}, returned' = [type |-> t, null |-> FALSE]
    PROVE  A!Give(t)
<1> DEFINE new == Pointer(b, n, t)
           r == Bytes(new)
<1>1. Regions' = Regions \cup {r}
  BY DEF Regions, Bytes
<1>2. r = [block |-> b, from |-> n, to |-> n + SizeOf[t]]
  BY DEF Bytes, Pointer
<1>3. \A s \in Regions : A!Apart(r, s) /\ s # r
  BY FreshIsApart DEF Regions
<1>4. r \in Regions' \ Regions
  BY <1>1, <1>3
<1> HIDE DEF new, r
<1> QED
  BY <1>1, <1>2, <1>3, <1>4 DEF A!Give, Regions

(* create<T> refuses only what the arena may refuse.                       *)
LEMMA RefusesRightly ==
    ASSUME IInv, NEW t \in Types, AllocateNull(t)
    PROVE  A!Refuse(t)
<1>1. Regions' = Regions /\ returned' = [type |-> t, null |-> TRUE]
  BY DEF AllocateNull, Regions, Bytes
<1>2. CASE SizeOf[t] > ChunkSize
  BY <1>1, <1>2 DEF A!Refuse, Regions
<1>3. CASE Aligned(offset, t) = 0
  <2>1. /\ offset \in Nat /\ blocks \in 1..MaxBlocks
        /\ \A p \in handed : p.block \in 1..MaxBlocks /\ p.at \in Nat /\ SizeOf[p.type] \in Nat \ {0}
    BY DEF IInv, TypeOK
  <2>2. offset = 0
    BY <1>3, <2>1, AlignedFacts
  <2>3. blocks = 1 /\ buf_size = BufSize
    BY <2>1, <2>2 DEF IInv, BelowOffset, A!BlockSize
  <2>4. handed = {}
    BY <2>1, <2>2, <2>3 DEF IInv, BelowOffset
  <2>5. SizeOf[t] > BufSize
    BY <1>3, <2>3 DEF AllocateNull, Fits
  <2> QED
    BY <1>1, <2>4, <2>5 DEF A!Refuse, Regions
<1> QED
  BY <1>2, <1>3 DEF AllocateNull, Hopeless

LEMMA StepSimulates == IInv /\ [Next]_vars => [A!Next]_<<Regions, returned>>
<1> SUFFICES ASSUME IInv, [Next]_vars PROVE A!Next \/ UNCHANGED <<Regions, returned>>
  OBVIOUS
<1>0. blocks \in 1..MaxBlocks /\ offset \in Nat /\ buf_size = A!BlockSize(blocks)
  BY DEF IInv, TypeOK, BelowOffset
<1>1. ASSUME NEW t \in Types, AllocateHere(t) PROVE A!Give(t)
  <2>1. /\ Aligned(offset, t) \in Nat /\ Aligned(offset, t) >= offset
        /\ Aligned(offset, t) % AlignOf[t] = 0
    BY <1>0, AlignedFacts
  <2> QED
    BY <1>0, <1>1, <2>1, GivesRegion DEF AllocateHere, Fits
<1>2. ASSUME NEW t \in Types, AllocateInChunk(t) PROVE A!Give(t)
  <2>1. /\ blocks + 1 \in 1..MaxBlocks /\ A!BlockSize(blocks + 1) = ChunkSize
        /\ FreshOffset(t) = 0 /\ SizeOf[t] \in Nat /\ AlignOf[t] \in Nat \ {0}
    BY <1>0, <1>2 DEF AllocateInChunk, A!BlockSize, FreshOffset
  <2>2. 0 + SizeOf[t] <= A!BlockSize(blocks + 1)
    BY <1>2, <2>1 DEF AllocateInChunk, Hopeless
  <2>3. 0 % AlignOf[t] = 0
    BY <2>1
  <2>4. handed' = handed \cup {Pointer(blocks + 1, 0, t)} /\ returned' = [type |-> t, null |-> FALSE]
    BY <1>2, <2>1 DEF AllocateInChunk
  <2> QED
    BY <1>0, <2>1, <2>2, <2>3, <2>4, GivesRegion
<1>3. ASSUME NEW t \in Types, AllocateNull(t) PROVE A!Refuse(t)
  BY <1>3, RefusesRightly
<1>4. ASSUME NEW s \in Names, Internalize(s) PROVE UNCHANGED <<Regions, returned>>
  BY <1>4 DEF Internalize, Regions, Bytes
<1>5. CASE UNCHANGED vars
  BY <1>5 DEF vars, Regions, Bytes
<1> QED
  BY <1>1, <1>2, <1>3, <1>4, <1>5 DEF Next, Create, A!Next

(* The linear allocator implements the arena: whatever the classes and     *)
(* their sizes, allocate gives regions of their own, aligned and inside    *)
(* one block, and refuses only what no fresh block could hold, or a first  *)
(* vertex bigger than the buffer. The answer of every call is part of the  *)
(* mapped state, so each refusal has to be one of the arena's.             *)
THEOREM AllocatorImplementsArena == Spec => ArenaPromise
<1>1. Init => A!Init
  BY DEF Init, A!Init
<1>2. IInv /\ [Next]_vars => [A!Next]_<<{Bytes(p) : p \in handed}, returned>>
  BY StepSimulates DEF Regions
<1> QED
  BY <1>1, <1>2, InitIInv, NextIInv, PTL DEF Spec, ArenaPromise, A!Spec
=============================================================================
