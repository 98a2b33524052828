------------------------------ MODULE Allocator ------------------------------
(***************************************************************************)
(* GraphMemory: the linear allocator of a graph's vertices and the set its *)
(* names are kept in. A block's address is a multiple of every alignment   *)
(* (operator new[] sees to it), so a pointer is a block and an offset into *)
(* it. Nothing is ever given back: removed vertices keep their bytes until *)
(* the graph goes.                                                         *)
(***************************************************************************)
EXTENDS Integers, FiniteSets, FiniteSetsExt

CONSTANTS
    Types,       \* the vertex classes create<T> is called for
    SizeOf,      \* sizeof(T)
    AlignOf,     \* alignof(T)
    BufSize,     \* buf_size of the constructor
    ChunkSize,   \* chunk_size of the constructor
    Names,       \* the names vertices are given
    MaxBlocks    \* bound: blocks an arena of a run grows to

ASSUME AllocatorAssumption ==
    /\ BufSize \in Nat \ {0}
    /\ ChunkSize \in Nat \ {0}
    /\ SizeOf \in [Types -> Nat \ {0}]
    /\ AlignOf \in [Types -> Nat \ {0}]
    /\ MaxBlocks \in Nat \ {0}

VARIABLES
    blocks,     \* blocks.size()
    offset,     \* offset - blocks.back()
    buf_size,   \* the size of the last block
    handed,     \* the pointers to the vertices created so far
    strings,    \* d_strings
    returned    \* what allocate returned last: for which class, and whether nullptr

vars == <<blocks, offset, buf_size, handed, strings, returned>>

Init ==
    /\ blocks = 1
    /\ offset = 0
    /\ buf_size = BufSize
    /\ handed = {}
    /\ strings = {}
    /\ returned = <<>>

\* Mutant: nothing is aligned.
Unaligned(n, t) == n

\* align<T>(): the next multiple of alignof(T).
Aligned(n, t) == IF n % AlignOf[t] = 0 THEN n ELSE n + (AlignOf[t] - (n % AlignOf[t]))

Pointer(b, n, t) == [block |-> b, at |-> n, type |-> t]

\* The bytes of the object a pointer points to.
Bytes(p) == [block |-> p.block, from |-> p.at, to |-> p.at + SizeOf[p.type]]

\* Mutant: the aligned offset alone is compared with the end of the block.
StartFits(t) == Aligned(offset, t) <= buf_size

Fits(t) == Aligned(offset, t) + SizeOf[t] <= buf_size

\* Mutant: an object bigger than a chunk gets a chunk all the same.
NeverHopeless(t) == Aligned(offset, t) = 0

\* Mutant: no block is ever added.
AlwaysHopeless(t) == TRUE

\* A fresh chunk would not hold the object, or the current block is fresh:
\* allocate returns nullptr.
Hopeless(t) == SizeOf[t] > ChunkSize \/ Aligned(offset, t) = 0

AllocateHere(t) ==
    /\ Fits(t)
    /\ handed' = handed \cup {Pointer(blocks, Aligned(offset, t), t)}
    /\ offset' = Aligned(offset, t) + SizeOf[t]
    /\ returned' = [type |-> t, null |-> FALSE]
    /\ UNCHANGED <<blocks, buf_size, strings>>

\* Mutant: the new block is entered where the old one was left.
OldOffset(t) == Aligned(offset, t)

FreshOffset(t) == 0

AllocateInChunk(t) ==
    /\ ~Fits(t)
    /\ ~Hopeless(t)
    /\ blocks < MaxBlocks
    /\ blocks' = blocks + 1
    /\ buf_size' = ChunkSize
    /\ handed' = handed \cup {Pointer(blocks + 1, FreshOffset(t), t)}
    /\ offset' = FreshOffset(t) + SizeOf[t]
    /\ returned' = [type |-> t, null |-> FALSE]
    /\ UNCHANGED strings

\* create<T> throws bad_alloc; the offset has been aligned.
AllocateNull(t) ==
    /\ ~Fits(t)
    /\ Hopeless(t)
    /\ offset' = Aligned(offset, t)
    /\ returned' = [type |-> t, null |-> TRUE]
    /\ UNCHANGED <<blocks, buf_size, handed, strings>>

Create(t) == AllocateHere(t) \/ AllocateInChunk(t) \/ AllocateNull(t)

\* internalize
Internalize(s) ==
    /\ strings' = strings \cup {s}
    /\ UNCHANGED <<blocks, offset, buf_size, handed, returned>>

Next ==
    \/ \E t \in Types : Create(t)
    \/ \E s \in Names : Internalize(s)

Spec == Init /\ [][Next]_vars

------------------------------------------------------------------------------
\* Pointers and sizes are what they are in the code.
TypeOK ==
    /\ blocks \in 1..MaxBlocks
    /\ offset \in Nat
    /\ buf_size \in {BufSize, ChunkSize}
    /\ handed \subseteq [block : 1..MaxBlocks, at : Nat, type : Types]
    /\ strings \subseteq Names
    /\ returned \in {<<>>} \cup [type : Types, null : BOOLEAN]

A == INSTANCE Arena WITH regions <- {Bytes(p) : p \in handed}, answer <- returned

\* No two vertices share a byte, each is aligned for its class and inside its
\* block, and allocate returns nullptr (create<T> throws bad_alloc) only for a
\* class no chunk can hold or when the very first vertex does not fit the
\* buffer: alignment, bounds test, refusals and growth together. What allocate
\* returned is part of the refined state, so a refusal is a step of the arena
\* and not a stutter.
ArenaPromise == A!Spec

\* No two vertices overlap, whatever was allocated in between.
VerticesApart == \A p, q \in handed : p = q \/ A!Apart(Bytes(p), Bytes(q))

=============================================================================
