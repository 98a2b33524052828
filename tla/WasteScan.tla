------------------------------ MODULE WasteScan ------------------------------
(***************************************************************************)
(* The scan removeWasteVertices runs over each bucket once the levels are  *)
(* up to date: a waste vertex is unlinked, swapped with the last one not   *)
(* yet removed and destroyed in place, while the iterator stays where it   *)
(* is. The destroyed vertices pile up at the end of the bucket and are cut *)
(* off when the scan is over; counterForResize, a uint8_t, says how many   *)
(* they are.                                                               *)
(***************************************************************************)
EXTENDS WasteRemoval

CONSTANTS
    Bucket,         \* d_vertices when the scan begins
    CounterValues   \* how many values counterForResize has (256, a uint8_t)

\* The order the buckets are scanned in.
Order == <<"gate", "sequential", "subGraph", "input", "constant">>
Scanned == Range(Order)

ASSUME WasteScanAssumption ==
    /\ CounterValues \in Nat \ {0}
    /\ Bucket \in [Scanned -> Seq(Vertex)]
    /\ \A t \in Scanned : /\ IsInjective(Bucket[t])
                          /\ Range(Bucket[t]) = {v \in Vertex : Kind[v] = t}

VARIABLES
    bucket,     \* d_vertices
    turn,       \* the bucket being scanned, its place in Order
    iter,       \* the iterator
    counter,    \* counterForResize
    gates,      \* d_gatesCount, summed over the gate types
    dead        \* the vertex the last step looked at was destroyed before

scan == <<bucket, turn, iter, counter, gates, dead>>
allvars == <<standing, edges, zero, scan>>

ScanInit ==
    /\ Init
    /\ bucket = Bucket
    /\ turn = 1
    /\ iter = 1
    /\ counter = 0
    /\ gates = Len(Bucket["gate"])
    /\ dead = FALSE

Type == Order[turn]

\* Mutant: the scan runs to the end of the bucket.
WholeBucket == Len(bucket[Type]) + 1

Limit == Len(bucket[Type]) + 1 - counter
Vert == bucket[Type][iter]

Scanning == turn <= Len(Order) /\ iter # Limit

\* Mutant: constants and inputs go by their level alone.
AnyTerminal(v) == FALSE

\* Orphan inputs and constants with fanout are kept.
HasReaders(v) == Kind[v] \in Terminal /\ Fanout(v) # {}

\* A destroyed vertex has no level any more: what getLevel reads is undefined.
KeepVertex ==
    /\ Scanning
    /\ Vert \notin zero \/ HasReaders(Vert) \/ Vert \notin standing
    /\ iter' = iter + 1
    /\ dead' = (Vert \notin standing)
    /\ UNCHANGED <<standing, edges, zero, bucket, turn, counter, gates>>

\* ++counterForResize
Wrapped(n) == IF n = CounterValues THEN 0 ELSE n

Swap(s, i, j) == [s EXCEPT ![i] = s[j], ![j] = s[i]]

\* The vertex swapped in is looked at next.
Stay == iter

GatesAfter == IF Type = "gate" THEN gates - 1 ELSE gates

DestroyVertex ==
    LET v == Vert IN
    /\ Scanning
    /\ v \in zero /\ ~HasReaders(v)
    /\ edges' = Without(Taken(v))
    /\ standing' = standing \ Taken(v)
    /\ gates' = GatesAfter
    /\ bucket' = [bucket EXCEPT ![Type] = Swap(@, iter, Limit - 1)]
    /\ counter' = Wrapped(counter + 1)
    /\ iter' = Stay
    /\ dead' = (v \notin standing)
    /\ UNCHANGED <<zero, turn>>

\* Mutant: one destroyed vertex stays in the bucket.
CutShort(s) == SubSeq(s, 1, Len(s) - counter + (IF counter > 1 THEN 1 ELSE 0))

\* clear() when all are gone, resize() otherwise.
Cut(s) == IF counter = Len(s) THEN <<>> ELSE SubSeq(s, 1, Len(s) - counter)

EndOfBucket ==
    /\ turn <= Len(Order)
    /\ iter = Limit
    /\ bucket' = [bucket EXCEPT ![Type] = Cut(@)]
    /\ turn' = turn + 1
    /\ iter' = 1
    /\ counter' = 0
    /\ dead' = FALSE
    /\ UNCHANGED <<standing, edges, zero, gates>>

ScanNext == KeepVertex \/ DestroyVertex \/ EndOfBucket

ScanSpec == ScanInit /\ [][ScanNext]_allvars /\ WF_allvars(ScanNext)

-----------------------------------------------------------------------------
(* Properties.                                                             *)

ScanTypeOK ==
    /\ standing \subseteq Vertex
    /\ edges \subseteq Vertex \X Vertex
    /\ zero \subseteq Vertex
    /\ bucket \in [Scanned -> Seq(Vertex)]
    /\ turn \in 1..(Len(Order) + 1)
    /\ iter \in Nat \ {0}
    /\ counter \in 0..(CounterValues - 1)
    /\ gates \in Int
    /\ dead \in BOOLEAN

Done == turn > Len(Order)

(* The scan never looks at a vertex it has destroyed, whatever is swapped  *)
(* where ("Fully unlink before destroy so waste->waste edges cannot UAF"). *)
NeverReadsDestroyed == ~dead

(* When removeWasteVertices returns, each bucket holds exactly its         *)
(* vertices that stand, each once: none destroyed, none lost.              *)
BucketsExact ==
    Done => \A t \in Scanned : /\ IsInjective(bucket[t])
                               /\ Range(bucket[t]) = {v \in standing : Kind[v] = t}

(* The scan is an implementation of the promise: each destruction is one   *)
(* the promise allows at that moment, and the promised ones all happen.    *)
Promise == Spec
=============================================================================
