-------------------------------- MODULE Arena --------------------------------
(***************************************************************************)
(* What an arena promises its graph, whatever the way it cuts its blocks:  *)
(* a vertex gets a region of its own, aligned for its type and inside one  *)
(* block, and keeps it; a type is refused only when no fresh block could   *)
(* hold it, or by an arena that has given nothing yet.                     *)
(***************************************************************************)
EXTENDS Integers

CONSTANTS Types, SizeOf, AlignOf, BufSize, ChunkSize

VARIABLES
    regions,   \* the regions given so far
    answer     \* the last answer: for which type, and whether it was null

BlockSize(b) == IF b = 1 THEN BufSize ELSE ChunkSize

Apart(r, s) == r.block # s.block \/ r.to <= s.from \/ s.to <= r.from

Init ==
    /\ regions = {}
    /\ answer = <<>>

Give(t) ==
    \E r \in regions' \ regions :
        /\ r.to = r.from + SizeOf[t]
        /\ r.from % AlignOf[t] = 0
        /\ r.to <= BlockSize(r.block)
        /\ \A s \in regions : Apart(r, s)
        /\ regions' = regions \cup {r}
        /\ answer' = [type |-> t, null |-> FALSE]

Refuse(t) ==
    /\ SizeOf[t] > ChunkSize \/ (regions = {} /\ SizeOf[t] > BufSize)
    /\ answer' = [type |-> t, null |-> TRUE]
    /\ UNCHANGED regions

Next == \E t \in Types : Give(t) \/ Refuse(t)

Spec == Init /\ [][Next]_<<regions, answer>>
=============================================================================
