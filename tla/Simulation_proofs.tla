-------------------------- MODULE Simulation_proofs --------------------------
(***************************************************************************)
(* What holds of Simulation for every set of circuits.                     *)
(***************************************************************************)
EXTENDS Simulation, SequenceLemmas

-----------------------------------------------------------------------------
(* Values that are worked out one from the other.                          *)

LEMMA Induction ==
    ASSUME NEW S, 0 \in S, \A n \in Nat : n \in S => n + 1 \in S
    PROVE  \A n \in Nat : n \in S
<1> DEFINE Bad == {n \in Nat : n \notin S}
<1> SUFFICES ASSUME Bad # {} PROVE FALSE
  OBVIOUS
<1>1. PICK n \in Bad : \A j \in Bad : n <= j
  <2>1. Bad \subseteq Nat
    OBVIOUS
  <2> HIDE DEF Bad
  <2> QED BY <2>1, Least
<1>2. n \in Nat /\ n # 0 /\ n \notin S
  BY <1>1
<1> DEFINE m == n - 1
<1>3. m \in Nat /\ m + 1 = n /\ ~(n <= m)
  BY <1>2
<1>4. m \in S
  BY <1>1, <1>3
<1> HIDE DEF m
<1>5. m + 1 \in S
  BY <1>3, <1>4
<1> QED BY <1>2, <1>3, <1>5

\* The recursions of the model: their first value, and the next from the last.
Begin(what, of) ==
    CASE what = "trace"  -> of.start
      [] what = "update" -> [call \in Calls(of) |-> call[1]]
      [] what = "remove" -> [call \in Calls(of) |-> [call[1] EXCEPT !.endless = TRUE]]
      [] what = "cone"   -> [call \in Assignments(of) \X Vertices(of) |-> Unknown]
      [] what = "below"  -> [u \in Vertices(of) |-> {}]

Round(what, of, n, h) ==
    CASE what = "trace"  -> of.call[<<h, of.list[n]>>]
      [] what = "update" -> [call \in Calls(of) |-> UpdateOnce(of, h, call[1], call[2])]
      [] what = "remove" -> [call \in Calls(of) |-> IF call[1].endless THEN call[1]
                                                    ELSE RemoveOnce(of, h, call[1], call[2])]
      [] what = "cone"   -> [call \in Assignments(of) \X Vertices(of) |->
                               ConeOnce(of, h, call[1], call[2])]
      [] what = "below"  -> [u \in Vertices(of) |->
                               UNION {IF Gate(of, d) THEN {d} \cup h[d] ELSE {} :
                                        d \in ToSet(of.ins[u])}]

\* The first n values.
Played(what, of, n, h) ==
    /\ h[0] = Begin(what, of)
    /\ \A k \in 0..(n - 1) : h[k + 1] = Round(what, of, k + 1, h[k])

LEMMA RoundsPlayed ==
    ASSUME NEW what, NEW of
    PROVE  \A n \in Nat : \E h : Played(what, of, n, h)
<1> DEFINE S == {n \in Nat : \E h : Played(what, of, n, h)}
<1>1. 0 \in S
  <2> DEFINE h == [k \in {0} |-> Begin(what, of)]
  <2>1. Played(what, of, 0, h)
    BY DEF Played
  <2> QED BY <2>1
<1>2. ASSUME NEW m \in Nat, m \in S PROVE m + 1 \in S
  <2>1. PICK h : Played(what, of, m, h)
    BY <1>2
  <2> DEFINE g == [k \in 0..(m + 1) |-> IF k = m + 1 THEN Round(what, of, m + 1, h[m]) ELSE h[k]]
  <2>2. g[m + 1] = Round(what, of, m + 1, h[m]) /\ \A k \in 0..m : g[k] = h[k]
    OBVIOUS
  <2> HIDE DEF g
  <2>3. ASSUME NEW k \in 0..((m + 1) - 1) PROVE g[k + 1] = Round(what, of, k + 1, g[k])
    <3>1. k \in 0..m /\ g[k] = h[k]
      BY <2>2
    <3>2. CASE k = m
      BY <2>2, <3>1, <3>2
    <3>3. CASE k # m
      <4>1. k \in 0..(m - 1) /\ k + 1 \in 0..m
        BY <3>1, <3>3
      <4>2. h[k + 1] = Round(what, of, k + 1, h[k])
        BY <2>1, <4>1 DEF Played
      <4> QED BY <2>2, <3>1, <4>1, <4>2
    <3> QED BY <3>2, <3>3
  <2>4. g[0] = Begin(what, of)
    BY <2>1, <2>2 DEF Played
  <2>5. Played(what, of, m + 1, g)
    BY <2>3, <2>4 DEF Played
  <2> QED BY <2>5
<1> HIDE DEF S
<1>3. \A n \in Nat : n \in S
  BY <1>1, <1>2, Induction
<1> QED BY <1>3 DEF S

LEMMA RoundsUnique ==
    ASSUME NEW what, NEW of, NEW m \in Nat, NEW n \in Nat, m <= n,
           NEW h, Played(what, of, m, h), NEW g, Played(what, of, n, g)
    PROVE  h[m] = g[m]
<1> DEFINE S == {k \in Nat : k <= m => h[k] = g[k]}
<1>1. 0 \in S
  BY DEF Played
<1>2. ASSUME NEW k \in Nat, k \in S PROVE k + 1 \in S
  <2> SUFFICES ASSUME k + 1 <= m PROVE h[k + 1] = g[k + 1]
    OBVIOUS
  <2>1. k \in 0..(m - 1) /\ k \in 0..(n - 1) /\ h[k] = g[k]
    BY <1>2
  <2>2. h[k + 1] = Round(what, of, k + 1, h[k]) /\ g[k + 1] = Round(what, of, k + 1, g[k])
    BY <2>1 DEF Played
  <2> QED BY <2>1, <2>2
<1> HIDE DEF S
<1>3. \A k \in Nat : k \in S
  BY <1>1, <1>2, Induction
<1> QED BY <1>3 DEF S

LEMMA RoundsExist ==
    ASSUME NEW what, NEW of
    PROVE  \E val : val = [n \in Nat |-> IF n = 0 THEN Begin(what, of)
                                         ELSE Round(what, of, n, val[n - 1])]
<1> DEFINE upTo(n) == CHOOSE h : Played(what, of, n, h)
           val == [n \in Nat |-> upTo(n)[n]]
<1>1. \A n \in Nat : Played(what, of, n, upTo(n))
  BY RoundsPlayed
<1>2. val[0] = Begin(what, of)
  <2>1. val[0] = upTo(0)[0] /\ Played(what, of, 0, upTo(0))
    BY <1>1
  <2> HIDE DEF upTo, val
  <2> QED BY <2>1 DEF Played
<1>3. ASSUME NEW n \in Nat, n # 0 PROVE val[n] = Round(what, of, n, val[n - 1])
  <2> DEFINE m == n - 1
  <2>1. m \in Nat /\ m + 1 = n /\ m \in 0..(n - 1) /\ m <= n
    BY <1>3
  <2>2. val[n] = upTo(n)[n] /\ val[m] = upTo(m)[m]
    BY <2>1
  <2>3. Played(what, of, n, upTo(n)) /\ Played(what, of, m, upTo(m))
    BY <1>1, <2>1
  <2> HIDE DEF upTo, val, m
  <2>4. upTo(n)[m + 1] = Round(what, of, m + 1, upTo(n)[m])
    BY <2>1, <2>3 DEF Played
  <2>5. upTo(m)[m] = upTo(n)[m]
    BY <2>1, <2>3, RoundsUnique
  <2> QED BY <2>1, <2>2, <2>4, <2>5 DEF m
<1> DEFINE rule == [n \in Nat |-> IF n = 0 THEN Begin(what, of) ELSE Round(what, of, n, val[n - 1])]
<1>4. val = [n \in Nat |-> val[n]]
  OBVIOUS
<1> HIDE DEF val, upTo
<1>5. \A n \in Nat : val[n] = rule[n]
  BY <1>2, <1>3
<1>6. rule = [n \in Nat |-> rule[n]]
  OBVIOUS
<1> HIDE DEF rule
<1>7. val = rule
  BY <1>4, <1>5, <1>6
<1> QED BY <1>7 DEF rule

\* The values val are those the recursion makes.
Rounds(what, of, val) ==
    /\ val[0] = Begin(what, of)
    /\ \A n \in Nat : val[n + 1] = Round(what, of, n + 1, val[n])

LEMMA RuleRounds ==
    ASSUME NEW what, NEW of, NEW val,
           val = [n \in Nat |-> IF n = 0 THEN Begin(what, of) ELSE Round(what, of, n, val[n - 1])]
    PROVE  Rounds(what, of, val)
<1>1. \A n \in Nat : val[n] = IF n = 0 THEN Begin(what, of) ELSE Round(what, of, n, val[n - 1])
  OBVIOUS
<1>2. val[0] = Begin(what, of)
  BY <1>1
<1>3. ASSUME NEW n \in Nat PROVE val[n + 1] = Round(what, of, n + 1, val[n])
  <2>1. n + 1 \in Nat /\ n + 1 # 0 /\ (n + 1) - 1 = n
    OBVIOUS
  <2> QED BY <1>1, <2>1
<1> QED BY <1>2, <1>3 DEF Rounds

(* A list is gone through from its first element on.                       *)
LEMMA TraceFacts ==
    ASSUME NEW call, NEW s, NEW list
    PROVE  /\ Trace(call, s, list)[0] = s
           /\ \A i \in Nat : Trace(call, s, list)[i + 1] = call[<<Trace(call, s, list)[i], list[i + 1]>>]
<1> DEFINE of == [start |-> s, call |-> call, list |-> list]
           Rule(h) == [i \in Nat |-> IF i = 0 THEN s ELSE call[<<h[i - 1], list[i]>>]]
           Same(h) == [n \in Nat |-> IF n = 0 THEN Begin("trace", of) ELSE Round("trace", of, n, h[n - 1])]
           val == CHOOSE h : h = Rule(h)
<1>1. Trace(call, s, list) = val
  BY DEF Trace
<1>2. ASSUME NEW h PROVE Same(h) = Rule(h)
  BY DEF Begin, Round
<1>3. \E h : h = Same(h)
  BY RoundsExist
<1>4. \E h : h = Rule(h)
  <2> HIDE DEF Rule, Same, of
  <2> QED BY <1>2, <1>3
<1>5. val = Rule(val)
  <2> HIDE DEF Rule
  <2> QED BY <1>4
<1>6. val = Same(val)
  <2> HIDE DEF Rule, Same, val, of
  <2> QED BY <1>2, <1>5
<1> HIDE DEF val, Rule
<1>7. Rounds("trace", of, val)
  <2> HIDE DEF of
  <2> QED BY <1>6, RuleRounds
<1> QED BY <1>1, <1>7 DEF Rounds, Begin, Round

\* updateValue, n calls deep.
Updating(c, up) ==
    /\ up[0] = [call \in Calls(c) |-> call[1]]
    /\ \A n \in Nat : up[n + 1] = [call \in Calls(c) |-> UpdateOnce(c, up[n], call[1], call[2])]

LEMMA UpdatingExists ==
    ASSUME NEW c
    PROVE  \E up : Updating(c, up) /\ Update(c) = up[Depth(c)]
<1> DEFINE Rule(h) == [n \in Nat |-> IF n = 0 THEN [call \in Calls(c) |-> call[1]]
                                   ELSE [call \in Calls(c) |-> UpdateOnce(c, h[n - 1], call[1], call[2])]]
           Same(h) == [n \in Nat |-> IF n = 0 THEN Begin("update", c) ELSE Round("update", c, n, h[n - 1])]
           val == CHOOSE h : h = Rule(h)
<1>1. Update(c) = val[Depth(c)]
  BY DEF Update
<1>2. ASSUME NEW h PROVE Same(h) = Rule(h)
  BY DEF Begin, Round
<1>3. \E h : h = Same(h)
  BY RoundsExist
<1>4. \E h : h = Rule(h)
  <2> HIDE DEF Rule, Same
  <2> QED BY <1>2, <1>3
<1>5. val = Rule(val)
  <2> HIDE DEF Rule
  <2> QED BY <1>4
<1>6. val = Same(val)
  <2> HIDE DEF Rule, Same, val
  <2> QED BY <1>2, <1>5
<1> HIDE DEF val, Rule
<1>7. Rounds("update", c, val)
  BY <1>6, RuleRounds
<1>8. Updating(c, val)
  BY <1>7 DEF Rounds, Begin, Round, Updating
<1> QED BY <1>1, <1>8

\* removeValue, n calls deep.
Removing(c, rm) ==
    /\ rm[0] = [call \in Calls(c) |-> [call[1] EXCEPT !.endless = TRUE]]
    /\ \A n \in Nat : rm[n + 1] = [call \in Calls(c) |-> IF call[1].endless THEN call[1] ELSE RemoveOnce(c, rm[n], call[1], call[2])]

LEMMA RemovingExists ==
    ASSUME NEW c
    PROVE  \E rm : Removing(c, rm) /\ Removal(c) = rm[Depth(c)]
<1> DEFINE Rule(h) == [n \in Nat |-> IF n = 0 THEN [call \in Calls(c) |-> [call[1] EXCEPT !.endless = TRUE]]
                                   ELSE [call \in Calls(c) |-> IF call[1].endless THEN call[1] ELSE RemoveOnce(c, h[n - 1], call[1], call[2])]]
           Same(h) == [n \in Nat |-> IF n = 0 THEN Begin("remove", c) ELSE Round("remove", c, n, h[n - 1])]
           val == CHOOSE h : h = Rule(h)
<1>1. Removal(c) = val[Depth(c)]
  BY DEF Removal
<1>2. ASSUME NEW h PROVE Same(h) = Rule(h)
  BY DEF Begin, Round
<1>3. \E h : h = Same(h)
  BY RoundsExist
<1>4. \E h : h = Rule(h)
  <2> HIDE DEF Rule, Same
  <2> QED BY <1>2, <1>3
<1>5. val = Rule(val)
  <2> HIDE DEF Rule
  <2> QED BY <1>4
<1>6. val = Same(val)
  <2> HIDE DEF Rule, Same, val
  <2> QED BY <1>2, <1>5
<1> HIDE DEF val, Rule
<1>7. Rounds("remove", c, val)
  BY <1>6, RuleRounds
<1>8. Removing(c, val)
  BY <1>7 DEF Rounds, Begin, Round, Removing
<1> QED BY <1>1, <1>8

\* The values of cones n gates deep.
Coning(c, cone) ==
    /\ cone[0] = [call \in Assignments(c) \X Vertices(c) |-> Unknown]
    /\ \A n \in Nat : cone[n + 1] = [call \in Assignments(c) \X Vertices(c) |-> ConeOnce(c, cone[n], call[1], call[2])]

LEMMA ConingExists ==
    ASSUME NEW c
    PROVE  \E cone : Coning(c, cone) /\ \A value, v : Cone(c, value, v) = cone[Depth(c)][<<value, v>>]
<1> DEFINE Rule(h) == [n \in Nat |-> IF n = 0 THEN [call \in Assignments(c) \X Vertices(c) |-> Unknown]
                                   ELSE [call \in Assignments(c) \X Vertices(c) |-> ConeOnce(c, h[n - 1], call[1], call[2])]]
           Same(h) == [n \in Nat |-> IF n = 0 THEN Begin("cone", c) ELSE Round("cone", c, n, h[n - 1])]
           val == CHOOSE h : h = Rule(h)
<1>1. \A value, v : Cone(c, value, v) = val[Depth(c)][<<value, v>>]
  BY DEF Cone
<1>2. ASSUME NEW h PROVE Same(h) = Rule(h)
  BY DEF Begin, Round
<1>3. \E h : h = Same(h)
  BY RoundsExist
<1>4. \E h : h = Rule(h)
  <2> HIDE DEF Rule, Same
  <2> QED BY <1>2, <1>3
<1>5. val = Rule(val)
  <2> HIDE DEF Rule
  <2> QED BY <1>4
<1>6. val = Same(val)
  <2> HIDE DEF Rule, Same, val
  <2> QED BY <1>2, <1>5
<1> HIDE DEF val, Rule
<1>7. Rounds("cone", c, val)
  BY <1>6, RuleRounds
<1>8. Coning(c, val)
  BY <1>7 DEF Rounds, Begin, Round, Coning
<1> QED BY <1>1, <1>8

\* The gates at most n gates below.
Descending(c, below) ==
    /\ below[0] = [u \in Vertices(c) |-> {}]
    /\ \A n \in Nat : below[n + 1] = [u \in Vertices(c) |-> UNION {IF Gate(c, d) THEN {d} \cup below[n][d] ELSE {} : d \in ToSet(c.ins[u])}]

LEMMA DescendingExists ==
    ASSUME NEW c
    PROVE  \E below : Descending(c, below) /\ \A v : Below(c, v) = below[Depth(c)][v]
<1> DEFINE Rule(h) == [n \in Nat |-> IF n = 0 THEN [u \in Vertices(c) |-> {}]
                                   ELSE [u \in Vertices(c) |-> UNION {IF Gate(c, d) THEN {d} \cup h[n - 1][d] ELSE {} : d \in ToSet(c.ins[u])}]]
           Same(h) == [n \in Nat |-> IF n = 0 THEN Begin("below", c) ELSE Round("below", c, n, h[n - 1])]
           val == CHOOSE h : h = Rule(h)
<1>1. \A v : Below(c, v) = val[Depth(c)][v]
  BY DEF Below
<1>2. ASSUME NEW h PROVE Same(h) = Rule(h)
  BY DEF Begin, Round
<1>3. \E h : h = Same(h)
  BY RoundsExist
<1>4. \E h : h = Rule(h)
  <2> HIDE DEF Rule, Same
  <2> QED BY <1>2, <1>3
<1>5. val = Rule(val)
  <2> HIDE DEF Rule
  <2> QED BY <1>4
<1>6. val = Same(val)
  <2> HIDE DEF Rule, Same, val
  <2> QED BY <1>2, <1>5
<1> HIDE DEF val, Rule
<1>7. Rounds("below", c, val)
  BY <1>6, RuleRounds
<1>8. Descending(c, val)
  BY <1>7 DEF Rounds, Begin, Round, Descending
<1> QED BY <1>1, <1>8

-----------------------------------------------------------------------------
(* Calls one after the other.                                              *)

(* What every call keeps from one place of the list to the next holds in   *)
(* the end.                                                                *)
LEMMA TraceKeeps ==
    ASSUME NEW call, NEW s, NEW list, Len(list) \in Nat, NEW P, s \in P[0],
           \A i \in 1..Len(list) : \A t \in P[i - 1] : call[<<t, list[i]>>] \in P[i]
    PROVE  /\ \A i \in 0..Len(list) : Trace(call, s, list)[i] \in P[i]
           /\ Through(call, s, list) \in P[Len(list)]
<1> DEFINE tr == Trace(call, s, list)
           S == {i \in Nat : i <= Len(list) => tr[i] \in P[i]}
<1>1. tr[0] = s /\ \A i \in Nat : tr[i + 1] = call[<<tr[i], list[i + 1]>>]
  BY TraceFacts
<1> HIDE DEF tr
<1>2. 0 \in S
  BY <1>1
<1>3. ASSUME NEW i \in Nat, i \in S PROVE i + 1 \in S
  <2> SUFFICES ASSUME i + 1 <= Len(list) PROVE tr[i + 1] \in P[i + 1]
    OBVIOUS
  <2>1. tr[i] \in P[i] /\ i + 1 \in 1..Len(list) /\ (i + 1) - 1 = i
    BY <1>3
  <2> DEFINE j == i + 1
  <2>2. j \in 1..Len(list) /\ j - 1 = i /\ tr[i] \in P[j - 1]
    BY <2>1
  <2> HIDE DEF j
  <2>3. call[<<tr[i], list[j]>>] \in P[j]
    BY <2>2
  <2> QED BY <1>1, <2>3 DEF j
<1> HIDE DEF S
<1>4. \A i \in Nat : i \in S
  BY <1>2, <1>3, Induction
<1>5. \A i \in 0..Len(list) : tr[i] \in P[i]
  BY <1>4 DEF S
<1>6. Len(list) \in 0..Len(list)
  OBVIOUS
<1> QED BY <1>5, <1>6 DEF tr, Through

(* What every call on a member of the list keeps.                          *)
LEMMA TraceStays ==
    ASSUME NEW call, NEW s, NEW V, NEW list \in Seq(V), NEW P, s \in P,
           \A v \in ToSet(list) : \A t \in P : call[<<t, v>>] \in P
    PROVE  /\ \A i \in 0..Len(list) : Trace(call, s, list)[i] \in P
           /\ Through(call, s, list) \in P
<1> DEFINE F == [i \in Int |-> P]
<1>1. \A i \in Int : F[i] = P
  OBVIOUS
<1> HIDE DEF F
<1>2. Len(list) \in Nat /\ \A i \in 1..Len(list) : list[i] \in ToSet(list)
  BY DEF ToSet
<1>3. s \in F[0]
  BY <1>1
<1>4. \A i \in 1..Len(list) : \A t \in F[i - 1] : call[<<t, list[i]>>] \in F[i]
  BY <1>1, <1>2
<1>5. /\ \A i \in 0..Len(list) : Trace(call, s, list)[i] \in F[i]
      /\ Through(call, s, list) \in F[Len(list)]
  BY <1>2, <1>3, <1>4, TraceKeeps
<1> QED BY <1>1, <1>2, <1>5

(* Nothing to call.                                                        *)
LEMMA ThroughNothing ==
    ASSUME NEW call, NEW s
    PROVE  Through(call, s, <<>>) = s
BY TraceFacts DEF Through

-----------------------------------------------------------------------------
(* The memory keeps its type, and updateValue never goes on for ever.      *)

Like(c, s) == {t \in Memory(c) : t.endless = s.endless}

\* All calls of updateValue are of that kind.
Typed(c, up) == \A s \in Memory(c), v \in Vertices(c) : up[<<s, v>>] \in Like(c, s)

LEMMA LikeSelf ==
    ASSUME NEW c, NEW s \in Memory(c)
    PROVE  s \in Like(c, s)
BY DEF Like

LEMMA LikeLike ==
    ASSUME NEW c, NEW s, NEW t \in Like(c, s), NEW u \in Like(c, t)
    PROVE  u \in Like(c, s)
BY DEF Like

\* The memory s after vertex v got the value x.
Valued(s, v, x) == [s EXCEPT !.value[v] = x]

LEMMA ValuedFacts ==
    ASSUME NEW c, NEW s \in Memory(c), NEW v \in Vertices(c), NEW x \in Values
    PROVE  /\ Valued(s, v, x) \in Like(c, s)
           /\ Valued(s, v, x).value[v] = x
           /\ \A w \in Vertices(c) \ {v} : Valued(s, v, x).value[w] = s.value[w]
           /\ Valued(s, v, x).prevClk = s.prevClk
           /\ Valued(s, v, x).staged = s.staged
           /\ Valued(s, v, x).sim = s.sim
           /\ Valued(s, v, x).active = s.active
BY DEF Valued, Memory, Like

\* The memory s with another set of calls under way.
Within(s, A) == [s EXCEPT !.active = A]

LEMMA WithinFacts ==
    ASSUME NEW c, NEW s \in Memory(c), NEW A \in SUBSET Vertices(c)
    PROVE  /\ Within(s, A) \in Like(c, s)
           /\ Within(s, A).active = A
           /\ Within(s, A).value = s.value
           /\ Within(s, A).prevClk = s.prevClk
           /\ Within(s, A).staged = s.staged
           /\ Within(s, A).sim = s.sim
BY DEF Within, Memory, Like

LEMMA MemoryFields ==
    ASSUME NEW c, NEW s \in Memory(c)
    PROVE  /\ s.value \in [Vertices(c) -> Values]
           /\ s.prevClk \in [Of(c, "seq") -> Values]
           /\ s.staged \in [Of(c, "seq") -> {<<>>} \cup (Values \X Values)]
           /\ s.sim \in [Of(c, "sub") -> Seq(Values)]
           /\ s.active \in SUBSET Vertices(c)
           /\ s.endless \in BOOLEAN
BY DEF Memory

LEMMA TableValues ==
    ASSUME NEW gate \in GateTypes \ {"Buf", "Not"}, NEW a, NEW b
    PROVE  Table(gate, a, b) \in {"0", "1", "x"}
BY DEF GateTypes, Table, Both, Invert, Differ, Unknown

LEMMA SingleValues ==
    ASSUME NEW gate, NEW a \in Values
    PROVE  Single(gate, a) \in Values
BY DEF Single, Invert, Unknown, Values

LEMMA Drivers ==
    ASSUME NEW c, Built(c), NEW v \in Vertices(c)
    PROVE  /\ c.ins[v] \in Seq(Vertices(c))
           /\ \A i \in 1..Len(c.ins[v]) : c.ins[v][i] \in Vertices(c)
           /\ ToSet(c.ins[v]) \subseteq Vertices(c)
           /\ c.ins[v] # <<>> =>
                /\ c.ins[v][1] \in Vertices(c)
                /\ c.ins[v][1] \in ToSet(c.ins[v])
                /\ Tail(c.ins[v]) \in Seq(Vertices(c))
                /\ ToSet(Tail(c.ins[v])) \subseteq ToSet(c.ins[v])
<1>1. c.ins[v] \in Seq(Vertices(c))
  BY DEF Built
<1> DEFINE ins == c.ins[v]
<1> HIDE DEF ins
<1>2. ins \in Seq(Vertices(c)) /\ Len(ins) \in Nat /\ DOMAIN ins = 1..Len(ins)
  BY <1>1 DEF ins
<1>3. \A i \in 1..Len(ins) : ins[i] \in Vertices(c) /\ ins[i] \in ToSet(ins)
  BY <1>2 DEF ToSet
<1>4. ToSet(ins) \subseteq Vertices(c)
  BY <1>2 DEF ToSet
<1>5. ASSUME ins # <<>>
      PROVE  /\ 1 \in 1..Len(ins)
             /\ Tail(ins) \in Seq(Vertices(c))
             /\ ToSet(Tail(ins)) \subseteq ToSet(ins)
  <2>1. 1 \in 1..Len(ins) /\ Tail(ins) \in Seq(Vertices(c))
    BY <1>2, <1>5
  <2>2. DOMAIN Tail(ins) = 1..(Len(ins) - 1) /\ \A i \in 1..(Len(ins) - 1) : Tail(ins)[i] = ins[i + 1]
    BY <1>2, <1>5
  <2>3. \A i \in DOMAIN Tail(ins) : Tail(ins)[i] \in ToSet(ins)
    BY <1>2, <2>2 DEF ToSet
  <2>4. ToSet(Tail(ins)) \subseteq ToSet(ins)
    BY <2>3 DEF ToSet
  <2> QED BY <2>1, <2>4
<1> QED BY <1>2, <1>3, <1>4, <1>5 DEF ins

LEMMA TailOfOne ==
    ASSUME NEW S, NEW s \in Seq(S), s # <<>>, Len(s) <= 1
    PROVE  Tail(s) = <<>>
<1>1. Len(s) \in Nat /\ Len(s) # 0
  OBVIOUS
<1>2. Len(s) = 1
  BY <1>1
<1>3. Tail(s) \in Seq(S) /\ Len(Tail(s)) = 0
  BY <1>2
<1> QED BY <1>3

(* Buffers and inverters have no second driver.                            *)
LEMMA OneDriver ==
    ASSUME NEW c, Built(c), NEW v \in Vertices(c), c.kind[v] \in {"Buf", "Not"}, c.ins[v] # <<>>
    PROVE  Tail(c.ins[v]) = <<>>
<1>1. v \in Of(c, "Buf") \cup Of(c, "Not")
  BY DEF Of
<1>2. Len(c.ins[v]) <= 1 /\ c.ins[v] \in Seq(Vertices(c))
  BY <1>1 DEF Built
<1>3. c.ins[v] \in Seq(Vertices(c))
  BY <1>2
<1> QED BY <1>2, <1>3, TailOfOne

LEMMA PullTyped ==
    ASSUME NEW c, NEW up, Typed(c, up), NEW s \in Memory(c), NEW v \in Vertices(c)
    PROVE  Pull(up, s, v) \in Like(c, s)
BY LikeSelf DEF Pull, Typed

LEMMA MergedTyped ==
    ASSUME NEW c, Built(c), NEW up, Typed(c, up), NEW v \in Vertices(c),
           c.kind[v] \in GateTypes \ {"Buf", "Not"},
           NEW s \in Memory(c), NEW d \in Vertices(c)
    PROVE  /\ Merged(c, up, v, s, d) \in Like(c, s)
           /\ Merging(c, up, v)[<<s, d>>] = Merged(c, up, v, s, d)
<1> DEFINE p == Pull(up, s, d)
           x == Table(c.kind[v], p.value[v], p.value[d])
<1>1. p \in Like(c, s) /\ p \in Memory(c)
  BY PullTyped DEF Like
<1>2. x \in Values
  BY TableValues DEF Values
<1>3. Merged(c, up, v, s, d) = Valued(p, v, x)
  BY DEF Merged, Valued
<1> HIDE DEF p, x
<1>4. Valued(p, v, x) \in Like(c, p)
  BY <1>1, <1>2, ValuedFacts
<1>5. Merged(c, up, v, s, d) \in Like(c, s)
  BY <1>1, <1>3, <1>4, LikeLike
<1>6. <<s, d>> \in Calls(c) /\ <<s, d>>[1] = s /\ <<s, d>>[2] = d
  BY DEF Calls
<1>7. Merging(c, up, v)[<<s, d>>] = Merged(c, up, v, s, d)
  BY <1>6 DEF Merging
<1> QED BY <1>5, <1>7

LEMMA BufferedValues ==
    ASSUME NEW c, NEW s \in Memory(c), NEW v, NEW sub \in Of(c, "sub")
    PROVE  Buffered(c, s, v, sub) \in Values
<1>1. s.sim[sub] \in Seq(Values)
  BY MemoryFields
<1> DEFINE sim == s.sim[sub]
           at == At(c.outs[sub], v)
<1>2. sim \in Seq(Values)
  BY <1>1
<1>3. Buffered(c, s, v, sub) = IF at \in DOMAIN sim THEN sim[at] ELSE Unknown
  BY DEF Buffered
<1> HIDE DEF sim, at
<1>4. ASSUME at \in DOMAIN sim PROVE sim[at] \in Values
  BY <1>2, <1>4
<1> QED BY <1>3, <1>4 DEF Values, Unknown

\* A gate is called with at least one driver.
Working(c, v) == v \in Vertices(c) /\ c.ins[v] # <<>>

LEMMA GateValueTyped ==
    ASSUME NEW c, Built(c), NEW up, Typed(c, up), NEW s \in Memory(c),
           NEW v, Working(c, v), Gate(c, v)
    PROVE  GateValue(c, up, s, v) \in Like(c, s)
<1>1. v \in Vertices(c) /\ c.ins[v] # <<>> /\ c.kind[v] \in GateTypes
  BY DEF Working, Gate
<1> DEFINE first == c.ins[v][1]
           start == Pull(up, s, first)
           one == Single(c.kind[v], start.value[first])
           rest == Tail(c.ins[v])
<1>2. first \in Vertices(c) /\ rest \in Seq(Vertices(c)) /\ ToSet(rest) \subseteq Vertices(c)
  <2>1. ToSet(rest) \subseteq ToSet(c.ins[v]) /\ ToSet(c.ins[v]) \subseteq Vertices(c)
    BY <1>1, Drivers
  <2>2. first \in Vertices(c) /\ rest \in Seq(Vertices(c))
    BY <1>1, Drivers
  <2> HIDE DEF rest, first
  <2> QED BY <2>1, <2>2
<1>3. start \in Like(c, s) /\ start \in Memory(c)
  <2> HIDE DEF first
  <2> QED BY <1>2, PullTyped DEF Like
<1>4. CASE c.kind[v] = "Buf" /\ c.kind[first] = "sub"
  <2>1. first \in Of(c, "sub")
    BY <1>2, <1>4 DEF Of
  <2> DEFINE b == Buffered(c, start, v, first)
  <2>2. b \in Values
    <3> HIDE DEF first, start
    <3> QED BY <1>3, <2>1, BufferedValues
  <2>3. GateValue(c, up, s, v) = Valued(start, v, b)
    BY <1>4 DEF GateValue, Valued
  <2> HIDE DEF b, start, first
  <2>4. Valued(start, v, b) \in Like(c, start)
    BY <1>1, <1>3, <2>2, ValuedFacts
  <2> QED BY <1>3, <2>3, <2>4, LikeLike
<1>5. CASE ~(c.kind[v] = "Buf" /\ c.kind[first] = "sub")
  <2>1. GateValue(c, up, s, v) = Through(Merging(c, up, v), Valued(start, v, one), rest)
    BY <1>5 DEF GateValue, Valued
  <2>2. one \in Values
    <3>1. start.value[first] \in Values
      <4> HIDE DEF start, first
      <4> QED BY <1>2, <1>3, MemoryFields
    <3> HIDE DEF start, first
    <3> QED BY <3>1, SingleValues
  <2> HIDE DEF one, start, first
  <2>3. Valued(start, v, one) \in Like(c, start)
    BY <1>1, <1>3, <2>2, ValuedFacts
  <2>4. Valued(start, v, one) \in Like(c, s)
    BY <1>3, <2>3, LikeLike
  <2>5. CASE c.kind[v] \in {"Buf", "Not"}
    <3>1. rest = <<>>
      BY <1>1, <2>5, OneDriver
    <3> QED BY <2>1, <2>4, <3>1, ThroughNothing
  <2>6. CASE c.kind[v] \notin {"Buf", "Not"}
    <3>1. ASSUME NEW d \in ToSet(rest), NEW t \in Like(c, s)
          PROVE  Merging(c, up, v)[<<t, d>>] \in Like(c, s)
      <4>1. d \in Vertices(c) /\ t \in Memory(c)
        BY <1>2, <3>1 DEF Like
      <4>2. Merging(c, up, v)[<<t, d>>] \in Like(c, t)
        BY <1>1, <2>6, <4>1, MergedTyped
      <4> QED BY <3>1, <4>2, LikeLike
    <3> HIDE DEF rest
    <3>2. Through(Merging(c, up, v), Valued(start, v, one), rest) \in Like(c, s)
      BY <1>2, <2>4, <3>1, TraceStays
    <3> QED BY <2>1, <3>2
  <2> QED BY <2>5, <2>6
<1> QED BY <1>4, <1>5

LEMMA AgreedTyped ==
    ASSUME NEW c, NEW up, Typed(c, up), NEW v \in Vertices(c),
           NEW s \in Memory(c), NEW d \in Vertices(c)
    PROVE  /\ Agreed(up, v, s, d) \in Like(c, s)
           /\ Agreeing(c, up, v)[<<s, d>>] = Agreed(up, v, s, d)
<1> DEFINE p == up[<<s, d>>]
<1>1. p \in Like(c, s) /\ p \in Memory(c)
  BY DEF Typed, Like
<1>2. Agreed(up, v, s, d) = IF p.value[d] = p.value[v] THEN p ELSE Valued(p, v, Unknown)
  BY DEF Agreed, Valued
<1> HIDE DEF p
<1>3. Valued(p, v, Unknown) \in Like(c, p)
  BY <1>1, ValuedFacts DEF Values, Unknown
<1>4. Agreed(up, v, s, d) \in Like(c, s)
  BY <1>1, <1>2, <1>3, LikeLike
<1>5. <<s, d>> \in Calls(c) /\ <<s, d>>[1] = s /\ <<s, d>>[2] = d
  BY DEF Calls
<1>6. Agreeing(c, up, v)[<<s, d>>] = Agreed(up, v, s, d)
  BY <1>5 DEF Agreeing
<1> QED BY <1>4, <1>6

LEMMA OutputValueTyped ==
    ASSUME NEW c, Built(c), NEW up, Typed(c, up), NEW s \in Memory(c), NEW v, Working(c, v)
    PROVE  OutputValue(c, up, s, v) \in Like(c, s)
<1>1. v \in Vertices(c) /\ c.ins[v] # <<>>
  BY DEF Working
<1> DEFINE d1 == c.ins[v][1]
           first == up[<<s, d1>>]
           rest == Tail(c.ins[v])
<1>2. d1 \in Vertices(c) /\ rest \in Seq(Vertices(c)) /\ ToSet(rest) \subseteq Vertices(c)
  <2>1. ToSet(rest) \subseteq ToSet(c.ins[v]) /\ ToSet(c.ins[v]) \subseteq Vertices(c)
    BY <1>1, Drivers
  <2>2. d1 \in Vertices(c) /\ rest \in Seq(Vertices(c))
    BY <1>1, Drivers
  <2> HIDE DEF rest, d1
  <2> QED BY <2>1, <2>2
<1>3. OutputValue(c, up, s, v) = Through(Agreeing(c, up, v), Valued(first, v, first.value[d1]), rest)
  BY DEF OutputValue, Valued
<1> HIDE DEF d1, rest
<1>4. first \in Like(c, s) /\ first \in Memory(c)
  BY <1>2 DEF Typed, Like
<1> HIDE DEF first
<1>5. first.value[d1] \in Values
  BY <1>2, <1>4, MemoryFields
<1>6. Valued(first, v, first.value[d1]) \in Like(c, first)
  BY <1>1, <1>4, <1>5, ValuedFacts
<1>7. Valued(first, v, first.value[d1]) \in Like(c, s)
  BY <1>4, <1>6, LikeLike
<1>8. ASSUME NEW d \in ToSet(rest), NEW t \in Like(c, s)
      PROVE  Agreeing(c, up, v)[<<t, d>>] \in Like(c, s)
  <2>1. d \in Vertices(c) /\ t \in Memory(c)
    BY <1>2, <1>8 DEF Like
  <2>2. Agreeing(c, up, v)[<<t, d>>] \in Like(c, t)
    BY <1>1, <2>1, AgreedTyped
  <2> QED BY <1>8, <2>2, LikeLike
<1>9. Through(Agreeing(c, up, v), Valued(first, v, first.value[d1]), rest) \in Like(c, s)
  BY <1>2, <1>7, <1>8, TraceStays
<1> QED BY <1>3, <1>9

\* The memory when the drivers of v are called.
Inner(s, v) == Within(Valued(s, v, Unknown), s.active \cup {v})

LEMMA InnerFacts ==
    ASSUME NEW c, NEW s \in Memory(c), NEW v \in Vertices(c)
    PROVE  /\ Inner(s, v) \in Like(c, s)
           /\ Inner(s, v) \in Memory(c)
           /\ Inner(s, v).active = s.active \cup {v}
           /\ \A w \in Vertices(c) \ {v} : Inner(s, v).value[w] = s.value[w]
           /\ Inner(s, v).prevClk = s.prevClk
           /\ Inner(s, v).staged = s.staged
<1> DEFINE t == Valued(s, v, Unknown)
<1>1. /\ t \in Like(c, s)
      /\ t.active = s.active
      /\ \A w \in Vertices(c) \ {v} : t.value[w] = s.value[w]
      /\ t.prevClk = s.prevClk
      /\ t.staged = s.staged
  BY ValuedFacts DEF Values, Unknown
<1> HIDE DEF t
<1>2. t \in Memory(c) /\ s.active \cup {v} \in SUBSET Vertices(c)
  BY <1>1, MemoryFields DEF Like
<1>3. /\ Within(t, s.active \cup {v}) \in Like(c, t)
      /\ Within(t, s.active \cup {v}).active = s.active \cup {v}
      /\ Within(t, s.active \cup {v}).value = t.value
      /\ Within(t, s.active \cup {v}).prevClk = t.prevClk
      /\ Within(t, s.active \cup {v}).staged = t.staged
  BY <1>2, WithinFacts
<1>4. Inner(s, v) = Within(t, s.active \cup {v})
  BY DEF Inner, t
<1>5. Inner(s, v) \in Like(c, s)
  BY <1>1, <1>3, <1>4, LikeLike
<1> QED BY <1>1, <1>3, <1>4, <1>5 DEF Like

LEMMA GuardedIs ==
    ASSUME NEW c, NEW up, NEW s \in Memory(c), NEW v \in Vertices(c)
    PROVE  Guarded(c, up, s, v) =
             IF v \in s.active \/ c.ins[v] = <<>> THEN Valued(s, v, Unknown)
             ELSE Within(IF Gate(c, v) THEN GateValue(c, up, Inner(s, v), v)
                                       ELSE OutputValue(c, up, Inner(s, v), v), s.active)
<1>1. [[s EXCEPT !.value[v] = Unknown] EXCEPT !.active = @ \cup {v}] = Inner(s, v)
  <2>1. Valued(s, v, Unknown).active = s.active
    BY ValuedFacts DEF Values, Unknown
  <2> QED BY <2>1 DEF Inner, Within, Valued
<1> QED BY <1>1 DEF Guarded, Valued, Within

LEMMA GuardedTyped ==
    ASSUME NEW c, Built(c), NEW up, Typed(c, up), NEW s \in Memory(c), NEW v \in Vertices(c)
    PROVE  Guarded(c, up, s, v) \in Like(c, s)
<1> DEFINE in == Inner(s, v)
           out == IF Gate(c, v) THEN GateValue(c, up, in, v) ELSE OutputValue(c, up, in, v)
<1>1. Guarded(c, up, s, v) = IF v \in s.active \/ c.ins[v] = <<>> THEN Valued(s, v, Unknown)
                             ELSE Within(out, s.active)
  BY GuardedIs
<1>2. Valued(s, v, Unknown) \in Like(c, s)
  BY ValuedFacts DEF Values, Unknown
<1>3. ASSUME c.ins[v] # <<>> PROVE Within(out, s.active) \in Like(c, s)
  <2>1. in \in Like(c, s) /\ in \in Memory(c)
    BY InnerFacts
  <2>2. Working(c, v)
    BY <1>3 DEF Working
  <2>3. out \in Like(c, in)
    <3> HIDE DEF in
    <3>1. CASE Gate(c, v)
      BY <2>1, <2>2, <3>1, GateValueTyped
    <3>2. CASE ~Gate(c, v)
      BY <2>1, <2>2, <3>2, OutputValueTyped
    <3> QED BY <3>1, <3>2
  <2> HIDE DEF in, out
  <2>4. out \in Like(c, s) /\ out \in Memory(c)
    BY <2>1, <2>3, LikeLike DEF Like
  <2>5. Within(out, s.active) \in Like(c, out)
    BY <2>4, MemoryFields, WithinFacts
  <2> QED BY <2>4, <2>5, LikeLike
<1> QED BY <1>1, <1>2, <1>3

PinNames == {"data", "clk", "en", "clear", "set"}

(* A signal that a cell has is one of its drivers.                         *)
LEMMA PinVertex ==
    ASSUME NEW c, Built(c), NEW f \in Of(c, "seq"), NEW name \in PinNames, Has(c, f, name)
    PROVE  /\ Pin(c, f, name) \in Vertices(c)
           /\ Pin(c, f, name) \in ToSet(c.ins[f])
           /\ f \in Vertices(c)
           /\ c.kind[f] = "seq"
           /\ c.ins[f] # <<>>
<1>1. f \in Vertices(c) /\ c.kind[f] = "seq"
  BY DEF Of
<1>2. /\ c.cell[f] \in CellTypes
      /\ Len(c.ins[f]) = 1 + One(c.cell[f].ff) + One(c.cell[f].en) + One(c.cell[f].clear # "none") + One(c.cell[f].set)
  BY DEF Built, CellsBuilt
<1>3. c.ins[f] \in Seq(Vertices(c))
  BY <1>1, Drivers
<1> DEFINE k == c.cell[f]
           ins == c.ins[f]
           en == 2 + One(k.ff)
           clear == en + One(k.en)
           at == CASE name = "data"  -> 1
                   [] name = "clk"   -> 2
                   [] name = "en"    -> en
                   [] name = "clear" -> clear
                   [] name = "set"   -> clear + One(k.clear # "none")
<1>4. Pin(c, f, name) = ins[at]
  BY DEF Pin
<1>5. at \in 1..Len(ins)
  <2>1. k \in CellTypes /\ Len(ins) = 1 + One(k.ff) + One(k.en) + One(k.clear # "none") + One(k.set)
    BY <1>2
  <2> HIDE DEF ins
  <2>2. CASE name = "data" \/ name = "clk"
    <3>1. \A b : One(b) \in 0..1
      BY DEF One
    <3>2. name = "clk" => One(k.ff) = 1
      BY DEF Has, One
    <3>3. at = IF name = "clk" THEN 2 ELSE 1
      BY <2>2
    <3> HIDE DEF at
    <3> QED BY <2>1, <2>2, <3>1, <3>2, <3>3
  <2>3. CASE name = "en"
    BY <2>1, <2>3 DEF Has, CellTypes, One
  <2>4. CASE name = "clear"
    BY <2>1, <2>4 DEF Has, CellTypes, One
  <2>5. CASE name = "set"
    BY <2>1, <2>5 DEF Has, CellTypes, One
  <2> QED BY <2>2, <2>3, <2>4, <2>5 DEF PinNames
<1> HIDE DEF at
<1>6. ins[at] \in Vertices(c) /\ ins[at] \in ToSet(ins) /\ ins # <<>>
  <2> HIDE DEF ins
  <2>1. ins \in Seq(Vertices(c))
    BY <1>3 DEF ins
  <2> QED BY <1>5, <2>1 DEF ToSet
<1> QED BY <1>1, <1>4, <1>6

LEMMA LookTyped ==
    ASSUME NEW c, Built(c), NEW up, Typed(c, up), NEW s \in Memory(c),
           NEW f \in Of(c, "seq"), NEW name \in PinNames
    PROVE  Look(c, up, s, f, name) \in Like(c, s)
BY PinVertex, LikeSelf DEF Look, Typed

LEMMA SeenValues ==
    ASSUME NEW c, Built(c), NEW s \in Memory(c), NEW f \in Of(c, "seq"), NEW name \in PinNames
    PROVE  Seen(c, s, f, name) \in Values
<1>1. s.value \in [Vertices(c) -> Values]
  BY MemoryFields
<1>2. CASE Has(c, f, name)
  BY <1>1, <1>2, PinVertex DEF Seen
<1>3. CASE ~Has(c, f, name)
  BY <1>3 DEF Seen, Values
<1> QED BY <1>2, <1>3

Effects == {"none", "0", "1", "x"}

\* What was forced, on memories like s.
Forcing(c, s) == {forced \in [cells : Like(c, s), by : Effects] : TRUE}

LEMMA UnforcedTyped ==
    ASSUME NEW c, NEW s, NEW t \in Like(c, s)
    PROVE  Unforced(t) \in Forcing(c, s)
BY DEF Unforced, Forcing, Effects

LEMMA ForcedTyped ==
    ASSUME NEW c, Built(c), NEW up, Typed(c, up), NEW s \in Memory(c), NEW forced \in Forcing(c, s),
           NEW f \in Of(c, "seq"), NEW name \in PinNames
    PROVE  Forced(c, up, forced, f, name) \in Forcing(c, s)
<1>1. forced.cells \in Like(c, s) /\ forced.cells \in Memory(c) /\ forced.by \in Effects
  BY DEF Forcing, Like
<1> DEFINE t == Look(c, up, forced.cells, f, name)
           e == Effect(c, f, name, t.value[Pin(c, f, name)])
<1>2. t \in Like(c, s)
  BY <1>1, LookTyped, LikeLike
<1>3. e \in Effects
  BY DEF Effect, Effects, Unknown
<1>4. Forced(c, up, forced, f, name) =
        IF forced.by # "none" \/ ~Has(c, f, name) THEN forced ELSE [cells |-> t, by |-> e]
  BY DEF Forced
<1> HIDE DEF t, e
<1>5. [cells |-> t, by |-> e] \in Forcing(c, s)
  BY <1>2, <1>3 DEF Forcing
<1> QED BY <1>4, <1>5

\* The memory s after f staged the value q and the clock level clk.
Staged(s, f, q, clk) == [s EXCEPT !.staged[f] = <<q, clk>>]

LEMMA StagedFacts ==
    ASSUME NEW c, NEW s \in Memory(c), NEW f \in Of(c, "seq"), NEW q \in Values, NEW clk \in Values
    PROVE  /\ Staged(s, f, q, clk) \in Like(c, s)
           /\ Staged(s, f, q, clk).staged[f] = <<q, clk>>
           /\ \A g \in Of(c, "seq") \ {f} : Staged(s, f, q, clk).staged[g] = s.staged[g]
           /\ Staged(s, f, q, clk).value = s.value
           /\ Staged(s, f, q, clk).prevClk = s.prevClk
           /\ Staged(s, f, q, clk).active = s.active
<1>1. <<q, clk>> \in {<<>>} \cup (Values \X Values)
  OBVIOUS
<1> DEFINE p == <<q, clk>>
<1> HIDE DEF p
<1>2. p \in {<<>>} \cup (Values \X Values)
  BY <1>1 DEF p
<1>3. Staged(s, f, q, clk) = [s EXCEPT !.staged[f] = p]
  BY DEF Staged, p
<1>4. /\ [s EXCEPT !.staged[f] = p] \in Like(c, s)
      /\ [s EXCEPT !.staged[f] = p].staged[f] = p
      /\ \A g \in Of(c, "seq") \ {f} : [s EXCEPT !.staged[f] = p].staged[g] = s.staged[g]
      /\ [s EXCEPT !.staged[f] = p].value = s.value
      /\ [s EXCEPT !.staged[f] = p].prevClk = s.prevClk
      /\ [s EXCEPT !.staged[f] = p].active = s.active
  BY <1>2 DEF Memory, Like
<1> QED BY <1>3, <1>4 DEF p

LEMMA NextValues ==
    ASSUME NEW by \in Effects, NEW tick, NEW q \in Values, NEW data, NEW en
    PROVE  NextFF([cells |-> 0, by |-> by], tick, q, data, en) \in Values
BY DEF NextFF, Held, Captured, Effects, Values, Unknown, Undefined

LEMMA StageFFTyped ==
    ASSUME NEW c, Built(c), NEW up, Typed(c, up), NEW s \in Memory(c), NEW f \in Of(c, "seq")
    PROVE  StageFF(c, up, s, f) \in Like(c, s)
<1> DEFINE s1 == Look(c, up, s, f, "data")
           s2 == Look(c, up, s1, f, "clk")
           s3 == Look(c, up, s2, f, "en")
           clk == Seen(c, s2, f, "clk")
           clear == ClearFF(c, up, s3, f)
           tick == <<clear.cells.prevClk[f], clk>> = Edge(c.cell[f])
           forced == IF clear.by # "none" \/ ~tick THEN clear ELSE EdgeFF(c, up, clear, f)
           next == NextFF(forced, tick, s1.value[f], Seen(c, s1, f, "data"), Seen(c, s3, f, "en"))
<1>0. StageFF(c, up, s, f) = Staged(forced.cells, f, next, clk)
  BY DEF StageFF, Staged
<1>1. s1 \in Like(c, s) /\ s1 \in Memory(c)
  BY LookTyped DEF PinNames, Like
<1>2. next = NextFF(forced, tick, s1.value[f], Seen(c, s1, f, "data"), Seen(c, s3, f, "en"))
  OBVIOUS
<1> HIDE DEF next
<1> HIDE DEF s1
<1>3. s2 \in Like(c, s1) /\ s2 \in Memory(c)
  BY <1>1, LookTyped DEF PinNames, Like
<1> HIDE DEF s2
<1>4. s3 \in Like(c, s2) /\ s3 \in Memory(c) /\ clk \in Values
  BY <1>3, LookTyped, SeenValues DEF PinNames, Like
<1> HIDE DEF clk, s3
<1>5. s3 \in Like(c, s)
  BY <1>1, <1>3, <1>4, LikeLike
<1>6. clear \in Forcing(c, s)
  <2>1. Unforced(s3) \in Forcing(c, s)
    BY <1>5, UnforcedTyped
  <2> QED BY <2>1, ForcedTyped DEF ClearFF, PinNames
<1> HIDE DEF clear
<1>7. forced \in Forcing(c, s)
  <2>1. EdgeFF(c, up, clear, f) \in Forcing(c, s)
    <3> DEFINE a == IF c.cell[f].async THEN clear ELSE Forced(c, up, clear, f, "clear")
    <3>1. a \in Forcing(c, s)
      BY <1>6, ForcedTyped DEF PinNames
    <3>2. EdgeFF(c, up, clear, f) = Forced(c, up, a, f, "set")
      BY DEF EdgeFF
    <3> HIDE DEF a
    <3> QED BY <3>1, <3>2, ForcedTyped DEF PinNames
  <2> QED BY <1>6, <2>1
<1> HIDE DEF forced, tick
<1>8. forced.cells \in Like(c, s) /\ forced.cells \in Memory(c) /\ forced.by \in Effects
  BY <1>7 DEF Forcing, Like
<1>9. next \in Values
  <2>1. f \in Vertices(c) /\ s1.value \in [Vertices(c) -> Values]
    BY <1>1, MemoryFields DEF Of
  <2> QED BY <1>2, <1>8, <2>1 DEF NextFF, Held, Captured, Effects, Values, Unknown, Undefined
<1>10. Staged(forced.cells, f, next, clk) \in Like(c, forced.cells)
  BY <1>4, <1>8, <1>9, StagedFacts
<1> QED BY <1>0, <1>8, <1>10, LikeLike

LEMMA StageLatchTyped ==
    ASSUME NEW c, Built(c), NEW up, Typed(c, up), NEW s \in Memory(c), NEW f \in Of(c, "seq")
    PROVE  StageLatch(c, up, s, f) \in Like(c, s)
<1> DEFINE s1 == Look(c, up, s, f, "data")
           clear == Forced(c, up, Unforced(s1), f, "clear")
           forced == Forced(c, up, clear, f, "set")
           s2 == IF forced.by # "none" THEN forced.cells ELSE Look(c, up, forced.cells, f, "en")
           next == IF forced.by # "none" THEN forced.by
                   ELSE IF Seen(c, s2, f, "en") = "1" THEN Captured(Seen(c, s1, f, "data"))
                   ELSE Held(s1.value[f])
<1>0. StageLatch(c, up, s, f) = Staged(s2, f, next, s1.prevClk[f])
  BY DEF StageLatch, Staged
<1>1. s1 \in Like(c, s) /\ s1 \in Memory(c)
  BY LookTyped DEF PinNames, Like
<1>2. next = IF forced.by # "none" THEN forced.by
             ELSE IF Seen(c, s2, f, "en") = "1" THEN Captured(Seen(c, s1, f, "data"))
             ELSE Held(s1.value[f])
  OBVIOUS
<1> HIDE DEF next, s1
<1>3. Unforced(s1) \in Forcing(c, s)
  BY <1>1, UnforcedTyped
<1>4. clear \in Forcing(c, s)
  BY <1>3, ForcedTyped DEF PinNames
<1> HIDE DEF clear
<1>5. forced \in Forcing(c, s)
  BY <1>4, ForcedTyped DEF PinNames
<1> HIDE DEF forced
<1>6. forced.cells \in Like(c, s) /\ forced.cells \in Memory(c) /\ forced.by \in Effects
  BY <1>5 DEF Forcing, Like
<1>7. s2 \in Like(c, s) /\ s2 \in Memory(c)
  <2>1. Look(c, up, forced.cells, f, "en") \in Like(c, s)
    BY <1>6, LookTyped, LikeLike DEF PinNames
  <2> QED BY <1>6, <2>1 DEF Like
<1> HIDE DEF s2
<1>8. s1.value[f] \in Values /\ s1.prevClk[f] \in Values
  BY <1>1, MemoryFields DEF Of
<1>9. next \in Values
  BY <1>2, <1>6, <1>8 DEF Held, Captured, Effects, Values, Unknown, Undefined
<1>10. Staged(s2, f, next, s1.prevClk[f]) \in Like(c, s2)
  BY <1>7, <1>8, <1>9, StagedFacts
<1> QED BY <1>0, <1>7, <1>10, LikeLike

LEMMA StageTyped ==
    ASSUME NEW c, Built(c), NEW up, Typed(c, up), NEW s \in Memory(c), NEW f \in Of(c, "seq")
    PROVE  Stage(c, up, s, f) \in Like(c, s)
BY StageFFTyped, StageLatchTyped DEF Stage

\* The memory s after f took the value q and the clock level clk.
Committed(s, f, q, clk) ==
  [s EXCEPT !.value[f] = q, !.prevClk[f] = clk, !.staged[f] = <<>>]

LEMMA CommittedFacts ==
    ASSUME NEW c, NEW s \in Memory(c), NEW f \in Of(c, "seq"), NEW q \in Values, NEW clk \in Values
    PROVE  /\ Committed(s, f, q, clk) \in Like(c, s)
           /\ Committed(s, f, q, clk).value[f] = q
           /\ \A w \in Vertices(c) \ {f} : Committed(s, f, q, clk).value[w] = s.value[w]
           /\ Committed(s, f, q, clk).prevClk[f] = clk
           /\ \A g \in Of(c, "seq") \ {f} : Committed(s, f, q, clk).prevClk[g] = s.prevClk[g]
           /\ Committed(s, f, q, clk).staged[f] = <<>>
           /\ \A g \in Of(c, "seq") \ {f} : Committed(s, f, q, clk).staged[g] = s.staged[g]
           /\ Committed(s, f, q, clk).active = s.active
<1>1. f \in Vertices(c)
  BY DEF Of
<1> DEFINE e == <<>>
<1>2. e \in {<<>>} \cup (Values \X Values)
  OBVIOUS
<1> DEFINE t == [s EXCEPT !.value[f] = q, !.prevClk[f] = clk, !.staged[f] = e]
<1>3. Committed(s, f, q, clk) = t
  BY DEF Committed
<1> DEFINE Stages == {<<>>} \cup (Values \X Values)
<1>4. e \in Stages /\ s.staged \in [Of(c, "seq") -> Stages]
  BY <1>2 DEF Memory
<1> HIDE DEF e
<1>5. /\ t.value[f] = q
      /\ \A w \in Vertices(c) \ {f} : t.value[w] = s.value[w]
      /\ t.prevClk[f] = clk
      /\ \A g \in Of(c, "seq") \ {f} : t.prevClk[g] = s.prevClk[g]
      /\ t.staged[f] = e
      /\ \A g \in Of(c, "seq") \ {f} : t.staged[g] = s.staged[g]
      /\ t.active = s.active
  BY <1>1 DEF Memory
<1>6. t \in Like(c, s)
  BY <1>1, <1>2 DEF Memory, Like
<1> QED BY <1>3, <1>5, <1>6 DEF e

LEMMA CommitIs ==
    ASSUME NEW s, NEW f
    PROVE  Commit(s, f) = IF s.staged[f] = <<>> THEN s
                          ELSE Committed(s, f, s.staged[f][1], s.staged[f][2])
BY DEF Commit, Committed

LEMMA CommitTyped ==
    ASSUME NEW c, NEW s \in Memory(c), NEW f \in Of(c, "seq")
    PROVE  Commit(s, f) \in Like(c, s)
<1> DEFINE p == s.staged[f]
<1>1. p \in {<<>>} \cup (Values \X Values)
  BY MemoryFields
<1>2. Commit(s, f) = IF p = <<>> THEN s ELSE Committed(s, f, p[1], p[2])
  BY CommitIs
<1> HIDE DEF p
<1>3. CASE p = <<>>
  BY <1>2, <1>3, LikeSelf
<1>4. CASE p # <<>>
  <2>1. p[1] \in Values /\ p[2] \in Values
    BY <1>1, <1>4
  <2> QED BY <1>2, <1>4, <2>1, CommittedFacts
<1> QED BY <1>3, <1>4

Graphs(c) == DOMAIN c.input

LEMMA GraphLists ==
    ASSUME NEW c, Built(c), NEW g \in Graphs(c)
    PROVE  /\ c.input[g] \in Seq(Of(c, "input"))
           /\ c.output[g] \in Seq(Of(c, "output"))
           /\ c.seq[g] \in Seq(Of(c, "seq"))
           /\ ToSet(c.input[g]) \subseteq Of(c, "input")
           /\ ToSet(c.output[g]) \subseteq Of(c, "output")
           /\ ToSet(c.seq[g]) \subseteq Of(c, "seq")
<1>1. /\ c.input \in [Graphs(c) -> Seq(Of(c, "input"))]
      /\ c.output \in [Graphs(c) -> Seq(Of(c, "output"))]
      /\ c.seq \in [Graphs(c) -> Seq(Of(c, "seq"))]
  BY DEF Built, GraphsBuilt, Graphs
<1>2. /\ c.input[g] \in Seq(Of(c, "input"))
      /\ c.output[g] \in Seq(Of(c, "output"))
      /\ c.seq[g] \in Seq(Of(c, "seq"))
  BY <1>1
<1>3. ASSUME NEW S, NEW list \in Seq(S) PROVE ToSet(list) \subseteq S
  BY DEF ToSet
<1> QED BY <1>2, <1>3

\* The memory s with other values.
Revalued(s, value) == [s EXCEPT !.value = value]

LEMMA RevaluedFacts ==
    ASSUME NEW c, NEW s \in Memory(c), NEW value \in [Vertices(c) -> Values]
    PROVE  /\ Revalued(s, value) \in Like(c, s)
           /\ Revalued(s, value).value = value
           /\ Revalued(s, value).prevClk = s.prevClk
           /\ Revalued(s, value).staged = s.staged
           /\ Revalued(s, value).sim = s.sim
           /\ Revalued(s, value).active = s.active
BY DEF Revalued, Memory, Like

\* What graphSimulation invalidates.
Worked(c, g) == ToSet(c.gate[g]) \cup ToSet(c.output[g]) \cup ToSet(c.sub[g])

LEMMA InvalidatedFacts ==
    ASSUME NEW c, NEW s \in Memory(c), NEW g
    PROVE  /\ Invalidated(c, s, g) \in Like(c, s)
           /\ Invalidated(c, s, g).value =
                [v \in Vertices(c) |-> IF v \in Worked(c, g) THEN Undefined ELSE s.value[v]]
           /\ Invalidated(c, s, g).prevClk = s.prevClk
           /\ Invalidated(c, s, g).staged = s.staged
           /\ Invalidated(c, s, g).active = s.active
<1>1. s.value \in [Vertices(c) -> Values]
  BY MemoryFields
<1> DEFINE val == [v \in Vertices(c) |-> IF v \in Worked(c, g) THEN Undefined ELSE s.value[v]]
<1>2. val \in [Vertices(c) -> Values]
  BY <1>1 DEF Values
<1>3. Invalidated(c, s, g) = Revalued(s, val)
  BY <1>1 DEF Invalidated, Revalued, Worked
<1> HIDE DEF val
<1> QED BY <1>2, <1>3, RevaluedFacts DEF val

\* The values a graph is simulated on.
VectorsOf(c, g) == [DOMAIN c.input[g] -> Values]

LEMMA AtFacts ==
    ASSUME NEW list, NEW v \in ToSet(list)
    PROVE  At(list, v) \in DOMAIN list /\ list[At(list, v)] = v
BY DEF ToSet, At

LEMMA DrivenFacts ==
    ASSUME NEW c, NEW s \in Memory(c), NEW g, NEW vector \in VectorsOf(c, g)
    PROVE  /\ Driven(c, s, g, vector) \in Like(c, s)
           /\ Driven(c, s, g, vector).value =
                [v \in Vertices(c) |-> IF v \in ToSet(c.input[g]) THEN vector[At(c.input[g], v)]
                                       ELSE s.value[v]]
           /\ Driven(c, s, g, vector).prevClk = s.prevClk
           /\ Driven(c, s, g, vector).staged = s.staged
           /\ Driven(c, s, g, vector).active = s.active
<1>1. s.value \in [Vertices(c) -> Values]
  BY MemoryFields
<1> DEFINE val == [v \in Vertices(c) |-> IF v \in ToSet(c.input[g]) THEN vector[At(c.input[g], v)]
                                       ELSE s.value[v]]
<1>2. \A v \in ToSet(c.input[g]) : vector[At(c.input[g], v)] \in Values
  BY AtFacts DEF VectorsOf
<1>3. val \in [Vertices(c) -> Values]
  BY <1>1, <1>2
<1>4. Driven(c, s, g, vector) = Revalued(s, val)
  BY <1>1 DEF Driven, Revalued
<1> HIDE DEF val
<1> QED BY <1>3, <1>4, RevaluedFacts DEF val

LEMMA OnCall ==
    ASSUME NEW c, NEW s \in Memory(c), NEW v \in Vertices(c)
    PROVE  <<s, v>> \in Calls(c) /\ <<s, v>>[1] = s /\ <<s, v>>[2] = v
BY DEF Calls

(* The loops over the sequential vertices.                                 *)
LEMMA LoopCalls ==
    ASSUME NEW c, NEW up, NEW s \in Memory(c), NEW f \in Of(c, "seq")
    PROVE  /\ UpdatingLatches(c, up)[<<s, f>>] = IF c.cell[f].ff THEN s ELSE up[<<s, f>>]
           /\ CommittingFFs(c)[<<s, f>>] = IF c.cell[f].ff THEN Commit(s, f) ELSE s
<1>1. <<s, f>> \in Calls(c) /\ <<s, f>>[1] = s /\ <<s, f>>[2] = f
  BY OnCall DEF Of
<1> QED BY <1>1 DEF UpdatingLatches, CommittingFFs

LEMMA StagingCall ==
    ASSUME NEW c, NEW up, NEW s \in Memory(c), NEW f \in Of(c, "seq")
    PROVE  StagingFFs(c, up)[<<s, f>>] = IF c.cell[f].ff THEN Stage(c, up, s, f) ELSE s
<1>1. <<s, f>> \in Calls(c) /\ <<s, f>>[1] = s /\ <<s, f>>[2] = f
  BY OnCall DEF Of
<1> QED BY <1>1 DEF StagingFFs

LEMMA LevelledTyped ==
    ASSUME NEW c, Built(c), NEW up, Typed(c, up), NEW s \in Memory(c), NEW g \in Graphs(c)
    PROVE  Levelled(c, up, s, g) \in Like(c, s)
<1>1. c.seq[g] \in Seq(Of(c, "seq")) /\ ToSet(c.seq[g]) \subseteq Of(c, "seq")
  BY GraphLists
<1>2. ASSUME NEW f \in ToSet(c.seq[g]), NEW t \in Like(c, s)
      PROVE  UpdatingLatches(c, up)[<<t, f>>] \in Like(c, s)
  <2>1. f \in Of(c, "seq") /\ f \in Vertices(c) /\ t \in Memory(c)
    BY <1>1 DEF Of, Like
  <2>2. up[<<t, f>>] \in Like(c, s)
    BY <2>1, LikeLike DEF Typed
  <2> QED BY <2>1, <2>2, LoopCalls
<1> QED BY <1>1, <1>2, LikeSelf, TraceStays DEF Levelled

LEMMA ClockedTyped ==
    ASSUME NEW c, Built(c), NEW up, Typed(c, up), NEW s \in Memory(c), NEW g \in Graphs(c)
    PROVE  Clocked(c, up, s, g) \in Like(c, s)
<1>1. c.seq[g] \in Seq(Of(c, "seq")) /\ ToSet(c.seq[g]) \subseteq Of(c, "seq")
  BY GraphLists
<1>2. ASSUME NEW f \in ToSet(c.seq[g]), NEW t \in Like(c, s)
      PROVE  StagingFFs(c, up)[<<t, f>>] \in Like(c, s) /\ CommittingFFs(c)[<<t, f>>] \in Like(c, s)
  <2>1. f \in Of(c, "seq") /\ t \in Memory(c)
    BY <1>1 DEF Like
  <2>2. Stage(c, up, t, f) \in Like(c, s) /\ Commit(t, f) \in Like(c, s)
    BY <2>1, StageTyped, CommitTyped, LikeLike
  <2>3. StagingFFs(c, up)[<<t, f>>] = IF c.cell[f].ff THEN Stage(c, up, t, f) ELSE t
    BY <2>1, StagingCall
  <2>4. CommittingFFs(c)[<<t, f>>] = IF c.cell[f].ff THEN Commit(t, f) ELSE t
    BY <2>1, LoopCalls
  <2> QED BY <2>2, <2>3, <2>4
<1>3. Through(StagingFFs(c, up), s, c.seq[g]) \in Like(c, s)
  BY <1>1, <1>2, LikeSelf, TraceStays
<1> QED BY <1>1, <1>2, <1>3, TraceStays DEF Clocked

LEMMA CallsTyped ==
    ASSUME NEW c, NEW up, Typed(c, up), NEW s \in Memory(c), NEW list \in Seq(Vertices(c))
    PROVE  /\ \A i \in 0..Len(list) : Trace(up, s, list)[i] \in Like(c, s)
           /\ Through(up, s, list) \in Like(c, s)
<1>1. \A v \in ToSet(list) : v \in Vertices(c)
  BY DEF ToSet
<1>2. \A v \in ToSet(list) : \A t \in Like(c, s) : up[<<t, v>>] \in Like(c, s)
  BY <1>1, LikeLike DEF Typed, Like
<1> QED BY <1>2, LikeSelf, TraceStays

LEMMA AnsweredTyped ==
    ASSUME NEW c, Built(c), NEW s \in Memory(c), NEW g \in Graphs(c)
    PROVE  Answered(c, g, s).cells = s /\ Answered(c, g, s).outputs \in Seq(Values)
<1> DEFINE outs == c.output[g]
           y == [i \in DOMAIN outs |-> s.value[outs[i]]]
<1>1. s.value \in [Vertices(c) -> Values]
  BY MemoryFields
<1>2. outs \in Seq(Of(c, "output"))
  BY GraphLists
<1>3. Answered(c, g, s) = [cells |-> s, outputs |-> y]
  BY DEF Answered
<1> HIDE DEF outs
<1>4. y \in Seq(Values)
  <2>1. Len(outs) \in Nat /\ DOMAIN outs = 1..Len(outs) /\ \A i \in DOMAIN outs : outs[i] \in Vertices(c)
    BY <1>2 DEF Of
  <2>2. y \in [1..Len(outs) -> Values]
    BY <1>1, <2>1
  <2> QED BY <2>1, <2>2
<1> QED BY <1>3, <1>4

LEMMA SimulatedTyped ==
    ASSUME NEW c, Built(c), NEW up, Typed(c, up), NEW s \in Memory(c), NEW g \in Graphs(c),
           NEW vector \in VectorsOf(c, g)
    PROVE  /\ Simulated(c, up, s, g, vector).cells \in Like(c, s)
           /\ Simulated(c, up, s, g, vector).outputs \in Seq(Values)
<1> DEFINE s1 == Invalidated(c, s, g)
           s2 == Driven(c, s1, g, vector)
           s3 == Levelled(c, up, s2, g)
           s4 == Clocked(c, up, s3, g)
           s5 == Through(up, s4, c.output[g])
<1>0. Simulated(c, up, s, g, vector) = Answered(c, g, s5)
  BY DEF Simulated
<1>1. s1 \in Like(c, s) /\ s1 \in Memory(c)
  BY InvalidatedFacts DEF Like
<1> HIDE DEF s1
<1>2. s2 \in Like(c, s) /\ s2 \in Memory(c)
  <2>1. s2 \in Like(c, s1)
    BY <1>1, DrivenFacts
  <2> QED BY <1>1, <2>1, LikeLike DEF Like
<1> HIDE DEF s2
<1>3. s3 \in Like(c, s) /\ s3 \in Memory(c)
  BY <1>2, LevelledTyped, LikeLike DEF Like
<1> HIDE DEF s3
<1>4. s4 \in Like(c, s) /\ s4 \in Memory(c)
  BY <1>3, ClockedTyped, LikeLike DEF Like
<1> HIDE DEF s4
<1>5. c.output[g] \in Seq(Vertices(c))
  <2>1. c.output[g] \in Seq(Of(c, "output")) /\ Of(c, "output") \subseteq Vertices(c)
    BY GraphLists DEF Of
  <2> DEFINE outs == c.output[g]
  <2> HIDE DEF outs
  <2>2. outs \in Seq(Of(c, "output"))
    BY <2>1 DEF outs
  <2>3. outs \in Seq(Vertices(c))
    BY <2>1, <2>2
  <2> QED BY <2>3 DEF outs
<1>6. s5 \in Like(c, s) /\ s5 \in Memory(c)
  BY <1>4, <1>5, CallsTyped, LikeLike DEF Like
<1> HIDE DEF s5
<1> QED BY <1>0, <1>6, AnsweredTyped

\* The memory s after instance v got the values y.
Simmed(s, v, y, x) == [s EXCEPT !.sim[v] = y, !.value[v] = x]

LEMMA SimmedFacts ==
    ASSUME NEW c, NEW s \in Memory(c), NEW v \in Of(c, "sub"), NEW y \in Seq(Values), NEW x \in Values
    PROVE  Simmed(s, v, y, x) \in Like(c, s)
<1>1. v \in Vertices(c)
  BY DEF Of
<1> QED BY <1>1 DEF Simmed, Memory, Like

LEMMA SubGraphValueTyped ==
    ASSUME NEW c, Built(c), NEW up, Typed(c, up), NEW s \in Memory(c), NEW v \in Of(c, "sub")
    PROVE  SubGraphValue(c, up, s, v) \in Like(c, s)
<1>1. v \in Vertices(c)
  BY DEF Of
<1>2. CASE c.ins[v] = <<>>
  <2>1. SubGraphValue(c, up, s, v) = [s EXCEPT !.value[v] = Unknown, !.sim[v] = <<>>]
    BY <1>2 DEF SubGraphValue
  <2> DEFINE e == <<>>
  <2>2. e \in Seq(Values) /\ Unknown \in Values
    BY DEF Values, Unknown
  <2> HIDE DEF e
  <2>3. [s EXCEPT !.value[v] = Unknown, !.sim[v] = e] \in Like(c, s)
    BY <1>1, <2>2 DEF Memory, Like
  <2> QED BY <2>1, <2>3 DEF e
<1>3. CASE c.ins[v] # <<>> /\ s.value[v] # Undefined
  BY <1>3, LikeSelf DEF SubGraphValue
<1>4. CASE c.ins[v] # <<>> /\ s.value[v] = Undefined
  <2> DEFINE ins == c.ins[v]
             after == Trace(up, s, ins)
             vector == [i \in DOMAIN ins |-> after[i].value[ins[i]]]
             g == c.nested[v]
             last == after[Len(ins)]
  <2>1. Run(c, up, s, v) = Simulated(c, up, last, g, vector)
    BY DEF Run
  <2>2. ins \in Seq(Vertices(c))
    BY <1>1, Drivers
  <2>3. g \in Graphs(c) /\ Len(c.ins[v]) = Len(c.input[g])
    BY <1>4 DEF Built, InstancesBuilt, Graphs
  <2>4. DOMAIN ins = DOMAIN c.input[g]
    <3> DEFINE inp == c.input[g]
    <3>1. inp \in Seq(Of(c, "input")) /\ Len(ins) = Len(inp)
      BY <2>3, GraphLists
    <3> HIDE DEF inp, ins
    <3>2. DOMAIN ins = DOMAIN inp
      BY <2>2, <3>1
    <3> QED BY <3>2 DEF inp
  <2> HIDE DEF ins
  <2>5. \A i \in 0..Len(ins) : after[i] \in Like(c, s)
    BY <2>2, CallsTyped
  <2> HIDE DEF after
  <2>6. Len(ins) \in 0..Len(ins) /\ \A i \in DOMAIN ins : i \in 0..Len(ins) /\ ins[i] \in Vertices(c)
    BY <2>2
  <2>7. last \in Like(c, s) /\ last \in Memory(c)
    BY <2>5, <2>6 DEF Like
  <2>8. vector \in VectorsOf(c, g)
    <3>1. \A i \in DOMAIN ins : after[i].value[ins[i]] \in Values
      BY <2>5, <2>6, MemoryFields DEF Like
    <3> QED BY <2>4, <3>1 DEF VectorsOf
  <2> HIDE DEF last, vector, g
  <2> DEFINE run == Simulated(c, up, last, g, vector)
             y == run.outputs
             x == IF y = <<>> THEN Unknown ELSE y[1]
  <2>9. run.cells \in Like(c, last) /\ y \in Seq(Values)
    BY <2>3, <2>7, <2>8, SimulatedTyped
  <2>10. SubGraphValue(c, up, s, v) = Simmed(run.cells, v, y, x)
    BY <1>4, <2>1 DEF SubGraphValue, Instantiated, Simmed
  <2> HIDE DEF run
  <2>11. run.cells \in Like(c, s) /\ run.cells \in Memory(c)
    BY <2>7, <2>9, LikeLike DEF Like
  <2> HIDE DEF y
  <2>12. x \in Values
    BY <2>9 DEF Values, Unknown
  <2> HIDE DEF x
  <2>13. Simmed(run.cells, v, y, x) \in Like(c, run.cells)
    BY <2>9, <2>11, <2>12, SimmedFacts
  <2> QED BY <2>10, <2>11, <2>13, LikeLike
<1> QED BY <1>2, <1>3, <1>4

LEMMA UpdateOnceTyped ==
    ASSUME NEW c, Built(c), NEW up, Typed(c, up), NEW s \in Memory(c), NEW v \in Vertices(c)
    PROVE  UpdateOnce(c, up, s, v) \in Like(c, s)
<1>1. CASE Gate(c, v) \/ c.kind[v] = "output"
  <2>0. c.kind[v] # "sub" /\ c.kind[v] # "seq"
    BY <1>1 DEF Gate, GateTypes
  <2>1. UpdateOnce(c, up, s, v) = Guarded(c, up, s, v)
    BY <1>1, <2>0 DEF UpdateOnce
  <2> QED BY <2>1, GuardedTyped
<1>2. CASE c.kind[v] = "sub"
  <2>1. ~(Gate(c, v) \/ c.kind[v] = "output") /\ v \in Of(c, "sub")
    BY <1>2 DEF Gate, GateTypes, Of
  <2> QED BY <1>2, <2>1, SubGraphValueTyped DEF UpdateOnce
<1>3. CASE c.kind[v] = "seq"
  <2>1. ~(Gate(c, v) \/ c.kind[v] = "output") /\ c.kind[v] # "sub" /\ v \in Of(c, "seq")
    BY <1>3 DEF Gate, GateTypes, Of
  <2>2. UpdateOnce(c, up, s, v) = Commit(Stage(c, up, s, v), v)
    BY <1>3, <2>1 DEF UpdateOnce
  <2> DEFINE t == Stage(c, up, s, v)
  <2>3. t \in Like(c, s) /\ t \in Memory(c)
    BY <2>1, StageTyped DEF Like
  <2> HIDE DEF t
  <2> QED BY <2>1, <2>2, <2>3, CommitTyped, LikeLike DEF t
<1>4. CASE ~(Gate(c, v) \/ c.kind[v] = "output") /\ c.kind[v] # "sub" /\ c.kind[v] # "seq"
  BY <1>4, LikeSelf DEF UpdateOnce
<1> QED BY <1>1, <1>2, <1>3, <1>4

LEMMA UpdatingIs ==
    ASSUME NEW c, NEW up, Updating(c, up), NEW n \in Nat, NEW s \in Memory(c), NEW v \in Vertices(c)
    PROVE  up[n + 1][<<s, v>>] = UpdateOnce(c, up[n], s, v)
<1>1. <<s, v>> \in Calls(c) /\ <<s, v>>[1] = s /\ <<s, v>>[2] = v
  BY OnCall
<1>2. up[n + 1] = [call \in Calls(c) |-> UpdateOnce(c, up[n], call[1], call[2])]
  BY DEF Updating
<1> DEFINE call == <<s, v>>
<1>3. up[n + 1][call] = UpdateOnce(c, up[n], call[1], call[2])
  <2> HIDE DEF call
  <2>1. call \in Calls(c)
    BY <1>1 DEF call
  <2> QED BY <1>2, <2>1
<1> QED BY <1>1, <1>3

(* updateValue never goes on for ever, however deep it is followed.        *)
LEMMA UpdatingTyped ==
    ASSUME NEW c, Built(c), NEW up, Updating(c, up)
    PROVE  \A n \in Nat : Typed(c, up[n])
<1> DEFINE S == {n \in Nat : Typed(c, up[n])}
<1>1. 0 \in S
  <2>1. ASSUME NEW s \in Memory(c), NEW v \in Vertices(c) PROVE up[0][<<s, v>>] \in Like(c, s)
    <3>1. up[0][<<s, v>>] = s
      BY OnCall DEF Updating
    <3> QED BY <3>1, LikeSelf
  <2> QED BY <2>1 DEF Typed
<1>2. ASSUME NEW n \in Nat, n \in S PROVE n + 1 \in S
  <2>1. Typed(c, up[n])
    BY <1>2
  <2>2. ASSUME NEW s \in Memory(c), NEW v \in Vertices(c) PROVE up[n + 1][<<s, v>>] \in Like(c, s)
    <3>1. up[n + 1][<<s, v>>] = UpdateOnce(c, up[n], s, v)
      BY UpdatingIs
    <3> QED BY <2>1, <3>1, UpdateOnceTyped
  <2> QED BY <2>2 DEF Typed
<1> HIDE DEF S
<1>3. \A n \in Nat : n \in S
  BY <1>1, <1>2, Induction
<1> QED BY <1>3 DEF S

LEMMA DepthNat ==
    ASSUME NEW c, Built(c)
    PROVE  Cardinality(Vertices(c)) \in Nat /\ Depth(c) \in Nat
<1>1. IsFiniteSet(Vertices(c))
  BY DEF Built
<1>2. Cardinality(Vertices(c)) \in Nat
  BY <1>1, FS_CardinalityType
<1> DEFINE n == Cardinality(Vertices(c))
<1>3. n \in Nat /\ Depth(c) = (n + 1) * (n + 1)
  BY <1>2 DEF Depth
<1> HIDE DEF n
<1>4. (n + 1) * (n + 1) \in Nat
  BY <1>3
<1> QED BY <1>2, <1>3, <1>4

LEMMA UpdateTyped ==
    ASSUME NEW c, Built(c)
    PROVE  Typed(c, Update(c))
BY UpdatingExists, UpdatingTyped, DepthNat

-----------------------------------------------------------------------------
(* simulationRemove returns.                                               *)

\* The vertices, constants left aside, that still have a value.
Defined(c, s) == {v \in Vertices(c) : c.kind[v] # "const" /\ s.value[v] # Undefined}

\* The memories a removal that returns leads to.
Less(c, U) == {t \in Memory(c) : ~t.endless /\ Defined(c, t) \subseteq U}

LEMMA ClearedFacts ==
    ASSUME NEW c, NEW s \in Memory(c), NEW v \in Vertices(c)
    PROVE  /\ Cleared(s, v) \in Memory(c)
           /\ Cleared(s, v).endless = s.endless
           /\ Defined(c, Cleared(s, v)) = Defined(c, s) \ {v}
           /\ Cleared(s, v).value[v] = Undefined
           /\ \A w \in Vertices(c) \ {v} : Cleared(s, v).value[w] = s.value[w]
           /\ Cleared(s, v).prevClk = s.prevClk
           /\ Cleared(s, v).staged = s.staged
           /\ Cleared(s, v).active = s.active
<1>1. Cleared(s, v) = Valued(s, v, Undefined)
  BY DEF Cleared, Valued
<1> DEFINE t == Valued(s, v, Undefined)
<1>2. /\ t \in Like(c, s)
      /\ t.value[v] = Undefined
      /\ \A w \in Vertices(c) \ {v} : t.value[w] = s.value[w]
      /\ t.prevClk = s.prevClk /\ t.staged = s.staged /\ t.active = s.active
  BY ValuedFacts DEF Values
<1> HIDE DEF t
<1>3. t \in Memory(c) /\ t.endless = s.endless /\ Defined(c, t) = Defined(c, s) \ {v}
  BY <1>2 DEF Like, Defined
<1> QED BY <1>1, <1>2, <1>3 DEF t

LEMMA ForgottenFacts ==
    ASSUME NEW c, NEW s \in Memory(c), NEW f \in Of(c, "seq")
    PROVE  /\ Forgotten(s, f) \in Memory(c)
           /\ Forgotten(s, f).endless = s.endless
           /\ Forgotten(s, f).value = s.value
           /\ Forgotten(s, f).prevClk[f] = Unknown
           /\ \A g \in Of(c, "seq") \ {f} : Forgotten(s, f).prevClk[g] = s.prevClk[g]
           /\ Forgotten(s, f).staged[f] = <<>>
           /\ \A g \in Of(c, "seq") \ {f} : Forgotten(s, f).staged[g] = s.staged[g]
           /\ Forgotten(s, f).active = s.active
<1> DEFINE e == <<>>
           Stages == {<<>>} \cup (Values \X Values)
<1>1. e \in Stages /\ s.staged \in [Of(c, "seq") -> Stages] /\ Unknown \in Values
  BY DEF Memory, Values, Unknown
<1> DEFINE t == [s EXCEPT !.prevClk[f] = Unknown, !.staged[f] = e]
<1>2. Forgotten(s, f) = t
  BY DEF Forgotten
<1> HIDE DEF e
<1>3. t \in Memory(c)
  BY <1>1 DEF Memory
<1>4. /\ t.endless = s.endless /\ t.value = s.value
      /\ t.prevClk[f] = Unknown
      /\ \A g \in Of(c, "seq") \ {f} : t.prevClk[g] = s.prevClk[g]
      /\ t.staged[f] = e
      /\ \A g \in Of(c, "seq") \ {f} : t.staged[g] = s.staged[g]
      /\ t.active = s.active
  BY <1>1 DEF Memory
<1> QED BY <1>2, <1>3, <1>4 DEF e

LEMMA ConstantFacts ==
    ASSUME NEW c, Built(c), NEW s \in Memory(c), NEW v \in Of(c, "const")
    PROVE  /\ [s EXCEPT !.value[v] = c.const[v]] \in Memory(c)
           /\ [s EXCEPT !.value[v] = c.const[v]].endless = s.endless
           /\ Defined(c, [s EXCEPT !.value[v] = c.const[v]]) = Defined(c, s)
<1>1. c.const[v] \in Values
  BY DEF Built
<1> DEFINE t == Valued(s, v, c.const[v])
<1>2. [s EXCEPT !.value[v] = c.const[v]] = t
  BY DEF Valued
<1>3. t \in Like(c, s) /\ \A w \in Vertices(c) \ {v} : t.value[w] = s.value[w]
  BY <1>1, ValuedFacts DEF Of
<1> HIDE DEF t
<1>4. t \in Memory(c) /\ t.endless = s.endless /\ Defined(c, t) = Defined(c, s)
  BY <1>3 DEF Like, Defined, Of
<1> QED BY <1>2, <1>4

\* An instance v without values.
Emptied(s, v) == [Cleared(s, v) EXCEPT !.sim[v] = <<>>]

LEMMA EmptiedFacts ==
    ASSUME NEW c, NEW s \in Memory(c), NEW v \in Of(c, "sub")
    PROVE  /\ Emptied(s, v) \in Memory(c)
           /\ Emptied(s, v).endless = s.endless
           /\ Defined(c, Emptied(s, v)) = Defined(c, s) \ {v}
<1> DEFINE t == Cleared(s, v)
           e == <<>>
           u == [t EXCEPT !.sim[v] = e]
<1>1. t \in Memory(c) /\ t.endless = s.endless /\ Defined(c, t) = Defined(c, s) \ {v}
  BY ClearedFacts DEF Of
<1>2. e \in Seq(Values)
  OBVIOUS
<1>3. Emptied(s, v) = u
  BY DEF Emptied
<1> HIDE DEF t, e
<1>4. u \in Memory(c) /\ u.endless = t.endless /\ u.value = t.value
  BY <1>1, <1>2 DEF Memory
<1> HIDE DEF u
<1>5. Defined(c, u) = Defined(c, t)
  BY <1>4 DEF Defined
<1> QED BY <1>1, <1>3, <1>4, <1>5

LEMMA RemovingNow ==
    ASSUME NEW c, NEW rm, Removing(c, rm), NEW s \in Memory(c), NEW v \in Vertices(c)
    PROVE  rm[0][<<s, v>>] = [s EXCEPT !.endless = TRUE]
<1>1. <<s, v>> \in Calls(c) /\ <<s, v>>[1] = s
  BY OnCall
<1>2. rm[0] = [call \in Calls(c) |-> [call[1] EXCEPT !.endless = TRUE]]
  BY DEF Removing
<1> DEFINE call == <<s, v>>
<1>3. rm[0][call] = [call[1] EXCEPT !.endless = TRUE]
  <2> HIDE DEF call
  <2>1. call \in Calls(c)
    BY <1>1 DEF call
  <2> QED BY <1>2, <2>1
<1> QED BY <1>1, <1>3

LEMMA RemovingIs ==
    ASSUME NEW c, NEW rm, Removing(c, rm), NEW n \in Nat, NEW s \in Memory(c), NEW v \in Vertices(c)
    PROVE  rm[n + 1][<<s, v>>] = IF s.endless THEN s ELSE RemoveOnce(c, rm[n], s, v)
<1>1. <<s, v>> \in Calls(c) /\ <<s, v>>[1] = s /\ <<s, v>>[2] = v
  BY OnCall
<1>2. rm[n + 1] = [call \in Calls(c) |-> IF call[1].endless THEN call[1]
                                        ELSE RemoveOnce(c, rm[n], call[1], call[2])]
  BY DEF Removing
<1> DEFINE call == <<s, v>>
<1>3. rm[n + 1][call] = IF call[1].endless THEN call[1] ELSE RemoveOnce(c, rm[n], call[1], call[2])
  <2> HIDE DEF call
  <2>1. call \in Calls(c)
    BY <1>1 DEF call
  <2> QED BY <1>2, <2>1
<1> QED BY <1>1, <1>3

\* What a call of removeValue on v does first.
First(c, s, v) ==
    CASE c.kind[v] = "input"  -> Cleared(s, v)
      [] c.kind[v] = "const"  -> [s EXCEPT !.value[v] = c.const[v]]
      [] c.kind[v] = "sub"    -> Emptied(s, v)
      [] Gate(c, v)           -> Cleared(s, v)
      [] c.kind[v] = "seq"    -> Cleared(Forgotten(s, v), v)
      [] c.kind[v] = "output" -> Cleared(s, v)

\* The vertices it goes on to.
Onward(c, v) ==
    IF c.kind[v] \in {"input", "const"} THEN <<>>
    ELSE IF c.kind[v] = "sub" THEN c.output[c.nested[v]] \o c.seq[c.nested[v]]
    ELSE c.ins[v]

\* The call on one of these.
Going(c, rm, v) == IF Gate(c, v) THEN RemovingDefined(c, rm) ELSE rm

LEMMA RemoveOnceIs ==
    ASSUME NEW c, Built(c), NEW rm, NEW s, NEW v \in Vertices(c)
    PROVE  RemoveOnce(c, rm, s, v) = Through(Going(c, rm, v), First(c, s, v), Onward(c, v))
<1>1. c.kind[v] \in GateTypes \cup {"input", "output", "const", "seq", "sub"}
  BY DEF Built
<1>2. CASE c.kind[v] = "input"
  <2>1. ~Gate(c, v) /\ RemoveOnce(c, rm, s, v) = Cleared(s, v) /\ First(c, s, v) = Cleared(s, v) /\ Onward(c, v) = <<>>
    BY <1>2 DEF RemoveOnce, First, Onward, Gate, GateTypes
  <2> QED BY <2>1, ThroughNothing
<1>3. CASE c.kind[v] = "const"
  <2>1. /\ ~Gate(c, v) /\ RemoveOnce(c, rm, s, v) = [s EXCEPT !.value[v] = c.const[v]]
        /\ First(c, s, v) = [s EXCEPT !.value[v] = c.const[v]] /\ Onward(c, v) = <<>>
    BY <1>3 DEF RemoveOnce, First, Onward, Gate, GateTypes
  <2> QED BY <2>1, ThroughNothing
<1>4. CASE c.kind[v] = "sub"
  BY <1>4 DEF RemoveOnce, Reset, First, Emptied, Onward, Going, Gate, GateTypes
<1>5. CASE Gate(c, v)
  BY <1>5 DEF RemoveOnce, First, Onward, Going, Gate, GateTypes
<1>6. CASE c.kind[v] = "seq"
  BY <1>6 DEF RemoveOnce, First, Onward, Going, Gate, GateTypes
<1>7. CASE c.kind[v] = "output"
  BY <1>7 DEF RemoveOnce, First, Onward, Going, Gate, GateTypes
<1> QED BY <1>1, <1>2, <1>3, <1>4, <1>5, <1>6, <1>7 DEF Gate

LEMMA FirstFacts ==
    ASSUME NEW c, Built(c), NEW s \in Memory(c), NEW v \in Vertices(c)
    PROVE  /\ First(c, s, v) \in Memory(c)
           /\ First(c, s, v).endless = s.endless
           /\ Defined(c, First(c, s, v)) = Defined(c, s) \ {v}
<1>1. c.kind[v] \in GateTypes \cup {"input", "output", "const", "seq", "sub"}
  BY DEF Built
<1>2. CASE c.kind[v] \in GateTypes \cup {"input", "output"}
  <2>1. First(c, s, v) = Cleared(s, v)
    BY <1>2 DEF First, Gate, GateTypes
  <2> QED BY <2>1, ClearedFacts
<1>3. CASE c.kind[v] = "const"
  <2>1. First(c, s, v) = [s EXCEPT !.value[v] = c.const[v]] /\ v \in Of(c, "const") /\ v \notin Defined(c, s)
    BY <1>3 DEF First, Of, Gate, GateTypes, Defined
  <2> QED BY <2>1, ConstantFacts
<1>4. CASE c.kind[v] = "sub"
  <2>1. First(c, s, v) = Emptied(s, v) /\ v \in Of(c, "sub")
    BY <1>4 DEF First, Of, Gate, GateTypes
  <2> QED BY <2>1, EmptiedFacts
<1>5. CASE c.kind[v] = "seq"
  <2>1. First(c, s, v) = Cleared(Forgotten(s, v), v) /\ v \in Of(c, "seq")
    BY <1>5 DEF First, Of, Gate, GateTypes
  <2> DEFINE t == Forgotten(s, v)
  <2>2. t \in Memory(c) /\ t.endless = s.endless /\ t.value = s.value
    BY <2>1, ForgottenFacts
  <2> HIDE DEF t
  <2>3. Defined(c, t) = Defined(c, s)
    BY <2>2 DEF Defined
  <2> QED BY <2>1, <2>2, <2>3, ClearedFacts DEF t
<1> QED BY <1>1, <1>2, <1>3, <1>4, <1>5

LEMMA OnwardFacts ==
    ASSUME NEW c, Built(c), NEW v \in Vertices(c)
    PROVE  /\ Onward(c, v) \in Seq(Vertices(c))
           /\ c.kind[v] = "sub" => ToSet(Onward(c, v)) \subseteq Of(c, "output") \cup Of(c, "seq")
           /\ c.kind[v] # "sub" => ToSet(Onward(c, v)) \subseteq ToSet(c.ins[v])
<1>0. Onward(c, v) = IF c.kind[v] \in {"input", "const"} THEN <<>>
                     ELSE IF c.kind[v] = "sub" THEN c.output[c.nested[v]] \o c.seq[c.nested[v]]
                     ELSE c.ins[v]
  BY DEF Onward
<1>1. CASE c.kind[v] \in {"input", "const"}
  <2>1. Onward(c, v) = <<>> /\ c.kind[v] # "sub"
    BY <1>0, <1>1
  <2>2. <<>> \in Seq(Vertices(c)) /\ ToSet(<<>>) = {}
    BY DEF ToSet
  <2> QED BY <2>1, <2>2
<1>2. CASE c.kind[v] = "sub"
  <2> DEFINE g == c.nested[v]
             O == c.output[g]
             Q == c.seq[g]
             OQ == Of(c, "output") \cup Of(c, "seq")
  <2>1. g \in Graphs(c)
    BY <1>2 DEF Built, InstancesBuilt, Graphs, Of
  <2>2. O \in Seq(Of(c, "output")) /\ Q \in Seq(Of(c, "seq"))
    BY <2>1, GraphLists
  <2>3. Onward(c, v) = O \o Q
    BY <1>0, <1>2
  <2>4. OQ \subseteq Vertices(c) /\ Of(c, "output") \subseteq OQ /\ Of(c, "seq") \subseteq OQ
    BY DEF Of
  <2> HIDE DEF O, Q, OQ
  <2>5. O \in Seq(OQ) /\ Q \in Seq(OQ)
    BY <2>2, <2>4
  <2>6. O \o Q \in Seq(OQ)
    BY <2>5
  <2> DEFINE L == O \o Q
  <2>7. L \in Seq(OQ)
    BY <2>6
  <2> HIDE DEF L
  <2>8. L \in Seq(Vertices(c)) /\ ToSet(L) \subseteq OQ
    BY <2>4, <2>7 DEF ToSet
  <2> QED BY <1>2, <2>3, <2>8 DEF L, OQ
<1>3. CASE c.kind[v] \notin {"input", "const", "sub"}
  <2>1. Onward(c, v) = c.ins[v]
    BY <1>0, <1>3
  <2> QED BY <1>3, <2>1, Drivers
<1> QED BY <1>1, <1>2, <1>3

LEMMA GoingIs ==
    ASSUME NEW c, NEW rm, NEW v, NEW s \in Memory(c), NEW d \in Vertices(c)
    PROVE  Going(c, rm, v)[<<s, d>>] =
             IF Gate(c, v) /\ ~StillDefined(s, d) THEN s ELSE rm[<<s, d>>]
<1>1. <<s, d>> \in Calls(c) /\ <<s, d>>[1] = s /\ <<s, d>>[2] = d
  BY OnCall
<1> DEFINE call == <<s, d>>
<1>2. RemovingDefined(c, rm)[call] = IF StillDefined(call[1], call[2]) THEN rm[call] ELSE call[1]
  <2> HIDE DEF call
  <2>1. call \in Calls(c)
    BY <1>1 DEF call
  <2> QED BY <2>1 DEF RemovingDefined
<1> QED BY <1>1, <1>2 DEF Going

\* A removal leaves a memory.
Remembered(c, rm) == \A s \in Memory(c), v \in Vertices(c) : rm[<<s, v>>] \in Memory(c)

LEMMA RemoveOnceTyped ==
    ASSUME NEW c, Built(c), NEW rm, Remembered(c, rm), NEW s \in Memory(c), NEW v \in Vertices(c)
    PROVE  RemoveOnce(c, rm, s, v) \in Memory(c)
<1>1. First(c, s, v) \in Memory(c) /\ Onward(c, v) \in Seq(Vertices(c))
  BY FirstFacts, OnwardFacts
<1>2. ASSUME NEW d \in ToSet(Onward(c, v)), NEW t \in Memory(c)
      PROVE  Going(c, rm, v)[<<t, d>>] \in Memory(c)
  <2>1. d \in Vertices(c)
    BY <1>1 DEF ToSet
  <2>2. rm[<<t, d>>] \in Memory(c)
    BY <2>1 DEF Remembered
  <2>3. Going(c, rm, v)[<<t, d>>] = IF Gate(c, v) /\ ~StillDefined(t, d) THEN t ELSE rm[<<t, d>>]
    BY <2>1, GoingIs
  <2> QED BY <2>2, <2>3
<1>3. Through(Going(c, rm, v), First(c, s, v), Onward(c, v)) \in Memory(c)
  BY <1>1, <1>2, TraceStays
<1> QED BY <1>3, RemoveOnceIs

LEMMA RemovingTyped ==
    ASSUME NEW c, Built(c), NEW rm, Removing(c, rm)
    PROVE  \A n \in Nat : Remembered(c, rm[n])
<1> DEFINE S == {n \in Nat : Remembered(c, rm[n])}
<1>1. 0 \in S
  <2>1. ASSUME NEW s \in Memory(c), NEW v \in Vertices(c) PROVE rm[0][<<s, v>>] \in Memory(c)
    <3>1. rm[0][<<s, v>>] = [s EXCEPT !.endless = TRUE]
      BY RemovingNow
    <3>2. [s EXCEPT !.endless = TRUE] \in Memory(c)
      BY DEF Memory
    <3> QED BY <3>1, <3>2
  <2> QED BY <2>1 DEF Remembered
<1>2. ASSUME NEW n \in Nat, n \in S PROVE n + 1 \in S
  <2>1. Remembered(c, rm[n])
    BY <1>2
  <2>2. ASSUME NEW s \in Memory(c), NEW v \in Vertices(c) PROVE rm[n + 1][<<s, v>>] \in Memory(c)
    <3>1. rm[n + 1][<<s, v>>] = IF s.endless THEN s ELSE RemoveOnce(c, rm[n], s, v)
      BY RemovingIs
    <3> QED BY <2>1, <3>1, RemoveOnceTyped
  <2> QED BY <2>2 DEF Remembered
<1> HIDE DEF S
<1>3. \A n \in Nat : n \in S
  BY <1>1, <1>2, Induction
<1> QED BY <1>3 DEF S

\* What a removal goes through whether it has a value or not.
Rows(c) == Of(c, "seq") \cup Of(c, "output")

\* A path of calls from one of these to the next that leads to v.
Chain(c, S, v) ==
    /\ S \subseteq Rows(c)
    /\ v \notin S
    /\ \A f \in S : ToSet(c.ins[f]) \cap (S \cup {v}) # {}

Others(c, s, v) == Cardinality(Defined(c, s) \ {v})

\* A removal that may go n calls deep returns: each gate leads to a vertex that
\* has a value and loses it, and so does each instance.
Enough(c, n, s, v) ==
    LET full == Others(c, s, v) * (Cardinality(Vertices(c)) + 1)
        rows == Cardinality(Rows(c))
    IN  /\ n >= 1
        /\ Gate(c, v) => n >= full + 2
        /\ c.kind[v] = "sub" => n >= full + rows + 3
        /\ v \in Rows(c) => \E S : Chain(c, S, v) /\ n + Cardinality(S) >= full + rows + 2

LEMMA Times ==
    ASSUME NEW a \in Nat, NEW b \in Nat, NEW w \in Nat
    PROVE  /\ a * w \in Nat
           /\ b <= a => b * w <= a * w
           /\ b + 1 <= a => b * w + w <= a * w
<1>1. \A x \in Nat : x * w \in Nat
  OBVIOUS
<1>2. ASSUME NEW k \in Nat PROVE (b + k) * w = b * w + k * w
  OBVIOUS
<1>3. ASSUME b <= a PROVE b * w <= a * w
  <2> DEFINE k == a - b
  <2>1. k \in Nat /\ a = b + k
    BY <1>3
  <2> HIDE DEF k
  <2>2. a * w = b * w + k * w /\ k * w \in Nat /\ b * w \in Nat
    BY <1>1, <1>2, <2>1
  <2> QED BY <2>2
<1>4. ASSUME b + 1 <= a PROVE b * w + w <= a * w
  <2> DEFINE k == a - (b + 1)
             m == 1 + k
  <2>1. k \in Nat /\ m \in Nat /\ a = b + m
    BY <1>4
  <2>2. m * w = w + k * w
    <3> HIDE DEF k
    <3> QED BY <2>1
  <2> HIDE DEF k, m
  <2>3. a * w = b * w + m * w /\ k * w \in Nat /\ b * w \in Nat
    BY <1>1, <1>2, <2>1
  <2> QED BY <2>2, <2>3
<1> QED BY <1>1, <1>3, <1>4

LEMMA Subsets ==
    ASSUME NEW T, IsFiniteSet(T), NEW S \in SUBSET T
    PROVE  /\ IsFiniteSet(S) /\ Cardinality(S) \in Nat /\ Cardinality(T) \in Nat
           /\ Cardinality(S) <= Cardinality(T)
           /\ \A v \in T : v \notin S =>
                /\ Cardinality(S) + 1 <= Cardinality(T)
                /\ Cardinality(S \cup {v}) = Cardinality(S) + 1
<1>1. IsFiniteSet(S) /\ Cardinality(S) <= Cardinality(T)
  BY FS_Subset
<1>2. Cardinality(S) \in Nat /\ Cardinality(T) \in Nat
  BY <1>1, FS_CardinalityType
<1>3. ASSUME NEW v \in T, v \notin S
      PROVE  /\ Cardinality(S) + 1 <= Cardinality(T)
             /\ Cardinality(S \cup {v}) = Cardinality(S) + 1
  <2>1. Cardinality(S \cup {v}) = Cardinality(S) + 1
    BY <1>1, <1>3, FS_AddElement
  <2>2. S \cup {v} \subseteq T
    BY <1>3
  <2>3. Cardinality(S \cup {v}) <= Cardinality(T)
    BY <2>2, FS_Subset
  <2> QED BY <2>1, <2>3
<1> QED BY <1>1, <1>2, <1>3

LEMMA Numbers ==
    ASSUME NEW c, Built(c)
    PROVE  /\ IsFiniteSet(Vertices(c))
           /\ Rows(c) \subseteq Vertices(c)
           /\ Cardinality(Rows(c)) \in Nat
           /\ Cardinality(Rows(c)) <= Cardinality(Vertices(c))
           /\ \A v \in Vertices(c) : v \notin Rows(c) => Cardinality(Rows(c)) + 1 <= Cardinality(Vertices(c))
           /\ \A S \in SUBSET Rows(c) : Cardinality(S) \in Nat
<1>1. IsFiniteSet(Vertices(c))
  BY DEF Built
<1>2. Rows(c) \subseteq Vertices(c)
  BY DEF Rows, Of
<1> DEFINE R == Rows(c)
           V == Vertices(c)
<1>3. IsFiniteSet(V) /\ R \in SUBSET V
  BY <1>1, <1>2
<1> HIDE DEF R, V
<1>4. /\ Cardinality(R) \in Nat
      /\ Cardinality(R) <= Cardinality(V)
      /\ \A v \in V : v \notin R => Cardinality(R) + 1 <= Cardinality(V)
  BY <1>3, Subsets
<1>5. ASSUME NEW S \in SUBSET R PROVE Cardinality(S) \in Nat
  <2>1. S \in SUBSET V
    BY <1>3
  <2> QED BY <1>3, <2>1, Subsets
<1> QED BY <1>1, <1>2, <1>4, <1>5 DEF R, V

(* How many vertices still have a value.                                   *)
LEMMA OthersFacts ==
    ASSUME NEW c, Built(c), NEW s \in Memory(c), NEW v \in Vertices(c),
           NEW t \in Less(c, Defined(c, s) \ {v}), NEW d \in Vertices(c)
    PROVE  /\ Others(c, s, v) \in Nat
           /\ Others(c, s, v) + 1 <= Cardinality(Vertices(c))
           /\ Others(c, t, d) \in Nat
           /\ Others(c, t, d) <= Others(c, s, v)
           /\ StillDefined(t, d) /\ c.kind[d] # "const" => Others(c, t, d) + 1 <= Others(c, s, v)
<1> DEFINE U == Defined(c, s) \ {v}
           X == Defined(c, t) \ {d}
           V == Vertices(c)
<1>1. IsFiniteSet(V) /\ U \in SUBSET V /\ v \in V /\ v \notin U
  BY DEF Built, Defined
<1>2. X \in SUBSET U /\ d \notin X
  BY DEF Less
<1>3. StillDefined(t, d) /\ c.kind[d] # "const" => d \in U
  BY DEF Less, Defined, StillDefined
<1>4. Others(c, s, v) = Cardinality(U) /\ Others(c, t, d) = Cardinality(X)
  BY DEF Others
<1> HIDE DEF U, X, V
<1>5. IsFiniteSet(U) /\ Cardinality(U) \in Nat /\ Cardinality(U) + 1 <= Cardinality(V)
  BY <1>1, Subsets
<1>6. Cardinality(X) \in Nat /\ Cardinality(X) <= Cardinality(U)
  BY <1>2, <1>5, Subsets
<1>7. ASSUME d \in U PROVE Cardinality(X) + 1 <= Cardinality(U)
  BY <1>2, <1>5, <1>7, Subsets
<1> QED BY <1>3, <1>4, <1>5, <1>6, <1>7 DEF V

LEMMA ChainGrows ==
    ASSUME NEW c, Built(c), ~Ringed(c), NEW v \in Rows(c), NEW S, Chain(c, S, v),
           NEW d \in Rows(c), d \in ToSet(c.ins[v])
    PROVE  /\ Chain(c, S \cup {v}, d)
           /\ Cardinality(S \cup {v}) = Cardinality(S) + 1
<1>1. S \cup {v} \in SUBSET Rows(c) /\ S \in SUBSET Rows(c) /\ v \notin S
  BY DEF Chain
<1>2. \A f \in S \cup {v} : ToSet(c.ins[f]) \cap (S \cup {v} \cup {d}) # {}
  BY DEF Chain
<1>3. d \notin S \cup {v}
  <2> SUFFICES ASSUME d \in S \cup {v} PROVE FALSE
    OBVIOUS
  <2> DEFINE T == S \cup {v}
  <2>1. T \in (SUBSET Rows(c)) \ {{}}
    BY <1>1
  <2>2. \A f \in T : ToSet(c.ins[f]) \cap T # {}
    BY <1>2
  <2> HIDE DEF T
  <2>3. Ringed(c)
    BY <2>1, <2>2 DEF Ringed, Rows
  <2> QED BY <2>3
<1>4. Cardinality(S \cup {v}) = Cardinality(S) + 1
  <2>1. IsFiniteSet(Rows(c))
    BY Numbers, FS_Subset
  <2> QED BY <1>1, <2>1, Subsets
<1> QED BY <1>1, <1>2, <1>3, <1>4 DEF Chain

LEMMA EmptyChain ==
    ASSUME NEW c, NEW v
    PROVE  Chain(c, {}, v) /\ Cardinality({}) = 0
BY FS_EmptySet DEF Chain

(* A call goes less deep than the one it is made from.                     *)
LEMMA EnoughOnward ==
    ASSUME NEW c, Built(c), ~Ringed(c), NEW n \in Nat, NEW s \in Memory(c), NEW v \in Vertices(c),
           Enough(c, n + 1, s, v), NEW t \in Less(c, Defined(c, s) \ {v}),
           NEW d \in ToSet(Onward(c, v)), Gate(c, v) => StillDefined(t, d)
    PROVE  Enough(c, n, t, d)
<1> DEFINE N == Cardinality(Vertices(c))
           W == N + 1
           M == Cardinality(Rows(c))
           a == Others(c, s, v)
           b == Others(c, t, d)
<1>1. d \in Vertices(c)
  BY OnwardFacts DEF ToSet
<1>2. /\ a \in Nat /\ b \in Nat /\ b <= a
      /\ StillDefined(t, d) /\ c.kind[d] # "const" => b + 1 <= a
  BY <1>1, OthersFacts
<1>3. /\ N \in Nat /\ M \in Nat /\ M <= N
      /\ d \notin Rows(c) => M + 1 <= N
  BY <1>1, Numbers, DepthNat
<1>4. /\ n + 1 >= 1
      /\ Gate(c, v) => n + 1 >= a * W + 2
      /\ c.kind[v] = "sub" => n + 1 >= a * W + M + 3
      /\ v \in Rows(c) => \E S : Chain(c, S, v) /\ (n + 1) + Cardinality(S) >= a * W + M + 2
  BY DEF Enough
<1>5. ASSUME n >= 1,
             Gate(c, d) => n >= b * W + 2,
             c.kind[d] = "sub" => n >= b * W + M + 3,
             d \in Rows(c) => \E S : Chain(c, S, d) /\ n + Cardinality(S) >= b * W + M + 2
      PROVE  Enough(c, n, t, d)
  BY <1>5 DEF Enough
<1>6. c.kind[d] = "sub" => d \notin Rows(c)
  BY DEF Rows, Of
<1>7. d \in Rows(c) => c.kind[d] # "const"
  BY DEF Rows, Of
<1>8. Gate(c, d) => c.kind[d] # "const"
  BY DEF Gate, GateTypes
<1> HIDE DEF a, b, M, N
<1>9. W \in Nat
  BY <1>3
<1> HIDE DEF W
<1> DEFINE aW == a * W
           bW == b * W
<1>10. /\ aW \in Nat /\ bW \in Nat /\ bW <= aW
       /\ StillDefined(t, d) /\ c.kind[d] # "const" => bW + W <= aW
  <2>1. /\ a * W \in Nat /\ b * W \in Nat
        /\ b <= a => b * W <= a * W
        /\ b + 1 <= a => b * W + W <= a * W
    BY <1>2, <1>9, Times
  <2> QED BY <1>2, <2>1
<1>11. aW = a * W /\ bW = b * W
  OBVIOUS
<1> HIDE DEF aW, bW
<1>12. W = N + 1
  BY DEF W
<1>13. CASE Gate(c, v)
  <2>1. n >= aW + 1 /\ StillDefined(t, d)
    BY <1>4, <1>11, <1>10, <1>13
  <2>2. CASE c.kind[d] = "const"
    <3>1. ~Gate(c, d) /\ c.kind[d] # "sub" /\ d \notin Rows(c) /\ n >= 1
      BY <1>7, <1>8, <1>10, <2>1, <2>2
    <3> QED BY <1>5, <3>1
  <2>3. CASE c.kind[d] # "const"
    <3>1. n >= bW + N + 2
      BY <1>3, <1>10, <1>12, <2>1, <2>3
    <3>2. n >= 1 /\ n >= bW + 2 /\ n + 0 >= bW + M + 2
      BY <1>3, <1>10, <3>1
    <3>3. c.kind[d] = "sub" => n >= bW + M + 3
      BY <1>3, <1>6, <1>10, <3>1
    <3>4. Chain(c, {}, d) /\ n + Cardinality({}) >= bW + M + 2
      BY <3>2, EmptyChain
    <3> QED BY <1>5, <1>11, <3>2, <3>3, <3>4
  <2> QED BY <2>2, <2>3
<1>14. CASE c.kind[v] = "sub"
  <2>1. n >= aW + M + 2
    BY <1>3, <1>4, <1>10, <1>11, <1>14
  <2>2. d \in Rows(c)
    BY <1>14, OnwardFacts DEF Rows
  <2>3. n >= 1 /\ n + 0 >= bW + M + 2
    BY <1>3, <1>10, <2>1
  <2>4. Chain(c, {}, d) /\ n + Cardinality({}) >= bW + M + 2
    BY <2>3, EmptyChain
  <2>5. ~Gate(c, d) /\ c.kind[d] # "sub"
    BY <2>2 DEF Rows, Of, Gate, GateTypes
  <2> QED BY <1>5, <1>11, <2>3, <2>4, <2>5
<1>15. CASE v \in Rows(c)
  <2>1. PICK S : Chain(c, S, v) /\ (n + 1) + Cardinality(S) >= aW + M + 2
    BY <1>4, <1>11, <1>15
  <2>2. S \in SUBSET Rows(c) /\ v \notin S
    BY <2>1 DEF Chain
  <2>3. Cardinality(S) \in Nat /\ Cardinality(S) + 1 <= M
    <3>1. IsFiniteSet(Rows(c))
      BY Numbers, FS_Subset
    <3> QED BY <1>15, <2>2, <3>1, Subsets DEF M
  <2> DEFINE k == Cardinality(S)
  <2>4. k \in Nat /\ k + 1 <= M /\ (n + 1) + k >= aW + M + 2
    BY <2>1, <2>3
  <2> HIDE DEF k
  <2>5. n >= bW + 2 /\ n >= 1 /\ n + (k + 1) >= bW + M + 2
    BY <1>3, <1>10, <2>4
  <2>6. d \in ToSet(c.ins[v]) /\ ~Gate(c, v) /\ c.kind[v] # "sub"
    <3>1. ~Gate(c, v) /\ c.kind[v] # "sub"
      BY <1>15 DEF Rows, Of, Gate, GateTypes
    <3> QED BY <3>1, OnwardFacts
  <2>7. c.kind[d] # "sub"
    BY <1>1, <2>6 DEF Built, InstancesBuilt, Of
  <2>8. ASSUME d \in Rows(c)
        PROVE  Chain(c, S \cup {v}, d) /\ n + Cardinality(S \cup {v}) >= bW + M + 2
    <3>1. Chain(c, S \cup {v}, d) /\ Cardinality(S \cup {v}) = k + 1
      BY <1>15, <2>1, <2>6, <2>8, ChainGrows DEF k
    <3> QED BY <2>5, <3>1
  <2> QED BY <1>5, <1>11, <2>5, <2>7, <2>8
<1>16. ToSet(Onward(c, v)) # {} => Gate(c, v) \/ c.kind[v] = "sub" \/ v \in Rows(c)
  <2>1. c.kind[v] \in {"input", "const"} => ToSet(Onward(c, v)) = {}
    BY DEF Onward, ToSet
  <2> QED BY <2>1 DEF Built, Rows, Of, Gate
<1> QED BY <1>13, <1>14, <1>15, <1>16

LEMMA RemovalOnward ==
    ASSUME NEW c, Built(c), ~Ringed(c), NEW rm, NEW n \in Nat,
           \A s \in Memory(c), v \in Vertices(c) :
              ~s.endless /\ Enough(c, n, s, v) => rm[<<s, v>>] \in Less(c, Defined(c, s) \ {v}),
           NEW s \in Memory(c), ~s.endless, NEW v \in Vertices(c), Enough(c, n + 1, s, v)
    PROVE  RemoveOnce(c, rm, s, v) \in Less(c, Defined(c, s) \ {v})
<1> DEFINE U == Defined(c, s) \ {v}
<1>1. First(c, s, v) \in Less(c, U)
  BY FirstFacts DEF Less
<1>2. Onward(c, v) \in Seq(Vertices(c))
  BY OnwardFacts
<1>3. ASSUME NEW d \in ToSet(Onward(c, v)), NEW t \in Less(c, U)
      PROVE  Going(c, rm, v)[<<t, d>>] \in Less(c, U)
  <2>1. d \in Vertices(c) /\ t \in Memory(c) /\ ~t.endless /\ Defined(c, t) \subseteq U
    BY <1>2 DEF ToSet, Less
  <2>2. Going(c, rm, v)[<<t, d>>] = IF Gate(c, v) /\ ~StillDefined(t, d) THEN t ELSE rm[<<t, d>>]
    BY <2>1, GoingIs
  <2>3. CASE Gate(c, v) /\ ~StillDefined(t, d)
    BY <1>3, <2>2, <2>3
  <2>4. CASE ~(Gate(c, v) /\ ~StillDefined(t, d))
    <3>1. Enough(c, n, t, d)
      BY <1>3, <2>4, EnoughOnward
    <3>2. rm[<<t, d>>] \in Less(c, Defined(c, t) \ {d})
      BY <2>1, <3>1
    <3>3. Going(c, rm, v)[<<t, d>>] = rm[<<t, d>>]
      BY <2>2, <2>4
    <3> QED BY <2>1, <3>2, <3>3 DEF Less
  <2> QED BY <2>3, <2>4
<1> HIDE DEF U
<1>4. Through(Going(c, rm, v), First(c, s, v), Onward(c, v)) \in Less(c, U)
  BY <1>1, <1>2, <1>3, TraceStays
<1> QED BY <1>4, RemoveOnceIs DEF U

LEMMA RemovalReturnsFrom ==
    ASSUME NEW c, Built(c), ~Ringed(c), NEW rm, Removing(c, rm)
    PROVE  \A n \in Nat : \A s \in Memory(c), v \in Vertices(c) :
              ~s.endless /\ Enough(c, n, s, v) => rm[n][<<s, v>>] \in Less(c, Defined(c, s) \ {v})
<1> DEFINE Q(n) == \A s \in Memory(c), v \in Vertices(c) :
              ~s.endless /\ Enough(c, n, s, v) => rm[n][<<s, v>>] \in Less(c, Defined(c, s) \ {v})
           S == {n \in Nat : Q(n)}
<1>1. 0 \in S
  BY DEF Enough
<1>2. ASSUME NEW n \in Nat, n \in S PROVE n + 1 \in S
  <2>1. Q(n)
    BY <1>2
  <2>2. ASSUME NEW s \in Memory(c), NEW v \in Vertices(c), ~s.endless, Enough(c, n + 1, s, v)
        PROVE  rm[n + 1][<<s, v>>] \in Less(c, Defined(c, s) \ {v})
    <3>1. rm[n + 1][<<s, v>>] = RemoveOnce(c, rm[n], s, v)
      BY <2>2, RemovingIs
    <3>2. RemoveOnce(c, rm[n], s, v) \in Less(c, Defined(c, s) \ {v})
      BY <2>1, <2>2, RemovalOnward
    <3> QED BY <3>1, <3>2
  <2> QED BY <2>2
<1> HIDE DEF S
<1>3. \A n \in Nat : n \in S
  BY <1>1, <1>2, Induction
<1> QED BY <1>3 DEF S

LEMMA DepthEnough ==
    ASSUME NEW c, Built(c), NEW s \in Memory(c), ~s.endless, NEW v \in Rows(c)
    PROVE  Enough(c, Depth(c), s, v)
<1> DEFINE N == Cardinality(Vertices(c))
           W == N + 1
           M == Cardinality(Rows(c))
           a == Others(c, s, v)
<1>1. v \in Vertices(c) /\ ~Gate(c, v) /\ c.kind[v] # "sub"
  BY DEF Rows, Of, Gate, GateTypes
<1>2. N \in Nat /\ M \in Nat /\ M <= N
  BY Numbers, DepthNat
<1>3. a \in Nat /\ a + 1 <= N
  <2> DEFINE t == Cleared(s, v)
  <2>1. t \in Less(c, Defined(c, s) \ {v})
    BY <1>1, ClearedFacts DEF Less
  <2> HIDE DEF t
  <2> QED BY <1>1, <2>1, OthersFacts
<1>4. Depth(c) = W * W
  BY DEF Depth
<1> HIDE DEF a, N, M
<1>5. W \in Nat /\ W >= 1 /\ W = N + 1
  BY <1>2
<1> HIDE DEF W
<1>6. a * W + W <= N * W /\ N * W + W <= W * W /\ a * W \in Nat /\ N * W \in Nat
  BY <1>2, <1>3, <1>5, Times
<1> DEFINE aW == a * W
           D == W * W
<1>7. aW \in Nat /\ D \in Int /\ D >= aW + W + W
  <2> DEFINE NW == N * W
  <2>1. aW \in Nat /\ NW \in Nat /\ D \in Int /\ aW + W <= NW /\ NW + W <= D
    BY <1>5, <1>6
  <2> HIDE DEF aW, NW, D
  <2> QED BY <1>5, <2>1
<1>8. aW = a * W /\ Depth(c) = D
  BY <1>4
<1> HIDE DEF aW, D
<1>9. D >= 1 /\ D + 0 >= aW + M + 2
  BY <1>2, <1>5, <1>7
<1>10. Chain(c, {}, v) /\ D + Cardinality({}) >= aW + M + 2
  BY <1>9, EmptyChain
<1> QED BY <1>1, <1>8, <1>9, <1>10 DEF Enough, a, W, M, N

LEMMA TopGraph ==
    ASSUME NEW c, Built(c)
    PROVE  /\ "top" \in Graphs(c)
           /\ c.output["top"] \o c.seq["top"] \in Seq(Vertices(c))
           /\ ToSet(c.output["top"] \o c.seq["top"]) \subseteq Rows(c)
<1>1. "top" \in Graphs(c)
  BY DEF Built, GraphsBuilt, Graphs
<1> DEFINE O == c.output["top"]
           Q == c.seq["top"]
           R == Rows(c)
<1>2. O \in Seq(Of(c, "output")) /\ Q \in Seq(Of(c, "seq"))
  BY <1>1, GraphLists
<1>3. Of(c, "output") \subseteq R /\ Of(c, "seq") \subseteq R /\ R \subseteq Vertices(c)
  BY DEF Rows, Of
<1> HIDE DEF O, Q, R
<1>4. O \in Seq(R) /\ Q \in Seq(R)
  BY <1>2, <1>3
<1> DEFINE L == O \o Q
<1>5. L \in Seq(R)
  BY <1>4
<1> HIDE DEF L
<1>6. L \in Seq(Vertices(c)) /\ ToSet(L) \subseteq R
  BY <1>3, <1>5 DEF ToSet
<1> QED BY <1>1, <1>6 DEF L, O, Q, R

LEMMA ResetTyped ==
    ASSUME NEW c, Built(c), NEW s \in Memory(c)
    PROVE  Reset(c, Removal(c), s, "top") \in Memory(c)
<1>1. Remembered(c, Removal(c))
  BY RemovingExists, RemovingTyped, DepthNat
<1> DEFINE list == c.output["top"] \o c.seq["top"]
<1>2. list \in Seq(Vertices(c))
  BY TopGraph
<1>3. Reset(c, Removal(c), s, "top") = Through(Removal(c), s, list)
  BY DEF Reset
<1> HIDE DEF list
<1>4. \A v \in ToSet(list) : \A t \in Memory(c) : Removal(c)[<<t, v>>] \in Memory(c)
  BY <1>1, <1>2 DEF Remembered, ToSet
<1> QED BY <1>2, <1>3, <1>4, TraceStays

LEMMA ResetReturns ==
    ASSUME NEW c, Built(c), ~Ringed(c), NEW s \in Memory(c), ~s.endless
    PROVE  ~Reset(c, Removal(c), s, "top").endless
<1> DEFINE P == {t \in Memory(c) : ~t.endless}
           list == c.output["top"] \o c.seq["top"]
<1>1. list \in Seq(Vertices(c)) /\ ToSet(list) \subseteq Rows(c)
  BY TopGraph
<1>2. Reset(c, Removal(c), s, "top") = Through(Removal(c), s, list)
  BY DEF Reset
<1> HIDE DEF list
<1>3. ASSUME NEW v \in ToSet(list), NEW t \in P PROVE Removal(c)[<<t, v>>] \in P
  <2>1. v \in Rows(c) /\ v \in Vertices(c)
    BY <1>1 DEF ToSet
  <2>2. Enough(c, Depth(c), t, v)
    BY <2>1, DepthEnough
  <2>3. Removal(c)[<<t, v>>] \in Less(c, Defined(c, t) \ {v})
    BY <2>1, <2>2, RemovingExists, RemovalReturnsFrom, DepthNat
  <2> QED BY <2>3 DEF Less
<1>4. s \in P
  OBVIOUS
<1> HIDE DEF P
<1>5. Through(Removal(c), s, list) \in P
  BY <1>1, <1>3, <1>4, TraceStays
<1> QED BY <1>2, <1>5 DEF P

\* The memory of the circuit that is simulated.
Remembers == circuit \in Circuits /\ cells \in Memory(circuit)

LEMMA FreshMemory ==
    ASSUME NEW c, Built(c)
    PROVE  Fresh(c) \in Memory(c) /\ ~Fresh(c).endless
<1> DEFINE val == [v \in Vertices(c) |-> IF c.kind[v] = "const" THEN c.const[v] ELSE Unknown]
           clk == [f \in Of(c, "seq") |-> Unknown]
           st == [f \in Of(c, "seq") |-> <<>>]
           sim == [v \in Of(c, "sub") |-> <<>>]
<1>1. val \in [Vertices(c) -> Values]
  <2>1. \A v \in Vertices(c) : c.kind[v] = "const" => c.const[v] \in Values
    BY DEF Built, Of
  <2> QED BY <2>1 DEF Values, Unknown
<1>2. clk \in [Of(c, "seq") -> Values]
  BY DEF Values, Unknown
<1>3. st \in [Of(c, "seq") -> {<<>>} \cup (Values \X Values)]
  OBVIOUS
<1>4. sim \in [Of(c, "sub") -> Seq(Values)]
  OBVIOUS
<1>5. Fresh(c) = [value |-> val, prevClk |-> clk, staged |-> st, sim |-> sim, active |-> {}, endless |-> FALSE]
  BY DEF Fresh
<1> HIDE DEF val, clk, st, sim
<1>6. Fresh(c) \in Memory(c)
  BY <1>1, <1>2, <1>3, <1>4, <1>5 DEF Memory
<1>7. Fresh(c).endless = FALSE
  BY <1>5
<1> QED BY <1>6, <1>7

LEMMA TopVectors ==
    ASSUME NEW c, Built(c), NEW vector \in Vectors(c)
    PROVE  vector \in VectorsOf(c, "top")
<1>1. c.signals \subseteq Values
  BY DEF Built
<1> QED BY <1>1 DEF Vectors, VectorsOf

LEMMA GraphSimulationTyped ==
    ASSUME Remembers, NEW vector \in Vectors(circuit), GraphSimulation(vector)
    PROVE  Remembers' /\ ~cells'.endless
<1> DEFINE run == Simulated(circuit, Update(circuit), cells, "top", vector)
<1>1. circuit' = circuit /\ circuit \in Circuits /\ cells \in Memory(circuit) /\ Built(circuit) /\ ~cells.endless
  BY CircuitsAssumption DEF GraphSimulation, Remembers
<1>2. cells' = run.cells
  BY DEF GraphSimulation
<1>3. Typed(circuit, Update(circuit)) /\ "top" \in Graphs(circuit) /\ vector \in VectorsOf(circuit, "top")
  BY <1>1, UpdateTyped, TopGraph, TopVectors
<1>4. run.cells \in Like(circuit, cells)
  BY <1>1, <1>3, SimulatedTyped
<1> QED BY <1>1, <1>2, <1>4 DEF Like, Remembers

(* The memory keeps its type: after any calls of graphSimulation and       *)
(* simulationRemove every vertex holds one of the four values or none, each *)
(* flip-flop a clock sample of that kind, and an instance a vector of them. *)
THEOREM MemoryTyped == Spec => []Remembers
<1>1. Init => Remembers
  BY CircuitsAssumption, FreshMemory DEF Init, Remembers
<1>2. Remembers /\ [Next]_vars => Remembers'
  <2> SUFFICES ASSUME Remembers, [Next]_vars PROVE Remembers'
    OBVIOUS
  <2>1. ASSUME NEW vector \in Vectors(circuit), GraphSimulation(vector) PROVE Remembers'
    BY <2>1, GraphSimulationTyped
  <2>2. CASE SimulationRemove
    <3>1. circuit' = circuit /\ circuit \in Circuits /\ cells \in Memory(circuit) /\ Built(circuit)
      BY <2>2, CircuitsAssumption DEF SimulationRemove, Remembers
    <3>2. cells' = Reset(circuit, Removal(circuit), cells, "top")
      BY <2>2 DEF SimulationRemove
    <3> QED BY <3>1, <3>2, ResetTyped DEF Remembers
  <2>3. CASE UNCHANGED vars
    BY <2>3 DEF vars, Remembers
  <2> QED BY <2>1, <2>2, <2>3 DEF Next
<1> QED BY <1>1, <1>2, PTL DEF Spec

(* simulationRemove returns on every circuit in which no ring of cells and *)
(* outputs feeds itself without a gate between, whatever loops through     *)
(* gates there are and whatever the values are: a gate only goes on to     *)
(* drivers that still have a value, and these lose it.                     *)
THEOREM RemovalReturnsCorrect == Spec => []RemovalReturnsUnlessRinged
<1>1. Init => RemovalReturnsUnlessRinged
  BY CircuitsAssumption, FreshMemory DEF Init, RemovalReturnsUnlessRinged, RemovalReturns
<1>2. Remembers /\ RemovalReturnsUnlessRinged /\ [Next]_vars => RemovalReturnsUnlessRinged'
  <2> SUFFICES ASSUME Remembers, RemovalReturnsUnlessRinged, [Next]_vars
               PROVE  RemovalReturnsUnlessRinged'
    OBVIOUS
  <2>1. ASSUME NEW vector \in Vectors(circuit), GraphSimulation(vector)
        PROVE  RemovalReturnsUnlessRinged'
    BY <2>1, GraphSimulationTyped DEF RemovalReturnsUnlessRinged, RemovalReturns
  <2>2. CASE SimulationRemove
    <3>1. /\ circuit' = circuit /\ circuit \in Circuits /\ cells \in Memory(circuit) /\ Built(circuit)
          /\ ~cells.endless
      BY <2>2, CircuitsAssumption DEF SimulationRemove, Remembers
    <3>2. cells' = Reset(circuit, Removal(circuit), cells, "top")
      BY <2>2 DEF SimulationRemove
    <3>3. ~Ringed(circuit) => ~cells'.endless
      BY <3>1, <3>2, ResetReturns
    <3> QED BY <3>1, <3>3 DEF RemovalReturnsUnlessRinged, RemovalReturns
  <2>3. CASE UNCHANGED vars
    BY <2>3 DEF vars, RemovalReturnsUnlessRinged, RemovalReturns
  <2> QED BY <2>1, <2>2, <2>3 DEF Next
<1> QED BY <1>1, <1>2, MemoryTyped, PTL DEF Spec

-----------------------------------------------------------------------------
(* Circuits that are clocked from outside, and what their gates work out.  *)

Gates(c) == {v \in Vertices(c) : Gate(c, v)}

\* Numbers of the gates, each above those it is driven by.
Layers(c) ==
    {level \in [Gates(c) -> 0..Cardinality(Vertices(c))] :
       \A g \in Gates(c) : \A d \in ToSet(c.ins[g]) : Gate(c, d) => level[d] < level[g]}

Primary(c, v) == c.kind[v] \in {"input", "const"}

Leaf(c, v) == Primary(c, v) \/ c.kind[v] = "seq"

(* A graph without instances and loops through gates, whose outputs drive  *)
(* nothing.                                                                *)
Flat(c) ==
    /\ Of(c, "sub") = {} /\ c.sub["top"] = <<>>
    /\ Of(c, "input") = ToSet(c.input["top"])
    /\ Gates(c) = ToSet(c.gate["top"])
    /\ Of(c, "seq") = ToSet(c.seq["top"])
    /\ \A v \in Vertices(c) : ToSet(c.ins[v]) \cap Of(c, "output") = {}
    /\ Layers(c) # {}

(* The cells are flip-flops, with clocks and asynchronous clears straight  *)
(* from inputs or constants.                                               *)
ClockedOutside(c) ==
    \A f \in Of(c, "seq") :
      /\ c.cell[f].ff
      /\ Primary(c, Pin(c, f, "clk"))
      /\ c.cell[f].async /\ Has(c, f, "clear") => Primary(c, Pin(c, f, "clear"))

(* A circuit that is clocked from outside.                                 *)
Synchronous(c) == Flat(c) /\ ClockedOutside(c)

(* A driver is a gate or a leaf.                                           *)
LEMMA GateOrLeaf ==
    ASSUME NEW c, Built(c), Flat(c), NEW v \in Vertices(c), NEW d \in ToSet(c.ins[v])
    PROVE  /\ d \in Vertices(c)
           /\ Gate(c, d) \/ Leaf(c, d)
           /\ c.kind[d] # "sub" /\ c.kind[d] # "output"
<1>1. d \in Vertices(c)
  BY Drivers
<1>2. c.kind[d] # "sub" /\ c.kind[d] # "output"
  BY <1>1 DEF Flat, Of
<1> QED BY <1>1, <1>2 DEF Built, Gate, Leaf, Primary

LEMMA KindsApart ==
    ASSUME NEW c, NEW v
    PROVE  /\ Gate(c, v) => ~Leaf(c, v) /\ c.kind[v] \notin {"output", "sub", "seq", "input", "const"}
           /\ Leaf(c, v) => ~Gate(c, v) /\ c.kind[v] \notin {"output", "sub"}
           /\ Primary(c, v) => Leaf(c, v) /\ c.kind[v] # "seq"
BY DEF Gate, GateTypes, Leaf, Primary

(* Chains and agreements of the same values.                               *)
LEMMA ChainedSame ==
    ASSUME NEW c, Built(c), NEW v \in Vertices(c), Gate(c, v), c.ins[v] # <<>>,
           NEW of \in [Vertices(c) -> Values], NEW to \in [Vertices(c) -> Values],
           \A d \in ToSet(c.ins[v]) : of[d] = to[d]
    PROVE  Chained(c, v, of) = Chained(c, v, to)
<1> DEFINE rest == Tail(c.ins[v])
           chain(o) == [call \in Values \X Vertices(c) |-> Table(c.kind[v], call[1], o[call[2]])]
           one(o) == Single(c.kind[v], o[c.ins[v][1]])
           tr == Trace(chain(to), one(to), rest)
           P == [i \in Int |-> {tr[i]} \cap Values]
<1>1. /\ rest \in Seq(Vertices(c)) /\ ToSet(rest) \subseteq ToSet(c.ins[v])
      /\ ToSet(c.ins[v]) \subseteq Vertices(c)
      /\ c.ins[v][1] \in ToSet(c.ins[v])
  BY Drivers
<1>2. Chained(c, v, of) = Through(chain(of), one(of), rest) /\ Chained(c, v, to) = Through(chain(to), one(to), rest)
  BY DEF Chained
<1>3. one(of) = one(to) /\ one(to) \in Values
  BY <1>1, SingleValues
<1>4. ASSUME c.kind[v] \in {"Buf", "Not"} PROVE Chained(c, v, of) = Chained(c, v, to)
  <2>1. rest = <<>>
    BY <1>4, OneDriver
  <2> HIDE DEF chain, one, rest
  <2> QED BY <1>2, <1>3, <2>1, ThroughNothing
<1>5. ASSUME c.kind[v] \notin {"Buf", "Not"} PROVE Chained(c, v, of) = Chained(c, v, to)
  <2>1. c.kind[v] \in GateTypes \ {"Buf", "Not"}
    BY <1>5 DEF Gate
  <2>2. ASSUME NEW o \in {of, to}, NEW x \in Values, NEW d \in ToSet(rest)
        PROVE  /\ chain(o)[<<x, d>>] = Table(c.kind[v], x, o[d])
               /\ chain(o)[<<x, d>>] \in Values
    <3>1. <<x, d>> \in Values \X Vertices(c) /\ <<x, d>>[1] = x /\ <<x, d>>[2] = d
      BY <1>1, <2>2
    <3> DEFINE call == <<x, d>>
    <3>2. chain(o)[call] = Table(c.kind[v], call[1], o[call[2]])
      <4> HIDE DEF call
      <4>1. call \in Values \X Vertices(c)
        BY <3>1 DEF call
      <4> QED BY <4>1
    <3> HIDE DEF chain
    <3>3. chain(o)[<<x, d>>] = Table(c.kind[v], x, o[d])
      BY <3>1, <3>2
    <3> QED BY <2>1, <3>3, TableValues DEF Values
  <2>3. tr[0] = one(to) /\ \A i \in Nat : tr[i + 1] = chain(to)[<<tr[i], rest[i + 1]>>]
    <3> HIDE DEF chain, one, rest
    <3> QED BY TraceFacts
  <2>4. Chained(c, v, to) = tr[Len(rest)]
    BY <1>2 DEF Through
  <2> HIDE DEF tr
  <2>5. \A i \in Int : P[i] = {tr[i]} \cap Values
    OBVIOUS
  <2> HIDE DEF P, one
  <2>6. one(of) \in P[0]
    BY <1>3, <2>3, <2>5
  <2>7. Len(rest) \in Nat /\ \A i \in 1..Len(rest) : rest[i] \in ToSet(rest)
    BY <1>1 DEF ToSet
  <2>8. ASSUME NEW i \in 1..Len(rest), NEW x \in P[i - 1]
        PROVE  chain(of)[<<x, rest[i]>>] \in P[i]
    <3>1. i - 1 \in Nat /\ (i - 1) + 1 = i /\ i - 1 \in Int /\ i \in Int
      OBVIOUS
    <3>2. x = tr[i - 1] /\ x \in Values
      BY <2>5, <2>8, <3>1
    <3> HIDE DEF chain
    <3>3. tr[i] = chain(to)[<<x, rest[i]>>]
      BY <2>3, <3>1, <3>2
    <3> DEFINE d == rest[i]
    <3>4. d \in ToSet(rest) /\ of[d] = to[d]
      BY <1>1, <2>7, <2>8
    <3> HIDE DEF d, rest
    <3>5. chain(of)[<<x, d>>] = chain(to)[<<x, d>>] /\ chain(to)[<<x, d>>] \in Values
      BY <2>2, <3>2, <3>4
    <3> QED BY <2>5, <3>1, <3>3, <3>5 DEF d
  <2> HIDE DEF chain, rest
  <2>9. Through(chain(of), one(of), rest) \in P[Len(rest)]
    BY <2>6, <2>7, <2>8, TraceKeeps
  <2> QED BY <1>2, <2>4, <2>5, <2>7, <2>9
<1> QED BY <1>4, <1>5

LEMMA AgreementSame ==
    ASSUME NEW c, NEW v, c.ins[v][1] \in ToSet(c.ins[v]), NEW of, NEW to, \A d \in ToSet(c.ins[v]) : of[d] = to[d]
    PROVE  Agreement(c, v, of) = Agreement(c, v, to)
BY DEF Agreement

LEMMA ConingIs ==
    ASSUME NEW c, NEW cone, Coning(c, cone), NEW n \in Nat, NEW E \in Assignments(c), NEW v \in Vertices(c)
    PROVE  /\ cone[0][<<E, v>>] = Unknown
           /\ cone[n + 1][<<E, v>>] = ConeOnce(c, cone[n], E, v)
<1>1. <<E, v>> \in Assignments(c) \X Vertices(c) /\ <<E, v>>[1] = E /\ <<E, v>>[2] = v
  OBVIOUS
<1>2. /\ cone[n + 1] = [call \in Assignments(c) \X Vertices(c) |-> ConeOnce(c, cone[n], call[1], call[2])]
      /\ cone[0] = [call \in Assignments(c) \X Vertices(c) |-> Unknown]
  BY DEF Coning
<1> DEFINE call == <<E, v>>
<1>3. cone[n + 1][call] = ConeOnce(c, cone[n], call[1], call[2]) /\ cone[0][call] = Unknown
  <2> HIDE DEF call
  <2>1. call \in Assignments(c) \X Vertices(c)
    BY <1>1 DEF call
  <2> QED BY <1>2, <2>1
<1> QED BY <1>1, <1>3

LEMMA ChainedValues ==
    ASSUME NEW c, Built(c), NEW v \in Vertices(c), Gate(c, v), c.ins[v] # <<>>,
           NEW of \in [Vertices(c) -> Values]
    PROVE  Chained(c, v, of) \in Values
<1> DEFINE rest == Tail(c.ins[v])
           chain == [call \in Values \X Vertices(c) |-> Table(c.kind[v], call[1], of[call[2]])]
           one == Single(c.kind[v], of[c.ins[v][1]])
<1>1. /\ rest \in Seq(Vertices(c)) /\ ToSet(rest) \subseteq ToSet(c.ins[v])
      /\ ToSet(c.ins[v]) \subseteq Vertices(c)
      /\ c.ins[v][1] \in ToSet(c.ins[v])
  BY Drivers
<1>2. Chained(c, v, of) = Through(chain, one, rest)
  BY DEF Chained
<1>3. one \in Values
  BY <1>1, SingleValues
<1>4. ASSUME c.kind[v] \in {"Buf", "Not"} PROVE Chained(c, v, of) \in Values
  <2>1. rest = <<>>
    BY <1>4, OneDriver
  <2> HIDE DEF chain, one, rest
  <2> QED BY <1>2, <1>3, <2>1, ThroughNothing
<1>5. ASSUME c.kind[v] \notin {"Buf", "Not"} PROVE Chained(c, v, of) \in Values
  <2>1. c.kind[v] \in GateTypes \ {"Buf", "Not"}
    BY <1>5 DEF Gate
  <2>2. ASSUME NEW x \in Values, NEW d \in ToSet(rest)
        PROVE  chain[<<x, d>>] \in Values
    <3>1. <<x, d>> \in Values \X Vertices(c)
      BY <1>1, <2>2
    <3> DEFINE call == <<x, d>>
    <3>2. chain[call] = Table(c.kind[v], call[1], of[call[2]])
      <4> HIDE DEF call
      <4>1. call \in Values \X Vertices(c)
        BY <3>1 DEF call
      <4> QED BY <4>1
    <3> HIDE DEF chain, call
    <3>3. chain[call] \in Values
      BY <2>1, <3>2, TableValues DEF Values
    <3> QED BY <3>3 DEF call
  <2> HIDE DEF chain, one, rest
  <2>3. Through(chain, one, rest) \in Values
    BY <1>1, <1>3, <2>2, TraceStays
  <2> QED BY <1>2, <2>3
<1> QED BY <1>4, <1>5

\* What v is worked out to from the values `of' of its drivers.
Worth(c, E, v, of) ==
    IF Leaf(c, v) THEN E[v]
    ELSE IF c.ins[v] = <<>> THEN Unknown
    ELSE IF c.kind[v] = "output" THEN Agreement(c, v, of)
    ELSE Chained(c, v, of)

LEMMA WorthFacts ==
    ASSUME NEW c, Built(c), Flat(c), NEW E \in Assignments(c), NEW v \in Vertices(c),
           NEW of \in [Vertices(c) -> Values]
    PROVE  /\ Worth(c, E, v, of) \in Values
           /\ \A to \in [Vertices(c) -> Values] : \A F \in Assignments(c) :
                /\ Leaf(c, v) => E[v] = F[v]
                /\ ~Leaf(c, v) => \A d \in ToSet(c.ins[v]) : of[d] = to[d]
                => Worth(c, E, v, of) = Worth(c, F, v, to)
<1>1. c.kind[v] # "sub"
  BY DEF Flat, Of
<1>2. CASE Leaf(c, v)
  BY <1>2 DEF Worth, Assignments
<1>3. CASE ~Leaf(c, v) /\ c.ins[v] = <<>>
  BY <1>3 DEF Worth, Values, Unknown
<1>4. CASE ~Leaf(c, v) /\ c.ins[v] # <<>> /\ c.kind[v] = "output"
  <2>1. \A o : Worth(c, E, v, o) = Agreement(c, v, o) /\ \A F : Worth(c, F, v, o) = Agreement(c, v, o)
    BY <1>4 DEF Worth
  <2>2. c.ins[v][1] \in ToSet(c.ins[v]) /\ ToSet(c.ins[v]) \subseteq Vertices(c)
    BY <1>4, Drivers
  <2>3. Agreement(c, v, of) \in Values
    <3>1. of[c.ins[v][1]] \in Values
      BY <2>2
    <3> QED BY <3>1 DEF Agreement, Values, Unknown
  <2>4. ASSUME NEW to \in [Vertices(c) -> Values], \A d \in ToSet(c.ins[v]) : of[d] = to[d]
        PROVE  Agreement(c, v, of) = Agreement(c, v, to)
    BY <2>2, <2>4, AgreementSame
  <2> QED BY <1>4, <2>1, <2>3, <2>4
<1>5. CASE ~Leaf(c, v) /\ c.ins[v] # <<>> /\ c.kind[v] # "output"
  <2>1. Gate(c, v)
    BY <1>1, <1>5 DEF Built, Gate, Leaf, Primary
  <2>2. \A o : Worth(c, E, v, o) = Chained(c, v, o) /\ \A F : Worth(c, F, v, o) = Chained(c, v, o)
    BY <1>5 DEF Worth
  <2>3. Chained(c, v, of) \in Values
    BY <1>5, <2>1, ChainedValues
  <2>4. ASSUME NEW to \in [Vertices(c) -> Values], \A d \in ToSet(c.ins[v]) : of[d] = to[d]
        PROVE  Chained(c, v, of) = Chained(c, v, to)
    BY <1>5, <2>1, <2>4, ChainedSame
  <2> QED BY <1>5, <2>2, <2>3, <2>4
<1> QED BY <1>2, <1>3, <1>4, <1>5

LEMMA ConeOnceIs ==
    ASSUME NEW c, Built(c), Flat(c), NEW cone, NEW E, NEW v \in Vertices(c)
    PROVE  ConeOnce(c, cone, E, v) = Worth(c, E, v, [d \in Vertices(c) |-> cone[<<E, d>>]])
<1> DEFINE of == [d \in Vertices(c) |-> cone[<<E, d>>]]
<1>1. c.ins[v] # <<>> => c.kind[c.ins[v][1]] # "sub"
  BY Drivers, GateOrLeaf
<1>2. ConeOnce(c, cone, E, v) =
        IF c.kind[v] \in {"input", "const", "seq"} THEN E[v]
        ELSE IF c.ins[v] = <<>> THEN Unknown
        ELSE IF c.kind[v] = "output" THEN Agreement(c, v, of)
        ELSE Chained(c, v, of)
  BY <1>1 DEF ConeOnce
<1>3. Leaf(c, v) <=> c.kind[v] \in {"input", "const", "seq"}
  BY DEF Leaf, Primary
<1> HIDE DEF of
<1> QED BY <1>2, <1>3 DEF Worth, of

LEMMA DepthBig ==
    ASSUME NEW c, Built(c), NEW v \in Vertices(c)
    PROVE  Cardinality(Vertices(c)) + 2 < Depth(c)
<1> DEFINE N == Cardinality(Vertices(c))
<1>1. N \in Nat /\ N >= 1
  <2>1. {v} \in SUBSET Vertices(c) /\ IsFiniteSet(Vertices(c))
    BY DEF Built
  <2>2. Cardinality({}) = 0 /\ {} \in SUBSET Vertices(c) /\ v \notin {}
    BY FS_EmptySet
  <2>3. Cardinality({}) + 1 <= N /\ N \in Nat
    BY <2>1, <2>2, Subsets
  <2> QED BY <2>2, <2>3
<1>2. Depth(c) = (N + 1) * (N + 1)
  BY DEF Depth
<1> HIDE DEF N
<1>3. 1 * N <= N * N /\ 1 * N = N /\ N * N \in Nat
  BY <1>1, Times
<1>4. (N + 1) * (N + 1) = N * N + N + N + 1
  BY <1>1
<1> DEFINE sq == N * N
<1>5. sq \in Nat /\ N <= sq /\ (N + 1) * (N + 1) = sq + N + N + 1
  BY <1>3, <1>4
<1> HIDE DEF sq
<1>6. (N + 1) * (N + 1) > N + 2
  BY <1>1, <1>5
<1> QED BY <1>1, <1>2, <1>6 DEF N

\* How far calls go from v.
Height(c, level, v) ==
    IF Gate(c, v) THEN level[v] + 1
    ELSE IF Leaf(c, v) THEN 0
    ELSE Cardinality(Vertices(c)) + 2

LEMMA Heights ==
    ASSUME NEW c, Built(c), Flat(c), NEW level \in Layers(c), NEW v \in Vertices(c)
    PROVE  /\ Height(c, level, v) \in Nat
           /\ Height(c, level, v) < Depth(c)
           /\ Gate(c, v) => level[v] \in Nat /\ level[v] + 1 = Height(c, level, v)
           /\ Leaf(c, v) => Height(c, level, v) = 0
           /\ ~Leaf(c, v) => \A d \in ToSet(c.ins[v]) : Height(c, level, d) < Height(c, level, v)
<1> DEFINE N == Cardinality(Vertices(c))
<1>1. N \in Nat
  BY DepthNat
<1>2. \A w \in Vertices(c) : Gate(c, w) => level[w] \in 0..N
  BY DEF Layers, Gates
<1>3. Depth(c) \in Nat /\ N + 2 < Depth(c)
  BY DepthNat, DepthBig
<1>4. \A w \in Vertices(c) : Height(c, level, w) = IF Gate(c, w) THEN level[w] + 1 ELSE IF Leaf(c, w) THEN 0 ELSE N + 2
  BY DEF Height
<1>5. Gate(c, v) => \A d \in ToSet(c.ins[v]) : Gate(c, d) => level[d] < level[v]
  BY DEF Layers, Gates
<1> HIDE DEF N
<1>8. \A w \in Vertices(c) : Leaf(c, w) => ~Gate(c, w)
  BY KindsApart
<1>9. \A d \in ToSet(c.ins[v]) : d \in Vertices(c) /\ (Gate(c, d) \/ Leaf(c, d))
  BY GateOrLeaf
<1>10. Height(c, level, v) \in Nat /\ Height(c, level, v) <= N + 2
  BY <1>1, <1>2, <1>4
<1>11. ASSUME ~Leaf(c, v), NEW d \in ToSet(c.ins[v]) PROVE Height(c, level, d) < Height(c, level, v)
  <2>1. CASE Gate(c, v)
    BY <1>2, <1>4, <1>5, <1>8, <1>9, <1>11, <2>1
  <2>2. CASE ~Gate(c, v)
    BY <1>1, <1>2, <1>4, <1>8, <1>9, <1>11, <2>2
  <2> QED BY <2>1, <2>2
<1> QED BY <1>1, <1>2, <1>3, <1>4, <1>8, <1>10, <1>11

\* The values of all vertices.
ConeOf(c, E) == [d \in Vertices(c) |-> Cone(c, E, d)]

(* A vertex is worked out from its drivers, and these from theirs.         *)
LEMMA ConeIs ==
    ASSUME NEW c, Built(c), Flat(c), NEW E \in Assignments(c)
    PROVE  /\ ConeOf(c, E) \in [Vertices(c) -> Values]
           /\ \A v \in Vertices(c) : Cone(c, E, v) = Worth(c, E, v, ConeOf(c, E))
<1>1. PICK level : level \in Layers(c)
  BY DEF Flat
<1>2. PICK cone : Coning(c, cone) /\ \A value, v : Cone(c, value, v) = cone[Depth(c)][<<value, v>>]
  BY ConingExists
<1> DEFINE of(n) == [d \in Vertices(c) |-> cone[n][<<E, d>>]]
           T == {n \in Nat : of(n) \in [Vertices(c) -> Values]}
           S == {n \in Nat : \A v \in Vertices(c) :
                   Height(c, level, v) < n => cone[n][<<E, v>>] = cone[n + 1][<<E, v>>]}
<1>3. ASSUME NEW n \in Nat, NEW v \in Vertices(c)
      PROVE  cone[0][<<E, v>>] = Unknown /\ cone[n + 1][<<E, v>>] = Worth(c, E, v, of(n))
  <2>1. cone[0][<<E, v>>] = Unknown /\ cone[n + 1][<<E, v>>] = ConeOnce(c, cone[n], E, v)
    BY <1>2, ConingIs
  <2> QED BY <2>1, ConeOnceIs
<1>4. 0 \in T
  <2>1. \A v \in Vertices(c) : cone[0][<<E, v>>] \in Values
    BY <1>3 DEF Values, Unknown
  <2> QED BY <2>1
<1>5. ASSUME NEW n \in Nat, n \in T PROVE n + 1 \in T
  <2>1. of(n) \in [Vertices(c) -> Values]
    BY <1>5
  <2>2. \A v \in Vertices(c) : cone[n + 1][<<E, v>>] \in Values
    <3> HIDE DEF of
    <3> QED BY <1>3, <2>1, WorthFacts
  <2> QED BY <2>2
<1>6. \A n \in Nat : n \in T
  <2> HIDE DEF T
  <2> QED BY <1>4, <1>5, Induction
<1>7. \A n \in Nat : of(n) \in [Vertices(c) -> Values]
  BY <1>6
<1>8. \A v \in Vertices(c) : Height(c, level, v) \in Nat
  BY <1>1, Heights
<1>9. 0 \in S
  BY <1>8
<1>10. ASSUME NEW n \in Nat, n \in S PROVE n + 1 \in S
  <2>1. ASSUME NEW v \in Vertices(c), Height(c, level, v) < n + 1
        PROVE  cone[n + 1][<<E, v>>] = cone[(n + 1) + 1][<<E, v>>]
    <3>1. /\ cone[n + 1][<<E, v>>] = Worth(c, E, v, of(n))
          /\ cone[(n + 1) + 1][<<E, v>>] = Worth(c, E, v, of(n + 1))
      BY <1>3
    <3>2. ASSUME ~Leaf(c, v), NEW d \in ToSet(c.ins[v]) PROVE of(n)[d] = of(n + 1)[d]
      <4>1. d \in Vertices(c) /\ Height(c, level, d) < Height(c, level, v)
        BY <1>1, <3>2, Heights, GateOrLeaf
      <4>2. Height(c, level, d) < n
        BY <1>8, <2>1, <4>1
      <4> QED BY <1>10, <4>1, <4>2
    <3>3. of(n) \in [Vertices(c) -> Values] /\ of(n + 1) \in [Vertices(c) -> Values]
      BY <1>7
    <3> HIDE DEF of
    <3> QED BY <3>1, <3>2, <3>3, WorthFacts
  <2> QED BY <2>1
<1>11. \A n \in Nat : n \in S
  <2> HIDE DEF S
  <2> QED BY <1>9, <1>10, Induction
<1> DEFINE D == Depth(c)
<1>12. D \in Nat
  BY DepthNat
<1>13. ConeOf(c, E) = of(D)
  BY <1>2 DEF ConeOf
<1>14. ASSUME NEW v \in Vertices(c) PROVE Cone(c, E, v) = Worth(c, E, v, ConeOf(c, E))
  <2>1. Height(c, level, v) < D
    BY <1>1, Heights
  <2>2. cone[D][<<E, v>>] = cone[D + 1][<<E, v>>]
    BY <1>11, <1>12, <2>1
  <2> QED BY <1>2, <1>3, <1>12, <1>13, <2>2
<1> QED BY <1>7, <1>12, <1>13, <1>14

\* Assignments that differ at most at gates and outputs.
SameLeaves(c, E, F) == \A w \in Vertices(c) : Leaf(c, w) => E[w] = F[w]

(* What gates are worked out to only depends on the leaves.                *)
LEMMA ConeLeaves ==
    ASSUME NEW c, Built(c), Flat(c), NEW E \in Assignments(c), NEW F \in Assignments(c),
           SameLeaves(c, E, F)
    PROVE  \A v \in Vertices(c) : Cone(c, E, v) = Cone(c, F, v)
<1>1. PICK level : level \in Layers(c)
  BY DEF Flat
<1> DEFINE S == {n \in Nat : \A v \in Vertices(c) : Height(c, level, v) < n => Cone(c, E, v) = Cone(c, F, v)}
<1>2. \A v \in Vertices(c) : Height(c, level, v) \in Nat
  BY <1>1, Heights
<1>3. 0 \in S
  BY <1>2
<1>4. ASSUME NEW n \in Nat, n \in S PROVE n + 1 \in S
  <2>1. ASSUME NEW v \in Vertices(c), Height(c, level, v) < n + 1 PROVE Cone(c, E, v) = Cone(c, F, v)
    <3>1. Cone(c, E, v) = Worth(c, E, v, ConeOf(c, E)) /\ Cone(c, F, v) = Worth(c, F, v, ConeOf(c, F))
      BY ConeIs
    <3>2. ASSUME ~Leaf(c, v), NEW d \in ToSet(c.ins[v]) PROVE ConeOf(c, E)[d] = ConeOf(c, F)[d]
      <4>1. d \in Vertices(c) /\ Height(c, level, d) < Height(c, level, v)
        BY <1>1, <3>2, Heights, GateOrLeaf
      <4>2. Height(c, level, d) < n
        BY <1>2, <2>1, <4>1
      <4> QED BY <1>4, <4>1, <4>2 DEF ConeOf
    <3>3. ConeOf(c, E) \in [Vertices(c) -> Values] /\ ConeOf(c, F) \in [Vertices(c) -> Values]
      BY ConeIs
    <3>4. Leaf(c, v) => E[v] = F[v]
      BY DEF SameLeaves
    <3> QED BY <3>1, <3>2, <3>3, <3>4, WorthFacts
  <2> QED BY <2>1
<1> HIDE DEF S
<1>5. \A n \in Nat : n \in S
  BY <1>3, <1>4, Induction
<1>6. ASSUME NEW v \in Vertices(c) PROVE Cone(c, E, v) = Cone(c, F, v)
  <2>1. Height(c, level, v) + 1 \in S /\ Height(c, level, v) < Height(c, level, v) + 1
    BY <1>2, <1>5
  <2> QED BY <2>1 DEF S
<1> QED BY <1>6

\* With every gate the gates that drive it.
Closed(c, A) == A \subseteq Gates(c) /\ \A v \in A : \A d \in ToSet(c.ins[v]) : Gate(c, d) => d \in A

\* The gates that drive u and those below them.
Under(c, u, below) == UNION {IF Gate(c, d) THEN {d} \cup below[d] ELSE {} : d \in ToSet(c.ins[u])}

Drop(c, level, u) == IF Gate(c, u) THEN level[u] + 1 ELSE Cardinality(Vertices(c)) + 2

LEMMA Drops ==
    ASSUME NEW c, Built(c), NEW level \in Layers(c), NEW u \in Vertices(c)
    PROVE  /\ Drop(c, level, u) \in Nat
           /\ Drop(c, level, u) < Depth(c)
           /\ \A d \in ToSet(c.ins[u]) : Gate(c, d) => Drop(c, level, d) < Drop(c, level, u)
<1> DEFINE N == Cardinality(Vertices(c))
<1>1. N \in Nat /\ Depth(c) \in Nat /\ N + 2 < Depth(c)
  BY DepthNat, DepthBig
<1>2. \A w \in Vertices(c) : Gate(c, w) => level[w] \in 0..N
  BY DEF Layers, Gates
<1>3. \A w \in Vertices(c) : Drop(c, level, w) = IF Gate(c, w) THEN level[w] + 1 ELSE N + 2
  BY DEF Drop
<1>4. Gate(c, u) => \A d \in ToSet(c.ins[u]) : Gate(c, d) => level[d] < level[u]
  BY DEF Layers, Gates
<1>5. \A d \in ToSet(c.ins[u]) : d \in Vertices(c)
  BY Drivers
<1> HIDE DEF N
<1>6. Drop(c, level, u) \in Nat /\ Drop(c, level, u) <= N + 2
  BY <1>1, <1>2, <1>3
<1>7. ASSUME NEW d \in ToSet(c.ins[u]), Gate(c, d) PROVE Drop(c, level, d) < Drop(c, level, u)
  BY <1>1, <1>2, <1>3, <1>4, <1>5, <1>7
<1> QED BY <1>1, <1>6, <1>7

LEMMA DescendingIs ==
    ASSUME NEW c, NEW below, Descending(c, below), NEW n \in Nat, NEW u \in Vertices(c)
    PROVE  below[0][u] = {} /\ below[n + 1][u] = Under(c, u, below[n])
<1>1. /\ below[0] = [w \in Vertices(c) |-> {}]
      /\ below[n + 1] = [w \in Vertices(c) |-> Under(c, w, below[n])]
  BY DEF Descending, Under
<1> QED BY <1>1

LEMMA UnderSame ==
    ASSUME NEW c, NEW u, NEW f, NEW g, \A d \in ToSet(c.ins[u]) : Gate(c, d) => f[d] = g[d]
    PROVE  Under(c, u, f) = Under(c, u, g)
BY DEF Under

LEMMA UnderHas ==
    ASSUME NEW c, NEW u, NEW f, NEW x
    PROVE  x \in Under(c, u, f) <=> \E d \in ToSet(c.ins[u]) : Gate(c, d) /\ (x = d \/ x \in f[d])
BY DEF Under

BelowOf(c) == [d \in Vertices(c) |-> Below(c, d)]

LEMMA BelowIs ==
    ASSUME NEW c, Built(c), Flat(c)
    PROVE  \A u \in Vertices(c) : Below(c, u) = Under(c, u, BelowOf(c))
<1>1. PICK level : level \in Layers(c)
  BY DEF Flat
<1>2. PICK below : Descending(c, below) /\ \A v : Below(c, v) = below[Depth(c)][v]
  BY DescendingExists
<1> DEFINE S == {n \in Nat : \A u \in Vertices(c) : Drop(c, level, u) <= n => below[n][u] = below[n + 1][u]}
           D == Depth(c)
<1>3. \A u \in Vertices(c) : Drop(c, level, u) \in Nat /\ Drop(c, level, u) >= 1
  <2>1. \A u \in Vertices(c) : Drop(c, level, u) \in Nat
    BY <1>1, Drops
  <2>2. \A u \in Vertices(c) : Gate(c, u) => level[u] \in Nat
    BY <1>1 DEF Layers, Gates
  <2> QED BY <2>1, <2>2, DepthNat DEF Drop
<1>4. 0 \in S
  BY <1>3
<1>5. ASSUME NEW n \in Nat, n \in S PROVE n + 1 \in S
  <2>1. ASSUME NEW u \in Vertices(c), Drop(c, level, u) <= n + 1
        PROVE  below[n + 1][u] = below[(n + 1) + 1][u]
    <3>1. below[n + 1][u] = Under(c, u, below[n]) /\ below[(n + 1) + 1][u] = Under(c, u, below[n + 1])
      BY <1>2, DescendingIs
    <3>2. ASSUME NEW d \in ToSet(c.ins[u]), Gate(c, d) PROVE below[n][d] = below[n + 1][d]
      <4>1. d \in Vertices(c) /\ Drop(c, level, d) < Drop(c, level, u)
        BY <1>1, <3>2, Drops, Drivers
      <4>2. Drop(c, level, d) <= n
        BY <1>3, <2>1, <4>1
      <4> QED BY <1>5, <4>1, <4>2
    <3> QED BY <3>1, <3>2, UnderSame
  <2> QED BY <2>1
<1> HIDE DEF S
<1>6. \A n \in Nat : n \in S
  BY <1>4, <1>5, Induction
<1>7. D \in Nat
  BY DepthNat
<1>8. ASSUME NEW u \in Vertices(c) PROVE Below(c, u) = Under(c, u, BelowOf(c))
  <2>1. Drop(c, level, u) <= D
    BY <1>1, <1>3, <1>7, Drops
  <2>2. below[D][u] = below[D + 1][u]
    BY <1>6, <1>7, <2>1 DEF S
  <2>3. below[D + 1][u] = Under(c, u, below[D])
    BY <1>2, <1>7, DescendingIs
  <2>4. \A d \in ToSet(c.ins[u]) : Gate(c, d) => below[D][d] = BelowOf(c)[d]
    BY <1>2, Drivers DEF BelowOf
  <2>5. Under(c, u, below[D]) = Under(c, u, BelowOf(c))
    BY <2>4, UnderSame
  <2> QED BY <1>2, <2>2, <2>3, <2>5
<1> QED BY <1>8

LEMMA BelowHas ==
    ASSUME NEW c, Built(c), Flat(c), NEW u \in Vertices(c)
    PROVE  \A x : x \in Below(c, u) <=>
                    \E d \in ToSet(c.ins[u]) : Gate(c, d) /\ (x = d \/ x \in Below(c, d))
<1>1. \A d \in ToSet(c.ins[u]) : BelowOf(c)[d] = Below(c, d)
  BY Drivers DEF BelowOf
<1> QED BY <1>1, BelowIs, UnderHas

(* What is below a vertex is closed.                                       *)
LEMMA BelowClosed ==
    ASSUME NEW c, Built(c), Flat(c)
    PROVE  \A u \in Vertices(c) : Closed(c, Below(c, u))
<1>1. PICK level : level \in Layers(c)
  BY DEF Flat
<1> DEFINE S == {n \in Nat : \A u \in Vertices(c) : Drop(c, level, u) < n => Closed(c, Below(c, u))}
<1>2. \A u \in Vertices(c) : Drop(c, level, u) \in Nat
  BY <1>1, Drops
<1>3. 0 \in S
  BY <1>2
<1>4. ASSUME NEW n \in Nat, n \in S PROVE n + 1 \in S
  <2>1. ASSUME NEW u \in Vertices(c), Drop(c, level, u) < n + 1 PROVE Closed(c, Below(c, u))
    <3>1. ASSUME NEW e \in ToSet(c.ins[u]), Gate(c, e)
          PROVE  e \in Vertices(c) /\ Closed(c, Below(c, e))
      <4>1. e \in Vertices(c) /\ Drop(c, level, e) < Drop(c, level, u)
        BY <1>1, <3>1, Drops, Drivers
      <4>2. Drop(c, level, e) < n
        BY <1>2, <2>1, <4>1
      <4> QED BY <1>4, <4>1, <4>2
    <3>2. ASSUME NEW x \in Below(c, u)
          PROVE  x \in Gates(c) /\ \A d \in ToSet(c.ins[x]) : Gate(c, d) => d \in Below(c, u)
      <4>1. PICK e \in ToSet(c.ins[u]) : Gate(c, e) /\ (x = e \/ x \in Below(c, e))
        BY <3>2, BelowHas
      <4>2. e \in Vertices(c) /\ Closed(c, Below(c, e))
        BY <3>1, <4>1
      <4>3. x \in Gates(c)
        BY <4>1, <4>2 DEF Closed, Gates
      <4>4. ASSUME NEW d \in ToSet(c.ins[x]), Gate(c, d) PROVE d \in Below(c, e)
        <5>1. CASE x = e
          BY <4>2, <4>4, <5>1, BelowHas
        <5>2. CASE x \in Below(c, e)
          BY <4>2, <4>4, <5>2 DEF Closed
        <5> QED BY <4>1, <5>1, <5>2
      <4>5. ASSUME NEW d \in ToSet(c.ins[x]), Gate(c, d) PROVE d \in Below(c, u)
        BY <4>1, <4>4, <4>5, BelowHas
      <4> QED BY <4>3, <4>5
    <3> QED BY <3>2 DEF Closed
  <2> QED BY <2>1
<1> HIDE DEF S
<1>5. \A n \in Nat : n \in S
  BY <1>3, <1>4, Induction
<1>6. ASSUME NEW u \in Vertices(c) PROVE Closed(c, Below(c, u))
  <2>1. Drop(c, level, u) + 1 \in S /\ Drop(c, level, u) < Drop(c, level, u) + 1
    BY <1>2, <1>5
  <2> QED BY <2>1 DEF S
<1> QED BY <1>6

\* The gates that feed cells, and those nothing of which does.
Feeding(c) == UNION {Below(c, f) : f \in Of(c, "seq")}

Aside(c) == {g \in Gates(c) : g \notin Feeding(c) /\ Below(c, g) \cap Feeding(c) = {}}

LEMMA FeedingFacts ==
    ASSUME NEW c, Built(c), Flat(c)
    PROVE  /\ Closed(c, Feeding(c))
           /\ \A f \in Of(c, "seq") : \A d \in ToSet(c.ins[f]) : Gate(c, d) => d \in Feeding(c)
<1>1. \A f \in Of(c, "seq") : f \in Vertices(c) /\ Closed(c, Below(c, f))
  BY BelowClosed DEF Of
<1>2. Closed(c, Feeding(c))
  BY <1>1 DEF Closed, Feeding
<1>3. ASSUME NEW f \in Of(c, "seq"), NEW d \in ToSet(c.ins[f]), Gate(c, d) PROVE d \in Feeding(c)
  <2>1. d \in Below(c, f)
    BY <1>1, <1>3, BelowHas
  <2> QED BY <2>1 DEF Feeding
<1> QED BY <1>2, <1>3

LEMMA AsideFacts ==
    ASSUME NEW c, Built(c), Flat(c)
    PROVE  /\ Closed(c, Aside(c))
           /\ Aside(c) \cap Feeding(c) = {}
           /\ \A v \in Vertices(c) : Below(c, v) \cap Feeding(c) = {} =>
                \A d \in ToSet(c.ins[v]) : Gate(c, d) => d \in Aside(c)
<1>1. ASSUME NEW v \in Vertices(c), Below(c, v) \cap Feeding(c) = {},
             NEW d \in ToSet(c.ins[v]), Gate(c, d)
      PROVE  d \in Aside(c)
  <2>1. d \in Vertices(c) /\ d \in Gates(c)
    BY <1>1, Drivers DEF Gates
  <2>2. d \in Below(c, v)
    BY <1>1, BelowHas
  <2>3. \A x \in Below(c, d) : x \in Below(c, v)
    BY <1>1, BelowHas
  <2> QED BY <1>1, <2>1, <2>2, <2>3 DEF Aside
<1>2. ASSUME NEW v \in Aside(c) PROVE v \in Gates(c) /\ \A d \in ToSet(c.ins[v]) : Gate(c, d) => d \in Aside(c)
  <2>1. v \in Vertices(c) /\ v \in Gates(c) /\ Below(c, v) \cap Feeding(c) = {}
    BY DEF Aside, Gates
  <2> QED BY <1>1, <2>1
<1>3. Closed(c, Aside(c))
  BY <1>2 DEF Closed
<1>4. Aside(c) \cap Feeding(c) = {}
  BY DEF Aside
<1> QED BY <1>1, <1>3, <1>4

-----------------------------------------------------------------------------
(* Evaluating a gate.                                                      *)

\* Pulling the drivers of v stays within K, and so does giving v a value.
Pulling(c, up, K, v) ==
    /\ K \subseteq Memory(c)
    /\ \A t \in K : \A d \in ToSet(c.ins[v]) : Pull(up, t, d) \in K
    /\ \A t \in K : \A x \in Values : Valued(t, v, x) \in K

LEMMA GateValueIs ==
    ASSUME NEW c, Built(c), Flat(c), NEW up, NEW s, NEW v, Working(c, v), Gate(c, v)
    PROVE  GateValue(c, up, s, v) =
             Through(Merging(c, up, v),
                     Valued(Pull(up, s, c.ins[v][1]), v, Single(c.kind[v], Pull(up, s, c.ins[v][1]).value[c.ins[v][1]])),
                     Tail(c.ins[v]))
<1>1. c.ins[v][1] \in ToSet(c.ins[v]) /\ v \in Vertices(c)
  BY Drivers DEF Working
<1>2. c.kind[c.ins[v][1]] # "sub"
  BY <1>1, GateOrLeaf
<1> QED BY <1>2 DEF GateValue, Valued

LEMMA MergedIs ==
    ASSUME NEW c, NEW up, NEW v, NEW s \in Memory(c), NEW d \in Vertices(c)
    PROVE  Merging(c, up, v)[<<s, d>>] =
             Valued(Pull(up, s, d), v, Table(c.kind[v], Pull(up, s, d).value[v], Pull(up, s, d).value[d]))
<1>1. <<s, d>> \in Calls(c) /\ <<s, d>>[1] = s /\ <<s, d>>[2] = d
  BY OnCall
<1> DEFINE call == <<s, d>>
<1>2. Merging(c, up, v)[call] = Merged(c, up, v, call[1], call[2])
  <2> HIDE DEF call
  <2>1. call \in Calls(c)
    BY <1>1 DEF call
  <2> QED BY <2>1 DEF Merging
<1>3. Merged(c, up, v, s, d) =
        Valued(Pull(up, s, d), v, Table(c.kind[v], Pull(up, s, d).value[v], Pull(up, s, d).value[d]))
  BY DEF Merged, Valued
<1> QED BY <1>1, <1>2, <1>3

LEMMA GateWithin ==
    ASSUME NEW c, Built(c), Flat(c), NEW up, NEW K, NEW v, Working(c, v), Gate(c, v),
           Pulling(c, up, K, v), NEW s \in K
    PROVE  GateValue(c, up, s, v) \in K
<1> DEFINE first == c.ins[v][1]
           start == Pull(up, s, first)
           one == Single(c.kind[v], start.value[first])
           rest == Tail(c.ins[v])
<1>1. /\ first \in ToSet(c.ins[v]) /\ rest \in Seq(Vertices(c)) /\ ToSet(rest) \subseteq ToSet(c.ins[v])
      /\ ToSet(c.ins[v]) \subseteq Vertices(c) /\ v \in Vertices(c)
  BY Drivers DEF Working
<1>2. GateValue(c, up, s, v) = Through(Merging(c, up, v), Valued(start, v, one), rest)
  BY GateValueIs
<1> HIDE DEF first, rest
<1>3. start \in K /\ start \in Memory(c)
  BY <1>1 DEF Pulling
<1> HIDE DEF start
<1>4. one \in Values
  <2>1. start.value[first] \in Values
    BY <1>1, <1>3, MemoryFields
  <2> QED BY <2>1, SingleValues
<1> HIDE DEF one
<1>5. Valued(start, v, one) \in K
  BY <1>3, <1>4 DEF Pulling
<1>6. CASE c.kind[v] \in {"Buf", "Not"}
  <2>1. rest = <<>>
    BY <1>1, <1>6, OneDriver DEF Working, rest
  <2> QED BY <1>2, <1>5, <2>1, ThroughNothing
<1>7. CASE c.kind[v] \notin {"Buf", "Not"}
  <2>1. ASSUME NEW t \in K, NEW d \in ToSet(rest) PROVE Merging(c, up, v)[<<t, d>>] \in K
    <3> DEFINE p == Pull(up, t, d)
               x == Table(c.kind[v], p.value[v], p.value[d])
    <3>1. t \in Memory(c) /\ d \in Vertices(c) /\ d \in ToSet(c.ins[v])
      BY <1>1 DEF Pulling
    <3>2. p \in K
      BY <3>1 DEF Pulling
    <3>3. x \in Values
      BY <1>7, TableValues DEF Gate, Values
    <3>4. Merging(c, up, v)[<<t, d>>] = Valued(p, v, x)
      BY <3>1, MergedIs
    <3> HIDE DEF p, x
    <3> QED BY <3>2, <3>3, <3>4 DEF Pulling
  <2>2. Through(Merging(c, up, v), Valued(start, v, one), rest) \in K
    BY <1>1, <1>5, <2>1, TraceStays
  <2> QED BY <1>2, <2>2
<1> QED BY <1>6, <1>7

\* Pulling the drivers of v gives them the values `of' and leaves v alone.
Giving(c, up, K, v, of) ==
    \A t \in K : \A d \in ToSet(c.ins[v]) :
      Pull(up, t, d).value[d] = of[d] /\ Pull(up, t, d).value[v] = t.value[v]

LEMMA GateGives ==
    ASSUME NEW c, Built(c), Flat(c), NEW up, NEW K, NEW v, Working(c, v), Gate(c, v),
           Pulling(c, up, K, v), NEW of \in [Vertices(c) -> Values], Giving(c, up, K, v, of), NEW s \in K
    PROVE  GateValue(c, up, s, v).value[v] = Chained(c, v, of)
<1> DEFINE first == c.ins[v][1]
           start == Pull(up, s, first)
           rest == Tail(c.ins[v])
           chain == [call \in Values \X Vertices(c) |-> Table(c.kind[v], call[1], of[call[2]])]
           one == Single(c.kind[v], of[first])
           tr == Trace(chain, one, rest)
           P == [i \in Int |-> {t \in K : t.value[v] = tr[i] /\ tr[i] \in Values}]
<1>1. /\ first \in ToSet(c.ins[v]) /\ rest \in Seq(Vertices(c)) /\ ToSet(rest) \subseteq ToSet(c.ins[v])
      /\ ToSet(c.ins[v]) \subseteq Vertices(c) /\ v \in Vertices(c)
  BY Drivers DEF Working
<1>2. start \in K /\ start \in Memory(c) /\ start.value[first] = of[first]
  BY <1>1 DEF Pulling, Giving
<1>3. GateValue(c, up, s, v) = Through(Merging(c, up, v), Valued(start, v, one), rest)
  BY <1>2, GateValueIs
<1>4. Chained(c, v, of) = tr[Len(rest)]
  BY DEF Chained, Through
<1>5. one \in Values
  BY <1>1, SingleValues
<1>6. tr[0] = one /\ \A i \in Nat : tr[i + 1] = chain[<<tr[i], rest[i + 1]>>]
  <2> HIDE DEF chain, one, rest
  <2> QED BY TraceFacts
<1> HIDE DEF tr, first, start, one, rest
<1>7. \A i \in Int : P[i] = {t \in K : t.value[v] = tr[i] /\ tr[i] \in Values}
  OBVIOUS
<1> HIDE DEF P
<1>8. Valued(start, v, one) \in P[0]
  <2>1. Valued(start, v, one) \in K /\ Valued(start, v, one).value[v] = one
    BY <1>1, <1>2, <1>5, ValuedFacts DEF Pulling
  <2> QED BY <1>5, <1>6, <1>7, <2>1
<1>9. Len(rest) \in Nat /\ \A i \in 1..Len(rest) : rest[i] \in ToSet(rest)
  BY <1>1 DEF ToSet
<1>10. CASE c.kind[v] \in {"Buf", "Not"}
  <2>1. rest = <<>>
    BY <1>1, <1>10, OneDriver DEF Working, rest
  <2>2. Len(rest) = 0
    BY <2>1
  <2>3. GateValue(c, up, s, v) = Valued(start, v, one)
    BY <1>3, <2>1, ThroughNothing
  <2> QED BY <1>4, <1>7, <1>8, <2>2, <2>3
<1>11. CASE c.kind[v] \notin {"Buf", "Not"}
  <2>1. ASSUME NEW i \in 1..Len(rest), NEW t \in P[i - 1] PROVE Merging(c, up, v)[<<t, rest[i]>>] \in P[i]
    <3> DEFINE d == rest[i]
               p == Pull(up, t, d)
               x == Table(c.kind[v], p.value[v], p.value[d])
    <3>1. i - 1 \in Nat /\ (i - 1) + 1 = i /\ i - 1 \in Int /\ i \in Int
      OBVIOUS
    <3>2. t \in K /\ t.value[v] = tr[i - 1] /\ tr[i - 1] \in Values
      BY <1>7, <2>1, <3>1
    <3>3. d \in ToSet(c.ins[v]) /\ d \in Vertices(c) /\ t \in Memory(c)
      BY <1>1, <1>9, <3>2 DEF Pulling
    <3>4. tr[i] = chain[<<tr[i - 1], d>>]
      BY <1>6, <3>1
    <3> HIDE DEF d
    <3>5. p \in K /\ p \in Memory(c) /\ p.value[d] = of[d] /\ p.value[v] = tr[i - 1]
      BY <3>2, <3>3 DEF Pulling, Giving
    <3>6. Merging(c, up, v)[<<t, d>>] = Valued(p, v, x)
      BY <3>3, MergedIs
    <3>7. x \in Values
      BY <1>11, TableValues DEF Gate, Values
    <3>8. chain[<<tr[i - 1], d>>] = x
      <4> DEFINE call == <<tr[i - 1], d>>
      <4>1. call \in Values \X Vertices(c) /\ call[1] = tr[i - 1] /\ call[2] = d
        BY <3>2, <3>3
      <4> HIDE DEF call
      <4>2. chain[call] = Table(c.kind[v], call[1], of[call[2]])
        BY <4>1
      <4> HIDE DEF chain
      <4> QED BY <3>5, <4>1, <4>2 DEF call
    <3> HIDE DEF p, x, chain
    <3>9. Valued(p, v, x) \in K /\ Valued(p, v, x).value[v] = x
      BY <1>1, <3>5, <3>7, ValuedFacts DEF Pulling
    <3>10. Valued(p, v, x) \in P[i]
      BY <1>7, <3>1, <3>4, <3>7, <3>8, <3>9
    <3> QED BY <3>6, <3>10 DEF d
  <2>2. Through(Merging(c, up, v), Valued(start, v, one), rest) \in P[Len(rest)]
    BY <1>8, <1>9, <2>1, TraceKeeps
  <2> QED BY <1>3, <1>4, <1>7, <1>9, <2>2
<1> QED BY <1>10, <1>11

\* Every cell has a value.
Steady(c, s) == \A f \in Of(c, "seq") : s.value[f] # Undefined

\* The memories that differ from s at most in the values of A.
Kept(c, A, s) ==
    {t \in Like(c, s) : /\ t.prevClk = s.prevClk /\ t.staged = s.staged /\ t.active = s.active
                        /\ \A w \in Vertices(c) : w \notin A => t.value[w] = s.value[w]}

LEMMA KeptFacts ==
    ASSUME NEW c, NEW A, NEW s \in Memory(c)
    PROVE  /\ s \in Kept(c, A, s)
           /\ \A t \in Kept(c, A, s) : t \in Memory(c) /\ t \in Like(c, s)
           /\ \A t \in Kept(c, A, s) : \A u : u \in Kept(c, A, t) => u \in Kept(c, A, s)
           /\ \A t \in Kept(c, A, s), x \in Values, v \in Vertices(c) : v \in A => Valued(t, v, x) \in Kept(c, A, s)
           /\ A \subseteq Gates(c) /\ Steady(c, s) => \A t \in Kept(c, A, s) : Steady(c, t)
<1>1. s \in Kept(c, A, s)
  BY LikeSelf DEF Kept
<1>2. \A t \in Kept(c, A, s) : t \in Memory(c) /\ t \in Like(c, s)
  BY DEF Kept, Like
<1>3. ASSUME NEW t \in Kept(c, A, s), NEW u \in Kept(c, A, t) PROVE u \in Kept(c, A, s)
  <2>1. t \in Like(c, s) /\ u \in Like(c, t)
    BY <1>2, <1>3 DEF Kept
  <2>2. u \in Like(c, s)
    BY <2>1, LikeLike
  <2> QED BY <2>2 DEF Kept
<1>4. ASSUME NEW t \in Kept(c, A, s), NEW x \in Values, NEW v \in Vertices(c), v \in A
      PROVE  Valued(t, v, x) \in Kept(c, A, s)
  <2>1. t \in Memory(c) /\ t \in Like(c, s)
    BY <1>2
  <2> DEFINE u == Valued(t, v, x)
  <2>2. /\ u \in Like(c, t)
        /\ \A w \in Vertices(c) \ {v} : u.value[w] = t.value[w]
        /\ u.prevClk = t.prevClk /\ u.staged = t.staged /\ u.active = t.active
    BY <2>1, ValuedFacts
  <2> HIDE DEF u
  <2>3. u \in Like(c, s)
    BY <2>1, <2>2, LikeLike
  <2>4. u \in Kept(c, A, s)
    BY <1>4, <2>2, <2>3 DEF Kept
  <2> QED BY <2>4 DEF u
<1>5. ASSUME A \subseteq Gates(c), Steady(c, s), NEW t \in Kept(c, A, s) PROVE Steady(c, t)
  <2>1. \A f \in Of(c, "seq") : f \in Vertices(c) /\ f \notin A
    BY <1>5, KindsApart DEF Gates, Of
  <2> QED BY <1>5, <2>1 DEF Kept, Steady
<1> QED BY <1>1, <1>2, <1>3, <1>4, <1>5

\* Evaluating a gate of a closed set changes gates of that set only.
Framed(c, up) ==
    \A A : Closed(c, A) => \A s \in Memory(c) : Steady(c, s) => \A v \in A : up[<<s, v>>] \in Kept(c, A, s)

\* Inputs and constants stay as they are.
Idle(c, up) == \A s \in Memory(c), v \in Vertices(c) : Primary(c, v) => up[<<s, v>>] = s

LEMMA UpdateIdle ==
    ASSUME NEW c, NEW up, Updating(c, up)
    PROVE  \A n \in Nat : Idle(c, up[n])
<1>1. ASSUME NEW s \in Memory(c), NEW v \in Vertices(c), Primary(c, v), NEW n \in Nat
      PROVE  up[n][<<s, v>>] = s
  <2>1. CASE n = 0
    <3>1. <<s, v>> \in Calls(c) /\ <<s, v>>[1] = s
      BY OnCall
    <3> QED BY <2>1, <3>1 DEF Updating
  <2>2. CASE n # 0
    <3>0. n - 1 \in Nat /\ (n - 1) + 1 = n
      BY <2>2
    <3>1. PICK m \in Nat : m + 1 = n
      BY <3>0
    <3>2. up[m + 1][<<s, v>>] = UpdateOnce(c, up[m], s, v)
      BY UpdatingIs
    <3>3. UpdateOnce(c, up[m], s, v) = s
      BY <1>1 DEF UpdateOnce, Primary, Gate, GateTypes
    <3> QED BY <3>1, <3>2, <3>3
  <2> QED BY <2>1, <2>2
<1> QED BY <1>1 DEF Idle

LEMMA PullKept ==
    ASSUME NEW c, Built(c), NEW up, Framed(c, up), Idle(c, up), NEW A, Closed(c, A),
           NEW s \in Memory(c), Steady(c, s), NEW d \in Vertices(c), Gate(c, d) \/ Leaf(c, d), Gate(c, d) => d \in A
    PROVE  Pull(up, s, d) \in Kept(c, A, s) /\ (Leaf(c, d) => Pull(up, s, d) = s)
<1>1. s \in Kept(c, A, s)
  BY KeptFacts
<1>2. CASE Gate(c, d)
  <2>1. up[<<s, d>>] \in Kept(c, A, s)
    BY <1>2 DEF Framed
  <2> QED BY <1>1, <1>2, <2>1, KindsApart DEF Pull
<1>3. CASE Leaf(c, d)
  <2>1. CASE Primary(c, d)
    <3>1. up[<<s, d>>] = s
      BY <2>1 DEF Idle
    <3> QED BY <1>1, <3>1 DEF Pull
  <2>2. CASE c.kind[d] = "seq"
    <3>1. s.value[d] # Undefined
      BY <2>2 DEF Steady, Of
    <3> QED BY <1>1, <3>1 DEF Pull
  <2> QED BY <1>3, <2>1, <2>2 DEF Leaf
<1> QED BY <1>2, <1>3

LEMMA WithinKept ==
    ASSUME NEW c, NEW A, NEW s \in Memory(c), NEW v \in Vertices(c), v \in A, NEW t \in Kept(c, A, Inner(s, v))
    PROVE  Within(t, s.active) \in Kept(c, A, s)
<1> DEFINE in == Inner(s, v)
           u == Within(t, s.active)
<1>1. /\ in \in Like(c, s) /\ in \in Memory(c)
      /\ \A w \in Vertices(c) \ {v} : in.value[w] = s.value[w]
      /\ in.prevClk = s.prevClk /\ in.staged = s.staged
  BY InnerFacts
<1> HIDE DEF in
<1>2. t \in Like(c, in) /\ t \in Memory(c) /\ t.prevClk = in.prevClk /\ t.staged = in.staged
  BY <1>1 DEF Kept, Like, in
<1>3. \A w \in Vertices(c) : w \notin A => t.value[w] = in.value[w]
  BY DEF Kept, in
<1>4. s.active \in SUBSET Vertices(c)
  BY MemoryFields
<1>5. /\ u \in Like(c, t) /\ u.active = s.active /\ u.value = t.value
      /\ u.prevClk = t.prevClk /\ u.staged = t.staged
  BY <1>2, <1>4, WithinFacts
<1> HIDE DEF u
<1>6. u \in Like(c, s)
  <2>1. t \in Like(c, s)
    BY <1>1, <1>2, LikeLike
  <2> QED BY <1>5, <2>1, LikeLike
<1>7. u \in Kept(c, A, s)
  BY <1>1, <1>2, <1>3, <1>5, <1>6 DEF Kept
<1> QED BY <1>7 DEF u

LEMMA InnerSteady ==
    ASSUME NEW c, NEW s \in Memory(c), Steady(c, s), NEW v \in Vertices(c), Gate(c, v) \/ c.kind[v] = "output"
    PROVE  Steady(c, Inner(s, v))
<1>1. \A f \in Of(c, "seq") : f \in Vertices(c) \ {v}
  BY KindsApart DEF Of
<1> QED BY <1>1, InnerFacts DEF Steady

LEMMA GuardedKept ==
    ASSUME NEW c, Built(c), Flat(c), NEW up, Framed(c, up), Idle(c, up), NEW A, Closed(c, A),
           NEW s \in Memory(c), Steady(c, s), NEW v \in A
    PROVE  Guarded(c, up, s, v) \in Kept(c, A, s)
<1>1. v \in Vertices(c) /\ Gate(c, v)
  BY DEF Closed, Gates
<1> DEFINE in == Inner(s, v)
           out == GateValue(c, up, in, v)
           K == Kept(c, A, in)
<1>2. Guarded(c, up, s, v) = IF v \in s.active \/ c.ins[v] = <<>> THEN Valued(s, v, Unknown)
                             ELSE Within(out, s.active)
  BY <1>1, GuardedIs
<1>3. Valued(s, v, Unknown) \in Kept(c, A, s)
  BY <1>1, KeptFacts DEF Values, Unknown
<1>4. ASSUME c.ins[v] # <<>> PROVE Within(out, s.active) \in Kept(c, A, s)
  <2>1. in \in Memory(c) /\ Steady(c, in)
    BY <1>1, InnerFacts, InnerSteady
  <2> HIDE DEF in
  <2>2. Pulling(c, up, K, v)
    <3>1. K \subseteq Memory(c)
      BY <2>1, KeptFacts
    <3>2. ASSUME NEW t \in K, NEW d \in ToSet(c.ins[v]) PROVE Pull(up, t, d) \in K
      <4>1. t \in Memory(c) /\ Steady(c, t)
        BY <2>1, KeptFacts DEF Closed
      <4>2. d \in Vertices(c) /\ (Gate(c, d) \/ Leaf(c, d))
        BY <1>1, <3>2, GateOrLeaf
      <4>3. Gate(c, d) => d \in A
        BY <3>2 DEF Closed
      <4>4. Pull(up, t, d) \in Kept(c, A, t)
        BY <4>1, <4>2, <4>3, PullKept
      <4> QED BY <2>1, <4>4, KeptFacts
    <3>3. \A t \in K : \A x \in Values : Valued(t, v, x) \in K
      BY <1>1, <2>1, KeptFacts
    <3> QED BY <3>1, <3>2, <3>3 DEF Pulling
  <2>3. in \in K /\ Working(c, v)
    BY <1>1, <1>4, <2>1, KeptFacts DEF Working
  <2> HIDE DEF K
  <2>4. out \in K
    BY <1>1, <2>2, <2>3, GateWithin
  <2> QED BY <1>1, <2>4, WithinKept DEF K, in
<1> QED BY <1>2, <1>3, <1>4

LEMMA UpdateGate ==
    ASSUME NEW c, NEW up, Updating(c, up), NEW n \in Nat, NEW s \in Memory(c), NEW v \in Vertices(c),
           Gate(c, v) \/ c.kind[v] = "output"
    PROVE  up[n + 1][<<s, v>>] = Guarded(c, up[n], s, v)
<1>1. UpdateOnce(c, up[n], s, v) = Guarded(c, up[n], s, v)
  BY KindsApart DEF UpdateOnce
<1> QED BY <1>1, UpdatingIs

LEMMA UpdateFramed ==
    ASSUME NEW c, Built(c), Flat(c), NEW up, Updating(c, up)
    PROVE  \A n \in Nat : Framed(c, up[n])
<1> DEFINE S == {n \in Nat : Framed(c, up[n])}
<1>1. 0 \in S
  <2>1. ASSUME NEW A, Closed(c, A), NEW s \in Memory(c), Steady(c, s), NEW v \in A
        PROVE  up[0][<<s, v>>] \in Kept(c, A, s)
    <3>1. v \in Vertices(c)
      BY <2>1 DEF Closed, Gates
    <3>2. <<s, v>> \in Calls(c) /\ <<s, v>>[1] = s
      BY <3>1, OnCall
    <3>3. up[0][<<s, v>>] = s
      BY <3>2 DEF Updating
    <3> QED BY <3>3, KeptFacts
  <2> QED BY <2>1 DEF Framed
<1>2. ASSUME NEW n \in Nat, n \in S PROVE n + 1 \in S
  <2>1. Framed(c, up[n]) /\ Idle(c, up[n])
    BY <1>2, UpdateIdle
  <2>2. ASSUME NEW A, Closed(c, A), NEW s \in Memory(c), Steady(c, s), NEW v \in A
        PROVE  up[n + 1][<<s, v>>] \in Kept(c, A, s)
    <3>1. v \in Vertices(c) /\ Gate(c, v)
      BY <2>2 DEF Closed, Gates
    <3>2. up[n + 1][<<s, v>>] = Guarded(c, up[n], s, v)
      BY <3>1, UpdateGate
    <3> QED BY <2>1, <2>2, <3>2, GuardedKept
  <2>3. Framed(c, up[n + 1])
    BY <2>2 DEF Framed
  <2> QED BY <2>3
<1> HIDE DEF S
<1>3. \A n \in Nat : n \in S
  BY <1>1, <1>2, Induction
<1> QED BY <1>3 DEF S

\* The leaves have the values E, the gates of A none or what E makes of them,
\* unless they are being evaluated.
Clean(c, A, E, s) ==
    /\ s \in Memory(c)
    /\ Steady(c, s)
    /\ SameLeaves(c, s.value, E)
    /\ \A g \in A : g \in s.active \/ s.value[g] \in {Undefined, Cone(c, E, g)}

\* Only gates above v are being evaluated.
Higher(c, level, s, v) == \A u \in s.active : Gate(c, u) => level[v] < level[u]

CleanTo(c, A, E, s, v, t) ==
    /\ t \in Kept(c, Gates(c), s)
    /\ Clean(c, A, E, t)
    /\ (\A d \in ToSet(c.ins[v]) : Gate(c, d) => d \in A) => t.value[v] = Cone(c, E, v)

\* Evaluating a gate of a lower layer than n leaves the gates of A clean.
Cleaning(c, level, n, up) ==
    \A A : Closed(c, A) => \A E \in Assignments(c) : \A s : Clean(c, A, E, s) =>
      \A v \in Gates(c) : level[v] < n /\ Higher(c, level, s, v) => CleanTo(c, A, E, s, v, up[<<s, v>>])

LEMMA AllClosed ==
    ASSUME NEW c, Built(c)
    PROVE  Closed(c, Gates(c))
BY Drivers DEF Closed, Gates

LEMMA LowerClosed ==
    ASSUME NEW c, Built(c), NEW level \in Layers(c), NEW v \in Gates(c)
    PROVE  LET low == {g \in Gates(c) : level[g] < level[v]}
           IN  /\ Closed(c, low)
               /\ v \notin low
               /\ \A d \in ToSet(c.ins[v]) : Gate(c, d) => d \in low
<1> DEFINE low == {g \in Gates(c) : level[g] < level[v]}
<1>1. \A g \in Gates(c) : level[g] \in Nat
  BY DepthNat DEF Layers
<1>2. \A g \in Gates(c) : \A d \in ToSet(c.ins[g]) : Gate(c, d) => d \in Gates(c) /\ level[d] < level[g]
  BY Drivers DEF Layers, Gates
<1>3. Closed(c, low)
  <2>1. ASSUME NEW g \in low, NEW d \in ToSet(c.ins[g]), Gate(c, d) PROVE d \in low
    <3>1. g \in Gates(c) /\ d \in Gates(c) /\ level[d] < level[g] /\ level[g] < level[v]
      BY <1>2, <2>1
    <3>2. level[d] < level[v]
      BY <1>1, <3>1
    <3> QED BY <3>1, <3>2
  <2> QED BY <2>1 DEF Closed
<1>4. v \notin low
  BY <1>1
<1> QED BY <1>2, <1>3, <1>4

(* Memories that agree except on gates.                                    *)
LEMMA KeptClean ==
    ASSUME NEW c, Built(c), NEW A, Closed(c, A), NEW E, NEW s, Clean(c, A, E, s),
           NEW t \in Kept(c, Gates(c), s),
           \A g \in A : g \in t.active \/ t.value[g] \in {Undefined, Cone(c, E, g)}
    PROVE  Clean(c, A, E, t)
<1>1. s \in Memory(c)
  BY DEF Clean
<1>2. t \in Memory(c) /\ Steady(c, t)
  <2>1. Gates(c) \subseteq Gates(c) /\ Steady(c, s)
    BY DEF Clean
  <2> QED BY <1>1, <2>1, KeptFacts
<1>3. SameLeaves(c, t.value, E)
  <2>1. \A w \in Vertices(c) : Leaf(c, w) => w \notin Gates(c)
    BY KindsApart DEF Gates
  <2> QED BY <2>1 DEF Clean, SameLeaves, Kept
<1> QED BY <1>2, <1>3 DEF Clean

LEMMA PullClean ==
    ASSUME NEW c, Built(c), Flat(c), NEW level \in Layers(c), NEW n, NEW up,
           Framed(c, up), Idle(c, up), Cleaning(c, level, n, up),
           NEW A, Closed(c, A), NEW E \in Assignments(c), NEW s, Clean(c, A, E, s),
           NEW d \in Vertices(c), Gate(c, d) \/ Leaf(c, d),
           Gate(c, d) => level[d] < n /\ Higher(c, level, s, d)
    PROVE  /\ Pull(up, s, d) \in Kept(c, Gates(c), s)
           /\ Clean(c, A, E, Pull(up, s, d))
           /\ Leaf(c, d) \/ d \in A => Pull(up, s, d).value[d] = Cone(c, E, d)
<1>1. s \in Memory(c) /\ Steady(c, s)
  BY DEF Clean
<1>2. Cone(c, E, d) = Worth(c, E, d, ConeOf(c, E))
  BY ConeIs
<1>3. CASE Leaf(c, d)
  <2>1. ~Gate(c, d)
    BY <1>3, KindsApart
  <2>2. Pull(up, s, d) = s
    BY <1>1, <1>3, <2>1, AllClosed, PullKept
  <2>3. s.value[d] = Cone(c, E, d)
    BY <1>2, <1>3 DEF Clean, SameLeaves, Worth
  <2> QED BY <1>1, <2>2, <2>3, KeptFacts
<1>4. CASE Gate(c, d)
  <2>1. d \in Gates(c) /\ level[d] < n /\ Higher(c, level, s, d)
    BY <1>4 DEF Gates
  <2>2. CASE s.value[d] = Undefined
    <3>1. Pull(up, s, d) = up[<<s, d>>]
      BY <2>2 DEF Pull
    <3>2. CleanTo(c, A, E, s, d, up[<<s, d>>])
      BY <2>1 DEF Cleaning
    <3>3. d \in A => \A e \in ToSet(c.ins[d]) : Gate(c, e) => e \in A
      BY DEF Closed
    <3>4. ~Leaf(c, d)
      BY <1>4, KindsApart
    <3> QED BY <3>1, <3>2, <3>3, <3>4 DEF CleanTo
  <2>3. CASE s.value[d] # Undefined
    <3>1. Pull(up, s, d) = s
      BY <2>3 DEF Pull
    <3>2. d \notin s.active
      <4>1. level[d] \in Nat
        BY <2>1, DepthNat DEF Layers
      <4>2. ~(level[d] < level[d])
        BY <4>1
      <4> QED BY <1>4, <2>1, <4>2 DEF Higher
    <3>3. d \in A => s.value[d] = Cone(c, E, d)
      BY <2>3, <3>2 DEF Clean
    <3>4. ~Leaf(c, d)
      BY <1>4, KindsApart
    <3> QED BY <1>1, <3>1, <3>3, <3>4, KeptFacts
  <2> QED BY <2>2, <2>3
<1> QED BY <1>3, <1>4

LEMMA GuardedClean ==
    ASSUME NEW c, Built(c), Flat(c), NEW level \in Layers(c), NEW n \in Nat, NEW up,
           Framed(c, up), Idle(c, up), Cleaning(c, level, n, up),
           NEW A, Closed(c, A), NEW E \in Assignments(c), NEW s, Clean(c, A, E, s),
           NEW v \in Gates(c), level[v] < n + 1, Higher(c, level, s, v)
    PROVE  CleanTo(c, A, E, s, v, Guarded(c, up, s, v))
<1>0. v \in Vertices(c) /\ Gate(c, v) /\ ~Leaf(c, v) /\ c.kind[v] # "output"
  BY KindsApart DEF Gates
<1>1. s \in Memory(c) /\ Steady(c, s)
  BY DEF Clean
<1> DEFINE in == Inner(s, v)
           out == GateValue(c, up, in, v)
           K == {t \in Kept(c, Gates(c), in) : Clean(c, A, E, t)}
           low == {g \in Gates(c) : level[g] < level[v]}
           res == Guarded(c, up, s, v)
           of == ConeOf(c, E)
<1>2. \A g \in Gates(c) : level[g] \in Nat
  BY DepthNat DEF Layers
<1>3. v \notin s.active
  <2>1. ~(level[v] < level[v])
    BY <1>2
  <2> QED BY <1>0, <2>1 DEF Higher
<1>4. res = IF c.ins[v] = <<>> THEN Valued(s, v, Unknown) ELSE Within(out, s.active)
  BY <1>0, <1>1, <1>3, GuardedIs
<1>5. res \in Kept(c, Gates(c), s)
  BY <1>1, AllClosed, GuardedKept
<1>6. Cone(c, E, v) = IF c.ins[v] = <<>> THEN Unknown ELSE Chained(c, v, of)
  <2>1. Cone(c, E, v) = Worth(c, E, v, of)
    BY <1>0, ConeIs
  <2> QED BY <1>0, <2>1 DEF Worth
<1>7. /\ Closed(c, low) /\ v \notin low
      /\ \A d \in ToSet(c.ins[v]) : Gate(c, d) => d \in low
  BY LowerClosed
<1>8. CASE c.ins[v] = <<>>
  <2>1. res = Valued(s, v, Unknown)
    BY <1>4, <1>8
  <2>2. res.value[v] = Unknown /\ (\A w \in Vertices(c) \ {v} : res.value[w] = s.value[w]) /\ res.active = s.active
    BY <1>0, <1>1, <2>1, ValuedFacts DEF Values, Unknown
  <2> HIDE DEF res
  <2>3. \A g \in A : g \in res.active \/ res.value[g] \in {Undefined, Cone(c, E, g)}
    <3>1. \A g \in A : g \in Vertices(c)
      BY DEF Closed, Gates
    <3> QED BY <1>6, <1>8, <2>2, <3>1 DEF Clean
  <2>4. Clean(c, A, E, res)
    BY <1>5, <2>3, KeptClean
  <2> QED BY <1>5, <1>6, <1>8, <2>2, <2>4 DEF CleanTo, res
<1>9. CASE c.ins[v] # <<>>
  <2>1. res = Within(out, s.active)
    BY <1>4, <1>9
  <2>2. /\ in \in Memory(c) /\ in.active = s.active \cup {v}
        /\ \A w \in Vertices(c) \ {v} : in.value[w] = s.value[w]
    BY <1>0, <1>1, InnerFacts
  <2>3. Clean(c, A, E, in)
    <3>1. Steady(c, in)
      BY <1>0, <1>1, InnerSteady
    <3>2. SameLeaves(c, in.value, E)
      <4>1. \A w \in Vertices(c) : Leaf(c, w) => w # v
        BY <1>0
      <4> HIDE DEF in
      <4> QED BY <2>2, <4>1 DEF Clean, SameLeaves
    <3>3. \A g \in A : g \in in.active \/ in.value[g] \in {Undefined, Cone(c, E, g)}
      <4>1. \A g \in A : g \in Vertices(c)
        BY DEF Closed, Gates
      <4> HIDE DEF in
      <4> QED BY <2>2, <4>1 DEF Clean
    <3> QED BY <2>2, <3>1, <3>2, <3>3 DEF Clean
  <2> HIDE DEF in
  <2>4. ASSUME NEW t \in K, NEW d \in ToSet(c.ins[v])
        PROVE  /\ Pull(up, t, d) \in K
               /\ Pull(up, t, d).value[v] = t.value[v]
               /\ Leaf(c, d) \/ d \in A => Pull(up, t, d).value[d] = of[d]
    <3>1. /\ Clean(c, A, E, t) /\ t \in Kept(c, Gates(c), in)
          /\ t \in Memory(c) /\ Steady(c, t) /\ t.active = s.active \cup {v}
      BY <2>2, <2>4 DEF Clean, Kept
    <3>2. d \in Vertices(c) /\ (Gate(c, d) \/ Leaf(c, d))
      BY <1>0, <2>4, GateOrLeaf
    <3>3. ASSUME Gate(c, d) PROVE level[d] < n /\ Higher(c, level, t, d)
      <4>1. d \in Gates(c) /\ level[d] < level[v] /\ level[d] \in Nat /\ level[v] \in Nat
        BY <1>2, <1>7, <2>4, <3>3
      <4>2. level[d] < n
        BY <4>1
      <4>3. \A u \in s.active : Gate(c, u) => u \in Gates(c) /\ level[v] < level[u]
        BY <1>1, MemoryFields DEF Higher, Gates
      <4>4. ASSUME NEW u \in t.active, Gate(c, u) PROVE level[d] < level[u]
        <5>1. CASE u = v
          BY <4>1, <5>1
        <5>2. CASE u \in s.active
          <6>1. u \in Gates(c) /\ level[v] < level[u] /\ level[u] \in Nat
            BY <1>2, <4>3, <4>4, <5>2
          <6> QED BY <4>1, <6>1
        <5> QED BY <3>1, <4>4, <5>1, <5>2
      <4> QED BY <4>2, <4>4 DEF Higher
    <3>4. /\ Pull(up, t, d) \in Kept(c, Gates(c), t)
          /\ Clean(c, A, E, Pull(up, t, d))
          /\ Leaf(c, d) \/ d \in A => Pull(up, t, d).value[d] = Cone(c, E, d)
      BY <3>1, <3>2, <3>3, PullClean
    <3>5. Pull(up, t, d) \in Kept(c, Gates(c), in)
      BY <2>2, <3>1, <3>4, KeptFacts
    <3>6. Pull(up, t, d) \in Kept(c, low, t)
      <4>1. Gate(c, d) => d \in low
        BY <1>7, <2>4
      <4> HIDE DEF low
      <4> QED BY <1>7, <3>1, <3>2, <4>1, PullKept
    <3>7. Pull(up, t, d).value[v] = t.value[v]
      BY <1>0, <1>7, <3>6 DEF Kept
    <3>8. of[d] = Cone(c, E, d)
      BY <3>2 DEF ConeOf
    <3> QED BY <3>4, <3>5, <3>7, <3>8
  <2>5. Pulling(c, up, K, v)
    <3>1. K \subseteq Memory(c)
      BY DEF Clean
    <3>2. ASSUME NEW t \in K, NEW x \in Values PROVE Valued(t, v, x) \in K
      <4> DEFINE u == Valued(t, v, x)
      <4>1. t \in Memory(c) /\ Clean(c, A, E, t) /\ t \in Kept(c, Gates(c), in) /\ t.active = s.active \cup {v}
        BY <2>2, <3>2 DEF Clean, Kept
      <4>2. u.active = t.active /\ \A w \in Vertices(c) \ {v} : u.value[w] = t.value[w]
        BY <1>0, <4>1, ValuedFacts
      <4>3. u \in Kept(c, Gates(c), in) /\ u \in Kept(c, Gates(c), t)
        <5>1. t \in Kept(c, Gates(c), t)
          BY <4>1, KeptFacts
        <5> QED BY <1>0, <2>2, <4>1, <5>1, KeptFacts
      <4> HIDE DEF u
      <4>4. \A g \in A : g \in u.active \/ u.value[g] \in {Undefined, Cone(c, E, g)}
        <5>1. \A g \in A : g \in Vertices(c)
          BY DEF Closed, Gates
        <5> QED BY <4>1, <4>2, <5>1 DEF Clean
      <4>5. Clean(c, A, E, u)
        BY <4>1, <4>3, <4>4, KeptClean
      <4> QED BY <4>3, <4>5 DEF u
    <3> HIDE DEF K
    <3> QED BY <2>4, <3>1, <3>2 DEF Pulling
  <2>6. in \in K /\ Working(c, v)
    BY <1>0, <1>9, <2>2, <2>3, KeptFacts DEF Working
  <2>7. out \in K
    <3> HIDE DEF K
    <3> QED BY <1>0, <2>5, <2>6, GateWithin
  <2>8. (\A d \in ToSet(c.ins[v]) : Gate(c, d) => d \in A) => out.value[v] = Cone(c, E, v)
    <3> SUFFICES ASSUME \A d \in ToSet(c.ins[v]) : Gate(c, d) => d \in A PROVE out.value[v] = Cone(c, E, v)
      OBVIOUS
    <3>1. Giving(c, up, K, v, of)
      <4>1. \A d \in ToSet(c.ins[v]) : Leaf(c, d) \/ d \in A
        BY <1>0, GateOrLeaf
      <4> HIDE DEF K, of
      <4> QED BY <2>4, <4>1 DEF Giving
    <3>2. of \in [Vertices(c) -> Values]
      BY ConeIs
    <3> HIDE DEF K, of
    <3>3. out.value[v] = Chained(c, v, of)
      BY <1>0, <2>5, <2>6, <3>1, <3>2, GateGives
    <3> QED BY <1>6, <1>9, <3>3
  <2>9. out \in Memory(c) /\ Clean(c, A, E, out) /\ out.active = s.active \cup {v}
    BY <2>2, <2>7 DEF Clean, Kept
  <2> HIDE DEF out
  <2>10. res.value = out.value /\ res.active = s.active
    BY <1>1, <2>1, <2>9, WithinFacts, MemoryFields
  <2> HIDE DEF res
  <2>11. \A g \in A : g \in res.active \/ res.value[g] \in {Undefined, Cone(c, E, g)}
    <3>1. v \in A => \A d \in ToSet(c.ins[v]) : Gate(c, d) => d \in A
      BY DEF Closed
    <3> QED BY <2>8, <2>9, <2>10, <3>1 DEF Clean
  <2>12. Clean(c, A, E, res)
    BY <1>5, <2>11, KeptClean
  <2> QED BY <1>5, <2>8, <2>10, <2>12 DEF CleanTo, res
<1> QED BY <1>8, <1>9

LEMMA UpdateClean ==
    ASSUME NEW c, Built(c), Flat(c), NEW level \in Layers(c), NEW up, Updating(c, up)
    PROVE  \A n \in Nat : Cleaning(c, level, n, up[n])
<1> DEFINE S == {n \in Nat : Cleaning(c, level, n, up[n])}
<1>1. 0 \in S
  <2>1. \A g \in Gates(c) : level[g] \in Nat
    BY DepthNat DEF Layers
  <2>2. \A g \in Gates(c) : ~(level[g] < 0)
    BY <2>1
  <2> QED BY <2>2 DEF Cleaning
<1>2. ASSUME NEW n \in Nat, n \in S PROVE n + 1 \in S
  <2>1. Cleaning(c, level, n, up[n]) /\ Framed(c, up[n]) /\ Idle(c, up[n])
    BY <1>2, UpdateIdle, UpdateFramed
  <2>2. ASSUME NEW A, Closed(c, A), NEW E \in Assignments(c), NEW s, Clean(c, A, E, s),
               NEW v \in Gates(c), level[v] < n + 1, Higher(c, level, s, v)
        PROVE  CleanTo(c, A, E, s, v, up[n + 1][<<s, v>>])
    <3>1. v \in Vertices(c) /\ Gate(c, v) /\ s \in Memory(c)
      BY <2>2 DEF Gates, Clean
    <3>2. up[n + 1][<<s, v>>] = Guarded(c, up[n], s, v)
      BY <3>1, UpdateGate
    <3>3. CleanTo(c, A, E, s, v, Guarded(c, up[n], s, v))
      BY <2>1, <2>2, GuardedClean
    <3> QED BY <3>2, <3>3
  <2>3. Cleaning(c, level, n + 1, up[n + 1])
    BY <2>2 DEF Cleaning
  <2> QED BY <2>3
<1> HIDE DEF S
<1>3. \A n \in Nat : n \in S
  BY <1>1, <1>2, Induction
<1> QED BY <1>3 DEF S
-----------------------------------------------------------------------------
(* What a flip-flop stages.                                                *)

\* What a clear or set signal that may be missing asks for.
Say(c, f, name, v) == IF Has(c, f, name) THEN Effect(c, f, name, v) ELSE "none"

\* What forces f, "none" if nothing does.
Forces(c, f, tick, clear, set) ==
    IF (c.cell[f].async \/ tick) /\ clear # "none" THEN clear ELSE IF tick THEN set ELSE "none"

By(c, f, tick, pins) ==
    Forces(c, f, tick, Say(c, f, "clear", pins["clear"]), Say(c, f, "set", pins["set"]))

Ticks(c, f, was, clk) == <<was, clk>> = Edge(c.cell[f])

\* The next value of f, from its value, its last clock level and its signals.
Outcome(c, f, q, was, pins) ==
    LET tick == Ticks(c, f, was, pins["clk"])
        by == By(c, f, tick, pins)
    IN  IF by # "none" THEN by
        ELSE IF ~tick THEN Held(q)
        ELSE IF Has(c, f, "en") /\ pins["en"] # "1" THEN q ELSE Captured(pins["data"])

\* Looking at the signals of f stays within K and finds the values X.
Looking(c, up, K, f, X) ==
    /\ K \subseteq Memory(c)
    /\ \A t \in K, name \in PinNames :
         Has(c, f, name) =>
           /\ Look(c, up, t, f, name) \in K
           /\ Look(c, up, t, f, name).value[Pin(c, f, name)] \in X[name]

Signalled(X) == \A name \in PinNames : X[name] \subseteq Values /\ X[name] # {}

LEMMA LookingIs ==
    ASSUME NEW c, NEW up, NEW K, NEW f, NEW X, Looking(c, up, K, f, X),
           NEW t \in K, NEW name \in PinNames
    PROVE  /\ Look(c, up, t, f, name) \in K
           /\ Has(c, f, name) => Look(c, up, t, f, name).value[Pin(c, f, name)] \in X[name]
           /\ ~Has(c, f, name) => Look(c, up, t, f, name) = t
BY DEF Looking, Look

LEMMA ForcedIs ==
    ASSUME NEW c, NEW up, NEW t, NEW f, NEW name
    PROVE  Forced(c, up, Unforced(t), f, name) =
             [cells |-> Look(c, up, t, f, name),
              by    |-> Say(c, f, name, Look(c, up, t, f, name).value[Pin(c, f, name)])]
BY DEF Forced, Unforced, Say, Look

LEMMA ForcedStays ==
    ASSUME NEW c, NEW up, NEW forced, forced.by # "none", NEW f, NEW name
    PROVE  Forced(c, up, forced, f, name) = forced
BY DEF Forced

\* f stages an outcome of memories in K and signals in X.
Stages(c, K, f, X, u) ==
    \E t \in K, a \in K, b \in K, pins \in [PinNames -> Values] :
      /\ \A name \in PinNames : pins[name] \in X[name]
      /\ u = Staged(t, f, Outcome(c, f, a.value[f], b.prevClk[f], pins), pins["clk"])

\* Signals that are those f has.
Pinned(c, f, pins, d, k, e, ce, g) ==
    /\ pins["data"] = d /\ pins["clk"] = k
    /\ Has(c, f, "en") => pins["en"] = e
    /\ Has(c, f, "clear") => pins["clear"] = ce
    /\ Has(c, f, "set") => pins["set"] = g

LEMMA PinsExist ==
    ASSUME NEW c, NEW f, NEW X, Signalled(X), NEW d \in X["data"], NEW k \in X["clk"],
           NEW e, NEW ce, NEW g,
           Has(c, f, "en") => e \in X["en"],
           Has(c, f, "clear") => ce \in X["clear"],
           Has(c, f, "set") => g \in X["set"]
    PROVE  \E pins \in [PinNames -> Values] :
             (\A name \in PinNames : pins[name] \in X[name]) /\ Pinned(c, f, pins, d, k, e, ce, g)
<1> DEFINE pins == [name \in PinNames |->
                      IF name = "data" THEN d ELSE IF name = "clk" THEN k
                      ELSE IF name = "en" /\ Has(c, f, "en") THEN e
                      ELSE IF name = "clear" /\ Has(c, f, "clear") THEN ce
                      ELSE IF name = "set" /\ Has(c, f, "set") THEN g
                      ELSE CHOOSE v \in X[name] : TRUE]
<1>1. \A name \in PinNames : pins[name] \in X[name] /\ X[name] \subseteq Values
  BY DEF PinNames, Signalled
<1>2. pins \in [PinNames -> Values]
  BY <1>1
<1>3. Pinned(c, f, pins, d, k, e, ce, g)
  BY DEF PinNames, Pinned
<1> HIDE DEF pins
<1> QED
  BY <1>1, <1>2, <1>3

\* What f looks at one after the other: s1 to s5 are the memories after that.
Looks(c, up, s, f, s1, s2, s3, s4, s5) ==
    /\ s1 = Look(c, up, s, f, "data")
    /\ s2 = Look(c, up, s1, f, "clk")
    /\ s3 = Look(c, up, s2, f, "en")
    /\ s4 = Look(c, up, s3, f, "clear")
    /\ s5 = Look(c, up, s4, f, "set")

(* The steps of stageValue of a flip-flop.                                 *)
LEMMA StageSteps ==
    ASSUME NEW c, NEW up, NEW s, NEW f,
           NEW s1, NEW s2, NEW s3, NEW s4, NEW s5, Looks(c, up, s, f, s1, s2, s3, s4, s5),
           NEW b, b = (IF c.cell[f].async THEN s4 ELSE s3),
           NEW clk, clk = Seen(c, s2, f, "clk"),
           NEW tick, tick = Ticks(c, f, b.prevClk[f], clk),
           NEW clear, clear = Say(c, f, "clear", s4.value[Pin(c, f, "clear")]),
           NEW set, set = Say(c, f, "set", s5.value[Pin(c, f, "set")]),
           NEW by, by = Forces(c, f, tick, clear, set),
           NEW data, data = Seen(c, s1, f, "data"),
           NEW en, en = Seen(c, s3, f, "en"),
           NEW q, q = s1.value[f]
    PROVE  \E t \in {s3, s4, s5} :
             StageFF(c, up, s, f) = Staged(t, f, NextFF([cells |-> 0, by |-> by], tick, q, data, en), clk)
<1> USE DEF Looks
<1> DEFINE cl == ClearFF(c, up, s3, f)
           forced == IF cl.by # "none" \/ ~tick THEN cl ELSE EdgeFF(c, up, cl, f)
<1>1. Forced(c, up, Unforced(s3), f, "clear") = [cells |-> s4, by |-> clear]
  BY ForcedIs
<1>2. Forced(c, up, Unforced(s4), f, "set") = [cells |-> s5, by |-> set]
  BY ForcedIs
<1>3. cl = IF c.cell[f].async THEN [cells |-> s4, by |-> clear] ELSE Unforced(s3)
  BY <1>1 DEF ClearFF
<1>4. cl.cells = b
  BY <1>3 DEF Unforced
<1>5. StageFF(c, up, s, f) = Staged(forced.cells, f, NextFF(forced, tick, q, data, en), clk)
  BY <1>4 DEF StageFF, Staged, Ticks
<1>6. \E t \in {s3, s4, s5} : forced = [cells |-> t, by |-> by]
  <2> USE DEF Forces
  <2>1. CASE c.cell[f].async /\ clear # "none"
    BY <2>1, <1>3
  <2>2. CASE c.cell[f].async /\ clear = "none" /\ ~tick
    BY <2>2, <1>3
  <2>3. CASE c.cell[f].async /\ clear = "none" /\ tick
    <3>1. cl = Unforced(s4)
      BY <2>3, <1>3 DEF Unforced
    <3>2. forced = [cells |-> s5, by |-> set]
      BY <2>3, <3>1, <1>2 DEF EdgeFF, Unforced
    <3> QED
      BY <3>2, <2>3
  <2>4. CASE ~c.cell[f].async /\ ~tick
    BY <2>4, <1>3 DEF Unforced
  <2>5. CASE ~c.cell[f].async /\ tick /\ clear # "none"
    <3>1. cl = Unforced(s3)
      BY <2>5, <1>3
    <3>2. EdgeFF(c, up, cl, f) = Forced(c, up, [cells |-> s4, by |-> clear], f, "set")
      BY <2>5, <3>1, <1>1 DEF EdgeFF
    <3>3. Forced(c, up, [cells |-> s4, by |-> clear], f, "set") = [cells |-> s4, by |-> clear]
      BY <2>5 DEF Forced
    <3>4. forced = [cells |-> s4, by |-> clear]
      BY <2>5, <3>1, <3>2, <3>3 DEF Unforced
    <3> QED
      BY <3>4, <2>5
  <2>6. CASE ~c.cell[f].async /\ tick /\ clear = "none"
    <3>1. cl = Unforced(s3)
      BY <2>6, <1>3
    <3>2. EdgeFF(c, up, cl, f) = Forced(c, up, Unforced(s4), f, "set")
      BY <2>6, <3>1, <1>1 DEF EdgeFF, Unforced
    <3>3. forced = [cells |-> s5, by |-> set]
      BY <2>6, <3>1, <3>2, <1>2 DEF Unforced
    <3> QED
      BY <3>3, <2>6
  <2> QED
    BY <2>1, <2>2, <2>3, <2>4, <2>5, <2>6
<1> HIDE DEF forced
<1>7. PICK t \in {s3, s4, s5} : forced = [cells |-> t, by |-> by]
  BY <1>6
<1>8. forced.cells = t /\ forced.by = by
  BY <1>7
<1>9. NextFF(forced, tick, q, data, en) = NextFF([cells |-> 0, by |-> by], tick, q, data, en)
  BY <1>8 DEF NextFF
<1> QED
  BY <1>5, <1>8, <1>9

LEMMA StageWithin ==
    ASSUME NEW c, Built(c), NEW up, NEW K, NEW f \in Of(c, "seq"), c.cell[f].ff,
           NEW X, Signalled(X), Looking(c, up, K, f, X), NEW s \in K
    PROVE  Stages(c, K, f, X, Stage(c, up, s, f))
<1> DEFINE s1 == Look(c, up, s, f, "data")
           s2 == Look(c, up, s1, f, "clk")
           s3 == Look(c, up, s2, f, "en")
           s4 == Look(c, up, s3, f, "clear")
           s5 == Look(c, up, s4, f, "set")
<1>0. Looks(c, up, s, f, s1, s2, s3, s4, s5)
  BY DEF Looks
<1> HIDE DEF s1, s2, s3, s4, s5
<1> DEFINE b == IF c.cell[f].async THEN s4 ELSE s3
           clk == Seen(c, s2, f, "clk")
           tick == Ticks(c, f, b.prevClk[f], clk)
           ce == s4.value[Pin(c, f, "clear")]
           g == s5.value[Pin(c, f, "set")]
           data == Seen(c, s1, f, "data")
           en == Seen(c, s3, f, "en")
           by == Forces(c, f, tick, Say(c, f, "clear", ce), Say(c, f, "set", g))
           q == s1.value[f]
<1>1. PICK t \in {s3, s4, s5} :
        StageFF(c, up, s, f) = Staged(t, f, NextFF([cells |-> 0, by |-> by], tick, q, data, en), clk)
  BY <1>0, StageSteps
<1>2. s1 \in K /\ s2 \in K /\ s3 \in K /\ s4 \in K /\ s5 \in K
  <2>0. "data" \in PinNames /\ "clk" \in PinNames /\ "en" \in PinNames /\ "clear" \in PinNames /\ "set" \in PinNames
    BY DEF PinNames
  <2>1. s1 \in K
    BY <2>0, <1>0, LookingIs DEF Looks
  <2>2. s2 \in K
    BY <2>1, <2>0, <1>0, LookingIs DEF Looks
  <2>3. s3 \in K
    BY <2>2, <2>0, <1>0, LookingIs DEF Looks
  <2>4. s4 \in K
    BY <2>3, <2>0, <1>0, LookingIs DEF Looks
  <2>5. s5 \in K
    BY <2>4, <2>0, <1>0, LookingIs DEF Looks
  <2> QED
    BY <2>1, <2>2, <2>3, <2>4, <2>5
<1>3. data \in X["data"] /\ clk \in X["clk"]
  BY <1>0, <1>2, LookingIs DEF Seen, Looks, Has, PinNames
<1>4. /\ Has(c, f, "en") => en \in X["en"]
      /\ Has(c, f, "clear") => ce \in X["clear"]
      /\ Has(c, f, "set") => g \in X["set"]
  BY <1>0, <1>2, LookingIs DEF Seen, Looks, PinNames
<1>5. ~Has(c, f, "en") => en = "1"
  BY DEF Seen
<1>6. t \in K /\ b \in K /\ s1 \in K
  BY <1>2, <1>1
<1>7. q = s1.value[f] /\ tick = Ticks(c, f, b.prevClk[f], clk)
      /\ by = Forces(c, f, tick, Say(c, f, "clear", ce), Say(c, f, "set", g))
  OBVIOUS
<1> HIDE DEF b, clk, tick, ce, g, data, en, by, q
<1>8. PICK pins \in [PinNames -> Values] :
        (\A name \in PinNames : pins[name] \in X[name]) /\ Pinned(c, f, pins, data, clk, en, ce, g)
  BY <1>3, <1>4, PinsExist
<1>9. Say(c, f, "clear", ce) = Say(c, f, "clear", pins["clear"]) /\ Say(c, f, "set", g) = Say(c, f, "set", pins["set"])
  BY <1>8 DEF Say, Pinned
<1>10. by = By(c, f, tick, pins)
  BY <1>7, <1>9 DEF By
<1>11. tick = Ticks(c, f, b.prevClk[f], pins["clk"]) /\ clk = pins["clk"] /\ data = pins["data"]
  BY <1>7, <1>8 DEF Pinned
<1>12. (Has(c, f, "en") /\ pins["en"] # "1") <=> en # "1"
  BY <1>5, <1>8 DEF Pinned
<1>13. NextFF([cells |-> 0, by |-> by], tick, q, data, en) = Outcome(c, f, q, b.prevClk[f], pins)
  <2>1. NextFF([cells |-> 0, by |-> by], tick, q, data, en) =
          IF by # "none" THEN by ELSE IF ~tick THEN Held(q) ELSE IF en = "1" THEN Captured(data) ELSE q
    BY DEF NextFF
  <2> QED
    BY <2>1, <1>10, <1>11, <1>12 DEF Outcome
<1>14. Stage(c, up, s, f) = Staged(t, f, Outcome(c, f, s1.value[f], b.prevClk[f], pins), pins["clk"])
  BY <1>1, <1>7, <1>11, <1>13 DEF Stage
<1> QED
  BY <1>6, <1>8, <1>14 DEF Stages
-----------------------------------------------------------------------------
(* A flip-flop without an edge.                                            *)
AsyncBy(c, f, v) == IF c.cell[f].async THEN Say(c, f, "clear", v) ELSE "none"

\* The next value of f without an edge, with v at its clear signal.
Rest(c, f, q, v) == IF AsyncBy(c, f, v) # "none" THEN AsyncBy(c, f, v) ELSE Held(q)

LEMMA SayEffects ==
    ASSUME NEW c, NEW f, NEW name, NEW v
    PROVE  Say(c, f, name, v) \in Effects
BY DEF Say, Effect, Effects, Invert, Unknown

LEMMA HeldFacts ==
    ASSUME NEW q \in Values
    PROVE  Held(q) \in Values /\ Held(q) # Undefined /\ Held(Held(q)) = Held(q) /\ (q # Undefined => Held(q) = q)
BY DEF Held, Values, Undefined, Unknown

LEMMA EffectFacts ==
    ASSUME NEW e \in Effects, e # "none"
    PROVE  e \in Values /\ e # Undefined
BY DEF Effects, Values, Undefined

LEMMA NoEdge ==
    ASSUME NEW c, NEW f, NEW was, NEW clk, was \in {clk, Unknown}
    PROVE  ~Ticks(c, f, was, clk)
BY DEF Ticks, Edge, Unknown

LEMMA RestFacts ==
    ASSUME NEW c, NEW f, NEW q \in Values, NEW v
    PROVE  /\ Rest(c, f, q, v) \in Values \ {Undefined}
           /\ Rest(c, f, Rest(c, f, q, v), v) = Rest(c, f, q, v)
<1>1. AsyncBy(c, f, v) \in Effects
  BY SayEffects DEF AsyncBy, Effects
<1>2. CASE AsyncBy(c, f, v) # "none"
  BY <1>1, <1>2, EffectFacts DEF Rest
<1>3. CASE AsyncBy(c, f, v) = "none"
  BY <1>3, HeldFacts DEF Rest
<1> QED
  BY <1>2, <1>3

LEMMA OutcomeRest ==
    ASSUME NEW c, NEW f, NEW q, NEW was, NEW pins, ~Ticks(c, f, was, pins["clk"])
    PROVE  Outcome(c, f, q, was, pins) = Rest(c, f, q, pins["clear"])
<1>1. By(c, f, FALSE, pins) = AsyncBy(c, f, pins["clear"])
  BY DEF By, AsyncBy, Forces
<1>2. By(c, f, Ticks(c, f, was, pins["clk"]), pins) = AsyncBy(c, f, pins["clear"])
  BY <1>1 DEF By, Forces, AsyncBy
<1> QED
  BY <1>2 DEF Outcome, Rest

\* What f staged is what it stages again without an edge.
LEMMA OutcomeStays ==
    ASSUME NEW c, NEW f, NEW q \in Values, NEW was, NEW pins \in [PinNames -> Values],
           q # Undefined \/ ~Ticks(c, f, was, pins["clk"])
    PROVE  /\ Outcome(c, f, q, was, pins) \in Values \ {Undefined}
           /\ Rest(c, f, Outcome(c, f, q, was, pins), pins["clear"]) = Outcome(c, f, q, was, pins)
<1> DEFINE tick == Ticks(c, f, was, pins["clk"])
           by == By(c, f, tick, pins)
           clear == Say(c, f, "clear", pins["clear"])
           set == Say(c, f, "set", pins["set"])
           async == AsyncBy(c, f, pins["clear"])
           next == Outcome(c, f, q, was, pins)
<1>1. CASE ~tick
  <2>1. next = Rest(c, f, q, pins["clear"])
    BY <1>1, OutcomeRest
  <2> HIDE DEF next
  <2> QED
    BY <2>1, RestFacts DEF next
<1>2. CASE tick
  <2>0. q # Undefined
    BY <1>2
  <2>1. clear \in Effects /\ set \in Effects
    BY SayEffects
  <2>2. by = IF clear # "none" THEN clear ELSE set
    BY <1>2 DEF By, Forces
  <2>3. next = IF by # "none" THEN by ELSE IF Has(c, f, "en") /\ pins["en"] # "1" THEN q ELSE Captured(pins["data"])
    BY <1>2 DEF Outcome
  <2>4. async # "none" => async = clear
    BY DEF AsyncBy
  <2>5. pins["data"] \in Values
    BY DEF PinNames
  <2>6. Captured(pins["data"]) \in Values \ {Undefined}
    BY <2>5 DEF Captured, Values, Undefined, Unknown
  <2>7. Rest(c, f, next, pins["clear"]) = IF async # "none" THEN async ELSE Held(next)
    BY DEF Rest
  <2> HIDE DEF next, by, clear, set, async
  <2>8. by \in Effects
    BY <2>1, <2>2
  <2>9. next \in Values \ {Undefined}
    <3>1. CASE by # "none"
      BY <3>1, <2>3, <2>8, EffectFacts
    <3>2. CASE by = "none"
      BY <3>2, <2>0, <2>3, <2>6
    <3> QED
      BY <3>1, <3>2
  <2>10. Held(next) = next
    BY <2>9, HeldFacts
  <2>11. async # "none" => next = async
    BY <2>2, <2>3, <2>4
  <2> QED
    BY <2>7, <2>9, <2>10, <2>11 DEF next
<1> QED
  BY <1>1, <1>2

\* The signals of f when gates and leaves have the values E makes of them.
Signals(c, E, f) == [name \in PinNames |-> IF Has(c, f, name) THEN Cone(c, E, Pin(c, f, name)) ELSE "0"]

LEMMA ConeValues ==
    ASSUME NEW c, Built(c), Flat(c), NEW E \in Assignments(c), NEW v \in Vertices(c)
    PROVE  /\ Cone(c, E, v) \in Values
           /\ Leaf(c, v) => Cone(c, E, v) = E[v]
<1>1. ConeOf(c, E) \in [Vertices(c) -> Values] /\ Cone(c, E, v) = Worth(c, E, v, ConeOf(c, E))
  BY ConeIs
<1>2. Worth(c, E, v, ConeOf(c, E)) \in Values
  <2> HIDE DEF ConeOf
  <2> QED
    BY <1>1, WorthFacts
<1>3. Leaf(c, v) => Worth(c, E, v, ConeOf(c, E)) = E[v]
  BY DEF Worth
<1> QED
  BY <1>1, <1>2, <1>3

LEMMA SignalsFacts ==
    ASSUME NEW c, Built(c), Flat(c), NEW E \in Assignments(c), NEW f \in Of(c, "seq")
    PROVE  /\ Signals(c, E, f) \in [PinNames -> Values]
           /\ \A name \in PinNames : Has(c, f, name) => Signals(c, E, f)[name] = Cone(c, E, Pin(c, f, name))
           /\ \A name \in PinNames : ~Has(c, f, name) => Signals(c, E, f)[name] = "0"
<1>1. \A name \in PinNames : Has(c, f, name) => Cone(c, E, Pin(c, f, name)) \in Values
  BY PinVertex, ConeValues
<1>2. "0" \in Values
  BY DEF Values
<1> QED
  BY <1>1, <1>2 DEF Signals
-----------------------------------------------------------------------------
(* Flip-flops without a value: after simulationRemove.                     *)

\* What f wakes up with, and the clock level it then knows.
Woken(c, E, f) == Rest(c, f, Undefined, Signals(c, E, f)["clear"])
Level(c, E, f) == E[Pin(c, f, "clk")]

\* f has staged q and the clock level k, or has committed them.
Pending(t, f, q, k) ==
    t.staged[f] = <<q, k>> \/ (t.staged[f] = <<>> /\ t.value[f] = q /\ t.prevClk[f] = k)

\* Each cell is as it was forgotten, or awake, and those of R have staged.
Asleep(c, E, R, t) ==
    /\ t \in Memory(c)
    /\ \A w \in Vertices(c) : Primary(c, w) => t.value[w] = E[w]
    /\ \A f \in Of(c, "seq") :
         /\ \/ t.value[f] = Undefined /\ t.prevClk[f] = Unknown
            \/ t.value[f] = Woken(c, E, f) /\ t.prevClk[f] = Level(c, E, f)
         /\ t.staged[f] \in {<<>>, <<Woken(c, E, f), Level(c, E, f)>>}
         /\ f \in R => Pending(t, f, Woken(c, E, f), Level(c, E, f))

\* The memories that differ from s at most in cells and the gates that feed them.
Near(c, s) ==
    {t \in Like(c, s) :
       /\ t.active = s.active
       /\ \A w \in Vertices(c) : w \notin Feeding(c) /\ c.kind[w] # "seq" => t.value[w] = s.value[w]}

Waking(c, E, R, s) == {t \in Near(c, s) : Asleep(c, E, R, t)}

\* Evaluating what feeds the cells wakes them at most.
Wakes(c, up) ==
    \A E \in Assignments(c), R \in SUBSET Of(c, "seq") : \A s : Asleep(c, E, R, s) =>
      \A v \in Vertices(c) : v \in Feeding(c) \/ Leaf(c, v) => up[<<s, v>>] \in Waking(c, E, R, s)

LEMMA WakingSelf ==
    ASSUME NEW c, NEW E, NEW R, NEW s, Asleep(c, E, R, s)
    PROVE  s \in Waking(c, E, R, s) /\ s \in Memory(c)
BY LikeSelf DEF Waking, Near, Asleep

LEMMA WakingOn ==
    ASSUME NEW c, NEW E, NEW R, NEW s, NEW t \in Waking(c, E, R, s), NEW u \in Waking(c, E, R, t)
    PROVE  u \in Waking(c, E, R, s)
<1>1. u \in Like(c, s)
  BY LikeLike DEF Waking, Near
<1> QED
  BY <1>1 DEF Waking, Near

LEMMA LevelValues ==
    ASSUME NEW c, Built(c), Flat(c), ClockedOutside(c), NEW E \in Assignments(c), NEW f \in Of(c, "seq")
    PROVE  /\ Level(c, E, f) \in Values
           /\ Level(c, E, f) = Signals(c, E, f)["clk"]
           /\ Woken(c, E, f) \in Values \ {Undefined}
           /\ Rest(c, f, Woken(c, E, f), Signals(c, E, f)["clear"]) = Woken(c, E, f)
<1>1. Has(c, f, "clk") /\ "clk" \in PinNames /\ "clear" \in PinNames
  BY DEF Has, PinNames, ClockedOutside
<1>2. Pin(c, f, "clk") \in Vertices(c) /\ Leaf(c, Pin(c, f, "clk"))
  BY <1>1, PinVertex DEF ClockedOutside, Leaf
<1>3. Signals(c, E, f)["clk"] = E[Pin(c, f, "clk")]
  BY <1>1, <1>2, SignalsFacts, ConeValues
<1>4. Undefined \in Values
  BY DEF Values
<1> QED
  BY <1>2, <1>3, <1>4, RestFacts DEF Level, Woken, Assignments

\* A gate that feeds a cell takes any value.
LEMMA WakingValued ==
    ASSUME NEW c, Built(c), Flat(c), NEW E, NEW R, NEW s, NEW t \in Waking(c, E, R, s),
           NEW v \in Feeding(c), NEW x \in Values
    PROVE  Valued(t, v, x) \in Waking(c, E, R, s)
<1>1. v \in Vertices(c) /\ Gate(c, v) /\ t \in Memory(c)
  BY FeedingFacts DEF Closed, Gates, Waking, Asleep
<1>2. ~Primary(c, v) /\ c.kind[v] # "seq"
  BY <1>1, KindsApart
<1> DEFINE u == Valued(t, v, x)
<1>3. /\ u \in Like(c, t)
      /\ \A w \in Vertices(c) \ {v} : u.value[w] = t.value[w]
      /\ u.prevClk = t.prevClk /\ u.staged = t.staged /\ u.active = t.active
  BY <1>1, ValuedFacts
<1> HIDE DEF u
<1>4. u \in Like(c, s) /\ u \in Memory(c)
  BY <1>3, LikeLike DEF Waking, Near, Like
<1>5. u \in Near(c, s)
  BY <1>3, <1>4 DEF Waking, Near
<1>6. \A f \in Of(c, "seq") : f \in Vertices(c) /\ f # v
  BY <1>2 DEF Of
<1>7. Asleep(c, E, R, u)
  BY <1>2, <1>3, <1>4, <1>6 DEF Waking, Asleep, Pending
<1> QED
  BY <1>5, <1>7 DEF Waking, u

LEMMA InnerWaking ==
    ASSUME NEW c, Built(c), Flat(c), NEW E, NEW R, NEW s, Asleep(c, E, R, s), NEW v \in Feeding(c)
    PROVE  Asleep(c, E, R, Inner(s, v))
<1>1. v \in Vertices(c) /\ Gate(c, v) /\ s \in Memory(c)
  BY FeedingFacts DEF Closed, Gates, Asleep
<1>2. ~Primary(c, v) /\ c.kind[v] # "seq"
  BY <1>1, KindsApart
<1> DEFINE u == Inner(s, v)
<1>3. /\ u \in Memory(c)
      /\ \A w \in Vertices(c) \ {v} : u.value[w] = s.value[w]
      /\ u.prevClk = s.prevClk /\ u.staged = s.staged
  BY <1>1, InnerFacts
<1>4. \A f \in Of(c, "seq") : f \in Vertices(c) /\ f # v
  BY <1>2 DEF Of
<1> HIDE DEF u
<1>5. Asleep(c, E, R, u)
  BY <1>2, <1>3, <1>4 DEF Asleep, Pending
<1> QED
  BY <1>5 DEF u

LEMMA WithinWaking ==
    ASSUME NEW c, Built(c), Flat(c), NEW E, NEW R, NEW s, Asleep(c, E, R, s), NEW v \in Feeding(c),
           NEW t \in Waking(c, E, R, Inner(s, v))
    PROVE  Within(t, s.active) \in Waking(c, E, R, s)
<1>1. v \in Vertices(c) /\ s \in Memory(c) /\ t \in Memory(c) /\ t \in Near(c, Inner(s, v))
  BY FeedingFacts DEF Closed, Gates, Asleep, Waking
<1>2. s.active \in SUBSET Vertices(c)
  BY <1>1, MemoryFields
<1> DEFINE u == Within(t, s.active)
<1>3. /\ u \in Like(c, t) /\ u.active = s.active /\ u.value = t.value
      /\ u.prevClk = t.prevClk /\ u.staged = t.staged
  BY <1>1, <1>2, WithinFacts
<1> HIDE DEF u
<1> DEFINE i == Inner(s, v)
<1>4. i \in Like(c, s) /\ \A w \in Vertices(c) \ {v} : i.value[w] = s.value[w]
  BY <1>1, InnerFacts
<1>5. t \in Like(c, i) /\ \A w \in Vertices(c) : w \notin Feeding(c) /\ c.kind[w] # "seq" => t.value[w] = i.value[w]
  BY <1>1 DEF Near
<1> HIDE DEF i
<1>6. t \in Like(c, s)
  BY <1>4, <1>5, LikeLike
<1>7. u \in Like(c, s) /\ u \in Memory(c)
  BY <1>3, <1>6, LikeLike DEF Like
<1>8. u \in Near(c, s)
  BY <1>3, <1>4, <1>5, <1>7 DEF Near
<1>9. Asleep(c, E, R, u)
  BY <1>3, <1>7 DEF Asleep, Waking, Pending
<1> QED
  BY <1>8, <1>9 DEF Waking, u

LEMMA GuardedWakes ==
    ASSUME NEW c, Built(c), Flat(c), NEW up, Wakes(c, up),
           NEW E \in Assignments(c), NEW R \in SUBSET Of(c, "seq"), NEW s, Asleep(c, E, R, s),
           NEW v \in Feeding(c)
    PROVE  Guarded(c, up, s, v) \in Waking(c, E, R, s)
<1>1. v \in Vertices(c) /\ Gate(c, v) /\ s \in Memory(c)
  BY FeedingFacts DEF Closed, Gates, Asleep
<1>2. Guarded(c, up, s, v) =
             IF v \in s.active \/ c.ins[v] = <<>> THEN Valued(s, v, Unknown)
             ELSE Within(GateValue(c, up, Inner(s, v), v), s.active)
  BY <1>1, GuardedIs
<1>3. CASE v \in s.active \/ c.ins[v] = <<>>
  <2>1. Unknown \in Values
    BY DEF Unknown, Values
  <2> QED
    BY <1>2, <1>3, <2>1, WakingSelf, WakingValued
<1>4. CASE ~(v \in s.active \/ c.ins[v] = <<>>)
  <2> DEFINE i == Inner(s, v)
             K == Waking(c, E, R, i)
  <2>1. Asleep(c, E, R, i)
    BY InnerWaking
  <2>2. i \in K
    BY <2>1, WakingSelf
  <2>3. K \subseteq Memory(c)
    BY DEF Waking, Asleep
  <2>4. ASSUME NEW t \in K, NEW d \in ToSet(c.ins[v]) PROVE Pull(up, t, d) \in K
    <3>1. d \in Vertices(c) /\ (Gate(c, d) \/ Leaf(c, d))
      BY <1>1, GateOrLeaf
    <3>2. d \in Feeding(c) \/ Leaf(c, d)
      BY <3>1, FeedingFacts DEF Closed
    <3>3. Asleep(c, E, R, t)
      BY DEF Waking
    <3>4. up[<<t, d>>] \in Waking(c, E, R, t)
      BY <3>1, <3>2, <3>3 DEF Wakes
    <3>5. up[<<t, d>>] \in K
      <4> HIDE DEF i
      <4> QED
        BY <3>4, WakingOn
    <3> QED
      BY <3>5 DEF Pull
  <2>5. ASSUME NEW t \in K, NEW x \in Values PROVE Valued(t, v, x) \in K
    BY WakingValued
  <2> HIDE DEF K
  <2>6. Pulling(c, up, K, v)
    BY <2>3, <2>4, <2>5 DEF Pulling
  <2>7. GateValue(c, up, i, v) \in K
    BY <1>1, <1>4, <2>2, <2>6, GateWithin DEF Working
  <2> QED
    BY <1>2, <1>4, <2>7, WithinWaking DEF K
<1> QED
  BY <1>3, <1>4

\* A forgotten cell, or one that is awake, wakes up.
WakingPins(c, E, f) ==
    [name \in PinNames |->
       IF name = "clk" THEN {Level(c, E, f)}
       ELSE IF name = "clear" /\ c.cell[f].async THEN {Signals(c, E, f)["clear"]}
       ELSE Values]

LEMMA WakingLooks ==
    ASSUME NEW c, Built(c), Flat(c), ClockedOutside(c), NEW up, Wakes(c, up), Idle(c, up),
           NEW E \in Assignments(c), NEW R \in SUBSET Of(c, "seq"), NEW s, Asleep(c, E, R, s),
           NEW f \in Of(c, "seq")
    PROVE  /\ Looking(c, up, Waking(c, E, R, s), f, WakingPins(c, E, f))
           /\ Signalled(WakingPins(c, E, f))
<1> DEFINE K == Waking(c, E, R, s)
           X == WakingPins(c, E, f)
<1>1. K \subseteq Memory(c)
  BY DEF Waking, Asleep
<1>2. ASSUME NEW t \in K, NEW name \in PinNames, Has(c, f, name)
      PROVE  Look(c, up, t, f, name) \in K /\ Look(c, up, t, f, name).value[Pin(c, f, name)] \in X[name]
  <2> DEFINE p == Pin(c, f, name)
             u == Look(c, up, t, f, name)
  <2>1. p \in Vertices(c) /\ p \in ToSet(c.ins[f]) /\ f \in Vertices(c)
    BY <1>2, PinVertex
  <2>2. Gate(c, p) \/ Leaf(c, p)
    BY <2>1, GateOrLeaf
  <2>3. p \in Feeding(c) \/ Leaf(c, p)
    BY <2>1, <2>2, FeedingFacts
  <2>4. Asleep(c, E, R, t) /\ t \in Memory(c)
    BY DEF Waking, Asleep
  <2>5. up[<<t, p>>] \in K
    BY <2>1, <2>3, <2>4, WakingOn DEF Wakes
  <2>6. u \in K
    BY <1>2, <2>5 DEF Look
  <2>7. Primary(c, p) => u = t /\ t.value[p] = E[p]
    BY <2>1, <2>4 DEF Look, Idle, Asleep
  <2>8. u.value[p] \in Values
    BY <1>1, <2>1, <2>6, MemoryFields
  <2>9. name = "clk" => u.value[p] = Level(c, E, f)
    BY <2>7 DEF ClockedOutside, Level
  <2>10. name = "clear" /\ c.cell[f].async => u.value[p] = Signals(c, E, f)["clear"]
    <3> SUFFICES ASSUME name = "clear", c.cell[f].async PROVE u.value[p] = Signals(c, E, f)["clear"]
      OBVIOUS
    <3>1. Primary(c, p)
      BY <1>2 DEF ClockedOutside
    <3>2. Cone(c, E, p) = E[p]
      BY <2>1, <3>1, ConeValues DEF Leaf
    <3>3. Signals(c, E, f)["clear"] = Cone(c, E, p)
      BY <1>2, SignalsFacts
    <3> QED
      BY <2>7, <3>1, <3>2, <3>3
  <2>11. u.value[p] \in X[name]
    <3> HIDE DEF u, p
    <3> QED
      BY <2>8, <2>9, <2>10 DEF WakingPins
  <2> QED
    BY <2>6, <2>11
<1>3. Signalled(X)
  <2>1. Level(c, E, f) \in Values
    BY LevelValues
  <2>2. Signals(c, E, f)["clear"] \in Values
    BY SignalsFacts DEF PinNames
  <2>3. Values # {}
    BY DEF Values
  <2> QED
    BY <2>1, <2>2, <2>3 DEF WakingPins, Signalled
<1> HIDE DEF K, X
<1>4. Looking(c, up, K, f, X)
  BY <1>1, <1>2 DEF Looking
<1> QED
  BY <1>3, <1>4 DEF K, X

LEMMA WakingOutcome ==
    ASSUME NEW c, Built(c), Flat(c), ClockedOutside(c), NEW E \in Assignments(c), NEW R \in SUBSET Of(c, "seq"),
           NEW s, NEW f \in Of(c, "seq"),
           NEW a \in Waking(c, E, R, s), NEW b \in Waking(c, E, R, s),
           NEW pins \in [PinNames -> Values],
           \A name \in PinNames : pins[name] \in WakingPins(c, E, f)[name]
    PROVE  /\ Outcome(c, f, a.value[f], b.prevClk[f], pins) = Woken(c, E, f)
           /\ pins["clk"] = Level(c, E, f)
<1>1. pins["clk"] = Level(c, E, f)
  BY DEF WakingPins, PinNames
<1>2. b.prevClk[f] \in {Level(c, E, f), Unknown}
  BY DEF Waking, Asleep
<1>3. a.value[f] = Undefined \/ a.value[f] = Woken(c, E, f)
  BY DEF Waking, Asleep
<1>4. Outcome(c, f, a.value[f], b.prevClk[f], pins) = Rest(c, f, a.value[f], pins["clear"])
  BY <1>1, <1>2, NoEdge, OutcomeRest
<1>5. c.cell[f].async => pins["clear"] = Signals(c, E, f)["clear"]
  BY DEF WakingPins, PinNames
<1>6. Rest(c, f, a.value[f], pins["clear"]) = Rest(c, f, a.value[f], Signals(c, E, f)["clear"])
  BY <1>5 DEF Rest, AsyncBy
<1>7. Rest(c, f, Woken(c, E, f), Signals(c, E, f)["clear"]) = Woken(c, E, f)
  BY LevelValues
<1> QED
  BY <1>1, <1>3, <1>4, <1>6, <1>7 DEF Woken

LEMMA WakingStaged ==
    ASSUME NEW c, Built(c), Flat(c), ClockedOutside(c), NEW E \in Assignments(c), NEW R \in SUBSET Of(c, "seq"),
           NEW s, NEW f \in Of(c, "seq"), NEW t \in Waking(c, E, R, s)
    PROVE  /\ Staged(t, f, Woken(c, E, f), Level(c, E, f)) \in Waking(c, E, R, s)
           /\ Staged(t, f, Woken(c, E, f), Level(c, E, f)) \in Waking(c, E, R \cup {f}, s)
<1> DEFINE q == Woken(c, E, f)
           k == Level(c, E, f)
           u == Staged(t, f, q, k)
<1>1. q \in Values /\ k \in Values /\ t \in Memory(c)
  BY LevelValues DEF Waking, Asleep
<1>2. /\ u \in Like(c, t) /\ u.staged[f] = <<q, k>>
      /\ \A g \in Of(c, "seq") \ {f} : u.staged[g] = t.staged[g]
      /\ u.value = t.value /\ u.prevClk = t.prevClk /\ u.active = t.active
  BY <1>1, StagedFacts
<1> HIDE DEF u
<1>3. u \in Like(c, s) /\ u \in Memory(c)
  BY <1>2, LikeLike DEF Waking, Near, Like
<1>4. u \in Near(c, s)
  BY <1>2, <1>3 DEF Waking, Near
<1>5. Asleep(c, E, R \cup {f}, u)
  BY <1>2, <1>3 DEF Waking, Asleep, Pending
<1>6. Asleep(c, E, R, u)
  BY <1>5 DEF Asleep
<1> QED
  BY <1>4, <1>5, <1>6 DEF Waking, u

LEMMA WakingStage ==
    ASSUME NEW c, Built(c), Flat(c), ClockedOutside(c), NEW up, Wakes(c, up), Idle(c, up),
           NEW E \in Assignments(c), NEW R \in SUBSET Of(c, "seq"), NEW s, Asleep(c, E, R, s),
           NEW f \in Of(c, "seq")
    PROVE  /\ Stage(c, up, s, f) \in Waking(c, E, R, s)
           /\ Stage(c, up, s, f) \in Waking(c, E, R \cup {f}, s)
<1>1. Looking(c, up, Waking(c, E, R, s), f, WakingPins(c, E, f)) /\ Signalled(WakingPins(c, E, f))
  BY WakingLooks
<1>2. s \in Waking(c, E, R, s) /\ c.cell[f].ff
  BY WakingSelf DEF ClockedOutside
<1>3. Stages(c, Waking(c, E, R, s), f, WakingPins(c, E, f), Stage(c, up, s, f))
  BY <1>1, <1>2, StageWithin
<1>4. PICK t \in Waking(c, E, R, s), a \in Waking(c, E, R, s), b \in Waking(c, E, R, s), pins \in [PinNames -> Values] :
        /\ \A name \in PinNames : pins[name] \in WakingPins(c, E, f)[name]
        /\ Stage(c, up, s, f) = Staged(t, f, Outcome(c, f, a.value[f], b.prevClk[f], pins), pins["clk"])
  BY <1>3 DEF Stages
<1>5. Stage(c, up, s, f) = Staged(t, f, Woken(c, E, f), Level(c, E, f))
  BY <1>4, WakingOutcome
<1> QED
  BY <1>5, WakingStaged

LEMMA WakingCommit ==
    ASSUME NEW c, Built(c), Flat(c), ClockedOutside(c), NEW E \in Assignments(c), NEW R \in SUBSET Of(c, "seq"),
           NEW s, NEW f \in Of(c, "seq"), NEW t \in Waking(c, E, R, s)
    PROVE  Commit(t, f) \in Waking(c, E, R, s)
<1> DEFINE q == Woken(c, E, f)
           k == Level(c, E, f)
           u == Committed(t, f, q, k)
<1>1. q \in Values /\ k \in Values /\ t \in Memory(c)
  BY LevelValues DEF Waking, Asleep
<1>2. CASE t.staged[f] = <<>>
  BY <1>2, CommitIs
<1>3. CASE t.staged[f] # <<>>
  <2>1. t.staged[f] = <<q, k>>
    BY <1>3 DEF Waking, Asleep
  <2>2. Commit(t, f) = u
    BY <1>3, <2>1, CommitIs
  <2>3. /\ u \in Like(c, t) /\ u.value[f] = q /\ u.prevClk[f] = k /\ u.staged[f] = <<>>
        /\ \A w \in Vertices(c) \ {f} : u.value[w] = t.value[w]
        /\ \A g \in Of(c, "seq") \ {f} : u.prevClk[g] = t.prevClk[g] /\ u.staged[g] = t.staged[g]
        /\ u.active = t.active
    BY <1>1, CommittedFacts
  <2> HIDE DEF u
  <2>4. c.kind[f] = "seq" /\ f \in Vertices(c) /\ \A g \in Of(c, "seq") : g \in Vertices(c)
    BY DEF Of
  <2>5. u \in Like(c, s) /\ u \in Memory(c)
    BY <2>3, LikeLike DEF Waking, Near, Like
  <2>6. u \in Near(c, s)
    BY <2>3, <2>4, <2>5 DEF Waking, Near
  <2>7. \A w \in Vertices(c) : Primary(c, w) => w # f
    BY <2>4, KindsApart
  <2>8. Asleep(c, E, R, u)
    <3>1. \A w \in Vertices(c) : Primary(c, w) => u.value[w] = E[w]
      BY <2>3, <2>7 DEF Waking, Asleep
    <3>2. \A g \in Of(c, "seq") \ {f} :
            u.value[g] = t.value[g] /\ u.prevClk[g] = t.prevClk[g] /\ u.staged[g] = t.staged[g]
      BY <2>3, <2>4
    <3> QED
      BY <2>3, <2>5, <3>1, <3>2 DEF Waking, Asleep, Pending
  <2> QED
    BY <2>2, <2>6, <2>8 DEF Waking
<1> QED
  BY <1>2, <1>3

LEMMA UpdateCell ==
    ASSUME NEW c, NEW up, Updating(c, up), NEW n \in Nat, NEW s \in Memory(c), NEW f \in Of(c, "seq")
    PROVE  up[n + 1][<<s, f>>] = Commit(Stage(c, up[n], s, f), f)
<1>1. f \in Vertices(c) /\ c.kind[f] = "seq" /\ ~Gate(c, f)
  BY DEF Of, Gate, GateTypes
<1>2. up[n + 1][<<s, f>>] = UpdateOnce(c, up[n], s, f)
  BY <1>1, UpdatingIs
<1> QED
  BY <1>1, <1>2 DEF UpdateOnce

LEMMA UpdateWakes ==
    ASSUME NEW c, Built(c), Flat(c), ClockedOutside(c), NEW up, Updating(c, up)
    PROVE  \A n \in Nat : Wakes(c, up[n])
<1> DEFINE S == {n \in Nat : Wakes(c, up[n])}
<1>1. 0 \in S
  <2>1. ASSUME NEW E, NEW R, NEW s, Asleep(c, E, R, s), NEW v \in Vertices(c)
        PROVE  up[0][<<s, v>>] \in Waking(c, E, R, s)
    <3>1. s \in Memory(c)
      BY <2>1 DEF Asleep
    <3>2. <<s, v>> \in Calls(c) /\ <<s, v>>[1] = s
      BY <3>1, OnCall
    <3>3. up[0][<<s, v>>] = s
      BY <3>2 DEF Updating
    <3> QED
      BY <2>1, <3>3, WakingSelf
  <2> QED
    BY <2>1 DEF Wakes
<1>2. ASSUME NEW n \in Nat, n \in S PROVE n + 1 \in S
  <2>1. Wakes(c, up[n]) /\ Idle(c, up[n]) /\ Idle(c, up[n + 1])
    BY <1>2, UpdateIdle
  <2>2. ASSUME NEW E \in Assignments(c), NEW R \in SUBSET Of(c, "seq"), NEW s, Asleep(c, E, R, s),
               NEW v \in Vertices(c), v \in Feeding(c) \/ Leaf(c, v)
        PROVE  up[n + 1][<<s, v>>] \in Waking(c, E, R, s)
    <3>0. s \in Memory(c)
      BY <2>2 DEF Asleep
    <3>1. CASE v \in Feeding(c)
      <4>1. Gate(c, v)
        BY <3>1, FeedingFacts DEF Closed, Gates
      <4>2. up[n + 1][<<s, v>>] = Guarded(c, up[n], s, v)
        BY <3>0, <4>1, UpdateGate
      <4> QED
        BY <2>1, <2>2, <3>1, <4>2, GuardedWakes
    <3>2. CASE Primary(c, v)
      <4>1. up[n + 1][<<s, v>>] = s
        BY <2>1, <3>0, <3>2 DEF Idle
      <4> QED
        BY <2>2, <4>1, WakingSelf
    <3>3. CASE c.kind[v] = "seq"
      <4>1. v \in Of(c, "seq")
        BY <3>3 DEF Of
      <4>2. up[n + 1][<<s, v>>] = Commit(Stage(c, up[n], s, v), v)
        BY <3>0, <4>1, UpdateCell
      <4>3. Stage(c, up[n], s, v) \in Waking(c, E, R, s)
        BY <2>1, <2>2, <4>1, WakingStage
      <4> QED
        BY <4>1, <4>2, <4>3, WakingCommit
    <3> QED
      BY <2>2, <3>1, <3>2, <3>3 DEF Leaf
  <2>3. Wakes(c, up[n + 1])
    BY <2>2 DEF Wakes
  <2> QED
    BY <2>3
<1> HIDE DEF S
<1>3. \A n \in Nat : n \in S
  BY <1>1, <1>2, Induction
<1> QED
  BY <1>3 DEF S
-----------------------------------------------------------------------------
(* The two loops over the flip-flops.                                      *)

\* What f makes of its value and its signals when graphSimulation clocks it.
NextOf(c, s, f) == Outcome(c, f, s.value[f], s.prevClk[f], Signals(c, s.value, f))
ClkOf(c, s, f) == s.value[Pin(c, f, "clk")]

\* The cells are idle: each has a value, or none and no memory of a clock.
Forgetful(c, s) == \A f \in Of(c, "seq") : s.value[f] = Undefined /\ s.prevClk[f] = Unknown

Between(c, s) ==
    /\ s \in Memory(c)
    /\ s.active = {}
    /\ \A f \in Of(c, "seq") : s.staged[f] = <<>>
    /\ Steady(c, s) \/ Forgetful(c, s)

LEMMA UpdateFacts ==
    ASSUME NEW c, Built(c), Flat(c), ClockedOutside(c), NEW level \in Layers(c)
    PROVE  /\ Wakes(c, Update(c)) /\ Idle(c, Update(c)) /\ Framed(c, Update(c)) /\ Typed(c, Update(c))
           /\ Cleaning(c, level, Depth(c), Update(c))
<1>1. PICK up : Updating(c, up) /\ Update(c) = up[Depth(c)]
  BY UpdatingExists
<1>2. Depth(c) \in Nat
  BY DepthNat
<1> QED
  BY <1>1, <1>2, UpdateWakes, UpdateIdle, UpdateFramed, UpdatingTyped, UpdateClean

LEMMA NextValue ==
    ASSUME NEW c, Built(c), Flat(c), ClockedOutside(c), NEW s, Between(c, s), NEW f \in Of(c, "seq")
    PROVE  /\ NextOf(c, s, f) \in Values \ {Undefined}
           /\ Rest(c, f, NextOf(c, s, f), Signals(c, s.value, f)["clear"]) = NextOf(c, s, f)
           /\ ClkOf(c, s, f) = Signals(c, s.value, f)["clk"]
           /\ ClkOf(c, s, f) \in Values
           /\ Forgetful(c, s) => NextOf(c, s, f) = Woken(c, s.value, f)
<1>1. s.value \in Assignments(c) /\ s.value[f] \in Values
  BY MemoryFields DEF Between, Assignments, Of
<1>2. Signals(c, s.value, f) \in [PinNames -> Values]
  BY <1>1, SignalsFacts
<1>3. Forgetful(c, s) => ~Ticks(c, f, s.prevClk[f], Signals(c, s.value, f)["clk"])
  BY NoEdge DEF Forgetful
<1>4. Steady(c, s) => s.value[f] # Undefined
  BY DEF Steady
<1>5. /\ NextOf(c, s, f) \in Values \ {Undefined}
      /\ Rest(c, f, NextOf(c, s, f), Signals(c, s.value, f)["clear"]) = NextOf(c, s, f)
  BY <1>1, <1>2, <1>3, <1>4, OutcomeStays DEF NextOf, Between
<1>6. ClkOf(c, s, f) = Signals(c, s.value, f)["clk"] /\ ClkOf(c, s, f) \in Values
  BY <1>1, LevelValues DEF Level, ClkOf
<1>7. Forgetful(c, s) => NextOf(c, s, f) = Woken(c, s.value, f)
  BY <1>3, OutcomeRest DEF NextOf, Woken, Forgetful
<1> QED
  BY <1>5, <1>6, <1>7

\* The memories in which each flip-flop has staged what it makes of s.
Sampled(c, s) ==
    {t \in Near(c, s) : \A f \in Of(c, "seq") : Pending(t, f, NextOf(c, s, f), ClkOf(c, s, f))}

TopSeq(c) == c.seq["top"]

LEMMA TopSeqFacts ==
    ASSUME NEW c, Built(c), Flat(c)
    PROVE  /\ TopSeq(c) \in Seq(Of(c, "seq"))
           /\ Len(TopSeq(c)) \in Nat
           /\ \A i \in 1..Len(TopSeq(c)) : TopSeq(c)[i] \in Of(c, "seq")
           /\ {TopSeq(c)[j] : j \in 1..Len(TopSeq(c))} = Of(c, "seq")
<1>1. TopSeq(c) \in Seq(Of(c, "seq"))
  BY TopGraph, GraphLists DEF TopSeq
<1>2. Of(c, "seq") = ToSet(TopSeq(c))
  BY DEF Flat, TopSeq
<1>3. DOMAIN TopSeq(c) = 1..Len(TopSeq(c))
  BY <1>1
<1> QED
  BY <1>1, <1>2, <1>3 DEF ToSet

LEMMA ForgottenSampled ==
    ASSUME NEW c, Built(c), Flat(c), ClockedOutside(c), NEW s, Between(c, s), Forgetful(c, s)
    PROVE  Through(StagingFFs(c, Update(c)), s, c.seq["top"]) \in Sampled(c, s)
<1> DEFINE E == s.value
           up == Update(c)
           list == TopSeq(c)
           R(i) == {list[j] : j \in 1..i}
           P == [i \in 0..Len(list) |-> Waking(c, E, R(i), s)]
           call == StagingFFs(c, up)
<1>1. PICK level : level \in Layers(c)
  BY DEF Flat
<1>2. Wakes(c, up) /\ Idle(c, up)
  BY <1>1, UpdateFacts
<1>3. s \in Memory(c) /\ E \in Assignments(c)
  BY MemoryFields DEF Between, Assignments
<1>4. \A i \in 0..Len(list) : R(i) \in SUBSET Of(c, "seq")
  BY TopSeqFacts
<1>5. Asleep(c, E, R(0), s)
  <2>1. R(0) = {}
    OBVIOUS
  <2> HIDE DEF R
  <2> QED
    BY <1>3, <2>1 DEF Asleep, Between, Forgetful
<1>6. 0 \in 0..Len(list) /\ Len(list) \in 0..Len(list)
  BY TopSeqFacts
<1>7. s \in P[0]
  BY <1>5, <1>6, WakingSelf
<1>8. ASSUME NEW i \in 1..Len(list), NEW t \in P[i - 1] PROVE call[<<t, list[i]>>] \in P[i]
  <2> DEFINE f == list[i]
  <2>1. i - 1 \in 0..Len(list) /\ i \in 0..Len(list) /\ f \in Of(c, "seq")
    BY TopSeqFacts
  <2>2. t \in Waking(c, E, R(i - 1), s)
    BY <2>1
  <2>3. Asleep(c, E, R(i - 1), t) /\ t \in Memory(c)
    BY <2>2 DEF Waking, Asleep
  <2>4. R(i) = R(i - 1) \cup {f}
    BY <2>1
  <2>5. call[<<t, f>>] = Stage(c, up, t, f)
    BY <2>1, <2>3, StagingCall DEF ClockedOutside
  <2> HIDE DEF R
  <2>6. Stage(c, up, t, f) \in Waking(c, E, R(i - 1) \cup {f}, t)
    BY <1>2, <1>3, <1>4, <2>1, <2>3, WakingStage
  <2>7. t \in Near(c, s)
    BY <2>2 DEF Waking
  <2>8. Stage(c, up, t, f) \in Waking(c, E, R(i), s)
    <3> DEFINE u == Stage(c, up, t, f)
    <3>1. u \in Near(c, t) /\ Asleep(c, E, R(i), u)
      BY <2>4, <2>6 DEF Waking
    <3> HIDE DEF u
    <3>2. u \in Like(c, s)
      BY <2>7, <3>1, LikeLike DEF Near
    <3>3. u \in Near(c, s)
      BY <2>7, <3>1, <3>2 DEF Near
    <3> QED
      BY <3>1, <3>3 DEF Waking, u
  <2> QED
    BY <2>1, <2>5, <2>8
<1> HIDE DEF call
<1>9. Through(call, s, list) \in P[Len(list)]
  <2> HIDE DEF P, list
  <2>1. Len(list) \in Nat
    BY TopSeqFacts DEF list
  <2> QED
    BY <1>7, <1>8, <2>1, TraceKeeps
<1>10. Through(call, s, list) \in Waking(c, E, Of(c, "seq"), s)
  BY <1>6, <1>9, TopSeqFacts
<1>11. ASSUME NEW t \in Waking(c, E, Of(c, "seq"), s) PROVE t \in Sampled(c, s)
  <2>1. \A f \in Of(c, "seq") : Pending(t, f, Woken(c, E, f), Level(c, E, f))
    BY DEF Waking, Asleep
  <2>2. \A f \in Of(c, "seq") : Woken(c, E, f) = NextOf(c, s, f) /\ Level(c, E, f) = ClkOf(c, s, f)
    BY NextValue DEF Level, ClkOf
  <2> QED
    BY <2>1, <2>2 DEF Sampled, Waking
<1> QED
  BY <1>10, <1>11 DEF call, TopSeq

\* Memories reached while flip-flops with values are staged.
Sampling(c, R, s) ==
    {t \in Like(c, s) :
       /\ t.prevClk = s.prevClk
       /\ t.active = s.active
       /\ \A w \in Vertices(c) : w \notin Feeding(c) => t.value[w] = s.value[w]
       /\ Clean(c, Gates(c), s.value, t)
       /\ \A f \in R : t.staged[f] = <<NextOf(c, s, f), ClkOf(c, s, f)>>}

SamplingPins(c, E, f) == [name \in PinNames |-> {Signals(c, E, f)[name]}]

LEMMA SamplingLooks ==
    ASSUME NEW c, Built(c), Flat(c), ClockedOutside(c), NEW s, Between(c, s), NEW R \in SUBSET Of(c, "seq"),
           NEW f \in Of(c, "seq")
    PROVE  /\ Looking(c, Update(c), Sampling(c, R, s), f, SamplingPins(c, s.value, f))
           /\ Signalled(SamplingPins(c, s.value, f))
<1> DEFINE K == Sampling(c, R, s)
           E == s.value
           X == SamplingPins(c, E, f)
           up == Update(c)
<1>1. PICK level : level \in Layers(c)
  BY DEF Flat
<1>2. Framed(c, up) /\ Idle(c, up) /\ Cleaning(c, level, Depth(c), up)
  BY <1>1, UpdateFacts
<1>3. E \in Assignments(c)
  BY MemoryFields DEF Between, Assignments
<1>4. K \subseteq Memory(c)
  BY DEF Sampling, Like
<1>5. ASSUME NEW t \in K, NEW name \in PinNames, Has(c, f, name)
      PROVE  Look(c, up, t, f, name) \in K /\ Look(c, up, t, f, name).value[Pin(c, f, name)] \in X[name]
  <2> DEFINE p == Pin(c, f, name)
             u == Look(c, up, t, f, name)
  <2>1. p \in Vertices(c) /\ p \in ToSet(c.ins[f]) /\ f \in Vertices(c)
    BY <1>5, PinVertex
  <2>2. Gate(c, p) \/ Leaf(c, p)
    BY <2>1, GateOrLeaf
  <2>3. Clean(c, Gates(c), E, t) /\ t \in Memory(c) /\ Steady(c, t) /\ t.active = {}
    BY DEF Sampling, Clean, Between
  <2>4. X[name] = {Cone(c, E, p)}
    BY <1>3, <1>5, SignalsFacts DEF SamplingPins
  <2>5. CASE Leaf(c, p)
    <3>1. u = t
      BY <1>2, <2>1, <2>3, <2>5 DEF Look, Idle, Leaf
    <3>2. t.value[p] = E[p]
      BY <2>1, <2>3, <2>5 DEF Clean, SameLeaves
    <3>3. Cone(c, E, p) = E[p]
      BY <1>3, <2>1, <2>5, ConeValues
    <3> QED
      BY <2>4, <3>1, <3>2, <3>3
  <2>6. CASE Gate(c, p)
    <3>1. u = up[<<t, p>>]
      BY <1>5, <2>6, KindsApart DEF Look
    <3> HIDE DEF p, u
    <3>2. p \in Feeding(c) /\ Closed(c, Feeding(c)) /\ p \in Gates(c)
      BY <2>1, <2>6, FeedingFacts DEF Gates
    <3>3. u \in Kept(c, Feeding(c), t)
      BY <1>2, <2>3, <3>1, <3>2 DEF Framed
    <3>4. level[p] < Depth(c)
      BY <1>1, <2>1, <2>6, Heights, DepthNat
    <3>5. Higher(c, level, t, p)
      BY <2>3 DEF Higher
    <3>6. CleanTo(c, Gates(c), E, t, p, u)
      BY <1>2, <1>3, <2>3, <3>1, <3>2, <3>4, <3>5, AllClosed DEF Cleaning
    <3>7. u.value[p] = Cone(c, E, p)
      BY <2>1, <3>6, GateOrLeaf DEF CleanTo, Gates
    <3>8. Clean(c, Gates(c), E, u)
      BY <3>6 DEF CleanTo
    <3>9. u \in Like(c, s)
      BY <3>3, LikeLike DEF Kept, Sampling
    <3>10. u \in K
      BY <3>3, <3>8, <3>9 DEF Kept, Sampling
    <3> QED
      BY <2>4, <3>7, <3>10 DEF u, p
  <2> QED
    BY <2>2, <2>5, <2>6
<1>6. Signalled(X)
  BY <1>3, SignalsFacts DEF SamplingPins, Signalled
<1> HIDE DEF K, X
<1>7. Looking(c, up, K, f, X)
  BY <1>4, <1>5 DEF Looking
<1> QED
  BY <1>6, <1>7 DEF K, X

LEMMA SamplingStage ==
    ASSUME NEW c, Built(c), Flat(c), ClockedOutside(c), NEW s, Between(c, s), NEW R \in SUBSET Of(c, "seq"),
           NEW t \in Sampling(c, R, s), NEW f \in Of(c, "seq")
    PROVE  Stage(c, Update(c), t, f) \in Sampling(c, R \cup {f}, s)
<1> DEFINE K == Sampling(c, R, s)
           E == s.value
           X == SamplingPins(c, E, f)
           q == NextOf(c, s, f)
           k == ClkOf(c, s, f)
<1>1. Looking(c, Update(c), K, f, X) /\ Signalled(X) /\ c.cell[f].ff
  BY SamplingLooks DEF ClockedOutside
<1>2. Stages(c, K, f, X, Stage(c, Update(c), t, f))
  <2> HIDE DEF K, X
  <2> QED
    BY <1>1, StageWithin DEF K
<1>3. PICK r \in K, a \in K, b \in K, pins \in [PinNames -> Values] :
        /\ \A name \in PinNames : pins[name] \in X[name]
        /\ Stage(c, Update(c), t, f) = Staged(r, f, Outcome(c, f, a.value[f], b.prevClk[f], pins), pins["clk"])
  BY <1>2 DEF Stages
<1>4. E \in Assignments(c)
  BY MemoryFields DEF Between, Assignments
<1>5. pins = Signals(c, E, f)
  <2>1. \A name \in PinNames : pins[name] = Signals(c, E, f)[name]
    BY <1>3 DEF SamplingPins
  <2>2. Signals(c, E, f) \in [PinNames -> Values]
    BY <1>4, SignalsFacts
  <2> QED
    BY <2>1, <2>2
<1>6. f \in Vertices(c) /\ f \notin Feeding(c) /\ \A g \in Of(c, "seq") : g \in Vertices(c) /\ g \notin Feeding(c)
  BY FeedingFacts, KindsApart DEF Of, Closed, Gates
<1>7. a.value[f] = s.value[f] /\ b.prevClk[f] = s.prevClk[f]
  BY <1>6 DEF Sampling
<1>8. Stage(c, Update(c), t, f) = Staged(r, f, q, k)
  <2>1. k = Signals(c, E, f)["clk"]
    BY NextValue
  <2> QED
    BY <1>3, <1>5, <1>7, <2>1 DEF NextOf
<1> DEFINE u == Staged(r, f, q, k)
<1>9. r \in Memory(c) /\ q \in Values /\ k \in Values
  BY NextValue DEF Sampling, Like
<1>10. /\ u \in Like(c, r) /\ u.staged[f] = <<q, k>>
       /\ \A g \in Of(c, "seq") \ {f} : u.staged[g] = r.staged[g]
       /\ u.value = r.value /\ u.prevClk = r.prevClk /\ u.active = r.active
  BY <1>9, StagedFacts
<1> HIDE DEF u
<1>11. u \in Like(c, s) /\ u \in Memory(c)
  BY <1>10, LikeLike DEF Sampling, Like
<1>12. Clean(c, Gates(c), E, u)
  BY <1>10, <1>11 DEF Sampling, Clean, Steady
<1>13. u \in Sampling(c, R \cup {f}, s)
  BY <1>10, <1>11, <1>12 DEF Sampling
<1> QED
  BY <1>8, <1>13 DEF u

LEMMA SteadySampled ==
    ASSUME NEW c, Built(c), Flat(c), ClockedOutside(c), NEW s, Between(c, s), Steady(c, s),
           \A g \in Gates(c) : s.value[g] = Undefined
    PROVE  Through(StagingFFs(c, Update(c)), s, c.seq["top"]) \in Sampled(c, s)
<1> DEFINE list == TopSeq(c)
           R(i) == {list[j] : j \in 1..i}
           P == [i \in 0..Len(list) |-> Sampling(c, R(i), s)]
           call == StagingFFs(c, Update(c))
<1>3. s \in Memory(c)
  BY DEF Between
<1>4. \A i \in 0..Len(list) : R(i) \in SUBSET Of(c, "seq")
  BY TopSeqFacts
<1>5. s \in Sampling(c, R(0), s)
  <2>1. R(0) = {}
    OBVIOUS
  <2>2. Clean(c, Gates(c), s.value, s)
    BY <1>3 DEF Clean, SameLeaves
  <2> HIDE DEF R
  <2> QED
    BY <1>3, <2>1, <2>2, LikeSelf DEF Sampling
<1>6. 0 \in 0..Len(list) /\ Len(list) \in 0..Len(list)
  BY TopSeqFacts
<1>7. s \in P[0]
  BY <1>5, <1>6
<1>8. ASSUME NEW i \in 1..Len(list), NEW t \in P[i - 1] PROVE call[<<t, list[i]>>] \in P[i]
  <2> DEFINE f == list[i]
  <2>1. i - 1 \in 0..Len(list) /\ i \in 0..Len(list) /\ f \in Of(c, "seq")
    BY TopSeqFacts
  <2>2. t \in Sampling(c, R(i - 1), s)
    BY <2>1
  <2>3. t \in Memory(c)
    BY <2>2 DEF Sampling, Like
  <2>4. R(i) = R(i - 1) \cup {f}
    BY <2>1
  <2>5. call[<<t, f>>] = Stage(c, Update(c), t, f)
    BY <2>1, <2>3, StagingCall DEF ClockedOutside
  <2>6. R(i - 1) \in SUBSET Of(c, "seq")
    BY <1>4, <2>1
  <2> HIDE DEF R
  <2>7. Stage(c, Update(c), t, f) \in Sampling(c, R(i), s)
    BY <2>1, <2>2, <2>4, <2>6, SamplingStage
  <2> QED
    BY <2>1, <2>5, <2>7
<1> HIDE DEF call
<1>9. Through(call, s, list) \in P[Len(list)]
  <2> HIDE DEF P, list
  <2>1. Len(list) \in Nat
    BY TopSeqFacts DEF list
  <2> QED
    BY <1>7, <1>8, <2>1, TraceKeeps
<1>10. Through(call, s, list) \in Sampling(c, Of(c, "seq"), s)
  BY <1>6, <1>9, TopSeqFacts
<1>11. ASSUME NEW t \in Sampling(c, Of(c, "seq"), s) PROVE t \in Sampled(c, s)
  BY DEF Sampling, Sampled, Near, Pending
<1> QED
  BY <1>10, <1>11 DEF call, TopSeq

LEMMA CommitCall ==
    ASSUME NEW c, Flat(c), ClockedOutside(c), NEW s \in Memory(c), NEW f \in Of(c, "seq")
    PROVE  CommittingFFs(c)[<<s, f>>] = Commit(s, f)
<1>1. CommittingFFs(c)[<<s, f>>] = IF c.cell[f].ff THEN Commit(s, f) ELSE s
  BY LoopCalls
<1> QED
  BY <1>1 DEF ClockedOutside

LEMMA CommitPending ==
    ASSUME NEW s, NEW f, NEW q, NEW k, s.staged[f] = <<q, k>>
    PROVE  Commit(s, f) = Committed(s, f, q, k)
BY CommitIs

\* What is pending is committed.
CommittedAll(c, t, next, clk) ==
    {u \in Like(c, t) :
       /\ u.active = t.active
       /\ \A w \in Vertices(c) : c.kind[w] # "seq" => u.value[w] = t.value[w]
       /\ \A f \in Of(c, "seq") : u.value[f] = next[f] /\ u.prevClk[f] = clk[f] /\ u.staged[f] = <<>>}

LEMMA CommitAll ==
    ASSUME NEW c, Built(c), Flat(c), ClockedOutside(c), NEW s \in Memory(c),
           NEW next \in [Of(c, "seq") -> Values], NEW clk \in [Of(c, "seq") -> Values],
           \A f \in Of(c, "seq") : Pending(s, f, next[f], clk[f])
    PROVE  Through(CommittingFFs(c), s, c.seq["top"]) \in CommittedAll(c, s, next, clk)
<1> DEFINE list == TopSeq(c)
           R(i) == {list[j] : j \in 1..i}
           K(Q) == {u \in Like(c, s) :
                      /\ u.active = s.active
                      /\ \A w \in Vertices(c) : c.kind[w] # "seq" => u.value[w] = s.value[w]
                      /\ \A f \in Of(c, "seq") : Pending(u, f, next[f], clk[f])
                      /\ \A f \in Q : u.staged[f] = <<>>}
           P == [i \in 0..Len(list) |-> K(R(i))]
           call == CommittingFFs(c)
<1>5. s \in K(R(0))
  <2>1. R(0) = {}
    OBVIOUS
  <2> HIDE DEF R
  <2> QED
    BY <2>1, LikeSelf
<1>6. 0 \in 0..Len(list) /\ Len(list) \in 0..Len(list)
  BY TopSeqFacts
<1>7. s \in P[0]
  BY <1>5, <1>6
<1>8. ASSUME NEW i \in 1..Len(list), NEW t \in P[i - 1] PROVE call[<<t, list[i]>>] \in P[i]
  <2> DEFINE f == list[i]
  <2>1. i - 1 \in 0..Len(list) /\ i \in 0..Len(list) /\ f \in Of(c, "seq")
    BY TopSeqFacts
  <2>2. t \in K(R(i - 1))
    BY <2>1
  <2>3. t \in Memory(c)
    BY <2>2 DEF Like
  <2>4. R(i) = R(i - 1) \cup {f}
    BY <2>1
  <2>5. call[<<t, f>>] = Commit(t, f)
    BY <2>1, <2>3, CommitCall
  <2> HIDE DEF R
  <2>6. Commit(t, f) \in K(R(i))
    <3>1. CASE t.staged[f] = <<>>
      BY <2>2, <2>4, <3>1, CommitIs
    <3>2. CASE t.staged[f] # <<>>
      <4> DEFINE q == next[f]
                 k == clk[f]
                 u == Committed(t, f, q, k)
      <4>1. t.staged[f] = <<q, k>> /\ q \in Values /\ k \in Values
        BY <2>1, <2>2, <3>2 DEF Pending
      <4>2. Commit(t, f) = u
        BY <4>1, CommitPending
      <4>3. /\ u \in Like(c, t) /\ u.value[f] = q /\ u.prevClk[f] = k /\ u.staged[f] = <<>>
            /\ \A w \in Vertices(c) \ {f} : u.value[w] = t.value[w]
            /\ \A g \in Of(c, "seq") \ {f} : u.prevClk[g] = t.prevClk[g] /\ u.staged[g] = t.staged[g]
            /\ u.active = t.active
        BY <2>1, <2>3, <4>1, CommittedFacts
      <4> HIDE DEF u
      <4>4. c.kind[f] = "seq" /\ f \in Vertices(c) /\ \A g \in Of(c, "seq") : g \in Vertices(c)
        BY <2>1 DEF Of
      <4>5. u \in Like(c, s)
        BY <2>2, <4>3, LikeLike
      <4>6. \A g \in Of(c, "seq") \ {f} :
              u.value[g] = t.value[g] /\ u.prevClk[g] = t.prevClk[g] /\ u.staged[g] = t.staged[g]
        BY <4>3, <4>4
      <4>7. \A g \in Of(c, "seq") : Pending(u, g, next[g], clk[g])
        BY <2>2, <4>3, <4>6 DEF Pending
      <4>8. \A g \in R(i) : u.staged[g] = <<>>
        <5>1. \A g \in R(i - 1) : t.staged[g] = <<>> /\ g \in Of(c, "seq")
          <6>1. R(i - 1) \subseteq Of(c, "seq")
            BY <2>1, TopSeqFacts DEF R
          <6> QED
            BY <2>2, <6>1
        <5> QED
          BY <2>4, <4>3, <4>6, <5>1
      <4> QED
        BY <2>2, <4>2, <4>3, <4>4, <4>5, <4>7, <4>8
    <3> QED
      BY <3>1, <3>2
  <2> QED
    BY <2>1, <2>5, <2>6
<1> HIDE DEF call
<1>9. Through(call, s, list) \in P[Len(list)]
  <2> HIDE DEF P, list
  <2>1. Len(list) \in Nat
    BY TopSeqFacts DEF list
  <2> QED
    BY <1>7, <1>8, <2>1, TraceKeeps
<1>10. Through(call, s, list) \in K(Of(c, "seq"))
  BY <1>6, <1>9, TopSeqFacts
<1>11. ASSUME NEW t \in K(Of(c, "seq")) PROVE t \in CommittedAll(c, s, next, clk)
  BY DEF CommittedAll, Pending
<1> QED
  BY <1>10, <1>11 DEF call, TopSeq
-----------------------------------------------------------------------------
(* Evaluating an output.                                                   *)

\* Calling the drivers of v stays within K and leaves v alone, and so does
\* giving v a value.
Asking(c, up, K, v) ==
    /\ K \subseteq Memory(c)
    /\ \A t \in K : \A d \in ToSet(c.ins[v]) : up[<<t, d>>] \in K /\ up[<<t, d>>].value[v] = t.value[v]
    /\ \A t \in K : \A x \in Values : Valued(t, v, x) \in K

\* The drivers answer with the values `of'.
Saying(c, up, K, v, of) ==
    \A t \in K : \A d \in ToSet(c.ins[v]) : up[<<t, d>>].value[d] = of[d]

LEMMA OutputValueIs ==
    ASSUME NEW c, NEW up, NEW s, NEW v
    PROVE  OutputValue(c, up, s, v) =
             Through(Agreeing(c, up, v),
                     Valued(up[<<s, c.ins[v][1]>>], v, up[<<s, c.ins[v][1]>>].value[c.ins[v][1]]),
                     Tail(c.ins[v]))
BY DEF OutputValue, Valued

LEMMA AgreeingIs ==
    ASSUME NEW c, NEW up, NEW v, NEW s \in Memory(c), NEW d \in Vertices(c)
    PROVE  Agreeing(c, up, v)[<<s, d>>] =
             IF up[<<s, d>>].value[d] = up[<<s, d>>].value[v] THEN up[<<s, d>>]
             ELSE Valued(up[<<s, d>>], v, Unknown)
<1>1. <<s, d>> \in Calls(c) /\ <<s, d>>[1] = s /\ <<s, d>>[2] = d
  BY OnCall
<1>2. Agreeing(c, up, v)[<<s, d>>] = Agreed(up, v, s, d)
  BY <1>1 DEF Agreeing
<1> QED
  BY <1>2 DEF Agreed, Valued

LEMMA AgreeingStays ==
    ASSUME NEW c, NEW up, NEW K, NEW v \in Vertices(c), ToSet(c.ins[v]) \subseteq Vertices(c),
           Asking(c, up, K, v), NEW t \in K, NEW d \in ToSet(c.ins[v])
    PROVE  /\ Agreeing(c, up, v)[<<t, d>>] \in K
           /\ Agreeing(c, up, v)[<<t, d>>].value[v] =
                IF up[<<t, d>>].value[d] = t.value[v] THEN t.value[v] ELSE Unknown
<1> DEFINE p == up[<<t, d>>]
<1>1. p \in K /\ p \in Memory(c) /\ p.value[v] = t.value[v] /\ t \in Memory(c) /\ d \in Vertices(c)
  BY DEF Asking
<1>2. Agreeing(c, up, v)[<<t, d>>] = IF p.value[d] = p.value[v] THEN p ELSE Valued(p, v, Unknown)
  BY <1>1, AgreeingIs
<1>3. Unknown \in Values
  BY DEF Unknown, Values
<1> HIDE DEF p
<1>4. Valued(p, v, Unknown) \in K /\ Valued(p, v, Unknown).value[v] = Unknown
  BY <1>1, <1>3, ValuedFacts DEF Asking
<1> QED
  BY <1>1, <1>2, <1>4 DEF p

\* Calling the drivers of v stays within K, and so does giving v a value.
Answering(c, up, K, v) ==
    /\ K \subseteq Memory(c)
    /\ \A t \in K : \A d \in ToSet(c.ins[v]) : up[<<t, d>>] \in K
    /\ \A t \in K : \A x \in Values : Valued(t, v, x) \in K

LEMMA OutputStays ==
    ASSUME NEW c, Built(c), NEW up, NEW K, NEW v, Working(c, v), Answering(c, up, K, v), NEW s \in K
    PROVE  OutputValue(c, up, s, v) \in K
<1> DEFINE d1 == c.ins[v][1]
           first == up[<<s, d1>>]
           rest == Tail(c.ins[v])
<1>1. /\ d1 \in ToSet(c.ins[v]) /\ rest \in Seq(Vertices(c)) /\ ToSet(rest) \subseteq ToSet(c.ins[v])
      /\ ToSet(c.ins[v]) \subseteq Vertices(c) /\ v \in Vertices(c)
  BY Drivers DEF Working
<1>2. OutputValue(c, up, s, v) = Through(Agreeing(c, up, v), Valued(first, v, first.value[d1]), rest)
  BY OutputValueIs
<1> HIDE DEF d1, rest
<1>3. first \in K /\ first \in Memory(c)
  BY <1>1 DEF Answering
<1> HIDE DEF first
<1>4. first.value[d1] \in Values
  BY <1>1, <1>3, MemoryFields
<1>5. Valued(first, v, first.value[d1]) \in K
  BY <1>3, <1>4 DEF Answering
<1>6. ASSUME NEW d \in ToSet(rest), NEW t \in K PROVE Agreeing(c, up, v)[<<t, d>>] \in K
  <2>1. t \in Memory(c) /\ d \in Vertices(c) /\ up[<<t, d>>] \in K
    BY <1>1 DEF Answering
  <2>2. Unknown \in Values
    BY DEF Unknown, Values
  <2>3. Valued(up[<<t, d>>], v, Unknown) \in K
    BY <2>1, <2>2 DEF Answering
  <2> QED
    BY <2>1, <2>3, AgreeingIs
<1> QED
  BY <1>1, <1>2, <1>5, <1>6, TraceStays

LEMMA OutputWithin ==
    ASSUME NEW c, Built(c), NEW up, NEW K, NEW v, Working(c, v), Asking(c, up, K, v), NEW s \in K
    PROVE  OutputValue(c, up, s, v) \in K
<1>1. Answering(c, up, K, v)
  BY DEF Asking, Answering
<1> QED
  BY <1>1, OutputStays

LEMMA FirstAndRest ==
    ASSUME NEW S, NEW list \in Seq(S), list # <<>>
    PROVE  /\ ToSet(list) = {list[1]} \cup {Tail(list)[k] : k \in 1..Len(Tail(list))}
           /\ Len(Tail(list)) \in Nat
           /\ \A i \in 1..Len(Tail(list)) : Tail(list)[i] \in ToSet(list)
<1>1. Len(list) \in Nat /\ Len(list) >= 1 /\ DOMAIN list = 1..Len(list)
  OBVIOUS
<1>2. Len(Tail(list)) = Len(list) - 1 /\ \A k \in 1..(Len(list) - 1) : Tail(list)[k] = list[k + 1]
  OBVIOUS
<1>3. ToSet(list) = {list[i] : i \in 1..Len(list)}
  BY <1>1 DEF ToSet
<1>4. \A k \in 1..Len(list) : k = 1 \/ (k - 1 \in 1..(Len(list) - 1) /\ list[k] = Tail(list)[k - 1])
  <2> SUFFICES ASSUME NEW k \in 1..Len(list), k # 1
               PROVE  k - 1 \in 1..(Len(list) - 1) /\ list[k] = Tail(list)[k - 1]
    OBVIOUS
  <2>1. k - 1 \in 1..(Len(list) - 1) /\ (k - 1) + 1 = k
    BY <1>1
  <2> QED
    BY <1>2, <2>1
<1>5. 1 \in 1..Len(list) /\ \A k \in 1..(Len(list) - 1) : k + 1 \in 1..Len(list)
  BY <1>1
<1>6. Len(Tail(list)) \in Nat
  BY <1>1, <1>2
<1> QED
  BY <1>2, <1>3, <1>4, <1>5, <1>6

LEMMA OutputGives ==
    ASSUME NEW c, Built(c), NEW up, NEW K, NEW v, Working(c, v), Asking(c, up, K, v),
           NEW of, Saying(c, up, K, v, of), NEW s \in K
    PROVE  OutputValue(c, up, s, v).value[v] = Agreement(c, v, of)
<1> DEFINE d1 == c.ins[v][1]
           first == up[<<s, d1>>]
           rest == Tail(c.ins[v])
           same(i) == \A k \in 1..i : of[rest[k]] = of[d1]
           cur(i) == IF same(i) THEN of[d1] ELSE Unknown
           P == [i \in Int |-> {t \in K : t.value[v] = cur(i)}]
<1>1. /\ d1 \in ToSet(c.ins[v]) /\ rest \in Seq(Vertices(c)) /\ ToSet(rest) \subseteq ToSet(c.ins[v])
      /\ ToSet(c.ins[v]) \subseteq Vertices(c) /\ v \in Vertices(c)
  BY Drivers DEF Working
<1>2. OutputValue(c, up, s, v) = Through(Agreeing(c, up, v), Valued(first, v, first.value[d1]), rest)
  BY OutputValueIs
<1>3. first \in K /\ first \in Memory(c) /\ first.value[d1] = of[d1]
  BY <1>1 DEF Asking, Saying
<1>4. of[d1] \in Values
  BY <1>1, <1>3, MemoryFields
<1>5. c.ins[v] \in Seq(Vertices(c)) /\ c.ins[v] # <<>>
  BY Drivers DEF Working
<1>6. /\ ToSet(c.ins[v]) = {d1} \cup {rest[k] : k \in 1..Len(rest)}
      /\ Len(rest) \in Nat
      /\ \A i \in 1..Len(rest) : rest[i] \in ToSet(c.ins[v])
  BY <1>5, FirstAndRest
<1> HIDE DEF d1, rest, first
<1>7. \A i \in Int : P[i] = {t \in K : t.value[v] = cur(i)}
  OBVIOUS
<1> HIDE DEF P
<1>8. Valued(first, v, first.value[d1]) \in P[0]
  <2>1. cur(0) = of[d1]
    OBVIOUS
  <2>2. Valued(first, v, of[d1]) \in K /\ Valued(first, v, of[d1]).value[v] = of[d1]
    BY <1>1, <1>3, <1>4, ValuedFacts DEF Asking
  <2> HIDE DEF cur
  <2> QED
    BY <1>3, <1>7, <2>1, <2>2
<1>9. ASSUME NEW i \in 1..Len(rest), NEW t \in P[i - 1] PROVE Agreeing(c, up, v)[<<t, rest[i]>>] \in P[i]
  <2> DEFINE d == rest[i]
             u == Agreeing(c, up, v)[<<t, d>>]
  <2>1. i - 1 \in Int /\ i \in Int /\ i \in Nat /\ d \in ToSet(c.ins[v])
    BY <1>6
  <2>2. t \in K /\ t.value[v] = cur(i - 1)
    BY <1>7, <2>1
  <2>3. up[<<t, d>>].value[d] = of[d]
    BY <2>1, <2>2 DEF Saying
  <2>4. u \in K /\ u.value[v] = IF of[d] = t.value[v] THEN t.value[v] ELSE Unknown
    BY <1>1, <2>1, <2>2, <2>3, AgreeingStays
  <2>5. same(i) <=> same(i - 1) /\ of[d] = of[d1]
    <3>1. \A k \in 1..i : k = i \/ k \in 1..(i - 1)
      BY <2>1
    <3>2. i \in 1..i /\ \A k \in 1..(i - 1) : k \in 1..i
      BY <2>1
    <3> QED
      BY <3>1, <3>2
  <2> HIDE DEF u, d, same
  <2>6. u.value[v] = cur(i)
    BY <2>2, <2>4, <2>5
  <2> HIDE DEF cur
  <2> QED
    BY <1>7, <2>1, <2>4, <2>6 DEF u, d
<1>10. Through(Agreeing(c, up, v), Valued(first, v, first.value[d1]), rest) \in P[Len(rest)]
  BY <1>6, <1>8, <1>9, TraceKeeps
<1>11. OutputValue(c, up, s, v).value[v] = cur(Len(rest))
  BY <1>2, <1>6, <1>7, <1>10
<1>12. same(Len(rest)) <=> \A d \in ToSet(c.ins[v]) : of[d] = of[d1]
  BY <1>6
<1>13. Agreement(c, v, of) = IF \A d \in ToSet(c.ins[v]) : of[d] = of[d1] THEN of[d1] ELSE Unknown
  BY DEF Agreement, d1
<1> QED
  BY <1>11, <1>12, <1>13

-----------------------------------------------------------------------------
(* Calls after the edge: the cells have settled and stage what they have.  *)

Calm(c, E, s) ==
    /\ Clean(c, Aside(c), E, s)
    /\ \A g \in s.active : ~Gate(c, g)
    /\ \A f \in Of(c, "seq") :
         /\ s.staged[f] = <<>>
         /\ s.prevClk[f] = Level(c, E, f)
         /\ Rest(c, f, E[f], Signals(c, E, f)["clear"]) = E[f]

\* The memories a call of updateValue leaves that changes gates at most, and
\* those of A.
Calmed(c, E, A, s) ==
    {t \in Like(c, s) :
       /\ t.active = s.active
       /\ \A w \in Vertices(c) : w \notin A => t.value[w] = s.value[w]
       /\ Calm(c, E, t)}

LEMMA CalmFacts ==
    ASSUME NEW c, NEW E, NEW s, Calm(c, E, s)
    PROVE  /\ s \in Memory(c)
           /\ Steady(c, s)
           /\ \A w \in Vertices(c) : Leaf(c, w) => s.value[w] = E[w]
           /\ Clean(c, Aside(c), E, s)
           /\ \A level : \A v : Higher(c, level, s, v)
BY DEF Calm, Clean, SameLeaves, Higher

LEMMA CalmOn ==
    ASSUME NEW c, NEW E, NEW A, NEW s, NEW t \in Calmed(c, E, A, s), NEW u \in Calmed(c, E, A, t)
    PROVE  u \in Calmed(c, E, A, s)
BY LikeLike DEF Calmed

LEMMA CalmMore ==
    ASSUME NEW c, NEW E, NEW A, NEW B, A \subseteq B, NEW s, NEW t \in Calmed(c, E, A, s)
    PROVE  t \in Calmed(c, E, B, s)
BY DEF Calmed

LEMMA CalmSelf ==
    ASSUME NEW c, NEW E, NEW A, NEW s, Calm(c, E, s)
    PROVE  s \in Calmed(c, E, A, s) /\ s \in Memory(c)
<1>1. s \in Memory(c)
  BY CalmFacts
<1> QED
  BY <1>1, LikeSelf DEF Calmed

\* No gate that v looks at feeds a cell.
Upright(c, v) == \A d \in ToSet(c.ins[v]) : Gate(c, d) => d \in Aside(c)

\* A gate is evaluated as it should be.
LEMMA CalmGate ==
    ASSUME NEW c, Built(c), Flat(c), NEW level \in Layers(c), NEW n \in Nat,
           NEW up, Cleaning(c, level, n, up),
           NEW E \in Assignments(c), NEW s, Calm(c, E, s), NEW v \in Gates(c), level[v] < n
    PROVE  /\ up[<<s, v>>] \in Calmed(c, E, Gates(c), s)
           /\ Upright(c, v) => up[<<s, v>>].value[v] = Cone(c, E, v)
<1> DEFINE u == up[<<s, v>>]
<1>1. Clean(c, Aside(c), E, s) /\ Higher(c, level, s, v)
  BY CalmFacts
<1>2. Closed(c, Aside(c))
  BY AsideFacts
<1>3. CleanTo(c, Aside(c), E, s, v, u)
  BY <1>1, <1>2 DEF Cleaning
<1> HIDE DEF u
<1>4. u \in Kept(c, Gates(c), s) /\ Clean(c, Aside(c), E, u)
  BY <1>3 DEF CleanTo
<1>5. u \in Calmed(c, E, Gates(c), s)
  BY <1>4 DEF Kept, Calmed, Calm
<1>6. Upright(c, v) => u.value[v] = Cone(c, E, v)
  BY <1>3 DEF CleanTo, Upright
<1> QED
  BY <1>5, <1>6 DEF u

\* A cell that is evaluated on its own stages the value it has.
LEMMA CalmLooks ==
    ASSUME NEW c, Built(c), Flat(c), ClockedOutside(c), NEW level \in Layers(c), NEW n \in Nat,
           NEW up, Cleaning(c, level, n, up), Idle(c, up), \A g \in Gates(c) : level[g] < n,
           NEW E \in Assignments(c), NEW s, Calm(c, E, s), NEW f \in Of(c, "seq")
    PROVE  /\ Looking(c, up, Calmed(c, E, Gates(c), s), f, WakingPins(c, E, f))
           /\ Signalled(WakingPins(c, E, f))
<1> DEFINE K == Calmed(c, E, Gates(c), s)
           X == WakingPins(c, E, f)
<1>1. K \subseteq Memory(c)
  BY DEF Calmed, Like
<1>2. ASSUME NEW t \in K, NEW name \in PinNames, Has(c, f, name)
      PROVE  Look(c, up, t, f, name) \in K /\ Look(c, up, t, f, name).value[Pin(c, f, name)] \in X[name]
  <2> DEFINE p == Pin(c, f, name)
             u == Look(c, up, t, f, name)
  <2>1. p \in Vertices(c) /\ p \in ToSet(c.ins[f]) /\ f \in Vertices(c)
    BY <1>2, PinVertex
  <2>2. Gate(c, p) \/ Leaf(c, p)
    BY <2>1, GateOrLeaf
  <2>3. Calm(c, E, t) /\ t \in Memory(c)
    BY <1>1 DEF Calmed
  <2>4. Leaf(c, p) => u = t /\ t.value[p] = E[p]
    BY <2>1, <2>3, CalmFacts DEF Look, Idle, Leaf
  <2>5. Gate(c, p) => u \in K
    <3> SUFFICES ASSUME Gate(c, p) PROVE u \in K
      OBVIOUS
    <3>1. u = up[<<t, p>>]
      BY <1>2, KindsApart DEF Look
    <3>2. p \in Gates(c) /\ level[p] < n
      BY <2>1 DEF Gates
    <3> HIDE DEF p, u
    <3>3. u \in Calmed(c, E, Gates(c), t)
      BY <2>3, <3>1, <3>2, CalmGate
    <3> QED
      BY <3>3, CalmOn
  <2>6. u \in K
    BY <2>2, <2>4, <2>5
  <2>8. u.value[p] \in Values
    BY <1>1, <2>1, <2>6, MemoryFields
  <2>9. name = "clk" => u.value[p] = Level(c, E, f)
    BY <2>4 DEF ClockedOutside, Level, Leaf
  <2>10. name = "clear" /\ c.cell[f].async => u.value[p] = Signals(c, E, f)["clear"]
    <3> SUFFICES ASSUME name = "clear", c.cell[f].async PROVE u.value[p] = Signals(c, E, f)["clear"]
      OBVIOUS
    <3>1. Leaf(c, p)
      BY <1>2 DEF ClockedOutside, Leaf
    <3>2. Cone(c, E, p) = E[p]
      BY <2>1, <3>1, ConeValues
    <3>3. Signals(c, E, f)["clear"] = Cone(c, E, p)
      BY <1>2, SignalsFacts
    <3> QED
      BY <2>4, <3>1, <3>2, <3>3
  <2>11. u.value[p] \in X[name]
    <3> HIDE DEF u, p
    <3> QED
      BY <2>8, <2>9, <2>10 DEF WakingPins
  <2> QED
    BY <2>6, <2>11
<1>3. Signalled(X)
  <2>1. Level(c, E, f) \in Values
    BY LevelValues
  <2>2. Signals(c, E, f)["clear"] \in Values
    BY SignalsFacts DEF PinNames
  <2>3. Values # {}
    BY DEF Values
  <2> QED
    BY <2>1, <2>2, <2>3 DEF WakingPins, Signalled
<1> HIDE DEF K, X
<1>4. Looking(c, up, K, f, X)
  BY <1>1, <1>2 DEF Looking
<1> QED
  BY <1>3, <1>4 DEF K, X

LEMMA CalmCell ==
    ASSUME NEW c, Built(c), Flat(c), ClockedOutside(c), NEW level \in Layers(c), NEW n \in Nat,
           NEW up, Cleaning(c, level, n, up), Idle(c, up), \A g \in Gates(c) : level[g] < n,
           NEW E \in Assignments(c), NEW s, Calm(c, E, s), NEW f \in Of(c, "seq")
    PROVE  Commit(Stage(c, up, s, f), f) \in Calmed(c, E, Gates(c), s)
<1> DEFINE K == Calmed(c, E, Gates(c), s)
           X == WakingPins(c, E, f)
           k == Level(c, E, f)
<1>1. Looking(c, up, K, f, X) /\ Signalled(X) /\ c.cell[f].ff /\ s \in K
  BY CalmLooks, CalmSelf DEF ClockedOutside
<1>2. Stages(c, K, f, X, Stage(c, up, s, f))
  <2> HIDE DEF K, X
  <2> QED
    BY <1>1, StageWithin
<1>3. PICK r \in K, a \in K, b \in K, pins \in [PinNames -> Values] :
        /\ \A name \in PinNames : pins[name] \in X[name]
        /\ Stage(c, up, s, f) = Staged(r, f, Outcome(c, f, a.value[f], b.prevClk[f], pins), pins["clk"])
  BY <1>2 DEF Stages
<1>4. f \in Vertices(c) /\ Leaf(c, f) /\ f \notin Gates(c)
  BY KindsApart DEF Of, Leaf, Gates
<1>5. a.value[f] = E[f] /\ b.prevClk[f] = k /\ r.value[f] = E[f] /\ r.prevClk[f] = k
  BY <1>4, CalmFacts DEF Calmed, Calm
<1>6. pins["clk"] = k
  BY <1>3 DEF WakingPins, PinNames
<1>7. Outcome(c, f, a.value[f], b.prevClk[f], pins) = E[f]
  <2>1. Outcome(c, f, a.value[f], b.prevClk[f], pins) = Rest(c, f, E[f], pins["clear"])
    BY <1>5, <1>6, NoEdge, OutcomeRest
  <2>2. c.cell[f].async => pins["clear"] = Signals(c, E, f)["clear"]
    BY <1>3 DEF WakingPins, PinNames
  <2>3. Rest(c, f, E[f], pins["clear"]) = Rest(c, f, E[f], Signals(c, E, f)["clear"])
    BY <2>2 DEF Rest, AsyncBy
  <2> QED
    BY <2>1, <2>3 DEF Calm
<1> DEFINE u == Staged(r, f, E[f], k)
           w == Committed(u, f, E[f], k)
<1>8. r \in Memory(c) /\ E[f] \in Values /\ k \in Values
  BY <1>4, LevelValues DEF Calmed, Like, Assignments
<1>9. /\ u \in Like(c, r) /\ u.staged[f] = <<E[f], k>>
      /\ \A g \in Of(c, "seq") \ {f} : u.staged[g] = r.staged[g]
      /\ u.value = r.value /\ u.prevClk = r.prevClk /\ u.active = r.active
  BY <1>8, StagedFacts
<1>10. Commit(Stage(c, up, s, f), f) = w
  <2>1. Stage(c, up, s, f) = u
    BY <1>3, <1>6, <1>7
  <2> HIDE DEF u
  <2> QED
    BY <1>9, <2>1, CommitPending
<1> HIDE DEF u
<1>11. u \in Memory(c)
  BY <1>9 DEF Like
<1>12. /\ w \in Like(c, u)
       /\ w.value[f] = E[f] /\ \A v \in Vertices(c) \ {f} : w.value[v] = u.value[v]
       /\ w.prevClk[f] = k /\ \A g \in Of(c, "seq") \ {f} : w.prevClk[g] = u.prevClk[g]
       /\ w.staged[f] = <<>> /\ \A g \in Of(c, "seq") \ {f} : w.staged[g] = u.staged[g]
       /\ w.active = u.active
  BY <1>8, <1>11, CommittedFacts
<1> HIDE DEF w
<1>13. w \in Memory(c) /\ w.active = r.active /\ w \in Like(c, r)
  BY <1>9, <1>12, LikeLike DEF Like
<1>14. \A v \in Vertices(c) : w.value[v] = r.value[v]
  BY <1>5, <1>9, <1>12
<1>15. \A g \in Of(c, "seq") : w.prevClk[g] = r.prevClk[g] /\ w.staged[g] = r.staged[g]
  BY <1>5, <1>9, <1>12 DEF Calmed, Calm
<1>16. Calm(c, E, r)
  BY DEF Calmed
<1>17. Clean(c, Aside(c), E, w)
  <2>1. \A g \in Of(c, "seq") : g \in Vertices(c)
    BY DEF Of
  <2>2. \A g \in Aside(c) : g \in Vertices(c)
    BY DEF Aside, Gates
  <2> QED
    BY <1>13, <1>14, <1>16, <2>1, <2>2 DEF Calm, Clean, Steady, SameLeaves
<1>18. Calm(c, E, w)
  BY <1>13, <1>15, <1>16, <1>17 DEF Calm
<1>19. w \in Calmed(c, E, Gates(c), r)
  BY <1>13, <1>14, <1>18 DEF Calmed
<1> QED
  BY <1>10, <1>19, CalmOn

\* What an output asks: any driver.
LEMMA CalmCall ==
    ASSUME NEW c, Built(c), Flat(c), ClockedOutside(c), NEW E \in Assignments(c), NEW s, Calm(c, E, s),
           NEW d \in Vertices(c), Gate(c, d) \/ Leaf(c, d), NEW up, Updating(c, up),
           NEW n \in Nat, n > Cardinality(Vertices(c)) + 1
    PROVE  /\ up[n][<<s, d>>] \in Calmed(c, E, Gates(c), s)
           /\ Leaf(c, d) \/ Upright(c, d) => up[n][<<s, d>>].value[d] = Cone(c, E, d)
<1>1. PICK level : level \in Layers(c)
  BY DEF Flat
<1>2. Cardinality(Vertices(c)) \in Nat
  BY DepthNat
<1>3. n - 1 \in Nat /\ n = (n - 1) + 1 /\ \A g \in Gates(c) : level[g] < n - 1 /\ level[g] < n
  <2>1. \A g \in Gates(c) : level[g] \in Nat /\ level[g] <= Cardinality(Vertices(c))
    BY <1>1, <1>2 DEF Layers
  <2> QED
    BY <1>2, <2>1
<1>4. s \in Memory(c)
  BY CalmFacts
<1>5. CASE Gate(c, d)
  <2>1. Cleaning(c, level, n, up[n]) /\ d \in Gates(c) /\ ~Leaf(c, d)
    BY <1>1, <1>5, UpdateClean, KindsApart DEF Gates
  <2> QED
    BY <1>1, <1>3, <2>1, CalmGate
<1>6. CASE Primary(c, d)
  <2>1. up[n][<<s, d>>] = s
    BY <1>4, <1>6, UpdateIdle DEF Idle
  <2>2. s \in Calmed(c, E, Gates(c), s)
    BY CalmSelf
  <2>3. s.value[d] = Cone(c, E, d)
    BY <1>6, CalmFacts, ConeValues DEF Leaf
  <2> QED
    BY <2>1, <2>2, <2>3
<1>7. CASE c.kind[d] = "seq"
  <2> DEFINE u == Commit(Stage(c, up[n - 1], s, d), d)
  <2>1. Cleaning(c, level, n - 1, up[n - 1]) /\ Idle(c, up[n - 1])
    BY <1>1, <1>3, UpdateClean, UpdateIdle
  <2>2. d \in Of(c, "seq") /\ Leaf(c, d)
    BY <1>7 DEF Of, Leaf
  <2>3. up[n][<<s, d>>] = u
    BY <1>3, <1>4, <2>2, UpdateCell
  <2>4. u \in Calmed(c, E, Gates(c), s)
    BY <1>1, <1>3, <2>1, <2>2, CalmCell
  <2> HIDE DEF u
  <2>5. u.value[d] = Cone(c, E, d)
    BY <2>2, <2>4, CalmFacts, ConeValues DEF Calmed
  <2> QED
    BY <2>3, <2>4, <2>5
<1> QED
  BY <1>5, <1>6, <1>7 DEF Leaf

-----------------------------------------------------------------------------
(* The outputs, one after another.                                         *)

LEMMA CalmValued ==
    ASSUME NEW c, NEW E, NEW A, NEW s, NEW t \in Calmed(c, E, A, s),
           NEW o \in Of(c, "output"), o \in A, NEW x \in Values
    PROVE  /\ Valued(t, o, x) \in Calmed(c, E, A, s)
           /\ Valued(t, o, x).value[o] = x
<1> DEFINE u == Valued(t, o, x)
<1>1. t \in Memory(c) /\ Calm(c, E, t)
  BY DEF Calmed, Like
<1>2. o \in Vertices(c) /\ ~Gate(c, o) /\ ~Leaf(c, o) /\ c.kind[o] # "seq"
  BY KindsApart DEF Of, Gate, GateTypes
<1>3. /\ u \in Like(c, t) /\ u.value[o] = x
      /\ \A w \in Vertices(c) \ {o} : u.value[w] = t.value[w]
      /\ u.prevClk = t.prevClk /\ u.staged = t.staged /\ u.active = t.active
  BY <1>1, <1>2, ValuedFacts
<1> HIDE DEF u
<1>4. u \in Memory(c)
  BY <1>3 DEF Like
<1>5. \A w \in Vertices(c) : Leaf(c, w) \/ Gate(c, w) \/ c.kind[w] = "seq" => u.value[w] = t.value[w]
  BY <1>2, <1>3
<1>6. Clean(c, Aside(c), E, u)
  <2>1. \A g \in Of(c, "seq") : g \in Vertices(c) /\ c.kind[g] = "seq"
    BY DEF Of
  <2>2. \A g \in Aside(c) : g \in Vertices(c) /\ Gate(c, g)
    BY DEF Aside, Gates
  <2> QED
    BY <1>1, <1>3, <1>4, <1>5, <2>1, <2>2 DEF Calm, Clean, Steady, SameLeaves
<1>7. Calm(c, E, u)
  BY <1>1, <1>3, <1>6 DEF Calm
<1>8. \A w \in Vertices(c) : w \notin A => u.value[w] = t.value[w]
  BY <1>3
<1>9. u \in Calmed(c, E, A, t)
  BY <1>3, <1>7, <1>8 DEF Calmed
<1> QED
  BY <1>3, <1>9, CalmOn DEF u

LEMMA CalmWithin ==
    ASSUME NEW c, NEW E, NEW s, Calm(c, E, s), NEW A \in SUBSET Vertices(c), \A g \in A : ~Gate(c, g)
    PROVE  /\ Calm(c, E, Within(s, A))
           /\ Within(s, A) \in Like(c, s)
           /\ Within(s, A).value = s.value
           /\ Within(s, A).active = A
<1> DEFINE u == Within(s, A)
<1>1. s \in Memory(c)
  BY CalmFacts
<1>2. /\ u \in Like(c, s) /\ u.active = A /\ u.value = s.value
      /\ u.prevClk = s.prevClk /\ u.staged = s.staged
  BY <1>1, WithinFacts
<1> HIDE DEF u
<1>3. u \in Memory(c)
  BY <1>2 DEF Like
<1>4. \A g \in Aside(c) : Gate(c, g)
  BY DEF Aside, Gates
<1>5. Clean(c, Aside(c), E, u)
  BY <1>2, <1>3, <1>4 DEF Calm, Clean, Steady
<1>6. Calm(c, E, u)
  BY <1>2, <1>5 DEF Calm
<1> QED
  BY <1>2, <1>6 DEF u

\* An output is evaluated: the gates below it at most, and it.
LEMMA CalmOutput ==
    ASSUME NEW c, Built(c), Flat(c), ClockedOutside(c), NEW E \in Assignments(c), NEW s, Calm(c, E, s), s.active = {},
           NEW o \in Of(c, "output")
    PROVE  /\ Update(c)[<<s, o>>] \in Calmed(c, E, Gates(c) \cup {o}, s)
           /\ (\A d \in ToSet(c.ins[o]) : Below(c, d) \cap Feeding(c) = {}) =>
                Update(c)[<<s, o>>].value[o] = Cone(c, E, o)
<1>1. PICK all : Updating(c, all) /\ Update(c) = all[Depth(c)]
  BY UpdatingExists
<1>2. /\ o \in Vertices(c) /\ ~Gate(c, o) /\ ~Leaf(c, o) /\ c.kind[o] = "output" /\ o \notin Gates(c)
  BY KindsApart DEF Of, Gate, GateTypes, Gates
<1>3. s \in Memory(c)
  BY CalmFacts
<1>4. Depth(c) - 1 \in Nat /\ Depth(c) = (Depth(c) - 1) + 1 /\ Depth(c) - 1 > Cardinality(Vertices(c)) + 1
  BY <1>2, DepthNat, DepthBig
<1> DEFINE n == Depth(c) - 1
           up == all[n]
           A == Gates(c) \cup {o}
           in == Inner(s, o)
           K == Calmed(c, E, A, in)
           out == OutputValue(c, up, in, o)
           of == ConeOf(c, E)
           res == Update(c)[<<s, o>>]
<1>5. res = Guarded(c, up, s, o)
  BY <1>1, <1>2, <1>3, <1>4, UpdateGate
<1>6. res = IF c.ins[o] = <<>> THEN Valued(s, o, Unknown) ELSE Within(out, s.active)
  <2> HIDE DEF up, res
  <2>1. o \notin s.active
    OBVIOUS
  <2> QED
    BY <1>2, <1>3, <1>5, <2>1, GuardedIs
<1>7. Cone(c, E, o) = IF c.ins[o] = <<>> THEN Unknown ELSE Agreement(c, o, of)
  <2>1. Cone(c, E, o) = Worth(c, E, o, of)
    BY <1>2, ConeIs
  <2> QED
    BY <1>2, <2>1 DEF Worth
<1>8. s \in Calmed(c, E, A, s) /\ o \in A /\ Gates(c) \subseteq A /\ Unknown \in Values
  BY CalmSelf DEF Values, Unknown
<1>9. Valued(s, o, Unknown) \in Calmed(c, E, A, s) /\ Valued(s, o, Unknown).value[o] = Unknown
  BY <1>8, CalmValued
<1>10. CASE c.ins[o] = <<>>
  BY <1>6, <1>7, <1>9, <1>10
<1>11. CASE c.ins[o] # <<>>
  <2>1. Working(c, o)
    BY <1>2, <1>11 DEF Working
  <2>2. in = Within(Valued(s, o, Unknown), {o})
    BY DEF Inner
  <2> HIDE DEF in
  <2>3. /\ Calm(c, E, in) /\ in.active = {o} /\ in \in Like(c, s)
        /\ \A w \in Vertices(c) : w \notin A => in.value[w] = s.value[w]
    <3> DEFINE u == Valued(s, o, Unknown)
    <3>1. Calm(c, E, u) /\ u \in Like(c, s) /\ \A w \in Vertices(c) : w \notin A => u.value[w] = s.value[w]
      BY <1>9 DEF Calmed
    <3>2. in = Within(u, {o})
      BY <2>2
    <3> HIDE DEF u, A
    <3>3. Calm(c, E, in) /\ in \in Like(c, u) /\ in.value = u.value /\ in.active = {o}
      BY <1>2, <3>1, <3>2, CalmWithin
    <3>4. in \in Like(c, s)
      BY <3>1, <3>3, LikeLike
    <3> QED
      BY <3>1, <3>3, <3>4
  <2>4. in \in K
    BY <2>3, CalmSelf
  <2>5. ASSUME NEW t \in K, NEW d \in ToSet(c.ins[o])
        PROVE  /\ up[<<t, d>>] \in K
               /\ up[<<t, d>>].value[o] = t.value[o]
               /\ Below(c, d) \cap Feeding(c) = {} => up[<<t, d>>].value[d] = of[d]
    <3>1. d \in Vertices(c) /\ (Gate(c, d) \/ Leaf(c, d))
      BY <1>2, <2>5, GateOrLeaf
    <3>2. Calm(c, E, t)
      BY <2>5 DEF Calmed
    <3>3. /\ up[<<t, d>>] \in Calmed(c, E, Gates(c), t)
          /\ Leaf(c, d) \/ Upright(c, d) => up[<<t, d>>].value[d] = Cone(c, E, d)
      BY <1>1, <1>4, <3>1, <3>2, CalmCall
    <3>4. Below(c, d) \cap Feeding(c) = {} => Upright(c, d)
      BY <3>1, AsideFacts DEF Upright
    <3>5. of[d] = Cone(c, E, d)
      BY <3>1 DEF ConeOf
    <3> HIDE DEF up, of
    <3>6. up[<<t, d>>].value[o] = t.value[o]
      BY <1>2, <3>3 DEF Calmed
    <3>7. up[<<t, d>>] \in K
      BY <1>8, <3>3, CalmMore, CalmOn
    <3> QED
      BY <3>3, <3>4, <3>5, <3>6, <3>7
  <2>6. Asking(c, up, K, o)
    <3>1. K \subseteq Memory(c)
      BY DEF Calmed, Like
    <3>2. \A t \in K : \A x \in Values : Valued(t, o, x) \in K
      BY <1>8, CalmValued
    <3> HIDE DEF K, up
    <3> QED
      BY <2>5, <3>1, <3>2 DEF Asking
  <2>7. out \in K
    <3> HIDE DEF K, up
    <3> QED
      BY <2>1, <2>4, <2>6, OutputWithin
  <2>8. (\A d \in ToSet(c.ins[o]) : Below(c, d) \cap Feeding(c) = {}) => out.value[o] = Cone(c, E, o)
    <3> SUFFICES ASSUME \A d \in ToSet(c.ins[o]) : Below(c, d) \cap Feeding(c) = {}
                 PROVE  out.value[o] = Cone(c, E, o)
      OBVIOUS
    <3> HIDE DEF K, up, of
    <3>1. Saying(c, up, K, o, of)
      BY <2>5 DEF Saying
    <3>2. out.value[o] = Agreement(c, o, of)
      BY <2>1, <2>4, <2>6, <3>1, OutputGives
    <3> QED
      BY <1>7, <1>11, <3>2
  <2> HIDE DEF out
  <2>9. Calm(c, E, out) /\ out \in Like(c, in) /\ \A w \in Vertices(c) : w \notin A => out.value[w] = in.value[w]
    BY <2>7 DEF Calmed
  <2>10. res = Within(out, {})
    BY <1>6, <1>11
  <2> HIDE DEF res, A
  <2>11. Calm(c, E, res) /\ res \in Like(c, out) /\ res.value = out.value /\ res.active = {}
    BY <2>9, <2>10, CalmWithin
  <2>12. res \in Like(c, s)
    BY <2>3, <2>9, <2>11, LikeLike
  <2>13. res \in Calmed(c, E, A, s)
    BY <2>3, <2>9, <2>11, <2>12 DEF Calmed
  <2> QED
    BY <2>8, <2>11, <2>13 DEF res, A
<1> QED
  BY <1>10, <1>11

\* No gate below an output's own driver feeds a cell.
ApartFrom(c, o) == \A d \in ToSet(c.ins[o]) : Below(c, d) \cap Feeding(c) = {}

\* The outputs of the top graph have the values E makes of them.
Evaluated(c, E, s) ==
    {t \in Like(c, s) :
       /\ t.active = {}
       /\ Calm(c, E, t)
       /\ \A o \in ToSet(c.output["top"]) : ApartFrom(c, o) => t.value[o] = Cone(c, E, o)}

\* No later output changes an earlier one.
LEMMA OutputsEvaluated ==
    ASSUME NEW c, Built(c), Flat(c), ClockedOutside(c), NEW E \in Assignments(c), NEW s, Calm(c, E, s), s.active = {}
    PROVE  Through(Update(c), s, c.output["top"]) \in Evaluated(c, E, s)
<1> DEFINE list == c.output["top"]
           settled(t, o) == ApartFrom(c, o) => t.value[o] = Cone(c, E, o)
           K == {t \in Like(c, s) : t.active = {} /\ Calm(c, E, t)}
           P == [i \in Int |-> {t \in K : \A j \in 1..i : settled(t, list[j])}]
<1>1. Len(list) \in Nat /\ ToSet(list) = {list[i] : i \in 1..Len(list)}
  <2>1. list \in Seq(Of(c, "output"))
    BY TopGraph, GraphLists
  <2> HIDE DEF list
  <2> QED
    BY <2>1 DEF ToSet
<1>2. \A i \in 1..Len(list) : list[i] \in Of(c, "output")
  <2>1. ToSet(list) \subseteq Of(c, "output")
    BY TopGraph, GraphLists
  <2> QED
    BY <1>1, <2>1
<1>3. s \in K
  BY CalmFacts, LikeSelf
<1> HIDE DEF list
<1>4. \A i \in Int : P[i] = {t \in K : \A j \in 1..i : settled(t, list[j])}
  OBVIOUS
<1> HIDE DEF P
<1>5. s \in P[0]
  <2>1. \A j \in 1..0 : FALSE
    OBVIOUS
  <2> QED
    BY <1>3, <1>4, <2>1
<1>6. ASSUME NEW i \in 1..Len(list), NEW t \in P[i - 1]
      PROVE  Update(c)[<<t, list[i]>>] \in P[i]
  <2> DEFINE o == list[i]
             u == Update(c)[<<t, o>>]
  <2>1. i \in Int /\ i - 1 \in Int /\ o \in Of(c, "output") /\ \A j \in 1..i : j = i \/ j \in 1..(i - 1)
    BY <1>1, <1>2
  <2>2. t \in K /\ \A j \in 1..(i - 1) : settled(t, list[j])
    BY <1>4, <2>1
  <2>3. Calm(c, E, t) /\ t.active = {} /\ t \in Like(c, s)
    BY <2>2
  <2>4. u \in Calmed(c, E, Gates(c) \cup {o}, t) /\ settled(u, o)
    <3> HIDE DEF o
    <3>1. o \in Of(c, "output")
      BY <2>1
    <3>2. u \in Calmed(c, E, Gates(c) \cup {o}, t)
      BY <2>3, <3>1, CalmOutput
    <3>3. (\A d \in ToSet(c.ins[o]) : Below(c, d) \cap Feeding(c) = {}) => u.value[o] = Cone(c, E, o)
      BY <2>3, <3>1, CalmOutput
    <3> HIDE DEF u
    <3> QED
      BY <3>2, <3>3 DEF ApartFrom
  <2> HIDE DEF u
  <2>5. u \in K
    BY <2>3, <2>4, LikeLike DEF Calmed
  <2>6. ASSUME NEW j \in 1..i PROVE settled(u, list[j])
    <3>1. CASE list[j] = o
      BY <2>4, <3>1
    <3>2. CASE list[j] # o
      <4>1. j \in 1..(i - 1) /\ list[j] \in Of(c, "output")
        <5>1. j \in 1..Len(list)
          BY <1>1
        <5> QED
          BY <1>2, <2>1, <3>2, <5>1
      <4>2. list[j] \in Vertices(c) /\ list[j] \notin Gates(c) \cup {o}
        BY <3>2, <4>1, KindsApart DEF Of, Gates
      <4>3. u.value[list[j]] = t.value[list[j]]
        BY <2>4, <4>2 DEF Calmed
      <4> QED
        BY <2>2, <4>1, <4>3
    <3> QED
      BY <3>1, <3>2
  <2> HIDE DEF K, o
  <2> QED
    BY <1>4, <2>1, <2>5, <2>6 DEF u, o
<1>7. Through(Update(c), s, list) \in P[Len(list)]
  BY <1>1, <1>5, <1>6, TraceKeeps
<1> DEFINE r == Through(Update(c), s, list)
<1> HIDE DEF r
<1>8. r \in K /\ \A j \in 1..Len(list) : settled(r, list[j])
  <2>1. Len(list) \in Int
    BY <1>1
  <2> HIDE DEF K
  <2> QED
    BY <1>4, <1>7, <2>1 DEF r
<1>9. \A o \in ToSet(list) : settled(r, o)
  BY <1>1, <1>8
<1>10. r \in Evaluated(c, E, s)
  BY <1>8, <1>9 DEF Evaluated, list
<1> QED
  BY <1>10 DEF r, list

-----------------------------------------------------------------------------
(* graphSimulation of the top graph on one vector.                         *)

Started(c, s, vector) == Driven(c, Invalidated(c, s, "top"), "top", vector)

LEMMA StartedFacts ==
    ASSUME NEW c, Built(c), Flat(c), NEW s, Between(c, s), NEW vector \in VectorsOf(c, "top")
    PROVE  /\ Between(c, Started(c, s, vector))
           /\ Started(c, s, vector) \in Like(c, s)
           /\ \A g \in Gates(c) : Started(c, s, vector).value[g] = Undefined
           /\ \A f \in Of(c, "seq") : /\ Started(c, s, vector).value[f] = s.value[f]
                                      /\ Started(c, s, vector).prevClk[f] = s.prevClk[f]
           /\ SameLeaves(c, Started(c, s, vector).value, Driven(c, s, "top", vector).value)
<1> DEFINE a == Invalidated(c, s, "top")
           b == Started(c, s, vector)
<1>1. s \in Memory(c)
  BY DEF Between
<1>2. /\ a \in Like(c, s)
      /\ a.value = [v \in Vertices(c) |-> IF v \in Worked(c, "top") THEN Undefined ELSE s.value[v]]
      /\ a.prevClk = s.prevClk /\ a.staged = s.staged /\ a.active = s.active
  BY <1>1, InvalidatedFacts
<1> HIDE DEF a
<1>3. a \in Memory(c)
  BY <1>2 DEF Like
<1>4. /\ b \in Like(c, a)
      /\ b.value = [v \in Vertices(c) |-> IF v \in ToSet(c.input["top"]) THEN vector[At(c.input["top"], v)]
                                          ELSE a.value[v]]
      /\ b.prevClk = a.prevClk /\ b.staged = a.staged /\ b.active = a.active
  <2>1. b = Driven(c, a, "top", vector)
    BY DEF Started, a
  <2> HIDE DEF b
  <2> QED
    BY <1>3, <2>1, DrivenFacts
<1> DEFINE d == Driven(c, s, "top", vector)
<1>5. d.value = [v \in Vertices(c) |-> IF v \in ToSet(c.input["top"]) THEN vector[At(c.input["top"], v)]
                                       ELSE s.value[v]]
  BY <1>1, DrivenFacts
<1> HIDE DEF b, d
<1>6. b \in Like(c, s) /\ b \in Memory(c)
  BY <1>2, <1>4, LikeLike DEF Like
<1>7. \A v \in ToSet(c.input["top"]) : v \in Vertices(c) /\ c.kind[v] = "input"
  BY TopGraph, GraphLists DEF Of
<1>8. /\ \A v \in Worked(c, "top") : Gate(c, v) \/ c.kind[v] = "output"
      /\ Gates(c) \subseteq Worked(c, "top")
  <2>1. ToSet(c.sub["top"]) = {}
    BY DEF Flat, ToSet
  <2>2. \A v \in ToSet(c.output["top"]) : c.kind[v] = "output"
    BY TopGraph, GraphLists DEF Of
  <2>3. ToSet(c.gate["top"]) = Gates(c)
    BY DEF Flat
  <2> QED
    BY <2>1, <2>2, <2>3 DEF Worked, Gates
<1>9. \A w \in Vertices(c) : Leaf(c, w) => w \notin Worked(c, "top")
  BY <1>8, KindsApart
<1>10. \A g \in Gates(c) : b.value[g] = Undefined
  <2>1. \A g \in Gates(c) : g \in Vertices(c) /\ g \notin ToSet(c.input["top"])
    BY <1>7, KindsApart DEF Gates
  <2> QED
    BY <1>2, <1>4, <1>8, <2>1
<1>11. \A f \in Of(c, "seq") : b.value[f] = s.value[f] /\ b.prevClk[f] = s.prevClk[f] /\ b.staged[f] = s.staged[f]
  <2>1. \A f \in Of(c, "seq") : f \in Vertices(c) /\ Leaf(c, f) /\ f \notin ToSet(c.input["top"])
    BY <1>7 DEF Of, Leaf
  <2> QED
    BY <1>2, <1>4, <1>9, <2>1
<1>12. SameLeaves(c, b.value, d.value)
  BY <1>2, <1>4, <1>5, <1>9 DEF SameLeaves
<1>13. Between(c, b)
  <2>1. b.active = {}
    BY <1>2, <1>4 DEF Between
  <2>2. Steady(c, s) => Steady(c, b)
    BY <1>11 DEF Steady
  <2>3. Forgetful(c, s) => Forgetful(c, b)
    BY <1>11 DEF Forgetful
  <2> QED
    BY <1>6, <1>11, <2>1, <2>2, <2>3 DEF Between
<1> QED
  BY <1>6, <1>10, <1>11, <1>12, <1>13 DEF b, d

\* There is no latch to settle.
LEMMA LevelledIdle ==
    ASSUME NEW c, Built(c), Flat(c), ClockedOutside(c), NEW s \in Memory(c), NEW up
    PROVE  Levelled(c, up, s, "top") = s
<1> DEFINE call == UpdatingLatches(c, up)
<1>1. \A f \in ToSet(TopSeq(c)) : f \in Of(c, "seq") /\ call[<<s, f>>] = s
  BY TopGraph, GraphLists, LoopCalls DEF ClockedOutside, TopSeq
<1> HIDE DEF call
<1>2. TopSeq(c) \in Seq(Of(c, "seq"))
  BY TopSeqFacts
<1>3. Through(call, s, TopSeq(c)) \in {s}
  <2>1. \A f \in ToSet(TopSeq(c)) : \A t \in {s} : call[<<t, f>>] \in {s}
    BY <1>1
  <2> QED
    BY <1>2, <2>1, TraceStays
<1> QED
  BY <1>3 DEF Levelled, call, TopSeq

\* The cells have what they make of s, nothing else but gates that feed them
\* has changed.
Advanced(c, s) ==
    {t \in Near(c, s) :
       \A f \in Of(c, "seq") : /\ t.value[f] = NextOf(c, s, f)
                               /\ t.prevClk[f] = ClkOf(c, s, f)
                               /\ t.staged[f] = <<>>}

LEMMA ClockedAdvances ==
    ASSUME NEW c, Built(c), Flat(c), ClockedOutside(c), NEW s, Between(c, s), \A g \in Gates(c) : s.value[g] = Undefined
    PROVE  Clocked(c, Update(c), s, "top") \in Advanced(c, s)
<1> DEFINE t == Through(StagingFFs(c, Update(c)), s, c.seq["top"])
           next == [f \in Of(c, "seq") |-> NextOf(c, s, f)]
           clk == [f \in Of(c, "seq") |-> ClkOf(c, s, f)]
           r == Through(CommittingFFs(c), t, c.seq["top"])
<1>1. t \in Sampled(c, s)
  BY ForgottenSampled, SteadySampled DEF Between
<1>2. Clocked(c, Update(c), s, "top") = r
  BY DEF Clocked
<1> HIDE DEF t
<1>3. t \in Near(c, s) /\ t \in Memory(c)
  BY <1>1 DEF Sampled, Near, Like
<1>4. next \in [Of(c, "seq") -> Values] /\ clk \in [Of(c, "seq") -> Values]
  BY NextValue
<1>5. \A f \in Of(c, "seq") : Pending(t, f, next[f], clk[f])
  BY <1>1 DEF Sampled
<1>6. \A f \in Of(c, "seq") : next[f] = NextOf(c, s, f) /\ clk[f] = ClkOf(c, s, f)
  OBVIOUS
<1> HIDE DEF next, clk
<1>7. r \in CommittedAll(c, t, next, clk)
  BY <1>3, <1>4, <1>5, CommitAll
<1> HIDE DEF r
<1>8. r \in Near(c, s)
  <2>1. r \in Like(c, s)
    BY <1>3, <1>7, LikeLike DEF Near, CommittedAll
  <2> QED
    BY <1>3, <1>7, <2>1 DEF Near, CommittedAll
<1>9. \A f \in Of(c, "seq") : r.value[f] = next[f] /\ r.prevClk[f] = clk[f] /\ r.staged[f] = <<>>
  BY <1>7 DEF CommittedAll
<1> QED
  BY <1>2, <1>6, <1>8, <1>9 DEF Advanced

LEMMA AdvancedCalm ==
    ASSUME NEW c, Built(c), Flat(c), ClockedOutside(c), NEW s, Between(c, s), \A g \in Gates(c) : s.value[g] = Undefined,
           NEW t \in Advanced(c, s)
    PROVE  /\ t \in Memory(c) /\ t.active = {} /\ Calm(c, t.value, t) /\ t.value \in Assignments(c)
           /\ \A w \in Vertices(c) : Primary(c, w) => t.value[w] = s.value[w]
<1> DEFINE E == t.value
<1>1. t \in Memory(c) /\ t \in Near(c, s) /\ t.active = {}
  BY DEF Advanced, Near, Like, Between
<1>2. E \in Assignments(c) /\ s.value \in Assignments(c)
  BY <1>1, MemoryFields DEF Assignments, Between
<1>3. \A w \in Vertices(c) : Primary(c, w) => t.value[w] = s.value[w]
  <2>1. \A w \in Vertices(c) : Primary(c, w) => w \notin Feeding(c) /\ c.kind[w] # "seq"
    BY FeedingFacts, KindsApart DEF Closed, Gates
  <2> QED
    BY <1>1, <2>1 DEF Near
<1>4. Steady(c, t)
  BY NextValue DEF Advanced, Steady
<1>5. \A g \in Aside(c) : t.value[g] = Undefined
  <2>1. \A g \in Aside(c) : g \in Gates(c) /\ g \in Vertices(c) /\ g \notin Feeding(c) /\ c.kind[g] # "seq"
    BY KindsApart DEF Aside, Gates
  <2> QED
    BY <1>1, <2>1 DEF Near
<1>6. Clean(c, Aside(c), E, t)
  BY <1>1, <1>4, <1>5 DEF Clean, SameLeaves
<1>7. ASSUME NEW f \in Of(c, "seq")
      PROVE  /\ t.prevClk[f] = Level(c, E, f)
             /\ Rest(c, f, E[f], Signals(c, E, f)["clear"]) = E[f]
  <2>1. Primary(c, Pin(c, f, "clk")) /\ Pin(c, f, "clk") \in Vertices(c)
    <3>1. Has(c, f, "clk") /\ "clk" \in PinNames
      BY DEF ClockedOutside, Has, PinNames
    <3> QED
      BY <3>1, PinVertex DEF ClockedOutside
  <2>2. t.prevClk[f] = Level(c, E, f)
    BY <1>3, <2>1 DEF Advanced, ClkOf, Level
  <2>3. Rest(c, f, E[f], Signals(c, s.value, f)["clear"]) = E[f]
    BY NextValue DEF Advanced
  <2>4. c.cell[f].async => Signals(c, E, f)["clear"] = Signals(c, s.value, f)["clear"]
    <3> SUFFICES ASSUME c.cell[f].async PROVE Signals(c, E, f)["clear"] = Signals(c, s.value, f)["clear"]
      OBVIOUS
    <3>0. "clear" \in PinNames
      BY DEF PinNames
    <3>1. CASE Has(c, f, "clear")
      <4> DEFINE p == Pin(c, f, "clear")
      <4>1. p \in Vertices(c) /\ Primary(c, p) /\ Leaf(c, p)
        BY <3>0, <3>1, PinVertex DEF ClockedOutside, Leaf
      <4>2. Cone(c, E, p) = E[p] /\ Cone(c, s.value, p) = s.value[p]
        BY <1>2, <4>1, ConeValues
      <4>3. Signals(c, E, f)["clear"] = Cone(c, E, p) /\ Signals(c, s.value, f)["clear"] = Cone(c, s.value, p)
        BY <1>2, <3>0, <3>1, SignalsFacts
      <4> QED
        BY <1>3, <4>1, <4>2, <4>3
    <3>2. CASE ~Has(c, f, "clear")
      BY <1>2, <3>0, <3>2, SignalsFacts
    <3> QED
      BY <3>1, <3>2
  <2>5. Rest(c, f, E[f], Signals(c, E, f)["clear"]) = Rest(c, f, E[f], Signals(c, s.value, f)["clear"])
    BY <2>4 DEF Rest, AsyncBy
  <2> QED
    BY <2>2, <2>3, <2>5
<1>8. Calm(c, E, t)
  BY <1>1, <1>6, <1>7 DEF Calm, Advanced
<1> QED
  BY <1>1, <1>2, <1>3, <1>8

\* What graphSimulation leaves and returns.
LEMMA SimulatedTop ==
    ASSUME NEW c, Built(c), Flat(c), ClockedOutside(c), NEW s, Between(c, s), NEW vector \in VectorsOf(c, "top")
    PROVE  LET run == Simulated(c, Update(c), s, "top", vector)
               b == Started(c, s, vector)
           IN  /\ Between(c, run.cells)
               /\ run.cells \in Like(c, s)
               /\ \A f \in Of(c, "seq") : run.cells.value[f] = NextOf(c, b, f)
                                          /\ run.cells.prevClk[f] = ClkOf(c, b, f)
               /\ \A w \in Vertices(c) : Primary(c, w) => run.cells.value[w] = b.value[w]
               /\ \A i \in DOMAIN c.output["top"] : ApartFrom(c, c.output["top"][i]) =>
                    run.outputs[i] = Cone(c, run.cells.value, c.output["top"][i])
<1> DEFINE b == Started(c, s, vector)
           t == Clocked(c, Update(c), b, "top")
           E == t.value
           u == Through(Update(c), t, c.output["top"])
           run == Simulated(c, Update(c), s, "top", vector)
<1>1. Between(c, b) /\ b \in Like(c, s) /\ \A g \in Gates(c) : b.value[g] = Undefined
  BY StartedFacts
<1>2. Levelled(c, Update(c), b, "top") = b
  <2>1. b \in Memory(c)
    BY <1>1 DEF Between
  <2> HIDE DEF b
  <2> QED
    BY <2>1, LevelledIdle
<1>3. run = Answered(c, "top", u)
  BY <1>2 DEF Simulated, Started
<1> HIDE DEF b, run
<1>4. t \in Advanced(c, b)
  BY <1>1, ClockedAdvances
<1> HIDE DEF t
<1>5. /\ t \in Memory(c) /\ t.active = {} /\ Calm(c, E, t) /\ E \in Assignments(c)
      /\ \A w \in Vertices(c) : Primary(c, w) => E[w] = b.value[w]
  BY <1>1, <1>4, AdvancedCalm
<1>6. u \in Evaluated(c, E, t)
  <2> HIDE DEF E
  <2> QED
    BY <1>5, OutputsEvaluated
<1> HIDE DEF u
<1>7. u \in Like(c, t) /\ u.active = {} /\ Calm(c, E, u) /\ u \in Memory(c)
  BY <1>6 DEF Evaluated, Like
<1>8. Steady(c, u) /\ \A w \in Vertices(c) : Leaf(c, w) => u.value[w] = E[w]
  <2> HIDE DEF E
  <2> QED
    BY <1>7, CalmFacts
<1>9. Between(c, u)
  BY <1>7, <1>8 DEF Between, Calm
<1>10. u \in Like(c, s)
  BY <1>1, <1>4, <1>7, LikeLike DEF Advanced, Near
<1>11. \A f \in Of(c, "seq") : u.value[f] = NextOf(c, b, f) /\ u.prevClk[f] = ClkOf(c, b, f)
  <2>1. \A f \in Of(c, "seq") : f \in Vertices(c) /\ Leaf(c, f)
    BY DEF Of, Leaf
  <2>2. \A f \in Of(c, "seq") : u.prevClk[f] = t.prevClk[f]
    <3> HIDE DEF E
    <3> QED
      BY <1>5, <1>7 DEF Calm
  <2> QED
    BY <1>4, <1>8, <2>1, <2>2 DEF Advanced
<1>12. \A v \in Vertices(c) : Cone(c, E, v) = Cone(c, u.value, v)
  <2>1. u.value \in Assignments(c)
    BY <1>7, MemoryFields DEF Assignments
  <2>2. SameLeaves(c, E, u.value)
    BY <1>8 DEF SameLeaves
  <2> HIDE DEF E
  <2> QED
    BY <1>5, <2>1, <2>2, ConeLeaves
<1>13. run.cells = u
  BY <1>3 DEF Answered
<1>14. ASSUME NEW i \in DOMAIN c.output["top"], ApartFrom(c, c.output["top"][i])
       PROVE  run.outputs[i] = Cone(c, u.value, c.output["top"][i])
  <2> DEFINE o == c.output["top"][i]
  <2>1. o \in ToSet(c.output["top"])
    BY DEF ToSet
  <2>2. o \in Vertices(c)
    BY <2>1, TopGraph, GraphLists DEF Of
  <2>3. run.outputs[i] = u.value[o]
    BY <1>3 DEF Answered
  <2> HIDE DEF o
  <2>4. u.value[o] = Cone(c, E, o)
    BY <1>6, <1>14, <2>1 DEF Evaluated, o
  <2> QED
    BY <1>12, <2>2, <2>3, <2>4 DEF o
<1>15. \A w \in Vertices(c) : Primary(c, w) => u.value[w] = b.value[w]
  BY <1>5, <1>8 DEF Leaf
<1> QED
  BY <1>9, <1>10, <1>11, <1>13, <1>14, <1>15 DEF run, b

-----------------------------------------------------------------------------
(* simulationRemove forgets every cell.                                    *)

\* Constants have their value and no cell has anything staged.
Idling(c, s) ==
    /\ s \in Memory(c)
    /\ s.active = {}
    /\ \A f \in Of(c, "seq") : s.staged[f] = <<>>
    /\ \A v \in Of(c, "const") : s.value[v] = c.const[v]

\* The cells of R are forgotten.
Fading(c, R, s) ==
    /\ Idling(c, s)
    /\ \A f \in R : f \in Of(c, "seq") => s.value[f] = Undefined /\ s.prevClk[f] = Unknown

\* A removal of v forgets it when it is a cell, and remembers no other.
Fades(c, rm) ==
    \A R : \A s : Fading(c, R, s) => \A v \in Vertices(c) :
      /\ Fading(c, R \cup {v}, rm[<<s, v>>]) \/ (Fading(c, R, rm[<<s, v>>]) /\ rm[<<s, v>>].endless)
      /\ s.endless => rm[<<s, v>>].endless

LEMMA FadingLess ==
    ASSUME NEW c, NEW R, NEW s, NEW v, Fading(c, R \cup {v}, s)
    PROVE  Fading(c, R, s)
BY DEF Fading

LEMMA FirstFades ==
    ASSUME NEW c, Built(c), Flat(c), NEW R, NEW s, Fading(c, R, s), NEW v \in Vertices(c)
    PROVE  Fading(c, R \cup {v}, First(c, s, v))
<1> DEFINE u == First(c, s, v)
<1>1. s \in Memory(c) /\ s.active = {} /\ Idling(c, s)
  BY DEF Fading, Idling
<1>2. c.kind[v] # "sub"
  BY DEF Flat, Of
<1>3. \A f \in Of(c, "seq") : f \in Vertices(c) /\ c.kind[f] = "seq"
  BY DEF Of
<1>4. \A w \in Of(c, "const") : w \in Vertices(c) /\ c.kind[w] = "const"
  BY DEF Of
<1>5. CASE c.kind[v] = "const"
  <2>1. u = [s EXCEPT !.value[v] = c.const[v]] /\ v \in Of(c, "const")
    <3>1. ~Gate(c, v)
      BY <1>5 DEF Gate, GateTypes
    <3>2. v \in Of(c, "const")
      BY <1>5 DEF Of
    <3> QED
      BY <1>5, <3>1, <3>2 DEF First
  <2>2. c.const[v] \in Values
    BY <2>1 DEF Built
  <2>3. u = Valued(s, v, c.const[v])
    BY <2>1 DEF Valued
  <2> HIDE DEF u
  <2>4. /\ u \in Memory(c) /\ u.prevClk = s.prevClk /\ u.staged = s.staged /\ u.active = s.active
        /\ u.value[v] = c.const[v] /\ \A w \in Vertices(c) \ {v} : u.value[w] = s.value[w]
    BY <1>1, <2>2, <2>3, ValuedFacts DEF Like
  <2>5. v \notin Of(c, "seq")
    BY <1>5 DEF Of
  <2>6. Fading(c, R \cup {v}, u)
    BY <1>1, <1>3, <1>4, <2>4, <2>5 DEF Fading, Idling
  <2> QED
    BY <2>6 DEF u
<1>6. CASE c.kind[v] = "seq"
  <2> DEFINE t == Forgotten(s, v)
  <2>1. u = Cleared(t, v) /\ v \in Of(c, "seq")
    <3>1. ~Gate(c, v)
      BY <1>6 DEF Gate, GateTypes
    <3> QED
      BY <1>6, <3>1 DEF First, Of
  <2>2. /\ t \in Memory(c) /\ t.value = s.value /\ t.active = s.active
        /\ t.prevClk[v] = Unknown /\ t.staged[v] = <<>>
        /\ \A g \in Of(c, "seq") \ {v} : t.prevClk[g] = s.prevClk[g] /\ t.staged[g] = s.staged[g]
    BY <1>1, <2>1, ForgottenFacts
  <2> HIDE DEF t, u
  <2>3. /\ u \in Memory(c) /\ u.prevClk = t.prevClk /\ u.staged = t.staged /\ u.active = t.active
        /\ u.value[v] = Undefined /\ \A w \in Vertices(c) \ {v} : u.value[w] = t.value[w]
    BY <2>1, <2>2, ClearedFacts
  <2>4. Idling(c, u)
    BY <1>1, <1>4, <1>6, <2>2, <2>3 DEF Idling
  <2>5. \A f \in R \cup {v} : f \in Of(c, "seq") => u.value[f] = Undefined /\ u.prevClk[f] = Unknown
    BY <1>3, <2>2, <2>3 DEF Fading
  <2> QED
    BY <2>4, <2>5 DEF Fading, u
<1>7. CASE c.kind[v] \notin {"const", "seq"}
  <2>1. u = Cleared(s, v)
    <3>1. c.kind[v] \in GateTypes \cup {"input", "output"}
      BY <1>2, <1>7 DEF Built
    <3> QED
      BY <3>1, <1>7 DEF First, Gate, GateTypes
  <2> HIDE DEF u
  <2>2. /\ u \in Memory(c) /\ u.prevClk = s.prevClk /\ u.staged = s.staged /\ u.active = s.active
        /\ u.value[v] = Undefined /\ \A w \in Vertices(c) \ {v} : u.value[w] = s.value[w]
    BY <1>1, <2>1, ClearedFacts
  <2>3. Fading(c, R \cup {v}, u)
    BY <1>1, <1>3, <1>4, <1>7, <2>2 DEF Fading, Idling
  <2> QED
    BY <2>3 DEF u
<1> QED
  BY <1>5, <1>6, <1>7

LEMMA RemoveOnceFades ==
    ASSUME NEW c, Built(c), Flat(c), NEW rm, Fades(c, rm), NEW R, NEW s, Fading(c, R, s),
           NEW v \in Vertices(c)
    PROVE  Fading(c, R \cup {v}, RemoveOnce(c, rm, s, v))
<1> DEFINE Q == R \cup {v}
           K == {t \in Memory(c) : Fading(c, Q, t)}
<1>1. Onward(c, v) \in Seq(Vertices(c))
  BY OnwardFacts
<1>2. First(c, s, v) \in K
  <2>1. Fading(c, Q, First(c, s, v))
    BY FirstFades
  <2> HIDE DEF Q
  <2> QED
    BY <2>1 DEF Fading, Idling
<1>3. ASSUME NEW d \in ToSet(Onward(c, v)), NEW t \in K
      PROVE  Going(c, rm, v)[<<t, d>>] \in K
  <2>1. d \in Vertices(c) /\ t \in Memory(c) /\ Fading(c, Q, t)
    BY <1>1 DEF ToSet
  <2> HIDE DEF Q
  <2>2. Fading(c, Q, rm[<<t, d>>])
    BY <2>1, FadingLess DEF Fades
  <2>3. rm[<<t, d>>] \in K
    BY <2>2 DEF Fading, Idling
  <2>4. Going(c, rm, v)[<<t, d>>] = IF Gate(c, v) /\ ~StillDefined(t, d) THEN t ELSE rm[<<t, d>>]
    BY <2>1, GoingIs
  <2> QED
    BY <2>3, <2>4
<1> HIDE DEF K, Q
<1>4. Through(Going(c, rm, v), First(c, s, v), Onward(c, v)) \in K
  BY <1>1, <1>2, <1>3, TraceStays
<1> QED
  BY <1>4, RemoveOnceIs DEF K, Q

LEMMA RemovingFades ==
    ASSUME NEW c, Built(c), Flat(c), NEW rm, Removing(c, rm)
    PROVE  \A n \in Nat : Fades(c, rm[n])
<1> DEFINE S == {n \in Nat : Fades(c, rm[n])}
<1>1. 0 \in S
  <2>1. ASSUME NEW R, NEW s, Fading(c, R, s), NEW v \in Vertices(c)
        PROVE  Fading(c, R, rm[0][<<s, v>>]) /\ rm[0][<<s, v>>].endless
    <3> DEFINE u == [s EXCEPT !.endless = TRUE]
    <3>1. s \in Memory(c)
      BY <2>1 DEF Fading, Idling
    <3>2. rm[0][<<s, v>>] = u
      BY <3>1, RemovingNow
    <3>3. /\ u \in Memory(c) /\ u.endless /\ u.value = s.value /\ u.prevClk = s.prevClk
          /\ u.staged = s.staged /\ u.active = s.active
      BY <3>1 DEF Memory
    <3> HIDE DEF u
    <3> QED
      BY <2>1, <3>2, <3>3 DEF Fading, Idling
  <2> QED
    BY <2>1 DEF Fades
<1>2. ASSUME NEW n \in Nat, n \in S PROVE n + 1 \in S
  <2>1. Fades(c, rm[n])
    BY <1>2
  <2>2. ASSUME NEW R, NEW s, Fading(c, R, s), NEW v \in Vertices(c)
        PROVE  /\ \/ Fading(c, R \cup {v}, rm[n + 1][<<s, v>>])
                  \/ Fading(c, R, rm[n + 1][<<s, v>>]) /\ rm[n + 1][<<s, v>>].endless
               /\ s.endless => rm[n + 1][<<s, v>>].endless
    <3>1. s \in Memory(c)
      BY <2>2 DEF Fading, Idling
    <3>2. rm[n + 1][<<s, v>>] = IF s.endless THEN s ELSE RemoveOnce(c, rm[n], s, v)
      BY <3>1, RemovingIs
    <3>3. Fading(c, R \cup {v}, RemoveOnce(c, rm[n], s, v))
      BY <2>1, <2>2, RemoveOnceFades
    <3> QED
      BY <2>2, <3>2, <3>3
  <2> QED
    BY <2>2 DEF Fades
<1> HIDE DEF S
<1>3. \A n \in Nat : n \in S
  BY <1>1, <1>2, Induction
<1> QED
  BY <1>3 DEF S

LEMMA InBoth ==
    ASSUME NEW S, NEW T, NEW a \in Seq(S), NEW b \in Seq(T)
    PROVE  /\ Len(a \o b) \in Nat
           /\ \A i \in 1..Len(a \o b) : (a \o b)[i] \in S \cup T
           /\ \A x \in ToSet(b) : \E i \in 1..Len(a \o b) : (a \o b)[i] = x
<1>1. Len(a \o b) = Len(a) + Len(b) /\ Len(a) \in Nat /\ Len(b) \in Nat
  OBVIOUS
<1>2. \A i \in 1..Len(a \o b) : (a \o b)[i] = IF i <= Len(a) THEN a[i] ELSE b[i - Len(a)]
  OBVIOUS
<1>3. ASSUME NEW i \in 1..Len(a \o b) PROVE (a \o b)[i] \in S \cup T
  <2>1. CASE i <= Len(a)
    BY <1>1, <1>2, <2>1
  <2>2. CASE ~(i <= Len(a))
    <3>1. i - Len(a) \in 1..Len(b)
      BY <1>1, <2>2
    <3> QED
      BY <1>2, <2>2, <3>1
  <2> QED
    BY <2>1, <2>2
<1>4. ASSUME NEW x \in ToSet(b) PROVE \E i \in 1..Len(a \o b) : (a \o b)[i] = x
  <2>1. PICK k \in 1..Len(b) : b[k] = x
    BY DEF ToSet
  <2>2. Len(a) + k \in 1..Len(a \o b) /\ ~(Len(a) + k <= Len(a)) /\ (Len(a) + k) - Len(a) = k
    BY <1>1
  <2>3. (a \o b)[Len(a) + k] = x
    BY <1>2, <2>1, <2>2
  <2> QED
    BY <2>2, <2>3
<1> QED
  BY <1>1, <1>3, <1>4

\* After simulationRemove no cell remembers anything.
LEMMA ResetForgets ==
    ASSUME NEW c, Built(c), Flat(c), NEW s, Idling(c, s)
    PROVE  LET r == Reset(c, Removal(c), s, "top")
           IN  Idling(c, r) /\ (r.endless \/ Forgetful(c, r))
<1> DEFINE rm == Removal(c)
           list == c.output["top"] \o c.seq["top"]
           r == Through(rm, s, list)
           done(i) == {list[j] : j \in 1..i}
           P == [i \in Int |-> {t \in Memory(c) : Fading(c, done(i), t) \/ (Idling(c, t) /\ t.endless)}]
<1>1. Fades(c, rm)
  BY RemovingExists, RemovingFades, DepthNat
<1>2. Reset(c, Removal(c), s, "top") = r
  BY DEF Reset
<1>3. /\ Len(list) \in Nat
      /\ \A i \in 1..Len(list) : list[i] \in Vertices(c)
      /\ \A f \in Of(c, "seq") : \E i \in 1..Len(list) : list[i] = f
  <2>1. c.output["top"] \in Seq(Of(c, "output")) /\ c.seq["top"] \in Seq(Of(c, "seq"))
    BY TopGraph, GraphLists
  <2>2. Of(c, "output") \cup Of(c, "seq") \subseteq Vertices(c)
    BY DEF Of
  <2>3. Of(c, "seq") = ToSet(c.seq["top"])
    BY DEF Flat
  <2> DEFINE a == c.output["top"]
             b == c.seq["top"]
             S == Of(c, "output")
             T == Of(c, "seq")
  <2>6. a \in Seq(S) /\ b \in Seq(T)
    BY <2>1
  <2> HIDE DEF a, b, S, T
  <2>4. /\ Len(a \o b) \in Nat
        /\ \A i \in 1..Len(a \o b) : (a \o b)[i] \in S \cup T
        /\ \A x \in ToSet(b) : \E i \in 1..Len(a \o b) : (a \o b)[i] = x
    BY <2>6, InBoth
  <2>5. list = a \o b /\ ToSet(b) = Of(c, "seq")
    BY <2>3 DEF a, b
  <2> HIDE DEF list
  <2> QED
    BY <2>2, <2>4, <2>5 DEF S, T
<1> HIDE DEF list, rm
<1>4. \A i \in Int : P[i] = {t \in Memory(c) : Fading(c, done(i), t) \/ (Idling(c, t) /\ t.endless)}
  OBVIOUS
<1> HIDE DEF P
<1>5. s \in P[0]
  <2>1. done(0) = {}
    OBVIOUS
  <2>2. Fading(c, {}, s) /\ s \in Memory(c)
    BY DEF Fading, Idling
  <2> HIDE DEF done
  <2> QED
    BY <1>4, <2>1, <2>2
<1>6. ASSUME NEW i \in 1..Len(list), NEW t \in P[i - 1] PROVE rm[<<t, list[i]>>] \in P[i]
  <2> DEFINE v == list[i]
             u == rm[<<t, v>>]
  <2>1. i \in Int /\ i - 1 \in Int /\ v \in Vertices(c)
    BY <1>3
  <2>2. done(i) = done(i - 1) \cup {v}
    <3>1. \A j \in 1..i : j = i \/ j \in 1..(i - 1)
      BY <2>1
    <3>2. i \in 1..i /\ \A j \in 1..(i - 1) : j \in 1..i
      BY <1>3
    <3> QED
      BY <3>1, <3>2
  <2> HIDE DEF done, v
  <2>3. Fading(c, done(i - 1), t) \/ (Idling(c, t) /\ t.endless)
    BY <1>4, <2>1
  <2>4. CASE Fading(c, done(i - 1), t)
    <3>1. Fading(c, done(i), u) \/ (Fading(c, done(i - 1), u) /\ u.endless)
      BY <1>1, <2>1, <2>2, <2>4 DEF Fades
    <3> HIDE DEF u
    <3>2. u \in Memory(c) /\ Idling(c, u)
      BY <3>1 DEF Fading, Idling
    <3>3. u \in P[i]
      BY <1>4, <2>1, <3>1, <3>2
    <3> QED
      BY <3>3 DEF u, v
  <2>5. CASE Idling(c, t) /\ t.endless
    <3>1. Fading(c, {}, t)
      BY <2>5 DEF Fading
    <3>2. Fading(c, {}, u) /\ u.endless
      BY <1>1, <2>1, <2>5, <3>1, FadingLess DEF Fades
    <3> HIDE DEF u
    <3>3. u \in P[i]
      BY <1>4, <2>1, <3>2 DEF Fading, Idling
    <3> QED
      BY <3>3 DEF u, v
  <2> QED
    BY <2>3, <2>4, <2>5
<1>7. r \in P[Len(list)]
  BY <1>3, <1>5, <1>6, TraceKeeps
<1> HIDE DEF r
<1>8. Fading(c, done(Len(list)), r) \/ (Idling(c, r) /\ r.endless)
  BY <1>3, <1>4, <1>7
<1>9. \A f \in Of(c, "seq") : f \in done(Len(list))
  BY <1>3
<1> HIDE DEF done
<1>10. Idling(c, r) /\ (r.endless \/ Forgetful(c, r))
  BY <1>8, <1>9 DEF Fading, Forgetful
<1> QED
  BY <1>2, <1>10

-----------------------------------------------------------------------------
(* Between two calls of a user.                                            *)

\* No call is under way, and the cells have all settled or are all forgotten.
Resting(c, s) == Idling(c, s) /\ (s.endless \/ Between(c, s))

LEMMA FreshRests ==
    ASSUME NEW c, Built(c), Flat(c)
    PROVE  /\ Resting(c, Fresh(c)) /\ Between(c, Fresh(c))
           /\ \A f \in Of(c, "seq") : Fresh(c).value[f] = Unknown /\ Fresh(c).prevClk[f] = Unknown
<1>1. Fresh(c) \in Memory(c)
  BY FreshMemory
<1>2. \A f \in Of(c, "seq") : /\ Fresh(c).value[f] = Unknown
                              /\ Fresh(c).prevClk[f] = Unknown
                              /\ Fresh(c).staged[f] = <<>>
  BY DEF Fresh, Of
<1>3. \A v \in Of(c, "const") : Fresh(c).value[v] = c.const[v]
  BY DEF Fresh, Of
<1>4. Fresh(c).active = {}
  BY DEF Fresh
<1> QED
  BY <1>1, <1>2, <1>3, <1>4 DEF Resting, Idling, Between, Steady, Unknown, Undefined

\* The inputs and constants from which graphSimulation starts.
LEMMA StartedPrimary ==
    ASSUME NEW c, Built(c), Flat(c), NEW s, Between(c, s), Idling(c, s),
           NEW vector \in VectorsOf(c, "top")
    PROVE  /\ \A w \in Of(c, "const") : Started(c, s, vector).value[w] = c.const[w]
           /\ \A w \in Of(c, "input") : Started(c, s, vector).value[w] = vector[At(c.input["top"], w)]
<1> DEFINE b == Started(c, s, vector)
           d == Driven(c, s, "top", vector)
<1>1. SameLeaves(c, b.value, d.value) /\ s \in Memory(c)
  BY StartedFacts DEF Between
<1>2. d.value = [v \in Vertices(c) |-> IF v \in ToSet(c.input["top"]) THEN vector[At(c.input["top"], v)]
                                       ELSE s.value[v]]
  BY <1>1, DrivenFacts
<1> HIDE DEF b, d
<1>3. ToSet(c.input["top"]) = Of(c, "input")
  BY DEF Flat
<1>4. \A w \in Of(c, "const") \cup Of(c, "input") : w \in Vertices(c) /\ Leaf(c, w)
  BY DEF Of, Leaf, Primary
<1>5. \A w \in Of(c, "const") : w \notin Of(c, "input")
  BY DEF Of
<1>6. \A w \in Of(c, "const") : b.value[w] = c.const[w]
  BY <1>1, <1>2, <1>3, <1>4, <1>5 DEF SameLeaves, Idling
<1>7. \A w \in Of(c, "input") : b.value[w] = vector[At(c.input["top"], w)]
  BY <1>1, <1>2, <1>3, <1>4 DEF SameLeaves
<1> QED
  BY <1>6, <1>7 DEF b

LEMMA SimulatedRests ==
    ASSUME NEW c, Built(c), Flat(c), ClockedOutside(c), NEW s, Resting(c, s), ~s.endless,
           NEW vector \in VectorsOf(c, "top")
    PROVE  Resting(c, Simulated(c, Update(c), s, "top", vector).cells)
<1> DEFINE u == Simulated(c, Update(c), s, "top", vector).cells
           b == Started(c, s, vector)
<1>1. Between(c, s) /\ Idling(c, s)
  BY DEF Resting
<1>2. Between(c, u) /\ \A w \in Vertices(c) : Primary(c, w) => u.value[w] = b.value[w]
  BY <1>1, SimulatedTop
<1>3. \A w \in Of(c, "const") : b.value[w] = c.const[w]
  BY <1>1, StartedPrimary
<1> HIDE DEF u, b
<1>4. \A w \in Of(c, "const") : w \in Vertices(c) /\ Primary(c, w)
  BY DEF Of, Primary
<1>5. Idling(c, u)
  BY <1>2, <1>3, <1>4 DEF Idling, Between
<1> QED
  BY <1>2, <1>5 DEF Resting, u

LEMMA ResetRests ==
    ASSUME NEW c, Built(c), Flat(c), NEW s, Resting(c, s)
    PROVE  /\ Resting(c, Reset(c, Removal(c), s, "top"))
           /\ ~Reset(c, Removal(c), s, "top").endless => Forgetful(c, Reset(c, Removal(c), s, "top"))
<1> DEFINE r == Reset(c, Removal(c), s, "top")
<1>1. Idling(c, r) /\ (r.endless \/ Forgetful(c, r))
  BY ResetForgets DEF Resting
<1> HIDE DEF r
<1>2. Forgetful(c, r) => Between(c, r)
  BY <1>1 DEF Idling, Between
<1> QED
  BY <1>1, <1>2 DEF Resting, r

-----------------------------------------------------------------------------
(* The theorems about synchronous circuits.                                *)

Rests == circuit \in Circuits /\ Synchronous(circuit) /\ Resting(circuit, cells)

LEMMA RestsNow ==
    ASSUME Rests
    PROVE  Built(circuit) /\ Flat(circuit) /\ ClockedOutside(circuit) /\ cells \in Memory(circuit)
BY CircuitsAssumption DEF Rests, Resting, Idling, Synchronous

LEMMA RestsNext ==
    ASSUME Rests, [Next]_vars
    PROVE  Rests'
<1>1. Built(circuit) /\ Flat(circuit) /\ ClockedOutside(circuit)
  BY RestsNow
<1>2. ASSUME NEW vector \in Vectors(circuit), GraphSimulation(vector) PROVE Rests'
  <2>1. circuit' = circuit /\ ~cells.endless
        /\ cells' = Simulated(circuit, Update(circuit), cells, "top", vector).cells
    BY <1>2 DEF GraphSimulation
  <2>2. vector \in VectorsOf(circuit, "top")
    BY <1>1, TopVectors
  <2>3. Resting(circuit, Simulated(circuit, Update(circuit), cells, "top", vector).cells)
    BY <1>1, <2>1, <2>2, SimulatedRests DEF Rests
  <2> QED
    BY <2>1, <2>3 DEF Rests
<1>3. CASE SimulationRemove
  <2>1. circuit' = circuit /\ cells' = Reset(circuit, Removal(circuit), cells, "top")
    BY <1>3 DEF SimulationRemove
  <2>2. Resting(circuit, Reset(circuit, Removal(circuit), cells, "top"))
    BY <1>1, ResetRests DEF Rests
  <2> QED
    BY <2>1, <2>2 DEF Rests
<1>4. CASE UNCHANGED vars
  BY <1>4 DEF vars, Rests
<1> QED
  BY <1>2, <1>3, <1>4 DEF Next

LEMMA RestsFirst ==
    ASSUME Init, Synchronous(circuit)
    PROVE  Rests
BY CircuitsAssumption, FreshRests DEF Init, Rests, Synchronous

\* Apart of the model, for one circuit.
LEMMA ApartIs ==
    ASSUME Flat(circuit), NEW o, Apart(o)
    PROVE  ApartFrom(circuit, o)
<1> DEFINE U == UNION {Below(circuit, d) : d \in ToSet(circuit.ins[o])}
           V == UNION {Below(circuit, f) : f \in ToSet(circuit.seq["top"])}
<1>1. V = Feeding(circuit)
  BY DEF Flat, Feeding
<1>2. U \cap Feeding(circuit) = {}
  <2>1. U \cap V = {}
    BY Zenon DEF Apart
  <2> HIDE DEF U, V
  <2> QED
    BY <1>1, <2>1
<1>3. \A d \in ToSet(circuit.ins[o]) : Below(circuit, d) \subseteq U
  OBVIOUS
<1> HIDE DEF U
<1>4. \A d \in ToSet(circuit.ins[o]) : Below(circuit, d) \cap Feeding(circuit) = {}
  BY <1>2, <1>3
<1> QED
  BY <1>4 DEF ApartFrom

(* In a circuit that is clocked from outside, every output apart from the  *)
(* cells answers with what the inputs and the registers of now make of its *)
(* gates, after any sequence of vectors and removals: graphSimulation's    *)
(* invalidation, sampling and commit leave no gate with a value of before  *)
(* the edge, and no output that is computed later disturbs an earlier one. *)
THEOREM OutputsSettledApartCorrect == Spec /\ Synchronous(circuit) => []OutputsSettledApart
<1>1. Init /\ Synchronous(circuit) => Rests /\ OutputsSettledApart
  BY RestsFirst DEF Init, OutputsSettledApart
<1>2. Rests /\ OutputsSettledApart /\ [Next]_vars => (Rests /\ OutputsSettledApart)'
  <2> SUFFICES ASSUME Rests, OutputsSettledApart, [Next]_vars PROVE OutputsSettledApart'
    BY RestsNext
  <2>1. ASSUME NEW vector \in Vectors(circuit), GraphSimulation(vector) PROVE OutputsSettledApart'
    <3> DEFINE c == circuit
               run == Simulated(c, Update(c), cells, "top", vector)
    <3>1. circuit' = c /\ cells' = run.cells /\ answer' = run.outputs /\ ~cells.endless
      BY <2>1 DEF GraphSimulation
    <3>2. Built(c) /\ Flat(c) /\ ClockedOutside(c) /\ Between(c, cells) /\ vector \in VectorsOf(c, "top")
      BY <3>1, RestsNow, TopVectors DEF Rests, Resting
    <3>3. \A i \in DOMAIN c.output["top"] : ApartFrom(c, c.output["top"][i]) =>
            run.outputs[i] = Cone(c, run.cells.value, c.output["top"][i])
      BY <3>2, SimulatedTop
    <3> HIDE DEF run
    <3>4. ASSUME NEW o \in ToSet(c.output["top"]), Apart(o)
          PROVE  run.outputs[At(c.output["top"], o)] = Cone(c, run.cells.value, o)
      <4>1. ApartFrom(c, o)
        BY <3>2, <3>4, ApartIs
      <4>2. At(c.output["top"], o) \in DOMAIN c.output["top"] /\ c.output["top"][At(c.output["top"], o)] = o
        BY AtFacts
      <4> QED
        BY <3>3, <4>1, <4>2
    <3>5. \A o : Apart(o)' <=> Apart(o)
      BY <3>1 DEF Apart
    <3> QED
      BY <3>1, <3>4, <3>5 DEF OutputsSettledApart, Settled
  <2>2. CASE SimulationRemove
    BY <2>2 DEF SimulationRemove, OutputsSettledApart
  <2>3. CASE UNCHANGED vars
    BY <2>3 DEF vars, OutputsSettledApart, Settled, Apart
  <2> QED
    BY <2>1, <2>2, <2>3 DEF Next
<1> QED
  BY <1>1, <1>2, PTL DEF Spec

\* The two stages of a flip-flop make of known signals what its always block does.
LEMMA OutcomeExported ==
    ASSUME NEW c, Built(c), Flat(c), NEW f \in Of(c, "seq"), NEW q, NEW was, NEW pins,
           \A name \in {"clk", "en", "clear", "set"} : pins[name] \in {"0", "1"},
           \A name \in PinNames : ~Has(c, f, name) => pins[name] = "0"
    PROVE  Outcome(c, f, q, was, pins) =
             Exported(c.cell[f], q, was, pins["clk"], pins["data"], pins["en"], pins["clear"], pins["set"])
<1> DEFINE k == c.cell[f]
           clk == pins["clk"]
           data == pins["data"]
           en == pins["en"]
           clear == pins["clear"]
           set == pins["set"]
           tick == Ticks(c, f, was, clk)
           cleared == (k.clear = "RST" /\ clear = "0") \/ (k.clear = "CLR" /\ clear = "1")
           by == By(c, f, tick, pins)
<1>1. k \in CellTypes
  BY DEF Built, CellsBuilt
<1>2. en \in {"0", "1"} /\ clear \in {"0", "1"} /\ set \in {"0", "1"}
  OBVIOUS
<1>3. Say(c, f, "clear", clear) = IF cleared THEN "0" ELSE "none"
  <2>1. Has(c, f, "clear") <=> k.clear # "none"
    BY DEF Has
  <2>2. k.clear \in {"none", "RST", "CLR"}
    BY <1>1 DEF CellTypes
  <2> HIDE DEF k, clear
  <2> QED
    BY <1>2, <2>1, <2>2 DEF Say, Effect, Invert, k
<1>4. Say(c, f, "set", set) = IF k.set /\ set = "1" THEN "1" ELSE "none"
  <2>1. Has(c, f, "set") <=> k.set
    BY DEF Has
  <2> HIDE DEF k, set
  <2> QED
    BY <1>2, <2>1 DEF Say, Effect, Invert
<1>5. Has(c, f, "en") <=> k.en
  BY DEF Has
<1>6. tick <=> IF k.neg THEN was = "1" /\ clk = "0" ELSE was = "0" /\ clk = "1"
  BY DEF Ticks, Edge
<1>7. Outcome(c, f, q, was, pins) =
        IF by # "none" THEN by
        ELSE IF ~tick THEN Held(q)
        ELSE IF k.en /\ en # "1" THEN q ELSE Captured(data)
  BY <1>5 DEF Outcome
<1>8. by = IF (k.async \/ tick) /\ cleared THEN "0"
           ELSE IF tick /\ k.set /\ set = "1" THEN "1" ELSE "none"
  BY <1>3, <1>4 DEF By, Forces
<1>9. Exported(k, q, was, clk, data, en, clear, set) =
        IF k.async /\ cleared THEN "0"
        ELSE IF ~tick THEN Held(q)
        ELSE IF cleared THEN "0"
        ELSE IF k.set /\ set = "1" THEN "1"
        ELSE IF k.en /\ en = "0" THEN q ELSE Captured(data)
  <2> HIDE DEF k, tick, clk, data, en, clear, set
  <2> QED
    BY <1>6 DEF Exported, PosedgeBlock, NegedgeBlock, Block
<1> HIDE DEF k, clk, data, en, clear, set, tick, cleared, by
<1>11. Outcome(c, f, q, was, pins) = Exported(k, q, was, clk, data, en, clear, set)
  BY <1>2, <1>7, <1>8, <1>9
<1> QED
  BY <1>11 DEF k, clk, data, en, clear, set

(* In a circuit that is clocked from outside, every flip-flop ends a vector *)
(* with what its exported always block makes of the registers as they were *)
(* before the edge: sampling all cells before any of them is committed,    *)
(* with gates and other cells evaluated on the way, is q <= d.             *)
THEOREM RegistersMatchExportCorrect == Spec /\ Synchronous(circuit) => RegistersMatchExport
<1> DEFINE Moved(f) ==
             cells'.value[f] =
                Exported(circuit.cell[f], cells.value[f], cells.prevClk[f], Before(f, "clk"),
                         Before(f, "data"), Before(f, "en"), Before(f, "clear"), Before(f, "set"))
           Known(f) == {Before(f, name) : name \in {"clk", "en", "clear", "set"}} \subseteq {"0", "1"}
           Edges == applied' # <<>> => \A f \in FlipFlops(circuit, "top") : Known(f) => Moved(f)
<1>1. Init /\ Synchronous(circuit) => Rests
  BY RestsFirst
<1>2. Rests /\ [Next]_vars => Rests'
  BY RestsNext
<1>3. Rests /\ [Next]_vars => [Edges]_vars
  <2> SUFFICES ASSUME Rests, Next, applied' # <<>>, NEW f \in FlipFlops(circuit, "top"), Known(f)
               PROVE  Moved(f)
    OBVIOUS
  <2>1. PICK vector \in Vectors(circuit) : GraphSimulation(vector)
    BY DEF Next, SimulationRemove
  <2> DEFINE c == circuit
             run == Simulated(c, Update(c), cells, "top", vector)
             b == Started(c, cells, vector)
             d == Driven(c, cells, "top", vector)
             pins == Signals(c, b.value, f)
  <2>2. cells' = run.cells /\ ~cells.endless /\ applied' = vector
    BY <2>1 DEF GraphSimulation
  <2>3. /\ Built(c) /\ Flat(c) /\ ClockedOutside(c) /\ Between(c, cells) /\ vector \in VectorsOf(c, "top")
        /\ cells \in Memory(c) /\ f \in Of(c, "seq")
    <3>1. Built(c) /\ Flat(c) /\ ClockedOutside(c) /\ Between(c, cells) /\ cells \in Memory(c)
      BY <2>2, RestsNow DEF Rests, Resting
    <3>2. vector \in VectorsOf(c, "top")
      BY <3>1, TopVectors
    <3>3. f \in Of(c, "seq")
      BY <3>1 DEF FlipFlops, Flat
    <3> QED
      BY <3>1, <3>2, <3>3
  <2>4. run.cells.value[f] = NextOf(c, b, f)
    BY <2>3, SimulatedTop
  <2>5. /\ b.value[f] = cells.value[f] /\ b.prevClk[f] = cells.prevClk[f]
        /\ SameLeaves(c, b.value, d.value) /\ b \in Memory(c)
    BY <2>3, StartedFacts DEF Between
  <2>6. d.value \in Assignments(c) /\ b.value \in Assignments(c)
    <3>1. d \in Memory(c)
      BY <2>3, DrivenFacts DEF Like
    <3> HIDE DEF d, b
    <3> QED
      BY <2>5, <3>1, MemoryFields DEF Assignments
  <2>7. \A name \in PinNames : Before(f, name) = IF Has(c, f, name) THEN Cone(c, d.value, Pin(c, f, name)) ELSE "0"
    BY <2>2 DEF Before
  <2> HIDE DEF run, b, d
  <2>8. \A v \in Vertices(c) : Cone(c, b.value, v) = Cone(c, d.value, v)
    BY <2>3, <2>5, <2>6, ConeLeaves
  <2>9. ASSUME NEW name \in PinNames PROVE Before(f, name) = pins[name]
    <3>1. CASE Has(c, f, name)
      <4>1. Pin(c, f, name) \in Vertices(c)
        BY <2>3, <3>1, PinVertex
      <4>2. pins[name] = Cone(c, b.value, Pin(c, f, name))
        BY <2>3, <2>6, <3>1, SignalsFacts
      <4> QED
        BY <2>7, <2>8, <3>1, <4>1, <4>2
    <3>2. CASE ~Has(c, f, name)
      BY <2>3, <2>6, <2>7, <3>2, SignalsFacts
    <3> QED
      BY <3>1, <3>2
  <2>10. \A name \in {"clk", "en", "clear", "set"} : name \in PinNames /\ Before(f, name) \in {"0", "1"}
    BY DEF PinNames
  <2>11. \A name \in PinNames : ~Has(c, f, name) => pins[name] = "0"
    BY <2>3, <2>6, SignalsFacts
  <2> HIDE DEF pins
  <2>12. \A name \in {"clk", "en", "clear", "set"} : pins[name] \in {"0", "1"}
    BY <2>9, <2>10
  <2>13. Outcome(c, f, cells.value[f], cells.prevClk[f], pins) =
           Exported(c.cell[f], cells.value[f], cells.prevClk[f],
                    pins["clk"], pins["data"], pins["en"], pins["clear"], pins["set"])
    BY <2>3, <2>11, <2>12, OutcomeExported
  <2>14. NextOf(c, b, f) = Outcome(c, f, cells.value[f], cells.prevClk[f], pins)
    BY <2>5 DEF NextOf, pins
  <2>15. "data" \in PinNames
    BY DEF PinNames
  <2> QED
    BY <2>2, <2>4, <2>9, <2>10, <2>13, <2>14, <2>15
<1> QED
  BY <1>1, <1>2, <1>3, PTL DEF Spec, RegistersMatchExport

-----------------------------------------------------------------------------
(* A graph that has forgotten answers as a new one.                        *)

LEMMA ForgetfulAsFresh ==
    ASSUME NEW c, Built(c), Flat(c), ClockedOutside(c), NEW s, Resting(c, s), Between(c, s), Forgetful(c, s),
           NEW vector \in VectorsOf(c, "top")
    PROVE  LET b == Started(c, s, vector)
               a == Started(c, Fresh(c), vector)
           IN  /\ \A w \in Vertices(c) : Primary(c, w) => b.value[w] = a.value[w]
               /\ \A f \in Of(c, "seq") : NextOf(c, b, f) = NextOf(c, a, f) /\ ClkOf(c, b, f) = ClkOf(c, a, f)
<1> DEFINE b == Started(c, s, vector)
           a == Started(c, Fresh(c), vector)
<1>0. Resting(c, Fresh(c)) /\ Between(c, Fresh(c))
  BY FreshRests
<1>1. /\ \A w \in Of(c, "const") : b.value[w] = c.const[w] /\ a.value[w] = c.const[w]
      /\ \A w \in Of(c, "input") : b.value[w] = vector[At(c.input["top"], w)]
                                   /\ a.value[w] = vector[At(c.input["top"], w)]
  BY <1>0, StartedPrimary DEF Resting
<1>2. /\ b \in Memory(c) /\ a \in Memory(c)
      /\ \A f \in Of(c, "seq") : /\ b.value[f] = s.value[f] /\ b.prevClk[f] = s.prevClk[f]
                                 /\ a.value[f] = Fresh(c).value[f] /\ a.prevClk[f] = Fresh(c).prevClk[f]
  BY <1>0, StartedFacts DEF Between
<1> HIDE DEF b, a
<1>3. \A w \in Vertices(c) : Primary(c, w) => b.value[w] = a.value[w]
  <2>1. \A w \in Vertices(c) : Primary(c, w) => w \in Of(c, "const") \/ w \in Of(c, "input")
    BY DEF Primary, Of
  <2> QED
    BY <1>1, <2>1
<1>4. b.value \in Assignments(c) /\ a.value \in Assignments(c)
  BY <1>2, MemoryFields DEF Assignments
<1>5. \A f \in Of(c, "seq") : ClkOf(c, b, f) = ClkOf(c, a, f)
  <2> SUFFICES ASSUME NEW f \in Of(c, "seq") PROVE ClkOf(c, b, f) = ClkOf(c, a, f)
    OBVIOUS
  <2>1. Has(c, f, "clk") /\ "clk" \in PinNames
    BY DEF ClockedOutside, Has, PinNames
  <2>2. Pin(c, f, "clk") \in Vertices(c) /\ Primary(c, Pin(c, f, "clk"))
    BY <2>1, PinVertex DEF ClockedOutside
  <2> QED
    BY <1>3, <2>2 DEF ClkOf
<1>6. ASSUME NEW f \in Of(c, "seq") PROVE NextOf(c, b, f) = NextOf(c, a, f)
  <2> DEFINE pins == Signals(c, b.value, f)
             pans == Signals(c, a.value, f)
  <2>1. b.value[f] = Undefined /\ b.prevClk[f] = Unknown /\ a.value[f] = Unknown /\ a.prevClk[f] = Unknown
    BY <1>2, FreshRests DEF Forgetful
  <2>2. NextOf(c, b, f) = Outcome(c, f, Undefined, Unknown, pins)
        /\ NextOf(c, a, f) = Outcome(c, f, Unknown, Unknown, pans)
    BY <2>1 DEF NextOf
  <2>3. c.cell[f].async => pins["clear"] = pans["clear"]
    <3> SUFFICES ASSUME c.cell[f].async PROVE pins["clear"] = pans["clear"]
      OBVIOUS
    <3>0. "clear" \in PinNames
      BY DEF PinNames
    <3>1. CASE Has(c, f, "clear")
      <4> DEFINE p == Pin(c, f, "clear")
      <4>1. p \in Vertices(c) /\ Primary(c, p) /\ Leaf(c, p)
        BY <3>0, <3>1, PinVertex DEF ClockedOutside, Leaf
      <4>2. Cone(c, b.value, p) = b.value[p] /\ Cone(c, a.value, p) = a.value[p]
        BY <1>4, <4>1, ConeValues
      <4>3. pins["clear"] = Cone(c, b.value, p) /\ pans["clear"] = Cone(c, a.value, p)
        BY <1>4, <3>0, <3>1, SignalsFacts
      <4> QED
        BY <1>3, <4>1, <4>2, <4>3
    <3>2. CASE ~Has(c, f, "clear")
      BY <1>4, <3>0, <3>2, SignalsFacts
    <3> QED
      BY <3>1, <3>2
  <2> HIDE DEF pins, pans
  <2>4. /\ Outcome(c, f, Undefined, Unknown, pins) = Rest(c, f, Undefined, pins["clear"])
        /\ Outcome(c, f, Unknown, Unknown, pans) = Rest(c, f, Unknown, pans["clear"])
    BY NoEdge, OutcomeRest
  <2>5. Rest(c, f, Undefined, pins["clear"]) = Rest(c, f, Unknown, pans["clear"])
    BY <2>3 DEF Rest, AsyncBy, Held, Undefined, Unknown
  <2> QED
    BY <2>2, <2>4, <2>5
<1> QED
  BY <1>3, <1>5, <1>6 DEF b, a

\* Two vectors: after simulationRemove, and the first one of a new graph.
Alike(c, again, first) ==
    /\ \A i \in DOMAIN c.output["top"] :
         ApartFrom(c, c.output["top"][i]) => again.outputs[i] = first.outputs[i]
    /\ again.cells.prevClk = first.cells.prevClk
    /\ \A f \in Of(c, "seq") : again.cells.value[f] = first.cells.value[f]

LEMMA SimulatedAlike ==
    ASSUME NEW c, Built(c), Flat(c), ClockedOutside(c), NEW s, Resting(c, s), Forgetful(c, s), ~s.endless,
           NEW vector \in VectorsOf(c, "top")
    PROVE  Alike(c, Simulated(c, Update(c), s, "top", vector),
                    Simulated(c, Update(c), Fresh(c), "top", vector))
<1> DEFINE again == Simulated(c, Update(c), s, "top", vector)
           first == Simulated(c, Update(c), Fresh(c), "top", vector)
           b == Started(c, s, vector)
           a == Started(c, Fresh(c), vector)
           list == c.output["top"]
<1>1. Between(c, s) /\ Between(c, Fresh(c))
  BY FreshRests DEF Resting
<1>2. /\ \A w \in Vertices(c) : Primary(c, w) => b.value[w] = a.value[w]
      /\ \A f \in Of(c, "seq") : NextOf(c, b, f) = NextOf(c, a, f) /\ ClkOf(c, b, f) = ClkOf(c, a, f)
  BY <1>1, ForgetfulAsFresh
<1>3. /\ again.cells \in Memory(c)
      /\ \A f \in Of(c, "seq") : again.cells.value[f] = NextOf(c, b, f) /\ again.cells.prevClk[f] = ClkOf(c, b, f)
      /\ \A w \in Vertices(c) : Primary(c, w) => again.cells.value[w] = b.value[w]
      /\ \A i \in DOMAIN list : ApartFrom(c, list[i]) => again.outputs[i] = Cone(c, again.cells.value, list[i])
  BY <1>1, SimulatedTop DEF Between
<1>4. /\ first.cells \in Memory(c)
      /\ \A f \in Of(c, "seq") : first.cells.value[f] = NextOf(c, a, f) /\ first.cells.prevClk[f] = ClkOf(c, a, f)
      /\ \A w \in Vertices(c) : Primary(c, w) => first.cells.value[w] = a.value[w]
      /\ \A i \in DOMAIN list : ApartFrom(c, list[i]) => first.outputs[i] = Cone(c, first.cells.value, list[i])
  BY <1>1, SimulatedTop DEF Between
<1>5. \A i \in DOMAIN list : list[i] \in Vertices(c)
  <2>1. ToSet(list) \subseteq Vertices(c)
    BY TopGraph, GraphLists DEF Of
  <2> QED
    BY <2>1 DEF ToSet
<1> HIDE DEF again, first, b, a, list
<1>6. \A f \in Of(c, "seq") : /\ again.cells.value[f] = first.cells.value[f]
                              /\ again.cells.prevClk[f] = first.cells.prevClk[f]
  BY <1>2, <1>3, <1>4
<1>7. again.cells.prevClk = first.cells.prevClk
  <2>1. again.cells.prevClk \in [Of(c, "seq") -> Values] /\ first.cells.prevClk \in [Of(c, "seq") -> Values]
    BY <1>3, <1>4, MemoryFields
  <2> QED
    BY <1>6, <2>1
<1>8. \A v \in Vertices(c) : Cone(c, again.cells.value, v) = Cone(c, first.cells.value, v)
  <2>1. again.cells.value \in Assignments(c) /\ first.cells.value \in Assignments(c)
    BY <1>3, <1>4, MemoryFields DEF Assignments
  <2>2. SameLeaves(c, again.cells.value, first.cells.value)
    <3>1. \A w \in Vertices(c) : Leaf(c, w) => Primary(c, w) \/ w \in Of(c, "seq")
      BY DEF Leaf, Of
    <3> QED
      BY <1>2, <1>3, <1>4, <1>6, <3>1 DEF SameLeaves
  <2> QED
    BY <2>1, <2>2, ConeLeaves
<1>9. \A i \in DOMAIN list : ApartFrom(c, list[i]) => again.outputs[i] = first.outputs[i]
  BY <1>3, <1>4, <1>5, <1>8
<1> QED
  BY <1>6, <1>7, <1>9 DEF Alike, again, first, list

(* In a circuit that has inputs and is clocked from outside, a removal that *)
(* returns leaves nothing of the vectors before it: the next vector gives  *)
(* the registers, the clock samples and the outputs apart from the cells   *)
(* that it would give on a graph that was never simulated.                 *)
THEOREM RemovalForgetsCorrect ==
    Spec /\ Synchronous(circuit) /\ circuit.input["top"] # <<>> => RemovalForgets
<1> DEFINE Same(vector) ==
             LET again == Simulated(circuit, Update(circuit), cells', "top", vector)
                 first == Simulated(circuit, Update(circuit), Fresh(circuit), "top", vector)
             IN  /\ \A i \in DOMAIN circuit.output["top"] :
                       Apart(circuit.output["top"][i]) => again.outputs[i] = first.outputs[i]
                 /\ again.cells.prevClk = first.cells.prevClk
                 /\ \A f \in Of(circuit, "seq") :
                       again.cells.value[f] = first.cells.value[f]
           Forgets == applied' = <<>> /\ ~cells'.endless => \A vector \in Vectors(circuit) : Same(vector)
           HasInputs == circuit.input["top"] # <<>>
<1>1. Init /\ Synchronous(circuit) => Rests
  BY RestsFirst
<1>2. Rests /\ [Next]_vars => Rests'
  BY RestsNext
<1>3. HasInputs /\ [Next]_vars => HasInputs'
  BY DEF Next, GraphSimulation, SimulationRemove, vars
<1>4. Rests /\ HasInputs /\ [Next]_vars => [Forgets]_vars
  <2> SUFFICES ASSUME Rests, HasInputs, Next, applied' = <<>>, ~cells'.endless, NEW vector \in Vectors(circuit)
               PROVE  Same(vector)
    OBVIOUS
  <2> DEFINE c == circuit
  <2>1. Built(c) /\ Flat(c) /\ ClockedOutside(c)
    BY RestsNow
  <2>2. SimulationRemove
    <3> SUFFICES ASSUME NEW old \in Vectors(circuit), old = <<>> PROVE FALSE
      BY DEF Next, GraphSimulation
    <3>1. c.input["top"] \in Seq(Of(c, "input"))
      BY <2>1, TopGraph, GraphLists
    <3>2. 1 \in DOMAIN c.input["top"]
      BY <3>1
    <3>3. DOMAIN old = DOMAIN c.input["top"]
      BY DEF Vectors
    <3> QED
      BY <3>2, <3>3
  <2>3. cells' = Reset(c, Removal(c), cells, "top")
    BY <2>2 DEF SimulationRemove
  <2>4. Resting(c, cells') /\ Forgetful(c, cells')
    BY <2>1, <2>3, ResetRests DEF Rests
  <2>5. vector \in VectorsOf(c, "top")
    BY <2>1, TopVectors
  <2> DEFINE again == Simulated(c, Update(c), cells', "top", vector)
             first == Simulated(c, Update(c), Fresh(c), "top", vector)
  <2>6. Alike(c, again, first)
    BY <2>1, <2>4, <2>5, SimulatedAlike
  <2> HIDE DEF again, first
  <2>7. \A o : Apart(o) => ApartFrom(c, o)
    BY <2>1, ApartIs
  <2>8. /\ \A i \in DOMAIN c.output["top"] : Apart(c.output["top"][i]) => again.outputs[i] = first.outputs[i]
        /\ again.cells.prevClk = first.cells.prevClk
        /\ \A f \in Of(c, "seq") : again.cells.value[f] = first.cells.value[f]
    BY <2>6, <2>7 DEF Alike
  <2> QED
    BY <2>8 DEF again, first
<1> QED
  BY <1>1, <1>2, <1>3, <1>4, PTL DEF Spec, RemovalForgets
-----------------------------------------------------------------------------
(* Latches: gates that read cells of R only, all of which have settled.    *)

Covered(c, A, R) ==
    /\ Closed(c, A)
    /\ R \subseteq Of(c, "seq")
    /\ \A g \in A : ToSet(c.ins[g]) \cap Of(c, "seq") \subseteq R

\* Inputs, constants and the cells of R have the values E, the gates of A none
\* or what E makes of them, unless they are being evaluated.
Fit(c, A, R, E, s) ==
    /\ s \in Memory(c)
    /\ \A w \in Vertices(c) : Primary(c, w) \/ w \in R => s.value[w] = E[w]
    /\ \A f \in R : s.value[f] # Undefined
    /\ \A g \in A : g \in s.active \/ s.value[g] \in {Undefined, Cone(c, E, g)}

FitTo(c, A, R, E, s, v, t) ==
    /\ t \in Kept(c, A, s)
    /\ Fit(c, A, R, E, t)
    /\ t.value[v] = Cone(c, E, v)

\* Of the gates of A only those above v are being evaluated.
Over(level, A, s, v) == \A u \in s.active \cap A : level[v] < level[u]

\* Evaluating a gate of A of a lower layer than n gives it what E makes of it.
Fitting(c, level, n, up) ==
    \A A, R : Covered(c, A, R) => \A E \in Assignments(c) : \A s : Fit(c, A, R, E, s) =>
      \A v \in A : level[v] < n /\ Over(level, A, s, v) => FitTo(c, A, R, E, s, v, up[<<s, v>>])

LEMMA CoveredDriver ==
    ASSUME NEW c, Built(c), Flat(c), NEW A, NEW R, Covered(c, A, R), NEW v \in A, NEW d \in ToSet(c.ins[v])
    PROVE  /\ d \in Vertices(c)
           /\ Primary(c, d) \/ d \in R \/ d \in A
           /\ Gate(c, d) => d \in A
<1>1. v \in Vertices(c)
  BY DEF Covered, Closed, Gates
<1>2. d \in Vertices(c) /\ (Gate(c, d) \/ Leaf(c, d))
  BY <1>1, GateOrLeaf
<1>3. Gate(c, d) => d \in A
  BY DEF Covered, Closed
<1>4. c.kind[d] = "seq" => d \in R
  BY <1>2 DEF Covered, Of
<1> QED
  BY <1>2, <1>3, <1>4 DEF Leaf

(* Memories that agree except on gates of A.                               *)
LEMMA FitKept ==
    ASSUME NEW c, NEW A, NEW R, Covered(c, A, R), NEW E, NEW s, Fit(c, A, R, E, s), NEW t \in Kept(c, A, s),
           \A g \in A : g \in t.active \/ t.value[g] \in {Undefined, Cone(c, E, g)}
    PROVE  Fit(c, A, R, E, t)
<1>1. s \in Memory(c) /\ t \in Memory(c)
  BY KeptFacts DEF Fit
<1>2. ASSUME NEW w \in Vertices(c), Primary(c, w) \/ w \in R PROVE t.value[w] = s.value[w]
  <2>1. w \notin A
    BY <1>2, KindsApart DEF Covered, Closed, Gates, Of
  <2> QED
    BY <2>1 DEF Kept
<1>3. \A f \in R : f \in Vertices(c)
  BY DEF Covered, Of
<1> QED
  BY <1>1, <1>2, <1>3 DEF Fit

LEMMA FitSelf ==
    ASSUME NEW c, NEW A, NEW R, NEW E, NEW s, Fit(c, A, R, E, s)
    PROVE  s \in Memory(c) /\ s \in Kept(c, A, s)
BY KeptFacts DEF Fit

LEMMA PullFit ==
    ASSUME NEW c, Built(c), Flat(c), NEW level \in Layers(c), NEW n, NEW up, Fitting(c, level, n, up),
           NEW A, NEW R, Covered(c, A, R), NEW E \in Assignments(c), NEW s, Fit(c, A, R, E, s),
           NEW d \in Vertices(c), Primary(c, d) \/ d \in R \/ d \in A, Idle(c, up),
           Gate(c, d) => level[d] < n /\ Over(level, A, s, d)
    PROVE  FitTo(c, A, R, E, s, d, Pull(up, s, d))
<1>1. s \in Memory(c) /\ s \in Kept(c, A, s)
  BY FitSelf
<1>2. CASE d \notin A
  <2>1. Leaf(c, d)
    BY <1>2 DEF Covered, Of, Leaf
  <2>2. Cone(c, E, d) = E[d] /\ s.value[d] = E[d]
    BY <1>2, <2>1, ConeValues DEF Fit
  <2>3. Pull(up, s, d) = s
    <3>1. d \in R => s.value[d] # Undefined
      BY DEF Fit
    <3>2. Primary(c, d) => up[<<s, d>>] = s
      BY <1>1 DEF Idle
    <3> QED
      BY <1>2, <3>1, <3>2 DEF Pull
  <2> QED
    BY <1>1, <2>2, <2>3 DEF FitTo
<1>3. CASE d \in A
  <2>1. d \in Gates(c) /\ Gate(c, d) /\ level[d] < n /\ Over(level, A, s, d)
    BY <1>3 DEF Covered, Closed, Gates
  <2>2. CASE s.value[d] = Undefined
    <3>1. Pull(up, s, d) = up[<<s, d>>]
      BY <2>2 DEF Pull
    <3> QED
      BY <1>3, <2>1, <3>1 DEF Fitting
  <2>3. CASE s.value[d] # Undefined
    <3>1. Pull(up, s, d) = s
      BY <2>3 DEF Pull
    <3>2. d \notin s.active
      <4>1. level[d] \in Nat
        BY <2>1, DepthNat DEF Layers
      <4>2. ~(level[d] < level[d])
        BY <4>1
      <4> QED
        BY <1>3, <4>2, <2>1 DEF Over
    <3>3. s.value[d] = Cone(c, E, d)
      BY <1>3, <2>3, <3>2 DEF Fit
    <3> QED
      BY <1>1, <3>1, <3>3 DEF FitTo
  <2> QED
    BY <2>2, <2>3
<1> QED
  BY <1>2, <1>3

LEMMA LowerCovered ==
    ASSUME NEW c, Built(c), Flat(c), NEW level \in Layers(c), NEW A, NEW R, Covered(c, A, R), NEW v \in A
    PROVE  LET low == {g \in A : level[g] < level[v]}
           IN  /\ Covered(c, low, R)
               /\ v \notin low
               /\ \A d \in ToSet(c.ins[v]) : Primary(c, d) \/ d \in R \/ d \in low
<1> DEFINE low == {g \in A : level[g] < level[v]}
           all == {g \in Gates(c) : level[g] < level[v]}
<1>1. v \in Gates(c) /\ A \subseteq Gates(c)
  BY DEF Covered, Closed
<1>2. /\ Closed(c, all) /\ v \notin all
      /\ \A d \in ToSet(c.ins[v]) : Gate(c, d) => d \in all
  BY <1>1, LowerClosed
<1>3. low = A \cap all
  BY <1>1
<1> HIDE DEF low, all
<1>4. Covered(c, low, R)
  BY <1>2, <1>3 DEF Covered, Closed
<1>5. ASSUME NEW d \in ToSet(c.ins[v]) PROVE Primary(c, d) \/ d \in R \/ d \in low
  <2>1. /\ Primary(c, d) \/ d \in R \/ d \in A
        /\ d \in A => Gate(c, d)
    BY CoveredDriver DEF Covered, Closed, Gates
  <2> QED
    BY <1>2, <1>3, <2>1
<1> QED
  BY <1>2, <1>3, <1>4, <1>5 DEF low

LEMMA GuardedFit ==
    ASSUME NEW c, Built(c), Flat(c), NEW level \in Layers(c), NEW n \in Nat, NEW up,
           Idle(c, up), Fitting(c, level, n, up),
           NEW A, NEW R, Covered(c, A, R), NEW E \in Assignments(c), NEW s, Fit(c, A, R, E, s),
           NEW v \in A, level[v] < n + 1, Over(level, A, s, v)
    PROVE  FitTo(c, A, R, E, s, v, Guarded(c, up, s, v))
<1>0. v \in Gates(c) /\ v \in Vertices(c) /\ Gate(c, v) /\ ~Leaf(c, v) /\ c.kind[v] # "output" /\ A \subseteq Gates(c)
  BY KindsApart DEF Covered, Closed, Gates
<1>1. s \in Memory(c)
  BY DEF Fit
<1> DEFINE in == Inner(s, v)
           out == GateValue(c, up, in, v)
           K == {t \in Kept(c, A, in) : Fit(c, A, R, E, t)}
           low == {g \in A : level[g] < level[v]}
           res == Guarded(c, up, s, v)
           of == ConeOf(c, E)
<1>2. \A g \in Gates(c) : level[g] \in Nat
  BY DepthNat DEF Layers
<1>3. v \notin s.active
  <2>1. ~(level[v] < level[v])
    BY <1>0, <1>2
  <2> QED BY <2>1 DEF Over
<1>4. res = IF c.ins[v] = <<>> THEN Valued(s, v, Unknown) ELSE Within(out, s.active)
  BY <1>0, <1>1, <1>3, GuardedIs
<1>5. Cone(c, E, v) = IF c.ins[v] = <<>> THEN Unknown ELSE Chained(c, v, of)
  <2>1. Cone(c, E, v) = Worth(c, E, v, of)
    BY <1>0, ConeIs
  <2> QED BY <1>0, <2>1 DEF Worth
<1>6. /\ Covered(c, low, R) /\ v \notin low
      /\ \A d \in ToSet(c.ins[v]) : Primary(c, d) \/ d \in R \/ d \in low
  BY LowerCovered
<1>7. \A g \in A : g \in Vertices(c)
  BY <1>0 DEF Gates
<1>8. CASE c.ins[v] = <<>>
  <2>1. res = Valued(s, v, Unknown) /\ Unknown \in Values
    BY <1>4, <1>8 DEF Values, Unknown
  <2>2. res.value[v] = Unknown /\ (\A w \in Vertices(c) \ {v} : res.value[w] = s.value[w]) /\ res.active = s.active
    BY <1>0, <1>1, <2>1, ValuedFacts
  <2>3. res \in Kept(c, A, s)
    BY <1>0, <1>1, <2>1, KeptFacts
  <2> HIDE DEF res
  <2>4. \A g \in A : g \in res.active \/ res.value[g] \in {Undefined, Cone(c, E, g)}
    BY <1>5, <1>7, <1>8, <2>2 DEF Fit
  <2>5. Fit(c, A, R, E, res)
    BY <2>3, <2>4, FitKept
  <2> QED BY <1>5, <1>8, <2>2, <2>3, <2>5 DEF FitTo, res
<1>9. CASE c.ins[v] # <<>>
  <2>1. res = Within(out, s.active)
    BY <1>4, <1>9
  <2>2. /\ in \in Memory(c) /\ in.active = s.active \cup {v}
        /\ \A w \in Vertices(c) \ {v} : in.value[w] = s.value[w]
    BY <1>0, <1>1, InnerFacts
  <2>3. Fit(c, A, R, E, in)
    <3>1. \A w \in Vertices(c) : Primary(c, w) \/ w \in R => w # v
      BY <1>0, KindsApart DEF Covered, Of
    <3>2. \A f \in R : f \in Vertices(c)
      BY DEF Covered, Of
    <3> HIDE DEF in
    <3>3. \A g \in A : g \in in.active \/ in.value[g] \in {Undefined, Cone(c, E, g)}
      BY <1>7, <2>2 DEF Fit
    <3> QED BY <2>2, <3>1, <3>2, <3>3 DEF Fit
  <2> HIDE DEF in
  <2>4. ASSUME NEW t \in K, NEW d \in ToSet(c.ins[v])
        PROVE  /\ Pull(up, t, d) \in K
               /\ Pull(up, t, d).value[v] = t.value[v]
               /\ Pull(up, t, d).value[d] = of[d]
    <3>1. Fit(c, A, R, E, t) /\ t \in Kept(c, A, in) /\ t.active = s.active \cup {v}
      BY <2>2, <2>4 DEF Kept
    <3>2. /\ d \in Vertices(c) /\ (Primary(c, d) \/ d \in R \/ d \in low) /\ low \subseteq A
          /\ Gate(c, d) => d \in A
      BY <1>6, <2>4, CoveredDriver
    <3>3. ASSUME Gate(c, d) PROVE level[d] < n /\ Over(level, A, t, d)
      <4>1. d \in Gates(c) /\ level[d] < level[v] /\ level[d] \in Nat /\ level[v] \in Nat
        BY <1>0, <1>2, <2>4, <3>2, <3>3 DEF Layers
      <4>2. level[d] < n
        BY <4>1
      <4>3. ASSUME NEW u \in t.active \cap A PROVE level[d] < level[u]
        <5>1. CASE u = v
          BY <4>1, <5>1
        <5>2. CASE u \in s.active
          <6>1. level[v] < level[u] /\ level[u] \in Nat
            BY <1>0, <1>2, <4>3, <5>2 DEF Over
          <6> QED BY <4>1, <6>1
        <5> QED BY <3>1, <4>3, <5>1, <5>2
      <4> QED BY <4>2, <4>3 DEF Over
    <3>4. FitTo(c, A, R, E, t, d, Pull(up, t, d))
      BY <3>1, <3>2, <3>3, PullFit
    <3>5. Fit(c, low, R, E, t)
      BY <3>1, <3>2 DEF Fit
    <3>6. Gate(c, d) => level[d] < n /\ Over(level, low, t, d)
      BY <3>2, <3>3 DEF Over
    <3> HIDE DEF low
    <3>7. FitTo(c, low, R, E, t, d, Pull(up, t, d))
      BY <1>6, <3>2, <3>5, <3>6, PullFit
    <3>8. Pull(up, t, d).value[v] = t.value[v]
      BY <1>0, <1>6, <3>7 DEF FitTo, Kept
    <3>9. of[d] = Cone(c, E, d)
      BY <3>2 DEF ConeOf
    <3>10. Pull(up, t, d) \in Kept(c, A, in)
      BY <2>2, <3>1, <3>4, KeptFacts DEF FitTo
    <3> QED BY <3>4, <3>8, <3>9, <3>10 DEF FitTo
  <2>5. Pulling(c, up, K, v)
    <3>1. K \subseteq Memory(c)
      BY DEF Fit
    <3>2. ASSUME NEW t \in K, NEW x \in Values PROVE Valued(t, v, x) \in K
      <4> DEFINE u == Valued(t, v, x)
      <4>1. t \in Memory(c) /\ Fit(c, A, R, E, t) /\ t \in Kept(c, A, in) /\ t.active = s.active \cup {v}
        BY <2>2, <3>2 DEF Fit, Kept
      <4>2. u.active = t.active /\ \A w \in Vertices(c) \ {v} : u.value[w] = t.value[w]
        BY <1>0, <4>1, ValuedFacts
      <4>3. u \in Kept(c, A, in) /\ u \in Kept(c, A, t)
        BY <1>0, <2>2, <4>1, KeptFacts
      <4> HIDE DEF u
      <4>4. \A g \in A : g \in u.active \/ u.value[g] \in {Undefined, Cone(c, E, g)}
        BY <1>7, <4>1, <4>2 DEF Fit
      <4>5. Fit(c, A, R, E, u)
        BY <4>1, <4>3, <4>4, FitKept
      <4> QED BY <4>3, <4>5 DEF u
    <3> HIDE DEF K
    <3> QED BY <2>4, <3>1, <3>2 DEF Pulling
  <2>6. in \in K /\ Working(c, v)
    BY <1>0, <1>9, <2>2, <2>3, KeptFacts DEF Working
  <2>7. Giving(c, up, K, v, of)
    <3> HIDE DEF K, of
    <3> QED BY <2>4 DEF Giving
  <2>8. of \in [Vertices(c) -> Values]
    BY ConeIs
  <2>9. out \in K /\ out.value[v] = Cone(c, E, v)
    <3> HIDE DEF K, of
    <3>1. out \in K /\ out.value[v] = Chained(c, v, of)
      BY <1>0, <2>5, <2>6, <2>7, <2>8, GateWithin, GateGives
    <3> QED BY <1>5, <1>9, <3>1
  <2>10. out \in Memory(c) /\ Fit(c, A, R, E, out) /\ out \in Kept(c, A, in) /\ out.active = s.active \cup {v}
    BY <2>2, <2>9 DEF Fit, Kept
  <2> HIDE DEF out
  <2>11. res.value = out.value /\ res.active = s.active
    BY <1>1, <2>1, <2>10, WithinFacts, MemoryFields
  <2>12. res \in Kept(c, A, s)
    BY <1>0, <1>1, <2>1, <2>10, WithinKept DEF in
  <2> HIDE DEF res
  <2>13. \A g \in A : g \in res.active \/ res.value[g] \in {Undefined, Cone(c, E, g)}
    BY <2>9, <2>10, <2>11 DEF Fit
  <2>14. Fit(c, A, R, E, res)
    BY <2>12, <2>13, FitKept
  <2> QED BY <2>9, <2>11, <2>12, <2>14 DEF FitTo, res
<1> QED BY <1>8, <1>9

LEMMA UpdateFits ==
    ASSUME NEW c, Built(c), Flat(c), NEW level \in Layers(c), NEW up, Updating(c, up)
    PROVE  \A n \in Nat : Fitting(c, level, n, up[n])
<1> DEFINE S == {n \in Nat : Fitting(c, level, n, up[n])}
<1>1. 0 \in S
  <2>1. \A g \in Gates(c) : level[g] \in Nat
    BY DepthNat DEF Layers
  <2>2. \A g \in Gates(c) : ~(level[g] < 0)
    BY <2>1
  <2> QED BY <2>2 DEF Fitting, Covered, Closed
<1>2. ASSUME NEW n \in Nat, n \in S PROVE n + 1 \in S
  <2>1. Fitting(c, level, n, up[n]) /\ Idle(c, up[n])
    BY <1>2, UpdateIdle
  <2>2. ASSUME NEW A, NEW R, Covered(c, A, R), NEW E \in Assignments(c), NEW s, Fit(c, A, R, E, s),
               NEW v \in A, level[v] < n + 1, Over(level, A, s, v)
        PROVE  FitTo(c, A, R, E, s, v, up[n + 1][<<s, v>>])
    <3>1. v \in Vertices(c) /\ Gate(c, v) /\ s \in Memory(c)
      BY <2>2 DEF Gates, Fit, Covered, Closed
    <3>2. up[n + 1][<<s, v>>] = Guarded(c, up[n], s, v)
      BY <3>1, UpdateGate
    <3>3. FitTo(c, A, R, E, s, v, Guarded(c, up[n], s, v))
      BY <2>1, <2>2, GuardedFit
    <3> QED BY <3>2, <3>3
  <2>3. Fitting(c, level, n + 1, up[n + 1])
    BY <2>2 DEF Fitting
  <2> QED BY <2>3
<1> HIDE DEF S
<1>3. \A n \in Nat : n \in S
  BY <1>1, <1>2, Induction
<1> QED BY <1>3 DEF S
-----------------------------------------------------------------------------
(* Latches that read earlier latches only.                                 *)

\* The cells v reads, directly or through gates.
Reads(c, v) == {d \in Of(c, "seq") : \E u \in {v} \cup Below(c, v) : d \in ToSet(c.ins[u])}

\* The latches among the first i cells of the registry.
FirstLatches(c, i) == {f \in {TopSeq(c)[j] : j \in 1..i} : ~c.cell[f].ff}

(* Every latch reads inputs, constants and latches that were added before  *)
(* it; no flip-flop and not itself.                                        *)
LatchesForward(c) ==
    \A i \in 1..Len(TopSeq(c)) :
      ~c.cell[TopSeq(c)[i]].ff => Reads(c, TopSeq(c)[i]) \subseteq FirstLatches(c, i - 1)

\* The gates that read cells of R only.
Reading(c, R) == {g \in Gates(c) : \E A \in SUBSET Gates(c) : Covered(c, A, R) /\ g \in A}

\* The drivers of v are worked out from inputs, constants and cells of R.
Fed(c, R, v) == \A d \in ToSet(c.ins[v]) : Primary(c, d) \/ d \in R \/ d \in Reading(c, R)

LEMMA ReadingCovered ==
    ASSUME NEW c, Built(c), Flat(c), NEW R \in SUBSET Of(c, "seq")
    PROVE  /\ Covered(c, Reading(c, R), R)
           /\ \A Q \in SUBSET Of(c, "seq") : R \subseteq Q => Reading(c, R) \subseteq Reading(c, Q)
           /\ \A v \in Vertices(c) : Reads(c, v) \subseteq R => Fed(c, R, v)
<1>1. Covered(c, Reading(c, R), R)
  <2>1. ASSUME NEW g \in Reading(c, R)
        PROVE  /\ \A d \in ToSet(c.ins[g]) : Gate(c, d) => d \in Reading(c, R)
               /\ ToSet(c.ins[g]) \cap Of(c, "seq") \subseteq R
    <3>1. PICK A \in SUBSET Gates(c) : Covered(c, A, R) /\ g \in A
      BY DEF Reading
    <3>2. \A d \in A : d \in Reading(c, R)
      BY <3>1 DEF Reading
    <3> QED BY <3>1, <3>2 DEF Covered, Closed
  <2>2. Reading(c, R) \subseteq Gates(c)
    BY DEF Reading
  <2> QED BY <2>1, <2>2 DEF Covered, Closed
<1>2. ASSUME NEW Q \in SUBSET Of(c, "seq"), R \subseteq Q PROVE Reading(c, R) \subseteq Reading(c, Q)
  <2>1. \A A \in SUBSET Gates(c) : Covered(c, A, R) => Covered(c, A, Q)
    BY <1>2 DEF Covered
  <2> QED BY <2>1 DEF Reading
<1>3. ASSUME NEW v \in Vertices(c), Reads(c, v) \subseteq R PROVE Fed(c, R, v)
  <2>1. Closed(c, Below(c, v))
    BY BelowClosed
  <2>2. Covered(c, Below(c, v), R)
    BY <1>3, <2>1 DEF Covered, Reads
  <2>3. \A g \in Below(c, v) : g \in Reading(c, R)
    BY <2>1, <2>2 DEF Reading, Closed
  <2>4. ASSUME NEW d \in ToSet(c.ins[v]) PROVE Primary(c, d) \/ d \in R \/ d \in Reading(c, R)
    <3>1. d \in Vertices(c) /\ (Gate(c, d) \/ Leaf(c, d))
      BY GateOrLeaf
    <3>2. Gate(c, d) => d \in Below(c, v)
      BY BelowHas
    <3>3. c.kind[d] = "seq" => d \in Reads(c, v)
      BY <3>1 DEF Reads, Of
    <3> QED BY <1>3, <2>3, <3>1, <3>2, <3>3 DEF Leaf
  <2> QED BY <2>4 DEF Fed
<1> QED BY <1>1, <1>2, <1>3

(* Gates that read cells of R only are worked out from those.              *)
LEMMA ConeCovered ==
    ASSUME NEW c, Built(c), Flat(c), NEW A, NEW R, Covered(c, A, R),
           NEW E \in Assignments(c), NEW F \in Assignments(c),
           \A w \in Vertices(c) : Primary(c, w) \/ w \in R => E[w] = F[w]
    PROVE  \A d \in Vertices(c) : Primary(c, d) \/ d \in R \/ d \in A => Cone(c, E, d) = Cone(c, F, d)
<1>1. PICK level : level \in Layers(c)
  BY DEF Flat
<1> DEFINE S == {n \in Nat : \A g \in A : level[g] < n => Cone(c, E, g) = Cone(c, F, g)}
<1>2. A \subseteq Gates(c) /\ \A g \in Gates(c) : g \in Vertices(c) /\ level[g] \in Nat /\ Gate(c, g) /\ ~Leaf(c, g)
  BY <1>1, DepthNat, KindsApart DEF Covered, Closed, Layers, Gates
<1>3. ASSUME NEW d \in Vertices(c), Primary(c, d) \/ d \in R PROVE Cone(c, E, d) = Cone(c, F, d)
  <2>1. Leaf(c, d)
    BY <1>3 DEF Covered, Of, Leaf
  <2> QED BY <1>3, <2>1, ConeValues
<1>4. 0 \in S
  BY <1>2
<1>5. ASSUME NEW n \in Nat, n \in S PROVE n + 1 \in S
  <2>1. ASSUME NEW g \in A, level[g] < n + 1 PROVE Cone(c, E, g) = Cone(c, F, g)
    <3>1. g \in Vertices(c) /\ ~Leaf(c, g)
      BY <1>2
    <3>2. Cone(c, E, g) = Worth(c, E, g, ConeOf(c, E)) /\ Cone(c, F, g) = Worth(c, F, g, ConeOf(c, F))
      BY <3>1, ConeIs
    <3>3. ASSUME NEW d \in ToSet(c.ins[g]) PROVE ConeOf(c, E)[d] = ConeOf(c, F)[d]
      <4>1. d \in Vertices(c) /\ (Primary(c, d) \/ d \in R \/ d \in A) /\ (Gate(c, d) => d \in A)
        BY CoveredDriver
      <4>2. CASE d \in A
        <5>1. level[d] < level[g]
          BY <1>1, <1>2, <4>2 DEF Layers
        <5>2. level[d] \in Nat /\ level[g] \in Nat
          BY <1>2, <4>2
        <5>3. level[d] < n
          BY <2>1, <5>1, <5>2
        <5> QED BY <1>5, <4>1, <4>2, <5>3 DEF ConeOf
      <4>3. CASE Primary(c, d) \/ d \in R
        BY <1>3, <4>1, <4>3 DEF ConeOf
      <4> QED BY <4>1, <4>2, <4>3
    <3>4. ConeOf(c, E) \in [Vertices(c) -> Values] /\ ConeOf(c, F) \in [Vertices(c) -> Values]
      BY ConeIs
    <3> QED BY <3>1, <3>2, <3>3, <3>4, WorthFacts
  <2> QED BY <2>1
<1> HIDE DEF S
<1>6. \A n \in Nat : n \in S
  BY <1>4, <1>5, Induction
<1>7. ASSUME NEW g \in A PROVE Cone(c, E, g) = Cone(c, F, g)
  <2>1. level[g] + 1 \in S /\ level[g] < level[g] + 1
    BY <1>2, <1>6
  <2> QED BY <2>1 DEF S
<1> QED BY <1>3, <1>7

-----------------------------------------------------------------------------
(* What a latch stages.                                                    *)

LatchNext(c, l, q, pins) ==
    LET clear == Say(c, l, "clear", pins["clear"])
        by == IF clear # "none" THEN clear ELSE Say(c, l, "set", pins["set"])
    IN  IF by # "none" THEN by
        ELSE IF Has(c, l, "en") /\ pins["en"] # "1" THEN Held(q) ELSE Captured(pins["data"])

LEMMA LatchNextFacts ==
    ASSUME NEW c, NEW l, NEW q \in Values, NEW pins \in [PinNames -> Values]
    PROVE  /\ LatchNext(c, l, q, pins) \in Values \ {Undefined}
           /\ LatchNext(c, l, LatchNext(c, l, q, pins), pins) = LatchNext(c, l, q, pins)
<1> DEFINE clear == Say(c, l, "clear", pins["clear"])
           set == Say(c, l, "set", pins["set"])
           by == IF clear # "none" THEN clear ELSE set
           open == ~(Has(c, l, "en") /\ pins["en"] # "1")
<1>1. \A x : LatchNext(c, l, x, pins) =
               IF by # "none" THEN by ELSE IF open THEN Captured(pins["data"]) ELSE Held(x)
  BY DEF LatchNext
<1>2. by \in Effects
  BY SayEffects
<1>3. Captured(pins["data"]) \in Values \ {Undefined}
  BY DEF Captured, Values, Undefined, Unknown
<1> HIDE DEF by, open
<1>4. CASE by # "none"
  BY <1>1, <1>2, <1>4, EffectFacts
<1>5. CASE by = "none" /\ open
  BY <1>1, <1>3, <1>5
<1>6. CASE by = "none" /\ ~open
  BY <1>1, <1>6, HeldFacts
<1> QED BY <1>4, <1>5, <1>6

(* The steps of stageValue of a latch.                                     *)
LEMMA LatchStages ==
    ASSUME NEW c, Built(c), NEW up, NEW K, NEW l \in Of(c, "seq"), ~c.cell[l].ff,
           NEW pins \in [PinNames -> Values],
           Looking(c, up, K, l, [name \in PinNames |-> {pins[name]}]), NEW s \in K
    PROVE  \E t \in K, u \in K :
             Stage(c, up, s, l) = Staged(t, l, LatchNext(c, l, u.value[l], pins), u.prevClk[l])
<1> DEFINE X == [name \in PinNames |-> {pins[name]}]
           s1 == Look(c, up, s, l, "data")
           s4 == Look(c, up, s1, l, "clear")
           s5 == Look(c, up, s4, l, "set")
           clear == Say(c, l, "clear", s4.value[Pin(c, l, "clear")])
           set == Say(c, l, "set", s5.value[Pin(c, l, "set")])
           forced == Forced(c, up, Forced(c, up, Unforced(s1), l, "clear"), l, "set")
           cs == IF clear # "none" THEN s4 ELSE s5
           by == IF clear # "none" THEN clear ELSE set
           s6 == Look(c, up, cs, l, "en")
           s2 == IF by # "none" THEN cs ELSE s6
<1>0. "data" \in PinNames /\ "clk" \in PinNames /\ "en" \in PinNames /\ "clear" \in PinNames /\ "set" \in PinNames
  BY DEF PinNames
<1>1. Looking(c, up, K, l, X)
  OBVIOUS
<1>2. \A name \in PinNames : X[name] = {pins[name]}
  OBVIOUS
<1> HIDE DEF X
<1>3. s1 \in K /\ s1.value[Pin(c, l, "data")] = pins["data"]
  <2>1. Has(c, l, "data")
    BY DEF Has
  <2>2. s1 \in K /\ s1.value[Pin(c, l, "data")] \in X["data"]
    <3> HIDE DEF s4, s5, clear, set, forced, cs, by, s6, s2
    <3> QED BY <1>0, <1>1, <2>1, LookingIs
  <2> QED BY <1>0, <1>2, <2>2
<1> HIDE DEF s1
<1>4. s4 \in K /\ (Has(c, l, "clear") => s4.value[Pin(c, l, "clear")] = pins["clear"])
  BY <1>0, <1>1, <1>2, <1>3, LookingIs
<1>5. forced = [cells |-> cs, by |-> by]
  <2>1. Forced(c, up, Unforced(s1), l, "clear") = [cells |-> s4, by |-> clear]
    BY ForcedIs
  <2>2. Forced(c, up, Unforced(s4), l, "set") = [cells |-> s5, by |-> set]
    BY ForcedIs
  <2> HIDE DEF s4, s5, set
  <2>3. CASE clear = "none"
    BY <2>1, <2>2, <2>3 DEF Unforced
  <2>4. CASE clear # "none"
    BY <2>1, <2>4, ForcedStays
  <2> QED BY <2>3, <2>4
<1> HIDE DEF s4
<1>6. s5 \in K /\ (Has(c, l, "set") => s5.value[Pin(c, l, "set")] = pins["set"])
  BY <1>0, <1>1, <1>2, <1>4, LookingIs
<1> HIDE DEF s5
<1>7. clear = Say(c, l, "clear", pins["clear"]) /\ set = Say(c, l, "set", pins["set"])
  BY <1>4, <1>6 DEF Say
<1>8. cs \in K
  BY <1>4, <1>6
<1> HIDE DEF clear, set, cs
<1>9. s6 \in K /\ (Has(c, l, "en") => s6.value[Pin(c, l, "en")] = pins["en"])
  BY <1>0, <1>1, <1>2, <1>8, LookingIs
<1>10. s2 \in K
  BY <1>8, <1>9
<1> DEFINE next == IF by # "none" THEN by
                   ELSE IF Seen(c, s2, l, "en") = "1" THEN Captured(Seen(c, s1, l, "data"))
                   ELSE Held(s1.value[l])
<1>11. Stage(c, up, s, l) = Staged(s2, l, next, s1.prevClk[l])
  <2>1. Stage(c, up, s, l) = StageLatch(c, up, s, l)
    BY DEF Stage
  <2>2. forced.cells = cs /\ forced.by = by
    BY <1>5
  <2> HIDE DEF forced, by
  <2>3. StageLatch(c, up, s, l) =
          [(IF forced.by # "none" THEN forced.cells ELSE Look(c, up, forced.cells, l, "en"))
             EXCEPT !.staged[l] =
               <<IF forced.by # "none" THEN forced.by
                 ELSE IF Seen(c, IF forced.by # "none" THEN forced.cells ELSE Look(c, up, forced.cells, l, "en"), l, "en") = "1"
                      THEN Captured(Seen(c, s1, l, "data"))
                      ELSE Held(s1.value[l]), s1.prevClk[l]>>]
    BY Zenon DEF StageLatch, s1, forced
  <2>4. StageLatch(c, up, s, l) =
          [s2 EXCEPT !.staged[l] = <<IF by # "none" THEN by
                                     ELSE IF Seen(c, s2, l, "en") = "1" THEN Captured(Seen(c, s1, l, "data"))
                                     ELSE Held(s1.value[l]), s1.prevClk[l]>>]
    BY <2>2, <2>3, Zenon DEF s2, s6
  <2> QED BY <2>1, <2>4 DEF Staged
<1>12. next = LatchNext(c, l, s1.value[l], pins)
  <2>1. Seen(c, s1, l, "data") = pins["data"]
    BY <1>3 DEF Seen, Has
  <2>2. by = "none" => Seen(c, s2, l, "en") = IF Has(c, l, "en") THEN pins["en"] ELSE "1"
    BY <1>9 DEF Seen
  <2>3. by = IF Say(c, l, "clear", pins["clear"]) # "none" THEN Say(c, l, "clear", pins["clear"])
             ELSE Say(c, l, "set", pins["set"])
    BY <1>7
  <2> HIDE DEF by, s2
  <2>4. LatchNext(c, l, s1.value[l], pins) =
          IF by # "none" THEN by
          ELSE IF Has(c, l, "en") /\ pins["en"] # "1" THEN Held(s1.value[l]) ELSE Captured(pins["data"])
    BY <2>3 DEF LatchNext
  <2> QED BY <2>1, <2>2, <2>4
<1> QED BY <1>3, <1>10, <1>11, <1>12

(* A latch that reads A and R only.                                        *)
LEMMA LatchFits ==
    ASSUME NEW c, Built(c), Flat(c), NEW level \in Layers(c), NEW n \in Nat, Cardinality(Vertices(c)) < n,
           NEW up, Idle(c, up), Fitting(c, level, n, up),
           NEW A, NEW R, Covered(c, A, R), NEW E \in Assignments(c),
           NEW s, Fit(c, A, R, E, s), s.active \cap A = {},
           NEW l \in Of(c, "seq"), ~c.cell[l].ff,
           \A d \in ToSet(c.ins[l]) : Primary(c, d) \/ d \in R \/ d \in A
    PROVE  LET t == Commit(Stage(c, up, s, l), l)
           IN  /\ t \in Like(c, s) /\ t.active = s.active
               /\ t.value[l] = LatchNext(c, l, s.value[l], Signals(c, E, l))
               /\ \A w \in Vertices(c) : w \notin A /\ w # l => t.value[w] = s.value[w]
               /\ \A g \in A : t.value[g] \in {Undefined, Cone(c, E, g)}
<1> DEFINE K == {t \in Kept(c, A, s) : Fit(c, A, R, E, t)}
           pins == Signals(c, E, l)
           X == [name \in PinNames |-> {pins[name]}]
<1>1. s \in Memory(c) /\ s \in K
  BY FitSelf
<1>2. pins \in [PinNames -> Values]
  BY SignalsFacts
<1>3. A \subseteq Gates(c) /\ \A g \in Gates(c) : g \in Vertices(c) /\ Gate(c, g) /\ level[g] \in Nat /\ level[g] < n
  <2>1. \A g \in Gates(c) : level[g] \in 0..Cardinality(Vertices(c))
    BY DEF Layers
  <2>2. Cardinality(Vertices(c)) \in Nat
    BY DepthNat
  <2> QED BY <2>1, <2>2 DEF Covered, Closed, Gates
<1>4. ASSUME NEW t \in K, NEW name \in PinNames, Has(c, l, name)
      PROVE  /\ Look(c, up, t, l, name) \in K
             /\ Look(c, up, t, l, name).value[Pin(c, l, name)] = pins[name]
  <2> DEFINE p == Pin(c, l, name)
  <2>1. p \in Vertices(c) /\ p \in ToSet(c.ins[l])
    BY <1>4, PinVertex
  <2>2. pins[name] = Cone(c, E, p)
    BY <1>4, SignalsFacts
  <2>3. Look(c, up, t, l, name) = IF c.kind[p] = "seq" THEN t ELSE up[<<t, p>>]
    BY <1>4 DEF Look
  <2>4. Fit(c, A, R, E, t) /\ t \in Kept(c, A, s) /\ t \in Memory(c) /\ t.active = s.active
    BY <1>1 DEF Kept, Fit
  <2> HIDE DEF p, K, pins
  <2>5. CASE c.kind[p] = "seq"
    <3>1. p \in R
      BY <1>3, <2>1, <2>5, KindsApart
    <3>2. Leaf(c, p)
      BY <2>5 DEF Leaf
    <3>3. t.value[p] = Cone(c, E, p)
      BY <2>1, <2>4, <3>1, <3>2, ConeValues DEF Fit
    <3> QED BY <2>2, <2>3, <2>5, <3>3 DEF p
  <2>6. CASE Primary(c, p)
    <3>1. Leaf(c, p) /\ c.kind[p] # "seq"
      BY <2>6, KindsApart
    <3>2. up[<<t, p>>] = t
      BY <2>1, <2>4, <2>6 DEF Idle
    <3>3. t.value[p] = Cone(c, E, p)
      BY <2>1, <2>4, <2>6, <3>1, ConeValues DEF Fit
    <3> QED BY <2>2, <2>3, <3>1, <3>2, <3>3 DEF p
  <2>7. CASE p \in A
    <3>1. c.kind[p] # "seq"
      BY <1>3, <2>7, KindsApart
    <3>2. Over(level, A, t, p)
      BY <2>4 DEF Over
    <3>3. FitTo(c, A, R, E, t, p, up[<<t, p>>])
      BY <1>3, <2>4, <2>7, <3>2 DEF Fitting
    <3>4. up[<<t, p>>] \in Kept(c, A, s)
      BY <1>1, <2>4, <3>3, KeptFacts DEF FitTo
    <3> QED BY <2>2, <2>3, <3>1, <3>3, <3>4 DEF FitTo, K, p
  <2> QED BY <2>1, <2>5, <2>6, <2>7 DEF Covered, Of
<1>5. Looking(c, up, K, l, X)
  <2>1. K \subseteq Memory(c)
    BY DEF Fit
  <2> HIDE DEF K, pins
  <2> QED BY <1>4, <2>1 DEF Looking
<1>6. PICK t \in K, u \in K : Stage(c, up, s, l) = Staged(t, l, LatchNext(c, l, u.value[l], pins), u.prevClk[l])
  <2> HIDE DEF K, pins
  <2> QED BY <1>1, <1>2, <1>5, LatchStages
<1>7. l \in Vertices(c) /\ l \notin A
  BY <1>3, KindsApart DEF Of
<1>8. /\ t \in Memory(c) /\ t \in Like(c, s) /\ t.active = s.active /\ Fit(c, A, R, E, t)
      /\ \A w \in Vertices(c) : w \notin A => t.value[w] = s.value[w]
      /\ u \in Memory(c) /\ u.value[l] = s.value[l] /\ u.prevClk[l] = s.prevClk[l]
  BY <1>7 DEF Kept, Like
<1> DEFINE q == LatchNext(c, l, s.value[l], pins)
           k == s.prevClk[l]
           g == Staged(t, l, q, k)
<1>9. q \in Values /\ k \in Values
  <2>1. s.value[l] \in Values /\ k \in Values
    BY <1>1, <1>7, MemoryFields
  <2> HIDE DEF pins
  <2> QED BY <1>2, <2>1, LatchNextFacts
<1>10. Stage(c, up, s, l) = g
  BY <1>6, <1>8
<1> HIDE DEF q, k
<1>11. g \in Like(c, t) /\ g.staged[l] = <<q, k>> /\ g.value = t.value /\ g.active = t.active
  BY <1>8, <1>9, StagedFacts
<1> HIDE DEF g
<1>12. Commit(g, l) = Committed(g, l, q, k)
  <2> DEFINE e == <<q, k>>
  <2>1. e # <<>> /\ e[1] = q /\ e[2] = k
    OBVIOUS
  <2>2. g.staged[l] = e
    BY <1>11
  <2> HIDE DEF e
  <2> QED BY <2>1, <2>2, CommitIs
<1> DEFINE r == Committed(g, l, q, k)
<1>13. g \in Memory(c)
  BY <1>11 DEF Like
<1>14. /\ r \in Like(c, g) /\ r.value[l] = q /\ r.active = g.active
       /\ \A w \in Vertices(c) \ {l} : r.value[w] = g.value[w]
  BY <1>9, <1>13, CommittedFacts
<1> HIDE DEF r
<1>15. r \in Like(c, s)
  BY <1>8, <1>11, <1>14, LikeLike
<1>16. \A w \in A : w \in Vertices(c) \ {l} /\ t.value[w] \in {Undefined, Cone(c, E, w)}
  BY <1>3, <1>7, <1>8 DEF Fit
<1>17. \A w \in A : r.value[w] \in {Undefined, Cone(c, E, w)}
  BY <1>11, <1>14, <1>16
<1>18. \A w \in Vertices(c) : w \notin A /\ w # l => r.value[w] = s.value[w]
  BY <1>8, <1>11, <1>14
<1> QED BY <1>8, <1>10, <1>11, <1>12, <1>14, <1>15, <1>17, <1>18 DEF r, q

-----------------------------------------------------------------------------
(* Settled latches stay as they are, whatever is evaluated.                *)

LatchesOf(c) == {f \in Of(c, "seq") : ~c.cell[f].ff}

\* The latches have settled: evaluated again they keep their values E.
Stable(c, A, E) ==
    /\ E \in Assignments(c)
    /\ Covered(c, A, LatchesOf(c))
    /\ \A l \in LatchesOf(c) :
         /\ \A d \in ToSet(c.ins[l]) : Primary(c, d) \/ d \in LatchesOf(c) \/ d \in A
         /\ LatchNext(c, l, E[l], Signals(c, E, l)) = E[l]

Firmly(c, A, E, s) == {t \in Like(c, s) : t.active = s.active /\ Fit(c, A, LatchesOf(c), E, t)}

\* Enough calls within calls: each gate on the path may have called a flip-flop
\* without a value.
Free(c, s) == Cardinality(Vertices(c) \ s.active)

Room(c, n, s, v) == n >= Cardinality(Vertices(c)) + 1 + 2 * Free(c, s) + One(c.kind[v] = "seq")

Keeping(c, A, E, n, up) ==
    \A s \in Memory(c), v \in Vertices(c) :
      Fit(c, A, LatchesOf(c), E, s) /\ s.active \cap A = {} /\ Room(c, n, s, v)
        => up[<<s, v>>] \in Firmly(c, A, E, s)

LEMMA FirmlyFacts ==
    ASSUME NEW c, NEW A, NEW E, NEW s, Fit(c, A, LatchesOf(c), E, s)
    PROVE  /\ s \in Memory(c) /\ s \in Firmly(c, A, E, s)
           /\ \A t \in Firmly(c, A, E, s) : t \in Memory(c) /\ \A u \in Firmly(c, A, E, t) : u \in Firmly(c, A, E, s)
<1>1. s \in Memory(c)
  BY DEF Fit
<1>2. s \in Firmly(c, A, E, s)
  BY <1>1, LikeSelf DEF Firmly
<1>3. ASSUME NEW t \in Firmly(c, A, E, s), NEW u \in Firmly(c, A, E, t) PROVE u \in Firmly(c, A, E, s)
  <2>1. u \in Like(c, s)
    BY LikeLike DEF Firmly
  <2> QED BY <2>1 DEF Firmly
<1> QED BY <1>1, <1>2, <1>3 DEF Firmly, Like

\* Giving a vertex that is no concern of the latches a value.
LEMMA FitValued ==
    ASSUME NEW c, NEW A, NEW R, NEW E, NEW s, Fit(c, A, R, E, s), NEW v \in Vertices(c),
           R \subseteq Vertices(c), A \subseteq Vertices(c), ~Primary(c, v), v \notin R, v \notin A,
           NEW t \in Memory(c), t.active \cap A = s.active \cap A,
           \A w \in Vertices(c) \ {v} : t.value[w] = s.value[w]
    PROVE  Fit(c, A, R, E, t)
<1>1. \A w \in Vertices(c) : Primary(c, w) \/ w \in R => w # v
  OBVIOUS
<1>2. \A g \in A : t.value[g] = s.value[g] /\ (g \in t.active <=> g \in s.active)
  OBVIOUS
<1> QED BY <1>1, <1>2 DEF Fit

LEMMA FirmCommit ==
    ASSUME NEW c, Built(c), NEW A, NEW E, Stable(c, A, E), NEW s, Fit(c, A, LatchesOf(c), E, s),
           NEW f \in Of(c, "seq"), c.cell[f].ff
    PROVE  Commit(s, f) \in Firmly(c, A, E, s)
<1>1. s \in Memory(c) /\ s \in Firmly(c, A, E, s)
  BY FirmlyFacts
<1>2. CASE s.staged[f] = <<>>
  BY <1>1, <1>2, CommitIs
<1>3. CASE s.staged[f] # <<>>
  <2> DEFINE q == s.staged[f][1]
             k == s.staged[f][2]
             t == Committed(s, f, q, k)
  <2>1. q \in Values /\ k \in Values
    BY <1>1, <1>3, MemoryFields
  <2> HIDE DEF q, k
  <2>2. t \in Like(c, s) /\ t.active = s.active /\ \A w \in Vertices(c) \ {f} : t.value[w] = s.value[w]
    BY <1>1, <2>1, CommittedFacts
  <2> HIDE DEF t
  <2>3. f \in Vertices(c) /\ ~Primary(c, f) /\ f \notin LatchesOf(c) /\ f \notin A
    BY KindsApart DEF Of, Stable, Covered, Closed, Gates, LatchesOf, Primary
  <2>4. LatchesOf(c) \subseteq Vertices(c) /\ A \subseteq Vertices(c)
    BY DEF LatchesOf, Of, Stable, Covered, Closed, Gates
  <2>5. Fit(c, A, LatchesOf(c), E, t)
    BY <2>2, <2>3, <2>4, FitValued DEF Like
  <2>6. Commit(s, f) = t
    BY <1>3, CommitIs DEF t, q, k
  <2> QED BY <2>2, <2>5, <2>6 DEF Firmly
<1> QED BY <1>2, <1>3

LEMMA FirmStage ==
    ASSUME NEW c, Built(c), Flat(c), NEW A, NEW E, Stable(c, A, E), NEW n \in Nat,
           NEW up, Typed(c, up), Keeping(c, A, E, n, up),
           NEW s, Fit(c, A, LatchesOf(c), E, s), s.active \cap A = {},
           n >= Cardinality(Vertices(c)) + 1 + 2 * Free(c, s),
           NEW f \in Of(c, "seq"), c.cell[f].ff
    PROVE  Stage(c, up, s, f) \in Firmly(c, A, E, s)
<1> DEFINE K == Firmly(c, A, E, s)
           X == [name \in PinNames |-> Values]
           u == Stage(c, up, s, f)
<1>1. s \in Memory(c) /\ s \in K /\ K \subseteq Memory(c)
  BY FirmlyFacts
<1>2. Signalled(X)
  BY DEF Signalled, Values
<1>3. Looking(c, up, K, f, X)
  <2>1. ASSUME NEW t \in K, NEW name \in PinNames, Has(c, f, name)
        PROVE  Look(c, up, t, f, name) \in K /\ Look(c, up, t, f, name).value[Pin(c, f, name)] \in X[name]
    <3> DEFINE p == Pin(c, f, name)
    <3>1. p \in Vertices(c)
      BY <2>1, PinVertex
    <3>2. Look(c, up, t, f, name) = IF c.kind[p] = "seq" THEN t ELSE up[<<t, p>>]
      BY <2>1 DEF Look
    <3>3. /\ t \in Memory(c) /\ Fit(c, A, LatchesOf(c), E, t) /\ t.active = s.active
          /\ t.active \cap A = {} /\ Free(c, t) = Free(c, s)
      BY <1>1 DEF Firmly, Free
    <3>4. c.kind[p] # "seq" => up[<<t, p>>] \in Firmly(c, A, E, t)
      <4> SUFFICES ASSUME c.kind[p] # "seq" PROVE up[<<t, p>>] \in Firmly(c, A, E, t)
        OBVIOUS
      <4>1. One(c.kind[p] = "seq") = 0
        BY DEF One
      <4>2. Free(c, s) \in Nat /\ Cardinality(Vertices(c)) \in Nat
        <5>1. IsFiniteSet(Vertices(c)) /\ Vertices(c) \ s.active \in SUBSET Vertices(c)
          BY DEF Built
        <5> QED BY <5>1, Subsets DEF Free
      <4>3. Room(c, n, t, p)
        BY <3>3, <4>1, <4>2 DEF Room
      <4> HIDE DEF p
      <4> QED BY <3>1, <3>3, <4>3 DEF Keeping
    <3> HIDE DEF p
    <3>5. Look(c, up, t, f, name) \in K
      BY <3>2, <3>4, FirmlyFacts
    <3>6. Look(c, up, t, f, name).value[p] \in Values
      BY <1>1, <3>1, <3>5, MemoryFields
    <3> QED BY <3>5, <3>6 DEF p
  <2> QED BY <1>1, <2>1 DEF Looking
<1>4. Stages(c, K, f, X, u)
  <2> HIDE DEF K, X
  <2> QED BY <1>1, <1>2, <1>3, StageWithin
<1>5. PICK t \in K : \E q, k : u = Staged(t, f, q, k)
  <2> HIDE DEF K, X, u
  <2> QED BY <1>4 DEF Stages
<1>6. u \in Like(c, s)
  BY <1>1, StageTyped
<1> HIDE DEF u
<1>7. t \in Memory(c) /\ t.active = s.active /\ Fit(c, A, LatchesOf(c), E, t)
  BY <1>1 DEF Firmly
<1>8. u.value = t.value /\ u.active = t.active
  BY <1>5, <1>7 DEF Staged, Memory
<1>9. Fit(c, A, LatchesOf(c), E, u)
  BY <1>6, <1>7, <1>8 DEF Fit, Like
<1> QED BY <1>6, <1>7, <1>8, <1>9 DEF Firmly, u

LEMMA FreeFacts ==
    ASSUME NEW c, Built(c), NEW s \in Memory(c)
    PROVE  /\ Free(c, s) \in Nat /\ Cardinality(Vertices(c)) \in Nat /\ Free(c, s) <= Cardinality(Vertices(c))
           /\ \A t : t.active = s.active => Free(c, t) = Free(c, s)
           /\ \A v \in Vertices(c) : \A t : v \notin s.active /\ t.active = s.active \cup {v}
                => Free(c, t) + 1 = Free(c, s)
<1> DEFINE S(t) == Vertices(c) \ t.active
<1>1. IsFiniteSet(Vertices(c)) /\ S(s) \in SUBSET Vertices(c)
  BY DEF Built
<1>2. Free(c, s) \in Nat /\ Cardinality(Vertices(c)) \in Nat /\ Free(c, s) <= Cardinality(Vertices(c))
  BY <1>1, Subsets DEF Free
<1>3. ASSUME NEW v \in Vertices(c), NEW t, v \notin s.active, t.active = s.active \cup {v}
      PROVE  Free(c, t) + 1 = Free(c, s)
  <2>1. S(s) = S(t) \cup {v} /\ v \notin S(t) /\ S(t) \in SUBSET Vertices(c)
    BY <1>3
  <2>2. Cardinality(S(t) \cup {v}) = Cardinality(S(t)) + 1
    <3> HIDE DEF S
    <3> QED BY <1>1, <1>3, <2>1, Subsets
  <2> QED BY <2>1, <2>2 DEF Free
<1> QED BY <1>2, <1>3 DEF Free

LEMMA FirmGuarded ==
    ASSUME NEW c, Built(c), Flat(c), NEW A, NEW E, Stable(c, A, E), NEW n \in Nat,
           NEW up, Keeping(c, A, E, n, up),
           NEW s, Fit(c, A, LatchesOf(c), E, s), s.active \cap A = {},
           n >= Cardinality(Vertices(c)) + 2 * Free(c, s),
           NEW v \in Vertices(c), Gate(c, v) \/ c.kind[v] = "output", v \notin A
    PROVE  Guarded(c, up, s, v) \in Firmly(c, A, E, s)
<1> DEFINE in == Inner(s, v)
           out == IF Gate(c, v) THEN GateValue(c, up, in, v) ELSE OutputValue(c, up, in, v)
           K == Firmly(c, A, E, in)
           R == LatchesOf(c)
           res == Guarded(c, up, s, v)
<1>1. s \in Memory(c)
  BY DEF Fit
<1>2. /\ R \subseteq Vertices(c) /\ A \subseteq Vertices(c)
      /\ ~Primary(c, v) /\ v \notin R
  BY KindsApart DEF LatchesOf, Of, Stable, Covered, Closed, Gates, Primary
<1>3. res = IF v \in s.active \/ c.ins[v] = <<>> THEN Valued(s, v, Unknown) ELSE Within(out, s.active)
  BY <1>1, GuardedIs
<1> HIDE DEF R
<1>4. ASSUME NEW t \in Memory(c), Fit(c, A, R, E, t), NEW x \in Values
      PROVE  Valued(t, v, x) \in Firmly(c, A, E, t)
  <2>1. /\ Valued(t, v, x) \in Like(c, t) /\ Valued(t, v, x).active = t.active
        /\ \A w \in Vertices(c) \ {v} : Valued(t, v, x).value[w] = t.value[w]
    BY <1>4, ValuedFacts
  <2>2. Fit(c, A, R, E, Valued(t, v, x))
    BY <1>2, <1>4, <2>1, FitValued DEF Like
  <2> QED BY <2>1, <2>2 DEF Firmly, R
<1>5. CASE v \in s.active \/ c.ins[v] = <<>>
  BY <1>1, <1>3, <1>4, <1>5 DEF Values, Unknown, R
<1>6. CASE v \notin s.active /\ c.ins[v] # <<>>
  <2>1. res = Within(out, s.active)
    BY <1>3, <1>6
  <2>2. /\ in \in Like(c, s) /\ in \in Memory(c) /\ in.active = s.active \cup {v}
        /\ \A w \in Vertices(c) \ {v} : in.value[w] = s.value[w]
    BY <1>1, InnerFacts
  <2> HIDE DEF in
  <2>3. in.active \cap A = s.active \cap A /\ in.active \cap A = {}
    BY <2>2
  <2>4. Fit(c, A, R, E, in)
    BY <1>2, <2>2, <2>3, FitValued DEF R
  <2>5. in \in K /\ \A t \in K : t \in Memory(c) /\ \A u \in Firmly(c, A, E, t) : u \in K
    BY <2>4, FirmlyFacts DEF R
  <2>6. ASSUME NEW t \in K, NEW d \in ToSet(c.ins[v])
        PROVE  up[<<t, d>>] \in K /\ Pull(up, t, d) \in K
    <3>1. d \in Vertices(c)
      BY <2>6, Drivers
    <3>2. t \in Memory(c) /\ t.active = in.active /\ Fit(c, A, R, E, t)
      BY <2>5 DEF Firmly, R
    <3>3. Free(c, s) = Free(c, t) + 1 /\ Free(c, t) \in Nat /\ Cardinality(Vertices(c)) \in Nat
      BY <1>1, <1>6, <2>2, <3>2, FreeFacts
    <3>4. Room(c, n, t, d)
      <4>1. One(c.kind[d] = "seq") \in {0, 1}
        BY DEF One
      <4> QED BY <3>3, <4>1 DEF Room
    <3>5. up[<<t, d>>] \in Firmly(c, A, E, t)
      BY <2>3, <3>1, <3>2, <3>4 DEF Keeping, R
    <3> QED BY <2>5, <3>5 DEF Pull
  <2>7. \A t \in K : \A x \in Values : Valued(t, v, x) \in K
    <3>1. ASSUME NEW t \in K, NEW x \in Values PROVE Valued(t, v, x) \in K
      <4>1. t \in Memory(c) /\ Fit(c, A, R, E, t)
        BY <2>5 DEF Firmly, R
      <4>2. Valued(t, v, x) \in Firmly(c, A, E, t)
        BY <1>4, <4>1
      <4> QED BY <2>5, <4>2
    <3> QED BY <3>1
  <2>8. Working(c, v)
    BY <1>6 DEF Working
  <2>9. K \subseteq Memory(c)
    BY <2>5
  <2>10. out \in K
    <3> HIDE DEF K
    <3>1. Pulling(c, up, K, v) /\ Answering(c, up, K, v)
      BY <2>6, <2>7, <2>9 DEF Pulling, Answering
    <3>2. CASE Gate(c, v)
      BY <2>5, <2>8, <3>1, <3>2, GateWithin
    <3>3. CASE ~Gate(c, v)
      BY <2>5, <2>8, <3>1, <3>3, OutputStays
    <3> QED BY <3>2, <3>3
  <2> HIDE DEF out
  <2>11. out \in Memory(c) /\ out \in Like(c, in) /\ out.active = in.active /\ Fit(c, A, R, E, out)
    BY <2>10 DEF Firmly, Like, R
  <2>12. out \in Like(c, s)
    BY <2>2, <2>11, LikeLike
  <2>13. res \in Like(c, out) /\ res.active = s.active /\ res.value = out.value
    BY <1>1, <2>1, <2>11, MemoryFields, WithinFacts
  <2> HIDE DEF res
  <2>14. res \in Like(c, s) /\ res \in Memory(c)
    BY <2>12, <2>13, LikeLike DEF Like
  <2>15. \A g \in A : g \in res.active <=> g \in out.active
    BY <2>3, <2>11, <2>13
  <2>16. Fit(c, A, R, E, res)
    BY <2>11, <2>13, <2>14, <2>15 DEF Fit
  <2> QED BY <2>13, <2>14, <2>16 DEF Firmly, R, res
<1> QED BY <1>5, <1>6

LEMMA FirmLatch ==
    ASSUME NEW c, Built(c), Flat(c), NEW level \in Layers(c), NEW n \in Nat, Cardinality(Vertices(c)) < n,
           NEW up, Idle(c, up), Fitting(c, level, n, up), NEW A, NEW E, Stable(c, A, E),
           NEW s, Fit(c, A, LatchesOf(c), E, s), s.active \cap A = {},
           NEW l \in LatchesOf(c)
    PROVE  Commit(Stage(c, up, s, l), l) \in Firmly(c, A, E, s)
<1> DEFINE t == Commit(Stage(c, up, s, l), l)
           R == LatchesOf(c)
<1>1. /\ l \in Of(c, "seq") /\ ~c.cell[l].ff /\ Covered(c, A, R) /\ E \in Assignments(c)
      /\ \A d \in ToSet(c.ins[l]) : Primary(c, d) \/ d \in R \/ d \in A
      /\ LatchNext(c, l, E[l], Signals(c, E, l)) = E[l]
  BY DEF Stable, LatchesOf
<1>2. /\ t \in Like(c, s) /\ t.active = s.active
      /\ t.value[l] = LatchNext(c, l, s.value[l], Signals(c, E, l))
      /\ \A w \in Vertices(c) : w \notin A /\ w # l => t.value[w] = s.value[w]
      /\ \A g \in A : t.value[g] \in {Undefined, Cone(c, E, g)}
  BY <1>1, LatchFits
<1> HIDE DEF t
<1>3. l \in Vertices(c) /\ s.value[l] = E[l]
  BY <1>1 DEF Fit, Of
<1>4. t.value[l] = s.value[l]
  BY <1>1, <1>2, <1>3
<1>5. \A w \in Vertices(c) : Primary(c, w) \/ w \in R => w \notin A
  BY KindsApart DEF Stable, Covered, Closed, Gates, LatchesOf, Of
<1>6. \A f \in R : f \in Vertices(c)
  BY DEF LatchesOf, Of
<1>7. \A w \in Vertices(c) : Primary(c, w) \/ w \in R => t.value[w] = s.value[w]
  BY <1>2, <1>4, <1>5
<1>8. Fit(c, A, R, E, t)
  BY <1>2, <1>6, <1>7 DEF Fit, Like
<1> QED BY <1>2, <1>8 DEF Firmly, t

(* No call of updateValue disturbs settled latches and what feeds them.    *)
LEMMA UpdateKeeps ==
    ASSUME NEW c, Built(c), Flat(c), NEW up, Updating(c, up), NEW A, NEW E, Stable(c, A, E)
    PROVE  \A n \in Nat : Keeping(c, A, E, n, up[n])
<1> DEFINE S == {n \in Nat : Keeping(c, A, E, n, up[n])}
           N == Cardinality(Vertices(c))
           R == LatchesOf(c)
<1>1. PICK level : level \in Layers(c)
  BY DEF Flat
<1>2. ASSUME NEW n \in Nat, NEW s \in Memory(c), NEW v \in Vertices(c), Room(c, n, s, v)
      PROVE  /\ n >= N + 1 /\ n >= N + 1 + 2 * Free(c, s) /\ N \in Nat /\ Free(c, s) \in Nat
             /\ c.kind[v] = "seq" => n >= N + 2 /\ n >= N + 2 + 2 * Free(c, s)
  <2>1. Free(c, s) \in Nat /\ N \in Nat
    BY FreeFacts
  <2>2. One(c.kind[v] = "seq") \in Nat /\ (c.kind[v] = "seq" => One(c.kind[v] = "seq") = 1)
    BY DEF One
  <2> HIDE DEF N
  <2> QED BY <1>2, <2>1, <2>2 DEF Room, N
<1>3. 0 \in S
  <2>1. \A s \in Memory(c), v \in Vertices(c) : ~Room(c, 0, s, v)
    BY <1>2
  <2> QED BY <2>1 DEF Keeping
<1>4. ASSUME NEW n \in Nat, n \in S PROVE n + 1 \in S
  <2>1. /\ Keeping(c, A, E, n, up[n]) /\ Idle(c, up[n]) /\ Typed(c, up[n]) /\ Fitting(c, level, n, up[n])
        /\ Idle(c, up[n + 1]) /\ Fitting(c, level, n + 1, up[n + 1])
    BY <1>1, <1>4, UpdateIdle, UpdatingTyped, UpdateFits
  <2>2. ASSUME NEW s \in Memory(c), NEW v \in Vertices(c), Fit(c, A, R, E, s), s.active \cap A = {},
               Room(c, n + 1, s, v)
        PROVE  up[n + 1][<<s, v>>] \in Firmly(c, A, E, s)
    <3>1. /\ N \in Nat /\ Free(c, s) \in Nat /\ n >= N + 2 * Free(c, s) /\ N < n + 1
          /\ c.kind[v] = "seq" => N < n /\ n >= N + 1 + 2 * Free(c, s)
      <4>1. /\ n + 1 >= N + 1 /\ n + 1 >= N + 1 + 2 * Free(c, s) /\ N \in Nat /\ Free(c, s) \in Nat
            /\ c.kind[v] = "seq" => n + 1 >= N + 2 /\ n + 1 >= N + 2 + 2 * Free(c, s)
        BY <1>2, <2>2
      <4> HIDE DEF N
      <4> QED BY <4>1
    <3>2. CASE Primary(c, v)
      <4>1. up[n + 1][<<s, v>>] = s
        BY <2>1, <3>2 DEF Idle
      <4> QED BY <2>2, <4>1, FirmlyFacts
    <3>3. CASE v \in A
      <4>1. Covered(c, A, R) /\ E \in Assignments(c) /\ v \in Gates(c)
        BY <3>3 DEF Stable, Covered, Closed
      <4>2. level[v] < n + 1
        <5>1. level[v] \in 0..N
          BY <1>1, <4>1 DEF Layers
        <5> HIDE DEF N
        <5> QED BY <3>1, <5>1
      <4>3. Over(level, A, s, v)
        BY <2>2 DEF Over
      <4>4. FitTo(c, A, R, E, s, v, up[n + 1][<<s, v>>])
        BY <2>1, <2>2, <3>3, <4>1, <4>2, <4>3 DEF Fitting
      <4> QED BY <4>4 DEF FitTo, Kept, Firmly
    <3>4. CASE (Gate(c, v) \/ c.kind[v] = "output") /\ v \notin A
      <4>1. up[n + 1][<<s, v>>] = Guarded(c, up[n], s, v)
        BY <3>4, UpdateGate
      <4> QED BY <2>1, <2>2, <3>1, <3>4, <4>1, FirmGuarded
    <3>5. CASE v \in Of(c, "seq") /\ c.cell[v].ff
      <4> DEFINE u == Stage(c, up[n], s, v)
      <4>1. up[n + 1][<<s, v>>] = Commit(u, v)
        BY <3>5, UpdateCell
      <4>2. u \in Firmly(c, A, E, s)
        BY <2>1, <2>2, <3>1, <3>5, FirmStage DEF Of
      <4> HIDE DEF u
      <4>3. Fit(c, A, R, E, u)
        BY <4>2 DEF Firmly
      <4>4. Commit(u, v) \in Firmly(c, A, E, u)
        BY <3>5, <4>3, FirmCommit
      <4> QED BY <2>2, <4>1, <4>2, <4>4, FirmlyFacts
    <3>6. CASE v \in Of(c, "seq") /\ ~c.cell[v].ff
      <4>1. up[n + 1][<<s, v>>] = Commit(Stage(c, up[n], s, v), v)
        BY <3>6, UpdateCell
      <4>2. v \in LatchesOf(c) /\ c.kind[v] = "seq"
        BY <3>6 DEF LatchesOf, Of
      <4> QED BY <1>1, <2>1, <2>2, <3>1, <4>1, <4>2, FirmLatch
    <3>7. Primary(c, v) \/ Gate(c, v) \/ c.kind[v] = "output" \/ v \in Of(c, "seq")
      BY DEF Built, Flat, Of, Primary, Gate
    <3> QED BY <3>2, <3>3, <3>4, <3>5, <3>6, <3>7
  <2>3. Keeping(c, A, E, n + 1, up[n + 1])
    BY <2>2 DEF Keeping
  <2> QED BY <2>3
<1> HIDE DEF S
<1>5. \A n \in Nat : n \in S
  BY <1>3, <1>4, Induction
<1> QED BY <1>5 DEF S

LEMMA DepthRoom ==
    ASSUME NEW c, Built(c)
    PROVE  /\ Cardinality(Vertices(c)) \in Nat /\ Depth(c) \in Nat
           /\ Depth(c) >= 3 * Cardinality(Vertices(c)) + 1
<1> DEFINE N == Cardinality(Vertices(c))
<1>1. N \in Nat /\ Depth(c) \in Nat /\ Depth(c) = (N + 1) * (N + 1)
  BY DepthNat DEF Depth
<1> HIDE DEF N
<1>2. N * N \in Nat /\ (N >= 1 => 1 * N <= N * N /\ 1 * N = N)
  BY <1>1, Times
<1> DEFINE sq == N * N
<1>3. (N + 1) * (N + 1) = N * N + N + N + 1
  BY <1>1
<1>4. sq \in Nat /\ N <= sq /\ Depth(c) = sq + N + N + 1
  <2>1. N = 0 \/ N >= 1
    BY <1>1
  <2> QED BY <1>1, <1>2, <1>3, <2>1
<1> HIDE DEF sq
<1>5. Depth(c) >= 3 * N + 1
  BY <1>1, <1>4
<1> QED BY <1>1, <1>5 DEF N

(* What the loops of graphSimulation call when no gate is being evaluated. *)
LEMMA UpdateSettles ==
    ASSUME NEW c, Built(c), Flat(c), NEW A, NEW E, Stable(c, A, E),
           NEW s, Fit(c, A, LatchesOf(c), E, s), s.active = {}
    PROVE  /\ \A v \in Vertices(c) : c.kind[v] # "seq" => Update(c)[<<s, v>>] \in Firmly(c, A, E, s)
           /\ \A f \in Of(c, "seq") : c.cell[f].ff => Stage(c, Update(c), s, f) \in Firmly(c, A, E, s)
<1> DEFINE D == Depth(c)
           N == Cardinality(Vertices(c))
<1>1. PICK up : Updating(c, up) /\ Update(c) = up[D]
  BY UpdatingExists
<1>2. D \in Nat /\ N \in Nat /\ D >= 3 * N + 1
  BY DepthRoom
<1>3. s \in Memory(c) /\ s.active \cap A = {}
  BY DEF Fit
<1>4. Free(c, s) = N
  <2>1. Vertices(c) \ {} = Vertices(c)
    OBVIOUS
  <2> QED BY <2>1 DEF Free
<1>5. Keeping(c, A, E, D, Update(c)) /\ Typed(c, Update(c))
  BY <1>1, <1>2, UpdateKeeps, UpdateTyped
<1>6. D >= N + 1 + 2 * Free(c, s)
  BY <1>2, <1>4
<1>7. ASSUME NEW v \in Vertices(c), c.kind[v] # "seq" PROVE Update(c)[<<s, v>>] \in Firmly(c, A, E, s)
  <2>1. One(c.kind[v] = "seq") = 0
    BY <1>7 DEF One
  <2>2. Room(c, D, s, v)
    BY <1>2, <1>4, <1>6, <2>1 DEF Room
  <2> QED BY <1>3, <1>5, <2>2 DEF Keeping
<1>8. \A f \in Of(c, "seq") : c.cell[f].ff => Stage(c, Update(c), s, f) \in Firmly(c, A, E, s)
  <2> HIDE DEF D
  <2> QED BY <1>2, <1>3, <1>5, <1>6, FirmStage
<1> QED BY <1>7, <1>8

-----------------------------------------------------------------------------
(* The latches settle one after the other.                                 *)

\* The latches of R have settled, and only gates that read no other cell have a
\* value.
Even(c, R, s) ==
    /\ s \in Memory(c) /\ s.active = {}
    /\ \A g \in Gates(c) : s.value[g] # Undefined => g \in Reading(c, R) /\ s.value[g] = Cone(c, s.value, g)
    /\ \A l \in R : /\ s.value[l] # Undefined
                    /\ Fed(c, R, l)
                    /\ LatchNext(c, l, s.value[l], Signals(c, s.value, l)) = s.value[l]

LEMMA EvenFit ==
    ASSUME NEW c, Built(c), Flat(c), NEW R \in SUBSET LatchesOf(c), NEW s, Even(c, R, s)
    PROVE  /\ s.value \in Assignments(c)
           /\ Covered(c, Reading(c, R), R)
           /\ Fit(c, Reading(c, R), R, s.value, s)
<1>1. R \in SUBSET Of(c, "seq")
  BY DEF LatchesOf
<1>2. Covered(c, Reading(c, R), R)
  BY <1>1, ReadingCovered
<1>3. s.value \in Assignments(c)
  BY MemoryFields DEF Even, Assignments
<1>4. Reading(c, R) \subseteq Gates(c)
  BY DEF Reading
<1> QED BY <1>2, <1>3, <1>4 DEF Even, Fit

\* The signals of a latch that is fed by R.
LEMMA SignalsSame ==
    ASSUME NEW c, Built(c), Flat(c), NEW A, NEW R, Covered(c, A, R), NEW l \in Of(c, "seq"),
           \A d \in ToSet(c.ins[l]) : Primary(c, d) \/ d \in R \/ d \in A,
           NEW E \in Assignments(c), NEW F \in Assignments(c),
           \A w \in Vertices(c) : Primary(c, w) \/ w \in R => E[w] = F[w]
    PROVE  Signals(c, E, l) = Signals(c, F, l)
<1>1. ASSUME NEW name \in PinNames, Has(c, l, name)
      PROVE  Cone(c, E, Pin(c, l, name)) = Cone(c, F, Pin(c, l, name))
  <2>1. Pin(c, l, name) \in Vertices(c) /\ Pin(c, l, name) \in ToSet(c.ins[l])
    BY <1>1, PinVertex
  <2> QED BY <2>1, ConeCovered
<1> QED BY <1>1 DEF Signals

LEMMA EvenStep ==
    ASSUME NEW c, Built(c), Flat(c), NEW R \in SUBSET LatchesOf(c), NEW s, Even(c, R, s),
           NEW l \in LatchesOf(c), Fed(c, R, l)
    PROVE  Even(c, R \cup {l}, Update(c)[<<s, l>>]) /\ Update(c)[<<s, l>>] \in Like(c, s)
<1> DEFINE t == Update(c)[<<s, l>>]
           A == Reading(c, R)
           E == s.value
           F == t.value
           Q == R \cup {l}
           D == Depth(c)
           N == Cardinality(Vertices(c))
           pins == Signals(c, E, l)
<1>1. PICK up : Updating(c, up) /\ Update(c) = up[D]
  BY UpdatingExists
<1>2. PICK level : level \in Layers(c)
  BY DEF Flat
<1>3. l \in Of(c, "seq") /\ l \in Vertices(c) /\ c.kind[l] = "seq" /\ ~c.cell[l].ff
  BY DEF LatchesOf, Of
<1>4. PICK n \in Nat : D = n + 1 /\ N < n
  <2>1. D \in Nat /\ N \in Nat /\ N + 2 < D
    BY <1>3, DepthNat, DepthBig
  <2> HIDE DEF D, N
  <2>2. D - 1 \in Nat /\ D = (D - 1) + 1 /\ N < D - 1
    BY <2>1
  <2> QED BY <2>2
<1>5. s \in Memory(c) /\ s.active = {} /\ s.active \cap A = {} /\ E \in Assignments(c)
      /\ Covered(c, A, R) /\ Fit(c, A, R, E, s)
  BY EvenFit DEF Even
<1>6. t = Commit(Stage(c, up[n], s, l), l)
  BY <1>1, <1>3, <1>4, <1>5, UpdateCell
<1>7. \A d \in ToSet(c.ins[l]) : Primary(c, d) \/ d \in R \/ d \in A
  BY DEF Fed
<1>8. Idle(c, up[n]) /\ Fitting(c, level, n, up[n])
  BY <1>1, <1>2, UpdateIdle, UpdateFits
<1> HIDE DEF A, E, D, N
<1>9. /\ t \in Like(c, s) /\ t.active = s.active
      /\ F[l] = LatchNext(c, l, E[l], pins)
      /\ \A w \in Vertices(c) : w \notin A /\ w # l => F[w] = E[w]
      /\ \A g \in A : F[g] \in {Undefined, Cone(c, E, g)}
  <2> DEFINE r == Commit(Stage(c, up[n], s, l), l)
  <2>1. /\ r \in Like(c, s) /\ r.active = s.active
        /\ r.value[l] = LatchNext(c, l, s.value[l], Signals(c, E, l))
        /\ \A w \in Vertices(c) : w \notin A /\ w # l => r.value[w] = s.value[w]
        /\ \A g \in A : r.value[g] \in {Undefined, Cone(c, E, g)}
    BY <1>2, <1>3, <1>4, <1>5, <1>7, <1>8, LatchFits DEF N
  <2> HIDE DEF r
  <2>2. t = r
    BY <1>6 DEF r
  <2> HIDE DEF t
  <2> QED BY <2>1, <2>2 DEF E
<1> HIDE DEF t
<1>10. t \in Memory(c) /\ F \in Assignments(c)
  <2>1. t \in Memory(c)
    BY <1>9 DEF Like
  <2> QED BY <2>1, MemoryFields DEF Assignments
<1>11. pins \in [PinNames -> Values] /\ E[l] \in Values
  BY <1>3, <1>5, SignalsFacts DEF Assignments
<1>12. /\ R \subseteq Of(c, "seq") /\ Q \in SUBSET Of(c, "seq") /\ R \subseteq Q /\ A \subseteq Gates(c)
       /\ \A g \in Gates(c) : g \in Vertices(c) /\ ~Leaf(c, g) /\ g # l
  BY <1>3, KindsApart DEF LatchesOf, Reading, A, Gates, Leaf
<1>13. \A w \in Vertices(c) : Primary(c, w) \/ w \in R => E[w] = F[w]
  <2>1. \A w \in Vertices(c) : Primary(c, w) \/ w \in R => w \notin A
    BY <1>12, KindsApart DEF Of, Leaf, Primary
  <2>2. l \in R => F[l] = E[l]
    BY <1>9 DEF Even, E
  <2>3. \A w \in Vertices(c) : Primary(c, w) => w # l
    BY <1>3, KindsApart
  <2> QED BY <1>9, <2>1, <2>2, <2>3
<1>14. A \subseteq Reading(c, Q)
  BY <1>12, ReadingCovered DEF A
<1>15. ASSUME NEW g \in Gates(c), F[g] # Undefined PROVE g \in Reading(c, Q) /\ F[g] = Cone(c, F, g)
  <2>1. CASE g \in A
    <3>1. Cone(c, E, g) = Cone(c, F, g)
      BY <1>5, <1>10, <1>12, <1>13, <2>1, ConeCovered
    <3> QED BY <1>9, <1>14, <1>15, <2>1, <3>1
  <2>2. CASE g \notin A
    <3>1. F[g] = E[g]
      BY <1>9, <1>12, <2>2
    <3>2. E[g] = Undefined
      BY <2>2 DEF Even, E, A
    <3> QED BY <1>15, <3>1, <3>2
  <2> QED BY <2>1, <2>2
<1>16. ASSUME NEW k \in Q
       PROVE  /\ F[k] # Undefined /\ Fed(c, Q, k)
              /\ LatchNext(c, k, F[k], Signals(c, F, k)) = F[k]
  <2>1. k \in Of(c, "seq") /\ Fed(c, R, k)
    BY <1>3, <1>12 DEF Even
  <2>2. Fed(c, Q, k)
    BY <1>12, <1>14, <2>1 DEF Fed, A
  <2>3. Signals(c, E, k) = Signals(c, F, k)
    <3>1. \A d \in ToSet(c.ins[k]) : Primary(c, d) \/ d \in R \/ d \in A
      BY <2>1 DEF Fed, A
    <3> QED BY <1>5, <1>10, <1>13, <2>1, <3>1, SignalsSame
  <2>4. CASE k = l
    <3>1. F[l] # Undefined /\ LatchNext(c, l, F[l], pins) = F[l]
      <4> HIDE DEF pins, F
      <4> QED BY <1>9, <1>11, LatchNextFacts
    <3> QED BY <2>2, <2>3, <2>4, <3>1
  <2>5. CASE k # l
    <3>1. k \in R /\ k \in Vertices(c)
      BY <2>1, <2>5 DEF Of
    <3>2. F[k] = E[k]
      BY <1>13, <3>1
    <3>3. E[k] # Undefined /\ LatchNext(c, k, E[k], Signals(c, E, k)) = E[k]
      BY <3>1 DEF Even, E
    <3> QED BY <2>2, <2>3, <3>2, <3>3
  <2> QED BY <2>4, <2>5
<1>17. Even(c, Q, t)
  BY <1>5, <1>9, <1>10, <1>15, <1>16 DEF Even
<1> QED BY <1>9, <1>17 DEF t

LEMMA StartedEven ==
    ASSUME NEW c, Built(c), Flat(c), NEW s \in Memory(c), s.active = {}, NEW vector \in VectorsOf(c, "top")
    PROVE  Even(c, {}, Started(c, s, vector))
<1> DEFINE a == Invalidated(c, s, "top")
           b == Started(c, s, vector)
<1>1. /\ a \in Like(c, s) /\ a.active = {}
      /\ a.value = [v \in Vertices(c) |-> IF v \in Worked(c, "top") THEN Undefined ELSE s.value[v]]
  BY InvalidatedFacts
<1>2. b = Driven(c, a, "top", vector)
  BY DEF Started
<1> HIDE DEF a, b
<1>3. a \in Memory(c)
  BY <1>1 DEF Like
<1>4. /\ b \in Like(c, a) /\ b.active = {}
      /\ b.value = [v \in Vertices(c) |-> IF v \in ToSet(c.input["top"]) THEN vector[At(c.input["top"], v)]
                                          ELSE a.value[v]]
  BY <1>1, <1>2, <1>3, DrivenFacts
<1>5. ASSUME NEW g \in Gates(c) PROVE b.value[g] = Undefined
  <2>1. g \in Vertices(c) /\ g \notin ToSet(c.input["top"])
    <3>1. \A v \in ToSet(c.input["top"]) : c.kind[v] = "input"
      BY TopGraph, GraphLists DEF Of
    <3> QED BY <3>1, KindsApart DEF Gates
  <2>2. g \in Worked(c, "top")
    BY DEF Flat, Worked
  <2> QED BY <1>1, <1>4, <2>1, <2>2
<1> QED BY <1>4, <1>5 DEF Even, Like, b

LEMMA FirstLatchesFacts ==
    ASSUME NEW c, Built(c), Flat(c)
    PROVE  /\ FirstLatches(c, 0) = {} /\ FirstLatches(c, Len(TopSeq(c))) = LatchesOf(c)
           /\ \A i \in 1..Len(TopSeq(c)) :
                /\ FirstLatches(c, i - 1) \in SUBSET LatchesOf(c)
                /\ c.cell[TopSeq(c)[i]].ff => FirstLatches(c, i) = FirstLatches(c, i - 1)
                /\ ~c.cell[TopSeq(c)[i]].ff => FirstLatches(c, i) = FirstLatches(c, i - 1) \cup {TopSeq(c)[i]}
<1> DEFINE list == TopSeq(c)
<1>1. /\ Len(list) \in Nat
      /\ \A i \in 1..Len(list) : list[i] \in Of(c, "seq")
      /\ {list[j] : j \in 1..Len(list)} = Of(c, "seq")
  BY TopSeqFacts
<1>2. \A i : FirstLatches(c, i) = {f \in {list[j] : j \in 1..i} : ~c.cell[f].ff}
  BY DEF FirstLatches
<1> HIDE DEF list
<1>3. FirstLatches(c, 0) = {}
  BY <1>2
<1>4. FirstLatches(c, Len(list)) = LatchesOf(c)
  BY <1>1, <1>2 DEF LatchesOf
<1>5. ASSUME NEW i \in 1..Len(list)
      PROVE  /\ FirstLatches(c, i - 1) \in SUBSET LatchesOf(c)
             /\ c.cell[list[i]].ff => FirstLatches(c, i) = FirstLatches(c, i - 1)
             /\ ~c.cell[list[i]].ff => FirstLatches(c, i) = FirstLatches(c, i - 1) \cup {list[i]}
  <2>1. i \in Nat /\ \A j : j \in 1..(i - 1) => j \in 1..Len(list)
    BY <1>1
  <2>2. \A j : j \in 1..i <=> (j \in 1..(i - 1) \/ j = i)
    BY <1>1
  <2>3. {list[j] : j \in 1..i} = {list[j] : j \in 1..(i - 1)} \cup {list[i]}
    BY <2>2
  <2>4. FirstLatches(c, i - 1) \in SUBSET LatchesOf(c)
    BY <1>1, <1>2, <2>1 DEF LatchesOf
  <2> QED BY <1>2, <2>3, <2>4
<1> QED BY <1>3, <1>4, <1>5 DEF list

LEMMA LevelledEven ==
    ASSUME NEW c, Built(c), Flat(c), LatchesForward(c), NEW b, Even(c, {}, b)
    PROVE  Even(c, LatchesOf(c), Levelled(c, Update(c), b, "top"))
<1> DEFINE list == TopSeq(c)
           call == UpdatingLatches(c, Update(c))
           P == [i \in Int |-> {t \in Memory(c) : Even(c, FirstLatches(c, i), t)}]
<1>1. /\ Len(list) \in Nat
      /\ \A i \in 1..Len(list) : list[i] \in Of(c, "seq")
  BY TopSeqFacts
<1>2. Levelled(c, Update(c), b, "top") = Through(call, b, list)
  BY DEF Levelled, TopSeq
<1>3. \A i \in Int : P[i] = {t \in Memory(c) : Even(c, FirstLatches(c, i), t)}
  OBVIOUS
<1> HIDE DEF P
<1>4. b \in P[0]
  <2>1. FirstLatches(c, 0) = {}
    BY FirstLatchesFacts
  <2>2. b \in Memory(c)
    BY DEF Even
  <2>3. P[0] = {t \in Memory(c) : Even(c, FirstLatches(c, 0), t)}
    BY <1>3
  <2> QED BY <2>1, <2>2, <2>3
<1>5. ASSUME NEW i \in 1..Len(list), NEW s \in P[i - 1] PROVE call[<<s, list[i]>>] \in P[i]
  <2> DEFINE l == list[i]
             R == FirstLatches(c, i - 1)
  <2>1. s \in Memory(c) /\ Even(c, R, s) /\ i \in Int
    BY <1>3, <1>5
  <2>2. l \in Of(c, "seq") /\ l \in Vertices(c)
    BY <1>1 DEF Of
  <2>3. R \in SUBSET LatchesOf(c) /\ R \in SUBSET Of(c, "seq")
    BY FirstLatchesFacts DEF LatchesOf
  <2>4. call[<<s, l>>] = IF c.cell[l].ff THEN s ELSE Update(c)[<<s, l>>]
    BY <2>1, <2>2, LoopCalls
  <2>5. CASE c.cell[l].ff
    <3>1. FirstLatches(c, i) = R
      BY <2>5, FirstLatchesFacts
    <3> QED BY <1>3, <2>1, <2>4, <2>5, <3>1
  <2>6. CASE ~c.cell[l].ff
    <3>1. FirstLatches(c, i) = R \cup {l}
      BY <2>6, FirstLatchesFacts
    <3>2. l \in LatchesOf(c)
      BY <2>2, <2>6 DEF LatchesOf
    <3>3. Reads(c, l) \subseteq R
      BY <2>6 DEF LatchesForward
    <3>4. Fed(c, R, l)
      BY <2>2, <2>3, <3>3, ReadingCovered
    <3> HIDE DEF l, R, call
    <3>5. Even(c, R \cup {l}, Update(c)[<<s, l>>]) /\ Update(c)[<<s, l>>] \in Like(c, s)
      BY <2>1, <2>3, <3>2, <3>4, EvenStep
    <3> QED BY <1>3, <2>1, <2>4, <2>6, <3>1, <3>5 DEF Like, l
  <2> QED BY <2>5, <2>6
<1> HIDE DEF call, list
<1>6. Through(call, b, list) \in P[Len(list)]
  BY <1>1, <1>4, <1>5, TraceKeeps
<1>7. FirstLatches(c, Len(list)) = LatchesOf(c) /\ Len(list) \in Int
  BY <1>1, FirstLatchesFacts DEF list
<1> QED BY <1>2, <1>3, <1>6, <1>7

(* The flip-flops and the outputs leave the latches settled.               *)
LEMMA ClockedFirm ==
    ASSUME NEW c, Built(c), Flat(c), NEW A, NEW E, Stable(c, A, E),
           NEW s, Fit(c, A, LatchesOf(c), E, s), s.active = {}
    PROVE  /\ Clocked(c, Update(c), s, "top") \in Firmly(c, A, E, s)
           /\ Through(Update(c), s, c.output["top"]) \in Firmly(c, A, E, s)
<1> DEFINE list == TopSeq(c)
           up == Update(c)
           K == Firmly(c, A, E, s)
<1>1. list \in Seq(Of(c, "seq")) /\ ToSet(list) \subseteq Of(c, "seq")
  BY TopSeqFacts DEF ToSet
<1>2. s \in K
  BY FirmlyFacts
<1>3. ASSUME NEW t \in K
      PROVE  /\ t \in Memory(c) /\ Fit(c, A, LatchesOf(c), E, t) /\ t.active = {}
             /\ \A u \in Firmly(c, A, E, t) : u \in K
  BY <1>3, FirmlyFacts DEF Firmly
<1>4. ASSUME NEW t \in K, NEW f \in ToSet(list)
      PROVE  StagingFFs(c, up)[<<t, f>>] \in K /\ CommittingFFs(c)[<<t, f>>] \in K
  <2>1. f \in Of(c, "seq") /\ t \in Memory(c)
    BY <1>1, <1>3, <1>4
  <2>2. /\ StagingFFs(c, up)[<<t, f>>] = IF c.cell[f].ff THEN Stage(c, up, t, f) ELSE t
        /\ CommittingFFs(c)[<<t, f>>] = IF c.cell[f].ff THEN Commit(t, f) ELSE t
    BY <2>1, StagingCall, LoopCalls
  <2>3. c.cell[f].ff => Stage(c, up, t, f) \in Firmly(c, A, E, t) /\ Commit(t, f) \in Firmly(c, A, E, t)
    BY <1>3, <2>1, UpdateSettles, FirmCommit
  <2> QED BY <1>3, <2>2, <2>3
<1>5. c.output["top"] \in Seq(Vertices(c)) /\ \A o \in ToSet(c.output["top"]) : o \in Vertices(c) /\ c.kind[o] = "output"
  <2> DEFINE outs == c.output["top"]
  <2>1. outs \in Seq(Of(c, "output")) /\ Of(c, "output") \subseteq Vertices(c)
    BY TopGraph, GraphLists DEF Of
  <2> HIDE DEF outs
  <2>2. outs \in Seq(Vertices(c)) /\ ToSet(outs) \subseteq Of(c, "output")
    BY <2>1 DEF ToSet
  <2> QED BY <2>2 DEF outs, Of
<1>6. ASSUME NEW t \in K, NEW o \in ToSet(c.output["top"]) PROVE up[<<t, o>>] \in K
  BY <1>3, <1>5, <1>6, UpdateSettles
<1> HIDE DEF K, up, list
<1>7. Through(StagingFFs(c, up), s, list) \in K
  BY <1>1, <1>2, <1>4, TraceStays
<1>8. Through(CommittingFFs(c), Through(StagingFFs(c, up), s, list), list) \in K
  BY <1>1, <1>4, <1>7, TraceStays
<1>9. Through(up, s, c.output["top"]) \in K
  BY <1>2, <1>5, <1>6, TraceStays
<1> QED BY <1>8, <1>9 DEF Clocked, K, up, list, TopSeq

\* Evaluated again, each latch would keep its value.
Latched(c, s) == \A l \in LatchesOf(c) : LatchNext(c, l, s.value[l], Signals(c, s.value, l)) = s.value[l]

LEMMA SimulatedLatches ==
    ASSUME NEW c, Built(c), Flat(c), LatchesForward(c), NEW s \in Memory(c), s.active = {},
           NEW vector \in VectorsOf(c, "top")
    PROVE  LET t == Simulated(c, Update(c), s, "top", vector).cells
           IN  t \in Memory(c) /\ t.active = {} /\ Latched(c, t)
<1> DEFINE b == Started(c, s, vector)
           r == Levelled(c, Update(c), b, "top")
           A == Reading(c, LatchesOf(c))
           E == r.value
           R == LatchesOf(c)
           k == Clocked(c, Update(c), r, "top")
           t == Through(Update(c), k, c.output["top"])
<1>1. Even(c, {}, b)
  BY StartedEven
<1>2. Simulated(c, Update(c), s, "top", vector) = Answered(c, "top", t)
  BY DEF Simulated, Started
<1> HIDE DEF b
<1>3. Even(c, R, r)
  BY <1>1, LevelledEven
<1> HIDE DEF r
<1>4. E \in Assignments(c) /\ Covered(c, A, R) /\ Fit(c, A, R, E, r) /\ r.active = {}
  BY <1>3, EvenFit DEF Even
<1>5. Stable(c, A, E)
  BY <1>3, <1>4 DEF Stable, Even, Fed
<1> HIDE DEF A, E
<1>6. k \in Firmly(c, A, E, r)
  BY <1>4, <1>5, ClockedFirm
<1> HIDE DEF k
<1>7. Fit(c, A, R, E, k) /\ k.active = {}
  BY <1>4, <1>6 DEF Firmly
<1>8. t \in Firmly(c, A, E, k)
  BY <1>5, <1>7, ClockedFirm
<1> HIDE DEF t
<1>9. Fit(c, A, R, E, t) /\ t.active = {} /\ t \in Memory(c)
  BY <1>7, <1>8 DEF Firmly, Like
<1>10. t.value \in Assignments(c) /\ \A w \in Vertices(c) : Primary(c, w) \/ w \in R => E[w] = t.value[w]
  BY <1>9, MemoryFields DEF Assignments, Fit
<1>11. ASSUME NEW l \in R PROVE LatchNext(c, l, t.value[l], Signals(c, t.value, l)) = t.value[l]
  <2>1. l \in Of(c, "seq") /\ l \in Vertices(c) /\ E[l] = t.value[l]
    BY <1>10 DEF LatchesOf, Of
  <2>2. \A d \in ToSet(c.ins[l]) : Primary(c, d) \/ d \in R \/ d \in A
    BY <1>5 DEF Stable
  <2>3. Signals(c, E, l) = Signals(c, t.value, l)
    BY <1>4, <1>10, <2>1, <2>2, SignalsSame
  <2>4. LatchNext(c, l, E[l], Signals(c, E, l)) = E[l]
    BY <1>5 DEF Stable
  <2> QED BY <2>1, <2>3, <2>4
<1> QED BY <1>2, <1>9, <1>11 DEF Answered, Latched

-----------------------------------------------------------------------------
(* Evaluations under way, through a removal: none is started or forgotten. *)

LEMMA FirstKeepsActive ==
    ASSUME NEW c, Built(c), NEW s \in Memory(c), NEW v \in Vertices(c)
    PROVE  First(c, s, v).active = s.active
<1>1. c.kind[v] \in GateTypes \cup {"input", "output", "const", "seq", "sub"}
  BY DEF Built
<1>2. CASE c.kind[v] \in GateTypes \cup {"input", "output"}
  <2>1. First(c, s, v) = Cleared(s, v)
    BY <1>2 DEF First, Gate, GateTypes
  <2> QED BY <2>1, ClearedFacts
<1>3. CASE c.kind[v] = "const"
  <2>1. First(c, s, v) = [s EXCEPT !.value[v] = c.const[v]]
    BY <1>3 DEF First, Gate, GateTypes
  <2> QED BY <2>1 DEF Memory
<1>4. CASE c.kind[v] = "sub"
  <2>1. First(c, s, v) = Emptied(s, v)
    BY <1>4 DEF First, Gate, GateTypes
  <2> QED BY <2>1 DEF Emptied, Cleared, Memory
<1>5. CASE c.kind[v] = "seq"
  <2>1. First(c, s, v) = Cleared(Forgotten(s, v), v) /\ v \in Of(c, "seq")
    BY <1>5 DEF First, Of, Gate, GateTypes
  <2> DEFINE t == Forgotten(s, v)
  <2>2. t \in Memory(c) /\ t.active = s.active
    BY <2>1, ForgottenFacts
  <2> HIDE DEF t
  <2> QED BY <2>1, <2>2, ClearedFacts DEF t
<1> QED BY <1>1, <1>2, <1>3, <1>4, <1>5

\* A removal of v that is called on a memory of M leaves one of them.
Unshaken(c, M, rm) == \A s \in M, v \in Vertices(c) : rm[<<s, v>>] \in M

\* The memories in which the vertices of X are being evaluated.
Busy(c, X) == {t \in Memory(c) : t.active = X}

LEMMA RemoveOnceActive ==
    ASSUME NEW c, Built(c), NEW X, NEW rm, Unshaken(c, Busy(c, X), rm),
           NEW s \in Busy(c, X), NEW v \in Vertices(c)
    PROVE  RemoveOnce(c, rm, s, v) \in Busy(c, X)
<1>1. s \in Memory(c) /\ s.active = X
  BY DEF Busy
<1>2. First(c, s, v) \in Busy(c, X) /\ Onward(c, v) \in Seq(Vertices(c))
  BY <1>1, FirstFacts, OnwardFacts, FirstKeepsActive DEF Busy
<1>3. ASSUME NEW d \in ToSet(Onward(c, v)), NEW t \in Busy(c, X)
      PROVE  Going(c, rm, v)[<<t, d>>] \in Busy(c, X)
  <2>1. d \in Vertices(c) /\ t \in Memory(c)
    BY <1>2 DEF ToSet, Busy
  <2>2. rm[<<t, d>>] \in Busy(c, X)
    BY <2>1 DEF Unshaken
  <2>3. Going(c, rm, v)[<<t, d>>] = IF Gate(c, v) /\ ~StillDefined(t, d) THEN t ELSE rm[<<t, d>>]
    BY <2>1, GoingIs
  <2> QED BY <2>2, <2>3
<1>4. Through(Going(c, rm, v), First(c, s, v), Onward(c, v)) \in Busy(c, X)
  BY <1>2, <1>3, TraceStays
<1> QED BY <1>4, RemoveOnceIs

LEMMA RemovingActive ==
    ASSUME NEW c, Built(c), NEW rm, Removing(c, rm), NEW X
    PROVE  \A n \in Nat : Unshaken(c, Busy(c, X), rm[n])
<1> DEFINE S == {n \in Nat : Unshaken(c, Busy(c, X), rm[n])}
<1>1. 0 \in S
  <2>1. ASSUME NEW s \in Busy(c, X), NEW v \in Vertices(c) PROVE rm[0][<<s, v>>] \in Busy(c, X)
    <3>1. s \in Memory(c) /\ s.active = X
      BY DEF Busy
    <3>2. rm[0][<<s, v>>] = [s EXCEPT !.endless = TRUE]
      BY <3>1, RemovingNow
    <3>3. [s EXCEPT !.endless = TRUE] \in Memory(c) /\ [s EXCEPT !.endless = TRUE].active = X
      BY <3>1 DEF Memory
    <3> QED BY <3>2, <3>3 DEF Busy
  <2> QED BY <2>1 DEF Unshaken
<1>2. ASSUME NEW n \in Nat, n \in S PROVE n + 1 \in S
  <2>1. Unshaken(c, Busy(c, X), rm[n])
    BY <1>2
  <2>2. ASSUME NEW s \in Busy(c, X), NEW v \in Vertices(c) PROVE rm[n + 1][<<s, v>>] \in Busy(c, X)
    <3>1. s \in Memory(c)
      BY DEF Busy
    <3>2. rm[n + 1][<<s, v>>] = IF s.endless THEN s ELSE RemoveOnce(c, rm[n], s, v)
      BY <3>1, RemovingIs
    <3> QED BY <2>1, <3>2, RemoveOnceActive
  <2> QED BY <2>2 DEF Unshaken
<1> HIDE DEF S
<1>3. \A n \in Nat : n \in S
  BY <1>1, <1>2, Induction
<1> QED BY <1>3 DEF S

LEMMA ResetActive ==
    ASSUME NEW c, Built(c), NEW s \in Memory(c)
    PROVE  Reset(c, Removal(c), s, "top").active = s.active
<1> DEFINE list == c.output["top"] \o c.seq["top"]
           B == Busy(c, s.active)
<1>1. Unshaken(c, B, Removal(c))
  BY RemovingExists, RemovingActive, DepthNat
<1>2. list \in Seq(Vertices(c))
  BY TopGraph
<1>3. Reset(c, Removal(c), s, "top") = Through(Removal(c), s, list)
  BY DEF Reset
<1>4. s \in B
  BY DEF Busy
<1> HIDE DEF list, B
<1>5. \A v \in ToSet(list) : \A t \in B : Removal(c)[<<t, v>>] \in B
  BY <1>1, <1>2 DEF Unshaken, ToSet
<1>6. Through(Removal(c), s, list) \in B
  BY <1>2, <1>4, <1>5, TraceStays
<1> QED BY <1>3, <1>6 DEF B, Busy

\* Between two calls no vertex is being evaluated, and after graphSimulation the
\* latches are settled.
Quiet ==
    /\ circuit \in Circuits
    /\ Flat(circuit) /\ LatchesForward(circuit)
    /\ cells \in Memory(circuit) /\ cells.active = {}
    /\ applied # <<>> => Latched(circuit, cells)

\* A transparent latch without clear and set.
LEMMA LatchedTransparent ==
    ASSUME NEW c, Built(c), Flat(c), NEW s \in Memory(c), Latched(c, s), NEW l \in Latches(c, "top"),
           Cone(c, s.value, Pin(c, l, "en")) = "1", c.cell[l].clear = "none", ~c.cell[l].set
    PROVE  s.value[l] = Captured(Cone(c, s.value, Pin(c, l, "data")))
<1> DEFINE pins == Signals(c, s.value, l)
<1>1. l \in LatchesOf(c) /\ l \in Of(c, "seq")
  BY DEF Latches, FlipFlops, LatchesOf, Flat
<1>2. "data" \in PinNames /\ "en" \in PinNames /\ "clear" \in PinNames /\ "set" \in PinNames
  BY DEF PinNames
<1>3. s.value \in Assignments(c)
  BY MemoryFields DEF Assignments
<1>4. /\ pins["data"] = Cone(c, s.value, Pin(c, l, "data"))
      /\ Has(c, l, "en") => pins["en"] = "1"
  BY <1>1, <1>2, <1>3, SignalsFacts DEF Has
<1>5. ~Has(c, l, "clear") /\ ~Has(c, l, "set")
  BY DEF Has
<1>6. Say(c, l, "clear", pins["clear"]) = "none" /\ Say(c, l, "set", pins["set"]) = "none"
  BY <1>5 DEF Say
<1>7. LatchNext(c, l, s.value[l], pins) = s.value[l]
  BY <1>1 DEF Latched
<1> HIDE DEF pins
<1>8. LatchNext(c, l, s.value[l], pins) = Captured(pins["data"])
  BY <1>4, <1>6 DEF LatchNext
<1> QED BY <1>4, <1>7, <1>8

(* In a graph without instances, loops through gates and latches that read *)
(* a flip-flop or a latch added after them, a transparent latch holds what *)
(* its data pin carries whenever graphSimulation has answered, whatever    *)
(* clocks and clears the flip-flops: neither their commit nor the outputs  *)
(* computed after it change what a latch reads, and a latch that is        *)
(* evaluated again, by a cell that reads it, holds on to what it has.      *)
THEOREM LatchesSettledCorrect ==
    Spec /\ Flat(circuit) /\ LatchesForward(circuit) => []LatchesSettled
<1>1. Init /\ Flat(circuit) /\ LatchesForward(circuit) => Quiet
  BY CircuitsAssumption, FreshMemory DEF Init, Quiet, Fresh
<1>2. Quiet /\ [Next]_vars => Quiet'
  <2> SUFFICES ASSUME Quiet, [Next]_vars PROVE Quiet'
    OBVIOUS
  <2>1. /\ circuit \in Circuits /\ Built(circuit) /\ Flat(circuit) /\ LatchesForward(circuit)
        /\ cells \in Memory(circuit) /\ cells.active = {}
    BY CircuitsAssumption DEF Quiet
  <2>2. ASSUME NEW vector \in Vectors(circuit), GraphSimulation(vector) PROVE Quiet'
    <3> DEFINE run == Simulated(circuit, Update(circuit), cells, "top", vector)
    <3>1. circuit' = circuit /\ cells' = run.cells
      BY <2>2 DEF GraphSimulation
    <3>2. run.cells \in Memory(circuit) /\ run.cells.active = {} /\ Latched(circuit, run.cells)
      BY <2>1, TopVectors, SimulatedLatches
    <3> HIDE DEF run
    <3> QED BY <2>1, <3>1, <3>2 DEF Quiet
  <2>3. CASE SimulationRemove
    <3>1. circuit' = circuit /\ applied' = <<>> /\ cells' = Reset(circuit, Removal(circuit), cells, "top")
      BY <2>3 DEF SimulationRemove
    <3>2. cells' \in Memory(circuit) /\ cells'.active = {}
      BY <2>1, <3>1, ResetTyped, ResetActive
    <3> QED BY <2>1, <3>1, <3>2 DEF Quiet
  <2>4. CASE UNCHANGED vars
    BY <2>4 DEF vars, Quiet
  <2> QED BY <2>2, <2>3, <2>4 DEF Next
<1>3. Quiet => LatchesSettled
  <2> SUFFICES ASSUME Quiet, applied # <<>>, NEW l \in Latches(circuit, "top"),
                      Cone(circuit, cells.value, Pin(circuit, l, "en")) = "1",
                      circuit.cell[l].clear = "none", ~circuit.cell[l].set
               PROVE  cells.value[l] = Captured(Cone(circuit, cells.value, Pin(circuit, l, "data")))
    BY DEF LatchesSettled
  <2>1. Built(circuit) /\ Flat(circuit) /\ cells \in Memory(circuit) /\ Latched(circuit, cells)
    BY CircuitsAssumption DEF Quiet
  <2> QED BY <2>1, LatchedTransparent
<1> QED BY <1>1, <1>2, <1>3, PTL DEF Spec
=============================================================================
