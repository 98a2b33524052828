------------------------ MODULE GraphReader_meaning ------------------------
(***************************************************************************)
(* The graph of a legal file without loops computes what the file says,    *)
(* in whatever order its assignments are reported: proof of                *)
(* OutputsAsWritten.                                                       *)
(***************************************************************************)
EXTENDS GraphReader_proofs

-----------------------------------------------------------------------------
(* Buffers.                                                                *)

\* What an assignment of a net says.
LEMMA BufferSays ==
    ASSUME NEW arg, NEW a \in Bits, NEW l, l = <<Lit(arg, a)>>
    PROVE  Says("Assign", l) = Lit(arg, a)
<1>1. Lit(arg, a) \in Bits
  BY LitBits
<1>2. l \in Seq(Bits) /\ Len(l) = 1 /\ l[1] = Lit(arg, a)
  BY <1>1
<1>3. Len(l) \in 1..3
  BY <1>2
<1>4. Len(l) = 1 => Says("Assign", l) = l[1]
  BY <1>2, <1>3, SaysFacts
<1> QED BY <1>2, <1>4

\* A vertex with the value of the operand has the value of the assignment.
LEMMA BufferComputes ==
    ASSUME NEW d, NEW Y, NEW v, NEW s, s.op = "Assign", Len(s.args) = 1, NEW S, s.args \in Seq(S),
           NEW arg, arg = s.args[1], Stands(d, Y, v, arg)
    PROVE  Computes(d, Y, v, s) /\ Depends(d, Y, v, Sources(d, s))
<1>1. DOMAIN s.args = {1}
  BY DEF Seq
<1>2. ASSUME NEW env, NEW val, Fits(d, Y, env, val), \A i \in DOMAIN s.args : val[Pl(d, s.args[i].net)] \in Bits
      PROVE  val[v] = IF s.op \in ValueOps THEN Literal(s.value) ELSE Says(s.op, Lits(d, val, s))
  <2> DEFINE a == val[Pl(d, arg.net)]
             l == Lits(d, val, s)
  <2>1. a \in Bits
    BY <1>1, <1>2
  <2>2. val[v] = Lit(arg, a)
    BY <1>2, <2>1 DEF Stands
  <2>3. l = <<Lit(arg, a)>>
    BY <1>1 DEF Lits
  <2>4. s.op \notin ValueOps
    BY DEF ValueOps
  <2> HIDE DEF a, l
  <2>5. Says("Assign", l) = Lit(arg, a)
    BY <2>1, <2>3, BufferSays
  <2> QED BY <2>2, <2>4, <2>5 DEF l
<1>3. Computes(d, Y, v, s)
  BY <1>2 DEF Computes
<1>4. Sources(d, s) = {Pl(d, arg.net)}
  BY <1>1 DEF Sources
<1> QED BY <1>3, <1>4 DEF Stands

LEMMA StandsVia ==
    ASSUME NEW d, NEW Y, NEW o, NEW x, Relayed(d, Y, o, x), NEW arg, Stands(d, Y, x, arg)
    PROVE  Stands(d, Y, o, arg)
<1>1. /\ \A env, val : Fits(d, Y, env, val) => val[o] = val[x]
      /\ Depends(d, Y, o, {x})
  BY DEF Relayed
<1>2. Depends(d, Y, o, {Pl(d, arg.net)})
  <2>1. Depends(d, Y, x, {Pl(d, arg.net)})
    BY DEF Stands
  <2>2. \A a \in {x} : a \in {Pl(d, arg.net)} \/ Depends(d, Y, a, {Pl(d, arg.net)})
    BY <2>1
  <2> QED BY <1>1, <2>2, DependsTwice
<1> QED BY <1>1, <1>2 DEF Stands

\* An output that is assigned a net.
LEMMA BufferedOnOutput ==
    ASSUME NEW c, NEW f, Promising(f), NEW P, P \subseteq f.assigns, NEW s \in P, s.op = "Assign",
           NEW X, Reads(c, f, P, X), Apt(c, f, P, s), Live(c, s.lhs), Waits(c, f, X, s.lhs),
           NEW o, o = Pl(c, s.lhs), c.verts[o].type = "output",
           NEW arg, arg = s.args[1], NEW d, d = Connect(c, arg, c.names[s.lhs]), d.status = "ok"
    PROVE  \E Y : Reads(d, f, P \ {s}, Y)
<1>1. PICK v, x, Y : v = c.names[s.lhs] /\ x = RightHS(c, arg).at[2] /\ Y = X \ {o}
  OBVIOUS
<1>2. /\ Whole(c) /\ X \subseteq DOMAIN c.verts /\ Inverters(c, f, X)
      /\ Inside(c, v) /\ v[2] = o /\ o \in X /\ o \in DOMAIN c.verts /\ c.verts[o].ins = <<>>
  <2>1. Whole(c) /\ X \subseteq DOMAIN c.verts /\ Inverters(c, f, X)
    BY DEF Reads
  <2>2. Inside(c, v) /\ o = v[2]
    BY <1>1 DEF Live, Pl
  <2>3. o \in X
    BY DEF Waits
  <2>4. c.verts[o].ins = <<>>
    BY <2>3 DEF Reads
  <2> QED BY <2>1, <2>2, <2>3, <2>4
<1>3. /\ s \in f.assigns /\ s.args \in Seq([net : STRING, not : BOOLEAN]) /\ Len(s.args) = 1
      /\ DOMAIN s.args = {1}
  <2>1. s.args \in Seq([net : STRING, not : BOOLEAN]) /\ Len(s.args) = 1
    BY ArgsFacts
  <2> QED BY <2>1
<1>4. /\ arg.net \in Nets(f) /\ Live(c, arg.net)
      /\ c.names[arg.net][2] \in Sources(c, s) /\ NotName(arg.net) \in Made(s)
  BY <1>3 DEF Apt, Sources, Made, Pl
<1>5. Joined(c, d, f, X, v[2], arg, x, Sources(c, s), Made(s))
  BY <1>1, <1>2, <1>4, ConnectLeads
<1>6. /\ Leads(c, d, f, X, {o}, Sources(c, s), Made(s)) /\ Ext(c, d, {o}, Made(s)) /\ Whole(d)
      /\ Stands(d, X, x, arg)
      /\ Wired(c, o, <<>>) => Wired(d, o, Append(<<>>, x))
  <2>1. /\ Leads(c, d, f, X, {o}, Sources(c, s), Made(s)) /\ Stands(d, X, x, arg)
        /\ Wired(c, o, <<>>) => Wired(d, o, Append(<<>>, x))
    BY <1>2, <1>5 DEF Joined
  <2>2. Ext(c, d, {o}, Made(s))
    BY <2>1 DEF Leads
  <2> QED BY <2>1, <2>2 DEF Ext
<1>7. o \in DOMAIN d.verts /\ d.verts[o].type = "output" /\ d.verts[o].ins = <<x>>
  <2>1. o \in DOMAIN d.verts /\ d.verts[o].type = c.verts[o].type
    BY <1>2, <1>6 DEF Ext
  <2>2. Wired(d, o, <<x>>)
    <3>1. Wired(c, o, <<>>)
      BY <1>2 DEF Wired
    <3>2. Append(<<>>, x) = <<x>>
      OBVIOUS
    <3> QED BY <1>6, <3>1, <3>2
  <2>3. d.verts[o].ins = <<x>>
    <3> DEFINE ins == d.verts[o].ins
    <3>1. ins \in Seq(Nat) /\ Range(ins) = Range(<<x>>)
      BY <1>6, <2>2, WiredFacts
    <3>2. ins = <<x>> \/ (1 <= Len(ins) /\ Len(ins) <= Len(<<x>>))
      BY <2>2 DEF Wired
    <3>3. Len(<<x>>) = 1 /\ Range(<<x>>) = {x}
      BY DEF Range
    <3> HIDE DEF ins
    <3>4. Len(ins) = 1 => ins[1] \in Range(ins) /\ ins = <<ins[1]>>
      BY <3>1 DEF Range
    <3>5. Len(ins) \in Nat
      BY <3>1
    <3>6. Len(ins) = 1 => ins = <<x>>
      <4>1. Range(ins) = {x}
        BY <3>1, <3>3
      <4>2. Len(ins) = 1 => ins[1] = x
        BY <3>4, <4>1
      <4> QED BY <3>4, <4>2
    <3>7. ins # <<x>> => Len(ins) = 1
      <4> DEFINE one == <<x>>
                 n == Len(ins)
                 m == Len(one)
      <4>1. (ins = one \/ (1 <= n /\ n <= m)) /\ m = 1 /\ n \in Nat
        BY <3>2, <3>3, <3>5
      <4> HIDE DEF one, n, m
      <4>2. ins # one => n = 1
        BY <4>1
      <4> QED BY <4>2 DEF one, n
    <3> QED BY <3>6, <3>7 DEF ins
  <2> QED BY <2>1, <2>3
<1>8. o \notin Y /\ Y \subseteq X
  BY <1>1
<1>9. /\ Inverters(d, f, Y)
      /\ \A k \in DOMAIN d.verts \ (DOMAIN c.verts \cup X) : Depends(d, Y, k, Sources(c, s))
  BY <1>6, <1>8, Closes
<1>10. Stands(d, Y, x, arg)
  <2>1. Ext(d, d, {}, {}) /\ {} \subseteq X /\ Y \cap DOMAIN d.verts \subseteq X
    BY <1>6, <1>8, ExtSame
  <2> QED BY <1>6, <2>1, StandsStays
<1>11. Stands(d, Y, o, arg)
  <2>1. Relayed(d, Y, o, x)
    BY <1>6, <1>7, <1>8, Relays
  <2> QED BY <1>10, <2>1, StandsVia
<1>12. Computes(d, Y, o, s) /\ Depends(d, Y, o, Sources(d, s))
  BY <1>3, <1>11, BufferComputes
<1>13. Sources(d, s) = Sources(c, s)
  <2>1. \A i \in DOMAIN s.args : Live(c, s.args[i].net)
    BY DEF Apt
  <2> QED BY <1>6, <2>1, SourcesStay
<1>14. Live(d, s.lhs) /\ Pl(d, s.lhs) = o
  BY <1>6, LiveStays
<1>15. Done(c, d, f, X, s, Y)
  <2>1. \A k \in DOMAIN d.verts \ DOMAIN c.verts : Depends(d, Y, k, Sources(d, s))
    BY <1>2, <1>9, <1>13
  <2> QED BY <1>1, <1>6, <1>9, <1>12, <1>14, <2>1 DEF Done
<1>16. Reads(d, f, P \ {s}, Y)
  BY <1>15, StatementKeeps
<1> QED BY <1>16

\* A vertex without drivers gets one that a net stands for.
Tied(c, d, p, u) ==
    /\ Ext(c, d, {p}, {})
    /\ DOMAIN d.verts = DOMAIN c.verts /\ d.names = c.names
    /\ d.verts[p].ins = <<u>> /\ d.verts[p].gate = c.verts[p].gate

LEMMA NetDrives ==
    ASSUME NEW c, Whole(c), NEW n, Live(c, n), NEW v, Inside(c, v), c.verts[v[2]].ins = <<>>,
           NEW arg, arg.net = n, ~arg.not, NEW d, d = Connect(c, arg, v), d.status = "ok"
    PROVE  Tied(c, d, v[2], Pl(c, n))
<1> DEFINE u == c.names[n]
           l == [c EXCEPT !.at = u]
<1>1. Shaped(c) /\ c.status = "ok" /\ n \in DOMAIN c.names /\ Inside(c, u) /\ u[2] = Pl(c, n)
  BY DEF Whole, Live, Pl
<1>2. RightHS(c, arg) = l
  BY <1>1 DEF RightHS, After, Lookup
<1>3. /\ l.at = u /\ l.verts = c.verts /\ l.names = c.names /\ l.graph = c.graph
  BY <1>1 DEF Shaped
<1> HIDE DEF l
<1>4. d = AddEdge(l, u, v)
  BY <1>2, <1>3 DEF Connect
<1>5. Ext(c, l, {}, {}) /\ Whole(l) /\ Held(l, u) /\ Held(l, v)
  <2>1. Ext(c, l, {}, {})
    BY AtEffect DEF l
  <2> QED BY <1>1, <1>3, <2>1 DEF Ext, Held, Inside
<1>6. Edged(l, d, u, v)
  BY <1>4, <1>5, EdgeEffect
<1>7. /\ Ext(l, d, {v[2]}, {}) /\ DOMAIN d.verts = DOMAIN l.verts /\ d.names = l.names
      /\ d.verts[v[2]].gate = l.verts[v[2]].gate
      /\ d.verts[v[2]].ins = Append(l.verts[v[2]].ins, u[2]) \/ u[2] \in Range(l.verts[v[2]].ins)
  BY <1>6 DEF Edged
<1>8. d.verts[v[2]].ins = <<u[2]>>
  <2>1. Range(<<>>) = {} /\ Append(<<>>, u[2]) = <<u[2]>>
    BY DEF Range
  <2> QED BY <1>3, <1>7, <2>1
<1>9. Ext(c, d, {v[2]}, {})
  BY <1>5, <1>7, ExtTwice
<1> QED BY <1>1, <1>3, <1>7, <1>8, <1>9 DEF Tied

\* A wire that is assigned a net: its vertex becomes such a gate of it.
Follows(c, d, p, n, gate, N) ==
    /\ Ext(c, d, {p}, N) /\ DOMAIN d.verts = DOMAIN c.verts
    /\ d.verts[p].ins = <<Pl(c, n)>> /\ d.verts[p].gate = gate

LEMMA BufferPlain ==
    ASSUME NEW c, Whole(c), NEW w, Inside(c, w), c.verts[w[2]].ins = <<>>, NEW n, Live(c, n),
           NEW gate, NEW t, Retyped(c, t, w[2], gate),
           NEW bare, bare.net = n, ~bare.not, NEW d, d = Connect(t, bare, w), d.status = "ok"
    PROVE  Follows(c, d, w[2], n, gate, {})
<1>1. /\ Ext(c, t, {w[2]}, {}) /\ DOMAIN t.verts = DOMAIN c.verts
      /\ t.verts[w[2]].gate = gate /\ t.verts[w[2]].ins = <<>> /\ Whole(t)
  BY DEF Retyped, Ext
<1>2. Inside(t, w) /\ Live(t, n) /\ Pl(t, n) = Pl(c, n)
  BY <1>1, LiveStays
<1>3. Tied(t, d, w[2], Pl(t, n))
  BY <1>1, <1>2, NetDrives
<1>4. /\ Ext(t, d, {w[2]}, {}) /\ DOMAIN d.verts = DOMAIN t.verts
      /\ d.verts[w[2]].ins = <<Pl(t, n)>> /\ d.verts[w[2]].gate = t.verts[w[2]].gate
  BY <1>3 DEF Tied
<1>5. Ext(c, d, {w[2]}, {})
  <2>1. {w[2]} \cap DOMAIN c.verts \subseteq {w[2]}
    OBVIOUS
  <2> QED BY <1>1, <1>4, <2>1, ExtNew
<1> QED BY <1>1, <1>2, <1>4, <1>5 DEF Follows

\* And it gets a name.
Aliased(c, d, p, n, gate, name) ==
    Follows(c, d, p, n, gate, {name}) /\ Live(d, name) /\ Pl(d, name) = p

LEMMA BufferNamed ==
    ASSUME NEW c, Whole(c), NEW w, Inside(c, w), c.verts[w[2]].ins = <<>>, NEW n, Live(c, n),
           NEW gate, NEW t, Retyped(c, t, w[2], gate), NEW name, name \notin DOMAIN c.names,
           NEW a, a = [t EXCEPT !.at = w], NEW k, k = Bind(a, name),
           NEW bare, bare.net = n, ~bare.not, NEW d, d = Connect(k, bare, w), d.status = "ok"
    PROVE  Aliased(c, d, w[2], n, gate, name)
<1>1. /\ Ext(c, t, {w[2]}, {}) /\ DOMAIN t.verts = DOMAIN c.verts /\ t.names = c.names
      /\ t.verts[w[2]].gate = gate /\ t.verts[w[2]].ins = <<>> /\ Whole(t)
  BY DEF Retyped, Ext
<1>2. Inside(t, w) /\ Live(t, n) /\ Pl(t, n) = Pl(c, n)
  BY <1>1, LiveStays
<1>3. /\ Ext(t, a, {}, {}) /\ a.verts = t.verts /\ a.names = t.names /\ a.at = w
  BY <1>1, AtEffect
<1>4. Named(a, k, name)
  <2>1. Inside(a, w)
    BY <1>2, <1>3, LiveStays
  <2>2. Whole(a) /\ name \notin DOMAIN a.names /\ Inside(a, a.at)
    BY <1>1, <1>3, <2>1 DEF Ext
  <2> QED BY <2>2, BindEffect
<1>5. /\ Ext(a, k, {}, {name}) /\ k.verts = t.verts /\ k.names[name] = w /\ Live(k, name) /\ Whole(k)
  BY <1>3, <1>4 DEF Named, Ext
<1>6. Ext(t, k, {}, {name})
  BY <1>3, <1>5, ExtTwice
<1>7. Inside(k, w) /\ Live(k, n) /\ Pl(k, n) = Pl(c, n) /\ k.verts[w[2]].ins = <<>>
  BY <1>1, <1>2, <1>5, <1>6, LiveStays
<1>8. Tied(k, d, w[2], Pl(k, n))
  BY <1>5, <1>7, NetDrives
<1>9. /\ Ext(k, d, {w[2]}, {}) /\ DOMAIN d.verts = DOMAIN k.verts
      /\ d.verts[w[2]].ins = <<Pl(k, n)>> /\ d.verts[w[2]].gate = k.verts[w[2]].gate
  BY <1>8 DEF Tied
<1>10. Ext(c, k, {w[2]}, {name})
  BY <1>1, <1>6, ExtTwice
<1>11. Ext(c, d, {w[2]}, {name})
  <2>1. {w[2]} \cap DOMAIN c.verts \subseteq {w[2]}
    OBVIOUS
  <2> QED BY <1>9, <1>10, <2>1, ExtNew
<1>12. Live(d, name) /\ Pl(d, name) = Pl(k, name)
  BY <1>5, <1>9, LiveStays
<1>13. Pl(k, name) = w[2]
  BY <1>5 DEF Pl
<1> QED BY <1>1, <1>5, <1>7, <1>9, <1>11, <1>12, <1>13 DEF Follows, Aliased

\* Its name, when the inverter of the net has none yet, is that one.
Buffers(c, d, p, arg, N) ==
    /\ Follows(c, d, p, arg.net, IF arg.not THEN "Not" ELSE "Buf", N)
    /\ \/ N = {}
       \/ /\ arg.not /\ N = {NotName(arg.net)}
          /\ Live(d, NotName(arg.net)) /\ Pl(d, NotName(arg.net)) = p

LEMMA Uninverted ==
    ASSUME NEW arg \in [net : STRING, not : BOOLEAN], NEW bare, bare = [arg EXCEPT !.not = FALSE]
    PROVE  bare.net = arg.net /\ ~bare.not
OBVIOUS

LEMMA BufferMakes ==
    ASSUME NEW c, Whole(c), NEW s, s.lhs \in DOMAIN c.names, NEW w, w = c.names[s.lhs], Inside(c, w),
           c.verts[w[2]].type = "gate", c.verts[w[2]].gate = "Default", c.verts[w[2]].ins = <<>>,
           NEW arg, arg = s.args[1], Live(c, arg.net),
           NEW bare, bare = [arg EXCEPT !.not = FALSE], bare.net = arg.net, ~bare.not,
           NEW survives, NEW d, d = Buffered(c, s, survives), d.status = "ok"
    PROVE  \E N : Buffers(c, d, w[2], arg, N)
<1>1. PICK gate, name : gate = (IF arg.not THEN "Not" ELSE "Buf") /\ name = NotName(arg.net)
  OBVIOUS
<1>2. gate \in Gates
  BY <1>1 DEF Gates
<1>3. PICK t : t = SetGateIfDefault(c, w, gate, survives)
  OBVIOUS
<1>4. PICK a : a = [t EXCEPT !.at = w]
  OBVIOUS
<1>5. Retyped(c, t, w[2], gate)
  BY <1>2, <1>3, SetGateEffect
<1>6. t.names = c.names /\ t.status = "ok"
  BY <1>5 DEF Retyped, Ext, Whole
<1>7. d = Connect(IF arg.not THEN IF name \in DOMAIN c.names THEN t ELSE Bind(a, name) ELSE t, bare, w)
  <2>1. ~Freed(c, w) /\ Vert(c, w).type # "output"
    BY DEF Freed, Inside, Vert
  <2>2. Alias(t, name, w) = IF name \in DOMAIN c.names THEN t ELSE Bind(a, name)
    BY <1>4, <1>6 DEF Alias, After
  <2> QED BY <1>1, <1>3, <2>1, <2>2 DEF Buffered
<1>8. CASE ~arg.not \/ name \in DOMAIN c.names
  <2>1. d = Connect(t, bare, w)
    BY <1>7, <1>8
  <2>2. Follows(c, d, w[2], arg.net, gate, {})
    BY <1>5, <2>1, BufferPlain
  <2> QED BY <1>1, <2>2 DEF Buffers
<1>9. CASE arg.not /\ name \notin DOMAIN c.names
  <2>1. PICK k : k = Bind(a, name)
    OBVIOUS
  <2>2. d = Connect(k, bare, w)
    BY <1>7, <1>9, <2>1
  <2>3. Aliased(c, d, w[2], arg.net, gate, name)
    BY <1>4, <1>5, <1>9, <2>1, <2>2, BufferNamed
  <2> QED BY <1>1, <1>9, <2>3 DEF Buffers, Aliased
<1> QED BY <1>8, <1>9

LEMMA BufferedOnWire ==
    ASSUME NEW c, NEW f, Promising(f), NEW P, P \subseteq f.assigns, NEW s \in P, s.op = "Assign",
           NEW X, Reads(c, f, P, X), Apt(c, f, P, s), Live(c, s.lhs), Waits(c, f, X, s.lhs),
           NEW p, p = Pl(c, s.lhs), c.verts[p].type = "gate",
           NEW survives, NEW d, d = Buffered(c, s, survives), d.status = "ok"
    PROVE  \E Y : Reads(d, f, P \ {s}, Y)
<1>1. PICK w, arg, u, Y : w = c.names[s.lhs] /\ arg = s.args[1] /\ u = Pl(c, arg.net) /\ Y = X \ {p}
  OBVIOUS
<1>2. /\ Whole(c) /\ X \subseteq DOMAIN c.verts /\ Inverters(c, f, X)
      /\ s.lhs \in DOMAIN c.names /\ Inside(c, w) /\ w[2] = p /\ p \in X /\ p \in DOMAIN c.verts
      /\ c.verts[p].gate = "Default" /\ c.verts[p].ins = <<>>
  <2>1. Whole(c) /\ X \subseteq DOMAIN c.verts /\ Inverters(c, f, X)
    BY DEF Reads
  <2>2. s.lhs \in DOMAIN c.names /\ Inside(c, w) /\ p = w[2]
    BY <1>1 DEF Live, Pl
  <2>3. p \in X /\ c.verts[p].gate = "Default"
    BY DEF Waits
  <2>4. c.verts[p].ins = <<>>
    BY <2>3 DEF Reads
  <2> QED BY <2>1, <2>2, <2>3, <2>4
<1>3. /\ s \in f.assigns /\ s.args \in Seq([net : STRING, not : BOOLEAN]) /\ Len(s.args) = 1
      /\ DOMAIN s.args = {1} /\ arg \in [net : STRING, not : BOOLEAN]
  <2>1. s \in f.assigns
    OBVIOUS
  <2>2. s.args \in Seq([net : STRING, not : BOOLEAN]) /\ Len(s.args) = 1
    BY <2>1, ArgsFacts
  <2>3. DOMAIN s.args = {1}
    BY <2>2
  <2>4. \A S : s.args \in Seq(S) => s.args[1] \in S
    BY <2>2
  <2> QED BY <1>1, <2>1, <2>2, <2>3, <2>4
<1>4. /\ arg.net \in Nets(f) /\ Live(c, arg.net)
      /\ \A n \in Nets(f) : NotName(n) = NotName(arg.net) => n = arg.net
      /\ NotName(arg.net) \in Made(s)
  <2>1. arg.net \in Nets(f) /\ Live(c, arg.net) /\ NotName(arg.net) \in Made(s)
    BY <1>1, <1>3 DEF Apt, Made
  <2> QED BY <2>1, SuffixAssumption DEF Promising
<1>5. PICK N : Buffers(c, d, p, arg, N)
  <2>1. PICK bare : bare = [arg EXCEPT !.not = FALSE]
    OBVIOUS
  <2>2. bare.net = arg.net /\ ~bare.not
    BY <1>3, <2>1, Uninverted
  <2>3. \E N : Buffers(c, d, w[2], arg, N)
    BY <1>1, <1>2, <1>4, <2>1, <2>2, BufferMakes
  <2> QED BY <1>2, <2>3
<1>6. /\ Ext(c, d, {p}, N) /\ DOMAIN d.verts = DOMAIN c.verts /\ d.verts[p].ins = <<u>>
      /\ d.verts[p].gate = IF arg.not THEN "Not" ELSE "Buf"
      /\ \/ N = {}
         \/ /\ arg.not /\ N = {NotName(arg.net)}
            /\ Live(d, NotName(arg.net)) /\ Pl(d, NotName(arg.net)) = p
  BY <1>1, <1>5 DEF Buffers, Follows
<1>7. Whole(d) /\ d.verts[p].type = "gate" /\ p \notin Y
  BY <1>1, <1>2, <1>6 DEF Ext
<1>8. Live(d, arg.net) /\ Pl(d, arg.net) = u /\ Live(d, s.lhs) /\ Pl(d, s.lhs) = p
  BY <1>1, <1>4, <1>6, LiveStays
<1>9. ASSUME NEW env, NEW val, Fits(d, Y, env, val), val[u] \in Bits PROVE val[p] = Lit(arg, val[u])
  <2>1. val[p] = Single(d.verts[p].gate, val[u])
    BY <1>2, <1>6, <1>7, <1>9, SingleValue
  <2>2. CASE arg.not
    <3>1. d.verts[p].gate = "Not"
      BY <1>6, <2>2
    <3> QED BY <2>1, <2>2, <3>1 DEF Single, Lit
  <2>3. CASE ~arg.not
    <3>1. d.verts[p].gate = "Buf"
      BY <1>6, <2>3
    <3>2. Single("Buf", val[u]) = val[u]
      BY <1>9 DEF Single, Invert, Bits
    <3> QED BY <2>1, <2>3, <3>1, <3>2 DEF Lit
  <2> QED BY <2>2, <2>3
<1>10. Depends(d, Y, p, {u})
  <2>1. Range(<<u>>) = {u}
    BY DEF Range
  <2> QED BY <1>2, <1>6, <1>7, <2>1, DependsOnDrivers
<1>11. Stands(d, Y, p, arg)
  BY <1>8, <1>9, <1>10 DEF Stands
<1>12. Computes(d, Y, p, s) /\ Depends(d, Y, p, Sources(d, s))
  BY <1>1, <1>3, <1>11, BufferComputes
<1>13. Inverters(d, f, Y)
  <2>1. {p} \subseteq X /\ Y \cap DOMAIN c.verts \subseteq X
    BY <1>1, <1>2
  <2>2. ASSUME NEW n \in Nets(f), NotName(n) \in N
        PROVE  Live(d, NotName(n)) => Live(d, n) /\ Inverts(d, Y, Pl(d, NotName(n)), Pl(d, n))
    <3>1. n = arg.net /\ arg.not /\ Pl(d, NotName(n)) = p
      BY <1>4, <1>6, <2>2
    <3>2. Inverts(d, Y, p, u)
      BY <1>9, <1>10, <3>1 DEF Inverts, Lit
    <3> QED BY <1>8, <3>1, <3>2
  <2> QED BY <1>2, <1>6, <2>1, <2>2, InvertersStay
<1>14. Ext(c, d, {p}, Made(s))
  <2>1. N \subseteq Made(s) /\ {p} \subseteq {p}
    BY <1>4, <1>6
  <2> QED BY <1>6, <2>1, ExtMore
<1>15. Done(c, d, f, X, s, Y)
  BY <1>1, <1>6, <1>8, <1>12, <1>13, <1>14 DEF Done
<1>16. Reads(d, f, P \ {s}, Y)
  BY <1>15, StatementKeeps
<1> QED BY <1>16

(* on_assign of a net.                                                     *)
LEMMA BufferedReads ==
    ASSUME NEW c, NEW f, Promising(f), NEW P, P \subseteq f.assigns, NEW s \in P, s.op = "Assign",
           NEW X, Reads(c, f, P, X), Apt(c, f, P, s),
           NEW survives, NEW d, d = Buffered(c, s, survives), d.status = "ok"
    PROVE  \E Y : Reads(d, f, P \ {s}, Y)
<1>1. s.lhs \in f.wires \cup f.outputs /\ s.op \notin ValueOps
  BY DEF Promising, Legal, ValueOps
<1>2. Live(c, s.lhs)
  BY <1>1 DEF Reads
<1>3. Waits(c, f, X, s.lhs)
  BY <1>2 DEF Reads, Lhs
<1>4. CASE c.verts[Pl(c, s.lhs)].type = "gate"
  BY <1>2, <1>3, <1>4, BufferedOnWire
<1>5. CASE c.verts[Pl(c, s.lhs)].type = "output"
  <2>1. PICK arg, v : arg = s.args[1] /\ v = c.names[s.lhs]
    OBVIOUS
  <2>2. ~Freed(c, v) /\ Vert(c, v).type = "output" /\ s.lhs \in DOMAIN c.names
    BY <1>2, <1>5, <2>1 DEF Live, Inside, Freed, Vert, Pl
  <2>3. d = Connect(c, arg, v)
    BY <2>1, <2>2 DEF Buffered
  <2> QED BY <1>2, <1>3, <1>5, <2>1, <2>3, BufferedOnOutput
<1> QED BY <1>3, <1>4, <1>5 DEF Waits
-----------------------------------------------------------------------------
(* Majorities.                                                             *)

\* The vertex d.at is a new gate of the vertices u and w.
Paired(c, d, gate, u, w) ==
    /\ Ext(c, d, {}, {}) /\ d.names = c.names
    /\ Inside(c, u) /\ Inside(c, w)
    /\ Inside(d, d.at) /\ d.at[2] \notin DOMAIN c.verts
    /\ DOMAIN d.verts = DOMAIN c.verts \cup {d.at[2]}
    /\ d.verts[d.at[2]].type = "gate" /\ d.verts[d.at[2]].gate = gate
    /\ Wired(d, d.at[2], <<u[2], w[2]>>)

LEMMA HeldStays ==
    ASSUME NEW c, NEW d, NEW T, NEW N, Ext(c, d, T, N), NEW v, Held(c, v)
    PROVE  Held(d, v) /\ (Inside(d, v) => Inside(c, v))
<1>1. Inside(c, v) => Inside(d, v)
  BY LiveStays
<1>2. Freed(c, v) => Freed(d, v)
  BY DEF Ext, Freed
<1>3. d.graph = c.graph
  BY DEF Ext
<1> QED BY <1>1, <1>2, <1>3 DEF Held, Inside, Freed

LEMMA Appended ==
    ASSUME NEW S, NEW l \in Seq(S), NEW e \in S
    PROVE  /\ Append(l, e) \in Seq(S) /\ Len(Append(l, e)) = Len(l) + 1
           /\ Append(l, e)[Len(l) + 1] = e
           /\ \A i \in 1..Len(l) : Append(l, e)[i] = l[i]
OBVIOUS

LEMMA TwoAppended ==
    ASSUME NEW x, NEW y
    PROVE  Append(Append(<<>>, x), y) = <<x, y>>
<1>0. PICK S : x \in S /\ y \in S
  <2>1. x \in {x, y} /\ y \in {x, y}
    OBVIOUS
  <2> QED BY <2>1
<1>1. PICK one : one = <<x>>
  OBVIOUS
<1>2. PICK l : l = Append(one, y)
  OBVIOUS
<1>3. PICK k : k = <<x, y>>
  OBVIOUS
<1>4. one \in Seq(S) /\ Len(one) = 1 /\ one[1] = x
  BY <1>0, <1>1
<1>5. k \in Seq(S) /\ Len(k) = 2 /\ k[1] = x /\ k[2] = y
  BY <1>0, <1>3
<1>6. l \in Seq(S) /\ Len(l) = 2 /\ l[1] = x /\ l[2] = y
  <2>1. l \in Seq(S) /\ Len(l) = Len(one) + 1 /\ l[Len(one) + 1] = y /\ \A i \in 1..Len(one) : l[i] = one[i]
    <3>1. one \in Seq(S) /\ y \in S
      BY <1>0, <1>4
    <3>2. /\ Append(one, y) \in Seq(S) /\ Len(Append(one, y)) = Len(one) + 1
          /\ Append(one, y)[Len(one) + 1] = y
          /\ \A i \in 1..Len(one) : Append(one, y)[i] = one[i]
      BY <3>1, Appended
    <3> QED BY <1>2, <3>2
  <2> QED BY <1>4, <2>1
<1>7. l = k
  BY <1>5, <1>6
<1>8. Append(<<>>, x) = one
  BY <1>1
<1> QED BY <1>2, <1>3, <1>7, <1>8

LEMMA PairMakes ==
    ASSUME NEW c, Whole(c), NEW u, Held(c, u), NEW w, Held(c, w), NEW gate \in {"And", "Or"},
           NEW d, d = Pair(c, gate, u, w), d.status = "ok"
    PROVE  Paired(c, d, gate, u, w)
<1>0. PICK g, e, v : g = New(c, "gate", gate, "") /\ v = g.at /\ e = AddEdge(g, u, v)
  OBVIOUS
<1>1. d = AddEdge(e, w, v) /\ e.status = "ok"
  <2>1. d = AddEdge(e, w, v)
    BY <1>0 DEF Pair
  <2> QED BY <2>1, OkBefore
<1>2. Sprouted(c, g, "gate", gate, "")
  <2>1. "gate" \in Types /\ "gate" # "output" /\ gate \in Gates /\ "" \in Names
    BY DEF Types, Gates, ElemOps, Names
  <2> QED BY <1>0, <2>1, NewEffect
<1>3. /\ Ext(c, g, {}, {}) /\ g.names = c.names /\ Inside(g, v) /\ v[2] \notin DOMAIN c.verts
      /\ DOMAIN g.verts = DOMAIN c.verts \cup {v[2]}
      /\ g.verts[v[2]].type = "gate" /\ g.verts[v[2]].gate = gate /\ g.verts[v[2]].ins = <<>>
      /\ Whole(g) /\ v = <<c.graph, Len(c.verts) + 1>> /\ g.graph = c.graph
  <2>1. /\ Ext(c, g, {}, {}) /\ g.names = c.names /\ Inside(g, v) /\ v[2] \notin DOMAIN c.verts
        /\ DOMAIN g.verts = DOMAIN c.verts \cup {v[2]} /\ v = <<c.graph, Len(c.verts) + 1>>
        /\ g.verts[v[2]] = Vertex("gate", gate, "")
    BY <1>0, <1>2 DEF Sprouted
  <2>2. Whole(g) /\ g.graph = c.graph
    BY <2>1 DEF Ext
  <2>3. g.verts[v[2]].type = "gate" /\ g.verts[v[2]].gate = gate /\ g.verts[v[2]].ins = <<>>
    <3> DEFINE x == Vertex("gate", gate, "")
    <3>1. x.type = "gate" /\ x.gate = gate /\ x.ins = <<>>
      BY DEF Vertex
    <3> HIDE DEF x
    <3>2. g.verts[v[2]] = x
      BY <2>1 DEF x
    <3> QED BY <3>1, <3>2
  <2> QED BY <2>1, <2>2, <2>3
<1>4. Held(g, u) /\ Held(g, w) /\ Held(g, v)
  <2>1. Held(g, u) /\ Held(g, w)
    BY <1>3, HeldStays
  <2> QED BY <1>3, <2>1 DEF Held
<1>5. Wired(g, v[2], <<>>)
  BY <1>3 DEF Wired
<1>6. Edged(g, e, u, v) /\ Wired(e, v[2], Append(<<>>, u[2]))
  <2>1. Edged(g, e, u, v)
    BY <1>0, <1>1, <1>3, <1>4, EdgeEffect
  <2>2. Wired(e, v[2], Append(<<>>, u[2]))
    BY <1>0, <1>1, <1>3, <1>4, <1>5, WiredEdge
  <2> QED BY <2>1, <2>2
<1>7. /\ Ext(g, e, {v[2]}, {}) /\ DOMAIN e.verts = DOMAIN g.verts /\ e.names = g.names /\ e.at = g.at
      /\ e.verts[v[2]].gate = g.verts[v[2]].gate /\ Inside(g, u) /\ Whole(e)
  BY <1>6 DEF Edged, Ext
<1>8. Held(e, w) /\ Held(e, v)
  BY <1>4, <1>7, HeldStays
<1>9. Edged(e, d, w, v) /\ Wired(d, v[2], Append(Append(<<>>, u[2]), w[2]))
  <2>1. Edged(e, d, w, v)
    BY <1>1, <1>7, <1>8, EdgeEffect
  <2>2. Wired(d, v[2], Append(Append(<<>>, u[2]), w[2]))
    <3> DEFINE l == Append(<<>>, u[2])
    <3>1. Wired(e, v[2], l) /\ d = AddEdge(e, w, v) /\ d.status = "ok" /\ Whole(e) /\ Held(e, w) /\ Held(e, v)
      BY <1>1, <1>6, <1>7, <1>8
    <3> HIDE DEF l
    <3>2. Wired(d, v[2], Append(l, w[2]))
      BY <3>1, WiredEdge
    <3> QED BY <3>2 DEF l
  <2> QED BY <2>1, <2>2
<1>10. /\ Ext(e, d, {v[2]}, {}) /\ DOMAIN d.verts = DOMAIN e.verts /\ d.names = e.names /\ d.at = e.at
       /\ d.verts[v[2]].gate = e.verts[v[2]].gate /\ Inside(e, w)
  BY <1>9 DEF Edged
<1>11. Ext(c, d, {}, {})
  <2>1. Ext(c, e, {}, {})
    <3>1. {v[2]} \cap DOMAIN c.verts \subseteq {} /\ {} \subseteq {} /\ {} \cup {} \subseteq {}
      BY <1>3
    <3> QED BY <1>3, <1>7, <3>1, ExtTwice
  <2>2. {v[2]} \cap DOMAIN c.verts \subseteq {} /\ {} \subseteq {} /\ {} \cup {} \subseteq {}
    BY <1>3
  <2> QED BY <1>10, <2>1, <2>2, ExtTwice
<1>12. Inside(d, v) /\ d.at = v
  <2>1. Inside(e, v)
    BY <1>3, <1>7, LiveStays
  <2>2. Inside(d, v)
    BY <1>10, <2>1, LiveStays
  <2> QED BY <1>0, <1>7, <1>10, <2>2
<1>13. Inside(c, u) /\ Inside(c, w)
  <2>1. ~Freed(c, u) /\ ~Freed(c, w)
    <3>1. Inside(e, w) /\ Inside(g, u) /\ e.graph = c.graph /\ g.graph = c.graph
      BY <1>3, <1>7, <1>10 DEF Ext
    <3> QED BY <3>1 DEF Freed, Inside
  <2> QED BY <2>1 DEF Held
<1>14. d.verts[v[2]].type = "gate"
  <2>1. v[2] \in DOMAIN g.verts /\ v[2] \in DOMAIN e.verts
    BY <1>3, <1>7
  <2> QED BY <1>3, <1>7, <1>10, <2>1 DEF Ext
<1>15. Wired(d, v[2], <<u[2], w[2]>>)
  BY <1>9, TwoAppended
<1>16. DOMAIN d.verts = DOMAIN c.verts \cup {v[2]} /\ d.names = c.names
  BY <1>3, <1>7, <1>10
<1>17. d.verts[v[2]].gate = gate
  BY <1>3, <1>7, <1>10
<1> QED BY <1>3, <1>11, <1>12, <1>13, <1>14, <1>15, <1>16, <1>17 DEF Paired

(* Two of three, as gates say it.                                          *)
TwoAtATime(a, b, c, ab, ac, bc, or1) ==
    /\ ab = Says("And", <<a, b>>) /\ ac = Says("And", <<a, c>>) /\ bc = Says("And", <<b, c>>)
    /\ or1 = Says("Or", <<ab, ac>>)

TwoOfThree(a, b, c, ab, ac, bc, or1) ==
    /\ ab \in Bits /\ ac \in Bits /\ bc \in Bits /\ or1 \in Bits
    /\ Says("Or", <<or1, bc>>) = Says("Maj", <<a, b, c>>)

LEMMA OrOfAnds ==
    ASSUME NEW a \in Bits, NEW b \in Bits, NEW c \in Bits, NEW ab, NEW ac, NEW bc, NEW or1,
           TwoAtATime(a, b, c, ab, ac, bc, or1)
    PROVE  TwoOfThree(a, b, c, ab, ac, bc, or1)
<1>0. /\ ab = Says("And", <<a, b>>) /\ ac = Says("And", <<a, c>>) /\ bc = Says("And", <<b, c>>)
      /\ or1 = Says("Or", <<ab, ac>>)
  BY DEF TwoAtATime
<1>1. ASSUME NEW x \in Bits, NEW y \in Bits
      PROVE  /\ Says("And", <<x, y>>) = Bit(x = "1" /\ y = "1")
             /\ Says("Or", <<x, y>>) = Bit(x = "1" \/ y = "1")
  <2> DEFINE l == <<x, y>>
  <2>1. l \in Seq(Bits) /\ Len(l) \in 1..3 /\ Range(l) = {x, y}
    BY DEF Range
  <2>2. Says("And", l) = Bit(Range(l) = {"1"}) /\ Says("Or", l) = Bit("1" \in Range(l))
    <3> HIDE DEF l
    <3> QED BY <2>1, SaysFacts
  <2> QED BY <2>1, <2>2 DEF Bits
<1>2. Says("Maj", <<a, b, c>>) = Bit(\/ a = "1" /\ b = "1"
                                     \/ a = "1" /\ c = "1"
                                     \/ b = "1" /\ c = "1")
  <2> DEFINE l == <<a, b, c>>
  <2>1. l \in Seq(Bits) /\ Len(l) = 3 /\ Len(l) \in 1..3 /\ l[1] = a /\ l[2] = b /\ l[3] = c
    OBVIOUS
  <2>2. Says("Maj", l) = Bit(\/ l[1] = "1" /\ l[2] = "1"
                             \/ l[1] = "1" /\ l[3] = "1"
                             \/ l[2] = "1" /\ l[3] = "1")
    <3> HIDE DEF l
    <3> QED BY <2>1, SaysFacts
  <2> QED BY <2>1, <2>2
<1>3. ab = Bit(a = "1" /\ b = "1") /\ ac = Bit(a = "1" /\ c = "1") /\ bc = Bit(b = "1" /\ c = "1")
  BY <1>0, <1>1
<1>4. ab \in Bits /\ ac \in Bits /\ bc \in Bits
  BY <1>3 DEF Bits, Bit
<1>5. or1 = Bit(ab = "1" \/ ac = "1")
  BY <1>0, <1>1, <1>4
<1>6. or1 \in Bits
  BY <1>5 DEF Bits, Bit
<1>7. Says("Or", <<or1, bc>>) = Bit(or1 = "1" \/ bc = "1")
  BY <1>1, <1>4, <1>6
<1>8. Says("Or", <<or1, bc>>) = Says("Maj", <<a, b, c>>)
  BY <1>2, <1>3, <1>5, <1>7 DEF Bit
<1> QED BY <1>4, <1>6, <1>8 DEF TwoOfThree

\* The vertex v is a gate of u and w, and has its drivers.
GateOf(d, Y, v, gate, u, w) ==
    /\ v \notin Y
    /\ d.verts[v].type = "gate" /\ d.verts[v].gate = gate
    /\ Wired(d, v, <<u, w>>)

\* It has their value, and a loop through it goes through them.
SaysOf(d, Y, v, gate, u, w) ==
    /\ \A env, val :
         Fits(d, Y, env, val) /\ d.lost \subseteq {"And", "Or"} /\ val[u] \in Bits /\ val[w] \in Bits
           => val[v] = Says(gate, <<val[u], val[w]>>)
    /\ Depends(d, Y, v, {u, w})

LEMMA RangeOfTwo ==
    ASSUME NEW x, NEW y
    PROVE  Range(<<x, y>>) = {x, y}
BY DEF Range

LEMMA GateOfTwo ==
    ASSUME NEW d, Whole(d), NEW Y, NEW v, NEW gate \in {"And", "Or"}, NEW u, NEW w, GateOf(d, Y, v, gate, u, w)
    PROVE  SaysOf(d, Y, v, gate, u, w)
<1>0. PICK ops : ops = <<u, w>>
  OBVIOUS
<1>1. /\ v \notin Y /\ d.verts[v].type = "gate" /\ d.verts[v].gate = gate /\ Wired(d, v, ops)
      /\ gate \in ElemOps
  BY <1>0 DEF GateOf, ElemOps
<1>2. Range(ops) = {u, w} /\ Len(ops) = 2 /\ ops[1] = u /\ ops[2] = w
  BY <1>0, RangeOfTwo
<1>3. ops \in Seq(Nat) /\ Range(d.verts[v].ins) = Range(ops) /\ v \in DOMAIN d.verts
  BY <1>1, WiredFacts
<1>4. ASSUME NEW env, NEW val, Fits(d, Y, env, val), d.lost \subseteq {"And", "Or"}, val[u] \in Bits, val[w] \in Bits
      PROVE  val[v] = Says(gate, <<val[u], val[w]>>)
  <2>1. val[v] = Says(gate, At(val, ops))
    <3>1. (\A k \in Range(ops) : val[k] \in Bits) /\ Takes(gate, Len(ops))
      BY <1>2, <1>4 DEF Takes
    <3> QED BY <1>1, <1>4, <3>1, WiredValue
  <2>2. At(val, ops) = <<val[u], val[w]>>
    <3>1. DOMAIN ops = 1..2
      BY <1>2, <1>3
    <3> QED BY <1>2, <3>1 DEF At
  <2> QED BY <2>1, <2>2
<1>5. Depends(d, Y, v, {u, w})
  BY <1>1, <1>2, <1>3, DependsOnDrivers
<1> QED BY <1>4, <1>5 DEF SaysOf

\* The vertex p votes: for two of three at a time, in five gates.
Poll(d, Y, ab, ac, bc, or1, p, x1, x2, x3) ==
    /\ GateOf(d, Y, ab, "And", x1, x2)
    /\ GateOf(d, Y, ac, "And", x1, x3)
    /\ GateOf(d, Y, bc, "And", x2, x3)
    /\ GateOf(d, Y, or1, "Or", ab, ac)
    /\ GateOf(d, Y, p, "Or", or1, bc)

\* The operands of a majority.
Three(d, Y, s, x1, x2, x3) ==
    /\ Stands(d, Y, x1, s.args[1])
    /\ Stands(d, Y, x2, s.args[2])
    /\ Stands(d, Y, x3, s.args[3])

LEMMA ThreeValues ==
    ASSUME NEW d, NEW Y, NEW s, NEW S, s.args \in Seq(S), Len(s.args) = 3,
           NEW x1, NEW x2, NEW x3, Three(d, Y, s, x1, x2, x3),
           NEW env, NEW val, Fits(d, Y, env, val),
           \A i \in DOMAIN s.args : val[Pl(d, s.args[i].net)] \in Bits
    PROVE  /\ Lits(d, val, s) = <<val[x1], val[x2], val[x3]>>
           /\ val[x1] \in Bits /\ val[x2] \in Bits /\ val[x3] \in Bits
<1>1. DOMAIN s.args = 1..3
  OBVIOUS
<1>2. ASSUME NEW x, NEW i \in DOMAIN s.args, Stands(d, Y, x, s.args[i])
      PROVE  val[x] = Lit(s.args[i], val[Pl(d, s.args[i].net)]) /\ val[x] \in Bits
  <2>1. val[x] = Lit(s.args[i], val[Pl(d, s.args[i].net)])
    BY <1>2 DEF Stands
  <2> QED BY <1>2, <2>1, LitBits
<1>3. 1 \in DOMAIN s.args /\ 2 \in DOMAIN s.args /\ 3 \in DOMAIN s.args
  BY <1>1
<1>4. /\ val[x1] = Lit(s.args[1], val[Pl(d, s.args[1].net)]) /\ val[x1] \in Bits
      /\ val[x2] = Lit(s.args[2], val[Pl(d, s.args[2].net)]) /\ val[x2] \in Bits
      /\ val[x3] = Lit(s.args[3], val[Pl(d, s.args[3].net)]) /\ val[x3] \in Bits
  BY <1>2, <1>3 DEF Three
<1>5. Lits(d, val, s) = <<Lit(s.args[1], val[Pl(d, s.args[1].net)]), Lit(s.args[2], val[Pl(d, s.args[2].net)]),
                          Lit(s.args[3], val[Pl(d, s.args[3].net)])>>
  BY <1>1 DEF Lits
<1> QED BY <1>4, <1>5

LEMMA ThreeDepends ==
    ASSUME NEW d, NEW Y, NEW s, NEW S, s.args \in Seq(S), Len(s.args) = 3,
           NEW x1, NEW x2, NEW x3, Three(d, Y, s, x1, x2, x3), NEW x, x \in {x1, x2, x3}
    PROVE  Depends(d, Y, x, Sources(d, s))
<1>1. ASSUME NEW i \in DOMAIN s.args, Stands(d, Y, x, s.args[i])
      PROVE  Depends(d, Y, x, Sources(d, s))
  <2>1. Depends(d, Y, x, {Pl(d, s.args[i].net)}) /\ Pl(d, s.args[i].net) \in Sources(d, s)
    BY <1>1 DEF Stands, Sources
  <2> QED BY <2>1 DEF Depends
<1>2. 1 \in DOMAIN s.args /\ 2 \in DOMAIN s.args /\ 3 \in DOMAIN s.args
  OBVIOUS
<1> QED BY <1>1, <1>2 DEF Three

\* A majority of the operands, and loops through it.
Elected(d, Y, s, p) == Computes(d, Y, p, s) /\ Depends(d, Y, p, Sources(d, s))

LEMMA PollElects ==
    ASSUME NEW d, Whole(d), NEW Y, NEW s, s.op = "Maj", NEW S, s.args \in Seq(S), Len(s.args) = 3,
           NEW x1, NEW x2, NEW x3, Three(d, Y, s, x1, x2, x3),
           NEW ab, NEW ac, NEW bc, NEW or1, NEW p, Poll(d, Y, ab, ac, bc, or1, p, x1, x2, x3)
    PROVE  /\ Elected(d, Y, s, p)
           /\ \A k \in {ab, ac, bc, or1, p} : Depends(d, Y, k, Sources(d, s))
<1>1. /\ SaysOf(d, Y, ab, "And", x1, x2) /\ SaysOf(d, Y, ac, "And", x1, x3) /\ SaysOf(d, Y, bc, "And", x2, x3)
      /\ SaysOf(d, Y, or1, "Or", ab, ac) /\ SaysOf(d, Y, p, "Or", or1, bc)
  <2>1. "And" \in {"And", "Or"} /\ "Or" \in {"And", "Or"}
    OBVIOUS
  <2> QED BY <2>1, GateOfTwo DEF Poll
<1>2. \A x \in {x1, x2, x3} : Depends(d, Y, x, Sources(d, s))
  BY ThreeDepends
<1>3. ASSUME NEW k, NEW gate, NEW u, NEW w, SaysOf(d, Y, k, gate, u, w),
             Depends(d, Y, u, Sources(d, s)), Depends(d, Y, w, Sources(d, s))
      PROVE  Depends(d, Y, k, Sources(d, s))
  <2>1. Depends(d, Y, k, {u, w})
    BY <1>3 DEF SaysOf
  <2> QED BY <1>3, <2>1, DependsTwice
<1>4. Depends(d, Y, ab, Sources(d, s)) /\ Depends(d, Y, ac, Sources(d, s)) /\ Depends(d, Y, bc, Sources(d, s))
  BY <1>1, <1>2, <1>3
<1>5. Depends(d, Y, or1, Sources(d, s))
  BY <1>1, <1>3, <1>4
<1>6. Depends(d, Y, p, Sources(d, s))
  BY <1>1, <1>3, <1>4, <1>5
<1>7. Computes(d, Y, p, s)
  <2> SUFFICES ASSUME NEW env, NEW val, Fits(d, Y, env, val), d.lost \subseteq {"And", "Or"},
                      \A i \in DOMAIN s.args : val[Pl(d, s.args[i].net)] \in Bits
               PROVE  val[p] = Says("Maj", Lits(d, val, s))
    BY DEF Computes, ValueOps
  <2>1. /\ Lits(d, val, s) = <<val[x1], val[x2], val[x3]>>
        /\ val[x1] \in Bits /\ val[x2] \in Bits /\ val[x3] \in Bits
    BY ThreeValues
  <2>2. /\ val[ab] = Says("And", <<val[x1], val[x2]>>)
        /\ val[ac] = Says("And", <<val[x1], val[x3]>>)
        /\ val[bc] = Says("And", <<val[x2], val[x3]>>)
    BY <1>1, <2>1 DEF SaysOf
  <2>3. PICK o : o = Says("Or", <<val[ab], val[ac]>>)
    OBVIOUS
  <2>4. /\ val[ab] \in Bits /\ val[ac] \in Bits /\ val[bc] \in Bits /\ o \in Bits
        /\ Says("Or", <<o, val[bc]>>) = Says("Maj", <<val[x1], val[x2], val[x3]>>)
    <3>1. PICK a, b, c, vab, vac, vbc :
            /\ a = val[x1] /\ b = val[x2] /\ c = val[x3]
            /\ vab = val[ab] /\ vac = val[ac] /\ vbc = val[bc]
      OBVIOUS
    <3>2. /\ a \in Bits /\ b \in Bits /\ c \in Bits
      BY <2>1, <3>1
    <3>3. TwoAtATime(a, b, c, vab, vac, vbc, o)
      BY <2>2, <2>3, <3>1 DEF TwoAtATime
    <3>4. TwoOfThree(a, b, c, vab, vac, vbc, o)
      BY <3>2, <3>3, OrOfAnds
    <3> QED BY <3>1, <3>4 DEF TwoOfThree
  <2>5. val[or1] = o
    BY <1>1, <2>3, <2>4 DEF SaysOf
  <2>6. val[p] = Says("Or", <<o, val[bc]>>)
    BY <1>1, <2>4, <2>5 DEF SaysOf
  <2> QED BY <2>1, <2>4, <2>6
<1> QED BY <1>4, <1>5, <1>6, <1>7 DEF Elected

\* The vertex u, if it is one of the graph, stands for an operand.
ForArg(d, X, u, arg) == Held(d, u) /\ (Inside(d, u) => Stands(d, X, u[2], arg))

LEMMA ForArgStays ==
    ASSUME NEW c, NEW d, NEW N, Ext(c, d, {}, N), NEW X, X \subseteq DOMAIN c.verts,
           NEW u, NEW arg, ForArg(c, X, u, arg)
    PROVE  ForArg(d, X, u, arg)
<1>1. Held(d, u) /\ (Inside(d, u) => Inside(c, u))
  BY HeldStays DEF ForArg
<1>2. Inside(c, u) => Stands(d, X, u[2], arg)
  <2>1. {} \subseteq X /\ X \cap DOMAIN c.verts \subseteq X
    OBVIOUS
  <2> HAVE Inside(c, u)
  <2>2. Stands(c, X, u[2], arg)
    BY DEF ForArg
  <2> QED BY <2>1, <2>2, StandsStays
<1> QED BY <1>1, <1>2 DEF ForArg

\* The names looking up operands of s may add.
Inversions(s) == {NotName(s.args[i].net) : i \in DOMAIN s.args}

\* Between c and d operands of s were looked up.
Asked(c, d, f, X, s) == Leads(c, d, f, X, {}, Sources(c, s), Inversions(s))

LEMMA NextVoter ==
    ASSUME NEW c, NEW b, NEW f, Promising(f), NEW X, X \subseteq DOMAIN c.verts, NEW s, Asked(c, b, f, X, s),
           NEW i, Operand(c, f, s, i), NEW d, d = RightHS(b, s.args[i]), d.status = "ok"
    PROVE  /\ Asked(c, d, f, X, s) /\ ForArg(d, X, d.at, s.args[i])
           /\ Ext(b, d, {}, Inversions(s)) /\ X \subseteq DOMAIN b.verts
<1>1. PICK arg, A, N : arg = s.args[i] /\ A = Sources(c, s) /\ N = Inversions(s)
  OBVIOUS
<1>2. Leads(c, b, f, X, {}, A, N) /\ Ext(c, b, {}, N)
  BY <1>1 DEF Asked, Leads
<1>3. arg.net \in Nets(f) /\ Live(c, arg.net) /\ Pl(c, arg.net) \in A /\ NotName(arg.net) \in N
  BY <1>1 DEF Operand, Sources, Inversions
<1>4. b.names[arg.net][2] \in A
  <2>1. Pl(b, arg.net) = Pl(c, arg.net)
    BY <1>2, <1>3, LiveStays
  <2> QED BY <1>3, <2>1 DEF Pl
<1>5. Whole(b) /\ Inverters(b, f, X) /\ X \subseteq DOMAIN b.verts
  BY <1>2 DEF Ext, Leads
<1>6. d = RightHS(b, arg)
  BY <1>1
<1>7. /\ Leads(b, d, f, X, {}, A, N)
      /\ Held(d, d.at)
      /\ Inside(d, d.at) => Stands(d, X, d.at[2], arg)
  BY <1>3, <1>4, <1>5, <1>6, OperandLeads
<1>8. Leads(c, d, f, X, {}, A, N)
  <2>1. {} \subseteq {} /\ {} \cap DOMAIN c.verts \subseteq {} /\ {} \subseteq X
    OBVIOUS
  <2> QED BY <1>2, <1>7, <2>1, LeadsTwice
<1>9. Ext(b, d, {}, N)
  BY <1>7 DEF Leads
<1> QED BY <1>1, <1>5, <1>7, <1>8, <1>9 DEF Asked, ForArg

\* The three operands of s have been looked up.
Polled(c, d, f, X, s, u1, u2, u3) ==
    /\ Asked(c, d, f, X, s)
    /\ ForArg(d, X, u1, s.args[1]) /\ ForArg(d, X, u2, s.args[2]) /\ ForArg(d, X, u3, s.args[3])

LEMMA VotersLead ==
    ASSUME NEW c, Whole(c), NEW f, Promising(f), NEW X, X \subseteq DOMAIN c.verts, Inverters(c, f, X),
           NEW s, Operand(c, f, s, 1), Operand(c, f, s, 2), Operand(c, f, s, 3),
           NEW one, one = RightHS(c, s.args[1]), NEW two, two = RightHS(one, s.args[2]),
           NEW d, d = RightHS(two, s.args[3]), d.status = "ok"
    PROVE  Polled(c, d, f, X, s, one.at, two.at, d.at)
<1>1. two.status = "ok" /\ one.status = "ok"
  <2>1. two.status = "ok"
    BY OkBefore
  <2> QED BY <2>1, OkBefore
<1>2. Asked(c, c, f, X, s)
  BY LeadsNowhere DEF Asked
<1>3. Asked(c, one, f, X, s) /\ ForArg(one, X, one.at, s.args[1])
  BY <1>1, <1>2, NextVoter
<1>4. /\ Asked(c, two, f, X, s) /\ ForArg(two, X, two.at, s.args[2])
      /\ Ext(one, two, {}, Inversions(s)) /\ X \subseteq DOMAIN one.verts
  BY <1>1, <1>3, NextVoter
<1>5. /\ Asked(c, d, f, X, s) /\ ForArg(d, X, d.at, s.args[3])
      /\ Ext(two, d, {}, Inversions(s)) /\ X \subseteq DOMAIN two.verts
  BY <1>4, NextVoter
<1>6. ForArg(two, X, one.at, s.args[1])
  BY <1>3, <1>4, ForArgStays
<1>7. ForArg(d, X, one.at, s.args[1]) /\ ForArg(d, X, two.at, s.args[2])
  BY <1>4, <1>5, <1>6, ForArgStays
<1> QED BY <1>5, <1>7 DEF Polled

-----------------------------------------------------------------------------
(* A majority of a declared wire: five gates.                              *)

LEMMA GateOfStays ==
    ASSUME NEW c, NEW d, NEW T, NEW N, Ext(c, d, T, N), NEW Y, NEW v, v \notin T,
           NEW gate, NEW u, NEW w, GateOf(c, Y, v, gate, u, w)
    PROVE  GateOf(d, Y, v, gate, u, w)
<1>1. PICK ops : ops = <<u, w>>
  OBVIOUS
<1>2. Wired(c, v, ops)
  BY <1>1 DEF GateOf
<1>3. v \in DOMAIN c.verts
  BY <1>2 DEF Wired
<1>4. d.verts[v].type = c.verts[v].type /\ d.verts[v].gate = c.verts[v].gate
  BY <1>3 DEF Ext
<1>5. Wired(d, v, ops)
  BY <1>2, WiredStays
<1> QED BY <1>1, <1>4, <1>5 DEF GateOf

LEMMA PairedGate ==
    ASSUME NEW c, NEW d, NEW gate, NEW u, NEW w, Paired(c, d, gate, u, w), NEW Y, Y \subseteq DOMAIN c.verts
    PROVE  GateOf(d, Y, d.at[2], gate, u[2], w[2])
BY DEF Paired, GateOf

\* A vertex without drivers gets the drivers u and w.
Doubled(c, d, v, u, w) ==
    /\ Ext(c, d, {v[2]}, {}) /\ DOMAIN d.verts = DOMAIN c.verts
    /\ d.verts[v[2]].gate = c.verts[v[2]].gate
    /\ Wired(d, v[2], <<u[2], w[2]>>)

LEMMA TwoEdges ==
    ASSUME NEW c, Whole(c), NEW v, Inside(c, v), c.verts[v[2]].ins = <<>>,
           NEW u, Held(c, u), NEW w, Held(c, w),
           NEW e, e = AddEdge(c, u, v), NEW d, d = AddEdge(e, w, v), d.status = "ok"
    PROVE  Doubled(c, d, v, u, w)
<1>1. e.status = "ok"
  BY OkBefore
<1>2. Held(c, v) /\ Wired(c, v[2], <<>>)
  BY DEF Held, Wired, Inside
<1>3. Edged(c, e, u, v) /\ Wired(e, v[2], Append(<<>>, u[2]))
  <2>1. Edged(c, e, u, v)
    BY <1>1, <1>2, EdgeEffect
  <2>2. Wired(e, v[2], Append(<<>>, u[2]))
    BY <1>1, <1>2, WiredEdge
  <2> QED BY <2>1, <2>2
<1>4. /\ Ext(c, e, {v[2]}, {}) /\ DOMAIN e.verts = DOMAIN c.verts
      /\ e.verts[v[2]].gate = c.verts[v[2]].gate /\ Whole(e)
  BY <1>3 DEF Edged, Ext
<1>5. Held(e, w) /\ Held(e, v)
  BY <1>2, <1>4, HeldStays
<1>6. Edged(e, d, w, v)
  BY <1>4, <1>5, EdgeEffect
<1>7. Wired(d, v[2], Append(Append(<<>>, u[2]), w[2]))
  <2>1. PICK l : l = Append(<<>>, u[2])
    OBVIOUS
  <2>2. Wired(e, v[2], l)
    BY <1>3, <2>1
  <2>3. Wired(d, v[2], Append(l, w[2]))
    BY <1>4, <1>5, <2>2, WiredEdge
  <2> QED BY <2>1, <2>3
<1>8. /\ Ext(e, d, {v[2]}, {}) /\ DOMAIN d.verts = DOMAIN e.verts
      /\ d.verts[v[2]].gate = e.verts[v[2]].gate
  BY <1>6 DEF Edged
<1>9. Ext(c, d, {v[2]}, {})
  <2>1. {v[2]} \subseteq {v[2]} /\ {v[2]} \cap DOMAIN c.verts \subseteq {v[2]} /\ {} \cup {} \subseteq {}
    OBVIOUS
  <2> QED BY <1>4, <1>8, <2>1, ExtTwice
<1>10. Wired(d, v[2], <<u[2], w[2]>>)
  BY <1>7, TwoAppended
<1> QED BY <1>4, <1>8, <1>9, <1>10 DEF Doubled

\* From c to d four gates were added, and v has become their vote.
Voted(c, d, Y, v, u1, u2, u3) ==
    /\ Ext(c, d, {v[2]}, {})
    /\ Inside(c, u1) /\ Inside(c, u2) /\ Inside(c, u3)
    /\ \E ab, ac, bc, or1 :
         /\ Poll(d, Y, ab, ac, bc, or1, v[2], u1[2], u2[2], u3[2])
         /\ DOMAIN d.verts = DOMAIN c.verts \cup {ab, ac, bc, or1}

LEMMA EdgeOk ==
    ASSUME NEW c, NEW u, NEW v, NEW d, d = AddEdge(c, u, v), d.status = "ok"
    PROVE  c.status = "ok"
BY OkBefore

LEMMA SetGateOk ==
    ASSUME NEW c, c.status # "ok", NEW v, NEW gate, NEW survives
    PROVE  SetGateIfDefault(c, v, gate, survives) = c
BY OkBefore

LEMMA NewOk ==
    ASSUME NEW c, c.status # "ok", NEW type, NEW gate, NEW name
    PROVE  New(c, type, gate, name) = c
BY OkBefore

LEMMA PairOk ==
    ASSUME NEW b, NEW gate, NEW u, NEW w, NEW d, d = Pair(b, gate, u, w), d.status = "ok"
    PROVE  b.status = "ok"
<1>1. PICK g, e : g = New(b, "gate", gate, "") /\ e = AddEdge(g, u, g.at)
  OBVIOUS
<1>2. d = AddEdge(e, w, g.at)
  BY <1>1 DEF Pair
<1>3. g.status = "ok"
  <2>1. e.status = "ok"
    BY <1>2, EdgeOk
  <2> QED BY <1>1, <2>1, EdgeOk
<1> QED BY <1>1, <1>3, NewOk

LEMMA ShapedStatus ==
    ASSUME NEW t, Shaped(t), NEW v, NEW l, l = [t EXCEPT !.at = v]
    PROVE  l.status = t.status /\ l.at = v
BY DEF Shaped

\* The steps of generating a majority in gates.
Drawn(c, ab, ac, bc, or1, t, l, e, d, v, u1, u2, u3, survives) ==
    /\ ab = Pair(c, "And", u1, u2) /\ ac = Pair(ab, "And", u1, u3) /\ bc = Pair(ac, "And", u2, u3)
    /\ or1 = Pair(bc, "Or", ab.at, ac.at)
    /\ t = SetGateIfDefault(or1, v, "Or", survives) /\ l = [t EXCEPT !.at = v]
    /\ e = AddEdge(l, or1.at, v)
    /\ SaysDefault(or1, v) => d = AddEdge(e, bc.at, v)

LEMMA DrawsMajority ==
    ASSUME NEW c, Whole(c), NEW v, Inside(c, v), NEW u1, NEW u2, NEW u3, NEW survives,
           NEW d, d = MajorityAsLogic(c, <<u1, u2, u3>>, v, survives), d.status = "ok"
    PROVE  \E ab, ac, bc, or1, t, l, e :
             Drawn(c, ab, ac, bc, or1, t, l, e, d, v, u1, u2, u3, survives) /\ or1.status = "ok"
<1>1. PICK ab, ac, bc, or1, t, l, e :
        /\ ab = Pair(c, "And", u1, u2) /\ ac = Pair(ab, "And", u1, u3) /\ bc = Pair(ac, "And", u2, u3)
        /\ or1 = Pair(bc, "Or", ab.at, ac.at)
        /\ t = SetGateIfDefault(or1, v, "Or", survives) /\ l = [t EXCEPT !.at = v]
        /\ e = AddEdge(l, or1.at, v)
  OBVIOUS
<1>2. c.status = "ok" /\ Shaped(c) /\ ~Freed(c, v)
  BY DEF Whole, Inside, Freed
<1>3. PICK or2 : /\ or2 = IF SaysDefault(or1, v) THEN l ELSE New(or1, "gate", "Or", "")
                 /\ d = AddEdge(AddEdge(or2, or1.at, or2.at), bc.at, or2.at)
  <2>1. <<u1, u2, u3>>[1] = u1 /\ <<u1, u2, u3>>[2] = u2 /\ <<u1, u2, u3>>[3] = u3
    OBVIOUS
  <2> QED BY <1>1, <1>2, <2>1 DEF MajorityAsLogic, After
<1>4. Shaped(or1) /\ Shaped(t)
  <2>1. Shaped(ab)
    BY <1>1, <1>2, ShapedOperands
  <2>2. Shaped(ac)
    BY <1>1, <2>1, ShapedOperands
  <2>3. Shaped(bc)
    BY <1>1, <2>2, ShapedOperands
  <2>4. Shaped(or1)
    BY <1>1, <2>3, ShapedOperands
  <2> QED BY <1>1, <2>4, ShapedSteps
<1>5. or2.status = "ok"
  <2>1. PICK g : g = AddEdge(or2, or1.at, or2.at)
    OBVIOUS
  <2>2. d = AddEdge(g, bc.at, or2.at)
    BY <1>3, <2>1
  <2>3. g.status = "ok"
    BY <2>2, EdgeOk
  <2> QED BY <2>1, <2>3, EdgeOk
<1>6. or1.status = "ok"
  <2> SUFFICES ASSUME or1.status # "ok" PROVE FALSE
    OBVIOUS
  <2>1. t = or1 /\ New(or1, "gate", "Or", "") = or1
    <3>1. SetGateIfDefault(or1, v, "Or", survives) = or1
      BY SetGateOk
    <3>2. New(or1, "gate", "Or", "") = or1
      BY NewOk
    <3> QED BY <1>1, <3>1, <3>2
  <2>2. l.status = or1.status
    <3>1. l = [t EXCEPT !.at = v] /\ Shaped(t)
      BY <1>1, <1>4
    <3>2. l.status = t.status
      BY <3>1, ShapedStatus
    <3> QED BY <2>1, <3>2
  <2> QED BY <1>3, <1>5, <2>1, <2>2
<1>7. l.at = v
  BY <1>1, <1>4, ShapedStatus
<1>8. SaysDefault(or1, v) => d = AddEdge(e, bc.at, v)
  BY <1>1, <1>3, <1>7
<1> QED BY <1>1, <1>6, <1>8 DEF Drawn

LEMMA LogicVotes ==
    ASSUME NEW c, Whole(c), NEW u1, Held(c, u1), NEW u2, Held(c, u2), NEW u3, Held(c, u3),
           NEW v, Inside(c, v), c.verts[v[2]].type = "gate", c.verts[v[2]].gate = "Default",
           c.verts[v[2]].ins = <<>>, NEW Y, Y \subseteq DOMAIN c.verts, v[2] \notin Y, NEW survives,
           NEW d, d = MajorityAsLogic(c, <<u1, u2, u3>>, v, survives), d.status = "ok"
    PROVE  Voted(c, d, Y, v, u1, u2, u3)
<1>0. PICK ab, ac, bc, or1, t, l, e :
         Drawn(c, ab, ac, bc, or1, t, l, e, d, v, u1, u2, u3, survives) /\ or1.status = "ok"
  BY DrawsMajority
<1>1. /\ ab = Pair(c, "And", u1, u2) /\ ac = Pair(ab, "And", u1, u3) /\ bc = Pair(ac, "And", u2, u3)
      /\ or1 = Pair(bc, "Or", ab.at, ac.at)
      /\ t = SetGateIfDefault(or1, v, "Or", survives) /\ l = [t EXCEPT !.at = v]
      /\ e = AddEdge(l, or1.at, v)
  BY <1>0 DEF Drawn
<1>2. bc.status = "ok" /\ ac.status = "ok" /\ ab.status = "ok"
  <2>1. bc.status = "ok"
    BY <1>0, <1>1, PairOk
  <2>2. ac.status = "ok"
    BY <1>1, <2>1, PairOk
  <2> QED BY <1>1, <2>1, <2>2, PairOk
<1>3. "And" \in {"And", "Or"} /\ "Or" \in {"And", "Or"}
  OBVIOUS
<1>4. Paired(c, ab, "And", u1, u2)
  BY <1>1, <1>2, <1>3, PairMakes
<1>5. Ext(c, ab, {}, {}) /\ Whole(ab) /\ Inside(ab, ab.at)
  BY <1>4 DEF Paired, Ext
<1>6. Held(ab, u1) /\ Held(ab, u2) /\ Held(ab, u3)
  BY <1>5, HeldStays
<1>7. Paired(ab, ac, "And", u1, u3)
  BY <1>1, <1>2, <1>3, <1>5, <1>6, PairMakes
<1>8. Ext(ab, ac, {}, {}) /\ Whole(ac) /\ Inside(ac, ac.at)
  BY <1>7 DEF Paired, Ext
<1>9. Held(ac, u2) /\ Held(ac, u3)
  BY <1>6, <1>8, HeldStays
<1>10. Paired(ac, bc, "And", u2, u3)
  BY <1>1, <1>2, <1>3, <1>8, <1>9, PairMakes
<1>11. Ext(ac, bc, {}, {}) /\ Whole(bc) /\ Inside(bc, bc.at)
  BY <1>10 DEF Paired, Ext
<1>12. Held(bc, ab.at) /\ Held(bc, ac.at)
  <2>1. Inside(ac, ab.at)
    BY <1>5, <1>8, LiveStays
  <2>2. Inside(bc, ab.at) /\ Inside(bc, ac.at)
    BY <1>8, <1>11, <2>1, LiveStays
  <2> QED BY <2>2 DEF Held
<1>13. Paired(bc, or1, "Or", ab.at, ac.at)
  BY <1>0, <1>1, <1>3, <1>11, <1>12, PairMakes
<1>14. Ext(bc, or1, {}, {}) /\ Whole(or1) /\ Inside(or1, or1.at)
  BY <1>13 DEF Paired, Ext
<1>15. Ext(c, or1, {}, {})
  <2>1. {} \subseteq {} /\ {} \cup {} \subseteq {} /\ \A S : {} \cap S \subseteq {}
    OBVIOUS
  <2>2. Ext(c, ac, {}, {})
    BY <1>5, <1>8, <2>1, ExtTwice
  <2>3. Ext(c, bc, {}, {})
    BY <1>11, <2>1, <2>2, ExtTwice
  <2> QED BY <1>14, <2>1, <2>3, ExtTwice
<1>16. /\ Inside(or1, v) /\ or1.verts[v[2]].type = "gate" /\ or1.verts[v[2]].gate = "Default"
       /\ or1.verts[v[2]].ins = <<>> /\ v[2] \in DOMAIN c.verts
  <2>1. v[2] \in DOMAIN c.verts
    BY DEF Inside
  <2>2. Inside(or1, v)
    BY <1>15, LiveStays
  <2> QED BY <1>15, <2>1, <2>2 DEF Ext
<1>17. Retyped(or1, t, v[2], "Or")
  <2>1. "Or" \in Gates
    BY DEF Gates, ElemOps
  <2> QED BY <1>1, <1>14, <1>16, <2>1, SetGateEffect
<1>18. /\ Ext(or1, t, {v[2]}, {}) /\ DOMAIN t.verts = DOMAIN or1.verts /\ t.verts[v[2]].gate = "Or"
       /\ t.verts[v[2]].ins = <<>> /\ Whole(t)
  BY <1>16, <1>17 DEF Retyped, Ext
<1>19. Ext(t, l, {}, {}) /\ l.verts = t.verts /\ Whole(l)
  <2>1. Ext(t, l, {}, {}) /\ l.verts = t.verts
    BY <1>1, <1>18, AtEffect
  <2> QED BY <2>1 DEF Ext
<1>20. Inside(l, v) /\ Held(l, or1.at) /\ Held(l, bc.at)
  <2>1. Inside(or1, bc.at)
    BY <1>11, <1>14, LiveStays
  <2>2. Inside(t, v) /\ Inside(t, or1.at) /\ Inside(t, bc.at)
    BY <1>14, <1>16, <1>18, <2>1, LiveStays
  <2>3. Inside(l, v) /\ Inside(l, or1.at) /\ Inside(l, bc.at)
    BY <1>19, <2>2, LiveStays
  <2> QED BY <2>3 DEF Held
<1>21. d = AddEdge(e, bc.at, v)
  BY <1>0, <1>16 DEF Drawn, SaysDefault, Vert
<1>22. Doubled(l, d, v, or1.at, bc.at)
  <2>1. l.verts[v[2]].ins = <<>>
    BY <1>18, <1>19
  <2> QED BY <1>1, <1>19, <1>20, <1>21, <2>1, TwoEdges
<1>23. /\ Ext(l, d, {v[2]}, {}) /\ DOMAIN d.verts = DOMAIN l.verts /\ d.verts[v[2]].gate = l.verts[v[2]].gate
       /\ Wired(d, v[2], <<or1.at[2], bc.at[2]>>)
  BY <1>22 DEF Doubled
<1>24. Ext(or1, d, {v[2]}, {})
  <2>1. {} \cap DOMAIN or1.verts \subseteq {v[2]} /\ {v[2]} \cap DOMAIN or1.verts \subseteq {v[2]} /\ {} \cup {} \subseteq {}
        /\ {v[2]} \subseteq {v[2]}
    OBVIOUS
  <2>2. Ext(or1, l, {v[2]}, {})
    BY <1>18, <1>19, <2>1, ExtTwice
  <2> QED BY <1>23, <2>1, <2>2, ExtTwice
<1>25. Ext(c, d, {v[2]}, {})
  <2>1. {v[2]} \cap DOMAIN c.verts \subseteq {v[2]} /\ {} \cup {} \subseteq {} /\ {} \subseteq {v[2]}
    OBVIOUS
  <2> QED BY <1>15, <1>24, <2>1, ExtTwice
<1>26. /\ DOMAIN ab.verts = DOMAIN c.verts \cup {ab.at[2]} /\ ab.at[2] \notin DOMAIN c.verts
       /\ DOMAIN ac.verts = DOMAIN ab.verts \cup {ac.at[2]} /\ ac.at[2] \notin DOMAIN ab.verts
       /\ DOMAIN bc.verts = DOMAIN ac.verts \cup {bc.at[2]} /\ bc.at[2] \notin DOMAIN ac.verts
       /\ DOMAIN or1.verts = DOMAIN bc.verts \cup {or1.at[2]} /\ or1.at[2] \notin DOMAIN bc.verts
  BY <1>4, <1>7, <1>10, <1>13 DEF Paired
<1>27. DOMAIN d.verts = DOMAIN c.verts \cup {ab.at[2], ac.at[2], bc.at[2], or1.at[2]}
  BY <1>18, <1>19, <1>23, <1>26
<1>28. /\ Y \subseteq DOMAIN ab.verts /\ Y \subseteq DOMAIN ac.verts /\ Y \subseteq DOMAIN bc.verts
       /\ v[2] \notin {ab.at[2], ac.at[2], bc.at[2], or1.at[2]}
  BY <1>16, <1>26
<1>29. /\ GateOf(ab, Y, ab.at[2], "And", u1[2], u2[2])
       /\ GateOf(ac, Y, ac.at[2], "And", u1[2], u3[2])
       /\ GateOf(bc, Y, bc.at[2], "And", u2[2], u3[2])
       /\ GateOf(or1, Y, or1.at[2], "Or", ab.at[2], ac.at[2])
  BY <1>4, <1>7, <1>10, <1>13, <1>28, PairedGate
<1>30. GateOf(d, Y, ab.at[2], "And", u1[2], u2[2])
  <2>1. GateOf(ac, Y, ab.at[2], "And", u1[2], u2[2])
    BY <1>8, <1>29, GateOfStays
  <2>2. GateOf(bc, Y, ab.at[2], "And", u1[2], u2[2])
    BY <1>11, <2>1, GateOfStays
  <2>3. GateOf(or1, Y, ab.at[2], "And", u1[2], u2[2])
    BY <1>14, <2>2, GateOfStays
  <2> QED BY <1>24, <1>28, <2>3, GateOfStays
<1>31. GateOf(d, Y, ac.at[2], "And", u1[2], u3[2])
  <2>2. GateOf(bc, Y, ac.at[2], "And", u1[2], u3[2])
    BY <1>11, <1>29, GateOfStays
  <2>3. GateOf(or1, Y, ac.at[2], "And", u1[2], u3[2])
    BY <1>14, <2>2, GateOfStays
  <2> QED BY <1>24, <1>28, <2>3, GateOfStays
<1>32. GateOf(d, Y, bc.at[2], "And", u2[2], u3[2])
  <2>3. GateOf(or1, Y, bc.at[2], "And", u2[2], u3[2])
    BY <1>14, <1>29, GateOfStays
  <2> QED BY <1>24, <1>28, <2>3, GateOfStays
<1>33. GateOf(d, Y, or1.at[2], "Or", ab.at[2], ac.at[2])
  BY <1>24, <1>28, <1>29, GateOfStays
<1>34. GateOf(d, Y, v[2], "Or", or1.at[2], bc.at[2])
  <2>1. d.verts[v[2]].gate = "Or"
    BY <1>18, <1>19, <1>23
  <2>2. d.verts[v[2]].type = "gate"
    BY <1>16, <1>25 DEF Ext
  <2> QED BY <1>23, <2>1, <2>2 DEF GateOf
<1>35. Inside(c, u1) /\ Inside(c, u2) /\ Inside(c, u3)
  <2>1. Inside(c, u1) /\ Inside(c, u2)
    BY <1>4 DEF Paired
  <2>2. Inside(ab, u3)
    BY <1>7 DEF Paired
  <2> QED BY <1>5, <2>1, <2>2, HeldStays
<1>36. Poll(d, Y, ab.at[2], ac.at[2], bc.at[2], or1.at[2], v[2], u1[2], u2[2], u3[2])
  BY <1>30, <1>31, <1>32, <1>33, <1>34 DEF Poll
<1> QED BY <1>25, <1>27, <1>35, <1>36 DEF Voted

LEMMA MajorityArgs ==
    ASSUME NEW c, NEW f, Promising(f), NEW P, P \subseteq f.assigns, NEW s \in P, s.op = "Maj", Apt(c, f, P, s)
    PROVE  /\ s.args \in Seq([net : STRING, not : BOOLEAN]) /\ Len(s.args) = 3
           /\ Operand(c, f, s, 1) /\ Operand(c, f, s, 2) /\ Operand(c, f, s, 3)
           /\ \A i \in DOMAIN s.args : Live(c, s.args[i].net)
<1>1. /\ s.args \in Seq([net : STRING, not : BOOLEAN]) /\ Len(s.args) = 3 /\ DOMAIN s.args = 1..Len(s.args)
      /\ \A i \in DOMAIN s.args : s.args[i].net \in Nets(f)
  BY ArgsFacts
<1>2. \A i \in DOMAIN s.args : Live(c, s.args[i].net)
  BY DEF Apt
<1>3. 1 \in DOMAIN s.args /\ 2 \in DOMAIN s.args /\ 3 \in DOMAIN s.args
  BY <1>1
<1> QED BY <1>1, <1>2, <1>3 DEF Operand

LEMMA DependsStays ==
    ASSUME NEW c, NEW d, NEW T, NEW N, Ext(c, d, T, N), NEW X, T \subseteq X,
           NEW Y, Y \cap DOMAIN c.verts \subseteq X, NEW x, NEW A, Depends(c, X, x, A)
    PROVE  Depends(d, Y, x, A)
BY StaysTrue

\* The vote, and the operands it is one of.
MajorityDone(c, b, d, f, X, Y, s, v, u1, u2, u3) ==
    /\ Polled(c, b, f, X, s, u1, u2, u3)
    /\ Voted(b, d, Y, v, u1, u2, u3)

LEMMA VoteDone ==
    ASSUME NEW c, NEW f, Promising(f), NEW X, X \subseteq DOMAIN c.verts, NEW s, s.op = "Maj",
           NEW S, s.args \in Seq(S), Len(s.args) = 3, \A i \in DOMAIN s.args : Live(c, s.args[i].net),
           Live(c, s.lhs), NEW v, v = c.names[s.lhs], v[2] \in X, NEW Y, Y = X \ {v[2]},
           NEW b, NEW d, NEW u1, NEW u2, NEW u3, MajorityDone(c, b, d, f, X, Y, s, v, u1, u2, u3)
    PROVE  Done(c, d, f, X, s, Y)
<1>1. /\ Leads(c, b, f, X, {}, Sources(c, s), Inversions(s))
      /\ ForArg(b, X, u1, s.args[1]) /\ ForArg(b, X, u2, s.args[2]) /\ ForArg(b, X, u3, s.args[3])
  BY DEF MajorityDone, Polled, Asked
<1>2. /\ Ext(b, d, {v[2]}, {})
      /\ Inside(b, u1) /\ Inside(b, u2) /\ Inside(b, u3)
  BY DEF MajorityDone, Voted
<1>3. PICK ab, ac, bc, or1 :
         /\ Poll(d, Y, ab, ac, bc, or1, v[2], u1[2], u2[2], u3[2])
         /\ DOMAIN d.verts = DOMAIN b.verts \cup {ab, ac, bc, or1}
  BY DEF MajorityDone, Voted
<1>4. Ext(c, b, {}, Inversions(s)) /\ Inverters(b, f, X) /\ Sprung(c, b, X, Sources(c, s))
  BY <1>1 DEF Leads
<1>5. Ext(c, d, {v[2]}, Made(s))
  <2>1. {} \subseteq {v[2]} /\ {v[2]} \cap DOMAIN c.verts \subseteq {v[2]} /\ Inversions(s) \cup {} \subseteq Made(s)
    BY DEF Inversions, Made
  <2> QED BY <1>2, <1>4, <2>1, ExtTwice
<1>6. Live(d, s.lhs) /\ Pl(d, s.lhs) = v[2]
  BY <1>5, LiveStays DEF Pl
<1>7. {v[2]} \subseteq X /\ Y \cap DOMAIN b.verts \subseteq X /\ Y \subseteq X /\ X \subseteq DOMAIN b.verts
  BY <1>4 DEF Ext
<1>8. Inverters(d, f, Y)
  <2>1. \A n \in Nets(f) : NotName(n) \notin {}
    OBVIOUS
  <2> QED BY <1>2, <1>4, <1>7, <2>1, InvertersNew
<1>9. Sources(d, s) = Sources(c, s)
  BY <1>5, SourcesStay
<1>10. Three(d, Y, s, u1[2], u2[2], u3[2])
  <2>1. Stands(b, X, u1[2], s.args[1]) /\ Stands(b, X, u2[2], s.args[2]) /\ Stands(b, X, u3[2], s.args[3])
    BY <1>1, <1>2 DEF ForArg
  <2> QED BY <1>2, <1>7, <2>1, StandsStays DEF Three
<1>11. /\ Elected(d, Y, s, v[2])
       /\ \A k \in {ab, ac, bc, or1, v[2]} : Depends(d, Y, k, Sources(d, s))
  <2>1. Whole(d)
    BY <1>2 DEF Ext
  <2>2. PICK p, x1, x2, x3 : p = v[2] /\ x1 = u1[2] /\ x2 = u2[2] /\ x3 = u3[2]
    OBVIOUS
  <2>3. Poll(d, Y, ab, ac, bc, or1, p, x1, x2, x3) /\ Three(d, Y, s, x1, x2, x3)
    BY <1>3, <1>10, <2>2
  <2>4. Elected(d, Y, s, p) /\ \A k \in {ab, ac, bc, or1, p} : Depends(d, Y, k, Sources(d, s))
    BY <2>1, <2>3, PollElects
  <2> QED BY <2>2, <2>4
<1>12. ASSUME NEW k \in DOMAIN d.verts \ DOMAIN c.verts PROVE Depends(d, Y, k, Sources(d, s))
  <2>1. CASE k \in DOMAIN b.verts
    <3>1. Depends(b, X, k, Sources(c, s))
      BY <1>4, <2>1 DEF Sprung
    <3>2. Depends(d, Y, k, Sources(c, s))
      BY <1>2, <1>7, <3>1, DependsStays
    <3> QED BY <1>9, <3>2
  <2>2. CASE k \notin DOMAIN b.verts
    BY <1>3, <1>11, <2>2
  <2> QED BY <2>1, <2>2
<1> QED BY <1>5, <1>6, <1>8, <1>11, <1>12 DEF Done, Elected

\* A majority whose net is declared as a wire.
LEMMA MajorityOnWire ==
    ASSUME NEW c, NEW f, Promising(f), NEW P, P \subseteq f.assigns, NEW s \in P, s.op = "Maj",
           NEW X, Reads(c, f, P, X), Apt(c, f, P, s), s.lhs \in DOMAIN c.names,
           NEW survives, NEW d, d = Majority(c, s, survives), d.status = "ok"
    PROVE  \E Y : Reads(d, f, P \ {s}, Y)
<1>0. PICK one, two, b, v : /\ one = RightHS(c, s.args[1]) /\ two = RightHS(one, s.args[2])
                            /\ b = RightHS(two, s.args[3]) /\ v = c.names[s.lhs]
  OBVIOUS
<1>1. /\ s.args \in Seq([net : STRING, not : BOOLEAN]) /\ Len(s.args) = 3
      /\ Operand(c, f, s, 1) /\ Operand(c, f, s, 2) /\ Operand(c, f, s, 3)
      /\ \A i \in DOMAIN s.args : Live(c, s.args[i].net)
  BY MajorityArgs
<1>2. d = After(b, MajorityAsLogic(b, <<one.at, two.at, b.at>>, v, survives))
  BY <1>0 DEF Majority
<1>3. b.status = "ok" /\ d = MajorityAsLogic(b, <<one.at, two.at, b.at>>, v, survives)
  BY <1>2 DEF After
<1>4. Whole(c) /\ X \subseteq DOMAIN c.verts /\ Inverters(c, f, X)
  BY DEF Reads
<1>5. Polled(c, b, f, X, s, one.at, two.at, b.at)
  BY <1>0, <1>1, <1>3, <1>4, VotersLead
<1>6. Ext(c, b, {}, Inversions(s)) /\ Whole(b)
  BY <1>5 DEF Polled, Asked, Leads, Ext
<1>7. ~Freed(c, v)
  <2>1. ASSUME Freed(b, v) PROVE FALSE
    <3>1. d = Ended(b, "undefined")
      BY <1>3, <2>1 DEF MajorityAsLogic, After
    <3>2. Shaped(b)
      BY <1>6 DEF Whole
    <3> QED BY <3>1, <3>2 DEF Ended, Shaped
  <2>2. b.graph = c.graph /\ b.kept = c.kept
    BY <1>6 DEF Ext
  <2> QED BY <2>1, <2>2 DEF Freed
<1>8. Live(c, s.lhs) /\ Pl(c, s.lhs) = v[2] /\ Inside(c, v)
  BY <1>0, <1>4, <1>7 DEF Whole, Live, Pl
<1>9. Waits(c, f, X, s.lhs)
  <2>1. s.lhs \in Lhs(P)
    BY DEF Lhs
  <2> QED BY <1>8, <2>1 DEF Reads
<1>10. /\ v[2] \in X /\ c.verts[v[2]].type = "gate" /\ c.verts[v[2]].gate = "Default" /\ c.verts[v[2]].ins = <<>>
       /\ v[2] \in DOMAIN c.verts
  <2>1. s.lhs \notin f.outputs
    <3>1. s \in f.assigns /\ s.op \in ValueOps \cup {"Maj"}
      OBVIOUS
    <3> QED BY <3>1 DEF Promising, OutputsByGates
  <2>2. v[2] \in X /\ c.verts[v[2]].type = "gate" /\ c.verts[v[2]].gate = "Default"
    BY <1>8, <1>9, <2>1 DEF Waits
  <2> QED BY <1>4, <2>2 DEF Reads
<1>11. PICK Y : Y = X \ {v[2]}
  OBVIOUS
<1>12. Voted(b, d, Y, v, one.at, two.at, b.at)
  <2>1. Held(b, one.at) /\ Held(b, two.at) /\ Held(b, b.at)
    BY <1>5 DEF Polled, ForArg
  <2>2. /\ Inside(b, v) /\ b.verts[v[2]].type = "gate" /\ b.verts[v[2]].gate = "Default"
        /\ b.verts[v[2]].ins = <<>>
    <3>1. Inside(b, v)
      BY <1>6, <1>8, LiveStays
    <3> QED BY <1>6, <1>10, <3>1 DEF Ext
  <2>3. Y \subseteq DOMAIN b.verts /\ v[2] \notin Y
    BY <1>4, <1>6, <1>11 DEF Ext
  <2> QED BY <1>3, <1>6, <2>1, <2>2, <2>3, LogicVotes
<1>13. Done(c, d, f, X, s, Y)
  <2>1. MajorityDone(c, b, d, f, X, Y, s, v, one.at, two.at, b.at)
    BY <1>5, <1>12 DEF MajorityDone
  <2> QED BY <1>0, <1>1, <1>4, <1>8, <1>10, <1>11, <2>1, VoteDone
<1> QED BY <1>13, StatementKeeps

-----------------------------------------------------------------------------
(* A majority of a net that is not declared: a graph of its own.           *)

LEMMA ThreeAppended ==
    ASSUME NEW x, NEW y, NEW z
    PROVE  Append(<<x, y>>, z) = <<x, y, z>>
<1>0. PICK S : x \in S /\ y \in S /\ z \in S
  <2>1. x \in {x, y, z} /\ y \in {x, y, z} /\ z \in {x, y, z}
    OBVIOUS
  <2> QED BY <2>1
<1>1. PICK two : two = <<x, y>>
  OBVIOUS
<1>2. PICK l : l = Append(two, z)
  OBVIOUS
<1>3. PICK k : k = <<x, y, z>>
  OBVIOUS
<1>4. two \in Seq(S) /\ Len(two) = 2 /\ two[1] = x /\ two[2] = y
  BY <1>0, <1>1
<1>5. k \in Seq(S) /\ Len(k) = 3 /\ k[1] = x /\ k[2] = y /\ k[3] = z
  BY <1>0, <1>3
<1>6. l \in Seq(S) /\ Len(l) = 3 /\ l[1] = x /\ l[2] = y /\ l[3] = z
  <2>1. l \in Seq(S) /\ Len(l) = Len(two) + 1 /\ l[Len(two) + 1] = z /\ \A i \in 1..Len(two) : l[i] = two[i]
    <3>1. two \in Seq(S) /\ z \in S
      BY <1>0, <1>4
    <3>2. /\ Append(two, z) \in Seq(S) /\ Len(Append(two, z)) = Len(two) + 1
          /\ Append(two, z)[Len(two) + 1] = z
          /\ \A i \in 1..Len(two) : Append(two, z)[i] = two[i]
      BY <3>1, Appended
    <3> QED BY <1>2, <3>2
  <2> QED BY <1>4, <2>1
<1>7. l = k
  BY <1>5, <1>6
<1> QED BY <1>1, <1>2, <1>3, <1>7

\* A vertex without drivers gets three.
Tripled(c, d, v, u1, u2, u3) ==
    /\ Ext(c, d, {v[2]}, {}) /\ DOMAIN d.verts = DOMAIN c.verts
    /\ d.verts[v[2]].gate = c.verts[v[2]].gate
    /\ Wired(d, v[2], <<u1[2], u2[2], u3[2]>>)
    /\ Inside(c, u1) /\ Inside(c, u2) /\ Inside(c, u3)

LEMMA ThreeEdges ==
    ASSUME NEW c, Whole(c), NEW v, Inside(c, v), c.verts[v[2]].ins = <<>>,
           NEW u1, Held(c, u1), NEW u2, Held(c, u2), NEW u3, Held(c, u3),
           NEW one, one = AddEdge(c, u1, v), NEW two, two = AddEdge(one, u2, v),
           NEW d, d = AddEdge(two, u3, v), d.status = "ok"
    PROVE  Tripled(c, d, v, u1, u2, u3)
<1>1. two.status = "ok" /\ one.status = "ok"
  <2>1. two.status = "ok"
    BY EdgeOk
  <2> QED BY <2>1, EdgeOk
<1>2. Doubled(c, two, v, u1, u2)
  BY <1>1, TwoEdges
<1>3. /\ Ext(c, two, {v[2]}, {}) /\ DOMAIN two.verts = DOMAIN c.verts
      /\ two.verts[v[2]].gate = c.verts[v[2]].gate /\ Wired(two, v[2], <<u1[2], u2[2]>>) /\ Whole(two)
  BY <1>2 DEF Doubled, Ext
<1>4. Held(two, u3) /\ Held(two, v)
  <2>1. Held(c, v)
    BY DEF Held
  <2> QED BY <1>3, <2>1, HeldStays
<1>5. Edged(two, d, u3, v)
  BY <1>3, <1>4, EdgeEffect
<1>6. Wired(d, v[2], Append(<<u1[2], u2[2]>>, u3[2]))
  <2>1. PICK l : l = <<u1[2], u2[2]>>
    OBVIOUS
  <2>2. Wired(two, v[2], l)
    BY <1>3, <2>1
  <2>3. Wired(d, v[2], Append(l, u3[2]))
    BY <1>3, <1>4, <2>2, WiredEdge
  <2> QED BY <2>1, <2>3
<1>7. /\ Ext(two, d, {v[2]}, {}) /\ DOMAIN d.verts = DOMAIN two.verts
      /\ d.verts[v[2]].gate = two.verts[v[2]].gate /\ Inside(two, u3)
  BY <1>5 DEF Edged
<1>8. Ext(c, d, {v[2]}, {})
  <2>1. {v[2]} \subseteq {v[2]} /\ {v[2]} \cap DOMAIN c.verts \subseteq {v[2]} /\ {} \cup {} \subseteq {}
    OBVIOUS
  <2> QED BY <1>3, <1>7, <2>1, ExtTwice
<1>9. Wired(d, v[2], <<u1[2], u2[2], u3[2]>>)
  BY <1>6, ThreeAppended
<1>10. Inside(c, u1) /\ Inside(c, u2) /\ Inside(c, u3)
  <2>1. Edged(c, one, u1, v)
    <3>1. Held(c, v)
      BY DEF Held
    <3> QED BY <1>1, <3>1, EdgeEffect
  <2>2. Inside(c, u1) /\ Ext(c, one, {v[2]}, {}) /\ Whole(one)
    BY <2>1 DEF Edged, Ext
  <2>3. Held(one, u2) /\ Held(one, v)
    <3>1. Held(c, v)
      BY DEF Held
    <3> QED BY <2>2, <3>1, HeldStays
  <2>4. Edged(one, two, u2, v)
    BY <1>1, <2>2, <2>3, EdgeEffect
  <2>5. Inside(one, u2)
    BY <2>4 DEF Edged
  <2>6. Inside(c, u2)
    BY <2>2, <2>5, HeldStays
  <2>7. Inside(c, u3)
    BY <1>3, <1>7, HeldStays
  <2> QED BY <2>2, <2>6, <2>7
<1> QED BY <1>3, <1>7, <1>8, <1>9, <1>10 DEF Tripled

\* The graph m of three vertices and the buffer q behind it.
Merged(c, d, m, q, u1, u2, u3) ==
    /\ Ext(c, d, {}, {})
    /\ Inside(c, u1) /\ Inside(c, u2) /\ Inside(c, u3)
    /\ DOMAIN d.verts = DOMAIN c.verts \cup {m, q} /\ m \notin DOMAIN c.verts /\ q \notin DOMAIN c.verts
    /\ Inside(d, d.at) /\ d.at[2] = q
    /\ d.verts[m].type = "subGraph" /\ d.verts[m].gate = "" /\ Wired(d, m, <<u1[2], u2[2], u3[2]>>)
    /\ d.verts[q].type = "gate" /\ d.verts[q].gate = "Buf" /\ d.verts[q].ins = <<m>>

LEMMA MergeMakes ==
    ASSUME NEW c, Whole(c), NEW u1, Held(c, u1), NEW u2, Held(c, u2), NEW u3, Held(c, u3),
           NEW d, d = GenerateMajority(c, <<u1, u2, u3>>), d.status = "ok"
    PROVE  \E m, q : Merged(c, d, m, q, u1, u2, u3)
<1>1. PICK g, v, one, two, w, b, y :
        /\ g = New(c, "subGraph", "", "Majority3") /\ v = g.at
        /\ one = AddEdge(g, u1, v) /\ two = AddEdge(one, u2, v) /\ w = AddEdge(two, u3, v)
        /\ b = New(w, "gate", "Buf", "") /\ y = b.at
  OBVIOUS
<1>2. d = AddEdge(b, v, y)
  <2>1. <<u1, u2, u3>>[1] = u1 /\ <<u1, u2, u3>>[2] = u2 /\ <<u1, u2, u3>>[3] = u3
    OBVIOUS
  <2> QED BY <1>1, <2>1 DEF GenerateMajority
<1>3. b.status = "ok" /\ w.status = "ok"
  <2>1. b.status = "ok"
    BY <1>2, EdgeOk
  <2>2. ASSUME w.status # "ok" PROVE FALSE
    <3>1. New(w, "gate", "Buf", "") = w
      BY <2>2, NewOk
    <3> QED BY <1>1, <2>1, <2>2, <3>1
  <2> QED BY <2>1, <2>2
<1>4. Sprouted(c, g, "subGraph", "", "Majority3")
  <2>1. "subGraph" \in Types /\ "subGraph" # "output" /\ "" \in Gates /\ "Majority3" \in Names
    BY DEF Types, Gates, Names
  <2> QED BY <1>1, <2>1, NewEffect
<1>5. /\ Ext(c, g, {}, {}) /\ Inside(g, v) /\ DOMAIN g.verts = DOMAIN c.verts \cup {v[2]} /\ v[2] \notin DOMAIN c.verts
      /\ g.verts[v[2]] = Vertex("subGraph", "", "Majority3") /\ Whole(g)
  BY <1>1, <1>4 DEF Sprouted, Ext
<1>6. g.verts[v[2]].type = "subGraph" /\ g.verts[v[2]].gate = "" /\ g.verts[v[2]].ins = <<>>
  <2>1. PICK x : x = Vertex("subGraph", "", "Majority3")
    OBVIOUS
  <2>2. x.type = "subGraph" /\ x.gate = "" /\ x.ins = <<>>
    BY <2>1 DEF Vertex
  <2> QED BY <1>5, <2>1, <2>2
<1>7. Held(g, u1) /\ Held(g, u2) /\ Held(g, u3)
  BY <1>5, HeldStays
<1>8. Tripled(g, w, v, u1, u2, u3)
  BY <1>1, <1>3, <1>5, <1>6, <1>7, ThreeEdges
<1>9. /\ Ext(g, w, {v[2]}, {}) /\ DOMAIN w.verts = DOMAIN g.verts /\ w.verts[v[2]].gate = g.verts[v[2]].gate
      /\ Wired(w, v[2], <<u1[2], u2[2], u3[2]>>) /\ Whole(w)
      /\ Inside(g, u1) /\ Inside(g, u2) /\ Inside(g, u3)
  BY <1>8 DEF Tripled, Ext
<1>10. Sprouted(w, b, "gate", "Buf", "")
  <2>1. "gate" \in Types /\ "gate" # "output" /\ "Buf" \in Gates /\ "" \in Names
    BY DEF Types, Gates, Names
  <2> QED BY <1>1, <1>3, <1>9, <2>1, NewEffect
<1>11. /\ Ext(w, b, {}, {}) /\ Inside(b, y) /\ DOMAIN b.verts = DOMAIN w.verts \cup {y[2]} /\ y[2] \notin DOMAIN w.verts
       /\ b.verts[y[2]] = Vertex("gate", "Buf", "") /\ Whole(b)
  <2>1. /\ Ext(w, b, {}, {}) /\ Inside(b, b.at) /\ DOMAIN b.verts = DOMAIN w.verts \cup {b.at[2]}
        /\ b.at[2] \notin DOMAIN w.verts /\ b.verts[b.at[2]] = Vertex("gate", "Buf", "")
    BY <1>10 DEF Sprouted
  <2>2. Whole(b)
    BY <2>1 DEF Ext
  <2>3. y = b.at
    BY <1>1
  <2> QED BY <2>1, <2>2, <2>3
<1>12. b.verts[y[2]].type = "gate" /\ b.verts[y[2]].gate = "Buf" /\ b.verts[y[2]].ins = <<>>
  <2>1. PICK x : x = Vertex("gate", "Buf", "")
    OBVIOUS
  <2>2. x.type = "gate" /\ x.gate = "Buf" /\ x.ins = <<>>
    BY <2>1 DEF Vertex
  <2> QED BY <1>11, <2>1, <2>2
<1>13. Held(b, v) /\ Held(b, y)
  <2>1. Inside(w, v)
    BY <1>5, <1>9, LiveStays
  <2>2. Inside(b, v)
    BY <1>11, <2>1, LiveStays
  <2> QED BY <1>11, <2>2 DEF Held
<1>14. Edged(b, d, v, y)
  BY <1>2, <1>11, <1>13, EdgeEffect
<1>15. /\ Ext(b, d, {y[2]}, {}) /\ DOMAIN d.verts = DOMAIN b.verts /\ d.at = b.at
       /\ d.verts[y[2]].gate = b.verts[y[2]].gate
       /\ d.verts[y[2]].ins = Append(b.verts[y[2]].ins, v[2]) \/ v[2] \in Range(b.verts[y[2]].ins)
  BY <1>14 DEF Edged
<1>16. d.verts[y[2]].ins = <<v[2]>>
  <2>1. Range(<<>>) = {} /\ Append(<<>>, v[2]) = <<v[2]>>
    BY DEF Range
  <2> QED BY <1>12, <1>15, <2>1
<1>17. y[2] \notin DOMAIN c.verts /\ y[2] # v[2] /\ DOMAIN d.verts = DOMAIN c.verts \cup {v[2], y[2]}
  BY <1>5, <1>9, <1>11, <1>15
<1>18. Ext(c, d, {}, {})
  <2>1. {} \cup {} \subseteq {} /\ {} \subseteq {} /\ {v[2]} \cap DOMAIN c.verts \subseteq {}
        /\ {} \cap DOMAIN c.verts \subseteq {} /\ {y[2]} \cap DOMAIN c.verts \subseteq {}
    BY <1>5, <1>17
  <2>2. Ext(c, w, {}, {})
    <3>1. Ext(c, g, {}, {}) /\ Ext(g, w, {v[2]}, {})
      BY <1>5, <1>9
    <3> QED BY <2>1, <3>1, ExtTwice
  <2>3. Ext(c, b, {}, {})
    BY <1>11, <2>1, <2>2, ExtTwice
  <2> QED BY <1>15, <2>1, <2>3, ExtTwice
<1>19. Inside(d, d.at) /\ d.at = y
  <2>1. d.at = y
    BY <1>1, <1>15
  <2>2. Inside(d, y)
    BY <1>11, <1>15, LiveStays
  <2> QED BY <2>1, <2>2
<1>20. d.verts[y[2]].type = "gate" /\ d.verts[y[2]].gate = "Buf"
  <2>1. y[2] \in DOMAIN b.verts
    BY <1>11
  <2>2. d.verts[y[2]].type = b.verts[y[2]].type
    BY <1>15, <2>1 DEF Ext
  <2> QED BY <1>12, <1>15, <2>2
<1>21. d.verts[v[2]].type = "subGraph" /\ d.verts[v[2]].gate = "" /\ Wired(d, v[2], <<u1[2], u2[2], u3[2]>>)
  <2>1. v[2] \in DOMAIN g.verts /\ v[2] \in DOMAIN w.verts /\ v[2] \in DOMAIN b.verts /\ v[2] \notin {y[2]} /\ v[2] \notin {}
    BY <1>5, <1>9, <1>11, <1>17
  <2>2. w.verts[v[2]].type = "subGraph" /\ w.verts[v[2]].gate = ""
    <3>1. w.verts[v[2]].type = g.verts[v[2]].type
      BY <1>9, <2>1 DEF Ext
    <3> QED BY <1>6, <1>9, <3>1
  <2>3. b.verts[v[2]].type = "subGraph" /\ b.verts[v[2]].gate = ""
    <3>1. b.verts[v[2]].type = w.verts[v[2]].type /\ b.verts[v[2]].gate = w.verts[v[2]].gate
      BY <1>11, <2>1 DEF Ext
    <3> QED BY <2>2, <3>1
  <2>4. d.verts[v[2]].type = "subGraph" /\ d.verts[v[2]].gate = ""
    <3>1. d.verts[v[2]].type = b.verts[v[2]].type /\ d.verts[v[2]].gate = b.verts[v[2]].gate
      BY <1>15, <2>1 DEF Ext
    <3> QED BY <2>3, <3>1
  <2>5. PICK l : l = <<u1[2], u2[2], u3[2]>>
    OBVIOUS
  <2>6. Wired(w, v[2], l)
    BY <1>9, <2>5
  <2>7. Wired(b, v[2], l)
    <3>1. Ext(w, b, {}, {})
      BY <1>11
    <3> QED BY <2>1, <2>6, <3>1, WiredStays
  <2>8. Wired(d, v[2], l)
    <3>1. Ext(b, d, {y[2]}, {})
      BY <1>15
    <3> QED BY <2>1, <2>7, <3>1, WiredStays
  <2> QED BY <2>4, <2>5, <2>8
<1>22. Inside(c, u1) /\ Inside(c, u2) /\ Inside(c, u3)
  <2>1. ASSUME NEW u, Held(c, u), Inside(g, u) PROVE Inside(c, u)
    BY <1>5, <2>1, HeldStays
  <2> QED BY <1>9, <2>1
<1> QED BY <1>5, <1>16, <1>17, <1>18, <1>19, <1>20, <1>21, <1>22 DEF Merged

LEMMA VoteSays ==
    ASSUME NEW a \in Bits, NEW b \in Bits, NEW c \in Bits
    PROVE  Vote(a, b, c) = Says("Maj", <<a, b, c>>)
<1>1. Says("Maj", <<a, b, c>>) = Bit(\/ a = "1" /\ b = "1"
                                     \/ a = "1" /\ c = "1"
                                     \/ b = "1" /\ c = "1")
  <2> DEFINE l == <<a, b, c>>
  <2>1. l \in Seq(Bits) /\ Len(l) = 3 /\ Len(l) \in 1..3 /\ l[1] = a /\ l[2] = b /\ l[3] = c
    OBVIOUS
  <2>2. Says("Maj", l) = Bit(\/ l[1] = "1" /\ l[2] = "1"
                             \/ l[1] = "1" /\ l[3] = "1"
                             \/ l[2] = "1" /\ l[3] = "1")
    <3> HIDE DEF l
    <3> QED BY <2>1, SaysFacts
  <2> QED BY <2>1, <2>2
<1>2. ASSUME NEW x \in Bits, NEW y \in Bits
      PROVE  Both(x, y) = Bit(x = "1" /\ y = "1") /\ Table("Or", x, y) = Bit(x = "1" \/ y = "1")
  BY DEF Both, Table, Bit, Bits, Invert
<1>3. \A p : Bit(p) \in Bits
  BY DEF Bit, Bits
<1>4. PICK x, y, z, w : /\ x = Both(a, b) /\ y = Both(a, c) /\ z = Both(b, c) /\ w = Table("Or", x, y)
  OBVIOUS
<1>5. /\ x = Bit(a = "1" /\ b = "1") /\ y = Bit(a = "1" /\ c = "1") /\ z = Bit(b = "1" /\ c = "1")
      /\ x \in Bits /\ y \in Bits /\ z \in Bits
  BY <1>2, <1>3, <1>4
<1>6. w = Bit(x = "1" \/ y = "1") /\ w \in Bits
  <2>1. x \in Bits /\ y \in Bits
    BY <1>5
  <2>2. w = Table("Or", x, y)
    BY <1>4
  <2> QED BY <1>2, <1>3, <2>1, <2>2
<1>7. Table("Or", w, z) = Bit(w = "1" \/ z = "1")
  BY <1>2, <1>5, <1>6
<1>8. Vote(a, b, c) = Table("Or", w, z)
  BY <1>4 DEF Vote
<1> QED BY <1>1, <1>5, <1>6, <1>7, <1>8 DEF Bit

\* The drivers of m are these.
Drivers(d, m, x1, x2, x3) == d.verts[m].ins = <<x1, x2, x3>>

LEMMA SubGraphValue ==
    ASSUME NEW d, NEW Y, NEW env, NEW val, Fits(d, Y, env, val),
           NEW m \in DOMAIN d.verts, m \notin Y, d.verts[m].type = "subGraph",
           NEW x1, NEW x2, NEW x3, Drivers(d, m, x1, x2, x3)
    PROVE  val[m] = Vote(val[x1], val[x2], val[x3])
<1>1. PICK in : in = At(val, d.verts[m].ins)
  OBVIOUS
<1>2. val[m] = Value(d.verts[m], env, in)
  BY <1>1 DEF Fits
<1>3. in = <<val[x1], val[x2], val[x3]>>
  BY <1>1 DEF At, Drivers
<1>4. Len(in) = 3 /\ in[1] = val[x1] /\ in[2] = val[x2] /\ in[3] = val[x3]
  BY <1>3
<1>5. PICK u : u = d.verts[m]
  OBVIOUS
<1>6. u.type = "subGraph"
  BY <1>5
<1>7. Value(u, env, in) = Vote(in[1], in[2], in[3])
  BY <1>4, <1>6 DEF Value
<1> QED BY <1>2, <1>4, <1>5, <1>7

LEMMA RangeOfOne ==
    ASSUME NEW x
    PROVE  Range(<<x>>) = {x}
BY DEF Range

LEMMA RangeOfThree ==
    ASSUME NEW x, NEW y, NEW z
    PROVE  Range(<<x, y, z>>) = {x, y, z}
<1>1. PICK l : l = <<x, y, z>>
  OBVIOUS
<1>2. DOMAIN l = 1..3 /\ l[1] = x /\ l[2] = y /\ l[3] = z
  BY <1>1
<1>3. Range(l) = {x, y, z}
  <2>1. Range(l) = {l[i] : i \in 1..3}
    BY <1>2 DEF Range
  <2>2. 1..3 = {1, 2, 3}
    OBVIOUS
  <2> QED BY <1>2, <2>1, <2>2
<1> QED BY <1>1, <1>3

\* q is a buffer of m.
BufOf(d, Y, q, m) ==
    /\ q \in DOMAIN d.verts /\ q \notin Y
    /\ d.verts[q].type = "gate" /\ d.verts[q].gate = "Buf" /\ d.verts[q].ins = <<m>>

\* It has its value.
Copies(d, Y, q, m) ==
    /\ \A env, val : Fits(d, Y, env, val) /\ val[m] \in Bits => val[q] = val[m]
    /\ Depends(d, Y, q, {m})

LEMMA BufCopies ==
    ASSUME NEW d, Whole(d), NEW Y, NEW q, NEW m, BufOf(d, Y, q, m)
    PROVE  Copies(d, Y, q, m)
<1>1. /\ q \in DOMAIN d.verts /\ q \notin Y
      /\ d.verts[q].type = "gate" /\ d.verts[q].gate = "Buf" /\ d.verts[q].ins = <<m>>
  BY DEF BufOf
<1>2. Range(d.verts[q].ins) \subseteq {m}
  <2>1. PICK l : l = <<m>> /\ d.verts[q].ins = l
    BY <1>1
  <2>2. Range(l) = {m}
    BY <2>1, RangeOfOne
  <2> QED BY <2>1, <2>2
<1>3. Depends(d, Y, q, {m})
  BY <1>1, <1>2, DependsOnDrivers
<1>4. ASSUME NEW env, NEW val, Fits(d, Y, env, val), val[m] \in Bits PROVE val[q] = val[m]
  <2>1. val[q] = Single(d.verts[q].gate, val[m])
    BY <1>1, <1>4, SingleValue
  <2>2. Single("Buf", val[m]) = val[m]
    BY <1>4 DEF Single, Invert, Bits
  <2> QED BY <1>1, <2>1, <2>2
<1> QED BY <1>3, <1>4 DEF Copies

\* m is the graph of a majority.
SubOf(d, Y, m, x1, x2, x3) ==
    /\ m \notin Y
    /\ d.verts[m].type = "subGraph" /\ d.verts[m].gate = ""
    /\ Wired(d, m, <<x1, x2, x3>>)

\* It has the majority of its drivers.
Counts(d, Y, m, x1, x2, x3) ==
    /\ \A env, val :
         /\ Fits(d, Y, env, val) /\ d.lost \subseteq {"And", "Or"}
         /\ val[x1] \in Bits /\ val[x2] \in Bits /\ val[x3] \in Bits
         => val[m] = Says("Maj", <<val[x1], val[x2], val[x3]>>)
    /\ Depends(d, Y, m, {x1, x2, x3})

LEMMA SubCounts ==
    ASSUME NEW d, Whole(d), NEW Y, NEW m, NEW x1, NEW x2, NEW x3, SubOf(d, Y, m, x1, x2, x3)
    PROVE  Counts(d, Y, m, x1, x2, x3)
<1>1. PICK ops : ops = <<x1, x2, x3>>
  OBVIOUS
<1>2. /\ m \notin Y /\ d.verts[m].type = "subGraph" /\ d.verts[m].gate = "" /\ Wired(d, m, ops)
  BY <1>1 DEF SubOf
<1>3. Range(ops) = {x1, x2, x3}
  BY <1>1, RangeOfThree
<1>4. Range(d.verts[m].ins) = Range(ops) /\ m \in DOMAIN d.verts
  BY <1>2, WiredFacts
<1>5. Depends(d, Y, m, {x1, x2, x3})
  BY <1>2, <1>3, <1>4, DependsOnDrivers
<1>6. ASSUME NEW env, NEW val, Fits(d, Y, env, val), d.lost \subseteq {"And", "Or"},
             val[x1] \in Bits, val[x2] \in Bits, val[x3] \in Bits
      PROVE  val[m] = Says("Maj", <<val[x1], val[x2], val[x3]>>)
  <2>1. Drivers(d, m, x1, x2, x3)
    <3>1. d.verts[m].gate \notin d.lost
      BY <1>2, <1>6
    <3> QED BY <1>1, <1>2, <3>1 DEF Wired, Drivers
  <2>2. val[m] = Vote(val[x1], val[x2], val[x3])
    <3>1. m \in DOMAIN d.verts /\ m \notin Y /\ d.verts[m].type = "subGraph"
      BY <1>2, <1>4
    <3>2. Fits(d, Y, env, val)
      BY <1>6
    <3> QED BY <2>1, <3>1, <3>2, SubGraphValue
  <2> QED BY <1>6, <2>2, VoteSays
<1> QED BY <1>5, <1>6 DEF Counts

LEMMA MergedElects ==
    ASSUME NEW d, NEW Y, NEW s, s.op = "Maj", NEW S, s.args \in Seq(S), Len(s.args) = 3,
           NEW x1, NEW x2, NEW x3, Three(d, Y, s, x1, x2, x3),
           NEW m, Counts(d, Y, m, x1, x2, x3), NEW q, Copies(d, Y, q, m)
    PROVE  Elected(d, Y, s, q) /\ Depends(d, Y, m, Sources(d, s))
<1>1. Depends(d, Y, m, Sources(d, s))
  <2>1. Depends(d, Y, m, {x1, x2, x3})
    BY DEF Counts
  <2>2. \A x \in {x1, x2, x3} : Depends(d, Y, x, Sources(d, s))
    BY ThreeDepends
  <2> QED BY <2>1, <2>2, DependsTwice
<1>2. Depends(d, Y, q, Sources(d, s))
  <2>1. Depends(d, Y, q, {m})
    BY DEF Copies
  <2> QED BY <1>1, <2>1, DependsTwice
<1>3. Computes(d, Y, q, s)
  <2> SUFFICES ASSUME NEW env, NEW val, Fits(d, Y, env, val), d.lost \subseteq {"And", "Or"},
                      \A i \in DOMAIN s.args : val[Pl(d, s.args[i].net)] \in Bits
               PROVE  val[q] = Says("Maj", Lits(d, val, s))
    BY DEF Computes, ValueOps
  <2>1. /\ Lits(d, val, s) = <<val[x1], val[x2], val[x3]>>
        /\ val[x1] \in Bits /\ val[x2] \in Bits /\ val[x3] \in Bits
    BY ThreeValues
  <2>2. val[m] = Says("Maj", <<val[x1], val[x2], val[x3]>>)
    BY <2>1 DEF Counts
  <2>3. val[m] \in Bits
    <3>1. \A l : Says("Maj", l) \in Bits
      BY DEF Says, Bit, Bits
    <3> QED BY <2>2, <3>1
  <2>4. val[q] = val[m]
    BY <2>3 DEF Copies
  <2> QED BY <2>1, <2>2, <2>4
<1> QED BY <1>1, <1>2, <1>3 DEF Elected

\* The majority of three operands of s, and its name.
NewMajority(c, b, e, d, f, X, s, m, q, u1, u2, u3) ==
    /\ Polled(c, b, f, X, s, u1, u2, u3)
    /\ Merged(b, e, m, q, u1, u2, u3)
    /\ Named(e, d, s.lhs)

LEMMA MergeDone ==
    ASSUME NEW c, NEW f, Promising(f), NEW X, X \subseteq DOMAIN c.verts, NEW s, s.op = "Maj",
           s.lhs \in Nets(f),
           NEW S, s.args \in Seq(S), Len(s.args) = 3, \A i \in DOMAIN s.args : Live(c, s.args[i].net),
           NEW b, NEW e, NEW d, NEW m, NEW q, NEW u1, NEW u2, NEW u3,
           NewMajority(c, b, e, d, f, X, s, m, q, u1, u2, u3)
    PROVE  Done(c, d, f, X, s, X)
<1>1. /\ Leads(c, b, f, X, {}, Sources(c, s), Inversions(s))
      /\ ForArg(b, X, u1, s.args[1]) /\ ForArg(b, X, u2, s.args[2]) /\ ForArg(b, X, u3, s.args[3])
  BY DEF NewMajority, Polled, Asked
<1>2. /\ Ext(b, e, {}, {})
      /\ Inside(b, u1) /\ Inside(b, u2) /\ Inside(b, u3)
      /\ DOMAIN e.verts = DOMAIN b.verts \cup {m, q} /\ m \notin DOMAIN b.verts /\ q \notin DOMAIN b.verts
      /\ Inside(e, e.at) /\ e.at[2] = q
  BY DEF NewMajority, Merged
<1>3. Ext(e, d, {}, {s.lhs}) /\ d.verts = e.verts /\ d.lost = e.lost /\ d.names[s.lhs] = e.at /\ Live(d, s.lhs)
  BY DEF NewMajority, Named
<1>4. Ext(c, b, {}, Inversions(s)) /\ Inverters(b, f, X) /\ Sprung(c, b, X, Sources(c, s))
  BY <1>1 DEF Leads
<1>5. Ext(b, d, {}, {s.lhs})
  <2>1. {} \subseteq {} /\ {} \cap DOMAIN b.verts \subseteq {} /\ {} \cup {s.lhs} \subseteq {s.lhs}
    OBVIOUS
  <2> QED BY <1>2, <1>3, <2>1, ExtTwice
<1>6. Ext(c, d, {}, Made(s))
  <2>1. {} \subseteq {} /\ {} \cap DOMAIN c.verts \subseteq {} /\ Inversions(s) \cup {s.lhs} \subseteq Made(s)
    BY DEF Inversions, Made
  <2> QED BY <1>4, <1>5, <2>1, ExtTwice
<1>7. Pl(d, s.lhs) = q
  BY <1>2, <1>3 DEF Pl
<1>8. DOMAIN c.verts \subseteq DOMAIN b.verts /\ q \notin X /\ m \notin X /\ X \subseteq DOMAIN b.verts
  <2>1. DOMAIN c.verts \subseteq DOMAIN b.verts
    BY <1>4 DEF Ext
  <2> QED BY <1>2, <2>1
<1>9. {} \subseteq X /\ X \cap DOMAIN b.verts \subseteq X
  OBVIOUS
<1>10. Inverters(d, f, X)
  <2>1. \A n \in Nets(f) : NotName(n) \notin {s.lhs}
    BY NetFacts
  <2> QED BY <1>4, <1>5, <1>9, <2>1, InvertersNew
<1>11. Sources(d, s) = Sources(c, s)
  BY <1>6, SourcesStay
<1>12. Three(d, X, s, u1[2], u2[2], u3[2])
  <2>1. Stands(b, X, u1[2], s.args[1]) /\ Stands(b, X, u2[2], s.args[2]) /\ Stands(b, X, u3[2], s.args[3])
    BY <1>1, <1>2 DEF ForArg
  <2> QED BY <1>5, <1>9, <2>1, StandsStays DEF Three
<1>13. Elected(d, X, s, q) /\ Depends(d, X, m, Sources(d, s))
  <2>1. PICK x1, x2, x3 : x1 = u1[2] /\ x2 = u2[2] /\ x3 = u3[2]
    OBVIOUS
  <2>2. Whole(d)
    BY <1>3 DEF Ext
  <2>3. Counts(d, X, m, x1, x2, x3)
    <3>1. /\ e.verts[m].type = "subGraph" /\ e.verts[m].gate = "" /\ Wired(e, m, <<u1[2], u2[2], u3[2]>>)
      BY DEF NewMajority, Merged
    <3>2. PICK l : l = <<u1[2], u2[2], u3[2]>>
      OBVIOUS
    <3>3. Wired(d, m, l)
      <4>1. Wired(e, m, l)
        BY <3>1, <3>2
      <4>2. m \notin {}
        OBVIOUS
      <4> QED BY <1>3, <4>1, <4>2, WiredStays
    <3>4. SubOf(d, X, m, x1, x2, x3)
      BY <1>3, <1>8, <2>1, <3>1, <3>2, <3>3 DEF SubOf
    <3> QED BY <2>2, <3>4, SubCounts
  <2>4. Copies(d, X, q, m)
    <3>1. e.verts[q].type = "gate" /\ e.verts[q].gate = "Buf" /\ e.verts[q].ins = <<m>> /\ q \in DOMAIN e.verts
      BY DEF NewMajority, Merged
    <3>2. BufOf(d, X, q, m)
      BY <1>3, <1>8, <3>1 DEF BufOf
    <3> QED BY <2>2, <3>2, BufCopies
  <2>5. Three(d, X, s, x1, x2, x3)
    BY <1>12, <2>1
  <2> QED BY <2>3, <2>4, <2>5, MergedElects
<1>14. ASSUME NEW k \in DOMAIN d.verts \ DOMAIN c.verts PROVE Depends(d, X, k, Sources(d, s))
  <2>1. CASE k \in DOMAIN b.verts
    <3>1. Depends(b, X, k, Sources(c, s))
      BY <1>4, <2>1 DEF Sprung
    <3>2. Depends(d, X, k, Sources(c, s))
      BY <1>5, <1>9, <3>1, DependsStays
    <3> QED BY <1>11, <3>2
  <2>2. CASE k \notin DOMAIN b.verts
    <3>1. k = m \/ k = q
      BY <1>2, <1>3, <2>2
    <3> QED BY <1>13, <3>1 DEF Elected
  <2> QED BY <2>1, <2>2
<1>15. X = X \ {Pl(d, s.lhs)}
  BY <1>7, <1>8
<1>16. Pl(d, s.lhs) \notin DOMAIN c.verts
  BY <1>2, <1>7, <1>8
<1>17. Ext(c, d, {Pl(d, s.lhs)}, Made(s))
  BY <1>6, ExtMore
<1> QED BY <1>3, <1>7, <1>10, <1>13, <1>14, <1>15, <1>16, <1>17 DEF Done, Elected

\* A majority whose net is not declared.
LEMMA MajorityOnNet ==
    ASSUME NEW c, NEW f, Promising(f), NEW P, P \subseteq f.assigns, NEW s \in P, s.op = "Maj",
           NEW X, Reads(c, f, P, X), Apt(c, f, P, s), s.lhs \notin DOMAIN c.names,
           NEW survives, NEW d, d = Majority(c, s, survives), d.status = "ok"
    PROVE  \E Y : Reads(d, f, P \ {s}, Y)
<1>0. PICK one, two, b, e : /\ one = RightHS(c, s.args[1]) /\ two = RightHS(one, s.args[2])
                            /\ b = RightHS(two, s.args[3])
                            /\ e = GenerateMajority(b, <<one.at, two.at, b.at>>)
  OBVIOUS
<1>1. /\ s.args \in Seq([net : STRING, not : BOOLEAN]) /\ Len(s.args) = 3
      /\ Operand(c, f, s, 1) /\ Operand(c, f, s, 2) /\ Operand(c, f, s, 3)
      /\ \A i \in DOMAIN s.args : Live(c, s.args[i].net)
  BY MajorityArgs
<1>2. d = After(b, Bind(e, s.lhs))
  BY <1>0 DEF Majority
<1>3. b.status = "ok" /\ d = Bind(e, s.lhs)
  BY <1>2 DEF After
<1>4. e.status = "ok"
  BY <1>3 DEF Bind, After
<1>5. Whole(c) /\ X \subseteq DOMAIN c.verts /\ Inverters(c, f, X)
  BY DEF Reads
<1>6. Polled(c, b, f, X, s, one.at, two.at, b.at)
  BY <1>0, <1>1, <1>3, <1>5, VotersLead
<1>7. Ext(c, b, {}, Inversions(s)) /\ Whole(b)
  BY <1>6 DEF Polled, Asked, Leads, Ext
<1>8. PICK m, q : Merged(b, e, m, q, one.at, two.at, b.at)
  <2>1. Held(b, one.at) /\ Held(b, two.at) /\ Held(b, b.at)
    BY <1>6 DEF Polled, ForArg
  <2> QED BY <1>0, <1>4, <1>7, <2>1, MergeMakes
<1>9. Ext(b, e, {}, {}) /\ Whole(e) /\ Inside(e, e.at)
  BY <1>8 DEF Merged, Ext
<1>10. s.lhs \in Nets(f) /\ s.lhs \notin DOMAIN e.names
  <2>1. s.lhs \in Nets(f)
    BY NetFacts
  <2>2. s.lhs \notin Inversions(s)
    <3>1. \A i \in DOMAIN s.args : s.args[i].net \in Nets(f)
      BY ArgsFacts
    <3> QED BY <2>1, <3>1, NetFacts DEF Inversions
  <2>3. DOMAIN e.names \subseteq DOMAIN c.names \cup Inversions(s)
    <3>1. DOMAIN b.names \subseteq DOMAIN c.names \cup Inversions(s)
      BY <1>7 DEF Ext
    <3>2. DOMAIN e.names \subseteq DOMAIN b.names \cup {}
      BY <1>9 DEF Ext
    <3> QED BY <3>1, <3>2
  <2> QED BY <2>1, <2>2, <2>3
<1>11. Named(e, d, s.lhs)
  BY <1>3, <1>9, <1>10, BindEffect
<1>12. Done(c, d, f, X, s, X)
  <2>1. NewMajority(c, b, e, d, f, X, s, m, q, one.at, two.at, b.at)
    BY <1>6, <1>8, <1>11 DEF NewMajority
  <2> QED BY <1>1, <1>5, <1>10, <2>1, MergeDone
<1> QED BY <1>12, StatementKeeps

(* on_maj3.                                                                *)
LEMMA MajorityReads ==
    ASSUME NEW c, NEW f, Promising(f), NEW P, P \subseteq f.assigns, NEW s \in P, s.op = "Maj",
           NEW X, Reads(c, f, P, X), Apt(c, f, P, s),
           NEW survives, NEW d, d = Majority(c, s, survives), d.status = "ok"
    PROVE  \E Y : Reads(d, f, P \ {s}, Y)
BY MajorityOnWire, MajorityOnNet

-----------------------------------------------------------------------------
(* One assignment.                                                         *)

\* What the operands of s stand for will not change.
InTime(f, P, s) ==
    \A i \in DOMAIN s.args, t \in P :
      t.lhs = s.args[i].net => t.lhs \in f.wires \cup f.outputs /\ t.op \notin ValueOps

LEMMA InTimeApt ==
    ASSUME NEW c, NEW f, Promising(f), NEW P, P \subseteq f.assigns, NEW s \in P, NEW X, Reads(c, f, P, X),
           InTime(f, P, s)
    PROVE  Apt(c, f, P, s)
<1> SUFFICES ASSUME NEW i \in DOMAIN s.args
             PROVE  /\ s.args[i].net \in Nets(f) /\ Live(c, s.args[i].net)
                    /\ Firm(f, P, s.args[i].net)
  BY DEF Apt
<1> DEFINE n == s.args[i].net
<1>1. n \in f.inputs \cup Assigned(f)
  BY DEF Promising, Legal
<1>2. \A t \in P : t.lhs = n => n \in f.wires \cup f.outputs /\ t.op \notin ValueOps
  BY DEF InTime
<1> HIDE DEF n
<1>3. n \in Nets(f) /\ Firm(f, P, n)
  BY <1>1, <1>2 DEF Nets, Firm
<1>4. Live(c, n)
  <2>1. CASE n \in f.inputs
    BY <2>1 DEF Reads, InputAt
  <2>2. CASE n \in Assigned(f)
    <3>1. PICK t \in f.assigns : t.lhs = n
      BY <2>2 DEF Assigned
    <3>2. CASE t \in P
      BY <1>2, <3>1, <3>2 DEF Reads
    <3>3. CASE t \notin P
      BY <3>1, <3>3 DEF Reads, Said
    <3> QED BY <3>2, <3>3
  <2> QED BY <1>1, <2>1, <2>2
<1> QED BY <1>3, <1>4 DEF n

\* The callback of s takes c to d.
Reports(c, d, s) ==
    \/ s.op \in ValueOps /\ (d = Parameter(c, s) \/ d = Constant(c, s))
    \/ s.op \in ElemOps /\ d = Elem(c, s)
    \/ \E survives \in BOOLEAN : \/ s.op = "Assign" /\ d = Buffered(c, s, survives)
                                 \/ s.op = "Maj" /\ d = Majority(c, s, survives)

LEMMA StatementReads ==
    ASSUME NEW c, NEW f, Promising(f), NEW P, P \subseteq f.assigns, NEW s \in P, NEW X, Reads(c, f, P, X),
           InTime(f, P, s), NEW d, Reports(c, d, s), d.status = "ok"
    PROVE  \E Y : Reads(d, f, P \ {s}, Y)
<1>1. Apt(c, f, P, s)
  BY InTimeApt
<1>2. CASE s.op \in ValueOps /\ (d = Parameter(c, s) \/ d = Constant(c, s))
  BY <1>2, ValueReads
<1>3. CASE s.op \in ElemOps /\ d = Elem(c, s)
  BY <1>1, <1>3, ElemReads
<1>4. CASE \E survives \in BOOLEAN : \/ s.op = "Assign" /\ d = Buffered(c, s, survives)
                                     \/ s.op = "Maj" /\ d = Majority(c, s, survives)
  BY <1>1, <1>4, BufferedReads, MajorityReads
<1> QED BY <1>2, <1>3, <1>4 DEF Reports

-----------------------------------------------------------------------------
(* Declarations.                                                           *)

\* From c to d every net has got a vertex.
Enlarged(c, d, type, gate, nets) ==
    /\ d.graph = c.graph /\ d.kept = c.kept /\ d.status = c.status /\ Shaped(d)
    /\ d.verts \in Seq(Vertices) /\ DOMAIN c.verts \subseteq DOMAIN d.verts
    /\ \A k \in DOMAIN c.verts : d.verts[k] = c.verts[k]
    /\ d.names = [n \in DOMAIN d.names |-> d.names[n]]
    /\ DOMAIN d.names = DOMAIN c.names \cup nets
    /\ \A n \in DOMAIN c.names \ nets : d.names[n] = c.names[n]
    /\ \A n \in nets : /\ Live(d, n) /\ Pl(d, n) \notin DOMAIN c.verts
                       /\ d.verts[Pl(d, n)] = Vertex(type, gate, n)
    /\ \A k \in DOMAIN d.verts \ DOMAIN c.verts : \E n \in nets : Pl(d, n) = k

LEMMA DeclaredEffect ==
    ASSUME NEW c, Whole(c), NEW nets, IsFiniteSet(nets), nets \subseteq Names,
           NEW type \in Types, NEW gate \in Gates, NEW d, d = Declared(c, type, gate, nets)
    PROVE  Enlarged(c, d, type, gate, nets)
<1> DEFINE list == SetToSeq(nets)
           place(n) == CHOOSE k \in DOMAIN list : list[k] = n
           new == [k \in 1..Len(list) |-> Vertex(type, gate, list[k])]
           names == [n \in DOMAIN c.names \cup nets |->
                       IF n \in nets THEN <<c.graph, Len(c.verts) + place(n)>> ELSE c.names[n]]
<1>1. list \in Seq(nets) /\ IsInjective(list) /\ Range(list) = nets
  BY SetToSeqFacts
<1>2. d = [c EXCEPT !.verts = @ \o new, !.names = names]
  BY DEF Declared
<1>3. /\ Shaped(c) /\ c.verts \in Seq(Vertices)
      /\ Len(c.verts) \in Nat /\ DOMAIN c.verts = 1..Len(c.verts)
  <2>1. c.verts \in Seq(Vertices)
    BY DEF Whole
  <2> QED BY <2>1 DEF Whole
<1> HIDE DEF list
<1>4. Len(list) \in Nat /\ DOMAIN list = 1..Len(list) /\ \A k \in 1..Len(list) : list[k] \in nets
  BY <1>1
<1>5. \A n \in nets : place(n) \in 1..Len(list) /\ list[place(n)] = n
  BY <1>1, <1>4 DEF Range
<1>6. \A k \in 1..Len(list) : place(list[k]) = k
  <2>1. \A j, k \in 1..Len(list) : list[j] = list[k] => j = k
    BY <1>1, <1>4 DEF IsInjective
  <2> QED BY <1>4, <1>5, <2>1
<1>7. new \in Seq(Vertices) /\ Len(new) = Len(list)
  <2>1. <<>> \in Seq(Nat) /\ {} \in SUBSET Nat
    OBVIOUS
  <2>2. \A k \in 1..Len(list) : Vertex(type, gate, list[k]) \in Vertices
    BY <1>4, <2>1 DEF Vertex, Vertices
  <2> QED BY <1>4, <2>2
<1>8. \A k \in 1..Len(list) : new[k] = Vertex(type, gate, list[k])
  OBVIOUS
<1> HIDE DEF new, place
<1>9. /\ DOMAIN names = DOMAIN c.names \cup nets
      /\ \A n \in nets : names[n] = <<c.graph, Len(c.verts) + place(n)>>
      /\ \A n \in DOMAIN c.names : n \notin nets => names[n] = c.names[n]
      /\ names = [n \in DOMAIN names |-> names[n]]
  OBVIOUS
<1> HIDE DEF names
<1>10. /\ d.verts = c.verts \o new /\ d.names = names /\ d.graph = c.graph /\ d.kept = c.kept
       /\ d.status = c.status /\ Shaped(d)
  <2> DEFINE verts == c.verts \o new
  <2>1. d = [c EXCEPT !.verts = verts, !.names = names]
    BY <1>2
  <2> HIDE DEF verts
  <2>2. d.verts = verts /\ d.names = names /\ d.graph = c.graph /\ d.kept = c.kept /\ d.status = c.status /\ Shaped(d)
    BY <1>3, <2>1 DEF Shaped
  <2> QED BY <2>2 DEF verts
<1>11. /\ d.verts \in Seq(Vertices) /\ DOMAIN d.verts = 1..(Len(c.verts) + Len(list))
       /\ \A k \in DOMAIN c.verts : k \in DOMAIN d.verts /\ d.verts[k] = c.verts[k]
       /\ \A k \in 1..Len(list) : d.verts[Len(c.verts) + k] = new[k]
  <2> DEFINE verts == c.verts
  <2>1. verts \in Seq(Vertices) /\ new \in Seq(Vertices) /\ Len(new) = Len(list)
    BY <1>3, <1>7
  <2> HIDE DEF verts
  <2>2. /\ verts \o new \in Seq(Vertices)
        /\ DOMAIN (verts \o new) = 1..(Len(verts) + Len(list))
        /\ \A k \in DOMAIN verts : k \in DOMAIN (verts \o new) /\ (verts \o new)[k] = verts[k]
        /\ \A k \in 1..Len(list) : (verts \o new)[Len(verts) + k] = new[k]
    BY <1>4, <2>1
  <2> QED BY <1>10, <2>2 DEF verts
<1>12. ASSUME NEW n \in nets
       PROVE  /\ Live(d, n) /\ Pl(d, n) = Len(c.verts) + place(n) /\ Pl(d, n) \notin DOMAIN c.verts
              /\ d.verts[Pl(d, n)] = Vertex(type, gate, n)
  <2>1. d.names[n] = <<c.graph, Len(c.verts) + place(n)>> /\ n \in DOMAIN d.names
    BY <1>9, <1>10
  <2>2. place(n) \in 1..Len(list) /\ list[place(n)] = n
    BY <1>5
  <2>3. Pl(d, n) = Len(c.verts) + place(n)
    BY <2>1 DEF Pl
  <2>4. Pl(d, n) \in DOMAIN d.verts /\ Pl(d, n) \notin DOMAIN c.verts
    BY <1>3, <1>4, <1>11, <2>2, <2>3
  <2>5. d.verts[Pl(d, n)] = Vertex(type, gate, n)
    BY <1>8, <1>11, <2>2, <2>3
  <2> QED BY <1>10, <2>1, <2>3, <2>4, <2>5 DEF Live, Inside
<1>13. ASSUME NEW k \in DOMAIN d.verts \ DOMAIN c.verts PROVE \E n \in nets : Pl(d, n) = k
  <2> DEFINE j == k - Len(c.verts)
  <2>1. j \in 1..Len(list) /\ k = Len(c.verts) + j
    BY <1>3, <1>4, <1>11
  <2> HIDE DEF j
  <2>2. list[j] \in nets /\ place(list[j]) = j
    BY <1>4, <1>6, <2>1
  <2> QED BY <1>12, <2>1, <2>2
<1>14. \A n \in DOMAIN c.names \ nets : d.names[n] = c.names[n]
  BY <1>9, <1>10
<1>15. DOMAIN d.names = DOMAIN c.names \cup nets /\ d.names = [n \in DOMAIN d.names |-> d.names[n]]
  BY <1>9, <1>10
<1>16. DOMAIN c.verts \subseteq DOMAIN d.verts /\ \A k \in DOMAIN c.verts : d.verts[k] = c.verts[k]
  BY <1>11
<1> QED BY <1>10, <1>11, <1>12, <1>13, <1>14, <1>15, <1>16 DEF Enlarged

\* The vertex x is of a list that has been reported, when U are to come.
FromList(f, U, x) ==
    \/ x.type = "input" /\ x.name \in Reported(U, "inputs", f.inputs)
    \/ x.type = "output" /\ x.name \in Reported(U, "outputs", f.outputs)
    \/ x.type = "gate" /\ x.gate = "Default" /\ x.name \in Reported(U, "wires", f.wires)

OnLists(f, U) ==
    Reported(U, "inputs", f.inputs) \cup Reported(U, "outputs", f.outputs) \cup Reported(U, "wires", f.wires)

(* The graph before the first assignment.                                  *)
Listed(c, f, U) ==
    /\ Whole(c)
    /\ \A k \in DOMAIN c.verts :
         LET x == c.verts[k] IN
         x.ins = <<>> /\ Live(c, x.name) /\ Pl(c, x.name) = k /\ FromList(f, U, x)
    /\ \A n : Live(c, n) => c.verts[Pl(c, n)].name = n
    /\ \A n \in OnLists(f, U) : Live(c, n)

LEMMA EnlargedWhole ==
    ASSUME NEW c, Whole(c), NEW d, NEW type, NEW gate, NEW nets, Enlarged(c, d, type, gate, nets)
    PROVE  Whole(d)
<1>1. /\ d.graph = c.graph /\ d.kept = c.kept /\ d.status = "ok" /\ Shaped(d)
      /\ d.verts \in Seq(Vertices) /\ DOMAIN c.verts \subseteq DOMAIN d.verts
      /\ \A k \in DOMAIN c.verts : d.verts[k] = c.verts[k]
      /\ d.names = [n \in DOMAIN d.names |-> d.names[n]]
  BY DEF Enlarged, Whole
<1>2. \A v : (Inside(c, v) => Inside(d, v)) /\ (Freed(c, v) => Freed(d, v))
  BY <1>1 DEF Inside, Freed
<1>3. ASSUME NEW n \in DOMAIN d.names PROVE Inside(d, d.names[n]) \/ Freed(d, d.names[n])
  <2>1. CASE n \in nets
    BY <2>1 DEF Enlarged, Live
  <2>2. CASE n \notin nets
    <3>1. n \in DOMAIN c.names /\ d.names[n] = c.names[n]
      BY <2>2 DEF Enlarged
    <3>2. Inside(c, c.names[n]) \/ Freed(c, c.names[n])
      BY <3>1 DEF Whole
    <3> QED BY <1>2, <3>1, <3>2
  <2> QED BY <2>1, <2>2
<1>4. ASSUME NEW k \in DOMAIN d.verts
      PROVE  /\ Range(d.verts[k].ins) \subseteq DOMAIN d.verts
             /\ \A m \in d.verts[k].outs : m \in DOMAIN d.verts /\ k \in Range(d.verts[m].ins)
  <2>1. CASE k \in DOMAIN c.verts
    <3>1. /\ d.verts[k] = c.verts[k] /\ Range(c.verts[k].ins) \subseteq DOMAIN c.verts
          /\ \A m \in c.verts[k].outs : m \in DOMAIN c.verts /\ k \in Range(c.verts[m].ins)
      BY <1>1, <2>1 DEF Whole
    <3>2. \A m \in DOMAIN c.verts : d.verts[m] = c.verts[m]
      BY <1>1
    <3> QED BY <1>1, <3>1, <3>2
  <2>2. CASE k \notin DOMAIN c.verts
    <3>1. PICK n \in nets : Pl(d, n) = k
      BY <2>2 DEF Enlarged
    <3>2. PICK x : x = Vertex(type, gate, n)
      OBVIOUS
    <3>3. d.verts[k] = x
      BY <3>1, <3>2 DEF Enlarged
    <3>4. x.ins = <<>> /\ x.outs = {}
      BY <3>2 DEF Vertex
    <3>5. Range(<<>>) = {}
      BY DEF Range
    <3> QED BY <3>3, <3>4, <3>5
  <2> QED BY <2>1, <2>2
<1> QED BY <1>1, <1>3, <1>4 DEF Whole

\* Vertices of this type are those of the list.
Lists(f, U, type, gate, nets) == \A n \in nets : FromList(f, U, Vertex(type, gate, n))

LEMMA ListedDeclared ==
    ASSUME NEW c, NEW f, NEW U, Listed(c, f, U), NEW d, NEW type, NEW gate, NEW nets,
           Enlarged(c, d, type, gate, nets), NEW V, V \subseteq U, Lists(f, V, type, gate, nets),
           nets \cap OnLists(f, U) = {}, OnLists(f, V) \subseteq OnLists(f, U) \cup nets
    PROVE  Listed(d, f, V)
<1>1. Whole(c) /\ Whole(d) /\ d.graph = c.graph /\ d.kept = c.kept
  <2>1. Whole(c)
    BY DEF Listed
  <2>2. Whole(d)
    BY <2>1, EnlargedWhole
  <2>3. d.graph = c.graph /\ d.kept = c.kept
    BY DEF Enlarged
  <2> QED BY <2>1, <2>2, <2>3
<1>2. \A v : Inside(c, v) => Inside(d, v) /\ d.verts[v[2]] = c.verts[v[2]] /\ v[2] \in DOMAIN c.verts
  BY <1>1 DEF Inside, Enlarged
<1>3. ASSUME NEW n, Live(c, n) PROVE n \notin nets /\ Live(d, n) /\ Pl(d, n) = Pl(c, n) /\ Pl(c, n) \in DOMAIN c.verts
  <2>1. n \in DOMAIN c.names /\ Inside(c, c.names[n]) /\ Pl(c, n) \in DOMAIN c.verts
    BY <1>3 DEF Live, Inside, Pl
  <2>2. n \in OnLists(f, U)
    <3>1. c.verts[Pl(c, n)].name = n /\ FromList(f, U, c.verts[Pl(c, n)])
      BY <1>3, <2>1 DEF Listed
    <3> QED BY <3>1 DEF FromList, OnLists
  <2>3. d.names[n] = c.names[n] /\ n \in DOMAIN d.names
    BY <2>1, <2>2 DEF Enlarged
  <2> QED BY <1>2, <2>1, <2>2, <2>3 DEF Live, Pl
<1>4. ASSUME NEW n \in nets
      PROVE  /\ Live(d, n) /\ Pl(d, n) \notin DOMAIN c.verts
             /\ d.verts[Pl(d, n)].name = n /\ d.verts[Pl(d, n)].ins = <<>>
             /\ FromList(f, V, d.verts[Pl(d, n)])
  <2>1. PICK x : x = Vertex(type, gate, n)
    OBVIOUS
  <2>2. Live(d, n) /\ Pl(d, n) \notin DOMAIN c.verts /\ d.verts[Pl(d, n)] = x
    BY <2>1 DEF Enlarged
  <2>3. x.name = n /\ x.ins = <<>>
    BY <2>1 DEF Vertex
  <2>4. FromList(f, V, x)
    BY <2>1 DEF Lists
  <2> QED BY <2>2, <2>3, <2>4
<1>5. ASSUME NEW k \in DOMAIN d.verts
      PROVE  /\ d.verts[k].ins = <<>> /\ Live(d, d.verts[k].name) /\ Pl(d, d.verts[k].name) = k
             /\ FromList(f, V, d.verts[k])
  <2>1. CASE k \in DOMAIN c.verts
    <3>1. d.verts[k] = c.verts[k]
      BY <2>1 DEF Enlarged
    <3>2. /\ c.verts[k].ins = <<>> /\ Live(c, c.verts[k].name) /\ Pl(c, c.verts[k].name) = k
          /\ FromList(f, U, c.verts[k])
      BY <2>1 DEF Listed
    <3>3. FromList(f, V, c.verts[k])
      BY <3>2 DEF FromList, Reported
    <3> QED BY <1>3, <3>1, <3>2, <3>3
  <2>2. CASE k \notin DOMAIN c.verts
    <3>1. PICK n \in nets : Pl(d, n) = k
      BY <2>2 DEF Enlarged
    <3> QED BY <1>4, <3>1
  <2> QED BY <2>1, <2>2
<1>6. ASSUME NEW n, Live(d, n) PROVE d.verts[Pl(d, n)].name = n
  <2>1. CASE n \in nets
    BY <1>4, <2>1
  <2>2. CASE n \notin nets
    <3>1. n \in DOMAIN c.names /\ d.names[n] = c.names[n]
      BY <1>6, <2>2 DEF Enlarged, Live
    <3>2. Inside(c, c.names[n]) \/ Freed(c, c.names[n])
      BY <1>1, <3>1 DEF Whole
    <3>3. ~Freed(d, d.names[n])
      BY <1>6 DEF Live, Inside, Freed
    <3>4. Live(c, n)
      BY <1>1, <3>1, <3>2, <3>3 DEF Freed, Live
    <3>5. c.verts[Pl(c, n)].name = n
      BY <3>4 DEF Listed
    <3> QED BY <1>2, <1>3, <3>4, <3>5 DEF Live, Pl
  <2> QED BY <2>1, <2>2
<1>7. ASSUME NEW n \in OnLists(f, V) PROVE Live(d, n)
  <2>1. CASE n \in nets
    BY <1>4, <2>1
  <2>2. CASE n \notin nets
    <3>1. Live(c, n)
      BY <2>2 DEF Listed
    <3> QED BY <1>3, <3>1
  <2> QED BY <2>1, <2>2
<1> QED BY <1>1, <1>5, <1>6, <1>7 DEF Listed

(* All lists have been reported: nothing has been said yet.                *)
LEMMA ListedReads ==
    ASSUME NEW c, NEW f, Promising(f), Listed(c, f, {})
    PROVE  \E X : Reads(c, f, f.assigns, X)
<1> DEFINE X == {k \in DOMAIN c.verts : c.verts[k].type # "input"}
<1>1. /\ Whole(c)
      /\ \A k \in DOMAIN c.verts : /\ c.verts[k].ins = <<>> /\ Live(c, c.verts[k].name)
                                   /\ Pl(c, c.verts[k].name) = k
                                   /\ FromList(f, {}, c.verts[k])
      /\ \A n : Live(c, n) => c.verts[Pl(c, n)].name = n
      /\ \A n \in f.inputs \cup f.outputs \cup f.wires : Live(c, n)
  BY DEF Listed, OnLists, Reported
<1>2. \A x : FromList(f, {}, x) <=> \/ x.type = "input" /\ x.name \in f.inputs
                                    \/ x.type = "output" /\ x.name \in f.outputs
                                    \/ x.type = "gate" /\ x.gate = "Default" /\ x.name \in f.wires
  BY DEF FromList, Reported
<1>3. ASSUME NEW n, Live(c, n)
      PROVE  /\ Pl(c, n) \in DOMAIN c.verts /\ c.verts[Pl(c, n)].name = n
             /\ n \in f.inputs \cup f.outputs \cup f.wires
             /\ n \in Nets(f)
  <2>1. Pl(c, n) \in DOMAIN c.verts
    BY <1>3 DEF Live, Inside, Pl
  <2> QED BY <1>1, <1>2, <1>3, <2>1 DEF Nets
<1>4. /\ f.inputs \cap (f.wires \cup f.outputs \cup Assigned(f)) = {}
      /\ \A n \in Nets(f) : NotName(n) \notin Nets(f) /\ GateName(n) \notin Nets(f)
  BY NetFacts DEF Promising, Legal
<1>5. ASSUME NEW n \in f.inputs PROVE InputAt(c, n)
  <2>1. Live(c, n)
    BY <1>1
  <2>2. Pl(c, n) \in DOMAIN c.verts /\ c.verts[Pl(c, n)].name = n
    BY <1>3, <2>1
  <2>3. c.verts[Pl(c, n)].type = "input"
    BY <1>1, <1>2, <1>4, <2>2
  <2> QED BY <1>1, <2>1, <2>2, <2>3 DEF InputAt
<1>6. \A t \in f.assigns : t.op \notin ValueOps /\ t.lhs \in f.wires \cup f.outputs => Live(c, t.lhs)
  BY <1>1
<1>7. \A x \in DOMAIN c.verts : c.verts[x].type = "output" => OutputAt(c, f, x)
  BY <1>1, <1>2 DEF OutputAt
<1>8. ASSUME NEW n \in Lhs(f.assigns), Live(c, n) PROVE Waits(c, f, X, n)
  <2>1. n \in Assigned(f) /\ n \notin f.inputs
    BY <1>4 DEF Lhs, Assigned
  <2>2. PICK x : x = c.verts[Pl(c, n)]
    OBVIOUS
  <2>3. Pl(c, n) \in DOMAIN c.verts /\ x.name = n /\ FromList(f, {}, x)
    BY <1>1, <1>3, <1>8, <2>2
  <2>4. \/ x.type = "gate" /\ x.gate = "Default"
        \/ x.type = "output" /\ n \in f.outputs
    BY <1>2, <2>1, <2>3
  <2>5. Pl(c, n) \in X
    BY <2>2, <2>3, <2>4
  <2>6. ~Live(c, GateName(n))
    BY <1>3, <1>4, <1>8
  <2> HIDE DEF X
  <2> QED BY <2>2, <2>3, <2>4, <2>5, <2>6 DEF Waits
<1>9. \A n \in Nets(f) : ~Live(c, NotName(n))
  BY <1>3, <1>4
<1>10. ASSUME NEW x \in DOMAIN c.verts \ X PROVE Depends(c, X, x, Settled(c, f, f.assigns))
  <2>1. c.verts[x].ins = <<>> /\ Range(<<>>) = {}
    BY <1>1 DEF Range
  <2>2. Range(c.verts[x].ins) \subseteq Settled(c, f, f.assigns)
    BY <2>1
  <2> HIDE DEF X
  <2> QED BY <2>2, DependsOnDrivers
<1>11. X \subseteq DOMAIN c.verts /\ \A x \in X : c.verts[x].ins = <<>> /\ c.verts[x].type # "input"
  BY <1>1
<1> HIDE DEF X
<1>12. Inverters(c, f, X)
  BY <1>9 DEF Inverters
<1>13. Reads(c, f, f.assigns, X)
  BY <1>1, <1>5, <1>6, <1>7, <1>8, <1>9, <1>10, <1>11, <1>12 DEF Reads
<1> QED BY <1>13

-----------------------------------------------------------------------------
(* No name stands for a vertex of a graph that d_graphs keeps: whatever    *)
(* the file, legal or not, and whatever fails.                             *)

\* The graphs a name may point into when g is being read and K are kept.
Ids(g, K) == (0..g) \ K

Owned(c, g, K) ==
    /\ Shaped(c)
    /\ c.graph = g /\ c.kept = K
    /\ c.names = [n \in DOMAIN c.names |-> c.names[n]]
    /\ \A n \in DOMAIN c.names : c.names[n][1] \in Ids(g, K)

\* So is the vertex at hand.
Aimed(c, g, K) == Owned(c, g, K) /\ (c.status = "ok" => c.at[1] \in Ids(g, K))

\* Names and the vertex at hand are the same.
Beside(c, e) ==
    /\ Shaped(e)
    /\ e.graph = c.graph /\ e.kept = c.kept /\ e.names = c.names /\ e.at = c.at

LEMMA BesideKeeps ==
    ASSUME NEW c, NEW g, NEW K, Owned(c, g, K), NEW e, Beside(c, e)
    PROVE  Owned(e, g, K) /\ (c.status = "ok" /\ Aimed(c, g, K) => Aimed(e, g, K))
BY DEF Owned, Beside, Aimed

LEMMA BesideSteps ==
    ASSUME NEW c, Shaped(c)
    PROVE  /\ Beside(c, c)
           /\ \A how : Beside(c, Ended(c, how))
           /\ \A u, v : Beside(c, AddEdge(c, u, v))
           /\ \A v, gate, survives : Beside(c, SetGateIfDefault(c, v, gate, survives))
<1>1. Beside(c, c)
  BY DEF Beside
<1>2. \A how : Beside(c, Ended(c, how))
  BY DEF Ended, Beside, Shaped
<1>3. ASSUME NEW e, Beside(c, e), NEW a PROVE Beside(c, [e EXCEPT !.verts = a])
  <2>1. PICK d : d = [e EXCEPT !.verts = a]
    OBVIOUS
  <2>2. Shaped(e)
    BY <1>3 DEF Beside
  <2>3. Shaped(d) /\ d.graph = e.graph /\ d.kept = e.kept /\ d.names = e.names /\ d.at = e.at
    BY <2>1, <2>2 DEF Shaped
  <2>4. Beside(c, d)
    BY <1>3, <2>3 DEF Beside
  <2> QED BY <2>1, <2>4
<1>4. ASSUME NEW e, Beside(c, e), NEW how PROVE Beside(c, Ended(e, how))
  <2>1. PICK d : d = Ended(e, how)
    OBVIOUS
  <2>2. Shaped(e)
    BY <1>4 DEF Beside
  <2>3. Shaped(d) /\ d.graph = e.graph /\ d.kept = e.kept /\ d.names = e.names /\ d.at = e.at
    BY <2>1, <2>2 DEF Shaped, Ended
  <2>4. Beside(c, d)
    BY <1>4, <2>3 DEF Beside
  <2> QED BY <2>1, <2>4
<1>5. ASSUME NEW u, NEW v PROVE Beside(c, AddEdge(c, u, v))
  <2>1. Beside(c, Drives(c, u, v))
    BY <1>1, <1>3 DEF Drives
  <2>2. Beside(c, DrivenBy(Drives(c, u, v), u, v))
    BY <1>3, <2>1 DEF DrivenBy
  <2>3. Beside(c, Refused(c, v))
    BY DEF Refused, Beside, Shaped
  <2>4. Beside(c, Ended(Drives(c, u, v), "error"))
    BY <1>4, <2>1
  <2> QED BY <1>1, <1>2, <2>1, <2>2, <2>3, <2>4 DEF AddEdge, After
<1>6. ASSUME NEW v, NEW gate, NEW survives PROVE Beside(c, SetGateIfDefault(c, v, gate, survives))
  <2>1. Beside(c, [c EXCEPT !.verts[v[2]].gate = gate])
    BY <1>1, <1>3
  <2> QED BY <1>1, <1>2, <2>1 DEF SetGateIfDefault, After
<1> QED BY <1>1, <1>2, <1>5, <1>6

LEMMA OwnedStopped ==
    ASSUME NEW c, NEW g, NEW K, Owned(c, g, K), c.status # "ok"
    PROVE  Aimed(c, g, K)
BY DEF Aimed

LEMMA AimedSteps ==
    ASSUME NEW c, NEW g, NEW K, Owned(c, g, K), g \in Ids(g, K)
    PROVE  /\ \A e : Aimed(e, g, K) => Aimed(After(c, e), g, K)
           /\ \A e : Owned(e, g, K) => Owned(After(c, e), g, K)
           /\ \A how : how # "ok" => Aimed(Ended(c, how), g, K)
           /\ \A u, v : /\ Owned(AddEdge(c, u, v), g, K)
                        /\ Aimed(c, g, K) => Aimed(AddEdge(c, u, v), g, K)
           /\ \A v, gate, survives :
                /\ Owned(SetGateIfDefault(c, v, gate, survives), g, K)
                /\ Aimed(c, g, K) => Aimed(SetGateIfDefault(c, v, gate, survives), g, K)
           /\ \A v : v[1] \in Ids(g, K) => Aimed([c EXCEPT !.at = v], g, K)
           /\ \A name \in DOMAIN c.names : Aimed(Lookup(c, name), g, K)
           /\ \A type, gate, name : Aimed(New(c, type, gate, name), g, K)
           /\ Aimed(c, g, K) => \A name : Aimed(Bind(c, name), g, K)
<1>0. Shaped(c) /\ c.graph = g
  BY DEF Owned
<1>1. \A e : Aimed(e, g, K) => Aimed(After(c, e), g, K)
  BY OwnedStopped DEF After
<1>2. \A e : Owned(e, g, K) => Owned(After(c, e), g, K)
  BY DEF After
<1>3. ASSUME NEW how, how # "ok" PROVE Aimed(Ended(c, how), g, K)
  <2>1. Owned(Ended(c, how), g, K)
    BY <1>0, BesideSteps, BesideKeeps
  <2>2. Ended(c, how).status = how
    BY <1>0 DEF Ended, Shaped
  <2> QED BY <1>3, <2>1, <2>2 DEF Aimed
<1>4. ASSUME NEW u, NEW v
      PROVE  /\ Owned(AddEdge(c, u, v), g, K)
             /\ Aimed(c, g, K) => Aimed(AddEdge(c, u, v), g, K)
  <2>1. Beside(c, AddEdge(c, u, v))
    BY <1>0, BesideSteps
  <2>2. c.status # "ok" => AddEdge(c, u, v) = c
    BY OkBefore
  <2> QED BY <2>1, <2>2, BesideKeeps
<1>5. ASSUME NEW v, NEW gate, NEW survives
      PROVE  /\ Owned(SetGateIfDefault(c, v, gate, survives), g, K)
             /\ Aimed(c, g, K) => Aimed(SetGateIfDefault(c, v, gate, survives), g, K)
  <2>1. Beside(c, SetGateIfDefault(c, v, gate, survives))
    BY <1>0, BesideSteps
  <2>2. c.status # "ok" => SetGateIfDefault(c, v, gate, survives) = c
    BY OkBefore
  <2> QED BY <2>1, <2>2, BesideKeeps
<1>6. ASSUME NEW v, v[1] \in Ids(g, K) PROVE Aimed([c EXCEPT !.at = v], g, K)
  <2>1. PICK d : d = [c EXCEPT !.at = v]
    OBVIOUS
  <2>2. /\ Shaped(d) /\ d.graph = c.graph /\ d.kept = c.kept /\ d.names = c.names /\ d.at = v
    BY <1>0, <2>1 DEF Shaped
  <2>3. Aimed(d, g, K)
    BY <1>6, <2>2 DEF Aimed, Owned
  <2> QED BY <2>1, <2>3
<1>7. \A name \in DOMAIN c.names : Aimed(Lookup(c, name), g, K)
  BY <1>6 DEF Lookup, Owned
<1>8. ASSUME NEW type, NEW gate, NEW name PROVE Aimed(New(c, type, gate, name), g, K)
  <2>1. ASSUME NEW a, NEW v, v[1] \in Ids(g, K), NEW d, d = [c EXCEPT !.verts = a, !.at = v]
        PROVE  Aimed(d, g, K)
    <3>1. /\ Shaped(d) /\ d.graph = c.graph /\ d.kept = c.kept /\ d.names = c.names /\ d.at = v
      BY <1>0, <2>1 DEF Shaped
    <3> QED BY <2>1, <3>1 DEF Aimed, Owned
  <2>2. <<c.graph, Len(c.verts) + 1>>[1] \in Ids(g, K)
    BY <1>0
  <2> QED BY <1>1, <2>1, <2>2 DEF New
<1>9. ASSUME Aimed(c, g, K), NEW name PROVE Aimed(Bind(c, name), g, K)
  <2>1. CASE c.status = "ok"
    <3> DEFINE t == Entered(c.names, name, c.at)
    <3>1. /\ t = [n \in DOMAIN t |-> t[n]]
          /\ \A n \in DOMAIN t : t[n] = c.at \/ (n \in DOMAIN c.names /\ t[n] = c.names[n])
      BY DEF Entered
    <3> HIDE DEF t
    <3>2. PICK d : d = [c EXCEPT !.names = t]
      OBVIOUS
    <3>3. /\ Shaped(d) /\ d.graph = c.graph /\ d.kept = c.kept /\ d.names = t /\ d.at = c.at
      BY <1>0, <3>2 DEF Shaped
    <3>4. c.at[1] \in Ids(g, K)
      BY <1>9, <2>1 DEF Aimed
    <3>5. Aimed(d, g, K)
      BY <3>1, <3>3, <3>4 DEF Aimed, Owned
    <3> QED BY <2>1, <3>2, <3>5 DEF Bind, After, t
  <2>2. CASE c.status # "ok"
    BY <1>9, <2>2, OkBefore
  <2> QED BY <2>1, <2>2
<1> QED BY <1>1, <1>2, <1>3, <1>4, <1>5, <1>6, <1>7, <1>8, <1>9

LEMMA AimedOperands ==
    ASSUME NEW c, NEW g, NEW K, Owned(c, g, K), g \in Ids(g, K)
    PROVE  /\ \A arg : Aimed(RightHS(c, arg), g, K)
           /\ \A net : Aimed(LeftHS(c, net), g, K)
           /\ \A arg, v : Aimed(Connect(c, arg, v), g, K)
           /\ \A gate, u, w : Aimed(Pair(c, gate, u, w), g, K)
<1>0. "error" # "ok" /\ "undefined" # "ok" /\ \A d : Aimed(d, g, K) => Owned(d, g, K)
  BY DEF Aimed
<1>1. ASSUME NEW arg PROVE Aimed(RightHS(c, arg), g, K)
  <2> DEFINE new == New(c, "gate", "Not", NotName(arg.net))
             d == Registered(new, NotName(arg.net))
  <2>1. Aimed(d, g, K)
    <3>1. Aimed(new, g, K)
      BY AimedSteps
    <3> HIDE DEF new
    <3> QED BY <1>0, <3>1, AimedSteps DEF Registered
  <2>2. Aimed(Inversion(c, arg.net), g, K)
    <3>1. Inversion(c, arg.net) = IF NotName(arg.net) \in DOMAIN c.names THEN Lookup(c, NotName(arg.net))
                                  ELSE AddEdge(d, c.names[arg.net], d.at)
      BY DEF Inversion
    <3> HIDE DEF d
    <3>2. Aimed(AddEdge(d, c.names[arg.net], d.at), g, K)
      BY <1>0, <2>1, AimedSteps
    <3> QED BY <3>1, <3>2, AimedSteps
  <2>3. arg.net \in DOMAIN c.names => Aimed(Lookup(c, arg.net), g, K)
    BY AimedSteps
  <2>4. Aimed(Ended(c, "error"), g, K)
    BY <1>0, AimedSteps
  <2>5. \A e : Aimed(e, g, K) => Aimed(After(c, e), g, K)
    BY AimedSteps
  <2> QED BY <2>2, <2>3, <2>4, <2>5 DEF RightHS
<1>2. ASSUME NEW net PROVE Aimed(LeftHS(c, net), g, K)
  <2> DEFINE d == New(c, "gate", "Default", GateName(net))
             e == AddEdge(d, d.at, c.names[net])
  <2>1. Aimed(e, g, K)
    <3>1. Aimed(d, g, K)
      BY AimedSteps
    <3> HIDE DEF d
    <3> QED BY <1>0, <3>1, AimedSteps
  <2>2. Aimed(OutputGate(c, net), g, K)
    <3>1. OutputGate(c, net) = IF GateName(net) \in DOMAIN c.names THEN Lookup(c, GateName(net))
                               ELSE Bind(e, GateName(net))
      BY DEF OutputGate
    <3> HIDE DEF e
    <3>2. Aimed(Bind(e, GateName(net)), g, K)
      BY <1>0, <2>1, AimedSteps
    <3> QED BY <3>1, <3>2, AimedSteps
  <2>3. net \in DOMAIN c.names => Aimed(Lookup(c, net), g, K)
    BY AimedSteps
  <2>4. Aimed(Ended(c, "error"), g, K) /\ Aimed(Ended(c, "undefined"), g, K)
    BY <1>0, AimedSteps
  <2>5. \A x : Aimed(x, g, K) => Aimed(After(c, x), g, K)
    BY AimedSteps
  <2> QED BY <2>2, <2>3, <2>4, <2>5 DEF LeftHS
<1>3. ASSUME NEW arg, NEW v PROVE Aimed(Connect(c, arg, v), g, K)
  <2>1. PICK d : d = RightHS(c, arg)
    OBVIOUS
  <2>2. Aimed(d, g, K)
    BY <1>1, <2>1
  <2>3. Aimed(AddEdge(d, d.at, v), g, K)
    BY <1>0, <2>2, AimedSteps
  <2> QED BY <2>1, <2>3 DEF Connect
<1>4. ASSUME NEW gate, NEW u, NEW w PROVE Aimed(Pair(c, gate, u, w), g, K)
  <2>1. PICK d : d = New(c, "gate", gate, "")
    OBVIOUS
  <2>2. Aimed(d, g, K)
    BY <2>1, AimedSteps
  <2>3. PICK e : e = AddEdge(d, u, d.at)
    OBVIOUS
  <2>4. Aimed(e, g, K)
    BY <1>0, <2>2, <2>3, AimedSteps
  <2>5. Aimed(AddEdge(e, w, d.at), g, K)
    BY <1>0, <2>4, AimedSteps
  <2> QED BY <2>1, <2>3, <2>5 DEF Pair
<1> QED BY <1>1, <1>2, <1>3, <1>4

LEMMA OwnedEnded ==
    ASSUME NEW c, NEW g, NEW K, Owned(c, g, K)
    PROVE  \A how : Owned(Ended(c, how), g, K)
<1>1. Shaped(c)
  BY DEF Owned
<1> QED BY <1>1, BesideSteps, BesideKeeps

LEMMA OwnedValues ==
    ASSUME NEW c, NEW g, NEW K, Owned(c, g, K), g \in Ids(g, K), NEW s
    PROVE  Owned(Parameter(c, s), g, K) /\ Owned(Constant(c, s), g, K)
<1>1. Owned(Parameter(c, s), g, K)
  <2>1. PICK d : d = New(c, "constant", ParseConstValue(s.value), s.lhs)
    OBVIOUS
  <2>2. Aimed(d, g, K)
    BY <2>1, AimedSteps
  <2>3. Owned(d, g, K)
    BY <2>2 DEF Aimed
  <2>4. Aimed(Bind(d, s.lhs), g, K)
    BY <2>2, <2>3, AimedSteps
  <2> QED BY <2>1, <2>4 DEF Parameter, Aimed
<1>2. Owned(Ended(c, "error"), g, K)
  BY OwnedEnded
<1> QED BY <1>1, <1>2 DEF Constant

LEMMA OwnedBuffered ==
    ASSUME NEW c, NEW g, NEW K, Owned(c, g, K), g \in Ids(g, K), NEW s, NEW survives
    PROVE  Owned(Buffered(c, s, survives), g, K)
<1> DEFINE arg == s.args[1]
           v == c.names[s.lhs]
           op == IF arg.not THEN "Not" ELSE "Buf"
           typed == SetGateIfDefault(c, v, op, survives)
           known == IF arg.not THEN Alias(typed, NotName(arg.net), v) ELSE typed
           plain == [arg EXCEPT !.not = FALSE]
<1>1. Owned(typed, g, K)
  BY AimedSteps
<1>2. Buffered(c, s, survives) =
        IF s.lhs \notin DOMAIN c.names THEN Ended(c, "error")
        ELSE IF Freed(c, v) THEN Ended(c, "undefined")
        ELSE IF Vert(c, v).type = "output" THEN Connect(c, arg, v)
        ELSE Connect(known, plain, v)
  BY DEF Buffered
<1>3. Owned(Ended(c, "error"), g, K) /\ Owned(Ended(c, "undefined"), g, K)
  BY OwnedEnded
<1>4. \A d, a : Owned(d, g, K) => Owned(Connect(d, a, v), g, K)
  BY AimedOperands DEF Aimed
<1>5. s.lhs \in DOMAIN c.names => v[1] \in Ids(g, K)
  BY DEF Owned
<1> HIDE DEF typed, arg, v, plain
<1>6. s.lhs \in DOMAIN c.names => Owned(known, g, K)
  <2> HAVE s.lhs \in DOMAIN c.names
  <2>1. PICK e : e = [typed EXCEPT !.at = v]
    OBVIOUS
  <2>2. Aimed(e, g, K)
    BY <1>1, <1>5, <2>1, AimedSteps
  <2>3. Owned(e, g, K)
    BY <2>2 DEF Aimed
  <2>4. Aimed(Bind(e, NotName(arg.net)), g, K)
    BY <2>2, <2>3, AimedSteps
  <2>5. Owned(Bind(e, NotName(arg.net)), g, K)
    BY <2>4 DEF Aimed
  <2>6. Owned(Alias(typed, NotName(arg.net), v), g, K)
    BY <1>1, <2>1, <2>5 DEF Alias, After
  <2> QED BY <1>1, <2>6
<1> HIDE DEF known
<1> QED BY <1>2, <1>3, <1>4, <1>6

LEMMA OwnedElem ==
    ASSUME NEW c, NEW g, NEW K, Owned(c, g, K), g \in Ids(g, K), NEW s
    PROVE  Owned(Elem(c, s), g, K)
<1> DEFINE left == LeftHS(c, s.lhs)
           v == left.at
           default == Vert(left, v).type = "gate" /\ Vert(left, v).gate = "Default"
           typed == After(left, IF Freed(left, v) THEN Ended(left, "undefined")
                                ELSE IF default THEN SetGateIfDefault(left, v, s.op, TRUE) ELSE left)
           one == Connect(typed, s.args[1], v)
           two == Connect(one, s.args[2], v)
<1>1. Elem(c, s) = IF Len(s.args) = 3 THEN Connect(two, s.args[3], v) ELSE two
  BY DEF Elem
<1>2. Owned(left, g, K)
  BY AimedOperands DEF Aimed
<1>3. \A d, a, w : Owned(d, g, K) => Owned(Connect(d, a, w), g, K)
  BY AimedOperands DEF Aimed
<1> HIDE DEF left, v, default
<1>4. Owned(typed, g, K)
  <2>1. Owned(Ended(left, "undefined"), g, K)
    BY <1>2, OwnedEnded
  <2>2. Owned(SetGateIfDefault(left, v, s.op, TRUE), g, K)
    BY <1>2, AimedSteps
  <2> QED BY <1>2, <2>1, <2>2 DEF After
<1> HIDE DEF typed
<1>5. Owned(one, g, K)
  BY <1>3, <1>4
<1> HIDE DEF one
<1>6. Owned(two, g, K)
  BY <1>3, <1>5
<1> HIDE DEF two
<1> QED BY <1>1, <1>3, <1>6

LEMMA OwnedMajority ==
    ASSUME NEW c, NEW g, NEW K, Owned(c, g, K), g \in Ids(g, K), NEW s, NEW survives
    PROVE  Owned(Majority(c, s, survives), g, K)
<1>0. \A d : Aimed(d, g, K) => Owned(d, g, K)
  BY DEF Aimed
<1>1. PICK one : one = RightHS(c, s.args[1])
  OBVIOUS
<1>2. PICK two : two = RightHS(one, s.args[2])
  OBVIOUS
<1>3. PICK three : three = RightHS(two, s.args[3])
  OBVIOUS
<1>4. PICK at : at = <<one.at, two.at, three.at>>
  OBVIOUS
<1>5. Owned(one, g, K)
  BY <1>0, <1>1, AimedOperands
<1>6. Owned(two, g, K)
  BY <1>0, <1>2, <1>5, AimedOperands
<1>7. Owned(three, g, K)
  BY <1>0, <1>3, <1>6, AimedOperands
<1>8. Majority(c, s, survives) =
        After(three, IF s.lhs \in DOMAIN c.names
                     THEN MajorityAsLogic(three, at, c.names[s.lhs], survives)
                     ELSE Bind(GenerateMajority(three, at), s.lhs))
  BY <1>1, <1>2, <1>3, <1>4 DEF Majority
<1>9. ASSUME NEW v, v[1] \in Ids(g, K) PROVE Owned(MajorityAsLogic(three, at, v, survives), g, K)
  <2> DEFINE ab == Pair(three, "And", at[1], at[2])
             ac == Pair(ab, "And", at[1], at[3])
             bc == Pair(ac, "And", at[2], at[3])
             or1 == Pair(bc, "Or", ab.at, ac.at)
             or2 == IF SaysDefault(or1, v)
                    THEN [SetGateIfDefault(or1, v, "Or", survives) EXCEPT !.at = v]
                    ELSE New(or1, "gate", "Or", "")
             e == AddEdge(or2, or1.at, or2.at)
  <2>7. MajorityAsLogic(three, at, v, survives) =
          After(three, IF Freed(three, v) THEN Ended(three, "undefined") ELSE AddEdge(e, bc.at, or2.at))
    BY DEF MajorityAsLogic
  <2>1. ab = Pair(three, "And", at[1], at[2])
    OBVIOUS
  <2> HIDE DEF ab
  <2>2. ac = Pair(ab, "And", at[1], at[3])
    OBVIOUS
  <2> HIDE DEF ac
  <2>3. bc = Pair(ac, "And", at[2], at[3])
    OBVIOUS
  <2> HIDE DEF bc
  <2>4. or1 = Pair(bc, "Or", ab.at, ac.at)
    OBVIOUS
  <2> HIDE DEF or1
  <2>5. or2 = IF SaysDefault(or1, v)
              THEN [SetGateIfDefault(or1, v, "Or", survives) EXCEPT !.at = v]
              ELSE New(or1, "gate", "Or", "")
    OBVIOUS
  <2> HIDE DEF or2
  <2>6. e = AddEdge(or2, or1.at, or2.at)
    OBVIOUS
  <2> HIDE DEF e
  <2>8. Owned(or1, g, K)
    <3>1. Owned(ab, g, K)
      BY <1>0, <1>7, <2>1, AimedOperands
    <3>2. Owned(ac, g, K)
      BY <1>0, <2>2, <3>1, AimedOperands
    <3>3. Owned(bc, g, K)
      BY <1>0, <2>3, <3>2, AimedOperands
    <3> QED BY <1>0, <2>4, <3>3, AimedOperands
  <2>9. Owned(or2, g, K)
    <3>1. Owned(New(or1, "gate", "Or", ""), g, K)
      BY <1>0, <2>8, AimedSteps
    <3>2. PICK d : d = SetGateIfDefault(or1, v, "Or", survives)
      OBVIOUS
    <3>3. Owned(d, g, K)
      BY <2>8, <3>2, AimedSteps
    <3>4. Owned([d EXCEPT !.at = v], g, K)
      BY <1>0, <1>9, <3>3, AimedSteps
    <3> QED BY <2>5, <3>1, <3>2, <3>4
  <2>10. Owned(e, g, K)
    BY <2>6, <2>9, AimedSteps
  <2>11. Owned(AddEdge(e, bc.at, or2.at), g, K)
    BY <2>10, AimedSteps
  <2>12. Owned(Ended(three, "undefined"), g, K)
    BY <1>7, OwnedEnded
  <2> QED BY <1>7, <2>7, <2>11, <2>12 DEF After
<1>10. Aimed(GenerateMajority(three, at), g, K)
  <2>1. PICK d : d = New(three, "subGraph", "", "Majority3")
    OBVIOUS
  <2>2. PICK w1 : w1 = AddEdge(d, at[1], d.at)
    OBVIOUS
  <2>3. PICK w2 : w2 = AddEdge(w1, at[2], d.at)
    OBVIOUS
  <2>4. PICK w3 : w3 = AddEdge(w2, at[3], d.at)
    OBVIOUS
  <2>5. PICK buf : buf = New(w3, "gate", "Buf", "")
    OBVIOUS
  <2>6. GenerateMajority(three, at) = AddEdge(buf, d.at, buf.at)
    BY <2>1, <2>2, <2>3, <2>4, <2>5 DEF GenerateMajority
  <2>7. Owned(d, g, K)
    BY <1>0, <1>7, <2>1, AimedSteps
  <2>8. Owned(w1, g, K)
    BY <2>2, <2>7, AimedSteps
  <2>9. Owned(w2, g, K)
    BY <2>3, <2>8, AimedSteps
  <2>10. Owned(w3, g, K)
    BY <2>4, <2>9, AimedSteps
  <2>11. Aimed(buf, g, K)
    BY <2>5, <2>10, AimedSteps
  <2>12. Owned(buf, g, K)
    BY <1>0, <2>11
  <2> QED BY <2>6, <2>11, <2>12, AimedSteps
<1>11. Owned(Bind(GenerateMajority(three, at), s.lhs), g, K)
  <2>1. PICK d : d = GenerateMajority(three, at)
    OBVIOUS
  <2>2. Aimed(d, g, K) /\ Owned(d, g, K)
    BY <1>0, <1>10, <2>1
  <2>3. Aimed(Bind(d, s.lhs), g, K)
    BY <2>2, AimedSteps
  <2> QED BY <1>0, <2>1, <2>3
<1>12. s.lhs \in DOMAIN c.names => c.names[s.lhs][1] \in Ids(g, K)
  BY DEF Owned
<1> QED BY <1>7, <1>8, <1>9, <1>11, <1>12 DEF After

LEMMA OwnedDeclared ==
    ASSUME NEW c, NEW g, NEW K, Owned(c, g, K), g \in Ids(g, K), NEW type, NEW gate, NEW nets
    PROVE  Owned(Declared(c, type, gate, nets), g, K)
<1> DEFINE list == SetToSeq(nets)
           place(n) == CHOOSE k \in DOMAIN list : list[k] = n
           verts == c.verts \o [k \in 1..Len(list) |-> Vertex(type, gate, list[k])]
           names == [n \in DOMAIN c.names \cup nets |->
                       IF n \in nets THEN <<c.graph, Len(c.verts) + place(n)>> ELSE c.names[n]]
<1>1. PICK d : d = Declared(c, type, gate, nets)
  OBVIOUS
<1>2. d = [c EXCEPT !.verts = verts, !.names = names]
  BY <1>1 DEF Declared
<1> HIDE DEF list, place, verts
<1>3. /\ names = [n \in DOMAIN names |-> names[n]]
      /\ \A n \in DOMAIN names : names[n][1] = g \/ (n \in DOMAIN c.names /\ names[n] = c.names[n])
  BY DEF Owned
<1> HIDE DEF names
<1>4. Shaped(d) /\ d.graph = c.graph /\ d.kept = c.kept /\ d.names = names
  BY <1>2 DEF Owned, Shaped
<1>5. Owned(d, g, K)
  BY <1>3, <1>4 DEF Owned
<1> QED BY <1>1, <1>5

LEMMA OwnedReports ==
    ASSUME NEW c, NEW g, NEW K, Owned(c, g, K), g \in Ids(g, K), NEW s, NEW d, Reports(c, d, s)
    PROVE  Owned(d, g, K)
BY OwnedValues, OwnedBuffered, OwnedElem, OwnedMajority DEF Reports

-----------------------------------------------------------------------------
(* What the rounds of Simulated and Meaning come to.                       *)

\* The values before the first round, and those one round makes.
Begin(what, of, env) ==
    IF what = "graph" THEN [v \in DOMAIN of |-> Unknown]
    ELSE [n \in of.inputs \cup Assigned(of) |-> IF n \in of.inputs THEN env[n] ELSE Unknown]

Round(what, of, env, before) ==
    IF what = "graph"
    THEN [v \in DOMAIN of |-> Value(of[v], env, [i \in DOMAIN of[v].ins |-> before[of[v].ins[i]]])]
    ELSE [n \in of.inputs \cup Assigned(of) |->
            IF n \in of.inputs THEN env[n] ELSE Formula(Source(of, n), before)]

\* The first n rounds.
Played(what, of, env, n, h) ==
    /\ h[0] = Begin(what, of, env)
    /\ \A k \in 0..(n - 1) : h[k + 1] = Round(what, of, env, h[k])

LEMMA RoundsPlayed ==
    ASSUME NEW what, NEW of, NEW env
    PROVE  \A n \in Nat : \E h : Played(what, of, env, n, h)
<1> DEFINE Bad == {n \in Nat : ~\E h : Played(what, of, env, n, h)}
<1> SUFFICES ASSUME Bad # {} PROVE FALSE
  OBVIOUS
<1>1. PICK n \in Bad : \A j \in Bad : n <= j
  <2>1. Bad \subseteq Nat
    OBVIOUS
  <2> HIDE DEF Bad
  <2> QED BY <2>1, Least
<1>2. n \in Nat /\ ~\E h : Played(what, of, env, n, h)
  BY <1>1
<1>3. n # 0
  <2> SUFFICES ASSUME n = 0 PROVE FALSE
    OBVIOUS
  <2> DEFINE h == [k \in {0} |-> Begin(what, of, env)]
  <2>1. Played(what, of, env, n, h)
    BY DEF Played
  <2> QED BY <1>2, <2>1
<1> DEFINE m == n - 1
<1>4. m \in Nat /\ n = m + 1 /\ m \notin Bad
  BY <1>1, <1>2, <1>3
<1>5. PICK h : Played(what, of, env, m, h)
  BY <1>4
<1> HIDE DEF m, Bad
<1> DEFINE g == [k \in 0..n |-> IF k = n THEN Round(what, of, env, h[m]) ELSE h[k]]
<1>6. g[0] = h[0] /\ g[n] = Round(what, of, env, h[m]) /\ \A k \in 0..m : g[k] = h[k]
  BY <1>2, <1>3, <1>4
<1> HIDE DEF g
<1>7. ASSUME NEW k \in 0..(n - 1) PROVE g[k + 1] = Round(what, of, env, g[k])
  <2>1. k \in 0..m /\ g[k] = h[k]
    BY <1>4, <1>6
  <2>2. CASE k = m
    BY <1>4, <1>6, <2>1, <2>2
  <2>3. CASE k # m
    <3>1. k \in 0..(m - 1) /\ k + 1 \in 0..m
      BY <1>4, <2>1, <2>3
    <3>2. h[k + 1] = Round(what, of, env, h[k])
      BY <1>5, <3>1 DEF Played
    <3> QED BY <1>6, <2>1, <3>1, <3>2
  <2> QED BY <2>2, <2>3
<1>8. Played(what, of, env, n, g)
  BY <1>5, <1>6, <1>7 DEF Played
<1> QED BY <1>2, <1>8

LEMMA RoundsUnique ==
    ASSUME NEW what, NEW of, NEW env, NEW m \in Nat, NEW n \in Nat, m <= n,
           NEW h, Played(what, of, env, m, h), NEW g, Played(what, of, env, n, g)
    PROVE  h[m] = g[m]
<1> DEFINE Bad == {k \in 0..m : h[k] # g[k]}
<1>1. Bad = {}
  <2> SUFFICES ASSUME Bad # {} PROVE FALSE
    OBVIOUS
  <2>1. PICK k \in Bad : \A j \in Bad : k <= j
    <3>1. Bad \subseteq Nat
      OBVIOUS
    <3> HIDE DEF Bad
    <3> QED BY <3>1, Least
  <2>2. k \in 0..m /\ h[k] # g[k] /\ k # 0
    BY <2>1 DEF Played
  <2> DEFINE j == k - 1
  <2>3. j \in 0..(m - 1) /\ j \in 0..(n - 1) /\ j + 1 = k /\ j \in 0..m /\ ~(k <= j)
    BY <2>2
  <2>4. h[j] = g[j]
    BY <2>1, <2>3
  <2> HIDE DEF j
  <2>5. h[j + 1] = Round(what, of, env, h[j]) /\ g[j + 1] = Round(what, of, env, g[j])
    BY <2>3 DEF Played
  <2> QED BY <2>2, <2>3, <2>4, <2>5
<1>2. m \in 0..m
  OBVIOUS
<1> QED BY <1>1, <1>2

LEMMA RoundsExist ==
    ASSUME NEW what, NEW of, NEW env
    PROVE  \E val : val = [k \in Nat |-> IF k = 0 THEN Begin(what, of, env)
                                         ELSE Round(what, of, env, val[k - 1])]
<1> DEFINE upTo(n) == CHOOSE h : Played(what, of, env, n, h)
           val == [n \in Nat |-> upTo(n)[n]]
<1>1. \A n \in Nat : Played(what, of, env, n, upTo(n))
  BY RoundsPlayed
<1>2. val[0] = Begin(what, of, env)
  <2>1. val[0] = upTo(0)[0] /\ Played(what, of, env, 0, upTo(0))
    BY <1>1
  <2> HIDE DEF upTo, val
  <2> QED BY <2>1 DEF Played
<1>3. ASSUME NEW n \in Nat, n # 0 PROVE val[n] = Round(what, of, env, val[n - 1])
  <2> DEFINE m == n - 1
  <2>1. m \in Nat /\ m + 1 = n /\ m \in 0..(n - 1) /\ m <= n
    BY <1>3
  <2>2. val[n] = upTo(n)[n] /\ val[m] = upTo(m)[m]
    BY <2>1
  <2>3. Played(what, of, env, n, upTo(n)) /\ Played(what, of, env, m, upTo(m))
    BY <1>1, <2>1
  <2> HIDE DEF upTo, val, m
  <2>4. upTo(n)[m + 1] = Round(what, of, env, upTo(n)[m])
    BY <2>1, <2>3 DEF Played
  <2>5. upTo(m)[m] = upTo(n)[m]
    BY <2>1, <2>3, RoundsUnique
  <2> QED BY <2>1, <2>2, <2>4, <2>5 DEF m
<1> DEFINE rule == [k \in Nat |-> IF k = 0 THEN Begin(what, of, env) ELSE Round(what, of, env, val[k - 1])]
<1>4. val = [k \in Nat |-> val[k]]
  OBVIOUS
<1> HIDE DEF val, upTo
<1>5. \A k \in Nat : val[k] = rule[k]
  BY <1>2, <1>3
<1>6. rule = [k \in Nat |-> rule[k]]
  OBVIOUS
<1> HIDE DEF rule
<1>7. val = rule
  BY <1>4, <1>5, <1>6
<1> QED BY <1>7 DEF rule

\* The values val are those the rounds make.
Rounds(what, of, env, val) ==
    /\ val[0] = Begin(what, of, env)
    /\ \A k \in Nat : val[k + 1] = Round(what, of, env, val[k])

LEMMA RuleRounds ==
    ASSUME NEW what, NEW of, NEW env, NEW val,
           val = [k \in Nat |-> IF k = 0 THEN Begin(what, of, env) ELSE Round(what, of, env, val[k - 1])]
    PROVE  Rounds(what, of, env, val)
<1>1. \A k \in Nat : val[k] = IF k = 0 THEN Begin(what, of, env) ELSE Round(what, of, env, val[k - 1])
  OBVIOUS
<1>2. val[0] = Begin(what, of, env)
  BY <1>1
<1>3. ASSUME NEW k \in Nat PROVE val[k + 1] = Round(what, of, env, val[k])
  <2>1. k + 1 \in Nat /\ k + 1 # 0 /\ (k + 1) - 1 = k
    OBVIOUS
  <2> QED BY <1>1, <2>1
<1> QED BY <1>2, <1>3 DEF Rounds

LEMMA SimulatedRounds ==
    ASSUME NEW verts, NEW env
    PROVE  \E val : Rounds("graph", verts, env, val) /\ Simulated(verts, env) = val[Len(verts)]
<1> DEFINE Rule(h) == [k \in Nat |->
             IF k = 0 THEN [v \in DOMAIN verts |-> Unknown]
             ELSE LET before == h[k - 1] IN
                  [v \in DOMAIN verts |->
                     Value(verts[v], env, [i \in DOMAIN verts[v].ins |-> before[verts[v].ins[i]]])]]
           Same(h) == [k \in Nat |-> IF k = 0 THEN Begin("graph", verts, env)
                                     ELSE Round("graph", verts, env, h[k - 1])]
           val == CHOOSE h : h = Rule(h)
<1>1. Simulated(verts, env) = val[Len(verts)]
  BY DEF Simulated
<1>2. ASSUME NEW h PROVE Same(h) = Rule(h)
  BY DEF Begin, Round
<1>3. \E h : h = Same(h)
  BY RoundsExist
<1>4. \E h : h = Rule(h)
  <2> HIDE DEF Rule, Same
  <2> QED BY <1>2, <1>3
<1>5. val = Rule(val)
  <2> HIDE DEF Rule
  <2> QED BY <1>4
<1>6. val = Same(val)
  <2> HIDE DEF Rule, Same, val
  <2> QED BY <1>2, <1>5
<1> HIDE DEF val, Rule
<1>7. Rounds("graph", verts, env, val)
  BY <1>6, RuleRounds
<1> QED BY <1>1, <1>7

LEMMA MeaningRounds ==
    ASSUME NEW f, NEW env
    PROVE  \E val : Rounds("file", f, env, val) /\ Meaning(f, env) = val[Cardinality(f.assigns)]
<1> DEFINE nets == f.inputs \cup Assigned(f)
           Rule(h) == [k \in Nat |->
             IF k = 0 THEN [n \in nets |-> IF n \in f.inputs THEN env[n] ELSE Unknown]
             ELSE LET before == h[k - 1] IN
                  [n \in nets |-> IF n \in f.inputs THEN env[n] ELSE Formula(Source(f, n), before)]]
           Same(h) == [k \in Nat |-> IF k = 0 THEN Begin("file", f, env)
                                     ELSE Round("file", f, env, h[k - 1])]
           val == CHOOSE h : h = Rule(h)
<1>1. Meaning(f, env) = val[Cardinality(f.assigns)]
  BY DEF Meaning
<1>2. ASSUME NEW h PROVE Same(h) = Rule(h)
  <2>1. "file" # "graph"
    OBVIOUS
  <2> QED BY <2>1 DEF Begin, Round
<1>3. \E h : h = Same(h)
  BY RoundsExist
<1>4. \E h : h = Rule(h)
  <2> HIDE DEF Rule, Same
  <2> QED BY <1>2, <1>3
<1>5. val = Rule(val)
  <2> HIDE DEF Rule
  <2> QED BY <1>4
<1>6. val = Same(val)
  <2> HIDE DEF Rule, Same, val
  <2> QED BY <1>2, <1>5
<1> HIDE DEF val, Rule
<1>7. Rounds("file", f, env, val)
  BY <1>6, RuleRounds
<1> QED BY <1>1, <1>7

-----------------------------------------------------------------------------
(* The whole graph.                                                        *)

(* A graph that has been read to the end has no loops.                     *)
LEMMA NoLoops ==
    ASSUME NEW f, Promising(f), Loopless(f), NEW c, NEW X, Reads(c, f, {}, X),
           NEW S \in SUBSET DOMAIN c.verts, S # {}
    PROVE  \E v \in S : Range(c.verts[v].ins) \cap S = {}
<1> SUFFICES ASSUME \A v \in S : Range(c.verts[v].ins) \cap S # {} PROVE FALSE
  OBVIOUS
<1>1. Circ(c, X, S)
  BY DEF Circ
<1>2. \A v \in S : c.verts[v].ins # <<>>
  <2>1. Range(<<>>) = {}
    BY DEF Range
  <2> QED BY <2>1
<1> DEFINE N == {n \in f.inputs \cup Assigned(f) : Live(c, n) /\ Pl(c, n) \in S}
<1>3. \A A : \A v \in S : v \notin X /\ (Depends(c, X, v, A) => A \cap S # {})
  BY <1>1, <1>2 DEF Reads, Depends
<1>4. N # {}
  <2>1. PICK v \in S : v \in DOMAIN c.verts
    OBVIOUS
  <2>2. Depends(c, X, v, Settled(c, f, {}))
    BY <1>3, <2>1 DEF Reads
  <2>3. Settled(c, f, {}) \cap S # {}
    BY <1>3, <2>2
  <2> QED BY <2>3 DEF Settled, Firm
<1>5. N \subseteq Assigned(f)
  <2>1. \A n \in f.inputs : InputAt(c, n)
    BY DEF Reads
  <2> QED BY <1>2, <2>1 DEF InputAt
<1> HIDE DEF N
<1>6. PICK n \in N : \A i \in DOMAIN Source(f, n).args : Source(f, n).args[i].net \notin N
  BY <1>4, <1>5 DEF Loopless
<1>7. PICK s \in f.assigns : s = Source(f, n) /\ s.lhs = n
  BY <1>5, <1>6 DEF Source, Assigned
<1>8. Said(c, f, {}, X, s)
  BY DEF Reads
<1>9. Pl(c, n) \in S
  BY <1>6 DEF N
<1>10. Sources(c, s) \cap S # {}
  BY <1>3, <1>7, <1>8, <1>9 DEF Said
<1>11. PICK i \in DOMAIN s.args : Pl(c, s.args[i].net) \in S
  BY <1>10 DEF Sources
<1>12. s.args[i].net \in N
  BY <1>8, <1>11 DEF Said, Firm, N
<1> QED BY <1>6, <1>7, <1>12

(* So the simulation settles: every vertex has what it makes of the values *)
(* of its drivers.                                                         *)
LEMMA SimulatedFits ==
    ASSUME NEW f, Promising(f), Loopless(f), NEW c, NEW X, Reads(c, f, {}, X), NEW env
    PROVE  /\ Fits(c, X, env, Simulated(c.verts, env))
           /\ DOMAIN Simulated(c.verts, env) = DOMAIN c.verts
<1> DEFINE M == DOMAIN c.verts
           N == Len(c.verts)
           dep == [v \in M |-> Range(c.verts[v].ins)]
<1>1. PICK val : Rounds("graph", c.verts, env, val) /\ Simulated(c.verts, env) = val[N]
  BY SimulatedRounds
<1>2. N \in Nat /\ M = 1..N /\ IsFiniteSet(M) /\ Cardinality(M) <= N
  <2>1. c.verts \in Seq(Vertices)
    BY DEF Reads, Whole
  <2>2. N \in Nat /\ M = 1..N
    BY <2>1
  <2>3. IsFiniteSet(1..N) /\ Cardinality(1..N) = N
    BY <2>2, FS_Interval
  <2> QED BY <2>2, <2>3
<1>3. \A k \in Nat : \A v \in M : val[k + 1][v] = Value(c.verts[v], env, At(val[k], c.verts[v].ins))
  BY <1>1 DEF Rounds, Round, At
<1>4. \A v \in M : dep[v] \subseteq M
  BY DEF Reads, Whole
<1>5. \A S \in SUBSET M : S # {} => \E v \in S : dep[v] \cap S = {}
  BY NoLoops
<1>6. ASSUME NEW k \in Nat, NEW v \in M, \A u \in dep[v] : val[k + 1][u] = val[k][u]
      PROVE  val[k + 2][v] = val[k + 1][v]
  <2>1. \A i \in DOMAIN c.verts[v].ins : c.verts[v].ins[i] \in dep[v]
    BY DEF Range
  <2>2. At(val[k + 1], c.verts[v].ins) = At(val[k], c.verts[v].ins)
    BY <1>6, <2>1 DEF At
  <2>3. (k + 1) + 1 = k + 2 /\ k + 1 \in Nat
    OBVIOUS
  <2>4. val[(k + 1) + 1][v] = Value(c.verts[v], env, At(val[k + 1], c.verts[v].ins))
    BY <1>3, <2>3
  <2> QED BY <1>3, <2>2, <2>3, <2>4
<1> HIDE DEF M, N, dep
<1>7. \A v \in M : val[N + 1][v] = val[N][v]
  <2>1. Grounded(M, dep) /\ Responds(M, val, dep)
    BY <1>4, <1>5, <1>6 DEF Grounded, Responds
  <2> QED BY <1>2, <2>1, RoundsSettle
<1>8. \A v \in M : val[N][v] = Value(c.verts[v], env, At(val[N], c.verts[v].ins))
  BY <1>2, <1>3, <1>7
<1>9. DOMAIN val[N] = M
  <2>1. \A k \in Nat : DOMAIN Round("graph", c.verts, env, val[k]) = M
    BY DEF Round, M
  <2>2. DOMAIN Begin("graph", c.verts, env) = M
    BY DEF Begin, M
  <2>3. CASE N = 0
    BY <1>1, <2>2, <2>3 DEF Rounds
  <2>4. CASE N # 0
    <3>1. N - 1 \in Nat /\ (N - 1) + 1 = N
      BY <1>2, <2>4
    <3>2. val[(N - 1) + 1] = Round("graph", c.verts, env, val[N - 1])
      BY <1>1, <3>1 DEF Rounds
    <3> QED BY <2>1, <3>1, <3>2
  <2> QED BY <2>3, <2>4
<1> QED BY <1>1, <1>8, <1>9 DEF Fits, M

(* The number of nets that are assigned.                                   *)
LEMMA AssignedFacts ==
    ASSUME NEW f, Promising(f)
    PROVE  /\ IsFiniteSet(Assigned(f)) /\ Cardinality(f.assigns) \in Nat
           /\ Cardinality(Assigned(f)) <= Cardinality(f.assigns)
<1>1. IsFiniteSet(f.assigns)
  BY NetFacts DEF WellFormed
<1> DEFINE g == [s \in f.assigns |-> s.lhs]
<1>2. g \in Surjection(f.assigns, Assigned(f))
  BY DEF Surjection, Assigned
<1> HIDE DEF g
<1>3. IsFiniteSet(Assigned(f)) /\ Cardinality(Assigned(f)) <= Cardinality(f.assigns)
  BY <1>1, <1>2, FS_Surjection
<1> QED BY <1>1, <1>3, FS_CardinalityType

\* The values m fit the assignments of f.
Fulfils(f, env, m) ==
    /\ \A n \in f.inputs : m[n] = env[n]
    /\ \A n \in Assigned(f) : m[n] = Formula(Source(f, n), m)

(* A formula is about the values of its operands.                          *)
LEMMA FormulaSame ==
    ASSUME NEW s, NEW m1, NEW m2, \A i \in DOMAIN s.args : m1[s.args[i].net] = m2[s.args[i].net]
    PROVE  Formula(s, m1) = Formula(s, m2)
<1> DEFINE lit(m, arg) == IF arg.not THEN Invert(m[arg.net]) ELSE m[arg.net]
<1>1. \A i \in DOMAIN s.args : lit(m1, s.args[i]) = lit(m2, s.args[i])
  OBVIOUS
<1>2. {i \in DOMAIN s.args : lit(m1, s.args[i]) = "1"} = {i \in DOMAIN s.args : lit(m2, s.args[i]) = "1"}
  BY <1>1
<1>3. (\E i \in DOMAIN s.args : lit(m1, s.args[i]) = Unknown)
        <=> (\E i \in DOMAIN s.args : lit(m2, s.args[i]) = Unknown)
  BY <1>1
<1> DEFINE of(ones) ==
             CASE s.op = "Assign" -> Bit(ones = 1)
               [] s.op = "And"  -> Bit(ones = Len(s.args))
               [] s.op = "Nand" -> Bit(ones # Len(s.args))
               [] s.op = "Or"   -> Bit(ones > 0)
               [] s.op = "Nor"  -> Bit(ones = 0)
               [] s.op = "Xor"  -> Bit(ones % 2 = 1)
               [] s.op = "Xnor" -> Bit(ones % 2 = 0)
               [] s.op = "Maj"  -> Bit(ones >= 2)
           ones(m) == Cardinality({i \in DOMAIN s.args : lit(m, s.args[i]) = "1"})
<1>4. ASSUME NEW m
      PROVE  Formula(s, m) = IF s.op \in ValueOps THEN Literal(s.value)
                             ELSE IF \E i \in DOMAIN s.args : lit(m, s.args[i]) = Unknown THEN Unknown
                             ELSE of(ones(m))
  BY DEF Formula
<1>5. ones(m1) = ones(m2)
  BY <1>2
<1> HIDE DEF ones, of, lit
<1>6. of(ones(m1)) = of(ones(m2))
  BY <1>5
<1> QED BY <1>3, <1>4, <1>6

LEMMA MeaningFulfils ==
    ASSUME NEW f, Promising(f), Loopless(f), NEW env
    PROVE  Fulfils(f, env, Meaning(f, env))
<1> DEFINE M == Assigned(f)
           N == Cardinality(f.assigns)
           nets == [n \in M |-> {Source(f, n).args[i].net : i \in DOMAIN Source(f, n).args}]
           dep == [n \in M |-> nets[n] \cap M]
<1>1. PICK val : Rounds("file", f, env, val) /\ Meaning(f, env) = val[N]
  BY MeaningRounds
<1>2. N \in Nat /\ IsFiniteSet(M) /\ Cardinality(M) <= N
  BY AssignedFacts
<1>3. f.inputs \cap M = {} /\ "file" # "graph"
  BY DEF Promising, Legal
<1>4. \A k \in Nat : /\ \A n \in f.inputs : val[k][n] = env[n]
                     /\ \A n \in M : val[k + 1][n] = Formula(Source(f, n), val[k])
  <2>1. \A n \in f.inputs : val[0][n] = env[n]
    BY <1>1, <1>3 DEF Rounds, Begin
  <2>2. \A k \in Nat : /\ \A n \in f.inputs : val[k + 1][n] = env[n]
                       /\ \A n \in M : val[k + 1][n] = Formula(Source(f, n), val[k])
    BY <1>1, <1>3 DEF Rounds, Round
  <2>3. ASSUME NEW k \in Nat, k # 0 PROVE \A n \in f.inputs : val[k][n] = env[n]
    <3>1. k - 1 \in Nat /\ (k - 1) + 1 = k
      BY <2>3
    <3> QED BY <2>2, <3>1
  <2> QED BY <2>1, <2>2, <2>3
<1>5. \A n \in M : dep[n] \subseteq M
  OBVIOUS
<1>6. ASSUME NEW S \in SUBSET M, S # {} PROVE \E n \in S : dep[n] \cap S = {}
  <2>1. PICK n \in S : \A i \in DOMAIN Source(f, n).args : Source(f, n).args[i].net \notin S
    BY <1>6 DEF Loopless
  <2>2. n \in M /\ nets[n] = {Source(f, n).args[i].net : i \in DOMAIN Source(f, n).args}
    OBVIOUS
  <2>3. nets[n] \cap S = {}
    <3> HIDE DEF nets
    <3> QED BY <2>1, <2>2
  <2>4. dep[n] \cap S = {}
    <3> HIDE DEF nets
    <3> QED BY <2>2, <2>3
  <2> QED BY <2>4
<1>7. \A n \in M : nets[n] \subseteq f.inputs \cup M
  <2>1. ASSUME NEW n \in M PROVE Source(f, n) \in f.assigns
    BY DEF Source, Assigned
  <2> QED BY <2>1 DEF Promising, Legal
<1>8. ASSUME NEW k \in Nat, NEW n \in M, \A u \in dep[n] : val[k + 1][u] = val[k][u]
      PROVE  val[k + 2][n] = val[k + 1][n]
  <2>1. (k + 1) + 1 = k + 2 /\ k + 1 \in Nat
    OBVIOUS
  <2>2. \A u \in nets[n] : val[k + 1][u] = val[k][u]
    BY <1>4, <1>7, <1>8, <2>1
  <2>3. Formula(Source(f, n), val[k + 1]) = Formula(Source(f, n), val[k])
    BY <2>2, FormulaSame
  <2>4. val[(k + 1) + 1][n] = Formula(Source(f, n), val[k + 1])
    BY <1>4, <2>1
  <2> QED BY <1>4, <2>1, <2>3, <2>4
<1> HIDE DEF M, N, dep
<1>9. \A n \in M : val[N + 1][n] = val[N][n]
  <2>1. Grounded(M, dep) /\ Responds(M, val, dep)
    BY <1>5, <1>6, <1>8 DEF Grounded, Responds
  <2> QED BY <1>2, <2>1, RoundsSettle
<1>10. \A n \in M : val[N][n] = Formula(Source(f, n), val[N])
  BY <1>2, <1>4, <1>9
<1> QED BY <1>1, <1>2, <1>4, <1>10 DEF Fulfils, M

(* A formula with zeros and ones for its operands.                         *)
LEMMA FormulaSays ==
    ASSUME NEW f, Promising(f), NEW s \in f.assigns, s.op \notin ValueOps,
           NEW m, \A i \in DOMAIN s.args : m[s.args[i].net] \in Bits,
           NEW l, l = [i \in DOMAIN s.args |-> Lit(s.args[i], m[s.args[i].net])]
    PROVE  Formula(s, m) = Says(s.op, l) /\ Says(s.op, l) \in Bits
<1>1. /\ s.args \in Seq([net : STRING, not : BOOLEAN]) /\ DOMAIN s.args = 1..Len(s.args)
      /\ s.op \in ElemOps \cup ValueOps \cup {"Assign", "Maj"}
  BY ArgsFacts
<1>2. \A i \in DOMAIN s.args : l[i] = Lit(s.args[i], m[s.args[i].net]) /\ l[i] \in Bits
  BY LitBits
<1>3. DOMAIN l = DOMAIN s.args /\ Len(l) = Len(s.args)
  <2>1. DOMAIN l = DOMAIN s.args /\ Len(s.args) \in Nat
    BY <1>1
  <2> QED BY <1>1, <2>1
<1> DEFINE lit(arg) == IF arg.not THEN Invert(m[arg.net]) ELSE m[arg.net]
           of(n, ones) ==
             CASE s.op = "Assign" -> Bit(ones = 1)
               [] s.op = "And"  -> Bit(ones = n)
               [] s.op = "Nand" -> Bit(ones # n)
               [] s.op = "Or"   -> Bit(ones > 0)
               [] s.op = "Nor"  -> Bit(ones = 0)
               [] s.op = "Xor"  -> Bit(ones % 2 = 1)
               [] s.op = "Xnor" -> Bit(ones % 2 = 0)
               [] s.op = "Maj"  -> Bit(ones >= 2)
           ones == Cardinality({i \in DOMAIN s.args : lit(s.args[i]) = "1"})
           marks == Cardinality({i \in DOMAIN l : l[i] = "1"})
<1>4. Formula(s, m) = IF \E i \in DOMAIN s.args : lit(s.args[i]) = Unknown THEN Unknown
                      ELSE of(Len(s.args), ones)
  BY DEF Formula
<1>5. Says(s.op, l) = of(Len(l), marks)
  BY DEF Says
<1>6. \A i \in DOMAIN s.args : lit(s.args[i]) = l[i]
  BY <1>2 DEF Lit
<1>7. ~\E i \in DOMAIN s.args : lit(s.args[i]) = Unknown
  <2>1. Unknown \notin Bits
    BY DEF Unknown, Bits
  <2> HIDE DEF lit
  <2> SUFFICES ASSUME NEW i \in DOMAIN s.args, lit(s.args[i]) = Unknown PROVE FALSE
    OBVIOUS
  <2>2. lit(s.args[i]) = l[i]
    BY <1>6
  <2>3. l[i] \in Bits
    BY <1>2
  <2> QED BY <2>1, <2>2, <2>3
<1>8. {i \in DOMAIN s.args : lit(s.args[i]) = "1"} = {i \in DOMAIN l : l[i] = "1"}
  BY <1>3, <1>6
<1>9. ones = marks
  BY <1>8
<1>10. of(Len(l), marks) \in Bits
  <2> DEFINE n == Len(l)
  <2>1. \A b : Bit(b) \in Bits
    BY DEF Bit, Bits
  <2> HIDE DEF ones, marks, n
  <2>2. \/ s.op = "Assign" \/ s.op = "And" \/ s.op = "Nand" \/ s.op = "Or" \/ s.op = "Nor"
        \/ s.op = "Xor" \/ s.op = "Xnor" \/ s.op = "Maj"
    BY <1>1 DEF ElemOps
  <2>3. of(n, marks) \in Bits
    BY <2>1, <2>2
  <2> QED BY <2>3 DEF n
<1> HIDE DEF of, ones, marks, lit
<1>11. of(Len(s.args), ones) = of(Len(l), marks)
  BY <1>3, <1>9
<1> QED BY <1>4, <1>5, <1>7, <1>10, <1>11

(* Literals are zeros and ones.                                            *)
LEMMA LiteralBits ==
    ASSUME NEW f, Promising(f), NEW s \in f.assigns, s.op \in ValueOps
    PROVE  Literal(s.value) \in Bits
<1>1. Plain(s.value) /\ s.value.digits \in Seq(STRING) \ {<<>>}
  BY NetFacts DEF Promising, Legal, WellFormed
<1> QED BY <1>1, LiteralIsRead

\* In the values val the nets N have the values m gives them.
Agree(c, val, m, N) == \A n \in N : val[Pl(c, n)] = m[n] /\ m[n] \in Bits

(* The vertices of the nets have the values the file gives the nets.       *)
LEMMA GraphAgrees ==
    ASSUME NEW f, Promising(f), Loopless(f), NEW c, c.lost \subseteq {"And", "Or"},
           NEW X, Reads(c, f, {}, X), NEW env \in [f.inputs -> Bits],
           NEW val, Fits(c, X, env, val), NEW m, Fulfils(f, env, m)
    PROVE  Agree(c, val, m, f.inputs \cup Assigned(f))
<1>1. ASSUME NEW n \in f.inputs PROVE val[Pl(c, n)] = m[n] /\ m[n] \in Bits
  <2>1. InputAt(c, n)
    BY DEF Reads
  <2>2. PICK x : x = c.verts[Pl(c, n)]
    OBVIOUS
  <2>3. x.type = "input" /\ x.name = n /\ Pl(c, n) \in DOMAIN c.verts
    BY <2>1, <2>2 DEF InputAt, Live, Inside, Pl
  <2>4. Pl(c, n) \notin X
    BY <2>2, <2>3 DEF Reads
  <2>5. val[Pl(c, n)] = Value(x, env, At(val, x.ins))
    BY <2>2, <2>3, <2>4 DEF Fits
  <2>6. Value(x, env, At(val, x.ins)) = env[n]
    BY <2>3 DEF Value
  <2> QED BY <2>5, <2>6 DEF Fulfils
<1> DEFINE Bad == {n \in Assigned(f) : ~(val[Pl(c, n)] = m[n] /\ m[n] \in Bits)}
<1>2. Bad = {}
  <2> SUFFICES ASSUME Bad # {} PROVE FALSE
    OBVIOUS
  <2>1. PICK n \in Bad : \A i \in DOMAIN Source(f, n).args : Source(f, n).args[i].net \notin Bad
    BY DEF Loopless
  <2>2. PICK s \in f.assigns : s = Source(f, n) /\ s.lhs = n
    BY DEF Source, Assigned
  <2>3. n \in Assigned(f) /\ ~(val[Pl(c, n)] = m[n] /\ m[n] \in Bits)
    BY <2>1
  <2>4. ASSUME NEW i \in DOMAIN s.args
        PROVE  val[Pl(c, s.args[i].net)] = m[s.args[i].net] /\ m[s.args[i].net] \in Bits
    <3>1. s.args[i].net \in f.inputs \cup Assigned(f) /\ s.args[i].net \notin Bad
      BY <2>1, <2>2 DEF Promising, Legal
    <3> QED BY <1>1, <3>1
  <2> HIDE DEF Bad
  <2>5. Computes(c, X, Pl(c, n), s)
    BY <2>2 DEF Reads, Said
  <2>6. val[Pl(c, n)] = IF s.op \in ValueOps THEN Literal(s.value) ELSE Says(s.op, Lits(c, val, s))
    BY <2>4, <2>5 DEF Computes
  <2>7. m[n] = Formula(s, m)
    BY <2>2, <2>3 DEF Fulfils
  <2>8. CASE s.op \in ValueOps
    <3>1. Formula(s, m) = Literal(s.value)
      BY <2>8 DEF Formula
    <3> QED BY <2>3, <2>6, <2>7, <2>8, <3>1, LiteralBits
  <2>9. CASE s.op \notin ValueOps
    <3>1. PICK l : l = Lits(c, val, s)
      OBVIOUS
    <3>2. l = [i \in DOMAIN s.args |-> Lit(s.args[i], m[s.args[i].net])]
      BY <2>4, <3>1 DEF Lits
    <3>3. \A i \in DOMAIN s.args : m[s.args[i].net] \in Bits
      BY <2>4
    <3>4. Formula(s, m) = Says(s.op, l) /\ Says(s.op, l) \in Bits
      BY <2>9, <3>2, <3>3, FormulaSays
    <3> QED BY <2>3, <2>6, <2>7, <2>9, <3>1, <3>4
  <2> QED BY <2>8, <2>9
<1>3. \A n \in Assigned(f) : val[Pl(c, n)] = m[n] /\ m[n] \in Bits
  BY <1>2
<1> QED BY <1>1, <1>3 DEF Agree

\* What is said of a finished graph: its outputs have the values the file
\* gives them.
Faithful(f, verts, lost) ==
    Promising(f) /\ Loopless(f) /\ lost \subseteq {"And", "Or"} =>
      \A env \in [f.inputs -> Bits] :
        \A v \in DOMAIN Simulated(verts, env) :
          verts[v].type = "output" => Simulated(verts, env)[v] = Meaning(f, env)[verts[v].name]

LEMMA ReadsFaithful ==
    ASSUME NEW f, NEW c, Promising(f) => \E X : Reads(c, f, {}, X)
    PROVE  Faithful(f, c.verts, c.lost)
<1> SUFFICES ASSUME Promising(f), Loopless(f), c.lost \subseteq {"And", "Or"},
                    NEW env \in [f.inputs -> Bits],
                    NEW v \in DOMAIN Simulated(c.verts, env), c.verts[v].type = "output"
             PROVE  Simulated(c.verts, env)[v] = Meaning(f, env)[c.verts[v].name]
  BY DEF Faithful
<1>1. PICK X : Reads(c, f, {}, X)
  OBVIOUS
<1>2. PICK val : val = Simulated(c.verts, env)
  OBVIOUS
<1>3. PICK m : m = Meaning(f, env)
  OBVIOUS
<1>4. Fits(c, X, env, val) /\ DOMAIN val = DOMAIN c.verts
  BY <1>1, <1>2, SimulatedFits
<1>5. Fulfils(f, env, m)
  BY <1>3, MeaningFulfils
<1>6. Agree(c, val, m, f.inputs \cup Assigned(f))
  BY <1>1, <1>4, <1>5, GraphAgrees
<1>7. PICK n : n = c.verts[v].name
  OBVIOUS
<1>8. n \in f.outputs /\ Pl(c, n) = v
  BY <1>1, <1>2, <1>4, <1>7 DEF Reads, OutputAt
<1>9. n \in Assigned(f)
  BY <1>8 DEF Promising, Legal
<1>10. val[Pl(c, n)] = m[n]
  BY <1>6, <1>9 DEF Agree
<1> QED BY <1>2, <1>3, <1>7, <1>8, <1>10

-----------------------------------------------------------------------------
(* The invariant.                                                          *)

\* How far the file f has got in the context c, when the lists U and the
\* assignments P are to come.
Progress(c, f, U, P) ==
    c.status = "ok" /\ Promising(f) =>
      \/ P = f.assigns /\ Listed(c, f, U)
      \/ U = {} /\ \E X : Reads(c, f, P, X)

\* A graph d_graphs may hold.
Finished(g) == g.file \in AllFiles /\ Faithful(g.file, g.verts, g.lost)

\* The graph being read is not one of those kept, names point to others only
\* when they are gone.
Apart ==
    /\ ctx.graph \in Nat
    /\ ctx.kept \subseteq 0..ctx.graph
    /\ \A name \in DOMAIN graphs : graphs[name].graph \in 0..ctx.graph
    /\ Owned(ctx, ctx.graph, ctx.kept)
    /\ stage = "module" => ctx.graph \notin ctx.kept

MeaningInv ==
    /\ ReaderInv
    /\ Apart
    /\ stage = "module" => Progress(ctx, File, undeclared, pending)
    /\ \A name \in DOMAIN graphs : Finished(graphs[name])

LEMMA InitMeaning == Init => MeaningInv
<1> HAVE Init
<1>1. ReaderInv
  BY InitReader
<1>2. stage = "idle" /\ ctx = Fresh /\ DOMAIN graphs = {}
  BY DEF Init
<1>3. /\ ctx.graph = 0 /\ ctx.kept = {} /\ ctx.names = <<>> /\ DOMAIN ctx.names = {} /\ Shaped(ctx)
  BY <1>2 DEF Fresh, Shaped
<1>4. Owned(ctx, ctx.graph, ctx.kept)
  BY <1>3 DEF Owned
<1>5. Apart
  BY <1>2, <1>3, <1>4 DEF Apart
<1> QED BY <1>1, <1>2, <1>5 DEF MeaningInv

(* A module begins: what names are left point to graphs that are gone.     *)
LEMMA HeaderMeans ==
    ASSUME MeaningInv, OnModuleHeader
    PROVE  Apart' /\ Progress(ctx', File', undeclared', pending')
<1>1. /\ stage = "idle" /\ stage' = "module" /\ graphs' = graphs
      /\ undeclared' = {"inputs", "outputs", "wires"} /\ pending' = File'.assigns
  BY DEF OnModuleHeader, File
<1>2. PICK g : g = ctx.graph + 1
  OBVIOUS
<1>3. /\ ctx' = [ctx EXCEPT !.graph = g, !.verts = <<>>, !.lost = {}]
      /\ Shaped(ctx) /\ ctx.status = "ok"
  BY <1>1, <1>2 DEF OnModuleHeader, MeaningInv, ReaderInv
<1>4. /\ Shaped(ctx') /\ ctx'.verts = <<>> /\ ctx'.names = ctx.names /\ ctx'.status = "ok"
      /\ ctx'.graph = g /\ ctx'.kept = ctx.kept
  BY <1>3 DEF Shaped
<1>5. /\ ctx.graph \in Nat /\ ctx.kept \subseteq 0..ctx.graph
      /\ \A name \in DOMAIN graphs : graphs[name].graph \in 0..ctx.graph
      /\ ctx.names = [n \in DOMAIN ctx.names |-> ctx.names[n]]
      /\ \A n \in DOMAIN ctx.names : ctx.names[n][1] \in (0..ctx.graph) \ ctx.kept
  BY DEF MeaningInv, Apart, Owned, Ids
<1>6. g \in Nat /\ g \notin 0..ctx.graph /\ 0..ctx.graph \subseteq 0..g
  BY <1>2, <1>5
<1>7. \A n \in DOMAIN ctx'.names : ctx'.names[n][1] \in (0..g) \ ctx'.kept
  BY <1>4, <1>5, <1>6
<1>8. Owned(ctx', ctx'.graph, ctx'.kept)
  BY <1>4, <1>5, <1>7 DEF Owned, Ids
<1>9. Apart'
  <2>1. ctx'.kept \subseteq 0..g /\ g \notin ctx'.kept
    BY <1>4, <1>5, <1>6
  <2>2. \A name \in DOMAIN graphs' : graphs'[name].graph \in 0..g
    BY <1>1, <1>5, <1>6
  <2> QED BY <1>4, <1>6, <1>8, <2>1, <2>2 DEF Apart
<1>10. \A n \in DOMAIN ctx'.names : Freed(ctx', ctx'.names[n]) /\ ~Inside(ctx', ctx'.names[n])
  BY <1>4, <1>5, <1>6 DEF Freed, Inside
<1>11. DOMAIN ctx'.verts = {} /\ ctx'.verts \in Seq(Vertices)
  BY <1>4
<1>12. Whole(ctx')
  BY <1>4, <1>5, <1>10, <1>11 DEF Whole
<1>13. OnLists(File', undeclared') = {}
  BY <1>1 DEF OnLists, Reported
<1>14. Listed(ctx', File', undeclared')
  BY <1>10, <1>11, <1>12, <1>13 DEF Listed, Live
<1> QED BY <1>1, <1>9, <1>14 DEF Progress

(* A step within a module leaves d_graphs and the graph being read alone.  *)
LEMMA WithinModule ==
    ASSUME MeaningInv, ReaderInv', stage = "module", stage' = "module", graphs' = graphs,
           Owned(ctx', ctx.graph, ctx.kept), Progress(ctx', File', undeclared', pending')
    PROVE  MeaningInv'
<1>1. ctx'.graph = ctx.graph /\ ctx'.kept = ctx.kept
  BY DEF Owned
<1>2. Apart'
  BY <1>1 DEF MeaningInv, Apart
<1> QED BY <1>2 DEF MeaningInv

(* In a module names and the graph being read are apart from what is kept. *)
LEMMA ModuleFacts ==
    ASSUME MeaningInv, stage = "module"
    PROVE  /\ Owned(ctx, ctx.graph, ctx.kept) /\ ctx.graph \in Ids(ctx.graph, ctx.kept)
           /\ Progress(ctx, File, undeclared, pending)
           /\ File \in AllFiles /\ pending \subseteq File.assigns
<1>1. queue \in Seq(AllFiles) /\ queue # <<>>
  BY DEF MeaningInv, ReaderInv
<1>2. File \in AllFiles
  BY <1>1 DEF File
<1>3. /\ ctx.graph \in Nat /\ ctx.graph \notin ctx.kept /\ Owned(ctx, ctx.graph, ctx.kept)
      /\ Progress(ctx, File, undeclared, pending) /\ pending \subseteq File.assigns
  BY DEF MeaningInv, Apart, ReaderInv
<1>4. ctx.graph \in 0..ctx.graph
  BY <1>3
<1> QED BY <1>2, <1>3, <1>4 DEF Ids

(* The list of this kind has vertices of this type.                        *)
Lines(f, kind, type, gate, nets) ==
    \/ kind = "inputs" /\ nets = f.inputs /\ type = "input" /\ gate = ""
    \/ kind = "outputs" /\ nets = f.outputs /\ type = "output" /\ gate = ""
    \/ kind = "wires" /\ nets = f.wires /\ type = "gate" /\ gate = "Default"

LEMMA LinesFacts ==
    ASSUME NEW f, Promising(f), NEW kind, NEW type, NEW gate, NEW nets, Lines(f, kind, type, gate, nets),
           NEW U, kind \in U
    PROVE  /\ IsFiniteSet(nets) /\ nets \subseteq Names /\ type \in Types /\ gate \in Gates
           /\ Lists(f, U \ {kind}, type, gate, nets)
           /\ nets \cap OnLists(f, U) = {}
           /\ OnLists(f, U \ {kind}) \subseteq OnLists(f, U) \cup nets
<1>1. IsFiniteSet(nets) /\ nets \subseteq Nets(f)
  <2>1. WellFormed(f) /\ f.inputs \subseteq Nets(f) /\ f.outputs \subseteq Nets(f) /\ f.wires \subseteq Nets(f)
    BY NetFacts
  <2>2. IsFiniteSet(f.inputs) /\ IsFiniteSet(f.outputs) /\ IsFiniteSet(f.wires)
    BY <2>1 DEF WellFormed
  <2>3. nets = f.inputs \/ nets = f.outputs \/ nets = f.wires
    BY DEF Lines
  <2> QED BY <2>1, <2>2, <2>3
<1>2. nets \subseteq Names
  BY <1>1, NetFacts
<1>3. type \in Types /\ gate \in Gates
  BY DEF Lines, Types, Gates
<1>4. f.inputs \cap (f.wires \cup f.outputs) = {} /\ f.wires \cap f.outputs = {}
  BY DEF Promising, Legal
<1>5. nets \cap OnLists(f, U) = {}
  BY <1>4 DEF Lines, OnLists, Reported
<1>6. OnLists(f, U \ {kind}) \subseteq OnLists(f, U) \cup nets
  BY DEF Lines, OnLists, Reported
<1>7. Lists(f, U \ {kind}, type, gate, nets)
  <2> SUFFICES ASSUME NEW n \in nets PROVE FromList(f, U \ {kind}, Vertex(type, gate, n))
    BY DEF Lists
  <2>1. PICK x : x = Vertex(type, gate, n)
    OBVIOUS
  <2>2. x.type = type /\ x.gate = gate /\ x.name = n
    BY <2>1 DEF Vertex
  <2>3. FromList(f, U \ {kind}, x)
    BY <2>2 DEF Lines, FromList, Reported
  <2> QED BY <2>1, <2>3
<1> QED BY <1>1, <1>2, <1>3, <1>5, <1>6, <1>7

LEMMA DeclarationMeans ==
    ASSUME MeaningInv, ReaderInv', NEW kind, NEW type, NEW gate, NEW nets,
           Declaration(kind, type, gate, nets), Lines(File, kind, type, gate, nets)
    PROVE  MeaningInv'
<1>1. /\ stage = "module" /\ stage' = "module" /\ graphs' = graphs /\ File' = File
      /\ kind \in undeclared /\ undeclared' = undeclared \ {kind} /\ pending' = pending
      /\ ctx.status = "ok"
  BY DEF Declaration, File
<1>2. ctx' = Declared(ctx, type, gate, nets) \/ ctx' = Ended(ctx, "error")
  BY DEF Declaration
<1>3. Owned(ctx', ctx.graph, ctx.kept)
  BY <1>1, <1>2, ModuleFacts, OwnedDeclared, OwnedEnded
<1>4. Progress(ctx', File, undeclared \ {kind}, pending)
  <2> SUFFICES ASSUME ctx'.status = "ok", Promising(File)
               PROVE  pending = File.assigns /\ Listed(ctx', File, undeclared \ {kind})
    BY DEF Progress
  <2>1. ctx' # Ended(ctx, "error")
    <3>1. Shaped(ctx)
      BY DEF MeaningInv, ReaderInv
    <3>2. Ended(ctx, "error").status = "error"
      BY <3>1 DEF Ended, Shaped
    <3> QED BY <3>2
  <2>2. ctx' = Declared(ctx, type, gate, nets)
    BY <1>2, <2>1
  <2>3. pending = File.assigns /\ Listed(ctx, File, undeclared)
    BY <1>1, ModuleFacts DEF Progress
  <2>4. Whole(ctx)
    BY <2>3 DEF Listed
  <2> DEFINE V == undeclared \ {kind}
             f == File
  <2>5. /\ IsFiniteSet(nets) /\ nets \subseteq Names /\ type \in Types /\ gate \in Gates
        /\ Lists(f, V, type, gate, nets)
        /\ nets \cap OnLists(f, undeclared) = {}
        /\ OnLists(f, V) \subseteq OnLists(f, undeclared) \cup nets
        /\ V \subseteq undeclared
    BY <1>1, LinesFacts
  <2>6. Enlarged(ctx, ctx', type, gate, nets)
    BY <2>2, <2>4, <2>5, DeclaredEffect
  <2> HIDE DEF V, f
  <2>7. Listed(ctx, f, undeclared)
    BY <2>3 DEF f
  <2>8. Listed(ctx', f, V)
    BY <2>5, <2>6, <2>7, ListedDeclared
  <2> QED BY <2>3, <2>8 DEF f, V
<1> QED BY <1>1, <1>3, <1>4, WithinModule

LEMMA AssignmentMeans ==
    ASSUME MeaningInv, ReaderInv', NEW s \in pending, Assignment(s), Reports(ctx, ctx', s)
    PROVE  MeaningInv'
<1>1. /\ stage = "module" /\ stage' = "module" /\ graphs' = graphs /\ File' = File
      /\ undeclared = {} /\ undeclared' = {} /\ pending' = pending \ {s}
      /\ ctx.status = "ok" /\ Ready(s)
  BY DEF Assignment, File
<1>2. Owned(ctx', ctx.graph, ctx.kept)
  BY <1>1, ModuleFacts, OwnedReports
<1>3. Progress(ctx', File, {}, pending \ {s})
  <2> SUFFICES ASSUME ctx'.status = "ok", Promising(File)
               PROVE  \E X : Reads(ctx', File, pending \ {s}, X)
    BY DEF Progress
  <2>1. pending \subseteq File.assigns
    BY <1>1, ModuleFacts
  <2>2. \/ pending = File.assigns /\ Listed(ctx, File, {})
        \/ \E X : Reads(ctx, File, pending, X)
    BY <1>1, ModuleFacts DEF Progress
  <2>3. \E X : Reads(ctx, File, pending, X)
    BY <2>2, ListedReads
  <2>4. PICK X : Reads(ctx, File, pending, X)
    BY <2>3
  <2>5. InTime(File, pending, s)
    BY <1>1 DEF Ready, InTime
  <2> QED BY <2>1, <2>4, <2>5, StatementReads
<1> QED BY <1>1, <1>2, <1>3, WithinModule

(* A graph that is finished says what its file says.                       *)
LEMMA EndmoduleMeans ==
    ASSUME MeaningInv, ReaderInv', OnEndmodule
    PROVE  MeaningInv'
<1>1. /\ stage = "module" /\ stage' = "idle" /\ undeclared = {} /\ pending = {} /\ ctx.status = "ok"
      /\ Shaped(ctx)
  BY DEF OnEndmodule, MeaningInv, ReaderInv
<1>2. PICK new : new = [file |-> File, verts |-> ctx.verts, lost |-> ctx.lost, graph |-> ctx.graph]
  OBVIOUS
<1>3. \A name \in DOMAIN graphs' : graphs'[name] = new \/ (name \in DOMAIN graphs /\ graphs'[name] = graphs[name])
  <2>1. graphs' = Entered(graphs, File.name, new)
    BY <1>2 DEF OnEndmodule
  <2> QED BY <2>1 DEF Entered
<1>4. Progress(ctx, File, {}, {}) /\ File \in AllFiles
  BY <1>1, ModuleFacts
<1>5. Promising(File) => \E X : Reads(ctx, File, {}, X)
  <2> SUFFICES ASSUME Promising(File) PROVE \E X : Reads(ctx, File, {}, X)
    OBVIOUS
  <2>1. \/ {} = File.assigns /\ Listed(ctx, File, {})
        \/ \E X : Reads(ctx, File, {}, X)
    BY <1>1, <1>4 DEF Progress
  <2>2. Listed(ctx, File, {}) => \E X : Reads(ctx, File, File.assigns, X)
    BY ListedReads
  <2> QED BY <2>1, <2>2
<1>6. Faithful(File, ctx.verts, ctx.lost)
  BY <1>5, ReadsFaithful
<1>7. new.file = File /\ new.verts = ctx.verts /\ new.lost = ctx.lost /\ new.graph = ctx.graph
  BY <1>2
<1>8. Finished(new)
  BY <1>4, <1>6, <1>7 DEF Finished
<1>9. \A name \in DOMAIN graphs' : Finished(graphs'[name])
  BY <1>3, <1>8 DEF MeaningInv
<1>10. PICK kept : kept = {graphs'[n].graph : n \in DOMAIN graphs'}
  OBVIOUS
<1>11. ctx' = [ctx EXCEPT !.names = <<>>, !.kept = kept]
  BY <1>10 DEF OnEndmodule, NamesAfter
<1>12. /\ Shaped(ctx') /\ ctx'.names = <<>> /\ DOMAIN ctx'.names = {}
       /\ ctx'.graph = ctx.graph /\ ctx'.kept = kept
  <2>1. Shaped(ctx') /\ ctx'.names = <<>>
    BY <1>1, <1>11 DEF Shaped
  <2>2. ctx'.graph = ctx.graph /\ ctx'.kept = kept
    BY <1>1, <1>11 DEF Shaped
  <2>3. DOMAIN ctx'.names = {}
    BY <2>1
  <2> QED BY <2>1, <2>2, <2>3
<1>13. ctx.graph \in Nat /\ \A name \in DOMAIN graphs : graphs[name].graph \in 0..ctx.graph
  BY DEF MeaningInv, Apart
<1>14. \A name \in DOMAIN graphs' : graphs'[name].graph \in 0..ctx.graph
  <2>1. new.graph \in 0..ctx.graph
    BY <1>7, <1>13
  <2> QED BY <1>3, <1>13, <2>1
<1>15. kept \subseteq 0..ctx.graph
  BY <1>10, <1>14
<1>16. Owned(ctx', ctx'.graph, ctx'.kept)
  BY <1>12 DEF Owned
<1>17. Apart'
  BY <1>1, <1>12, <1>13, <1>14, <1>15, <1>16 DEF Apart
<1> QED BY <1>1, <1>9, <1>17 DEF MeaningInv

LEMMA FailureMeans ==
    ASSUME MeaningInv, ReaderInv', ReadVerilogFails
    PROVE  MeaningInv'
<1>1. stage' = "idle" /\ graphs' = graphs /\ ctx' = Ended(ctx, "ok")
  BY DEF ReadVerilogFails, Ended
<1>2. Owned(ctx', ctx.graph, ctx.kept)
  BY <1>1, OwnedEnded DEF MeaningInv, Apart
<1>3. ctx'.graph = ctx.graph /\ ctx'.kept = ctx.kept
  BY <1>2 DEF Owned
<1>4. Apart'
  BY <1>1, <1>2, <1>3 DEF MeaningInv, Apart
<1> QED BY <1>1, <1>4 DEF MeaningInv

LEMMA NextMeaning == MeaningInv /\ [Next]_vars => MeaningInv'
<1> SUFFICES ASSUME MeaningInv, [Next]_vars PROVE MeaningInv'
  OBVIOUS
<1>1. ReaderInv'
  BY NextReader DEF MeaningInv
<1>2. CASE OnModuleHeader
  <2>1. Apart' /\ Progress(ctx', File', undeclared', pending')
    BY <1>2, HeaderMeans
  <2>2. graphs' = graphs
    BY <1>2 DEF OnModuleHeader
  <2> QED BY <1>1, <2>1, <2>2 DEF MeaningInv
<1>3. CASE OnInputs
  <2> DEFINE type == "input"
             gate == ""
  <2>1. Declaration("inputs", type, gate, File.inputs) /\ Lines(File, "inputs", type, gate, File.inputs)
    BY <1>3 DEF OnInputs, Lines
  <2> HIDE DEF type, gate
  <2> QED BY <1>1, <2>1, DeclarationMeans
<1>4. CASE OnOutputs
  <2> DEFINE type == "output"
             gate == ""
  <2>1. Declaration("outputs", type, gate, File.outputs) /\ Lines(File, "outputs", type, gate, File.outputs)
    BY <1>4 DEF OnOutputs, Lines
  <2> HIDE DEF type, gate
  <2> QED BY <1>1, <2>1, DeclarationMeans
<1>5. CASE OnWires
  <2> DEFINE type == "gate"
             gate == "Default"
  <2>1. Declaration("wires", type, gate, File.wires) /\ Lines(File, "wires", type, gate, File.wires)
    BY <1>5 DEF OnWires, Lines
  <2> HIDE DEF type, gate
  <2> QED BY <1>1, <2>1, DeclarationMeans
<1>6. ASSUME NEW s \in pending, OnParameter(s) \/ OnAssign(s) \/ OnElem(s) \/ OnMaj3(s)
      PROVE  MeaningInv'
  <2>1. Assignment(s)
    BY <1>6 DEF OnParameter, OnAssign, OnElem, OnMaj3
  <2>2. Reports(ctx, ctx', s)
    BY <1>6 DEF OnParameter, OnAssign, OnElem, OnMaj3, Reports, ValueOps
  <2> QED BY <1>1, <2>1, <2>2, AssignmentMeans
<1>7. CASE OnEndmodule
  BY <1>1, <1>7, EndmoduleMeans
<1>8. CASE ReadVerilogFails
  BY <1>1, <1>8, FailureMeans
<1>9. CASE UNCHANGED vars
  BY <1>9 DEF vars, MeaningInv, ReaderInv, Apart, File
<1> QED BY <1>2, <1>3, <1>4, <1>5, <1>6, <1>7, <1>8, <1>9 DEF Next

-----------------------------------------------------------------------------
(* The theorems.                                                           *)

(* What has been reported of a legal file is what the graph says of it,    *)
(* its settled vertices go back to nets that are assigned, and no name     *)
(* points into a graph that is kept.                                       *)
THEOREM MeaningInvariant == Spec => []MeaningInv
BY InitMeaning, NextMeaning, PTL DEF Spec

(* The outputs of a graph that was read have, for every vector, the values *)
(* the assignments of a legal file without loops give them.                *)
THEOREM ReadAsWritten == Spec => []OutputsAsWritten
<1>1. MeaningInv => OutputsAsWritten
  <2> SUFFICES ASSUME MeaningInv, NEW name \in DOMAIN graphs, NEW g, g = graphs[name],
                      Legal(g.file), Unreserved(g.file), OutputsByGates(g.file), Loopless(g.file),
                      g.lost \subseteq {"And", "Or"}, NEW env \in [g.file.inputs -> {"0", "1"}],
                      NEW v \in DOMAIN Simulated(g.verts, env), g.verts[v].type = "output"
               PROVE  Simulated(g.verts, env)[v] = Meaning(g.file, env)[g.verts[v].name]
    BY DEF OutputsAsWritten
  <2>1. Finished(g)
    BY DEF MeaningInv
  <2>2. Promising(g.file) /\ Faithful(g.file, g.verts, g.lost)
    BY <2>1 DEF Finished, Promising
  <2>3. env \in [g.file.inputs -> Bits]
    BY DEF Bits
  <2> QED BY <2>2, <2>3 DEF Faithful
<1> QED BY <1>1, MeaningInvariant, PTL
=============================================================================
