------------------------- MODULE GraphReader_proofs -------------------------
(***************************************************************************)
(* The reader gets through every legal file, whatever the order of the     *)
(* callbacks and whatever was read before, for all files the parser can    *)
(* report: proof of LegalFilesAreRead.  Then what the file says and what   *)
(* the graph computes: values that settle, what gates make of zeros and    *)
(* ones, the graph between two assignments, and what literals and gates    *)
(* add to it, which GraphReader_meaning rests on.                          *)
(***************************************************************************)
EXTENDS GraphReader, SequenceLemmas

Types == {"input", "output", "gate", "constant", "subGraph"}
Gates == ElemOps \cup {"", "Default", "Buf", "Not", "0", "1", Unknown}
Names == {"", "Majority3"} \cup UNION {Nets(f) \cup {NotName(n) : n \in Nets(f)}
                                              \cup {GateName(n) : n \in Nets(f)} : f \in AllFiles}

Vertices == [type : Types, gate : Gates, name : Names, ins : Seq(Nat), outs : SUBSET Nat]

\* A context has its fields, whatever they hold.
Shaped(c) ==
    c = [graph |-> c.graph, names |-> c.names, verts |-> c.verts, kept |-> c.kept,
         at |-> c.at, lost |-> c.lost, status |-> c.status]

\* v is a vertex of the graph being read.
Inside(c, v) == v[1] = c.graph /\ v[2] \in DOMAIN c.verts

(* Nothing has gone wrong, and every name stands for a vertex of the graph *)
(* being read, never for one of a graph already freed.                     *)
Sound(c) ==
    /\ Shaped(c)
    /\ c.status = "ok"
    /\ c.verts \in Seq(Vertices)
    /\ c.names = [n \in DOMAIN c.names |-> c.names[n]]
    /\ \A n \in DOMAIN c.names : Inside(c, c.names[n])

(* The wire w waits for its assignment: a gate without type and drivers    *)
(* that no other name stands for.                                          *)
Unset(c, w) ==
    /\ w \in DOMAIN c.names
    /\ Vert(c, c.names[w]).type = "gate"
    /\ Vert(c, c.names[w]).gate = "Default"
    /\ Vert(c, c.names[w]).ins = <<>>
    /\ \A n \in DOMAIN c.names : n # w => c.names[n][2] # c.names[w][2]

(* A context in which the names B are known, O are outputs, W wait for     *)
(* their assignment and G are not known.                                   *)
Open(c, B, O, W, G) ==
    /\ Sound(c)
    /\ B \subseteq DOMAIN c.names
    /\ \A o \in O : /\ o \in DOMAIN c.names
                    /\ Vert(c, c.names[o]).type = "output"
                    /\ Vert(c, c.names[o]).gate = ""
    /\ \A w \in W : Unset(c, w)
    /\ G \cap DOMAIN c.names = {}

\* A vertex that may get drivers and a type.
Free(c, v, W) == Inside(c, v) /\ \A w \in W : c.names[w][2] # v[2]

(* From c to d vertices and names were added, none has changed its type.   *)
Grown(c, d, W) ==
    /\ d.graph = c.graph
    /\ DOMAIN c.names \subseteq DOMAIN d.names
    /\ \A v : Inside(c, v) => /\ Inside(d, v)
                              /\ Vert(d, v).type = Vert(c, v).type
                              /\ Vert(d, v).gate = Vert(c, v).gate
    /\ \A v : Free(c, v, W) => Free(d, v, W)

-----------------------------------------------------------------------------
(* One operation at a time.                                                *)

LEMMA GrownTwice ==
    ASSUME NEW c, NEW d, NEW e, NEW W, Grown(c, d, W), Grown(d, e, W)
    PROVE  Grown(c, e, W)
BY DEF Grown

(* A new vertex is nobody's yet.                                           *)
LEMMA NewFacts ==
    ASSUME NEW c, NEW B, NEW O, NEW W, NEW G, Open(c, B, O, W, G),
           NEW type \in Types, NEW gate \in Gates, NEW name \in Names,
           NEW d, d = New(c, type, gate, name)
    PROVE  /\ Open(d, B, O, W, G)
           /\ Grown(c, d, W)
           /\ d.names = c.names
           /\ Free(d, d.at, W)
           /\ Vert(d, d.at).type = type /\ Vert(d, d.at).gate = gate /\ Vert(d, d.at).ins = <<>>
           /\ \A v : Inside(c, v) => Vert(d, v) = Vert(c, v)
<1> DEFINE x == Vertex(type, gate, name)
<1>1. /\ Sound(c) /\ Len(c.verts) \in Nat /\ DOMAIN c.verts = 1..Len(c.verts)
  <2>1. Sound(c) /\ c.verts \in Seq(Vertices)
    BY DEF Open, Sound
  <2> QED BY <2>1
<1>0. x \in Vertices
  <2>1. <<>> \in Seq(Nat) /\ {} \in SUBSET Nat
    OBVIOUS
  <2> QED BY <2>1 DEF Vertex, Vertices
<1>2. d = [c EXCEPT !.verts = Append(@, x), !.at = <<c.graph, Len(c.verts) + 1>>]
  BY <1>1 DEF New, After, Sound
<1>3. /\ d.verts = Append(c.verts, x) /\ d.at = <<c.graph, Len(c.verts) + 1>>
      /\ d.graph = c.graph /\ d.names = c.names /\ d.status = "ok" /\ Shaped(d)
  <2> HIDE DEF x
  <2> QED BY <1>0, <1>1, <1>2 DEF Sound, Shaped
<1>4. /\ d.verts \in Seq(Vertices) /\ DOMAIN d.verts = 1..(Len(c.verts) + 1)
      /\ d.verts[Len(c.verts) + 1] = x
      /\ \A k \in DOMAIN c.verts : k \in DOMAIN d.verts /\ d.verts[k] = c.verts[k]
  <2> HIDE DEF x
  <2> QED BY <1>0, <1>1, <1>3 DEF Sound
<1>5. \A v : Inside(c, v) => Inside(d, v) /\ Vert(d, v) = Vert(c, v)
  BY <1>3, <1>4 DEF Inside, Vert
<1>6. Inside(d, d.at) /\ Vert(d, d.at) = x
  BY <1>1, <1>3, <1>4 DEF Inside, Vert
<1>7. \A n \in DOMAIN c.names : Inside(c, c.names[n]) /\ c.names[n][2] # Len(c.verts) + 1
  BY <1>1 DEF Sound, Inside
<1>8. Sound(d)
  BY <1>1, <1>3, <1>4, <1>5 DEF Sound
<1>9. ASSUME NEW w \in W PROVE Unset(d, w) /\ c.names[w][2] # d.at[2]
  <2>1. Unset(c, w) /\ Inside(c, c.names[w])
    BY <1>1 DEF Open, Sound, Unset
  <2> QED BY <1>3, <1>5, <1>7, <2>1 DEF Unset
<1>12. Open(d, B, O, W, G)
  <2>1. ASSUME NEW o \in O PROVE /\ o \in DOMAIN d.names
                                 /\ Vert(d, d.names[o]).type = "output"
                                 /\ Vert(d, d.names[o]).gate = ""
    BY <1>3, <1>5, <1>7 DEF Open
  <2> QED BY <1>3, <1>8, <1>9, <2>1 DEF Open
<1>10. Free(d, d.at, W)
  BY <1>3, <1>6, <1>9 DEF Free
<1>11. Grown(c, d, W)
  BY <1>3, <1>5 DEF Grown, Free
<1>13. Vert(d, d.at).type = type /\ Vert(d, d.at).gate = gate /\ Vert(d, d.at).ins = <<>>
  BY <1>6 DEF Vertex
<1> QED BY <1>3, <1>5, <1>10, <1>11, <1>12, <1>13

(* A name is given to the vertex at hand.                                  *)
LEMMA BindFacts ==
    ASSUME NEW c, NEW B, NEW O, NEW W, NEW G, Open(c, B, O, W, G),
           NEW name, name \notin O \cup W \cup G, Free(c, c.at, W),
           NEW d, d = Bind(c, name)
    PROVE  /\ Open(d, B \cup {name}, O, W, G)
           /\ Grown(c, d, W)
           /\ d.verts = c.verts /\ d.at = c.at
           /\ \A v : Vert(d, v) = Vert(c, v)
<1>1. d = [c EXCEPT !.names = Entered(@, name, c.at)]
  BY DEF Bind, After, Open, Sound
<1>3. /\ d.names = [n \in DOMAIN c.names \cup {name} |-> IF n = name THEN c.at ELSE c.names[n]]
      /\ d.verts = c.verts /\ d.at = c.at /\ d.graph = c.graph /\ d.status = c.status /\ Shaped(d)
  <2> DEFINE t == Entered(c.names, name, c.at)
  <2>1. d = [c EXCEPT !.names = t]
    BY <1>1
  <2> HIDE DEF t
  <2>2. d.names = t /\ d.verts = c.verts /\ d.at = c.at /\ d.graph = c.graph /\ d.status = c.status /\ Shaped(d)
    BY <2>1 DEF Open, Sound, Shaped
  <2> QED BY <2>2 DEF t, Entered
<1>4. \A v : Inside(d, v) <=> Inside(c, v)
  BY <1>3 DEF Inside
<1>5. \A v : Vert(d, v) = Vert(c, v)
  BY <1>3 DEF Vert
<1>6. /\ DOMAIN d.names = {name} \cup DOMAIN c.names /\ d.names[name] = c.at
      /\ \A n \in DOMAIN c.names : n # name => d.names[n] = c.names[n]
  BY <1>3
<1>7. Sound(d)
  BY <1>3, <1>4, <1>6 DEF Open, Sound, Free
<1>8. ASSUME NEW w \in W PROVE Unset(d, w) /\ d.names[w] = c.names[w]
  <2>1. Unset(c, w) /\ w # name /\ d.names[w] = c.names[w] /\ c.at[2] # c.names[w][2]
    BY <1>6 DEF Open, Free, Unset
  <2> QED BY <1>5, <1>6, <2>1 DEF Unset
<1>9. Open(d, B \cup {name}, O, W, G)
  BY <1>5, <1>6, <1>7, <1>8 DEF Open
<1>10. Grown(c, d, W)
  BY <1>3, <1>4, <1>5, <1>6, <1>8 DEF Grown, Free
<1> QED BY <1>3, <1>5, <1>9, <1>10

(* An edge between two vertices of the graph is never refused with a       *)
(* throw when the second may get drivers and is no inverter or buffer that *)
(* has one.                                                                *)
LEMMA AddEdgeFacts ==
    ASSUME NEW c, NEW B, NEW O, NEW W, NEW G, Open(c, B, O, W, G),
           NEW u, Inside(c, u), NEW v, Free(c, v, W), ~Taken(c, v),
           NEW d, d = AddEdge(c, u, v)
    PROVE  /\ Open(d, B, O, W, G)
           /\ Grown(c, d, W)
           /\ d.names = c.names /\ d.at = c.at
<1>1. /\ Sound(c) /\ c.status = "ok" /\ c.verts \in Seq(Vertices)
      /\ u[1] = c.graph /\ u[2] \in DOMAIN c.verts
      /\ v[1] = c.graph /\ v[2] \in DOMAIN c.verts
  BY DEF Open, Sound, Inside, Free
<1>4. ~Freed(c, u) /\ ~Freed(c, v) /\ u[1] = v[1]
  BY <1>1 DEF Freed
<1>2. CASE v[2] \in Vert(c, u).outs
  <2>1. d = Refused(c, v)
    BY <1>1, <1>2, <1>4 DEF AddEdge, After
  <2>2. /\ d.verts = c.verts /\ d.at = c.at /\ d.graph = c.graph /\ d.names = c.names
        /\ d.status = c.status /\ Shaped(d)
    BY <1>1, <2>1 DEF Sound, Shaped, Refused
  <2>3. \A x : (Inside(d, x) <=> Inside(c, x)) /\ Vert(d, x) = Vert(c, x)
    BY <2>2 DEF Inside, Vert
  <2>4. Sound(d)
    BY <1>1, <2>2, <2>3 DEF Sound
  <2>5. ASSUME NEW w \in W PROVE Unset(d, w)
    <3>1. Unset(c, w)
      BY DEF Open
    <3> QED BY <2>2, <2>3, <3>1 DEF Unset
  <2> QED BY <2>2, <2>3, <2>4, <2>5 DEF Open, Grown, Free
<1>3. CASE v[2] \notin Vert(c, u).outs
  <2> DEFINE a == [c.verts EXCEPT ![u[2]].outs = @ \cup {v[2]}]
             b == [a EXCEPT ![v[2]].ins = Append(@, u[2])]
             out == [c EXCEPT !.verts = a]
  <2>0. d = DrivenBy(Drives(c, u, v), u, v)
    BY <1>1, <1>3, <1>4 DEF AddEdge, After
  <2>1. d = [out EXCEPT !.verts[v[2]].ins = Append(@, u[2])]
    BY <2>0 DEF DrivenBy, Drives
  <2>2. Shaped(c)
    BY <1>1 DEF Sound
  <2>3. out.verts = a /\ d = [c EXCEPT !.verts = b]
    <3> HIDE DEF a
    <3>1. out.verts = a /\ Shaped(out)
      BY <2>2 DEF Shaped
    <3> QED BY <2>1, <2>2, <3>1 DEF Shaped
  <2>4. /\ d.verts = b /\ d.at = c.at /\ d.graph = c.graph /\ d.names = c.names
        /\ d.status = c.status /\ Shaped(d)
    <3> HIDE DEF b
    <3> QED BY <2>2, <2>3 DEF Shaped
  <2>5. /\ Len(c.verts) \in Nat /\ DOMAIN c.verts = 1..Len(c.verts)
        /\ c.verts \in [1..Len(c.verts) -> Vertices]
    BY <1>1
  <2>6. /\ a \in [1..Len(c.verts) -> Vertices]
        /\ \A k \in DOMAIN c.verts : /\ a[k].type = c.verts[k].type
                                     /\ a[k].gate = c.verts[k].gate
                                     /\ a[k].ins = c.verts[k].ins
    <3>1. c.verts[u[2]] \in Vertices /\ v[2] \in Nat
      BY <1>1, <2>5
    <3> DEFINE more == c.verts[u[2]].outs \cup {v[2]}
    <3>2. a = [c.verts EXCEPT ![u[2]].outs = more]
      OBVIOUS
    <3>3. more \in SUBSET Nat
      BY <3>1 DEF Vertices
    <3> HIDE DEF a, more
    <3> QED BY <1>1, <2>5, <3>1, <3>2, <3>3 DEF Vertices
  <2>7. /\ b \in [1..Len(c.verts) -> Vertices]
        /\ \A k \in DOMAIN c.verts : /\ b[k].type = a[k].type
                                     /\ b[k].gate = a[k].gate
                                     /\ k # v[2] => b[k].ins = a[k].ins
    <3>1. a[v[2]] \in Vertices /\ u[2] \in Nat /\ Append(a[v[2]].ins, u[2]) \in Seq(Nat)
      <4> HIDE DEF a
      <4>1. a[v[2]] \in Vertices /\ u[2] \in Nat
        BY <1>1, <2>5, <2>6
      <4>2. a[v[2]].ins \in Seq(Nat)
        BY <4>1 DEF Vertices
      <4> QED BY <4>1, <4>2
    <3> DEFINE more == Append(a[v[2]].ins, u[2])
    <3>2. b = [a EXCEPT ![v[2]].ins = more]
      OBVIOUS
    <3> HIDE DEF a, b, more
    <3>3. more \in Seq(Nat)
      BY <3>1 DEF more
    <3> QED BY <1>1, <2>5, <2>6, <3>1, <3>2, <3>3 DEF Vertices
  <2> HIDE DEF a, b, out
  <2>8. d.verts \in Seq(Vertices) /\ DOMAIN d.verts = DOMAIN c.verts
    BY <2>4, <2>5, <2>7
  <2>9. \A x : Inside(d, x) <=> Inside(c, x)
    BY <2>4, <2>8 DEF Inside
  <2>10. \A x : Inside(c, x) => /\ Vert(d, x).type = Vert(c, x).type
                                /\ Vert(d, x).gate = Vert(c, x).gate
                                /\ x[2] # v[2] => Vert(d, x).ins = Vert(c, x).ins
    BY <2>4, <2>6, <2>7 DEF Inside, Vert
  <2>11. Sound(d)
    BY <1>1, <2>4, <2>8, <2>9 DEF Sound
  <2>12. ASSUME NEW w \in W PROVE Unset(d, w)
    <3>1. Unset(c, w) /\ Inside(c, c.names[w]) /\ c.names[w][2] # v[2]
      BY <1>1 DEF Open, Sound, Unset, Free
    <3> QED BY <2>4, <2>10, <3>1 DEF Unset
  <2>13. ASSUME NEW o \in O PROVE /\ o \in DOMAIN d.names
                                  /\ Vert(d, d.names[o]).type = "output"
                                  /\ Vert(d, d.names[o]).gate = ""
    <3>1. /\ o \in DOMAIN c.names /\ Inside(c, c.names[o])
          /\ Vert(c, c.names[o]).type = "output" /\ Vert(c, c.names[o]).gate = ""
      BY <1>1 DEF Open, Sound
    <3> QED BY <2>4, <2>10, <3>1
  <2>14. Open(d, B, O, W, G)
    BY <2>4, <2>11, <2>12, <2>13 DEF Open
  <2>15. Grown(c, d, W)
    BY <2>4, <2>9, <2>10 DEF Grown, Free
  <2> QED BY <2>4, <2>14, <2>15
<1> QED BY <1>2, <1>3

(* A gate without type gets one.                                           *)
LEMMA SetGateFacts ==
    ASSUME NEW c, NEW B, NEW O, NEW W, NEW G, Open(c, B, O, W, G),
           NEW v, Free(c, v, W), Vert(c, v).type = "gate", Vert(c, v).gate = "Default",
           NEW gate \in Gates, NEW survives,
           NEW d, d = SetGateIfDefault(c, v, gate, survives)
    PROVE  /\ Open(d, B, O, W, G)
           /\ Vert(d, v).type = "gate" /\ Vert(d, v).gate = gate
           /\ Vert(d, v).ins = Vert(c, v).ins
           /\ d.names = c.names /\ d.at = c.at
           /\ \A x : (Inside(c, x) => Inside(d, x)) /\ (Free(c, x, W) => Free(d, x, W))
<1>1. /\ Sound(c) /\ Shaped(c) /\ c.status = "ok" /\ c.verts \in Seq(Vertices)
      /\ v[1] = c.graph /\ v[2] \in DOMAIN c.verts
  BY DEF Open, Sound, Inside, Free
<1> DEFINE a == [c.verts EXCEPT ![v[2]].gate = gate]
<1>2. d = [c EXCEPT !.verts = a]
  BY <1>1 DEF SetGateIfDefault, After, Freed, Shaped
<1>3. /\ d.verts = a /\ d.at = c.at /\ d.graph = c.graph /\ d.names = c.names
      /\ d.status = c.status /\ Shaped(d)
  <2> HIDE DEF a
  <2> QED BY <1>1, <1>2 DEF Shaped
<1>4. /\ Len(c.verts) \in Nat /\ DOMAIN c.verts = 1..Len(c.verts)
      /\ c.verts \in [1..Len(c.verts) -> Vertices]
  BY <1>1
<1>5. /\ a \in [1..Len(c.verts) -> Vertices]
      /\ \A k \in DOMAIN c.verts : /\ a[k].type = c.verts[k].type
                                   /\ k # v[2] => a[k].gate = c.verts[k].gate
                                   /\ a[k].ins = c.verts[k].ins
      /\ a[v[2]].gate = gate
  BY <1>1, <1>4 DEF Vertices
<1> HIDE DEF a
<1>6. d.verts \in Seq(Vertices) /\ DOMAIN d.verts = DOMAIN c.verts
  BY <1>3, <1>4, <1>5
<1>7. \A x : (Inside(d, x) <=> Inside(c, x)) /\ (Free(d, x, W) <=> Free(c, x, W))
  BY <1>3, <1>6 DEF Inside, Free
<1>8. \A x : Inside(c, x) => /\ Vert(d, x).type = Vert(c, x).type
                             /\ x[2] # v[2] => Vert(d, x).gate = Vert(c, x).gate
                             /\ Vert(d, x).ins = Vert(c, x).ins
  BY <1>3, <1>5 DEF Inside, Vert
<1>9. Sound(d)
  BY <1>1, <1>3, <1>6, <1>7 DEF Sound
<1>10. ASSUME NEW w \in W PROVE Unset(d, w)
  <2>1. Unset(c, w) /\ Inside(c, c.names[w]) /\ c.names[w][2] # v[2]
    BY <1>1 DEF Open, Sound, Unset, Free
  <2> QED BY <1>3, <1>8, <2>1 DEF Unset
<1>11. ASSUME NEW o \in O PROVE /\ o \in DOMAIN d.names
                                /\ Vert(d, d.names[o]).type = "output"
                                /\ Vert(d, d.names[o]).gate = ""
  <2>1. /\ o \in DOMAIN c.names /\ Inside(c, c.names[o])
        /\ Vert(c, c.names[o]).type = "output" /\ Vert(c, c.names[o]).gate = ""
    BY <1>1 DEF Open, Sound
  <2>2. c.names[o][2] # v[2]
    BY <1>1, <2>1 DEF Vert
  <2> QED BY <1>3, <1>8, <2>1, <2>2
<1>12. Open(d, B, O, W, G)
  BY <1>3, <1>9, <1>10, <1>11 DEF Open
<1>13. Vert(d, v).type = "gate" /\ Vert(d, v).gate = gate /\ Vert(d, v).ins = Vert(c, v).ins
  BY <1>1, <1>3, <1>5 DEF Vert
<1> QED BY <1>3, <1>7, <1>12, <1>13

(* Another vertex is at hand.                                              *)
LEMMA AtFacts ==
    ASSUME NEW c, NEW B, NEW O, NEW W, NEW G, Open(c, B, O, W, G),
           NEW v, NEW d, d = [c EXCEPT !.at = v]
    PROVE  /\ Open(d, B, O, W, G)
           /\ Grown(c, d, W)
           /\ d.verts = c.verts /\ d.at = v /\ d.names = c.names
           /\ \A x : /\ Inside(d, x) <=> Inside(c, x)
                     /\ Free(d, x, W) <=> Free(c, x, W)
                     /\ Vert(d, x) = Vert(c, x)
<1>1. Sound(c) /\ Shaped(c)
  BY DEF Open, Sound
<1>2. /\ d.verts = c.verts /\ d.at = v /\ d.graph = c.graph /\ d.names = c.names
      /\ d.status = c.status /\ Shaped(d)
  BY <1>1 DEF Shaped
<1>3. \A x : /\ Inside(d, x) <=> Inside(c, x)
             /\ Free(d, x, W) <=> Free(c, x, W)
             /\ Vert(d, x) = Vert(c, x)
  BY <1>2 DEF Inside, Vert, Free
<1>4. Sound(d)
  BY <1>1, <1>2, <1>3 DEF Sound
<1>5. ASSUME NEW w \in W PROVE Unset(d, w)
  <2>1. Unset(c, w)
    BY DEF Open
  <2> QED BY <1>2, <1>3, <2>1 DEF Unset
<1>6. Open(d, B, O, W, G)
  BY <1>2, <1>3, <1>4, <1>5 DEF Open
<1> QED BY <1>2, <1>3, <1>6 DEF Grown

(* An operand that is known yields a vertex of the graph; at most its      *)
(* inverter is new.                                                        *)
LEMMA RightHSFacts ==
    ASSUME NEW c, NEW B, NEW O, NEW W, NEW G, Open(c, B, O, W, G),
           NEW arg, arg.net \in B, arg.not \in BOOLEAN,
           NotName(arg.net) \in Names, NotName(arg.net) \notin O \cup W \cup G,
           NEW d, d = RightHS(c, arg)
    PROVE  /\ Open(d, B, O, W, G)
           /\ Grown(c, d, W)
           /\ Inside(d, d.at)
           /\ ~arg.not => d.verts = c.verts
<1>1. /\ Sound(c) /\ Shaped(c) /\ c.status = "ok" /\ arg.net \in DOMAIN c.names
      /\ \A n \in DOMAIN c.names : Inside(c, c.names[n])
  BY DEF Open, Sound
<1>2. ASSUME NEW n \in DOMAIN c.names, d = Lookup(c, n)
      PROVE  Open(d, B, O, W, G) /\ Grown(c, d, W) /\ Inside(d, d.at) /\ d.verts = c.verts
  BY <1>1, <1>2, AtFacts DEF Lookup
<1>3. CASE ~arg.not
  BY <1>1, <1>2, <1>3 DEF RightHS, After
<1>4. CASE arg.not /\ NotName(arg.net) \in DOMAIN c.names
  BY <1>1, <1>2, <1>4 DEF RightHS, After, Inversion
<1>5. CASE arg.not /\ NotName(arg.net) \notin DOMAIN c.names
  <2> DEFINE name == NotName(arg.net)
             new == New(c, "gate", "Not", name)
             bound == Bind(new, name)
  <2>1. d = AddEdge(bound, c.names[arg.net], bound.at)
    BY <1>1, <1>5 DEF RightHS, After, Inversion, Registered
  <2> HIDE DEF name
  <2>2. /\ Open(new, B, O, W, G) /\ Grown(c, new, W) /\ Free(new, new.at, W)
        /\ Vert(new, new.at).ins = <<>>
    <3> HIDE DEF new
    <3>1. name \in Names
      BY DEF name
    <3>2. "gate" \in Types /\ "Not" \in Gates
      BY DEF Types, Gates
    <3> QED BY <3>1, <3>2, NewFacts DEF new
  <2> HIDE DEF new
  <2>3. /\ Open(bound, B \cup {name}, O, W, G) /\ Grown(new, bound, W)
        /\ bound.at = new.at /\ \A v : Vert(bound, v) = Vert(new, v)
    <3>1. name \notin O \cup W \cup G
      BY DEF name
    <3> HIDE DEF bound
    <3>2. bound = Bind(new, name)
      BY DEF bound
    <3> QED BY <2>2, <3>1, <3>2, BindFacts
  <2> HIDE DEF bound
  <2>4. /\ Inside(bound, c.names[arg.net]) /\ Free(bound, bound.at, W)
        /\ ~Taken(bound, bound.at)
    BY <1>1, <2>2, <2>3 DEF Grown, Taken
  <2>5. Open(d, B \cup {name}, O, W, G) /\ Grown(bound, d, W) /\ d.at = bound.at
    BY <2>1, <2>3, <2>4, AddEdgeFacts
  <2>6. Open(d, B, O, W, G)
    BY <2>5 DEF Open
  <2>7. Grown(c, d, W)
    BY <2>2, <2>3, <2>5, GrownTwice
  <2>8. Inside(d, d.at)
    BY <2>4, <2>5 DEF Grown, Free
  <2> QED BY <1>5, <2>6, <2>7, <2>8
<1> QED BY <1>3, <1>4, <1>5

(* An operand is connected to a vertex that may get drivers.               *)
LEMMA ConnectFacts ==
    ASSUME NEW c, NEW B, NEW O, NEW W, NEW G, Open(c, B, O, W, G),
           NEW arg, arg.net \in B, arg.not \in BOOLEAN,
           NotName(arg.net) \in Names, NotName(arg.net) \notin O \cup W \cup G,
           NEW v, Free(c, v, W),
           \/ Vert(c, v).gate \notin {"Buf", "Not"}
           \/ ~arg.not /\ Vert(c, v).ins = <<>>,
           NEW d, d = Connect(c, arg, v)
    PROVE  Open(d, B, O, W, G) /\ Grown(c, d, W)
<1> DEFINE e == RightHS(c, arg)
<1>1. d = AddEdge(e, e.at, v)
  BY DEF Connect
<1> HIDE DEF e
<1>2. /\ Open(e, B, O, W, G) /\ Grown(c, e, W) /\ Inside(e, e.at)
      /\ ~arg.not => e.verts = c.verts
  BY RightHSFacts DEF e
<1>3. Inside(c, v) /\ Free(e, v, W)
  BY <1>2 DEF Grown, Free
<1>4. ~Taken(e, v)
  BY <1>2, <1>3 DEF Taken, Grown, Vert
<1>5. Open(d, B, O, W, G) /\ Grown(e, d, W)
  BY <1>1, <1>2, <1>3, <1>4, AddEdgeFacts
<1> QED BY <1>2, <1>5, GrownTwice

(* Two vertices of the graph become the operands of a new gate.            *)
LEMMA PairFacts ==
    ASSUME NEW c, NEW B, NEW O, NEW W, NEW G, Open(c, B, O, W, G),
           NEW u, NEW w, Inside(c, u), Inside(c, w), NEW gate \in Gates, gate \notin {"Buf", "Not"},
           NEW d, d = Pair(c, gate, u, w)
    PROVE  Open(d, B, O, W, G) /\ Grown(c, d, W) /\ Inside(d, d.at)
<1> DEFINE new == New(c, "gate", gate, "")
           one == AddEdge(new, u, new.at)
<1>1. d = AddEdge(one, w, new.at)
  BY DEF Pair
<1>2. "gate" \in Types /\ gate \in Gates /\ "" \in Names
  BY DEF Types, Names
<1>3. /\ Open(new, B, O, W, G) /\ Grown(c, new, W) /\ Free(new, new.at, W)
      /\ Vert(new, new.at).gate = gate
  <2> DEFINE type == "gate"
             name == ""
  <2>1. new = New(c, type, gate, name) /\ type \in Types /\ gate \in Gates /\ name \in Names
    BY <1>2
  <2> HIDE DEF new, type, name
  <2> QED BY <2>1, NewFacts
<1>4. gate \notin {"Buf", "Not"}
  OBVIOUS
<1> HIDE DEF new
<1>5. Open(one, B, O, W, G) /\ Grown(new, one, W) /\ one.at = new.at
  <2>1. ~Taken(new, new.at) /\ Inside(new, u)
    BY <1>3, <1>4 DEF Taken, Grown
  <2> HIDE DEF one
  <2> QED BY <1>3, <2>1, AddEdgeFacts DEF one
<1> HIDE DEF one
<1>6. Grown(c, one, W)
  BY <1>3, <1>5, GrownTwice
<1>7. Free(one, new.at, W) /\ Inside(one, w) /\ ~Taken(one, new.at)
  BY <1>3, <1>4, <1>5, <1>6 DEF Taken, Grown, Free
<1>8. Open(d, B, O, W, G) /\ Grown(one, d, W) /\ d.at = new.at
  BY <1>1, <1>5, <1>7, AddEdgeFacts
<1>9. Inside(d, d.at)
  BY <1>7, <1>8 DEF Grown, Free
<1> QED BY <1>6, <1>8, <1>9, GrownTwice

(* The gate that gets an assignment: the wire itself or a new gate in      *)
(* front of the output, without type either way.                           *)
LEMMA LeftHSFacts ==
    ASSUME NEW c, NEW B, NEW O, NEW W, NEW G, Open(c, B, O, W, G), NEW net,
           \/ Unset(c, net) /\ net \notin W
           \/ /\ net \in O
              /\ GateName(net) \in Names
              /\ GateName(net) \notin O \cup W \cup G \cup DOMAIN c.names,
           NEW d, d = LeftHS(c, net)
    PROVE  /\ Open(d, B, O, W, G)
           /\ Free(d, d.at, W)
           /\ Vert(d, d.at).type = "gate" /\ Vert(d, d.at).gate = "Default"
<1>1. /\ Sound(c) /\ c.status = "ok"
      /\ \A n \in DOMAIN c.names : Inside(c, c.names[n]) /\ ~Freed(c, c.names[n])
      /\ \A w \in W : Unset(c, w)
  BY DEF Open, Sound, Inside, Freed
<1>2. CASE Unset(c, net) /\ net \notin W
  <2>1. net \in DOMAIN c.names /\ Vert(c, c.names[net]).type # "output"
    BY <1>2 DEF Unset
  <2>2. d = [c EXCEPT !.at = c.names[net]]
    BY <1>1, <2>1 DEF LeftHS, After, Lookup
  <2>3. Free(c, c.names[net], W)
    BY <1>1, <1>2, <2>1 DEF Free, Unset
  <2> QED BY <1>2, <2>2, <2>3, AtFacts DEF Unset
<1>3. CASE /\ net \in O
           /\ GateName(net) \in Names
           /\ GateName(net) \notin O \cup W \cup G \cup DOMAIN c.names
  <2> DEFINE name == GateName(net)
             new == New(c, "gate", "Default", name)
             wired == AddEdge(new, new.at, c.names[net])
  <2>1. /\ net \in DOMAIN c.names
        /\ Vert(c, c.names[net]).type = "output" /\ Vert(c, c.names[net]).gate = ""
    BY <1>3 DEF Open
  <2>2. d = OutputGate(c, net)
    BY <1>1, <2>1 DEF LeftHS, After
  <2>3. d = Bind(wired, name)
    BY <1>3, <2>2 DEF OutputGate
  <2>4. Free(c, c.names[net], W)
    BY <1>1, <2>1 DEF Free, Unset, Vert
  <2>5. name \in Names /\ name \notin O \cup W \cup G
    BY <1>3
  <2>6. "gate" \in Types /\ "Default" \in Gates
    BY DEF Types, Gates
  <2> HIDE DEF name
  <2>7. /\ Open(new, B, O, W, G) /\ Grown(c, new, W) /\ Free(new, new.at, W)
        /\ Vert(new, new.at).type = "gate" /\ Vert(new, new.at).gate = "Default"
        /\ Vert(new, c.names[net]) = Vert(c, c.names[net])
    <3>1. new = New(c, "gate", "Default", name)
      OBVIOUS
    <3>2. Inside(c, c.names[net])
      BY <1>1, <2>1
    <3> HIDE DEF new
    <3> QED BY <2>5, <2>6, <3>1, <3>2, NewFacts
  <2> HIDE DEF new
  <2>8. Open(wired, B, O, W, G) /\ Grown(new, wired, W) /\ wired.at = new.at
    <3>1. Free(new, c.names[net], W) /\ Inside(new, new.at) /\ ~Taken(new, c.names[net])
      BY <2>1, <2>4, <2>7 DEF Grown, Free, Taken
    <3> HIDE DEF wired
    <3> QED BY <2>7, <3>1, AddEdgeFacts DEF wired
  <2> HIDE DEF wired
  <2>9. /\ Free(wired, wired.at, W) /\ Vert(wired, wired.at).type = "gate"
        /\ Vert(wired, wired.at).gate = "Default"
    BY <2>7, <2>8 DEF Grown, Free
  <2>10. /\ Open(d, B \cup {name}, O, W, G) /\ Grown(wired, d, W) /\ d.at = wired.at
         /\ \A v : Vert(d, v) = Vert(wired, v)
    BY <2>3, <2>5, <2>8, <2>9, BindFacts
  <2>11. Open(d, B, O, W, G)
    BY <2>10 DEF Open
  <2> QED BY <2>9, <2>10, <2>11 DEF Grown
<1> QED BY <1>2, <1>3

-----------------------------------------------------------------------------
(* One callback at a time.                                                 *)

\* An operand the callback may ask for.
Usable(arg, B, O, W, G) ==
    /\ arg.net \in B /\ arg.not \in BOOLEAN
    /\ NotName(arg.net) \in Names /\ NotName(arg.net) \notin O \cup W \cup G

\* What waits for the assignment of net: the wire, or the name of a new gate.
Assignable(c, net, O, W, G) ==
    \/ Unset(c, net) /\ net \notin W
    \/ /\ net \in O
       /\ GateName(net) \in Names
       /\ GateName(net) \notin O \cup W \cup G \cup DOMAIN c.names

(* on_elem and on_elem3.                                                   *)
LEMMA ElemFacts ==
    ASSUME NEW c, NEW B, NEW O, NEW W, NEW G, Open(c, B, O, W, G),
           NEW s, s.op \in ElemOps, Assignable(c, s.lhs, O, W, G),
           Len(s.args) \in {2, 3}, s.args \in Seq([net : STRING, not : BOOLEAN]),
           \A i \in DOMAIN s.args : Usable(s.args[i], B, O, W, G),
           NEW d, d = Elem(c, s)
    PROVE  Open(d, B, O, W, G)
<1> DEFINE left == LeftHS(c, s.lhs)
           v == left.at
           typed == SetGateIfDefault(left, v, s.op, TRUE)
           one == Connect(typed, s.args[1], v)
           two == Connect(one, s.args[2], v)
<1>1. /\ Open(left, B, O, W, G) /\ Free(left, v, W)
      /\ Vert(left, v).type = "gate" /\ Vert(left, v).gate = "Default"
  BY LeftHSFacts DEF Assignable
<1>2. /\ left.status = "ok" /\ ~Freed(left, v)
  <2> HIDE DEF left
  <2> QED BY <1>1 DEF Open, Sound, Free, Inside, Freed
<1>3. d = IF Len(s.args) = 3 THEN Connect(two, s.args[3], v) ELSE two
  BY <1>1, <1>2 DEF Elem, After
<1>4. s.op \in Gates /\ s.op \notin {"Buf", "Not"}
  BY DEF Gates, ElemOps
<1> HIDE DEF left
<1>5. /\ Open(typed, B, O, W, G) /\ Free(typed, v, W)
      /\ Vert(typed, v).gate = s.op
  <2> DEFINE op == s.op
             w == v
             survives == TRUE
  <2>1. typed = SetGateIfDefault(left, w, op, survives) /\ op \in Gates
    BY <1>4
  <2>2. Free(left, w, W) /\ Vert(left, w).type = "gate" /\ Vert(left, w).gate = "Default"
    BY <1>1
  <2> HIDE DEF typed, op, w, survives
  <2>3. Open(typed, B, O, W, G) /\ Free(typed, w, W) /\ Vert(typed, w).gate = op
    BY <1>1, <2>1, <2>2, SetGateFacts
  <2> QED BY <2>3 DEF op, w
<1> HIDE DEF typed, v
<1>6. ASSUME NEW e, NEW arg, Open(e, B, O, W, G), Free(e, v, W), Vert(e, v).gate \notin {"Buf", "Not"},
             Usable(arg, B, O, W, G), NEW f, f = Connect(e, arg, v)
      PROVE  Open(f, B, O, W, G) /\ Free(f, v, W) /\ Vert(f, v).gate \notin {"Buf", "Not"}
  <2>1. Open(f, B, O, W, G) /\ Grown(e, f, W)
    BY <1>6, ConnectFacts DEF Usable
  <2> QED BY <1>6, <2>1 DEF Grown, Free
<1>7. 1 \in DOMAIN s.args /\ 2 \in DOMAIN s.args /\ (Len(s.args) = 3 => 3 \in DOMAIN s.args)
  OBVIOUS
<1>8. Open(one, B, O, W, G) /\ Free(one, v, W) /\ Vert(one, v).gate \notin {"Buf", "Not"}
  BY <1>4, <1>5, <1>6, <1>7
<1> HIDE DEF one
<1>9. Open(two, B, O, W, G) /\ Free(two, v, W) /\ Vert(two, v).gate \notin {"Buf", "Not"}
  BY <1>6, <1>7, <1>8
<1> HIDE DEF two
<1>10. CASE Len(s.args) = 3
  BY <1>3, <1>6, <1>7, <1>9, <1>10
<1>11. CASE Len(s.args) # 3
  BY <1>3, <1>9, <1>11
<1> QED BY <1>10, <1>11

(* on_assign of a net: an output is driven by the operand, a wire becomes  *)
(* its buffer or inverter, and the inverter the operand's if it has none.  *)
LEMMA BufferedFacts ==
    ASSUME NEW c, NEW B, NEW O, NEW W, NEW G, Open(c, B, O, W, G),
           NEW s, NEW survives,
           \/ Unset(c, s.lhs) /\ s.lhs \notin W
           \/ s.lhs \in O,
           Usable(s.args[1], B, O, W, G), s.args[1] \in [net : STRING, not : BOOLEAN],
           NEW d, d = Buffered(c, s, survives)
    PROVE  Open(d, B, O, W, G)
<1> DEFINE arg == s.args[1]
           v == c.names[s.lhs]
           op == IF arg.not THEN "Not" ELSE "Buf"
           typed == SetGateIfDefault(c, v, op, survives)
           known == IF arg.not THEN Alias(typed, NotName(arg.net), v) ELSE typed
           plain == [arg EXCEPT !.not = FALSE]
<1>1. /\ Sound(c) /\ c.status = "ok"
      /\ \A n \in DOMAIN c.names : Inside(c, c.names[n]) /\ ~Freed(c, c.names[n])
      /\ \A w \in W : Unset(c, w)
  BY DEF Open, Sound, Inside, Freed
<1>2. CASE s.lhs \in O
  <2>1. /\ s.lhs \in DOMAIN c.names /\ Vert(c, v).type = "output" /\ Vert(c, v).gate = ""
    BY <1>2 DEF Open
  <2>2. d = Connect(c, arg, v)
    BY <1>1, <2>1 DEF Buffered
  <2>3. Free(c, v, W) /\ Vert(c, v).gate \notin {"Buf", "Not"}
    BY <1>1, <2>1 DEF Free, Unset, Vert
  <2>4. Usable(arg, B, O, W, G)
    OBVIOUS
  <2> HIDE DEF arg, v
  <2> QED BY <2>2, <2>3, <2>4, ConnectFacts DEF Usable
<1>3. CASE Unset(c, s.lhs) /\ s.lhs \notin W
  <2>1. /\ s.lhs \in DOMAIN c.names /\ Vert(c, v).type = "gate" /\ Vert(c, v).gate = "Default"
        /\ Vert(c, v).ins = <<>>
    BY <1>3 DEF Unset
  <2>2. d = Connect(known, plain, v)
    BY <1>1, <2>1 DEF Buffered
  <2>3. Free(c, v, W)
    BY <1>1, <1>3, <2>1 DEF Free, Unset
  <2>4. op \in Gates
    BY DEF Gates
  <2>5. Usable(arg, B, O, W, G)
    OBVIOUS
  <2> HIDE DEF op, v, arg
  <2>6. /\ Open(typed, B, O, W, G) /\ Vert(typed, v).ins = <<>> /\ Free(typed, v, W)
    <3> HIDE DEF typed
    <3> QED BY <2>1, <2>3, <2>4, SetGateFacts DEF typed
  <2> HIDE DEF typed
  <2>7. Open(known, B, O, W, G) /\ Vert(known, v).ins = <<>> /\ Free(known, v, W)
    <3>1. CASE ~arg.not
      BY <2>6, <3>1
    <3>2. CASE arg.not
      <4> DEFINE name == NotName(arg.net)
                 at == [typed EXCEPT !.at = v]
      <4>1. known = IF name \in DOMAIN typed.names THEN typed ELSE Bind(at, name)
        BY <2>6, <3>2 DEF Alias, After, Open, Sound
      <4>2. Open(at, B, O, W, G) /\ Free(at, at.at, W) /\ at.at = v /\ Vert(at, v) = Vert(typed, v)
        <5> HIDE DEF at
        <5> QED BY <2>6, AtFacts DEF at
      <4>3. name \notin O \cup W \cup G
        BY <2>5 DEF Usable
      <4> HIDE DEF at, name
      <4>4. CASE name \in DOMAIN typed.names
        BY <2>6, <4>1, <4>4
      <4>5. CASE name \notin DOMAIN typed.names
        <5> DEFINE e == Bind(at, name)
        <5> HIDE DEF known
        <5>1. known = e
          BY <4>1, <4>5
        <5> HIDE DEF e
        <5>2. e = Bind(at, name)
          BY DEF e
        <5>3. /\ Open(e, B \cup {name}, O, W, G) /\ Grown(at, e, W)
              /\ \A x : Vert(e, x) = Vert(at, x)
          BY <4>2, <4>3, <5>2, BindFacts
        <5> QED BY <2>6, <4>2, <5>1, <5>3 DEF Open, Grown
      <4> QED BY <4>4, <4>5
    <3> QED BY <3>1, <3>2
  <2> HIDE DEF known
  <2>8. Usable(plain, B, O, W, G) /\ ~plain.not
    <3>1. arg \in [net : STRING, not : BOOLEAN]
      BY DEF arg
    <3> QED BY <2>5, <3>1 DEF Usable
  <2> HIDE DEF plain
  <2> QED BY <2>2, <2>7, <2>8, ConnectFacts DEF Usable
<1> QED BY <1>2, <1>3

(* on_parameter, and on_assign of a literal: the name moves to a new       *)
(* constant.                                                               *)
LEMMA ParameterFacts ==
    ASSUME NEW c, NEW B, NEW O, NEW W, NEW G, Open(c, B, O, W, G),
           NEW s, s.lhs \in Names, s.lhs \notin O \cup W \cup G,
           NEW d, d = Parameter(c, s)
    PROVE  Open(d, B \cup {s.lhs}, O, W, G)
<1> DEFINE type == "constant"
           value == ParseConstValue(s.value)
           name == s.lhs
           new == New(c, type, value, name)
<1>1. type \in Types /\ value \in Gates
  BY DEF Types, Gates, ParseConstValue, LowestBit, Bit
<1>2. d = Bind(new, name)
  BY DEF Parameter
<1>3. name \in Names /\ name \notin O \cup W \cup G
  OBVIOUS
<1> HIDE DEF type, value
<1>4. Open(new, B, O, W, G) /\ Free(new, new.at, W)
  <2> HIDE DEF new
  <2> QED BY <1>1, <1>3, NewFacts DEF new
<1> HIDE DEF new
<1>5. Open(d, B \cup {name}, O, W, G)
  BY <1>2, <1>3, <1>4, BindFacts
<1> QED BY <1>5

LEMMA ConstantFacts ==
    ASSUME NEW c, NEW B, NEW O, NEW W, NEW G, Open(c, B, O, W, G),
           NEW s, s.lhs \in Names, s.lhs \notin O \cup W \cup G, Plain(s.value),
           NEW d, d = Constant(c, s)
    PROVE  Open(d, B \cup {s.lhs}, O, W, G)
<1>1. Range(s.value.digits) \subseteq DigitsOf(IF s.value.base = "" THEN "" ELSE "h")
  <2>1. Range(s.value.digits) \subseteq DigitsOf(s.value.base)
    BY DEF Plain
  <2>2. CASE s.value.base = ""
    BY <2>1, <2>2
  <2>3. CASE s.value.base # ""
    <3>1. DigitsOf(s.value.base) \subseteq DigitsOf("h")
      BY <2>3 DEF DigitsOf
    <3> QED BY <2>1, <2>3, <3>1
  <2> QED BY <2>2, <2>3
<1>2. d = Parameter(c, s)
  BY <1>1 DEF Constant, Plain
<1> QED BY <1>2, ParameterFacts

(* on_maj3: four gates for a declared wire, an instance for another net.   *)
LEMMA MajorityFacts ==
    ASSUME NEW c, NEW B, NEW O, NEW W, NEW G, Open(c, B, O, W, G),
           NEW s, NEW survives, s.lhs \in Names, s.lhs \notin O \cup W \cup G,
           s.lhs \in DOMAIN c.names => Unset(c, s.lhs),
           \A i \in 1..3 : Usable(s.args[i], B, O, W, G),
           NEW d, d = Majority(c, s, survives)
    PROVE  Open(d, B \cup {s.lhs}, O, W, G)
<1> DEFINE a1 == s.args[1]
           a2 == s.args[2]
           a3 == s.args[3]
           one == RightHS(c, a1)
           two == RightHS(one, a2)
           three == RightHS(two, a3)
           at == <<one.at, two.at, three.at>>
<1>1. Usable(a1, B, O, W, G) /\ Usable(a2, B, O, W, G) /\ Usable(a3, B, O, W, G)
  OBVIOUS
<1>3. d = After(three, IF s.lhs \in DOMAIN c.names
                       THEN MajorityAsLogic(three, at, c.names[s.lhs], survives)
                       ELSE Bind(GenerateMajority(three, at), s.lhs))
  BY DEF Majority
<1>11. one = RightHS(c, a1) /\ two = RightHS(one, a2) /\ three = RightHS(two, a3)
  OBVIOUS
<1> HIDE DEF a1, a2, a3, one, two, three
<1>12. ASSUME NEW e, NEW arg, Open(e, B, O, W, G), Usable(arg, B, O, W, G), NEW f, f = RightHS(e, arg)
       PROVE  Open(f, B, O, W, G) /\ Grown(e, f, W) /\ Inside(f, f.at)
  BY <1>12, RightHSFacts DEF Usable
<1>2. Open(one, B, O, W, G) /\ Grown(c, one, W) /\ Inside(one, one.at)
  BY <1>1, <1>11, <1>12
<1>4. Open(two, B, O, W, G) /\ Grown(one, two, W) /\ Inside(two, two.at)
  BY <1>1, <1>2, <1>11, <1>12
<1>5. Open(three, B, O, W, G) /\ Grown(two, three, W) /\ Inside(three, three.at)
  BY <1>1, <1>4, <1>11, <1>12
<1>6. Grown(c, three, W)
  BY <1>2, <1>4, <1>5, GrownTwice
<1>7. Inside(three, at[1]) /\ Inside(three, at[2]) /\ Inside(three, at[3])
  BY <1>2, <1>4, <1>5 DEF Grown
<1>8. three.status = "ok"
  BY <1>5 DEF Open, Sound
<1> HIDE DEF at
<1>9. CASE s.lhs \in DOMAIN c.names
  <2> DEFINE v == c.names[s.lhs]
             ab == Pair(three, "And", at[1], at[2])
             ac == Pair(ab, "And", at[1], at[3])
             bc == Pair(ac, "And", at[2], at[3])
             or1 == Pair(bc, "Or", ab.at, ac.at)
             set == SetGateIfDefault(or1, v, "Or", survives)
             or2 == [set EXCEPT !.at = v]
             wired == AddEdge(or2, or1.at, or2.at)
  <2>1. Unset(c, s.lhs) /\ Inside(c, v) /\ \A w \in W : Unset(c, w)
    BY <1>9 DEF Open, Sound
  <2>2. Free(c, v, W)
    BY <1>9, <2>1 DEF Free, Unset
  <2>3. /\ Free(three, v, W) /\ Inside(three, v)
        /\ Vert(three, v).type = "gate" /\ Vert(three, v).gate = "Default"
    BY <1>6, <2>1, <2>2 DEF Grown, Unset, Free
  <2>4. ~Freed(three, v)
    BY <2>3 DEF Inside, Freed
  <2> DEFINE and == "And"
             or == "Or"
  <2>5. and \in Gates /\ or \in Gates /\ and \notin {"Buf", "Not"} /\ or \notin {"Buf", "Not"}
    BY DEF Gates, ElemOps
  <2>6. d = IF SaysDefault(or1, v) THEN AddEdge(wired, bc.at, or2.at) ELSE d
    BY <1>3, <1>8, <1>9, <2>4 DEF MajorityAsLogic, After
  <2>7. ab = Pair(three, and, at[1], at[2])
    OBVIOUS
  <2>8. ac = Pair(ab, and, at[1], at[3])
    OBVIOUS
  <2>9. bc = Pair(ac, and, at[2], at[3])
    OBVIOUS
  <2>10. or1 = Pair(bc, or, ab.at, ac.at)
    OBVIOUS
  <2>11. set = SetGateIfDefault(or1, v, or, survives)
    OBVIOUS
  <2> HIDE DEF v, ab, ac, bc, or1, set, and, or
  <2>12. Open(ab, B, O, W, G) /\ Grown(three, ab, W) /\ Inside(ab, ab.at)
    BY <1>5, <1>7, <2>5, <2>7, PairFacts
  <2>13. Open(ac, B, O, W, G) /\ Grown(ab, ac, W) /\ Inside(ac, ac.at)
    <3>1. Inside(ab, at[1]) /\ Inside(ab, at[3])
      BY <1>7, <2>12 DEF Grown
    <3> QED BY <2>5, <2>8, <2>12, <3>1, PairFacts
  <2>14. Open(bc, B, O, W, G) /\ Grown(ac, bc, W) /\ Inside(bc, bc.at)
    <3>1. Inside(ac, at[2]) /\ Inside(ac, at[3])
      BY <1>7, <2>12, <2>13 DEF Grown
    <3> QED BY <2>5, <2>9, <2>13, <3>1, PairFacts
  <2>15. Open(or1, B, O, W, G) /\ Grown(bc, or1, W) /\ Inside(or1, or1.at)
    <3>1. Inside(bc, ab.at) /\ Inside(bc, ac.at)
      BY <2>12, <2>13, <2>14 DEF Grown
    <3> QED BY <2>5, <2>10, <2>14, <3>1, PairFacts
  <2>16. Grown(three, or1, W)
    BY <2>12, <2>13, <2>14, <2>15, GrownTwice
  <2>17. /\ Free(or1, v, W) /\ Inside(or1, bc.at)
         /\ Vert(or1, v).type = "gate" /\ Vert(or1, v).gate = "Default"
    BY <2>3, <2>14, <2>15, <2>16 DEF Grown
  <2>18. /\ Open(set, B, O, W, G) /\ Vert(set, v).gate = or /\ Free(set, v, W)
         /\ Inside(set, or1.at) /\ Inside(set, bc.at)
    BY <2>5, <2>11, <2>15, <2>17, SetGateFacts
  <2>19. /\ Open(or2, B, O, W, G) /\ Vert(or2, v).gate = or /\ Free(or2, v, W)
         /\ Inside(or2, or1.at) /\ Inside(or2, bc.at) /\ or2.at = v
    <3> HIDE DEF or2
    <3> QED BY <2>18, AtFacts DEF or2
  <2> HIDE DEF or2
  <2>ready. Open(wired, B, O, W, G) /\ Grown(or2, wired, W)
    <3>1. ~Taken(or2, or2.at)
      BY <2>5, <2>19 DEF Taken
    <3> HIDE DEF wired
    <3> QED BY <2>19, <3>1, AddEdgeFacts DEF wired
  <2> HIDE DEF wired
  <2>21. SaysDefault(or1, v)
    BY <2>17 DEF SaysDefault
  <2>22. d = AddEdge(wired, bc.at, v)
    BY <2>6, <2>19, <2>21
  <2>23. Inside(wired, bc.at) /\ Free(wired, v, W) /\ ~Taken(wired, v)
    BY <2>5, <2>19, <2>ready DEF Grown, Free, Taken
  <2>24. Open(d, B, O, W, G) /\ Grown(wired, d, W)
    BY <2>ready, <2>22, <2>23, AddEdgeFacts
  <2>25. s.lhs \in DOMAIN d.names
    <3>1. s.lhs \in DOMAIN or1.names
      BY <1>6, <1>9, <2>16 DEF Grown
    <3>2. set.names = or1.names
      BY <2>5, <2>11, <2>15, <2>17, SetGateFacts
    <3>3. or2.names = set.names
      BY <2>18, AtFacts DEF or2
    <3> QED BY <2>ready, <2>24, <3>1, <3>2, <3>3 DEF Grown
  <2> QED BY <2>24, <2>25 DEF Open
<1>10. CASE s.lhs \notin DOMAIN c.names
  <2> DEFINE sub == "subGraph"
             none == ""
             major == "Majority3"
             gate == "gate"
             buf == "Buf"
             name == s.lhs
             new == New(three, sub, none, major)
             e1 == AddEdge(new, at[1], new.at)
             e2 == AddEdge(e1, at[2], new.at)
             e3 == AddEdge(e2, at[3], new.at)
             out == New(e3, gate, buf, none)
             wired == AddEdge(out, new.at, out.at)
  <2>1. d = Bind(wired, name)
    BY <1>3, <1>8, <1>10 DEF GenerateMajority, After
  <2>2. /\ sub \in Types /\ gate \in Types /\ none \in Gates /\ buf \in Gates
        /\ none \in Names /\ major \in Names /\ none \notin {"Buf", "Not"}
    BY DEF Types, Gates, Names
  <2>3. name \in Names /\ name \notin O \cup W \cup G
    OBVIOUS
  <2> HIDE DEF sub, none, major, gate, buf, name
  <2>4. /\ Open(new, B, O, W, G) /\ Grown(three, new, W) /\ Free(new, new.at, W)
        /\ Vert(new, new.at).gate = none
    <3> HIDE DEF new
    <3> QED BY <1>5, <2>2, NewFacts DEF new
  <2>5. Inside(new, at[1]) /\ Inside(new, at[2]) /\ Inside(new, at[3])
    BY <1>7, <2>4 DEF Grown
  <2> HIDE DEF new
  <2>6. ASSUME NEW e, Open(e, B, O, W, G), Grown(new, e, W),
               NEW u, Inside(new, u), NEW f, f = AddEdge(e, u, new.at)
        PROVE  Open(f, B, O, W, G) /\ Grown(new, f, W)
    <3>1. Inside(e, u) /\ Free(e, new.at, W) /\ ~Taken(e, new.at)
      BY <2>2, <2>4, <2>6 DEF Grown, Free, Taken
    <3>2. Open(f, B, O, W, G) /\ Grown(e, f, W)
      BY <2>6, <3>1, AddEdgeFacts
    <3> QED BY <2>6, <3>2, GrownTwice
  <2>7. Open(e1, B, O, W, G) /\ Grown(new, e1, W)
    <3>1. Grown(new, new, W)
      BY DEF Grown
    <3> HIDE DEF e1
    <3> QED BY <2>4, <2>5, <2>6, <3>1 DEF e1
  <2> HIDE DEF e1
  <2>8. Open(e2, B, O, W, G) /\ Grown(new, e2, W)
    BY <2>5, <2>6, <2>7
  <2> HIDE DEF e2
  <2>9. Open(e3, B, O, W, G) /\ Grown(new, e3, W)
    BY <2>5, <2>6, <2>8
  <2> HIDE DEF e3
  <2>10. /\ Open(out, B, O, W, G) /\ Grown(e3, out, W) /\ Free(out, out.at, W)
         /\ Vert(out, out.at).ins = <<>>
    <3> HIDE DEF out
    <3> QED BY <2>2, <2>9, NewFacts DEF out
  <2> HIDE DEF out
  <2>11. Inside(out, new.at) /\ ~Taken(out, out.at)
    BY <2>4, <2>9, <2>10 DEF Grown, Free, Taken
  <2>12. Open(wired, B, O, W, G) /\ Free(wired, wired.at, W)
    <3> HIDE DEF wired
    <3>1. Open(wired, B, O, W, G) /\ Grown(out, wired, W) /\ wired.at = out.at
      BY <2>10, <2>11, AddEdgeFacts DEF wired
    <3> QED BY <2>10, <3>1 DEF Grown
  <2> HIDE DEF wired
  <2>13. Open(d, B \cup {name}, O, W, G)
    BY <2>1, <2>3, <2>12, BindFacts
  <2> QED BY <2>13 DEF name
<1> QED BY <1>9, <1>10

(* A set listed without repetition.                                        *)
LEMMA SetToSeqFacts ==
    ASSUME NEW S, IsFiniteSet(S)
    PROVE  /\ SetToSeq(S) \in Seq(S)
           /\ IsInjective(SetToSeq(S))
           /\ Range(SetToSeq(S)) = S
BY ListingFacts DEF SetToSeq

OfOutputs(type, gate) == type = "output" /\ gate = ""
OfWires(type, gate) == type = "gate" /\ gate = "Default"

(* on_inputs, on_outputs and on_wires.                                     *)
LEMMA DeclaredFacts ==
    ASSUME NEW c, NEW B, NEW O, NEW W, NEW G, Open(c, B, O, W, G),
           NEW nets, IsFiniteSet(nets), nets \subseteq Names, nets \cap (O \cup W \cup G) = {},
           NEW type \in Types, NEW gate \in Gates, NEW O2, NEW W2,
           O2 \subseteq O \/ (O2 \subseteq O \cup nets /\ OfOutputs(type, gate)),
           W2 \subseteq W \/ (W2 \subseteq W \cup nets /\ OfWires(type, gate)),
           NEW d, d = Declared(c, type, gate, nets)
    PROVE  Open(d, B \cup nets, O2, W2, G)
<1> DEFINE list == SetToSeq(nets)
           place(n) == CHOOSE k \in DOMAIN list : list[k] = n
           new == [k \in 1..Len(list) |-> Vertex(type, gate, list[k])]
           names == [n \in DOMAIN c.names \cup nets |->
                       IF n \in nets THEN <<c.graph, Len(c.verts) + place(n)>> ELSE c.names[n]]
<1>1. list \in Seq(nets) /\ IsInjective(list) /\ Range(list) = nets
  BY SetToSeqFacts
<1>2. d = [c EXCEPT !.verts = @ \o new, !.names = names]
  BY DEF Declared
<1>3. /\ Sound(c) /\ Shaped(c) /\ c.verts \in Seq(Vertices) /\ c.status = "ok"
      /\ \A n \in DOMAIN c.names : Inside(c, c.names[n])
      /\ Len(c.verts) \in Nat /\ DOMAIN c.verts = 1..Len(c.verts)
  <2>1. Sound(c) /\ c.verts \in Seq(Vertices)
    BY DEF Open, Sound
  <2> QED BY <2>1 DEF Sound
<1> HIDE DEF list
<1>4. Len(list) \in Nat /\ DOMAIN list = 1..Len(list) /\ \A k \in 1..Len(list) : list[k] \in nets
  BY <1>1
<1>5. \A n \in nets : place(n) \in 1..Len(list) /\ list[place(n)] = n
  BY <1>1, <1>4 DEF Range
<1>6. \A m, n \in nets : m # n => place(m) # place(n)
  BY <1>5
<1>7. new \in Seq(Vertices) /\ Len(new) = Len(list)
  <2>1. <<>> \in Seq(Nat) /\ {} \in SUBSET Nat
    OBVIOUS
  <2>2. \A k \in 1..Len(list) : Vertex(type, gate, list[k]) \in Vertices
    BY <1>4, <2>1 DEF Vertex, Vertices
  <2> QED BY <1>4, <2>2
<1>8. \A k \in 1..Len(list) : new[k].type = type /\ new[k].gate = gate /\ new[k].ins = <<>>
  BY DEF Vertex
<1> HIDE DEF new, place
<1>9. /\ DOMAIN names = DOMAIN c.names \cup nets
      /\ \A n \in nets : names[n] = <<c.graph, Len(c.verts) + place(n)>>
      /\ \A n \in DOMAIN c.names : n \notin nets => names[n] = c.names[n]
      /\ names = [n \in DOMAIN names |-> names[n]]
  OBVIOUS
<1> HIDE DEF names
<1>10. /\ d.verts = c.verts \o new /\ d.names = names /\ d.graph = c.graph
       /\ d.status = c.status /\ Shaped(d)
  <2> DEFINE verts == c.verts \o new
  <2>1. d = [c EXCEPT !.verts = verts, !.names = names]
    BY <1>2
  <2> HIDE DEF verts
  <2>2. d.verts = verts /\ d.names = names /\ d.graph = c.graph /\ d.status = c.status /\ Shaped(d)
    BY <1>3, <2>1 DEF Shaped
  <2> QED BY <2>2 DEF verts
<1>11. /\ d.verts \in Seq(Vertices) /\ DOMAIN d.verts = 1..(Len(c.verts) + Len(list))
       /\ \A k \in DOMAIN c.verts : k \in DOMAIN d.verts /\ d.verts[k] = c.verts[k]
       /\ \A k \in 1..Len(list) : d.verts[Len(c.verts) + k] = new[k]
  <2> DEFINE verts == c.verts
  <2>1. verts \in Seq(Vertices) /\ new \in Seq(Vertices) /\ Len(new) = Len(list)
    BY <1>3, <1>7
  <2> HIDE DEF verts
  <2>2. /\ verts \o new \in Seq(Vertices)
        /\ DOMAIN (verts \o new) = 1..(Len(verts) + Len(list))
        /\ \A k \in DOMAIN verts : k \in DOMAIN (verts \o new) /\ (verts \o new)[k] = verts[k]
        /\ \A k \in 1..Len(list) : (verts \o new)[Len(verts) + k] = new[k]
    BY <1>4, <2>1
  <2> QED BY <1>10, <2>2 DEF verts
<1>12. \A v : Inside(c, v) => Inside(d, v) /\ Vert(d, v) = Vert(c, v)
  BY <1>10, <1>11 DEF Inside, Vert
<1>13. ASSUME NEW n \in nets
       PROVE  /\ Inside(d, d.names[n]) /\ n \in DOMAIN d.names
              /\ Vert(d, d.names[n]).type = type /\ Vert(d, d.names[n]).gate = gate
              /\ Vert(d, d.names[n]).ins = <<>>
              /\ d.names[n][2] = Len(c.verts) + place(n)
  BY <1>3, <1>4, <1>5, <1>8, <1>9, <1>10, <1>11 DEF Inside, Vert
<1>14. ASSUME NEW n \in DOMAIN c.names, n \notin nets
       PROVE  /\ d.names[n] = c.names[n] /\ Inside(c, c.names[n]) /\ n \in DOMAIN d.names
              /\ Vert(d, d.names[n]) = Vert(c, c.names[n])
              /\ d.names[n][2] \in 1..Len(c.verts)
  BY <1>3, <1>9, <1>10, <1>12, <1>14 DEF Inside
<1>15. \A m, n \in DOMAIN d.names : m \in nets /\ m # n => d.names[n][2] # d.names[m][2]
  <2> SUFFICES ASSUME NEW m \in nets, NEW n \in DOMAIN d.names, m # n
               PROVE  d.names[n][2] # d.names[m][2]
    OBVIOUS
  <2>1. d.names[m][2] = Len(c.verts) + place(m) /\ place(m) \in 1..Len(list)
    BY <1>5, <1>13
  <2>2. CASE n \in nets
    <3>1. d.names[n][2] = Len(c.verts) + place(n) /\ place(n) \in 1..Len(list) /\ place(n) # place(m)
      BY <1>5, <1>6, <1>13, <2>2
    <3> QED BY <1>3, <1>4, <2>1, <3>1
  <2>3. CASE n \notin nets
    <3>1. d.names[n][2] \in 1..Len(c.verts)
      BY <1>9, <1>10, <1>14, <2>3
    <3> QED BY <1>3, <1>4, <2>1, <3>1
  <2> QED BY <2>2, <2>3
<1>16. Sound(d)
  <2>1. \A n \in DOMAIN d.names : Inside(d, d.names[n])
    BY <1>9, <1>10, <1>12, <1>13, <1>14
  <2> QED BY <1>3, <1>9, <1>10, <1>11, <2>1 DEF Sound
<1>17. ASSUME NEW o \in O2 PROVE /\ o \in DOMAIN d.names
                                 /\ Vert(d, d.names[o]).type = "output"
                                 /\ Vert(d, d.names[o]).gate = ""
  <2>1. CASE o \in O
    <3>1. /\ o \in DOMAIN c.names /\ o \notin nets
          /\ Vert(c, c.names[o]).type = "output" /\ Vert(c, c.names[o]).gate = ""
      BY <2>1 DEF Open
    <3> QED BY <1>14, <3>1
  <2>2. CASE o \notin O
    <3>1. o \in nets /\ OfOutputs(type, gate)
      BY <1>17, <2>2
    <3> QED BY <1>13, <3>1 DEF OfOutputs
  <2> QED BY <2>1, <2>2
<1>18. ASSUME NEW w \in W2 PROVE Unset(d, w)
  <2>1. CASE w \in W
    <3>1. Unset(c, w) /\ w \notin nets /\ w \in DOMAIN c.names
      BY <2>1 DEF Open, Unset
    <3>2. \A n \in DOMAIN d.names : n # w => d.names[n][2] # d.names[w][2]
      <4> SUFFICES ASSUME NEW n \in DOMAIN d.names, n # w PROVE d.names[n][2] # d.names[w][2]
        OBVIOUS
      <4>1. CASE n \in nets
        BY <1>15, <4>1, <1>9, <1>10, <3>1
      <4>2. CASE n \notin nets
        BY <1>9, <1>10, <1>14, <3>1, <4>2 DEF Unset
      <4> QED BY <4>1, <4>2
    <3> QED BY <1>14, <3>1, <3>2 DEF Unset
  <2>2. CASE w \notin W
    <3>1. w \in nets /\ OfWires(type, gate)
      BY <1>18, <2>2
    <3>2. \A n \in DOMAIN d.names : n # w => d.names[n][2] # d.names[w][2]
      BY <1>13, <1>15, <3>1
    <3> QED BY <1>13, <3>1, <3>2 DEF Unset, OfWires
  <2> QED BY <2>1, <2>2
<1>19. B \cup nets \subseteq DOMAIN d.names /\ G \cap DOMAIN d.names = {}
  BY <1>9, <1>10 DEF Open
<1> QED BY <1>16, <1>17, <1>18, <1>19 DEF Open

-----------------------------------------------------------------------------
(* A context keeps its fields whatever the file says.                      *)

LEMMA ShapedSteps ==
    ASSUME NEW c, Shaped(c)
    PROVE  /\ \A e : Shaped(e) => Shaped(After(c, e))
           /\ \A how : Shaped(Ended(c, how))
           /\ \A v : Shaped([c EXCEPT !.at = v])
           /\ \A type, gate, name : Shaped(New(c, type, gate, name))
           /\ \A name : Shaped(Bind(c, name))
           /\ \A name : Shaped(Lookup(c, name))
           /\ \A u, v : Shaped(AddEdge(c, u, v))
           /\ \A v, gate, survives : Shaped(SetGateIfDefault(c, v, gate, survives))
<1>1. \A e : Shaped(e) => Shaped(After(c, e))
  BY DEF After
<1>2. \A how : Shaped(Ended(c, how))
  BY DEF Ended, Shaped
<1>3. \A v : Shaped([c EXCEPT !.at = v])
  BY DEF Shaped
<1>4. ASSUME NEW a, NEW b, NEW d, d = [c EXCEPT !.verts = a, !.at = b] PROVE Shaped(d)
  BY <1>4 DEF Shaped
<1>5. ASSUME NEW type, NEW gate, NEW name PROVE Shaped(New(c, type, gate, name))
  BY <1>1, <1>4 DEF New
<1>6. ASSUME NEW a PROVE Shaped([c EXCEPT !.names = a])
  BY DEF Shaped
<1>7. ASSUME NEW name PROVE Shaped(Bind(c, name))
  BY <1>1, <1>6 DEF Bind
<1>8. ASSUME NEW name PROVE Shaped(Lookup(c, name))
  BY <1>3 DEF Lookup
<1>9. ASSUME NEW e, Shaped(e), NEW a PROVE Shaped([e EXCEPT !.verts = a])
  BY <1>9 DEF Shaped
<1>10. ASSUME NEW u, NEW v PROVE Shaped(AddEdge(c, u, v))
  <2>1. Shaped(Drives(c, u, v))
    BY <1>9 DEF Drives
  <2>2. Shaped(DrivenBy(Drives(c, u, v), u, v))
    BY <1>9, <2>1 DEF DrivenBy
  <2>3. Shaped(Refused(c, v))
    BY DEF Refused, Shaped
  <2>4. Shaped(Ended(Drives(c, u, v), "error"))
    BY <2>1 DEF Ended, Shaped
  <2> QED BY <1>1, <1>2, <2>1, <2>2, <2>3, <2>4 DEF AddEdge
<1>11. ASSUME NEW v, NEW gate, NEW survives PROVE Shaped(SetGateIfDefault(c, v, gate, survives))
  <2>1. Shaped([c EXCEPT !.verts[v[2]].gate = gate])
    BY <1>9
  <2> QED BY <1>1, <1>2, <2>1 DEF SetGateIfDefault
<1> QED BY <1>1, <1>2, <1>3, <1>5, <1>7, <1>8, <1>10, <1>11

LEMMA ShapedOperands ==
    ASSUME NEW c, Shaped(c)
    PROVE  /\ \A arg : Shaped(RightHS(c, arg))
           /\ \A net : Shaped(LeftHS(c, net))
           /\ \A arg, v : Shaped(Connect(c, arg, v))
           /\ \A gate, u, w : Shaped(Pair(c, gate, u, w))
<1>1. ASSUME NEW arg PROVE Shaped(RightHS(c, arg))
  <2> DEFINE d == Registered(New(c, "gate", "Not", NotName(arg.net)), NotName(arg.net))
  <2>1. Shaped(d)
    BY ShapedSteps DEF Registered
  <2>2. Shaped(Inversion(c, arg.net))
    <3>1. Inversion(c, arg.net) = IF NotName(arg.net) \in DOMAIN c.names THEN Lookup(c, NotName(arg.net))
                                  ELSE AddEdge(d, c.names[arg.net], d.at)
      BY DEF Inversion
    <3> HIDE DEF d
    <3> QED BY <2>1, <3>1, ShapedSteps
  <2> QED BY <2>2, ShapedSteps DEF RightHS
<1>2. ASSUME NEW net PROVE Shaped(LeftHS(c, net))
  <2> DEFINE d == New(c, "gate", "Default", GateName(net))
             e == AddEdge(d, d.at, c.names[net])
  <2>1. Shaped(e)
    BY ShapedSteps
  <2>2. Shaped(OutputGate(c, net))
    <3>1. OutputGate(c, net) = IF GateName(net) \in DOMAIN c.names THEN Lookup(c, GateName(net))
                               ELSE Bind(e, GateName(net))
      BY DEF OutputGate
    <3> HIDE DEF e
    <3> QED BY <2>1, <3>1, ShapedSteps
  <2> QED BY <2>2, ShapedSteps DEF LeftHS
<1>3. ASSUME NEW arg, NEW v PROVE Shaped(Connect(c, arg, v))
  BY <1>1, ShapedSteps DEF Connect
<1>4. ASSUME NEW gate, NEW u, NEW w PROVE Shaped(Pair(c, gate, u, w))
  BY ShapedSteps DEF Pair
<1> QED BY <1>1, <1>2, <1>3, <1>4

LEMMA ShapedCallbacks ==
    ASSUME NEW c, Shaped(c), NEW s, NEW survives
    PROVE  /\ Shaped(Parameter(c, s)) /\ Shaped(Constant(c, s))
           /\ Shaped(Buffered(c, s, survives)) /\ Shaped(Elem(c, s))
           /\ Shaped(Majority(c, s, survives))
           /\ \A type, gate, nets : Shaped(Declared(c, type, gate, nets))
<1>1. Shaped(Parameter(c, s))
  BY ShapedSteps DEF Parameter
<1>2. Shaped(Constant(c, s))
  BY <1>1, ShapedSteps DEF Constant
<1>3. Shaped(Buffered(c, s, survives))
  <2> DEFINE arg == s.args[1]
             v == c.names[s.lhs]
             op == IF arg.not THEN "Not" ELSE "Buf"
             typed == SetGateIfDefault(c, v, op, survives)
             known == IF arg.not THEN Alias(typed, NotName(arg.net), v) ELSE typed
             plain == [arg EXCEPT !.not = FALSE]
  <2>1. Shaped(typed)
    BY ShapedSteps
  <2>2. Buffered(c, s, survives) =
          IF s.lhs \notin DOMAIN c.names THEN Ended(c, "error")
          ELSE IF Freed(c, v) THEN Ended(c, "undefined")
          ELSE IF Vert(c, v).type = "output" THEN Connect(c, arg, v)
          ELSE Connect(known, plain, v)
    BY DEF Buffered
  <2> HIDE DEF typed, arg, v, plain
  <2>3. Shaped(known)
    <3>1. Shaped([typed EXCEPT !.at = v])
      BY <2>1, ShapedSteps
    <3>2. Shaped(Bind([typed EXCEPT !.at = v], NotName(arg.net)))
      BY <3>1, ShapedSteps
    <3>3. Shaped(Alias(typed, NotName(arg.net), v))
      BY <2>1, <3>2, ShapedSteps DEF Alias
    <3> QED BY <2>1, <3>3
  <2> HIDE DEF known
  <2> QED BY <2>2, <2>3, ShapedSteps, ShapedOperands
<1>4. Shaped(Elem(c, s))
  <2> DEFINE left == LeftHS(c, s.lhs)
             v == left.at
             default == Vert(left, v).type = "gate" /\ Vert(left, v).gate = "Default"
             typed == After(left, IF Freed(left, v) THEN Ended(left, "undefined")
                                  ELSE IF default THEN SetGateIfDefault(left, v, s.op, TRUE) ELSE left)
             two == Connect(Connect(typed, s.args[1], v), s.args[2], v)
  <2>1. Elem(c, s) = IF Len(s.args) = 3 THEN Connect(two, s.args[3], v) ELSE two
    BY DEF Elem
  <2>2. Shaped(left)
    BY ShapedOperands
  <2> HIDE DEF left, v, default
  <2>3. Shaped(typed)
    BY <2>2, ShapedSteps
  <2> HIDE DEF typed
  <2>4. Shaped(two)
    BY <2>3, ShapedOperands
  <2> HIDE DEF two
  <2> QED BY <2>1, <2>4, ShapedOperands
<1>5. Shaped(Majority(c, s, survives))
  <2> DEFINE one == RightHS(c, s.args[1])
             two == RightHS(one, s.args[2])
             three == RightHS(two, s.args[3])
             at == <<one.at, two.at, three.at>>
  <2>1. Shaped(three)
    BY ShapedOperands
  <2>2. Majority(c, s, survives) =
          After(three, IF s.lhs \in DOMAIN c.names
                       THEN MajorityAsLogic(three, at, c.names[s.lhs], survives)
                       ELSE Bind(GenerateMajority(three, at), s.lhs))
    BY DEF Majority
  <2> HIDE DEF three, at
  <2>3. ASSUME NEW v PROVE Shaped(MajorityAsLogic(three, at, v, survives))
    <3> DEFINE ab == Pair(three, "And", at[1], at[2])
               ac == Pair(ab, "And", at[1], at[3])
               bc == Pair(ac, "And", at[2], at[3])
               or1 == Pair(bc, "Or", ab.at, ac.at)
               or2 == IF SaysDefault(or1, v)
                      THEN [SetGateIfDefault(or1, v, "Or", survives) EXCEPT !.at = v]
                      ELSE New(or1, "gate", "Or", "")
    <3>1. MajorityAsLogic(three, at, v, survives) =
            After(three, IF Freed(three, v) THEN Ended(three, "undefined")
                         ELSE AddEdge(AddEdge(or2, or1.at, or2.at), bc.at, or2.at))
      BY DEF MajorityAsLogic
    <3>2. Shaped(or1)
      BY <2>1, ShapedOperands
    <3> HIDE DEF or1, bc
    <3>3. Shaped(or2)
      BY <3>2, ShapedSteps
    <3> HIDE DEF or2
    <3> QED BY <2>1, <3>1, <3>3, ShapedSteps
  <2>4. Shaped(GenerateMajority(three, at))
    <3> DEFINE d == New(three, "subGraph", "", "Majority3")
               wired == AddEdge(AddEdge(AddEdge(d, at[1], d.at), at[2], d.at), at[3], d.at)
               buf == New(wired, "gate", "Buf", "")
    <3>1. GenerateMajority(three, at) = AddEdge(buf, d.at, buf.at)
      BY DEF GenerateMajority
    <3>2. Shaped(d)
      BY <2>1, ShapedSteps
    <3> HIDE DEF d
    <3>3. Shaped(wired)
      BY <3>2, ShapedSteps
    <3> HIDE DEF wired
    <3> QED BY <3>1, <3>3, ShapedSteps
  <2> QED BY <2>1, <2>2, <2>3, <2>4, ShapedSteps
<1>6. ASSUME NEW type, NEW gate, NEW nets PROVE Shaped(Declared(c, type, gate, nets))
  <2>1. ASSUME NEW a, NEW b, NEW d, d = [c EXCEPT !.verts = a, !.names = b] PROVE Shaped(d)
    BY <2>1 DEF Shaped
  <2> QED BY <2>1 DEF Declared
<1> QED BY <1>1, <1>2, <1>3, <1>4, <1>5, <1>6

-----------------------------------------------------------------------------
(* The invariant of the reader.                                            *)

Promising(f) == f \in AllFiles /\ Legal(f) /\ Unreserved(f) /\ OutputsByGates(f)

Lhs(P) == {s.lhs : s \in P}
Reported(U, kind, nets) == IF kind \in U THEN {} ELSE nets

\* The names that are known, the outputs and the unset wires, and the names
\* that are not known yet, when the lists U and the assignments P are to come.
Known(f, U, P) ==
    Reported(U, "inputs", f.inputs) \cup Reported(U, "outputs", f.outputs)
      \cup Reported(U, "wires", f.wires) \cup Lhs(f.assigns \ P)
Outputs(f, U) == Reported(U, "outputs", f.outputs)
UnsetWires(f, U, P) == Reported(U, "wires", f.wires) \cap Lhs(P)
Unknowns(f, P) == {GateName(n) : n \in f.outputs \cap Lhs(P)} \cup (Lhs(P) \ (f.wires \cup f.outputs))

Reading(c, f, U, P) == Open(c, Known(f, U, P), Outputs(f, U), UnsetWires(f, U, P), Unknowns(f, P))

ReaderInv ==
    /\ queue \in Seq(AllFiles)
    /\ stage \in {"idle", "module"}
    /\ Shaped(ctx)
    /\ stage = "idle" => /\ ctx.status = "ok"
                         /\ clean => ctx.names = <<>>
    /\ stage = "module" => /\ queue # <<>>
                           /\ undeclared \subseteq {"inputs", "outputs", "wires"}
                           /\ pending \subseteq File.assigns
                           /\ clean /\ hint = "zero" /\ Promising(File)
                                => Reading(ctx, File, undeclared, pending)

-----------------------------------------------------------------------------
(* What a legal file says about its names.                                 *)

LEMMA NetFacts ==
    ASSUME NEW f, Promising(f)
    PROVE  /\ WellFormed(f)
           /\ \A n \in Nets(f) : n \in Names /\ NotName(n) \in Names /\ GateName(n) \in Names
           /\ f.inputs \subseteq Nets(f) /\ f.outputs \subseteq Nets(f) /\ f.wires \subseteq Nets(f)
           /\ \A s \in f.assigns : s.lhs \in Nets(f) /\ s.lhs \notin f.inputs
           /\ \A m, n \in Nets(f) : /\ m # NotName(n) /\ m # GateName(n)
                                    /\ NotName(m) # GateName(n)
                                    /\ GateName(m) = GateName(n) => m = n
<1>1. f \in AllFiles /\ Legal(f) /\ Unreserved(f)
  BY DEF Promising
<1>2. Nets(f) = f.inputs \cup Assigned(f)
  BY <1>1 DEF Nets, Legal
<1>3. ASSUME NEW n \in Nets(f) PROVE n \in Names /\ NotName(n) \in Names /\ GateName(n) \in Names
  <2> DEFINE all(g) == Nets(g) \cup {NotName(m) : m \in Nets(g)} \cup {GateName(m) : m \in Nets(g)}
  <2>1. n \in all(f) /\ NotName(n) \in all(f) /\ GateName(n) \in all(f)
    OBVIOUS
  <2>2. Names = {"", "Majority3"} \cup UNION {all(g) : g \in AllFiles}
    BY DEF Names
  <2> HIDE DEF all
  <2> QED BY <1>1, <2>1, <2>2
<1>4. \A m, n \in Nets(f) : m # NotName(n) /\ m # GateName(n)
  BY <1>1, <1>2 DEF Unreserved
<1>5. \A m, n \in Nets(f) : NotName(m) # GateName(n) /\ (GateName(m) = GateName(n) => m = n)
  BY <1>1, SuffixAssumption
<1>6. WellFormed(f)
  BY <1>1, GraphReaderAssumption
<1>7. \A s \in f.assigns : s.lhs \in Assigned(f)
  BY DEF Assigned
<1>8. \A s \in f.assigns : s.lhs \in Nets(f) /\ s.lhs \notin f.inputs
  BY <1>1, <1>2, <1>7 DEF Legal
<1> QED BY <1>3, <1>4, <1>5, <1>6, <1>8 DEF Nets

LEMMA UnknownFacts ==
    ASSUME NEW f, Promising(f), NEW P, P \subseteq f.assigns
    PROVE  /\ \A n \in Nets(f) : /\ n \in Unknowns(f, P) => n \in Lhs(P) /\ n \notin f.wires \cup f.outputs
                                 /\ NotName(n) \notin Unknowns(f, P)
                                 /\ GateName(n) \in Unknowns(f, P) <=> n \in f.outputs \cap Lhs(P)
           /\ f.inputs \cap Unknowns(f, P) = {}
<1>1. Lhs(P) \subseteq Nets(f) /\ Lhs(P) \cap f.inputs = {} /\ f.outputs \subseteq Nets(f)
      /\ f.inputs \subseteq Nets(f)
  BY NetFacts DEF Lhs
<1>2. \A m, n \in Nets(f) : /\ m # NotName(n) /\ m # GateName(n) /\ NotName(m) # GateName(n)
                            /\ GateName(m) = GateName(n) => m = n
  BY NetFacts
<1>3. ASSUME NEW n \in Nets(f)
      PROVE  /\ n \in Unknowns(f, P) => n \in Lhs(P) /\ n \notin f.wires \cup f.outputs
             /\ NotName(n) \notin Unknowns(f, P)
             /\ GateName(n) \in Unknowns(f, P) <=> n \in f.outputs \cap Lhs(P)
  BY <1>1, <1>2 DEF Unknowns
<1> QED BY <1>1, <1>3

LEMMA OpenLess ==
    ASSUME NEW c, NEW B, NEW O, NEW W, NEW G, Open(c, B, O, W, G),
           NEW B2, B2 \subseteq B, NEW W2, W2 \subseteq W, NEW G2, G2 \subseteq G
    PROVE  Open(c, B2, O, W2, G2)
BY DEF Open

\* The parser has reported what an operand of s needs.
Timely(f, s, P) ==
    \A i \in DOMAIN s.args, t \in P : t.lhs = s.args[i].net => t.lhs \in f.wires \cup f.outputs

\* The names s uses are known, and what it assigns to waits for it.
Awaited(c, f, P, s, B, O, W, G) ==
    /\ Open(c, B, O, W, G)
    /\ s.lhs \in Names /\ s.lhs \notin W \cup G
    /\ s.lhs \notin O /\ s.lhs \in DOMAIN c.names => Unset(c, s.lhs)
    /\ s.lhs \in f.wires => Unset(c, s.lhs)
    /\ s.lhs \in f.wires \cup f.outputs => Assignable(c, s.lhs, O, W, G)
    /\ \A i \in DOMAIN s.args : s.args \in Seq([net : STRING, not : BOOLEAN])
         => Usable(s.args[i], B, O, W, G)
    /\ Known(f, {}, P \ {s}) = B \cup {s.lhs}

(* So it is when the parser reports s.                                     *)
LEMMA AssignmentFacts ==
    ASSUME NEW c, NEW f, Promising(f), NEW P, P \subseteq f.assigns,
           Reading(c, f, {}, P), NEW s \in P, Timely(f, s, P),
           NEW B, B = Known(f, {}, P), NEW O, O = f.outputs,
           NEW W, W = UnsetWires(f, {}, P \ {s}), NEW G, G = Unknowns(f, P \ {s})
    PROVE  Awaited(c, f, P, s, B, O, W, G)
<1>1. /\ s \in f.assigns /\ Legal(f) /\ P \ {s} \subseteq f.assigns
      /\ s.lhs \in Nets(f) /\ s.lhs \in Names /\ s.lhs \notin f.inputs
  BY NetFacts DEF Promising
<1>2. s.lhs \in Lhs(P) /\ Lhs(P \ {s}) = Lhs(P) \ {s.lhs}
  <2>1. \A t \in P : t.lhs = s.lhs => t = s
    BY <1>1 DEF Legal
  <2> QED BY <2>1 DEF Lhs
<1>3. /\ Outputs(f, {}) = O /\ UnsetWires(f, {}, P) = f.wires \cap Lhs(P)
      /\ W = f.wires \cap Lhs(P \ {s})
      /\ B = f.inputs \cup f.outputs \cup f.wires \cup Lhs(f.assigns \ P)
  BY DEF Outputs, UnsetWires, Known, Reported
<1>4. W \subseteq UnsetWires(f, {}, P) /\ G \subseteq Unknowns(f, P)
  BY <1>2, <1>3 DEF Unknowns
<1>5. Open(c, B, O, UnsetWires(f, {}, P), Unknowns(f, P))
  BY <1>3 DEF Reading
<1>6. Open(c, B, O, W, G)
  BY <1>4, <1>5, OpenLess
<1>7. s.lhs \notin W \cup G
  BY <1>1, <1>2, <1>3, UnknownFacts
<1>8. s.lhs \in f.wires => Unset(c, s.lhs)
  BY <1>2, <1>3, <1>5 DEF Open
<1>9. s.lhs \notin f.wires \cup f.outputs => s.lhs \notin DOMAIN c.names
  BY <1>2, <1>5 DEF Open, Unknowns
<1>10. O \subseteq Nets(f) /\ W \subseteq Nets(f)
  BY <1>3, NetFacts
<1>11. s.lhs \in f.outputs => Assignable(c, s.lhs, O, W, G)
  <2> HAVE s.lhs \in f.outputs
  <2>1. GateName(s.lhs) \in Names /\ GateName(s.lhs) \notin O \cup W
    <3>1. GateName(s.lhs) \in Names /\ GateName(s.lhs) \notin Nets(f)
      BY <1>1, NetFacts
    <3> QED BY <1>10, <3>1
  <2>2. GateName(s.lhs) \notin G
    BY <1>1, <1>2, UnknownFacts
  <2>3. GateName(s.lhs) \in Unknowns(f, P)
    BY <1>1, <1>2, UnknownFacts
  <2> QED BY <1>5, <2>1, <2>2, <2>3 DEF Open, Assignable
<1>12. s.lhs \in f.wires \cup f.outputs => Assignable(c, s.lhs, O, W, G)
  BY <1>7, <1>8, <1>11 DEF Assignable
<1>13. ASSUME NEW i \in DOMAIN s.args, s.args \in Seq([net : STRING, not : BOOLEAN])
       PROVE  Usable(s.args[i], B, O, W, G)
  <2>1. s.args[i].net \in f.inputs \cup Assigned(f) /\ s.args[i].not \in BOOLEAN
    <3>1. s.args[i].net \in f.inputs \cup Assigned(f)
      BY <1>1, <1>13 DEF Legal
    <3> DEFINE args == s.args
               Operands == [net : STRING, not : BOOLEAN]
    <3>2. args[i] \in Operands
      <4>1. args \in Seq(Operands) /\ i \in DOMAIN args
        BY <1>13
      <4> HIDE DEF args, Operands
      <4> QED BY <4>1
    <3> QED BY <3>1, <3>2
  <2>2. s.args[i].net \in Nets(f)
    BY <2>1 DEF Nets
  <2>3. s.args[i].net \in B
    BY <1>3, <1>13, <2>1 DEF Assigned, Lhs, Timely
  <2>4. /\ NotName(s.args[i].net) \in Names
        /\ NotName(s.args[i].net) \notin O \cup W
    <3>1. NotName(s.args[i].net) \in Names /\ NotName(s.args[i].net) \notin Nets(f)
      BY <2>2, NetFacts
    <3> QED BY <1>10, <3>1
  <2>5. NotName(s.args[i].net) \notin G
    BY <1>1, <2>2, UnknownFacts
  <2> QED BY <2>1, <2>3, <2>4, <2>5 DEF Usable
<1>14. Known(f, {}, P \ {s}) = B \cup {s.lhs}
  BY <1>1, <1>3 DEF Known, Reported, Lhs
<1> QED BY <1>1, <1>6, <1>7, <1>8, <1>9, <1>12, <1>13, <1>14 DEF Awaited

-----------------------------------------------------------------------------
(* Every step keeps the invariant.                                         *)

LEMMA HeaderKeeps ==
    ASSUME ReaderInv, OnModuleHeader
    PROVE  ReaderInv'
<1>1. /\ stage = "idle" /\ queue # <<>> /\ stage' = "module" /\ queue' = queue
      /\ undeclared' = {"inputs", "outputs", "wires"} /\ pending' = File.assigns
      /\ hint' = hint /\ clean' = clean /\ File' = File
  BY DEF OnModuleHeader, File
<1>2. /\ ctx' = [ctx EXCEPT !.graph = ctx.graph + 1, !.verts = <<>>, !.lost = {}]
      /\ Shaped(ctx) /\ ctx.status = "ok" /\ queue \in Seq(AllFiles)
      /\ clean => ctx.names = <<>>
  BY <1>1 DEF OnModuleHeader, ReaderInv
<1>3. /\ Shaped(ctx') /\ ctx'.verts = <<>> /\ ctx'.names = ctx.names /\ ctx'.status = "ok"
  <2> DEFINE g == ctx.graph + 1
  <2>1. ctx' = [ctx EXCEPT !.graph = g, !.verts = <<>>, !.lost = {}]
    BY <1>2
  <2> HIDE DEF g
  <2> QED BY <1>2, <2>1 DEF Shaped
<1>4. ASSUME clean PROVE Reading(ctx', File, undeclared', pending')
  <2>1. ctx'.names = <<>> /\ DOMAIN ctx'.names = {}
    BY <1>2, <1>3, <1>4
  <2>2. /\ ctx'.names = [n \in DOMAIN ctx'.names |-> ctx'.names[n]]
        /\ \A n \in DOMAIN ctx'.names : Inside(ctx', ctx'.names[n])
    BY <2>1
  <2>3. Sound(ctx')
    BY <1>3, <2>2 DEF Sound
  <2>4. /\ Known(File, undeclared', pending') = {} /\ Outputs(File, undeclared') = {}
        /\ UnsetWires(File, undeclared', pending') = {}
    BY <1>1 DEF Known, Outputs, UnsetWires, Reported, Lhs
  <2> DEFINE G == Unknowns(File, pending')
  <2>5. G \cap DOMAIN ctx'.names = {}
    BY <2>1
  <2> HIDE DEF G
  <2>6. Open(ctx', {}, {}, {}, G)
    BY <2>3, <2>5 DEF Open
  <2> QED BY <2>4, <2>6 DEF G, Reading
<1> QED BY <1>1, <1>2, <1>3, <1>4 DEF ReaderInv

(* The lists come in any order.                                            *)
LEMMA DeclarationKeeps ==
    ASSUME ReaderInv, NEW kind, NEW type \in Types, NEW gate \in Gates, NEW nets,
           Declaration(kind, type, gate, nets),
           \/ kind = "inputs" /\ nets = File.inputs /\ ~OfOutputs(type, gate) /\ ~OfWires(type, gate)
           \/ kind = "outputs" /\ nets = File.outputs /\ OfOutputs(type, gate)
           \/ kind = "wires" /\ nets = File.wires /\ OfWires(type, gate)
    PROVE  ReaderInv'
<1>1. /\ stage = "module" /\ stage' = stage /\ queue' = queue /\ pending' = pending
      /\ kind \in undeclared /\ undeclared' = undeclared \ {kind}
      /\ hint' = hint /\ clean' = clean /\ File' = File
      /\ undeclared \subseteq {"inputs", "outputs", "wires"} /\ pending \subseteq File.assigns
      /\ queue # <<>> /\ queue \in Seq(AllFiles) /\ Shaped(ctx)
  BY DEF Declaration, File, ReaderInv
<1>2. PICK fits \in BOOLEAN : /\ hint = "zero" => fits
                              /\ ctx' = IF fits THEN Declared(ctx, type, gate, nets) ELSE Ended(ctx, "error")
  BY DEF Declaration
<1>3. Shaped(ctx')
  BY <1>1, <1>2, ShapedSteps, ShapedCallbacks
<1>4. ASSUME clean, hint = "zero", Promising(File)
      PROVE  Reading(ctx', File, undeclared', pending')
  <2> DEFINE f == File
             U == undeclared
             P == pending
             B == Known(f, U, P)
             O == Outputs(f, U)
             W == UnsetWires(f, U, P)
             G == Unknowns(f, P)
             O2 == Outputs(f, U \ {kind})
             W2 == UnsetWires(f, U \ {kind}, P)
             d == Declared(ctx, type, gate, nets)
  <2>1. Open(ctx, B, O, W, G) /\ ctx' = d
    BY <1>1, <1>2, <1>4 DEF ReaderInv, Reading
  <2>2. /\ f.inputs \cap (f.wires \cup f.outputs) = {} /\ f.wires \cap f.outputs = {}
        /\ IsFiniteSet(nets) /\ nets \subseteq Nets(f) /\ nets \subseteq Names
    <3>1. IsFiniteSet(nets) /\ nets \subseteq Nets(f)
      BY <1>4, NetFacts DEF WellFormed
    <3>2. nets \subseteq Names
      BY <1>4, <3>1, NetFacts
    <3>3. Legal(f)
      BY <1>4 DEF Promising
    <3> QED BY <3>1, <3>2, <3>3 DEF Legal
  <2>3. nets \cap G = {}
    <3>1. P \subseteq f.assigns
      BY <1>1
    <3>2. \A n \in Nets(f) : n \in G => n \notin f.wires \cup f.outputs
      BY <1>4, <3>1, UnknownFacts
    <3>3. f.inputs \cap G = {}
      BY <1>4, <3>1, UnknownFacts
    <3> QED BY <2>2, <3>2, <3>3
  <2>4. nets \cap (O \cup W) = {}
    BY <1>1, <2>2 DEF Outputs, UnsetWires, Reported
  <2>5. \/ O2 \subseteq O
        \/ O2 \subseteq O \cup nets /\ OfOutputs(type, gate)
    BY DEF Outputs, Reported
  <2>6. \/ W2 \subseteq W
        \/ W2 \subseteq W \cup nets /\ OfWires(type, gate)
    BY DEF UnsetWires, Reported
  <2>7. Known(f, U \ {kind}, P) \subseteq B \cup nets
    BY DEF Known, Reported
  <2> HIDE DEF f, U, P, B, O, W, G, O2, W2, d
  <2>8. Open(d, B \cup nets, O2, W2, G)
    BY <2>1, <2>2, <2>3, <2>4, <2>5, <2>6, DeclaredFacts DEF d
  <2>9. Open(d, Known(f, U \ {kind}, P), O2, W2, G)
    BY <2>7, <2>8, OpenLess
  <2> QED BY <1>1, <2>1, <2>9 DEF f, U, P, O2, W2, G, Reading
<1> QED BY <1>1, <1>3, <1>4 DEF ReaderInv

(* So does an assignment after which the names fit.                        *)
LEMMA AssignmentKeeps ==
    ASSUME ReaderInv, NEW s \in pending, Assignment(s), Shaped(ctx'),
           clean /\ hint = "zero" /\ Promising(File) => Reading(ctx', File, {}, pending \ {s})
    PROVE  ReaderInv'
BY DEF Assignment, ReaderInv, File

LEMMA ParameterKeeps ==
    ASSUME ReaderInv, NEW s \in pending, Assignment(s), s.op \in ValueOps,
           ctx' = Parameter(ctx, s) \/ ctx' = Constant(ctx, s)
    PROVE  ReaderInv'
<1> DEFINE f == File
           P == pending
           B == Known(f, {}, P)
           O == f.outputs
           W == UnsetWires(f, {}, P \ {s})
           G == Unknowns(f, P \ {s})
<1>1. Shaped(ctx')
  BY ShapedCallbacks DEF ReaderInv
<1>2. ASSUME clean, hint = "zero", Promising(f) PROVE Reading(ctx', f, {}, P \ {s})
  <2>1. /\ P \subseteq f.assigns /\ Reading(ctx, f, {}, P) /\ s \in P /\ s \in f.assigns
        /\ Timely(f, s, P)
    BY <1>2 DEF ReaderInv, Assignment, Ready, Timely
  <2>2. s.lhs \notin O /\ Plain(s.value)
    BY <1>2, <2>1 DEF Promising, Legal, OutputsByGates
  <2> HIDE DEF f, P
  <2>9. Promising(f) /\ B = Known(f, {}, P) /\ O = f.outputs /\ W = UnsetWires(f, {}, P \ {s}) /\ G = Unknowns(f, P \ {s})
    BY <1>2
  <2> HIDE DEF B, O, W, G
  <2>ready. Awaited(ctx, f, P, s, B, O, W, G)
    BY <2>1, <2>9, AssignmentFacts
  <2>3. /\ Open(ctx, B, O, W, G) /\ s.lhs \in Names /\ s.lhs \notin W \cup G
        /\ Known(f, {}, P \ {s}) = B \cup {s.lhs}
    BY <2>ready DEF Awaited
  <2>4. Open(ctx', B \cup {s.lhs}, O, W, G)
    BY <2>2, <2>3, ParameterFacts, ConstantFacts
  <2> QED BY <2>3, <2>4 DEF Reading, Outputs, Reported, O, W, G
<1> QED BY <1>1, <1>2, AssignmentKeeps

LEMMA OneOperand ==
    ASSUME NEW S, NEW args \in Seq(S), Len(args) = 1
    PROVE  1 \in DOMAIN args /\ args[1] \in S
OBVIOUS

LEMMA ThreeOperands ==
    ASSUME NEW S, NEW args \in Seq(S), Len(args) = 3
    PROVE  DOMAIN args = 1..3
OBVIOUS

LEMMA BufferedKeeps ==
    ASSUME ReaderInv, NEW s \in pending, Assignment(s), s.op = "Assign",
           NEW survives, ctx' = Buffered(ctx, s, survives)
    PROVE  ReaderInv'
<1> DEFINE f == File
           P == pending
           B == Known(f, {}, P)
           O == f.outputs
           W == UnsetWires(f, {}, P \ {s})
           G == Unknowns(f, P \ {s})
<1>1. Shaped(ctx')
  BY ShapedCallbacks DEF ReaderInv
<1>2. ASSUME clean, hint = "zero", Promising(f) PROVE Reading(ctx', f, {}, P \ {s})
  <2>1. /\ P \subseteq f.assigns /\ Reading(ctx, f, {}, P) /\ s \in P /\ s \in f.assigns
        /\ Timely(f, s, P)
    BY <1>2 DEF ReaderInv, Assignment, Ready, Timely
  <2>2. s.lhs \in f.wires \cup f.outputs
    BY <1>2, <2>1 DEF Promising, Legal
  <2>3. s.args \in Seq([net : STRING, not : BOOLEAN]) /\ Len(s.args) = 1
    BY <1>2, <2>1, NetFacts DEF WellFormed, ValueOps, ElemOps
  <2> HIDE DEF f, P
  <2>4. Promising(f) /\ B = Known(f, {}, P) /\ O = f.outputs /\ W = UnsetWires(f, {}, P \ {s}) /\ G = Unknowns(f, P \ {s})
    BY <1>2
  <2>5. s.lhs \in B /\ (s.lhs \in f.wires \/ s.lhs \in O)
    BY <2>2 DEF Known, Reported
  <2> HIDE DEF B, O, W, G
  <2>ready. Awaited(ctx, f, P, s, B, O, W, G)
    BY <2>1, <2>4, AssignmentFacts
  <2>6. /\ Open(ctx, B, O, W, G) /\ s.lhs \notin W \cup G
        /\ s.lhs \in f.wires => Unset(ctx, s.lhs)
        /\ \A i \in DOMAIN s.args : s.args \in Seq([net : STRING, not : BOOLEAN])
             => Usable(s.args[i], B, O, W, G)
        /\ Known(f, {}, P \ {s}) = B \cup {s.lhs}
    BY <2>ready DEF Awaited
  <2>7. Usable(s.args[1], B, O, W, G) /\ s.args[1] \in [net : STRING, not : BOOLEAN]
    BY <2>3, <2>6, OneOperand
  <2>8. (Unset(ctx, s.lhs) /\ s.lhs \notin W) \/ s.lhs \in O
    BY <2>5, <2>6
  <2>9. Open(ctx', B, O, W, G)
    BY <2>6, <2>7, <2>8, BufferedFacts
  <2>10. B = B \cup {s.lhs}
    BY <2>5
  <2> QED BY <2>6, <2>9, <2>10 DEF Reading, Outputs, Reported, O, W, G
<1> QED BY <1>1, <1>2, AssignmentKeeps

LEMMA ElemKeeps ==
    ASSUME ReaderInv, NEW s \in pending, Assignment(s), s.op \in ElemOps, ctx' = Elem(ctx, s)
    PROVE  ReaderInv'
<1> DEFINE f == File
           P == pending
           B == Known(f, {}, P)
           O == f.outputs
           W == UnsetWires(f, {}, P \ {s})
           G == Unknowns(f, P \ {s})
<1>1. Shaped(ctx')
  BY ShapedCallbacks DEF ReaderInv
<1>2. ASSUME clean, hint = "zero", Promising(f) PROVE Reading(ctx', f, {}, P \ {s})
  <2>1. /\ P \subseteq f.assigns /\ Reading(ctx, f, {}, P) /\ s \in P /\ s \in f.assigns
        /\ Timely(f, s, P)
    BY <1>2 DEF ReaderInv, Assignment, Ready, Timely
  <2>2. s.lhs \in f.wires \cup f.outputs
    BY <1>2, <2>1 DEF Promising, Legal
  <2>3. s.args \in Seq([net : STRING, not : BOOLEAN]) /\ Len(s.args) \in {2, 3}
    BY <1>2, <2>1, NetFacts DEF WellFormed, ValueOps, ElemOps
  <2> HIDE DEF f, P
  <2>4. Promising(f) /\ B = Known(f, {}, P) /\ O = f.outputs /\ W = UnsetWires(f, {}, P \ {s}) /\ G = Unknowns(f, P \ {s})
    BY <1>2
  <2>5. B = B \cup {s.lhs}
    BY <2>2 DEF Known, Reported
  <2> HIDE DEF B, O, W, G
  <2>ready. Awaited(ctx, f, P, s, B, O, W, G)
    BY <2>1, <2>4, AssignmentFacts
  <2>6. /\ Open(ctx, B, O, W, G)
        /\ s.lhs \in f.wires \cup f.outputs => Assignable(ctx, s.lhs, O, W, G)
        /\ \A i \in DOMAIN s.args : s.args \in Seq([net : STRING, not : BOOLEAN])
             => Usable(s.args[i], B, O, W, G)
        /\ Known(f, {}, P \ {s}) = B \cup {s.lhs}
    BY <2>ready DEF Awaited
  <2>7. Open(ctx', B, O, W, G)
    BY <2>2, <2>3, <2>6, ElemFacts
  <2> QED BY <2>5, <2>6, <2>7 DEF Reading, Outputs, Reported, O, W, G
<1> QED BY <1>1, <1>2, AssignmentKeeps

LEMMA MajorityKeeps ==
    ASSUME ReaderInv, NEW s \in pending, Assignment(s), s.op = "Maj",
           NEW survives, ctx' = Majority(ctx, s, survives)
    PROVE  ReaderInv'
<1> DEFINE f == File
           P == pending
           B == Known(f, {}, P)
           O == f.outputs
           W == UnsetWires(f, {}, P \ {s})
           G == Unknowns(f, P \ {s})
<1>1. Shaped(ctx')
  BY ShapedCallbacks DEF ReaderInv
<1>2. ASSUME clean, hint = "zero", Promising(f) PROVE Reading(ctx', f, {}, P \ {s})
  <2>1. /\ P \subseteq f.assigns /\ Reading(ctx, f, {}, P) /\ s \in P /\ s \in f.assigns
        /\ Timely(f, s, P)
    BY <1>2 DEF ReaderInv, Assignment, Ready, Timely
  <2>2. s.lhs \notin O
    BY <1>2, <2>1 DEF Promising, OutputsByGates
  <2>3. s.args \in Seq([net : STRING, not : BOOLEAN]) /\ Len(s.args) = 3
    BY <1>2, <2>1, NetFacts DEF WellFormed, ValueOps, ElemOps
  <2> HIDE DEF f, P
  <2>4. Promising(f) /\ B = Known(f, {}, P) /\ O = f.outputs /\ W = UnsetWires(f, {}, P \ {s}) /\ G = Unknowns(f, P \ {s})
    BY <1>2
  <2> HIDE DEF B, O, W, G
  <2>ready. Awaited(ctx, f, P, s, B, O, W, G)
    BY <2>1, <2>4, AssignmentFacts
  <2>5. /\ Open(ctx, B, O, W, G) /\ s.lhs \in Names /\ s.lhs \notin W \cup G
        /\ s.lhs \notin O /\ s.lhs \in DOMAIN ctx.names => Unset(ctx, s.lhs)
        /\ \A i \in DOMAIN s.args : s.args \in Seq([net : STRING, not : BOOLEAN])
             => Usable(s.args[i], B, O, W, G)
        /\ Known(f, {}, P \ {s}) = B \cup {s.lhs}
    BY <2>ready DEF Awaited
  <2>6. \A i \in 1..3 : Usable(s.args[i], B, O, W, G)
    BY <2>3, <2>5, ThreeOperands
  <2>7. Open(ctx', B \cup {s.lhs}, O, W, G)
    BY <2>2, <2>5, <2>6, MajorityFacts
  <2> QED BY <2>5, <2>7 DEF Reading, Outputs, Reported, O, W, G
<1> QED BY <1>1, <1>2, AssignmentKeeps

LEMMA EndmoduleKeeps ==
    ASSUME ReaderInv, OnEndmodule
    PROVE  ReaderInv'
<1>1. /\ stage' = "idle" /\ queue # <<>> /\ queue \in Seq(AllFiles) /\ queue' = Tail(queue)
      /\ Shaped(ctx) /\ ctx.status = "ok"
  BY DEF OnEndmodule, ReaderInv
<1>2. queue' \in Seq(AllFiles)
  BY <1>1
<1> DEFINE kept == {graphs'[n].graph : n \in DOMAIN graphs'}
<1>3. ctx' = [ctx EXCEPT !.names = <<>>, !.kept = kept]
  BY DEF OnEndmodule, NamesAfter
<1> HIDE DEF kept
<1>4. Shaped(ctx') /\ ctx'.status = "ok" /\ ctx'.names = <<>>
  BY <1>1, <1>3 DEF Shaped
<1> QED BY <1>1, <1>2, <1>4 DEF ReaderInv

LEMMA FailureKeeps ==
    ASSUME ReaderInv, ReadVerilogFails
    PROVE  ReaderInv'
<1>1. /\ stage' = "idle" /\ queue # <<>> /\ queue \in Seq(AllFiles) /\ queue' = Tail(queue)
      /\ Shaped(ctx) /\ ctx' = [ctx EXCEPT !.status = "ok"] /\ clean' = FALSE
  BY DEF ReadVerilogFails, ReaderInv
<1>2. queue' \in Seq(AllFiles)
  BY <1>1
<1>3. Shaped(ctx') /\ ctx'.status = "ok"
  BY <1>1 DEF Shaped
<1> QED BY <1>1, <1>2, <1>3 DEF ReaderInv

-----------------------------------------------------------------------------
(* The theorems.                                                           *)

LEMMA InitReader == Init => ReaderInv
<1> HAVE Init
<1>1. queue \in Seq(AllFiles) /\ stage = "idle" /\ ctx = Fresh
  BY GraphReaderAssumption DEF Init
<1>2. Shaped(ctx) /\ ctx.status = "ok" /\ ctx.names = <<>>
  BY <1>1 DEF Fresh, Shaped
<1> QED BY <1>1, <1>2 DEF ReaderInv

LEMMA NextReader == ReaderInv /\ [Next]_vars => ReaderInv'
<1> SUFFICES ASSUME ReaderInv, [Next]_vars PROVE ReaderInv'
  OBVIOUS
<1>1. CASE OnModuleHeader
  BY <1>1, HeaderKeeps
<1>2. CASE OnInputs
  <2> DEFINE type == "input"
             gate == ""
  <2>1. type \in Types /\ gate \in Gates /\ ~OfOutputs(type, gate) /\ ~OfWires(type, gate)
    BY DEF Types, Gates, OfOutputs, OfWires
  <2>2. Declaration("inputs", type, gate, File.inputs)
    BY <1>2 DEF OnInputs
  <2> HIDE DEF type, gate
  <2> QED BY <2>1, <2>2, DeclarationKeeps
<1>3. CASE OnOutputs
  <2> DEFINE type == "output"
             gate == ""
  <2>1. type \in Types /\ gate \in Gates /\ OfOutputs(type, gate)
    BY DEF Types, Gates, OfOutputs
  <2>2. Declaration("outputs", type, gate, File.outputs)
    BY <1>3 DEF OnOutputs
  <2> HIDE DEF type, gate
  <2> QED BY <2>1, <2>2, DeclarationKeeps
<1>4. CASE OnWires
  <2> DEFINE type == "gate"
             gate == "Default"
  <2>1. type \in Types /\ gate \in Gates /\ OfWires(type, gate)
    BY DEF Types, Gates, OfWires
  <2>2. Declaration("wires", type, gate, File.wires)
    BY <1>4 DEF OnWires
  <2> HIDE DEF type, gate
  <2> QED BY <2>1, <2>2, DeclarationKeeps
<1>5. ASSUME NEW s \in pending, OnParameter(s) PROVE ReaderInv'
  <2>1. s.op \in ValueOps
    BY <1>5 DEF OnParameter, ValueOps
  <2> QED BY <1>5, <2>1, ParameterKeeps DEF OnParameter
<1>6. ASSUME NEW s \in pending, OnAssign(s) PROVE ReaderInv'
  <2>1. CASE s.op = "Const" /\ ctx' = Constant(ctx, s)
    <3>1. s.op \in ValueOps
      BY <2>1 DEF ValueOps
    <3> QED BY <1>6, <2>1, <3>1, ParameterKeeps DEF OnAssign
  <2>2. CASE s.op = "Assign" /\ \E survives \in BOOLEAN : ctx' = Buffered(ctx, s, survives)
    BY <1>6, <2>2, BufferedKeeps DEF OnAssign
  <2> QED BY <1>6, <2>1, <2>2 DEF OnAssign
<1>7. ASSUME NEW s \in pending, OnElem(s) PROVE ReaderInv'
  BY <1>7, ElemKeeps DEF OnElem
<1>8. ASSUME NEW s \in pending, OnMaj3(s) PROVE ReaderInv'
  BY <1>8, MajorityKeeps DEF OnMaj3
<1>9. CASE OnEndmodule
  BY <1>9, EndmoduleKeeps
<1>10. CASE ReadVerilogFails
  BY <1>10, FailureKeeps
<1>11. CASE UNCHANGED vars
  BY <1>11 DEF vars, ReaderInv, File
<1> QED BY <1>1, <1>2, <1>3, <1>4, <1>5, <1>6, <1>7, <1>8, <1>9, <1>10, <1>11 DEF Next

(* Whatever is read in whatever order, no name of the table is left from a *)
(* graph already freed, a wire waits untouched for its assignment, and the *)
(* name of an output gate is free until that output is assigned.           *)
THEOREM ReaderInvariant == Spec => []ReaderInv
BY InitReader, NextReader, PTL DEF Spec

(* readVerilog gets through every legal file with a value-initialised      *)
(* Context as long as none has failed: no callback throws, and none uses a *)
(* vertex of a graph that is gone.                                         *)
THEOREM LegalRead == Spec => []LegalFilesAreRead
<1>1. ReaderInv => LegalFilesAreRead
  <2> SUFFICES ASSUME ReaderInv, stage = "module", clean, hint = "zero",
                      Legal(File), Unreserved(File), OutputsByGates(File)
               PROVE  ctx.status = "ok"
    BY DEF LegalFilesAreRead
  <2>1. File \in AllFiles
    <3>1. queue \in Seq(AllFiles) /\ queue # <<>>
      BY DEF ReaderInv
    <3> QED BY <3>1 DEF File
  <2>2. Reading(ctx, File, undeclared, pending)
    BY <2>1 DEF ReaderInv, Promising
  <2> QED BY <2>2 DEF Reading, Open, Sound
<1> QED BY <1>1, ReaderInvariant, PTL

-----------------------------------------------------------------------------
(* Values that are worked out round by round settle.                       *)

\* Nothing in M depends on itself.
Grounded(M, dep) ==
    /\ \A v \in M : dep[v] \subseteq M
    /\ \A S \in SUBSET M : S # {} => \E v \in S : dep[v] \cap S = {}

\* A value stays when those it depends on have stayed.
Responds(M, val, dep) ==
    \A k \in Nat : \A v \in M :
      (\A u \in dep[v] : val[k + 1][u] = val[k][u]) => val[k + 2][v] = val[k + 1][v]

(* As many rounds as there are members settle all of them.                 *)
LEMMA RoundsSettle ==
    ASSUME NEW M, IsFiniteSet(M), NEW val, NEW dep, Grounded(M, dep), Responds(M, val, dep),
           NEW N \in Nat, Cardinality(M) <= N
    PROVE  \A v \in M : val[N + 1][v] = val[N][v]
<1>0. /\ \A v \in M : dep[v] \subseteq M
      /\ \A S \in SUBSET M : S # {} => \E v \in S : dep[v] \cap S = {}
      /\ \A k \in Nat : \A v \in M :
           (\A u \in dep[v] : val[k + 1][u] = val[k][u]) => val[k + 2][v] = val[k + 1][v]
  BY DEF Grounded, Responds
<1> DEFINE Still(k) == {v \in M : \A j \in Nat : k <= j => val[j + 1][v] = val[j][v]}
           Bad == {k \in Nat : ~(Still(k) = M \/ k <= Cardinality(Still(k)))}
<1>1. \A k \in Nat : Still(k) \subseteq M /\ IsFiniteSet(Still(k)) /\ Cardinality(Still(k)) \in Nat
  BY FS_Subset, FS_CardinalityType
<1>2. ASSUME NEW k \in Nat PROVE Still(k) \subseteq Still(k + 1)
  OBVIOUS
<1>3. ASSUME NEW k \in Nat, Still(k) # M PROVE Still(k + 1) # Still(k)
  <2> DEFINE S == M \ Still(k)
  <2>1. S \in SUBSET M /\ S # {}
    BY <1>3
  <2>2. PICK v \in S : dep[v] \cap S = {}
    <3> HIDE DEF S
    <3> QED BY <1>0, <2>1
  <2>3. v \in M /\ dep[v] \subseteq Still(k)
    BY <1>0, <2>2
  <2>4. ASSUME NEW j \in Nat, k + 1 <= j PROVE val[j + 1][v] = val[j][v]
    <3>1. j - 1 \in Nat /\ k <= j - 1 /\ (j - 1) + 1 = j /\ (j - 1) + 2 = j + 1
      BY <2>4
    <3>2. \A u \in dep[v] : val[(j - 1) + 1][u] = val[j - 1][u]
      BY <2>3, <3>1
    <3>3. val[(j - 1) + 2][v] = val[(j - 1) + 1][v]
      <4> HIDE DEF S, Still
      <4> QED BY <1>0, <2>3, <3>1, <3>2
    <3> QED BY <3>1, <3>3
  <2>5. v \in Still(k + 1) /\ v \notin Still(k)
    BY <2>2, <2>3, <2>4
  <2> QED BY <2>5
<1> HIDE DEF Still
<1>4. Bad = {}
  <2> SUFFICES ASSUME Bad # {} PROVE FALSE
    OBVIOUS
  <2>1. PICK k \in Bad : \A j \in Bad : k <= j
    <3>1. Bad \subseteq Nat
      OBVIOUS
    <3> HIDE DEF Bad
    <3> QED BY <3>1, Least
  <2>2. k \in Nat /\ Still(k) # M /\ ~(k <= Cardinality(Still(k)))
    BY <2>1
  <2>3. k # 0
    BY <1>1, <2>2
  <2> DEFINE j == k - 1
  <2>4. j \in Nat /\ j + 1 = k /\ ~(k <= j)
    BY <2>2, <2>3
  <2>5. Still(j) = M \/ j <= Cardinality(Still(j))
    BY <2>1, <2>4
  <2> HIDE DEF j
  <2>6. Still(j) \subseteq Still(k) /\ Still(j) # M
    <3>1. Still(j) \subseteq Still(j + 1)
      BY <1>2, <2>4
    <3>2. Still(k) \subseteq M /\ Still(j + 1) = Still(k)
      BY <1>1, <2>2, <2>4
    <3> QED BY <2>2, <3>1, <3>2
  <2>7. Still(k) # Still(j)
    BY <1>3, <2>4, <2>6
  <2>8. Cardinality(Still(j)) < Cardinality(Still(k))
    <3>1. Cardinality(Still(j)) <= Cardinality(Still(k))
      BY <1>1, <2>2, <2>6, FS_Subset
    <3>2. Cardinality(Still(j)) # Cardinality(Still(k))
      BY <1>1, <2>2, <2>6, <2>7, FS_Subset
    <3> QED BY <1>1, <2>2, <2>4, <3>1, <3>2
  <2> QED BY <1>1, <2>2, <2>4, <2>5, <2>6, <2>8
<1>5. Still(N) = M
  <2>1. Still(N) = M \/ N <= Cardinality(Still(N))
    BY <1>4
  <2>2. ASSUME N <= Cardinality(Still(N)) PROVE Still(N) = M
    <3>1. Cardinality(Still(N)) <= Cardinality(M) /\ Cardinality(M) \in Nat
      BY <1>1, FS_Subset, FS_CardinalityType
    <3>2. Cardinality(Still(N)) = Cardinality(M)
      BY <1>1, <2>2, <3>1
    <3> QED BY <1>1, <3>2, FS_Subset
  <2> QED BY <2>1, <2>2
<1> QED BY <1>5 DEF Still

-----------------------------------------------------------------------------
(* What gates and assignments make of zeros and ones.                      *)

Bits == {"0", "1"}

\* The values of the operands make this one.
Says(op, l) ==
    LET ones == Cardinality({i \in DOMAIN l : l[i] = "1"})
    IN  CASE op = "Assign" -> Bit(ones = 1)
          [] op = "And"  -> Bit(ones = Len(l))
          [] op = "Nand" -> Bit(ones # Len(l))
          [] op = "Or"   -> Bit(ones > 0)
          [] op = "Nor"  -> Bit(ones = 0)
          [] op = "Xor"  -> Bit(ones % 2 = 1)
          [] op = "Xnor" -> Bit(ones % 2 = 0)
          [] op = "Maj"  -> Bit(ones >= 2)

One(a) == IF a = "1" THEN 1 ELSE 0

LEMMA OnesFacts ==
    ASSUME NEW l, l \in Seq(Bits)
    PROVE  /\ Len(l) = 1 => Cardinality({i \in DOMAIN l : l[i] = "1"}) = One(l[1])
           /\ Len(l) = 2 => Cardinality({i \in DOMAIN l : l[i] = "1"}) = One(l[1]) + One(l[2])
           /\ Len(l) = 3 => Cardinality({i \in DOMAIN l : l[i] = "1"}) = One(l[1]) + One(l[2]) + One(l[3])
<1> DEFINE upTo(n) == {i \in 1..n : l[i] = "1"}
<1>1. IsFiniteSet(upTo(0)) /\ Cardinality(upTo(0)) = 0
  <2>1. upTo(0) = {}
    OBVIOUS
  <2> QED BY <2>1, FS_EmptySet
<1>2. ASSUME NEW n \in Nat, IsFiniteSet(upTo(n)), Cardinality(upTo(n)) \in Nat
      PROVE  /\ IsFiniteSet(upTo(n + 1))
             /\ Cardinality(upTo(n + 1)) = Cardinality(upTo(n)) + One(l[n + 1])
  <2>1. CASE l[n + 1] = "1"
    <3>1. upTo(n + 1) = upTo(n) \cup {n + 1} /\ n + 1 \notin upTo(n)
      BY <2>1
    <3> HIDE DEF upTo
    <3> QED BY <1>2, <2>1, <3>1, FS_AddElement DEF One
  <2>2. CASE l[n + 1] # "1"
    <3>1. upTo(n + 1) = upTo(n)
      BY <2>2
    <3>2. One(l[n + 1]) = 0
      BY <2>2 DEF One
    <3> HIDE DEF upTo
    <3> QED BY <1>2, <3>1, <3>2
  <2> QED BY <2>1, <2>2
<1>3. \A n \in Nat : One(l[n]) \in Nat
  BY DEF One
<1>4. {i \in DOMAIN l : l[i] = "1"} = upTo(Len(l)) /\ Len(l) \in Nat
  OBVIOUS
<1> HIDE DEF upTo
<1>5. IsFiniteSet(upTo(1)) /\ Cardinality(upTo(1)) = One(l[1])
  <2>1. 0 + 1 = 1 /\ 0 \in Nat /\ 1 \in Nat
    OBVIOUS
  <2>2. Cardinality(upTo(0)) \in Nat
    BY <1>1
  <2>3. IsFiniteSet(upTo(0 + 1)) /\ Cardinality(upTo(0 + 1)) = 0 + One(l[0 + 1])
    BY <1>1, <1>2, <2>1, <2>2
  <2> QED BY <1>3, <2>1, <2>3
<1>6. IsFiniteSet(upTo(2)) /\ Cardinality(upTo(2)) = One(l[1]) + One(l[2])
  <2>1. 1 + 1 = 2 /\ 1 \in Nat
    OBVIOUS
  <2>2. Cardinality(upTo(1)) \in Nat
    <3>1. One(l[1]) \in Nat
      BY <1>3, <2>1
    <3> QED BY <1>5, <3>1
  <2>3. IsFiniteSet(upTo(1 + 1)) /\ Cardinality(upTo(1 + 1)) = One(l[1]) + One(l[1 + 1])
    BY <1>2, <1>5, <2>1, <2>2
  <2> QED BY <2>1, <2>3
<1>7. Cardinality(upTo(3)) = One(l[1]) + One(l[2]) + One(l[3])
  <2>1. 2 + 1 = 3 /\ 2 \in Nat
    OBVIOUS
  <2>2. Cardinality(upTo(2)) \in Nat
    <3>1. One(l[1]) \in Nat /\ One(l[2]) \in Nat
      BY <1>3, <2>1
    <3> QED BY <1>6, <3>1
  <2>3. Cardinality(upTo(2 + 1)) = One(l[1]) + One(l[2]) + One(l[2 + 1])
    BY <1>2, <1>6, <2>1, <2>2
  <2> QED BY <2>1, <2>3
<1> QED BY <1>4, <1>5, <1>6, <1>7

(* What a gate makes of one, two or three operands.                        *)
LEMMA ChainFacts ==
    ASSUME NEW gate, NEW T, NEW in \in Seq(T)
    PROVE  /\ Len(in) = 1 => Chain(gate, in) = Single(gate, in[1])
           /\ Len(in) = 2 => Chain(gate, in) = Table(gate, Single(gate, in[1]), in[2])
           /\ Len(in) = 3 =>
                Chain(gate, in) = Table(gate, Table(gate, Single(gate, in[1]), in[2]), in[3])
<1> DEFINE first == Single(gate, in[1])
           Rule(f) == [k \in 1..Len(in) |-> IF k = 1 THEN first ELSE Table(gate, f[k - 1], in[k])]
           upTo == CHOOSE f : f = Rule(f)
<1>1. Chain(gate, in) = upTo[Len(in)]
  BY DEF Chain
<1>2. ASSUME \E f : f = Rule(f) PROVE upTo = Rule(upTo)
  BY <1>2
<1> HIDE DEF upTo
<1>3. ASSUME Len(in) = 1 PROVE Chain(gate, in) = first
  <2> DEFINE f == [k \in 1..Len(in) |-> first]
  <2> HIDE DEF first
  <2>1. f = Rule(f)
    BY <1>3
  <2>2. upTo = Rule(upTo)
    BY <1>2, <2>1
  <2>3. upTo[1] = first
    BY <1>3, <2>2
  <2>4. upTo[Len(in)] = upTo[1]
    BY <1>3
  <2> QED BY <1>1, <2>3, <2>4
<1> HIDE DEF first
<1>4. ASSUME Len(in) = 2 PROVE Chain(gate, in) = Table(gate, first, in[2])
  <2> DEFINE two == Table(gate, first, in[2])
             f == [k \in 1..2 |-> IF k = 1 THEN first ELSE two]
  <2> HIDE DEF two
  <2>1. f = Rule(f)
    <3>1. f[1] = first /\ f[2] = two
      OBVIOUS
    <3>2. Rule(f) = [k \in 1..2 |-> IF k = 1 THEN first ELSE Table(gate, f[k - 1], in[k])]
      BY <1>4
    <3>3. \A k \in 1..2 : f[k] = IF k = 1 THEN first ELSE Table(gate, f[k - 1], in[k])
      <4>1. Table(gate, f[2 - 1], in[2]) = two
        BY <3>1 DEF two
      <4> HIDE DEF f
      <4> QED BY <3>1, <4>1
    <3> QED BY <3>2, <3>3
  <2>2. upTo = Rule(upTo)
    <3> HIDE DEF Rule, f
    <3> QED BY <1>2, <2>1
  <2>3. upTo[1] = first /\ upTo[2] = Table(gate, upTo[2 - 1], in[2])
    BY <1>4, <2>2
  <2>4. upTo[2 - 1] = first
    BY <2>3
  <2>5. upTo[2] = Table(gate, first, in[2])
    BY <2>3, <2>4
  <2> QED BY <1>1, <1>4, <2>5
<1>5. ASSUME Len(in) = 3
      PROVE  Chain(gate, in) = Table(gate, Table(gate, first, in[2]), in[3])
  <2> DEFINE two == Table(gate, first, in[2])
             three == Table(gate, two, in[3])
             f == [k \in 1..3 |-> IF k = 1 THEN first ELSE IF k = 2 THEN two ELSE three]
  <2> HIDE DEF two, three
  <2>1. f = Rule(f)
    <3>1. f[1] = first /\ f[2] = two /\ f[3] = three
      OBVIOUS
    <3>2. Rule(f) = [k \in 1..3 |-> IF k = 1 THEN first ELSE Table(gate, f[k - 1], in[k])]
      BY <1>5
    <3>3. \A k \in 1..3 : f[k] = IF k = 1 THEN first ELSE Table(gate, f[k - 1], in[k])
      <4>1. Table(gate, f[2 - 1], in[2]) = two /\ Table(gate, f[3 - 1], in[3]) = three
        BY <3>1 DEF two, three
      <4> HIDE DEF f
      <4> QED BY <3>1, <4>1
    <3> QED BY <3>2, <3>3
  <2>2. upTo = Rule(upTo)
    <3> HIDE DEF Rule, f
    <3> QED BY <1>2, <2>1
  <2>3. /\ upTo[1] = first /\ upTo[2] = Table(gate, upTo[2 - 1], in[2])
        /\ upTo[3] = Table(gate, upTo[3 - 1], in[3])
    BY <1>5, <2>2
  <2>4. upTo[2 - 1] = first /\ upTo[3 - 1] = upTo[2]
    BY <2>3
  <2>5. upTo[3] = Table(gate, Table(gate, first, in[2]), in[3])
    BY <2>3, <2>4
  <2> QED BY <1>1, <1>5, <2>5
<1> QED BY <1>3, <1>4, <1>5 DEF first

(* What a list of one, two or three bits says, spelled out.                *)
LEMMA SaysFacts ==
    ASSUME NEW l, l \in Seq(Bits), Len(l) \in 1..3
    PROVE  /\ Says("And", l) = Bit(Range(l) = {"1"})
           /\ Says("Or", l) = Bit("1" \in Range(l))
           /\ Len(l) = 2 => /\ Says("Nand", l) = Bit(l[1] # "1" \/ l[2] # "1")
                            /\ Says("Nor", l) = Bit(l[1] # "1" /\ l[2] # "1")
                            /\ Says("Xor", l) = Bit(l[1] # l[2])
                            /\ Says("Xnor", l) = Bit(l[1] = l[2])
           /\ Len(l) = 3 => /\ Says("Xor", l) = Bit((l[1] # l[2]) # (l[3] = "1"))
                            /\ Says("Maj", l) = Bit(\/ l[1] = "1" /\ l[2] = "1"
                                                    \/ l[1] = "1" /\ l[3] = "1"
                                                    \/ l[2] = "1" /\ l[3] = "1")
           /\ Len(l) = 1 => Says("Assign", l) = l[1]
<1>1. DOMAIN l = 1..Len(l) /\ \A i \in 1..Len(l) : l[i] \in Bits
  OBVIOUS
<1>2. Range(l) = {l[i] : i \in 1..Len(l)}
  BY <1>1 DEF Range
<1> DEFINE ones == Cardinality({i \in DOMAIN l : l[i] = "1"})
<1>3. /\ Len(l) = 1 => ones = One(l[1])
      /\ Len(l) = 2 => ones = One(l[1]) + One(l[2])
      /\ Len(l) = 3 => ones = One(l[1]) + One(l[2]) + One(l[3])
  BY OnesFacts
<1>4. /\ Says("And", l) = Bit(ones = Len(l)) /\ Says("Or", l) = Bit(ones > 0)
      /\ Says("Nand", l) = Bit(ones # Len(l)) /\ Says("Nor", l) = Bit(ones = 0)
      /\ Says("Xor", l) = Bit(ones % 2 = 1) /\ Says("Xnor", l) = Bit(ones % 2 = 0)
      /\ Says("Maj", l) = Bit(ones >= 2) /\ Says("Assign", l) = Bit(ones = 1)
  BY DEF Says
<1> HIDE DEF ones
<1>5. One("1") = 1 /\ One("0") = 0 /\ "0" # "1"
  BY DEF One
<1>6. CASE Len(l) = 1
  <2>1. Range(l) = {l[1]} /\ l[1] \in Bits /\ ones = One(l[1])
    BY <1>1, <1>2, <1>3, <1>6
  <2>2. CASE l[1] = "1"
    <3>1. ones = 1 /\ Range(l) = {"1"}
      BY <1>5, <2>1, <2>2
    <3> QED BY <1>4, <1>6, <2>2, <3>1 DEF Bit
  <2>3. CASE l[1] = "0"
    <3>1. ones = 0 /\ Range(l) = {"0"}
      BY <1>5, <2>1, <2>3
    <3> QED BY <1>4, <1>5, <1>6, <2>3, <3>1 DEF Bit
  <2> QED BY <2>1, <2>2, <2>3 DEF Bits
<1>7. CASE Len(l) = 2
  <2>1. /\ Range(l) = {l[1], l[2]} /\ l[1] \in Bits /\ l[2] \in Bits
        /\ ones = One(l[1]) + One(l[2])
    BY <1>1, <1>2, <1>3, <1>7
  <2>2. CASE l[1] = "1" /\ l[2] = "1"
    <3>1. ones = 2 /\ Range(l) = {"1"}
      BY <1>5, <2>1, <2>2
    <3> QED BY <1>4, <1>7, <2>2, <3>1 DEF Bit
  <2>3. CASE l[1] = "0" /\ l[2] = "0"
    <3>1. ones = 0 /\ Range(l) = {"0"}
      BY <1>5, <2>1, <2>3
    <3> QED BY <1>4, <1>5, <1>7, <2>3, <3>1 DEF Bit
  <2>4. CASE l[1] # l[2]
    <3>1. ones = 1 /\ Range(l) = {"0", "1"}
      BY <1>5, <2>1, <2>4 DEF Bits
    <3> QED BY <1>4, <1>5, <1>7, <2>1, <2>4, <3>1 DEF Bit, Bits
  <2> QED BY <2>1, <2>2, <2>3, <2>4 DEF Bits
<1>8. CASE Len(l) = 3
  <2> DEFINE a == l[1]
             b == l[2]
             c == l[3]
  <2>1. /\ Range(l) = {a, b, c} /\ a \in Bits /\ b \in Bits /\ c \in Bits
        /\ ones = One(a) + One(b) + One(c)
    BY <1>1, <1>2, <1>3, <1>8
  <2> HIDE DEF a, b, c
  <2>2. CASE a = "1" /\ b = "1" /\ c = "1"
    <3>1. ones = 3 /\ Range(l) = {"1"}
      BY <1>5, <2>1, <2>2
    <3> QED BY <1>4, <1>8, <2>2, <3>1 DEF Bit, a, b, c
  <2>3. CASE a = "0" /\ b = "0" /\ c = "0"
    <3>1. ones = 0 /\ Range(l) = {"0"}
      BY <1>5, <2>1, <2>3
    <3> QED BY <1>4, <1>5, <1>8, <2>3, <3>1 DEF Bit, a, b, c
  <2>4. CASE \/ a = "1" /\ b = "0" /\ c = "0"
             \/ a = "0" /\ b = "1" /\ c = "0"
             \/ a = "0" /\ b = "0" /\ c = "1"
    <3>1. ones = 1 /\ Range(l) = {"0", "1"}
      BY <1>5, <2>1, <2>4
    <3> QED BY <1>4, <1>5, <1>8, <2>4, <3>1 DEF Bit, a, b, c
  <2>5. CASE \/ a = "0" /\ b = "1" /\ c = "1"
             \/ a = "1" /\ b = "0" /\ c = "1"
             \/ a = "1" /\ b = "1" /\ c = "0"
    <3>1. ones = 2 /\ Range(l) = {"0", "1"}
      BY <1>5, <2>1, <2>5
    <3> QED BY <1>4, <1>5, <1>8, <2>5, <3>1 DEF Bit, a, b, c
  <2> QED BY <2>1, <2>2, <2>3, <2>4, <2>5 DEF Bits
<1>9. Len(l) = 1 \/ Len(l) = 2 \/ Len(l) = 3
  OBVIOUS
<1> QED
  <2> DEFINE n == Len(l)
  <2> HIDE DEF n
  <2>1. n = 1 \/ n = 2 \/ n = 3
    BY <1>9 DEF n
  <2> QED BY <2>1, <1>6, <1>7, <1>8 DEF n

(* A gate says of its operands what the operator says.                     *)
LEMMA GateSays ==
    ASSUME NEW gate \in ElemOps, NEW l, l \in Seq(Bits),
           Len(l) \in (IF gate \in {"And", "Or", "Xor"} THEN {2, 3} ELSE {2})
    PROVE  Chain(gate, l) = Says(gate, l)
<1>1. /\ Len(l) \in 1..3
      /\ Len(l) = 2 => l[1] \in Bits /\ l[2] \in Bits /\ Range(l) = {l[1], l[2]}
      /\ Len(l) = 3 => l[1] \in Bits /\ l[2] \in Bits /\ l[3] \in Bits /\ Range(l) = {l[1], l[2], l[3]}
  BY DEF Range
<1>2. \A a : Single(gate, a) = a
  BY DEF Single, ElemOps
<1>3. CASE Len(l) = 2
  <2>1. Chain(gate, l) = Table(gate, l[1], l[2])
    BY <1>2, <1>3, ChainFacts
  <2> DEFINE a == l[1]
             b == l[2]
  <2>2. a \in Bits /\ b \in Bits /\ Range(l) = {a, b}
    BY <1>1, <1>3
  <2>3. /\ Says("And", l) = Bit(Range(l) = {"1"}) /\ Says("Or", l) = Bit("1" \in Range(l))
        /\ Says("Nand", l) = Bit(a # "1" \/ b # "1") /\ Says("Nor", l) = Bit(a # "1" /\ b # "1")
        /\ Says("Xor", l) = Bit(a # b) /\ Says("Xnor", l) = Bit(a = b)
    BY <1>1, <1>3, SaysFacts
  <2> HIDE DEF a, b
  <2>4. Table(gate, a, b) = Says(gate, l)
    <3>1. CASE gate = "And"
      BY <2>2, <2>3, <3>1 DEF Table, Both, Bit, Bits
    <3>2. CASE gate = "Or"
      BY <2>2, <2>3, <3>2 DEF Table, Both, Invert, Bit, Bits
    <3>3. CASE gate = "Nand"
      BY <2>2, <2>3, <3>3 DEF Table, Both, Invert, Bit, Bits
    <3>4. CASE gate = "Nor"
      BY <2>2, <2>3, <3>4 DEF Table, Both, Invert, Bit, Bits
    <3>5. CASE gate = "Xor"
      BY <2>2, <2>3, <3>5 DEF Table, Differ, Bit, Bits
    <3>6. CASE gate = "Xnor"
      BY <2>2, <2>3, <3>6 DEF Table, Differ, Invert, Bit, Bits
    <3> QED BY <3>1, <3>2, <3>3, <3>4, <3>5, <3>6 DEF ElemOps
  <2> QED BY <2>1, <2>4 DEF a, b
<1>4. CASE Len(l) = 3
  <2>1. Chain(gate, l) = Table(gate, Table(gate, l[1], l[2]), l[3]) /\ gate \in {"And", "Or", "Xor"}
    BY <1>2, <1>4, ChainFacts
  <2> DEFINE a == l[1]
             b == l[2]
             c == l[3]
  <2>2. a \in Bits /\ b \in Bits /\ c \in Bits /\ Range(l) = {a, b, c}
    BY <1>1, <1>4
  <2>3. /\ Says("And", l) = Bit(Range(l) = {"1"}) /\ Says("Or", l) = Bit("1" \in Range(l))
        /\ Says("Xor", l) = Bit((a # b) # (c = "1"))
    BY <1>1, <1>4, SaysFacts
  <2> HIDE DEF a, b, c
  <2>4. Table(gate, Table(gate, a, b), c) = Says(gate, l)
    <3>1. CASE gate = "And"
      BY <2>2, <2>3, <3>1 DEF Table, Both, Bit, Bits
    <3>2. CASE gate = "Or"
      BY <2>2, <2>3, <3>2 DEF Table, Both, Invert, Bit, Bits
    <3>3. CASE gate = "Xor"
      BY <2>2, <2>3, <3>3 DEF Table, Differ, Bit, Bits
    <3> QED BY <2>1, <3>1, <3>2, <3>3
  <2> QED BY <2>1, <2>4 DEF a, b, c
<1> QED BY <1>1, <1>3, <1>4

(* A conjunction or disjunction does not mind that an operand counts once. *)
LEMMA GateSaysOnce ==
    ASSUME NEW gate \in {"And", "Or"}, NEW l, l \in Seq(Bits), Len(l) \in 1..3,
           NEW in, in \in Seq(Bits), Len(in) \in 1..3, Range(in) = Range(l)
    PROVE  Chain(gate, in) = Says(gate, l)
<1>1. Says(gate, in) = Says(gate, l)
  <2>1. Says("And", l) = Bit(Range(l) = {"1"}) /\ Says("Or", l) = Bit("1" \in Range(l))
    BY SaysFacts
  <2>2. Says("And", in) = Bit(Range(in) = {"1"}) /\ Says("Or", in) = Bit("1" \in Range(in))
    BY SaysFacts
  <2> QED BY <2>1, <2>2
<1>2. CASE Len(in) \in {2, 3}
  <2>1. Chain(gate, in) = Says(gate, in)
    BY <1>2, GateSays DEF ElemOps
  <2> QED BY <1>1, <2>1
<1>3. CASE Len(in) = 1
  <2>1. Chain(gate, in) = in[1] /\ in[1] \in Bits /\ Range(in) = {in[1]}
    BY <1>3, ChainFacts DEF Single, Range
  <2>2. Says(gate, in) = in[1]
    BY <1>3, <2>1, SaysFacts DEF Bit, Bits
  <2> QED BY <1>1, <2>1, <2>2
<1> QED BY <1>2, <1>3

-----------------------------------------------------------------------------
(* The graph being read, and what one operation does to it.                *)

\* A name that stands for a vertex of the graph, and the vertex.
Live(c, n) == n \in DOMAIN c.names /\ Inside(c, c.names[n])
Pl(c, n) == c.names[n][2]

\* A context in which nothing has gone wrong. Unlike a Sound one it may have
\* names left from a file that failed.
Whole(c) ==
    /\ Shaped(c)
    /\ c.status = "ok"
    /\ c.verts \in Seq(Vertices)
    /\ c.names = [n \in DOMAIN c.names |-> c.names[n]]
    /\ \A n \in DOMAIN c.names : Inside(c, c.names[n]) \/ Freed(c, c.names[n])
    /\ \A k \in DOMAIN c.verts :
         /\ Range(c.verts[k].ins) \subseteq DOMAIN c.verts
         /\ \A m \in c.verts[k].outs : m \in DOMAIN c.verts /\ k \in Range(c.verts[m].ins)

(* From c to d vertices were added, and the names N; only the vertices T   *)
(* have got drivers or a type.                                             *)
Ext(c, d, T, N) ==
    /\ Whole(c) /\ Whole(d)
    /\ d.graph = c.graph /\ d.kept = c.kept /\ c.lost \subseteq d.lost
    /\ DOMAIN c.verts \subseteq DOMAIN d.verts
    /\ \A k \in DOMAIN c.verts :
         /\ d.verts[k].type = c.verts[k].type /\ d.verts[k].name = c.verts[k].name
         /\ k \notin T => d.verts[k].gate = c.verts[k].gate /\ d.verts[k].ins = c.verts[k].ins
    /\ \A k \in DOMAIN d.verts \ DOMAIN c.verts : d.verts[k].type # "output"
    /\ DOMAIN c.names \subseteq DOMAIN d.names
    /\ DOMAIN d.names \subseteq DOMAIN c.names \cup N
    /\ \A n \in DOMAIN c.names : d.names[n] = c.names[n]

LEMMA ExtTwice ==
    ASSUME NEW c, NEW d, NEW e, NEW T1, NEW T2, NEW T, NEW N1, NEW N2, NEW N,
           Ext(c, d, T1, N1), Ext(d, e, T2, N2),
           T1 \subseteq T, T2 \cap DOMAIN c.verts \subseteq T, N1 \cup N2 \subseteq N
    PROVE  Ext(c, e, T, N)
BY DEF Ext

LEMMA ExtSame ==
    ASSUME NEW c, Whole(c), NEW T, NEW N
    PROVE  Ext(c, c, T, N)
BY DEF Ext

LEMMA ExtMore ==
    ASSUME NEW c, NEW d, NEW T, NEW N, Ext(c, d, T, N), NEW T2, T \subseteq T2, NEW N2, N \subseteq N2
    PROVE  Ext(c, d, T2, N2)
BY DEF Ext

(* What stands for a vertex of the graph stays.                            *)
LEMMA LiveStays ==
    ASSUME NEW c, NEW d, NEW T, NEW N, Ext(c, d, T, N), NEW n
    PROVE  /\ Live(c, n) => Live(d, n) /\ Pl(d, n) = Pl(c, n) /\ Pl(c, n) \in DOMAIN c.verts
           /\ n \in DOMAIN c.names /\ Live(d, n) => Live(c, n)
           /\ \A v : Inside(c, v) => Inside(d, v)
<1>1. \A v : Inside(c, v) => Inside(d, v)
  BY DEF Ext, Inside
<1>2. n \in DOMAIN c.names => d.names[n] = c.names[n] /\ n \in DOMAIN d.names
  BY DEF Ext
<1>3. ASSUME n \in DOMAIN c.names, Live(d, n) PROVE Live(c, n)
  <2>1. d.names[n][1] = c.graph
    BY <1>3 DEF Live, Inside, Ext
  <2>2. Inside(c, c.names[n]) \/ Freed(c, c.names[n])
    BY <1>3 DEF Ext, Whole
  <2> QED BY <1>2, <1>3, <2>1, <2>2 DEF Freed, Live
<1> QED BY <1>1, <1>2, <1>3 DEF Live, Pl, Inside

\* A status that is not "ok" stays.
LEMMA OkBefore ==
    ASSUME NEW c, c.status # "ok"
    PROVE  /\ \A d : After(c, d) = c
           /\ \A type, gate, name : New(c, type, gate, name) = c
           /\ \A name : Bind(c, name) = c
           /\ \A u, v : AddEdge(c, u, v) = c
           /\ \A v, gate, survives : SetGateIfDefault(c, v, gate, survives) = c
           /\ \A arg : RightHS(c, arg) = c
           /\ \A net : LeftHS(c, net) = c
           /\ \A arg, v : Connect(c, arg, v) = c
<1>1. \A arg : RightHS(c, arg) = c
  BY DEF RightHS, After
<1>2. \A u, v : AddEdge(c, u, v) = c
  BY DEF AddEdge, After
<1>3. \A arg, v : Connect(c, arg, v) = c
  BY <1>1, <1>2 DEF Connect
<1> QED BY <1>1, <1>2, <1>3 DEF After, New, Bind, SetGateIfDefault, LeftHS

(* A new vertex.                                                           *)
\* d has the new vertex d.at.
Sprouted(c, d, type, gate, name) ==
    /\ Ext(c, d, {}, {})
    /\ d.names = c.names /\ d.lost = c.lost
    /\ d.at = <<c.graph, Len(c.verts) + 1>> /\ Inside(d, d.at)
    /\ DOMAIN d.verts = DOMAIN c.verts \cup {d.at[2]} /\ d.at[2] \notin DOMAIN c.verts
    /\ d.verts[d.at[2]] = Vertex(type, gate, name)

\* In d the name is one of what was at hand.
Named(c, d, name) ==
    /\ Ext(c, d, {}, {name})
    /\ d.verts = c.verts /\ d.lost = c.lost /\ d.at = c.at
    /\ d.names[name] = c.at /\ Live(d, name)

LEMMA NewEffect ==
    ASSUME NEW c, Whole(c), NEW type \in Types, type # "output", NEW gate \in Gates,
           NEW name \in Names, NEW d, d = New(c, type, gate, name)
    PROVE  Sprouted(c, d, type, gate, name)
<1> DEFINE x == Vertex(type, gate, name)
           p == Len(c.verts) + 1
<1>1. Len(c.verts) \in Nat /\ DOMAIN c.verts = 1..Len(c.verts) /\ p \in Nat
  <2>1. c.verts \in Seq(Vertices)
    BY DEF Whole
  <2> QED BY <2>1
<1>2. x \in Vertices /\ x.ins = <<>> /\ x.outs = {} /\ x.type = type
  <2>1. <<>> \in Seq(Nat) /\ {} \in SUBSET Nat
    OBVIOUS
  <2> QED BY <2>1 DEF Vertex, Vertices
<1>3. d = [c EXCEPT !.verts = Append(@, x), !.at = <<c.graph, p>>]
  BY DEF New, After, Whole
<1>4. /\ d.verts = Append(c.verts, x) /\ d.at = <<c.graph, p>> /\ d.lost = c.lost /\ d.kept = c.kept
      /\ d.graph = c.graph /\ d.names = c.names /\ d.status = "ok" /\ Shaped(d)
  <2> HIDE DEF x, p
  <2> QED BY <1>3 DEF Whole, Shaped
<1>5. /\ d.verts \in Seq(Vertices) /\ DOMAIN d.verts = DOMAIN c.verts \cup {p} /\ p \notin DOMAIN c.verts
      /\ d.verts[p] = x
      /\ \A k \in DOMAIN c.verts : d.verts[k] = c.verts[k]
  <2>1. c.verts \in Seq(Vertices)
    BY DEF Whole
  <2> HIDE DEF x
  <2> QED BY <1>1, <1>2, <1>4, <2>1
<1> HIDE DEF x, p
<1>6. \A k \in DOMAIN d.verts :
         /\ Range(d.verts[k].ins) \subseteq DOMAIN d.verts
         /\ \A m \in d.verts[k].outs : m \in DOMAIN d.verts /\ k \in Range(d.verts[m].ins)
  <2> SUFFICES ASSUME NEW k \in DOMAIN d.verts
               PROVE  /\ Range(d.verts[k].ins) \subseteq DOMAIN d.verts
                      /\ \A m \in d.verts[k].outs : m \in DOMAIN d.verts /\ k \in Range(d.verts[m].ins)
    OBVIOUS
  <2>1. CASE k = p
    <3>1. Range(<<>>) = {}
      BY DEF Range
    <3> QED BY <1>2, <1>5, <2>1, <3>1
  <2>2. CASE k # p
    <3>1. /\ k \in DOMAIN c.verts /\ d.verts[k] = c.verts[k]
          /\ Range(c.verts[k].ins) \subseteq DOMAIN c.verts
          /\ \A m \in c.verts[k].outs : m \in DOMAIN c.verts /\ k \in Range(c.verts[m].ins)
      BY <1>5, <2>2 DEF Whole
    <3> QED BY <1>5, <3>1
  <2> QED BY <2>1, <2>2
<1>7. \A v : /\ Inside(c, v) => Inside(d, v)
             /\ Freed(c, v) => Freed(d, v)
  BY <1>4, <1>5 DEF Inside, Freed
<1>8. Whole(d)
  BY <1>4, <1>5, <1>6, <1>7 DEF Whole
<1>9. Ext(c, d, {}, {})
  BY <1>2, <1>4, <1>5, <1>8 DEF Ext
<1> QED BY <1>4, <1>5, <1>9 DEF Inside, x, p, Sprouted

(* A name nobody has is given to the vertex at hand.                       *)
LEMMA BindEffect ==
    ASSUME NEW c, Whole(c), Inside(c, c.at), NEW name, name \notin DOMAIN c.names,
           NEW d, d = Bind(c, name)
    PROVE  Named(c, d, name)
<1> DEFINE t == Entered(c.names, name, c.at)
<1>1. d = [c EXCEPT !.names = t]
  BY DEF Bind, After, Whole
<1> HIDE DEF t
<1>2. /\ d.names = t /\ d.verts = c.verts /\ d.at = c.at /\ d.graph = c.graph /\ d.kept = c.kept
      /\ d.lost = c.lost /\ d.status = "ok" /\ Shaped(d)
  BY <1>1 DEF Whole, Shaped
<1>3. /\ DOMAIN t = DOMAIN c.names \cup {name} /\ t[name] = c.at
      /\ \A n \in DOMAIN c.names : t[n] = c.names[n]
      /\ t = [n \in DOMAIN t |-> t[n]]
  BY DEF t, Entered
<1>4. \A v : (Inside(c, v) <=> Inside(d, v)) /\ (Freed(c, v) <=> Freed(d, v))
  BY <1>2 DEF Inside, Freed
<1>5. Whole(d)
  BY <1>2, <1>3, <1>4 DEF Whole
<1>6. Ext(c, d, {}, {name})
  BY <1>2, <1>3, <1>5 DEF Ext
<1> QED BY <1>2, <1>3, <1>4, <1>6 DEF Live, Named

(* Another vertex is at hand.                                              *)
LEMMA AtEffect ==
    ASSUME NEW c, Whole(c), NEW v, NEW d, d = [c EXCEPT !.at = v]
    PROVE  /\ Ext(c, d, {}, {})
           /\ d.verts = c.verts /\ d.lost = c.lost /\ d.names = c.names /\ d.at = v /\ d.graph = c.graph
<1>1. /\ d.names = c.names /\ d.verts = c.verts /\ d.at = v /\ d.graph = c.graph /\ d.kept = c.kept
      /\ d.lost = c.lost /\ d.status = "ok" /\ Shaped(d)
  BY DEF Whole, Shaped
<1>2. \A x : (Inside(c, x) <=> Inside(d, x)) /\ (Freed(c, x) <=> Freed(d, x))
  BY <1>1 DEF Inside, Freed
<1>3. Whole(d)
  BY <1>1, <1>2 DEF Whole
<1> QED BY <1>1, <1>3 DEF Ext

(* What is known of the drivers of a vertex.                               *)
LEMMA InsFacts ==
    ASSUME NEW c, Whole(c), NEW k \in DOMAIN c.verts
    PROVE  /\ c.verts[k] \in Vertices
           /\ c.verts[k].ins \in Seq(Nat) /\ c.verts[k].ins \in Seq(DOMAIN c.verts)
           /\ Range(c.verts[k].ins) \subseteq DOMAIN c.verts
           /\ c.verts[k].ins # <<>> => 1 <= Len(c.verts[k].ins)
<1> DEFINE x == c.verts[k]
           P == DOMAIN c.verts
<1>1. x \in Vertices
  <2>1. c.verts \in Seq(Vertices)
    BY DEF Whole
  <2> QED BY <2>1
<1>2. Range(x.ins) \subseteq P
  BY DEF Whole
<1> HIDE DEF x, P
<1>3. x.ins \in Seq(Nat)
  BY <1>1 DEF Vertices
<1> DEFINE ins == x.ins
<1> HIDE DEF ins
<1>4. ins \in Seq(Nat) /\ \A i \in 1..Len(ins) : ins[i] \in P
  BY <1>2, <1>3 DEF Range, ins
<1>5. ins \in Seq(P) /\ (ins # <<>> => 1 <= Len(ins))
  BY <1>4
<1> QED BY <1>1, <1>2, <1>3, <1>5 DEF ins, x, P

\* A vertex of the graph, or of one that is gone.
Held(c, v) == Inside(c, v) \/ Freed(c, v)

\* The edge from u to v is there, and has found its place unless it was lost.
Edged(c, d, u, v) ==
    /\ Inside(c, u) /\ Inside(c, v)
    /\ Ext(c, d, {v[2]}, {})
    /\ DOMAIN d.verts = DOMAIN c.verts /\ d.names = c.names /\ d.at = c.at
    /\ d.verts[v[2]].gate = c.verts[v[2]].gate
    /\ \/ d.verts[v[2]].ins = Append(c.verts[v[2]].ins, u[2]) /\ d.lost = c.lost
       \/ /\ d.verts[v[2]].ins = c.verts[v[2]].ins
          /\ u[2] \in Range(c.verts[v[2]].ins)
          /\ d.verts[v[2]].gate \in d.lost

(* An edge that is made, or one more from the same vertex.                 *)
LEMMA EdgeEffect ==
    ASSUME NEW c, Whole(c), NEW u, Held(c, u), NEW v, Held(c, v),
           NEW d, d = AddEdge(c, u, v), d.status = "ok"
    PROVE  Edged(c, d, u, v)
<1>1. Shaped(c) /\ c.status = "ok" /\ c.verts \in Seq(Vertices)
  BY DEF Whole
<1>2. ~Freed(c, u) /\ ~Freed(c, v)
  BY <1>1 DEF AddEdge, After, Ended, Shaped
<1>3. Inside(c, u) /\ Inside(c, v) /\ u[1] = v[1] /\ u[2] \in DOMAIN c.verts /\ v[2] \in DOMAIN c.verts
  BY <1>1, <1>2 DEF Inside, Held
<1>4. CASE v[2] \in Vert(c, u).outs
  <2>1. d = Refused(c, v)
    BY <1>1, <1>2, <1>3, <1>4 DEF AddEdge, After
  <2>2. /\ d.verts = c.verts /\ d.at = c.at /\ d.graph = c.graph /\ d.kept = c.kept /\ d.names = c.names
        /\ d.status = "ok" /\ Shaped(d) /\ d.lost = c.lost \cup {c.verts[v[2]].gate}
    BY <1>1, <2>1 DEF Shaped, Refused, Vert
  <2>3. \A x : (Inside(c, x) <=> Inside(d, x)) /\ (Freed(c, x) <=> Freed(d, x))
    BY <2>2 DEF Inside, Freed
  <2>4. Whole(d)
    BY <2>2, <2>3 DEF Whole
  <2>5. u[2] \in Range(c.verts[v[2]].ins)
    BY <1>3, <1>4 DEF Whole, Vert
  <2>6. Ext(c, d, {v[2]}, {})
    BY <2>2, <2>4 DEF Ext
  <2> QED BY <1>3, <2>2, <2>5, <2>6 DEF Edged
<1>5. CASE v[2] \notin Vert(c, u).outs
  <2> DEFINE a == [c.verts EXCEPT ![u[2]].outs = @ \cup {v[2]}]
             b == [a EXCEPT ![v[2]].ins = Append(@, u[2])]
             out == [c EXCEPT !.verts = a]
  <2>0. d = DrivenBy(Drives(c, u, v), u, v)
    <3>1. \A e, how : Ended(e, how).status = how \/ Ended(e, how) = e
      BY DEF Ended
    <3>2. ~Taken(c, v)
      <4> SUFFICES ASSUME Taken(c, v) PROVE FALSE
        OBVIOUS
      <4>1. d = Ended(Drives(c, u, v), "error")
        BY <1>1, <1>2, <1>3, <1>5 DEF AddEdge, After
      <4>2. d.status = "error"
        <5> HIDE DEF a
        <5>1. Drives(c, u, v) = [c EXCEPT !.verts = a]
          BY DEF Drives, a
        <5>2. Shaped([c EXCEPT !.verts = a])
          BY <1>1 DEF Shaped
        <5> QED BY <4>1, <5>1, <5>2 DEF Ended, Shaped
      <4> QED BY <4>2
    <3> QED BY <1>1, <1>2, <1>3, <1>5, <3>2 DEF AddEdge, After
  <2>1. d = [out EXCEPT !.verts[v[2]].ins = Append(@, u[2])]
    BY <2>0 DEF DrivenBy, Drives
  <2>3. out.verts = a /\ d = [c EXCEPT !.verts = b]
    <3> HIDE DEF a
    <3>1. out.verts = a /\ Shaped(out)
      BY <1>1 DEF Shaped
    <3> QED BY <1>1, <2>1, <3>1 DEF Shaped
  <2>4. /\ d.verts = b /\ d.at = c.at /\ d.graph = c.graph /\ d.kept = c.kept /\ d.names = c.names
        /\ d.status = "ok" /\ Shaped(d) /\ d.lost = c.lost
    <3> HIDE DEF b
    <3> QED BY <1>1, <2>3 DEF Shaped
  <2>5. /\ Len(c.verts) \in Nat /\ DOMAIN c.verts = 1..Len(c.verts)
        /\ c.verts \in [1..Len(c.verts) -> Vertices]
    BY <1>1
  <2>6. /\ a \in [1..Len(c.verts) -> Vertices]
        /\ \A k \in DOMAIN c.verts : /\ a[k].type = c.verts[k].type
                                     /\ a[k].gate = c.verts[k].gate
                                     /\ a[k].name = c.verts[k].name
                                     /\ a[k].ins = c.verts[k].ins
                                     /\ a[k].outs = IF k = u[2] THEN c.verts[k].outs \cup {v[2]}
                                                    ELSE c.verts[k].outs
    <3>1. c.verts[u[2]] \in Vertices /\ v[2] \in Nat
      BY <1>3, <2>5
    <3> DEFINE more == c.verts[u[2]].outs \cup {v[2]}
    <3>2. a = [c.verts EXCEPT ![u[2]].outs = more]
      OBVIOUS
    <3>3. more \in SUBSET Nat
      BY <3>1 DEF Vertices
    <3> HIDE DEF a
    <3>4. a \in [1..Len(c.verts) -> Vertices]
      <4> HIDE DEF more
      <4> QED BY <1>3, <2>5, <3>1, <3>2, <3>3 DEF Vertices
    <3>5. \A k \in DOMAIN c.verts : c.verts[k] \in Vertices
      BY <2>5
    <3>6. \A k \in DOMAIN c.verts : a[k] = IF k = u[2] THEN [c.verts[k] EXCEPT !.outs = more] ELSE c.verts[k]
      <4> HIDE DEF more
      <4> QED BY <1>3, <2>5, <3>2
    <3>7. \A k \in DOMAIN c.verts : /\ a[k].type = c.verts[k].type
                                    /\ a[k].gate = c.verts[k].gate
                                    /\ a[k].name = c.verts[k].name
                                    /\ a[k].ins = c.verts[k].ins
                                    /\ a[k].outs = IF k = u[2] THEN more ELSE c.verts[k].outs
      <4> HIDE DEF more
      <4> QED BY <3>5, <3>6 DEF Vertices
    <3> QED BY <3>4, <3>7
  <2>7. /\ b \in [1..Len(c.verts) -> Vertices]
        /\ \A k \in DOMAIN c.verts : /\ b[k].type = a[k].type
                                     /\ b[k].gate = a[k].gate
                                     /\ b[k].name = a[k].name
                                     /\ b[k].outs = a[k].outs
                                     /\ k # v[2] => b[k].ins = a[k].ins
        /\ b[v[2]].ins = Append(a[v[2]].ins, u[2])
    <3>1. a[v[2]] \in Vertices /\ u[2] \in Nat /\ Append(a[v[2]].ins, u[2]) \in Seq(Nat)
      <4> HIDE DEF a
      <4>1. a[v[2]] \in Vertices /\ u[2] \in Nat
        BY <1>3, <2>5, <2>6
      <4>2. a[v[2]].ins \in Seq(Nat)
        BY <4>1 DEF Vertices
      <4> QED BY <4>1, <4>2
    <3> DEFINE more == Append(a[v[2]].ins, u[2])
    <3>2. b = [a EXCEPT ![v[2]].ins = more]
      OBVIOUS
    <3> HIDE DEF a, b
    <3>3. more \in Seq(Nat)
      BY <3>1
    <3>4. \A k \in DOMAIN c.verts : a[k] \in Vertices
      BY <2>5, <2>6
    <3>5. \A k \in DOMAIN c.verts : b[k] = IF k = v[2] THEN [a[k] EXCEPT !.ins = more] ELSE a[k]
      <4> HIDE DEF more
      <4> QED BY <1>3, <2>5, <2>6, <3>2
    <3>6. b \in [1..Len(c.verts) -> Vertices]
      <4> HIDE DEF more
      <4> QED BY <1>3, <2>5, <2>6, <3>1, <3>2, <3>3 DEF Vertices
    <3>7. b[v[2]].ins = more
      <4> HIDE DEF more
      <4> QED BY <1>3, <3>4, <3>5 DEF Vertices
    <3> QED BY <3>4, <3>5, <3>6, <3>7 DEF Vertices
  <2> HIDE DEF a, b, out
  <2>8. d.verts \in Seq(Vertices) /\ DOMAIN d.verts = DOMAIN c.verts
    BY <2>4, <2>5, <2>7
  <2>9. \A x : (Inside(c, x) <=> Inside(d, x)) /\ (Freed(c, x) <=> Freed(d, x))
    BY <2>4, <2>8 DEF Inside, Freed
  <2>10. \A k \in DOMAIN c.verts : /\ d.verts[k].type = c.verts[k].type
                                   /\ d.verts[k].gate = c.verts[k].gate
                                   /\ d.verts[k].name = c.verts[k].name
                                   /\ d.verts[k].outs = IF k = u[2] THEN c.verts[k].outs \cup {v[2]}
                                                        ELSE c.verts[k].outs
                                   /\ k # v[2] => d.verts[k].ins = c.verts[k].ins
    <3> SUFFICES ASSUME NEW k \in DOMAIN c.verts
                 PROVE  /\ b[k].type = c.verts[k].type
                        /\ b[k].gate = c.verts[k].gate
                        /\ b[k].name = c.verts[k].name
                        /\ b[k].outs = IF k = u[2] THEN c.verts[k].outs \cup {v[2]} ELSE c.verts[k].outs
                        /\ k # v[2] => b[k].ins = c.verts[k].ins
      BY <2>4
    <3>1. /\ a[k].type = c.verts[k].type /\ a[k].gate = c.verts[k].gate /\ a[k].name = c.verts[k].name
          /\ a[k].ins = c.verts[k].ins
      BY <2>6
    <3>2. a[k].outs = IF k = u[2] THEN c.verts[k].outs \cup {v[2]} ELSE c.verts[k].outs
      BY <2>6
    <3>3. /\ b[k].type = a[k].type /\ b[k].gate = a[k].gate /\ b[k].name = a[k].name
          /\ b[k].outs = a[k].outs
          /\ k # v[2] => b[k].ins = a[k].ins
      BY <2>7
    <3> QED BY <3>1, <3>2, <3>3
  <2>11. d.verts[v[2]].ins = Append(c.verts[v[2]].ins, u[2])
    BY <1>3, <2>4, <2>6, <2>7
  <2>12. Range(d.verts[v[2]].ins) = Range(c.verts[v[2]].ins) \cup {u[2]}
    <3>1. c.verts[v[2]].ins \in Seq(Nat) /\ u[2] \in Nat
      BY <1>3, <2>5 DEF Vertices
    <3> QED BY <2>11, <3>1, AppendFacts
  <2>13. \A k \in DOMAIN d.verts :
           /\ Range(d.verts[k].ins) \subseteq DOMAIN d.verts
           /\ \A m \in d.verts[k].outs : m \in DOMAIN d.verts /\ k \in Range(d.verts[m].ins)
    <3> SUFFICES ASSUME NEW k \in DOMAIN c.verts
                 PROVE  /\ Range(d.verts[k].ins) \subseteq DOMAIN c.verts
                        /\ \A m \in d.verts[k].outs : m \in DOMAIN c.verts /\ k \in Range(d.verts[m].ins)
      BY <2>8
    <3>1. /\ Range(c.verts[k].ins) \subseteq DOMAIN c.verts
          /\ \A m \in c.verts[k].outs : m \in DOMAIN c.verts /\ k \in Range(c.verts[m].ins)
      BY DEF Whole
    <3>2. Range(d.verts[k].ins) \subseteq DOMAIN c.verts
      <4>1. CASE k = v[2]
        BY <1>3, <2>12, <3>1, <4>1
      <4>2. CASE k # v[2]
        BY <2>10, <3>1, <4>2
      <4> QED BY <4>1, <4>2
    <3>3. \A m \in DOMAIN c.verts : Range(c.verts[m].ins) \subseteq Range(d.verts[m].ins)
      BY <2>10, <2>12
    <3>4. ASSUME NEW m \in d.verts[k].outs PROVE m \in DOMAIN c.verts /\ k \in Range(d.verts[m].ins)
      <4>1. CASE m \in c.verts[k].outs
        BY <3>1, <3>3, <4>1
      <4>2. CASE m \notin c.verts[k].outs
        <5>1. k = u[2] /\ m = v[2]
          BY <2>10, <3>4, <4>2
        <5> QED BY <1>3, <2>12, <5>1
      <4> QED BY <4>1, <4>2
    <3> QED BY <3>2, <3>4
  <2>14. Whole(d)
    BY <2>4, <2>8, <2>9, <2>13 DEF Whole
  <2>15. Ext(c, d, {v[2]}, {})
    BY <2>4, <2>8, <2>10, <2>14 DEF Ext
  <2> QED BY <1>3, <2>4, <2>8, <2>10, <2>11, <2>15 DEF Edged
<1> QED BY <1>4, <1>5

\* The vertex p has become such a gate.
Retyped(c, d, p, gate) ==
    /\ Ext(c, d, {p}, {})
    /\ DOMAIN d.verts = DOMAIN c.verts /\ d.names = c.names /\ d.at = c.at /\ d.lost = c.lost
    /\ d.verts[p].gate = gate /\ d.verts[p].ins = c.verts[p].ins

(* A gate without type gets one.                                           *)
LEMMA SetGateEffect ==
    ASSUME NEW c, Whole(c), NEW v, Inside(c, v), c.verts[v[2]].type = "gate", c.verts[v[2]].gate = "Default",
           NEW gate \in Gates, NEW survives, NEW d, d = SetGateIfDefault(c, v, gate, survives)
    PROVE  Retyped(c, d, v[2], gate)
<1>1. /\ Shaped(c) /\ c.status = "ok" /\ c.verts \in Seq(Vertices)
      /\ v[1] = c.graph /\ v[2] \in DOMAIN c.verts
  BY DEF Whole, Inside
<1> DEFINE a == [c.verts EXCEPT ![v[2]].gate = gate]
<1>2. d = [c EXCEPT !.verts = a]
  BY <1>1 DEF SetGateIfDefault, After, Freed, Shaped, Vert
<1>3. /\ d.verts = a /\ d.at = c.at /\ d.graph = c.graph /\ d.kept = c.kept /\ d.names = c.names
      /\ d.status = "ok" /\ Shaped(d) /\ d.lost = c.lost
  <2> HIDE DEF a
  <2> QED BY <1>1, <1>2 DEF Shaped
<1>4. /\ Len(c.verts) \in Nat /\ DOMAIN c.verts = 1..Len(c.verts)
      /\ c.verts \in [1..Len(c.verts) -> Vertices]
  BY <1>1
<1>5. /\ a \in [1..Len(c.verts) -> Vertices]
      /\ \A k \in DOMAIN c.verts : /\ a[k].type = c.verts[k].type
                                   /\ a[k].name = c.verts[k].name
                                   /\ k # v[2] => a[k].gate = c.verts[k].gate
                                   /\ a[k].ins = c.verts[k].ins
                                   /\ a[k].outs = c.verts[k].outs
      /\ a[v[2]].gate = gate
  BY <1>1, <1>4 DEF Vertices
<1> HIDE DEF a
<1>6. d.verts \in Seq(Vertices) /\ DOMAIN d.verts = DOMAIN c.verts
  BY <1>3, <1>4, <1>5
<1>7. \A x : (Inside(c, x) <=> Inside(d, x)) /\ (Freed(c, x) <=> Freed(d, x))
  BY <1>3, <1>6 DEF Inside, Freed
<1>8. Whole(d)
  <2>1. \A k \in DOMAIN d.verts :
         /\ Range(d.verts[k].ins) \subseteq DOMAIN d.verts
         /\ \A m \in d.verts[k].outs : m \in DOMAIN d.verts /\ k \in Range(d.verts[m].ins)
    BY <1>3, <1>5, <1>6 DEF Whole
  <2> QED BY <1>3, <1>6, <1>7, <2>1 DEF Whole
<1>9. Ext(c, d, {v[2]}, {})
  BY <1>3, <1>5, <1>6, <1>8 DEF Ext
<1> QED BY <1>1, <1>3, <1>5, <1>6, <1>9 DEF Retyped

-----------------------------------------------------------------------------
(* Values of the vertices, and loops through them.                         *)

\* The values of drivers.
At(val, ins) == [i \in DOMAIN ins |-> val[ins[i]]]

\* val has for every vertex, those of X apart, what the vertex makes of the
\* values of its drivers.
Fits(c, X, env, val) ==
    \A k \in DOMAIN c.verts \ X : val[k] = Value(c.verts[k], env, At(val, c.verts[k].ins))

\* Every vertex of S, those of X apart, has a driver in S.
Circ(c, X, S) == \A k \in DOMAIN c.verts \ X : k \in S => Range(c.verts[k].ins) \cap S # {}

\* A loop through x goes through A.
Depends(c, X, x, A) == \A S : Circ(c, X, S) /\ x \in S => A \cap S # {}

\* x is the inverse of y.
Inverts(c, X, x, y) ==
    /\ \A env, val : Fits(c, X, env, val) /\ val[y] \in Bits => val[x] = Invert(val[y])
    /\ Depends(c, X, x, {y})

\* x has the value of an operand.
Lit(arg, a) == IF arg.not THEN Invert(a) ELSE a

Stands(c, X, x, arg) ==
    /\ Live(c, arg.net)
    /\ \A env, val : Fits(c, X, env, val) /\ val[Pl(c, arg.net)] \in Bits
                       => val[x] = Lit(arg, val[Pl(c, arg.net)])
    /\ Depends(c, X, x, {Pl(c, arg.net)})

\* What is called the inverse of a net is its inverse.
Inverters(c, f, X) ==
    \A n \in Nets(f) : Live(c, NotName(n)) =>
        Live(c, n) /\ Inverts(c, X, Pl(c, NotName(n)), Pl(c, n))

\* A loop through a new vertex goes through A.
Sprung(c, d, X, A) == \A k \in DOMAIN d.verts \ (DOMAIN c.verts \cup X) : Depends(d, X, k, A)

Leads(c, d, f, X, T, A, N) == Ext(c, d, T, N) /\ Inverters(d, f, X) /\ Sprung(c, d, X, A)

LEMMA ValueSame ==
    ASSUME NEW u, NEW v, u.type = v.type, u.gate = v.gate, u.name = v.name, NEW env, NEW in
    PROVE  Value(u, env, in) = Value(v, env, in)
BY DEF Value

(* What fits a later graph fits an earlier one, when what has changed does *)
(* not count.                                                              *)
LEMMA FitsBefore ==
    ASSUME NEW c, NEW d, NEW T, NEW N, Ext(c, d, T, N), NEW X, T \subseteq X,
           NEW Y, Y \cap DOMAIN c.verts \subseteq X
    PROVE  /\ \A env, val : Fits(d, Y, env, val) => Fits(c, X, env, val)
           /\ \A S : Circ(d, Y, S) => Circ(c, X, S)
<1>1. ASSUME NEW k \in DOMAIN c.verts \ X
      PROVE  /\ k \in DOMAIN d.verts \ Y
             /\ d.verts[k].type = c.verts[k].type /\ d.verts[k].name = c.verts[k].name
             /\ d.verts[k].gate = c.verts[k].gate /\ d.verts[k].ins = c.verts[k].ins
  BY DEF Ext
<1>2. ASSUME NEW env, NEW val, Fits(d, Y, env, val), NEW k \in DOMAIN c.verts \ X
      PROVE  val[k] = Value(c.verts[k], env, At(val, c.verts[k].ins))
  <2>1. val[k] = Value(d.verts[k], env, At(val, d.verts[k].ins))
    BY <1>1, <1>2 DEF Fits
  <2>2. Value(d.verts[k], env, At(val, d.verts[k].ins)) = Value(c.verts[k], env, At(val, d.verts[k].ins))
    BY <1>1, ValueSame
  <2> QED BY <1>1, <2>1, <2>2
<1>3. ASSUME NEW S, Circ(d, Y, S), NEW k \in DOMAIN c.verts \ X, k \in S
      PROVE  Range(c.verts[k].ins) \cap S # {}
  BY <1>1, <1>3 DEF Circ
<1> QED BY <1>2, <1>3 DEF Fits, Circ

LEMMA StaysTrue ==
    ASSUME NEW c, NEW d, NEW T, NEW N, Ext(c, d, T, N), NEW X, T \subseteq X,
           NEW Y, Y \cap DOMAIN c.verts \subseteq X
    PROVE  /\ \A x, A : Depends(c, X, x, A) => Depends(d, Y, x, A)
           /\ \A x, y : Inverts(c, X, x, y) => Inverts(d, Y, x, y)
           /\ \A x, arg : Stands(c, X, x, arg) => Stands(d, Y, x, arg)
<1>1. /\ \A env, val : Fits(d, Y, env, val) => Fits(c, X, env, val)
      /\ \A S : Circ(d, Y, S) => Circ(c, X, S)
  BY FitsBefore
<1>2. \A x, A : Depends(c, X, x, A) => Depends(d, Y, x, A)
  BY <1>1 DEF Depends
<1>3. \A x, y : Inverts(c, X, x, y) => Inverts(d, Y, x, y)
  BY <1>1, <1>2 DEF Inverts
<1>4. ASSUME NEW x, NEW arg, Stands(c, X, x, arg) PROVE Stands(d, Y, x, arg)
  <2>1. Live(d, arg.net) /\ Pl(d, arg.net) = Pl(c, arg.net)
    BY <1>4, LiveStays DEF Stands
  <2> QED BY <1>1, <1>2, <1>4, <2>1 DEF Stands
<1> QED BY <1>2, <1>3, <1>4

LEMMA InvertersStay ==
    ASSUME NEW c, NEW d, NEW T, NEW N, Ext(c, d, T, N), NEW X, T \subseteq X,
           NEW Y, Y \cap DOMAIN c.verts \subseteq X, NEW f, Inverters(c, f, X),
           \A n \in Nets(f) : NotName(n) \in N =>
              (Live(d, NotName(n)) => Live(d, n) /\ Inverts(d, Y, Pl(d, NotName(n)), Pl(d, n)))
    PROVE  Inverters(d, f, Y)
<1> SUFFICES ASSUME NEW n \in Nets(f), Live(d, NotName(n))
             PROVE  Live(d, n) /\ Inverts(d, Y, Pl(d, NotName(n)), Pl(d, n))
  BY DEF Inverters
<1>1. CASE NotName(n) \in N
  BY <1>1
<1>2. CASE NotName(n) \notin N
  <2>1. NotName(n) \in DOMAIN c.names
    BY <1>2 DEF Ext, Live
  <2>2. Live(c, NotName(n))
    BY <2>1, LiveStays
  <2>3. Live(c, n) /\ Inverts(c, X, Pl(c, NotName(n)), Pl(c, n))
    BY <2>2 DEF Inverters
  <2>4. /\ Live(d, n) /\ Pl(d, n) = Pl(c, n)
        /\ Pl(d, NotName(n)) = Pl(c, NotName(n))
    BY <2>2, <2>3, LiveStays
  <2> QED BY <2>3, <2>4, StaysTrue
<1> QED BY <1>1, <1>2

LEMMA LeadsTwice ==
    ASSUME NEW c, NEW d, NEW e, NEW f, NEW X, NEW A, NEW N, NEW T1, NEW T2, NEW T,
           Leads(c, d, f, X, T1, A, N), Leads(d, e, f, X, T2, A, N),
           T1 \subseteq T, T2 \cap DOMAIN c.verts \subseteq T, T2 \subseteq X
    PROVE  Leads(c, e, f, X, T, A, N)
<1>1. Ext(c, d, T1, N) /\ Ext(d, e, T2, N) /\ Inverters(e, f, X)
  BY DEF Leads
<1>2. Ext(c, e, T, N)
  BY <1>1, ExtTwice
<1>3. ASSUME NEW k \in DOMAIN e.verts \ (DOMAIN c.verts \cup X) PROVE Depends(e, X, k, A)
  <2>1. CASE k \in DOMAIN d.verts
    <3>1. Depends(d, X, k, A)
      BY <1>3, <2>1 DEF Leads, Sprung
    <3>2. X \cap DOMAIN d.verts \subseteq X
      OBVIOUS
    <3> QED BY <1>1, <3>1, <3>2, StaysTrue
  <2>2. CASE k \notin DOMAIN d.verts
    BY <1>3, <2>2 DEF Leads, Sprung
  <2> QED BY <2>1, <2>2
<1> QED BY <1>1, <1>2, <1>3 DEF Leads, Sprung

(* An operation that adds no name and no vertex.                           *)
LEMMA LeadsPlain ==
    ASSUME NEW c, NEW d, NEW T, NEW M, Ext(c, d, T, M), NEW X, T \subseteq X, DOMAIN d.verts = DOMAIN c.verts,
           NEW f, Inverters(c, f, X), \A n \in Nets(f) : NotName(n) \notin M, NEW A, NEW N, M \subseteq N
    PROVE  Leads(c, d, f, X, T, A, N)
<1>1. X \cap DOMAIN c.verts \subseteq X
  OBVIOUS
<1>2. Inverters(d, f, X)
  BY <1>1, InvertersStay
<1>3. Ext(c, d, T, N)
  BY ExtMore
<1> QED BY <1>2, <1>3 DEF Leads, Sprung

LEMMA LeadsNowhere ==
    ASSUME NEW c, Whole(c), NEW f, NEW X, Inverters(c, f, X), NEW A, NEW N
    PROVE  Leads(c, c, f, X, {}, A, N)
BY ExtSame DEF Leads, Sprung

-----------------------------------------------------------------------------
(* Vertices and their drivers.                                             *)

\* The values of some vertices.
Among(val, S) == {val[k] : k \in S}

LEMMA AtFits ==
    ASSUME NEW ins \in Seq(Nat), NEW val
    PROVE  /\ At(val, ins) \in Seq(Among(val, Range(ins)))
           /\ Len(At(val, ins)) = Len(ins) /\ DOMAIN At(val, ins) = 1..Len(ins)
           /\ \A i \in 1..Len(ins) : At(val, ins)[i] = val[ins[i]]
           /\ Range(At(val, ins)) = Among(val, Range(ins))
<1>1. DOMAIN ins = 1..Len(ins) /\ Len(ins) \in Nat
  OBVIOUS
<1>2. At(val, ins) = [i \in 1..Len(ins) |-> val[ins[i]]]
  BY <1>1 DEF At
<1> QED BY <1>1, <1>2 DEF Range, Among

\* The drivers of the vertex v come from the vertices ops, in their order
\* unless one has been lost.
Wired(c, v, ops) ==
    /\ v \in DOMAIN c.verts
    /\ ops \in Seq(DOMAIN c.verts)
    /\ \/ c.verts[v].ins = ops
       \/ /\ c.verts[v].gate \in c.lost
          /\ Range(c.verts[v].ins) = Range(ops)
          /\ 1 <= Len(c.verts[v].ins) /\ Len(c.verts[v].ins) <= Len(ops)

LEMMA WiredRange ==
    ASSUME NEW c, NEW v, NEW ops, Wired(c, v, ops)
    PROVE  Range(c.verts[v].ins) = Range(ops)
BY DEF Wired

LEMMA WiredStays ==
    ASSUME NEW c, NEW d, NEW T, NEW N, Ext(c, d, T, N), NEW v, v \notin T, NEW ops, Wired(c, v, ops)
    PROVE  Wired(d, v, ops)
<1>1. ops \in Seq(DOMAIN d.verts)
  <2>1. DOMAIN c.verts \subseteq DOMAIN d.verts /\ ops \in Seq(DOMAIN c.verts)
    BY DEF Ext, Wired
  <2> QED BY <2>1
<1>2. /\ d.verts[v].gate = c.verts[v].gate /\ d.verts[v].ins = c.verts[v].ins
      /\ v \in DOMAIN d.verts /\ c.lost \subseteq d.lost
  BY DEF Ext, Wired
<1> QED BY <1>1, <1>2 DEF Wired

(* One more edge.                                                          *)
LEMMA WiredEdge ==
    ASSUME NEW c, Whole(c), NEW u, Held(c, u), NEW v, Held(c, v),
           NEW d, d = AddEdge(c, u, v), d.status = "ok", NEW ops, Wired(c, v[2], ops)
    PROVE  Wired(d, v[2], Append(ops, u[2]))
<1>1. /\ Inside(c, u) /\ Inside(c, v)
      /\ Ext(c, d, {v[2]}, {})
      /\ DOMAIN d.verts = DOMAIN c.verts
      /\ d.verts[v[2]].gate = c.verts[v[2]].gate
      /\ \/ d.verts[v[2]].ins = Append(c.verts[v[2]].ins, u[2]) /\ d.lost = c.lost
         \/ /\ d.verts[v[2]].ins = c.verts[v[2]].ins
            /\ u[2] \in Range(c.verts[v[2]].ins)
            /\ d.verts[v[2]].gate \in d.lost
  <2>1. Edged(c, d, u, v)
    BY EdgeEffect
  <2> QED BY <2>1 DEF Edged
<1> DEFINE p == v[2]
           q == u[2]
           ins == c.verts[p].ins
           P == DOMAIN c.verts
<1>2. p \in P /\ q \in P /\ ops \in Seq(P) /\ ins \in Seq(P)
  BY <1>1, InsFacts DEF Inside, Wired
<1>3. c.lost \subseteq d.lost
  BY <1>1 DEF Ext
<1> HIDE DEF P, p, q
<1>4. /\ Append(ops, q) \in Seq(P) /\ Range(Append(ops, q)) = Range(ops) \cup {q}
      /\ Len(Append(ops, q)) = Len(ops) + 1 /\ Len(ops) \in Nat
      /\ Range(Append(ins, q)) = Range(ins) \cup {q}
      /\ Len(Append(ins, q)) = Len(ins) + 1 /\ Len(ins) \in Nat
  <2> HIDE DEF ins
  <2> QED BY <1>2, AppendFacts
<1>5. \/ ins = ops
      \/ /\ c.verts[p].gate \in c.lost
         /\ Range(ins) = Range(ops)
         /\ 1 <= Len(ins) /\ Len(ins) <= Len(ops)
  BY DEF Wired, p
<1>6. CASE d.verts[p].ins = Append(ins, q) /\ d.lost = c.lost
  <2>1. CASE ins = ops
    <3>1. d.verts[p].ins = Append(ops, q)
      BY <1>6, <2>1
    <3> QED BY <1>1, <1>2, <1>4, <3>1 DEF Wired, P, p, q
  <2>2. CASE /\ c.verts[p].gate \in c.lost
             /\ Range(ins) = Range(ops)
             /\ 1 <= Len(ins) /\ Len(ins) <= Len(ops)
    <3> DEFINE now == d.verts[p].ins
    <3>1. Range(now) = Range(Append(ops, q)) /\ Len(now) = Len(ins) + 1
      BY <1>4, <1>6, <2>2
    <3>2. 1 <= Len(now) /\ Len(now) <= Len(Append(ops, q))
      <4> HIDE DEF now, ins
      <4> QED BY <1>4, <2>2, <3>1
    <3>3. d.verts[p].gate \in d.lost
      BY <1>1, <1>6, <2>2 DEF p
    <3> QED BY <1>1, <1>2, <1>4, <3>1, <3>2, <3>3 DEF Wired, P, p, q
  <2> QED BY <1>5, <2>1, <2>2
<1>7. CASE d.verts[p].ins = ins /\ q \in Range(ins) /\ d.verts[p].gate \in d.lost
  <2>1. Range(ins) = Range(ops) /\ Len(ins) <= Len(ops)
    BY <1>4, <1>5
  <2>2. Range(ins) = Range(Append(ops, q))
    BY <1>4, <1>7, <2>1
  <2>3. 1 <= Len(ins)
    <3>1. ins # <<>>
      BY <1>7 DEF Range
    <3> HIDE DEF ins
    <3> QED BY <1>2, <3>1
  <2>4. Len(ins) <= Len(Append(ops, q))
    <3> HIDE DEF ins
    <3> QED BY <1>4, <2>1
  <2> QED BY <1>1, <1>2, <1>4, <1>7, <2>2, <2>3, <2>4 DEF Wired, P, p, q
<1> QED BY <1>1, <1>6, <1>7 DEF p, q

(* The value of a gate.                                                    *)
LEMMA GateValue ==
    ASSUME NEW c, Whole(c), NEW X, NEW env, NEW val, Fits(c, X, env, val),
           NEW k \in DOMAIN c.verts, k \notin X, c.verts[k].type = "gate", c.verts[k].ins # <<>>
    PROVE  val[k] = Chain(c.verts[k].gate, At(val, c.verts[k].ins))
<1>1. c.verts[k].ins \in Seq(Nat)
  BY InsFacts
<1> DEFINE ins == c.verts[k].ins
           in == At(val, ins)
<1>2. in # <<>>
  <2>1. Len(in) = Len(ins) /\ 1 <= Len(ins)
    <3>1. ins \in Seq(Nat) /\ 1 <= Len(ins)
      BY <1>1, InsFacts
    <3> HIDE DEF ins
    <3>2. Len(At(val, ins)) = Len(ins)
      BY <3>1, AtFits
    <3> QED BY <3>1, <3>2
  <2> HIDE DEF in
  <2> QED BY <2>1
<1>3. val[k] = Value(c.verts[k], env, in)
  BY DEF Fits
<1> HIDE DEF in
<1>4. Value(c.verts[k], env, in) = Chain(c.verts[k].gate, in)
  BY <1>2 DEF Value
<1> QED BY <1>1, <1>3, <1>4 DEF in

(* A vertex with one driver.                                               *)
LEMMA SingleValue ==
    ASSUME NEW c, Whole(c), NEW X, NEW env, NEW val, Fits(c, X, env, val),
           NEW k \in DOMAIN c.verts, k \notin X, NEW x, c.verts[k].ins = <<x>>
    PROVE  /\ c.verts[k].type = "gate" => val[k] = Single(c.verts[k].gate, val[x])
           /\ c.verts[k].type = "output" => val[k] = val[x]
<1>0. c.verts[k].type = "gate" => val[k] = Chain(c.verts[k].gate, At(val, c.verts[k].ins))
  <2> DEFINE v == c.verts[k]
  <2>1. v.ins # <<>> /\ v = c.verts[k]
    OBVIOUS
  <2> HIDE DEF v
  <2>2. ASSUME v.type = "gate" PROVE val[k] = Chain(v.gate, At(val, v.ins))
    BY <2>1, <2>2, GateValue
  <2> QED BY <2>2 DEF v
<1> DEFINE in == At(val, c.verts[k].ins)
<1>1. in = <<val[x]>> /\ in # <<>> /\ in[1] = val[x] /\ Range(in) = {val[x]}
  BY DEF At, Range
<1>2. ASSUME c.verts[k].type = "gate" PROVE val[k] = Single(c.verts[k].gate, val[x])
  <2>1. c.verts[k].ins # <<>>
    OBVIOUS
  <2>2. val[k] = Chain(c.verts[k].gate, in)
    BY <1>0, <1>2, <2>1
  <2>3. Chain(c.verts[k].gate, <<val[x]>>) = Single(c.verts[k].gate, val[x])
    <3>1. <<val[x]>> \in Seq({val[x]}) /\ Len(<<val[x]>>) = 1 /\ <<val[x]>>[1] = val[x]
      OBVIOUS
    <3> QED BY <3>1, ChainFacts
  <2> QED BY <1>1, <2>2, <2>3
<1>3. ASSUME c.verts[k].type = "output" PROVE val[k] = val[x]
  <2>1. val[k] = Value(c.verts[k], env, in)
    BY DEF Fits
  <2> HIDE DEF in
  <2> QED BY <1>1, <1>3, <2>1 DEF Value
<1> QED BY <1>2, <1>3

LEMMA DependsOnDrivers ==
    ASSUME NEW c, NEW k \in DOMAIN c.verts, NEW X, k \notin X, NEW A, Range(c.verts[k].ins) \subseteq A
    PROVE  Depends(c, X, k, A)
BY DEF Depends, Circ

LEMMA DependsTwice ==
    ASSUME NEW c, NEW X, NEW x, NEW A, Depends(c, X, x, A), NEW B,
           \A a \in A : a \in B \/ Depends(c, X, a, B)
    PROVE  Depends(c, X, x, B)
BY DEF Depends

\* The operands a gate may have in a file.
Takes(gate, n) == n = 2 \/ (n = 3 /\ gate \in {"And", "Or", "Xor"})

(* A gate with its operands, or a conjunction or disjunction that has some *)
(* of them once less.                                                      *)
LEMMA ChainSays ==
    ASSUME NEW gate \in ElemOps, NEW l, l \in Seq(Bits), NEW in, in \in Seq(Bits), Range(in) = Range(l),
           Takes(gate, Len(l)),
           in = l \/ (gate \in {"And", "Or"} /\ 1 <= Len(in) /\ Len(in) <= Len(l))
    PROVE  Chain(gate, in) = Says(gate, l)
<1>1. CASE in = l
  <2>1. CASE Len(l) = 2
    <3>1. Len(l) \in (IF gate \in {"And", "Or", "Xor"} THEN {2, 3} ELSE {2})
      BY <2>1
    <3> QED BY <1>1, <3>1, GateSays
  <2>2. CASE Len(l) = 3 /\ gate \in {"And", "Or", "Xor"}
    <3>1. Len(l) \in (IF gate \in {"And", "Or", "Xor"} THEN {2, 3} ELSE {2})
      BY <2>2
    <3> QED BY <1>1, <3>1, GateSays
  <2> QED BY <2>1, <2>2 DEF Takes
<1>2. CASE gate \in {"And", "Or"} /\ 1 <= Len(in) /\ Len(in) <= Len(l)
  <2>1. Len(l) \in 1..3 /\ Len(in) \in 1..3
    <3>1. Len(l) = 2 \/ Len(l) = 3
      BY DEF Takes
    <3>2. Len(in) \in Nat
      OBVIOUS
    <3> DEFINE m == Len(in)
               n == Len(l)
    <3>3. m \in Nat /\ 1 <= m /\ m <= n /\ (n = 2 \/ n = 3)
      BY <1>2, <3>1, <3>2
    <3> HIDE DEF m, n
    <3>4. n \in 1..3 /\ m \in 1..3
      BY <3>3
    <3> QED BY <3>4 DEF m, n
  <2> QED BY <1>2, <2>1, GateSaysOnce
<1> QED BY <1>1, <1>2

LEMMA AtBits ==
    ASSUME NEW ins \in Seq(Nat), NEW val, \A k \in Range(ins) : val[k] \in Bits
    PROVE  /\ At(val, ins) \in Seq(Bits) /\ Len(At(val, ins)) = Len(ins)
           /\ Range(At(val, ins)) = Among(val, Range(ins))
<1> DEFINE in == At(val, ins)
<1>1. in \in Seq(Among(val, Range(ins))) /\ Len(in) = Len(ins) /\ Range(in) = Among(val, Range(ins))
  BY AtFits
<1>2. Among(val, Range(ins)) \subseteq Bits
  BY DEF Among
<1> HIDE DEF in
<1>3. in \in Seq(Bits)
  BY <1>1, <1>2
<1> QED BY <1>1, <1>3 DEF in

LEMMA WiredFacts ==
    ASSUME NEW c, Whole(c), NEW v, NEW ops, Wired(c, v, ops)
    PROVE  /\ v \in DOMAIN c.verts /\ ops \in Seq(Nat) /\ c.verts[v].ins \in Seq(Nat)
           /\ Range(c.verts[v].ins) = Range(ops)
           /\ 1 <= Len(ops) => c.verts[v].ins # <<>>
<1>1. v \in DOMAIN c.verts /\ ops \in Seq(DOMAIN c.verts) /\ c.verts \in Seq(Vertices)
  BY DEF Wired, Whole
<1>2. DOMAIN c.verts \subseteq Nat
  BY <1>1
<1>3. ops \in Seq(Nat)
  BY <1>1, <1>2
<1>4. c.verts[v].ins \in Seq(Nat) /\ Range(c.verts[v].ins) = Range(ops)
  BY <1>1, InsFacts, WiredRange
<1>5. ASSUME 1 <= Len(ops) PROVE c.verts[v].ins # <<>>
  <2>1. ops[1] \in Range(ops)
    BY <1>3, <1>5 DEF Range
  <2>2. Range(<<>>) = {}
    BY DEF Range
  <2> QED BY <1>4, <2>1, <2>2
<1> QED BY <1>1, <1>3, <1>4, <1>5

(* A gate says of the vertices it was wired to what its operator says,     *)
(* when only conjunctions and disjunctions have lost a driver.             *)
LEMMA WiredValue ==
    ASSUME NEW c, Whole(c), c.lost \subseteq {"And", "Or"},
           NEW X, NEW env, NEW val, Fits(c, X, env, val),
           NEW v, v \notin X, NEW ops, Wired(c, v, ops), c.verts[v].type = "gate",
           NEW gate \in ElemOps, c.verts[v].gate = gate,
           Takes(gate, Len(ops)),
           \A k \in Range(ops) : val[k] \in Bits
    PROVE  val[v] = Says(gate, At(val, ops))
<1>1. /\ v \in DOMAIN c.verts /\ ops \in Seq(Nat) /\ c.verts[v].ins \in Seq(Nat)
      /\ Range(c.verts[v].ins) = Range(ops) /\ c.verts[v].ins # <<>>
  <2>1. 1 <= Len(ops)
    <3>1. Len(ops) \in {2, 3}
      BY DEF Takes
    <3> QED BY <3>1
  <2> QED BY <2>1, WiredFacts
<1>2. val[v] = Chain(gate, At(val, c.verts[v].ins))
  <2> DEFINE x == c.verts[v]
  <2>1. x = c.verts[v] /\ x.ins # <<>> /\ x.type = "gate" /\ x.gate = gate
    BY <1>1
  <2> HIDE DEF x
  <2>2. val[v] = Chain(x.gate, At(val, x.ins))
    BY <1>1, <2>1, GateValue
  <2> QED BY <2>1, <2>2 DEF x
<1> DEFINE ins == c.verts[v].ins
           in == At(val, ins)
           l == At(val, ops)
<1>3. /\ in \in Seq(Bits) /\ Len(in) = Len(ins) /\ l \in Seq(Bits) /\ Len(l) = Len(ops)
      /\ Range(in) = Range(l)
  <2>1. \A k \in Range(ins) : val[k] \in Bits
    BY <1>1
  <2> HIDE DEF ins
  <2>2. ins \in Seq(Nat) /\ Range(ins) = Range(ops)
    BY <1>1 DEF ins
  <2>3. in \in Seq(Bits) /\ Len(in) = Len(ins) /\ Range(in) = Among(val, Range(ins))
    BY <2>1, <2>2, AtBits
  <2>4. l \in Seq(Bits) /\ Len(l) = Len(ops) /\ Range(l) = Among(val, Range(ops))
    BY <1>1, AtBits
  <2> QED BY <2>2, <2>3, <2>4
<1>4. ins = ops \/ (gate \in c.lost /\ 1 <= Len(ins) /\ Len(ins) <= Len(ops))
  BY DEF Wired
<1>5. in = l \/ (gate \in {"And", "Or"} /\ 1 <= Len(in) /\ Len(in) <= Len(l))
  <2>1. ins = ops => in = l
    OBVIOUS
  <2> HIDE DEF ins, in, l
  <2> QED BY <1>3, <1>4, <2>1
<1>6. Takes(gate, Len(l))
  <2> HIDE DEF l
  <2> QED BY <1>3
<1> HIDE DEF in, l
<1>7. Chain(gate, in) = Says(gate, l)
  BY <1>3, <1>5, <1>6, ChainSays
<1> QED BY <1>2, <1>7 DEF in, l, ins

-----------------------------------------------------------------------------
(* Operands.                                                               *)

(* The vertex found for an operand stands for it; at most its inverter is  *)
(* new.                                                                    *)
LEMMA OperandLeads ==
    ASSUME NEW c, Whole(c), NEW f, Promising(f), NEW X, X \subseteq DOMAIN c.verts, Inverters(c, f, X),
           NEW arg, arg.net \in Nets(f), NEW A, c.names[arg.net][2] \in A, NEW N, NotName(arg.net) \in N,
           NEW d, d = RightHS(c, arg), d.status = "ok"
    PROVE  /\ Leads(c, d, f, X, {}, A, N)
           /\ arg.net \in DOMAIN c.names
           /\ Held(d, d.at)
           /\ Inside(d, d.at) => Stands(d, X, d.at[2], arg)
<1>0. c.status = "ok"
  BY DEF Whole
<1>1. arg.net \in DOMAIN c.names
  BY <1>0 DEF RightHS, After, Ended, Whole, Shaped
<1>2. ASSUME NEW n \in DOMAIN c.names, d = Lookup(c, n)
      PROVE  /\ Leads(c, d, f, X, {}, A, N) /\ Held(d, d.at) /\ Ext(c, d, {}, {})
             /\ d.at = c.names[n]
             /\ Inside(d, d.at) => Live(d, n) /\ Live(c, n) /\ d.at[2] = Pl(d, n)
  <2>1. /\ Ext(c, d, {}, {}) /\ d.verts = c.verts /\ d.names = c.names /\ d.at = c.names[n]
        /\ d.graph = c.graph
    BY <1>2, AtEffect DEF Lookup
  <2>2. Leads(c, d, f, X, {}, A, N)
    BY <2>1, LeadsPlain
  <2>3. Held(d, d.at)
    BY <2>1 DEF Ext, Whole, Held
  <2>4. Inside(d, d.at) => Live(d, n) /\ Live(c, n) /\ d.at[2] = Pl(d, n)
    BY <2>1 DEF Live, Pl, Inside
  <2> QED BY <2>1, <2>2, <2>3, <2>4
<1>3. CASE ~arg.not
  <2>1. d = Lookup(c, arg.net)
    BY <1>0, <1>1, <1>3 DEF RightHS, After
  <2>2. /\ Leads(c, d, f, X, {}, A, N) /\ Held(d, d.at)
        /\ Inside(d, d.at) => Live(d, arg.net) /\ d.at[2] = Pl(d, arg.net)
    BY <1>1, <1>2, <2>1
  <2>3. ASSUME Inside(d, d.at) PROVE Stands(d, X, d.at[2], arg)
    <3>1. Live(d, arg.net) /\ d.at[2] = Pl(d, arg.net)
      BY <2>2, <2>3
    <3> QED BY <1>3, <3>1 DEF Stands, Lit, Depends
  <2> QED BY <1>1, <2>2, <2>3
<1>4. CASE arg.not /\ NotName(arg.net) \in DOMAIN c.names
  <2>1. d = Lookup(c, NotName(arg.net))
    BY <1>0, <1>1, <1>4 DEF RightHS, After, Inversion
  <2>2. /\ Leads(c, d, f, X, {}, A, N) /\ Held(d, d.at)
        /\ Inside(d, d.at) => Live(d, NotName(arg.net)) /\ d.at[2] = Pl(d, NotName(arg.net))
    BY <1>2, <1>4, <2>1
  <2>3. ASSUME Inside(d, d.at) PROVE Stands(d, X, d.at[2], arg)
    <3>1. Live(d, NotName(arg.net)) /\ d.at[2] = Pl(d, NotName(arg.net))
      BY <2>2, <2>3
    <3>2. Live(d, arg.net) /\ Inverts(d, X, d.at[2], Pl(d, arg.net))
      BY <2>2, <3>1 DEF Leads, Inverters
    <3> QED BY <1>4, <3>2 DEF Stands, Lit, Inverts
  <2> QED BY <1>1, <2>2, <2>3
<1>5. CASE arg.not /\ NotName(arg.net) \notin DOMAIN c.names
  <2> DEFINE name == NotName(arg.net)
             u == c.names[arg.net]
             new == New(c, "gate", "Not", name)
             bound == Bind(new, name)
  <2>1. d = AddEdge(bound, u, bound.at)
    BY <1>0, <1>1, <1>5 DEF RightHS, After, Inversion, Registered
  <2>2. "gate" \in Types /\ "Not" \in Gates /\ name \in Names
    BY NetFacts DEF Types, Gates
  <2> HIDE DEF name
  <2>3. /\ Ext(c, new, {}, {}) /\ new.names = c.names /\ new.lost = c.lost /\ Inside(new, new.at)
        /\ DOMAIN new.verts = DOMAIN c.verts \cup {new.at[2]} /\ new.at[2] \notin DOMAIN c.verts
        /\ new.verts[new.at[2]] = Vertex("gate", "Not", name)
    <3> HIDE DEF new
    <3>1. Sprouted(c, new, "gate", "Not", name)
      BY <2>2, NewEffect DEF new
    <3> QED BY <3>1 DEF Sprouted
  <2> DEFINE p == new.at[2]
  <2> HIDE DEF new
  <2>4. /\ Whole(new) /\ name \notin DOMAIN new.names
    BY <1>5, <2>3 DEF Ext, name
  <2>5. /\ Ext(new, bound, {}, {name}) /\ bound.verts = new.verts /\ bound.lost = new.lost
        /\ bound.at = new.at /\ bound.names[name] = new.at /\ Live(bound, name)
    <3> HIDE DEF bound
    <3>1. bound = Bind(new, name)
      BY DEF bound
    <3>2. Named(new, bound, name)
      BY <2>3, <2>4, <3>1, BindEffect
    <3> QED BY <3>2 DEF Named
  <2> HIDE DEF bound
  <2>6. Whole(bound) /\ Held(bound, u) /\ Held(bound, bound.at)
    <3>1. Whole(bound) /\ bound.names[arg.net] = u /\ arg.net \in DOMAIN bound.names
      BY <1>1, <2>3, <2>5 DEF Ext
    <3>2. Inside(bound, bound.at)
      BY <2>3, <2>5, LiveStays
    <3> QED BY <3>1, <3>2 DEF Held, Whole
  <2>7. Edged(bound, d, u, bound.at)
    BY <2>1, <2>6, EdgeEffect
  <2>8. /\ Ext(bound, d, {p}, {}) /\ DOMAIN d.verts = DOMAIN bound.verts /\ d.names = bound.names
        /\ d.at = bound.at /\ Inside(bound, u)
        /\ d.verts[p].gate = bound.verts[p].gate
    BY <2>5, <2>7 DEF Edged
  <2>9. d.verts[p].ins = <<u[2]>>
    <3>1. bound.verts[p].ins = <<>> /\ Range(<<>>) = {}
      BY <2>3, <2>5 DEF Vertex, Range
    <3>2. d.verts[p].ins = Append(<<>>, u[2])
      BY <2>5, <2>7, <3>1 DEF Edged
    <3> QED BY <3>2
  <2>10. d.verts[p].type = "gate" /\ d.verts[p].gate = "Not" /\ p \in DOMAIN d.verts /\ p \notin X
    <3>1. p \in DOMAIN bound.verts /\ bound.verts[p].type = "gate" /\ bound.verts[p].gate = "Not"
      BY <2>3, <2>5 DEF Vertex
    <3>2. d.verts[p].type = bound.verts[p].type
      BY <2>8, <3>1 DEF Ext
    <3> QED BY <2>3, <2>8, <3>1, <3>2
  <2>11. Ext(c, d, {}, {name})
    <3>1. Ext(c, bound, {}, {name})
      BY <2>3, <2>5, ExtTwice
    <3>2. {p} \cap DOMAIN c.verts \subseteq {}
      BY <2>3
    <3> HIDE DEF p
    <3> QED BY <2>8, <3>1, <3>2, ExtTwice
  <2>12. /\ Live(d, name) /\ Pl(d, name) = p
         /\ Live(d, arg.net) /\ Pl(d, arg.net) = u[2]
    <3>1. Inside(d, bound.at) /\ Inside(d, u)
      <4>1. Inside(bound, bound.at) /\ Inside(bound, u)
        BY <2>7 DEF Edged
      <4> QED BY <2>8, <4>1, LiveStays
    <3>2. d.names[name] = bound.at /\ name \in DOMAIN d.names
      BY <2>5, <2>8 DEF Live
    <3>3. d.names[arg.net] = u /\ arg.net \in DOMAIN d.names
      BY <1>1, <2>11 DEF Ext
    <3> QED BY <2>5, <3>1, <3>2, <3>3 DEF Live, Pl
  <2>13. Inverts(d, X, p, u[2]) /\ Depends(d, X, p, {u[2]})
    <3>0. Whole(d)
      BY <2>11 DEF Ext
    <3>1. ASSUME NEW env, NEW val, Fits(d, X, env, val) PROVE val[p] = Invert(val[u[2]])
      <4>1. val[p] = Single(d.verts[p].gate, val[u[2]])
        <5> HIDE DEF p
        <5> QED BY <2>9, <2>10, <3>0, <3>1, SingleValue
      <4> QED BY <2>10, <4>1 DEF Single
    <3>2. Depends(d, X, p, {u[2]})
      <4>1. Range(<<u[2]>>) = {u[2]}
        BY DEF Range
      <4>2. Range(d.verts[p].ins) \subseteq {u[2]}
        BY <2>9, <4>1
      <4> HIDE DEF p
      <4> QED BY <2>10, <4>2, DependsOnDrivers
    <3> QED BY <3>1, <3>2 DEF Inverts
  <2>14. Inverters(d, f, X)
    <3>1. ASSUME NEW n \in Nets(f), NotName(n) \in {name}
          PROVE  Live(d, NotName(n)) => Live(d, n) /\ Inverts(d, X, Pl(d, NotName(n)), Pl(d, n))
      <4>1. n = arg.net
        BY <3>1, SuffixAssumption DEF Promising, name
      <4> QED BY <2>12, <2>13, <4>1 DEF name
    <3>2. X \cap DOMAIN c.verts \subseteq X /\ {} \subseteq X
      OBVIOUS
    <3> QED BY <2>11, <3>1, <3>2, InvertersStay
  <2>15. Sprung(c, d, X, A)
    <3> SUFFICES ASSUME NEW k \in DOMAIN d.verts \ (DOMAIN c.verts \cup X) PROVE Depends(d, X, k, A)
      BY DEF Sprung
    <3>1. k = p
      BY <2>3, <2>5, <2>8
    <3>2. {u[2]} \cap A # {}
      OBVIOUS
    <3> QED BY <2>13, <3>1, <3>2 DEF Depends
  <2>16. Leads(c, d, f, X, {}, A, N)
    <3>1. Ext(c, d, {}, N)
      BY <2>11, ExtMore DEF name
    <3> QED BY <2>14, <2>15, <3>1 DEF Leads
  <2>17. Stands(d, X, d.at[2], arg)
    <3>1. d.at[2] = p
      BY <2>5, <2>8
    <3> QED BY <1>5, <2>12, <2>13, <3>1 DEF Stands, Lit, Inverts
  <2>18. Held(d, d.at)
    <3>1. Inside(d, bound.at)
      <4>1. Inside(bound, bound.at)
        BY <2>7 DEF Edged
      <4> QED BY <2>8, <4>1, LiveStays
    <3> QED BY <2>8, <3>1 DEF Held
  <2> QED BY <1>1, <2>16, <2>17, <2>18
<1> QED BY <1>3, <1>4, <1>5

\* x, which stands for arg, is one more vertex p has been wired to.
Joined(c, d, f, X, p, arg, x, A, N) ==
    /\ Leads(c, d, f, X, {p}, A, N)
    /\ Stands(d, X, x, arg)
    /\ \A ops : Wired(c, p, ops) => Wired(d, p, Append(ops, x))
    /\ d.verts[p].gate = c.verts[p].gate

(* An operand is connected to a vertex v that may get drivers.             *)
LEMMA ConnectLeads ==
    ASSUME NEW c, Whole(c), NEW f, Promising(f), NEW X, X \subseteq DOMAIN c.verts, Inverters(c, f, X),
           NEW arg, arg.net \in Nets(f), NEW A, c.names[arg.net][2] \in A, NEW N, NotName(arg.net) \in N,
           NEW v, Inside(c, v), v[2] \in X,
           NEW d, d = Connect(c, arg, v), d.status = "ok",
           NEW x, x = RightHS(c, arg).at[2]
    PROVE  Joined(c, d, f, X, v[2], arg, x, A, N)
<1> DEFINE e == RightHS(c, arg)
<1>1. d = AddEdge(e, e.at, v)
  BY DEF Connect
<1>2. x = e.at[2]
  OBVIOUS
<1> HIDE DEF e
<1>3. e.status = "ok"
  BY <1>1, OkBefore
<1>4. /\ Leads(c, e, f, X, {}, A, N) /\ Held(e, e.at)
      /\ Inside(e, e.at) => Stands(e, X, x, arg)
  BY <1>2, <1>3, OperandLeads DEF e
<1>5. Ext(c, e, {}, N) /\ Whole(e) /\ Inverters(e, f, X)
  BY <1>4 DEF Leads, Ext
<1>6. Inside(e, v) /\ Held(e, v)
  BY <1>5, LiveStays DEF Held
<1>7. Edged(e, d, e.at, v)
  BY <1>1, <1>4, <1>5, <1>6, EdgeEffect
<1>8. /\ Ext(e, d, {v[2]}, {}) /\ DOMAIN d.verts = DOMAIN e.verts /\ Inside(e, e.at)
      /\ d.verts[v[2]].gate = e.verts[v[2]].gate
  BY <1>7 DEF Edged
<1>9. Leads(e, d, f, X, {v[2]}, A, N)
  <2>1. {v[2]} \subseteq X /\ {} \subseteq N
    OBVIOUS
  <2> QED BY <1>5, <1>8, <2>1, LeadsPlain
<1>10. Leads(c, d, f, X, {v[2]}, A, N)
  <2>1. {} \subseteq {v[2]} /\ {v[2]} \cap DOMAIN c.verts \subseteq {v[2]} /\ {v[2]} \subseteq X
    OBVIOUS
  <2> QED BY <1>4, <1>9, <2>1, LeadsTwice
<1>11. Stands(d, X, x, arg)
  <2>1. {v[2]} \subseteq X /\ X \cap DOMAIN e.verts \subseteq X
    OBVIOUS
  <2>2. Stands(e, X, x, arg)
    BY <1>4, <1>8
  <2> QED BY <1>8, <2>1, <2>2, StaysTrue
<1>12. ASSUME NEW ops, Wired(c, v[2], ops) PROVE Wired(d, v[2], Append(ops, x))
  <2>1. v[2] \notin {}
    OBVIOUS
  <2>2. Wired(e, v[2], ops)
    BY <1>5, <1>12, <2>1, WiredStays
  <2> QED BY <1>1, <1>2, <1>4, <1>5, <1>6, <2>2, WiredEdge
<1>13. e.verts[v[2]].gate = c.verts[v[2]].gate
  BY <1>5 DEF Ext, Inside
<1> QED BY <1>8, <1>10, <1>11, <1>12, <1>13 DEF Joined

-----------------------------------------------------------------------------
(* What an assignment says of the vertex of its net.                       *)

\* The values of the operands of s, and their vertices.
Lits(c, val, s) == [i \in DOMAIN s.args |-> Lit(s.args[i], val[Pl(c, s.args[i].net)])]
Sources(c, s) == {Pl(c, s.args[i].net) : i \in DOMAIN s.args}

\* The vertex v has the value of the right-hand side of s, when the nets there
\* have values and only conjunctions and disjunctions lost an operand.
Computes(c, X, v, s) ==
    \A env, val :
      Fits(c, X, env, val) /\ c.lost \subseteq {"And", "Or"}
        /\ (\A i \in DOMAIN s.args : val[Pl(c, s.args[i].net)] \in Bits)
        => val[v] = IF s.op \in ValueOps THEN Literal(s.value) ELSE Says(s.op, Lits(c, val, s))

\* The operands of s, one after the other.
Operands(c, X, s, ops) ==
    /\ Len(ops) = Len(s.args)
    /\ \A i \in 1..Len(ops) : Stands(c, X, ops[i], s.args[i])

LEMMA LitBits ==
    ASSUME NEW arg, NEW a \in Bits PROVE Lit(arg, a) \in Bits
BY DEF Lit, Bits, Invert

LEMMA OperandValues ==
    ASSUME NEW c, NEW X, NEW s, NEW S, s.args \in Seq(S), NEW ops \in Seq(Nat), Operands(c, X, s, ops),
           NEW env, NEW val, Fits(c, X, env, val),
           \A i \in DOMAIN s.args : val[Pl(c, s.args[i].net)] \in Bits
    PROVE  /\ At(val, ops) = Lits(c, val, s)
           /\ \A k \in Range(ops) : val[k] \in Bits
<1>1. DOMAIN s.args = 1..Len(ops) /\ DOMAIN ops = 1..Len(ops)
  BY DEF Operands
<1>2. ASSUME NEW i \in 1..Len(ops)
      PROVE  val[ops[i]] = Lit(s.args[i], val[Pl(c, s.args[i].net)]) /\ val[ops[i]] \in Bits
  <2> DEFINE arg == s.args[i]
             p == Pl(c, arg.net)
  <2>1. Stands(c, X, ops[i], arg) /\ val[p] \in Bits
    BY <1>1, <1>2 DEF Operands
  <2> HIDE DEF arg
  <2>2. val[ops[i]] = Lit(arg, val[p])
    BY <2>1 DEF Stands
  <2> HIDE DEF p
  <2>3. val[ops[i]] \in Bits
    BY <2>1, <2>2, LitBits
  <2> QED BY <2>2, <2>3 DEF arg, p
<1>3. At(val, ops) = Lits(c, val, s)
  BY <1>1, <1>2 DEF At, Lits
<1>4. ASSUME NEW k \in Range(ops) PROVE val[k] \in Bits
  BY <1>1, <1>2 DEF Range
<1> QED BY <1>3, <1>4

LEMMA OperandDepends ==
    ASSUME NEW c, NEW X, NEW s, NEW S, s.args \in Seq(S), NEW ops \in Seq(Nat), Operands(c, X, s, ops),
           NEW v, Depends(c, X, v, Range(ops))
    PROVE  Depends(c, X, v, Sources(c, s))
<1>1. DOMAIN s.args = 1..Len(ops) /\ DOMAIN ops = 1..Len(ops)
  BY DEF Operands
<1>2. ASSUME NEW k \in Range(ops) PROVE Depends(c, X, k, Sources(c, s))
  <2>1. PICK i \in 1..Len(ops) : k = ops[i]
    BY <1>1 DEF Range
  <2>2. Depends(c, X, k, {Pl(c, s.args[i].net)}) /\ Pl(c, s.args[i].net) \in Sources(c, s)
    BY <1>1, <2>1 DEF Operands, Stands, Sources
  <2> QED BY <2>2 DEF Depends
<1> QED BY <1>2, DependsTwice

(* A gate that was wired to the operands of s.                             *)
LEMMA GateDone ==
    ASSUME NEW c, Whole(c), NEW X, NEW v, v \notin X, NEW ops, Wired(c, v, ops),
           c.verts[v].type = "gate", NEW s, s.op \in ElemOps, c.verts[v].gate = s.op,
           Takes(s.op, Len(ops)), NEW S, s.args \in Seq(S), Operands(c, X, s, ops)
    PROVE  Computes(c, X, v, s) /\ Depends(c, X, v, Sources(c, s))
<1>1. v \in DOMAIN c.verts /\ ops \in Seq(Nat) /\ Range(c.verts[v].ins) = Range(ops)
  BY WiredFacts
<1>2. s.op \notin ValueOps
  BY DEF ElemOps, ValueOps
<1>3. ASSUME NEW env, NEW val, Fits(c, X, env, val), c.lost \subseteq {"And", "Or"},
             \A i \in DOMAIN s.args : val[Pl(c, s.args[i].net)] \in Bits
      PROVE  val[v] = Says(s.op, Lits(c, val, s))
  <2>1. /\ At(val, ops) = Lits(c, val, s)
        /\ \A k \in Range(ops) : val[k] \in Bits
    BY <1>1, <1>3, OperandValues
  <2>2. val[v] = Says(s.op, At(val, ops))
    BY <1>3, <2>1, WiredValue
  <2> QED BY <2>1, <2>2
<1>4. Depends(c, X, v, Range(ops))
  BY <1>1, DependsOnDrivers
<1> QED BY <1>1, <1>2, <1>3, <1>4, OperandDepends DEF Computes

-----------------------------------------------------------------------------
(* What is true of a graph between two assignments.                        *)

\* The net n will stand for what it stands for now, if it stands for anything.
Firm(f, P, n) ==
    /\ n \in f.inputs \cup Assigned(f)
    /\ \A t \in P : t.lhs = n => n \in f.wires \cup f.outputs /\ t.op \notin ValueOps

Settled(c, f, P) == {Pl(c, n) : n \in {m \in Nets(f) : Live(c, m) /\ Firm(f, P, m)}}

\* The vertex of an input.
InputAt(c, n) ==
    /\ Live(c, n)
    /\ c.verts[Pl(c, n)].type = "input"
    /\ c.verts[Pl(c, n)].name = n
    /\ c.verts[Pl(c, n)].ins = <<>>

\* Outputs have the names of outputs, which stand for them.
OutputAt(c, f, x) ==
    LET n == c.verts[x].name
    IN  n \in f.outputs /\ Live(c, n) /\ Pl(c, n) = x

\* The vertex of n waits for the assignment of n, if there is one.
Waits(c, f, X, n) ==
    LET x == c.verts[Pl(c, n)] IN
    /\ Pl(c, n) \in X
    /\ x.name = n
    /\ \/ x.type = "gate" /\ x.gate = "Default"
       \/ x.type = "output" /\ n \in f.outputs
    /\ ~Live(c, GateName(n))

\* The vertex of s.lhs is what s says.
Said(c, f, P, X, s) ==
    /\ Live(c, s.lhs)
    /\ \A i \in DOMAIN s.args : Live(c, s.args[i].net) /\ Firm(f, P, s.args[i].net)
    /\ Computes(c, X, Pl(c, s.lhs), s)
    /\ Depends(c, X, Pl(c, s.lhs), Sources(c, s))

(* The graph of f when the assignments P are to come: X are the vertices   *)
(* that have no drivers yet. A loop goes through a net.                    *)
Reads(c, f, P, X) ==
    /\ Whole(c)
    /\ X \subseteq DOMAIN c.verts
    /\ \A x \in X : c.verts[x].ins = <<>> /\ c.verts[x].type # "input"
    /\ \A n \in f.inputs : InputAt(c, n)
    /\ \A t \in P : t.op \notin ValueOps /\ t.lhs \in f.wires \cup f.outputs => Live(c, t.lhs)
    /\ \A x \in DOMAIN c.verts : c.verts[x].type = "output" => OutputAt(c, f, x)
    /\ \A n \in Lhs(P) : Live(c, n) => Waits(c, f, X, n)
    /\ Inverters(c, f, X)
    /\ \A n \in Nets(f) : Live(c, NotName(n)) => Firm(f, P, n)
    /\ \A s \in f.assigns \ P : Said(c, f, P, X, s)
    /\ \A x \in DOMAIN c.verts \ X : Depends(c, X, x, Settled(c, f, P))

\* The names an assignment may add.
Made(s) == {s.lhs, GateName(s.lhs)} \cup {NotName(s.args[i].net) : i \in DOMAIN s.args}

\* s has been reported, and Y are the vertices without drivers now.
Done(c, d, f, X, s, Y) ==
    /\ Ext(c, d, {Pl(d, s.lhs)}, Made(s))
    /\ Y = X \ {Pl(d, s.lhs)}
    /\ Live(d, s.lhs)
    /\ Live(c, s.lhs) \/ Pl(d, s.lhs) \notin DOMAIN c.verts
    /\ Inverters(d, f, Y)
    /\ \A k \in DOMAIN d.verts \ DOMAIN c.verts : Depends(d, Y, k, Sources(d, s))
    /\ Computes(d, Y, Pl(d, s.lhs), s)
    /\ Depends(d, Y, Pl(d, s.lhs), Sources(d, s))

\* The operands of s are known and will stand for what they stand for now.
Apt(c, f, P, s) ==
    \A i \in DOMAIN s.args :
      s.args[i].net \in Nets(f) /\ Live(c, s.args[i].net) /\ Firm(f, P, s.args[i].net)

LEMMA SaidStays ==
    ASSUME NEW c, NEW d, NEW T, NEW N, Ext(c, d, T, N), NEW X, T \subseteq X,
           NEW Y, Y \cap DOMAIN c.verts \subseteq X,
           NEW f, NEW P, NEW Q, \A n : Firm(f, P, n) => Firm(f, Q, n), NEW t, Said(c, f, P, X, t)
    PROVE  Said(d, f, Q, Y, t)
<1>1. /\ Live(d, t.lhs) /\ Pl(d, t.lhs) = Pl(c, t.lhs)
      /\ \A i \in DOMAIN t.args : /\ Live(d, t.args[i].net) /\ Pl(d, t.args[i].net) = Pl(c, t.args[i].net)
                                  /\ Firm(f, Q, t.args[i].net)
  BY LiveStays DEF Said
<1>2. Sources(d, t) = Sources(c, t) /\ \A val : Lits(d, val, t) = Lits(c, val, t)
  BY <1>1 DEF Sources, Lits
<1>3. Depends(d, Y, Pl(d, t.lhs), Sources(d, t))
  <2>1. Depends(c, X, Pl(c, t.lhs), Sources(c, t))
    BY DEF Said
  <2> QED BY <1>1, <1>2, <2>1, StaysTrue
<1>4. \A env, val : Fits(d, Y, env, val) => Fits(c, X, env, val)
  BY FitsBefore
<1>5. c.lost \subseteq d.lost
  BY DEF Ext
<1>6. Computes(d, Y, Pl(d, t.lhs), t)
  BY <1>1, <1>2, <1>4, <1>5 DEF Computes, Said
<1> QED BY <1>1, <1>3, <1>6 DEF Said

(* What has been said stays true, and s is said now.                       *)
LEMMA StatementKeeps ==
    ASSUME NEW c, NEW f, Promising(f), NEW P, P \subseteq f.assigns, NEW s \in P, NEW X, Reads(c, f, P, X),
           Apt(c, f, P, s), NEW d, NEW Y, Done(c, d, f, X, s, Y)
    PROVE  Reads(d, f, P \ {s}, Y)
<1> DEFINE v == Pl(d, s.lhs)
           Q == P \ {s}
           N == Made(s)
<1>1. /\ Ext(c, d, {v}, N) /\ Whole(c) /\ Whole(d) /\ Y = X \ {v}
      /\ Live(d, s.lhs) /\ X \subseteq DOMAIN c.verts
  BY DEF Done, Ext, Reads
<1>2. \A n : Live(c, n) => Live(d, n) /\ Pl(d, n) = Pl(c, n) /\ Pl(c, n) \in DOMAIN c.verts
  BY <1>1, LiveStays
<1>3. \A n : Firm(f, P, n) => Firm(f, Q, n)
  BY DEF Firm
<1>4. /\ s \in f.assigns /\ s.lhs \in Nets(f)
      /\ \A n \in Nets(f) : /\ n \in N => n = s.lhs
                            /\ GateName(n) \in N => n = s.lhs
                            /\ NotName(n) \in N => \E i \in DOMAIN s.args : n = s.args[i].net
  <2>1. s \in f.assigns /\ s.lhs \in Nets(f)
    BY NetFacts
  <2>2. \A n \in Nets(f) : \A m \in Nets(f) :
          /\ n # NotName(m) /\ n # GateName(m) /\ NotName(n) # GateName(m)
          /\ GateName(n) = GateName(m) => n = m
          /\ NotName(n) = NotName(m) => n = m
    BY NetFacts, SuffixAssumption DEF Promising
  <2>3. \A i \in DOMAIN s.args : s.args[i].net \in Nets(f)
    BY DEF Apt
  <2> QED BY <2>1, <2>2, <2>3 DEF Made
<1>5. \A t \in f.assigns : t.lhs = s.lhs => t = s
  BY <1>4 DEF Promising, Legal
<1>6. Firm(f, Q, s.lhs)
  BY <1>4, <1>5 DEF Firm, Assigned
<1>7. /\ v \in Settled(d, f, Q)
      /\ Settled(c, f, P) \subseteq Settled(d, f, Q)
      /\ Sources(d, s) \subseteq Settled(d, f, Q)
  <2>1. v \in Settled(d, f, Q)
    BY <1>1, <1>4, <1>6 DEF Settled
  <2>2. Settled(c, f, P) \subseteq Settled(d, f, Q)
    BY <1>2, <1>3 DEF Settled
  <2>3. Sources(d, s) \subseteq Settled(d, f, Q)
    BY <1>2, <1>3 DEF Settled, Sources, Apt
  <2> QED BY <2>1, <2>2, <2>3
<1>8. {v} \cap DOMAIN c.verts \subseteq X
  <2>1. CASE Live(c, s.lhs)
    <3>1. Waits(c, f, X, s.lhs)
      BY <2>1 DEF Reads, Lhs
    <3> QED BY <1>2, <2>1, <3>1 DEF Waits
  <2>2. CASE v \notin DOMAIN c.verts
    BY <2>2
  <2> QED BY <2>1, <2>2 DEF Done
<1>9. Ext(c, d, {v} \cap X, N) /\ {v} \cap X \subseteq X /\ Y \cap DOMAIN c.verts \subseteq X
  BY <1>1, <1>8 DEF Ext
<1>10. \A k \in DOMAIN c.verts \ {v} :
         /\ k \in DOMAIN d.verts
         /\ d.verts[k].type = c.verts[k].type /\ d.verts[k].name = c.verts[k].name
         /\ d.verts[k].gate = c.verts[k].gate /\ d.verts[k].ins = c.verts[k].ins
  BY <1>1 DEF Ext
<1> HIDE DEF v, Q, N
<1>11. Y \subseteq DOMAIN d.verts /\ \A x \in Y : d.verts[x].ins = <<>> /\ d.verts[x].type # "input"
  BY <1>1, <1>10 DEF Reads
<1>12. \A t \in Q : t.op \notin ValueOps /\ t.lhs \in f.wires \cup f.outputs => Live(d, t.lhs)
  BY <1>2 DEF Reads, Q
<1>13. ASSUME NEW n \in f.inputs PROVE InputAt(d, n)
  <2>1. InputAt(c, n)
    BY DEF Reads
  <2>2. Pl(c, n) \in DOMAIN c.verts \ {v}
    <3>1. Pl(c, n) \in DOMAIN c.verts /\ Pl(c, n) \notin X
      BY <1>2, <2>1 DEF InputAt, Reads
    <3> QED BY <1>8, <3>1
  <2> QED BY <1>2, <1>10, <2>1, <2>2 DEF InputAt
<1>14. ASSUME NEW x \in DOMAIN d.verts, d.verts[x].type = "output" PROVE OutputAt(d, f, x)
  <2>1. x \in DOMAIN c.verts
    BY <1>1, <1>14 DEF Ext
  <2>2. d.verts[x].type = c.verts[x].type /\ d.verts[x].name = c.verts[x].name
    BY <1>1, <2>1 DEF Ext
  <2>3. OutputAt(c, f, x)
    BY <1>14, <2>1, <2>2 DEF Reads
  <2> QED BY <1>2, <2>2, <2>3 DEF OutputAt
<1>15. ASSUME NEW n \in Lhs(Q), Live(d, n) PROVE Waits(d, f, Y, n)
  <2>1. n \in Lhs(P) /\ n # s.lhs /\ n \in Nets(f)
    BY <1>5, NetFacts DEF Lhs, Q
  <2>2. Live(c, n)
    <3>1. n \in DOMAIN c.names
      BY <1>1, <1>4, <1>15, <2>1 DEF Ext, Live
    <3> QED BY <1>1, <1>15, <3>1, LiveStays
  <2>3. Waits(c, f, X, n) /\ Pl(d, n) = Pl(c, n) /\ Pl(c, n) \in DOMAIN c.verts
    BY <1>2, <2>1, <2>2 DEF Reads
  <2>4. Pl(c, n) # v
    <3> SUFFICES ASSUME Pl(c, n) = v PROVE FALSE
      OBVIOUS
    <3>1. Live(c, s.lhs) /\ Pl(c, s.lhs) = v
      BY <1>2, <2>3 DEF Done, v
    <3>2. Waits(c, f, X, s.lhs)
      BY <3>1 DEF Reads, Lhs
    <3> QED BY <2>1, <2>3, <3>1, <3>2 DEF Waits
  <2>5. ~Live(d, GateName(n))
    <3> SUFFICES ASSUME Live(d, GateName(n)) PROVE FALSE
      OBVIOUS
    <3>1. GateName(n) \in DOMAIN c.names
      BY <1>1, <1>4, <2>1 DEF Ext, Live
    <3>2. Live(c, GateName(n))
      BY <1>1, <3>1, LiveStays
    <3> QED BY <2>3, <3>2 DEF Waits
  <2> QED BY <1>1, <1>10, <2>3, <2>4, <2>5 DEF Waits
<1>16. ASSUME NEW n \in Nets(f), Live(d, NotName(n)) PROVE Firm(f, Q, n)
  <2>1. CASE NotName(n) \in N
    BY <1>3, <1>4, <2>1 DEF Apt
  <2>2. CASE NotName(n) \notin N
    <3>1. NotName(n) \in DOMAIN c.names
      BY <1>1, <1>16, <2>2 DEF Ext, Live
    <3>2. Live(c, NotName(n))
      BY <1>1, <1>16, <3>1, LiveStays
    <3> QED BY <1>3, <3>2 DEF Reads
  <2> QED BY <2>1, <2>2
<1>17. ASSUME NEW t \in f.assigns \ Q PROVE Said(d, f, Q, Y, t)
  <2>1. CASE t = s
    BY <1>1, <1>2, <1>3, <2>1 DEF Said, Apt, Done
  <2>2. CASE t # s
    <3>1. Said(c, f, P, X, t)
      BY <2>2 DEF Reads, Q
    <3> QED BY <1>3, <1>9, <3>1, SaidStays
  <2> QED BY <2>1, <2>2
<1>18. ASSUME NEW x \in DOMAIN d.verts \ Y PROVE Depends(d, Y, x, Settled(d, f, Q))
  <2>1. CASE x \notin DOMAIN c.verts
    <3>1. Depends(d, Y, x, Sources(d, s))
      BY <2>1 DEF Done
    <3> QED BY <1>7, <3>1 DEF Depends
  <2>2. CASE x = v
    BY <1>7, <2>2 DEF Depends
  <2>3. CASE x \in DOMAIN c.verts /\ x # v
    <3>1. Depends(c, X, x, Settled(c, f, P))
      BY <1>1, <2>3 DEF Reads
    <3>2. Depends(d, Y, x, Settled(c, f, P))
      BY <1>9, <3>1, StaysTrue
    <3> QED BY <1>7, <3>2 DEF Depends
  <2> QED BY <2>1, <2>2, <2>3
<1>19. Inverters(d, f, Y)
  BY DEF Done
<1> QED BY <1>1, <1>11, <1>12, <1>13, <1>14, <1>15, <1>16, <1>17, <1>18, <1>19 DEF Reads, Q

-----------------------------------------------------------------------------
(* Parameters and literals.                                                *)

LEMMA LiteralIsRead ==
    ASSUME NEW l, Plain(l), l.digits \in Seq(STRING) \ {<<>>}
    PROVE  ParseConstValue(l) = Literal(l) /\ Literal(l) \in Bits
<1> DEFINE ds == l.digits
           D == DigitsOf(l.base)
<1>0. ds \in Seq(STRING) /\ ds # <<>> /\ Range(ds) \subseteq D
  BY DEF Plain
<1> HIDE DEF ds, D
<1>a. Len(ds) \in 1..Len(ds) /\ \A i \in 1..Len(ds) : ds[i] \in D
  BY <1>0 DEF Range
<1>1. SelectInSeq(l.digits, LAMBDA d : d \notin DigitsOf(l.base)) = 0
  <2>1. {i \in 1..Len(ds) : ds[i] \notin D} = {}
    BY <1>a
  <2> QED BY <2>1 DEF SelectInSeq, ds, D
<1>2. Readable(l) = l.digits
  BY <1>1 DEF Readable
<1>3. Last(l.digits) \in DigitsOf(l.base)
  BY <1>a DEF Last, ds, D
<1>4. Last(l.digits) # "x"
  BY <1>3 DEF DigitsOf
<1>5. Literal(l) = Bit(IsOdd(Last(l.digits))) /\ LowestBit(l) = Literal(l)
  BY <1>2, <1>4 DEF Literal, LowestBit
<1>6. Literal(l) \in Bits
  BY <1>5 DEF Bit, Bits
<1> QED BY <1>2, <1>5, <1>6 DEF Plain, ParseConstValue

\* A context without one of its names.
Without(c, n) == [c EXCEPT !.names = [m \in DOMAIN c.names \ {n} |-> c.names[m]]]

LEMMA WithoutFacts ==
    ASSUME NEW c, Whole(c), NEW n, NEW b, b = Without(c, n)
    PROVE  /\ Whole(b)
           /\ b.verts = c.verts /\ b.lost = c.lost /\ b.graph = c.graph /\ b.kept = c.kept /\ b.at = c.at
           /\ DOMAIN b.names = DOMAIN c.names \ {n}
           /\ \A m : Live(b, m) <=> m # n /\ Live(c, m)
           /\ \A m \in DOMAIN b.names : b.names[m] = c.names[m] /\ Pl(b, m) = Pl(c, m)
<1> DEFINE t == [m \in DOMAIN c.names \ {n} |-> c.names[m]]
<1>1. b = [c EXCEPT !.names = t]
  BY DEF Without
<1>2. DOMAIN t = DOMAIN c.names \ {n} /\ \A m \in DOMAIN t : t[m] = c.names[m]
  OBVIOUS
<1>3. t = [m \in DOMAIN t |-> t[m]]
  OBVIOUS
<1> HIDE DEF t
<1>4. /\ b.names = t /\ b.verts = c.verts /\ b.at = c.at /\ b.graph = c.graph /\ b.kept = c.kept
      /\ b.lost = c.lost /\ b.status = "ok" /\ Shaped(b)
  BY <1>1 DEF Whole, Shaped
<1>5. \A v : (Inside(c, v) <=> Inside(b, v)) /\ (Freed(c, v) <=> Freed(b, v))
  BY <1>4 DEF Inside, Freed
<1>6. Whole(b)
  BY <1>2, <1>3, <1>4, <1>5 DEF Whole
<1> QED BY <1>2, <1>4, <1>5, <1>6 DEF Live, Pl

(* The name of a constant may be taken away before it gets its vertex.     *)
LEMMA ReadsWithout ==
    ASSUME NEW c, NEW f, Promising(f), NEW P, P \subseteq f.assigns, NEW s \in P, s.op \in ValueOps,
           NEW X, Reads(c, f, P, X), NEW b, b = Without(c, s.lhs)
    PROVE  Reads(b, f, P, X)
<1>1. Whole(c) /\ s \in f.assigns /\ s.lhs \in Nets(f) /\ s.lhs \notin f.inputs /\ s.lhs \notin f.outputs
  BY NetFacts DEF Reads, Promising, OutputsByGates
<1>2. /\ Whole(b) /\ b.verts = c.verts /\ b.lost = c.lost
      /\ \A m : Live(b, m) <=> m # s.lhs /\ Live(c, m)
      /\ \A m : Live(b, m) => Pl(b, m) = Pl(c, m)
  <2>1. \A m : Live(b, m) => m \in DOMAIN b.names
    BY DEF Live
  <2> QED BY <1>1, <2>1, WithoutFacts
<1>3. ~Firm(f, P, s.lhs) /\ \A n \in Nets(f) : s.lhs # NotName(n)
  BY <1>1, NetFacts DEF Firm
<1>4. /\ \A X2, env, val : Fits(b, X2, env, val) <=> Fits(c, X2, env, val)
      /\ \A X2, S : Circ(b, X2, S) <=> Circ(c, X2, S)
  BY <1>2 DEF Fits, Circ
<1>5. \A x, A : Depends(c, X, x, A) <=> Depends(b, X, x, A)
  BY <1>4 DEF Depends
<1>6. \A x, y : Inverts(c, X, x, y) <=> Inverts(b, X, x, y)
  BY <1>4, <1>5 DEF Inverts
<1>7. \A n : Firm(f, P, n) /\ Live(c, n) => Live(b, n) /\ Pl(b, n) = Pl(c, n)
  BY <1>2, <1>3
<1>8. Settled(b, f, P) = Settled(c, f, P)
  BY <1>2, <1>7 DEF Settled
<1>9. \A n \in f.inputs : InputAt(b, n)
  BY <1>1, <1>2 DEF Reads, InputAt
<1>10. \A t \in P : t.op \notin ValueOps /\ t.lhs \in f.wires \cup f.outputs => Live(b, t.lhs)
  <2>1. \A t \in P : t.lhs = s.lhs => t = s
    BY <1>1 DEF Promising, Legal
  <2> QED BY <1>2, <2>1 DEF Reads
<1>11. \A x \in DOMAIN b.verts : b.verts[x].type = "output" => OutputAt(b, f, x)
  BY <1>1, <1>2 DEF Reads, OutputAt
<1>12. \A n \in Lhs(P) : Live(b, n) => Waits(b, f, X, n)
  BY <1>2 DEF Reads, Waits
<1>13. Inverters(b, f, X) /\ \A n \in Nets(f) : Live(b, NotName(n)) => Firm(f, P, n)
  <2> SUFFICES ASSUME NEW n \in Nets(f), Live(b, NotName(n))
               PROVE  Live(b, n) /\ Inverts(b, X, Pl(b, NotName(n)), Pl(b, n)) /\ Firm(f, P, n)
    BY DEF Inverters
  <2>1. Live(c, NotName(n)) /\ Pl(b, NotName(n)) = Pl(c, NotName(n))
    BY <1>2
  <2>2. Firm(f, P, n) /\ Live(c, n) /\ Inverts(c, X, Pl(c, NotName(n)), Pl(c, n))
    BY <2>1 DEF Reads, Inverters
  <2> QED BY <1>6, <1>7, <2>1, <2>2
<1>14. ASSUME NEW t \in f.assigns \ P PROVE Said(b, f, P, X, t)
  <2>1. Said(c, f, P, X, t)
    BY DEF Reads
  <2>2. Live(b, t.lhs) /\ Pl(b, t.lhs) = Pl(c, t.lhs)
    <3>1. t.lhs # s.lhs
      BY <1>1 DEF Promising, Legal
    <3> QED BY <1>2, <2>1, <3>1 DEF Said
  <2>3. \A i \in DOMAIN t.args : /\ Live(b, t.args[i].net) /\ Pl(b, t.args[i].net) = Pl(c, t.args[i].net)
                                 /\ Firm(f, P, t.args[i].net)
    BY <1>7, <2>1 DEF Said
  <2>4. Sources(b, t) = Sources(c, t) /\ \A val : Lits(b, val, t) = Lits(c, val, t)
    BY <2>3 DEF Sources, Lits
  <2>5. Computes(b, X, Pl(b, t.lhs), t)
    BY <1>2, <1>4, <2>1, <2>2, <2>3, <2>4 DEF Computes, Said
  <2>6. Depends(b, X, Pl(b, t.lhs), Sources(b, t))
    BY <1>5, <2>1, <2>2, <2>4 DEF Said
  <2> QED BY <2>2, <2>3, <2>5, <2>6 DEF Said
<1> QED BY <1>2, <1>5, <1>8, <1>9, <1>10, <1>11, <1>12, <1>13, <1>14 DEF Reads

LEMMA ConstantValue ==
    ASSUME NEW x, x.type = "constant", NEW env, NEW in
    PROVE  Value(x, env, in) = x.gate
BY DEF Value

LEMMA NewRecord ==
    ASSUME NEW c, Shaped(c), c.status = "ok", NEW type, NEW gate, NEW name
    PROVE  New(c, type, gate, name) =
             [graph |-> c.graph, names |-> c.names, verts |-> Append(c.verts, Vertex(type, gate, name)),
              kept |-> c.kept, at |-> <<c.graph, Len(c.verts) + 1>>, lost |-> c.lost, status |-> "ok"]
<1> DEFINE a == Append(c.verts, Vertex(type, gate, name))
           v == <<c.graph, Len(c.verts) + 1>>
           d == New(c, type, gate, name)
<1>1. d = [c EXCEPT !.verts = a, !.at = v]
  BY DEF New, After
<1> HIDE DEF a, v, d
<1>2. /\ Shaped(d) /\ d.graph = c.graph /\ d.names = c.names /\ d.verts = a /\ d.kept = c.kept
      /\ d.at = v /\ d.lost = c.lost /\ d.status = "ok"
  BY <1>1 DEF Shaped
<1>3. d = [graph |-> c.graph, names |-> c.names, verts |-> a, kept |-> c.kept, at |-> v,
           lost |-> c.lost, status |-> "ok"]
  BY <1>2 DEF Shaped
<1> QED BY <1>3 DEF a, v, d

LEMMA BindRecord ==
    ASSUME NEW c, Shaped(c), c.status = "ok", NEW name
    PROVE  Bind(c, name) =
             [graph |-> c.graph, names |-> Entered(c.names, name, c.at), verts |-> c.verts,
              kept |-> c.kept, at |-> c.at, lost |-> c.lost, status |-> "ok"]
<1> DEFINE t == Entered(c.names, name, c.at)
<1>1. Bind(c, name) = [c EXCEPT !.names = t]
  BY DEF Bind, After
<1> HIDE DEF t
<1>2. [c EXCEPT !.names = t] =
        [graph |-> c.graph, names |-> t, verts |-> c.verts, kept |-> c.kept, at |-> c.at,
         lost |-> c.lost, status |-> "ok"]
  BY DEF Shaped
<1> QED BY <1>1, <1>2 DEF t

LEMMA ParameterWithout ==
    ASSUME NEW c, Whole(c), NEW s, NEW b, b = Without(c, s.lhs)
    PROVE  Parameter(c, s) = Parameter(b, s)
<1> DEFINE n == s.lhs
           gate == ParseConstValue(s.value)
           a == Append(c.verts, Vertex("constant", gate, n))
           v == <<c.graph, Len(c.verts) + 1>>
           e == New(c, "constant", gate, n)
           g == New(b, "constant", gate, n)
           t == [m \in DOMAIN c.names \ {n} |-> c.names[m]]
<1>1. Entered(c.names, n, v) = Entered(t, n, v)
  BY DEF Entered
<1>2. /\ Shaped(c) /\ c.status = "ok" /\ Shaped(b)
      /\ b.graph = c.graph /\ b.names = t /\ b.verts = c.verts /\ b.kept = c.kept
      /\ b.lost = c.lost /\ b.status = "ok"
  <2>1. b = [c EXCEPT !.names = t]
    BY DEF Without
  <2> HIDE DEF t
  <2> QED BY <2>1 DEF Whole, Shaped
<1> HIDE DEF n, gate, t
<1>3. e = [graph |-> c.graph, names |-> c.names, verts |-> a, kept |-> c.kept,
           at |-> v, lost |-> c.lost, status |-> "ok"]
  BY <1>2, NewRecord
<1>4. g = [graph |-> c.graph, names |-> t, verts |-> a, kept |-> c.kept,
           at |-> v, lost |-> c.lost, status |-> "ok"]
  <2>1. g = [graph |-> b.graph, names |-> b.names, verts |-> Append(b.verts, Vertex("constant", gate, n)),
             kept |-> b.kept, at |-> <<b.graph, Len(b.verts) + 1>>, lost |-> b.lost, status |-> "ok"]
    BY <1>2, NewRecord
  <2> HIDE DEF g
  <2> QED BY <1>2, <2>1
<1> HIDE DEF e, g, a, v
<1>5. /\ Shaped(e) /\ Shaped(g) /\ e.status = "ok" /\ g.status = "ok"
      /\ Entered(e.names, n, e.at) = Entered(g.names, n, g.at)
      /\ e.graph = g.graph /\ e.verts = g.verts /\ e.kept = g.kept /\ e.at = g.at /\ e.lost = g.lost
  BY <1>1, <1>3, <1>4 DEF Shaped
<1>6. Bind(e, n) = Bind(g, n)
  BY <1>5, BindRecord
<1> QED BY <1>6 DEF Parameter, n, gate, e, g

(* on_parameter, and on_assign of a literal: the name moves to a new       *)
(* constant.                                                               *)
LEMMA ValueReads ==
    ASSUME NEW c, NEW f, Promising(f), NEW P, P \subseteq f.assigns, NEW s \in P, s.op \in ValueOps,
           NEW X, Reads(c, f, P, X), NEW d, d = Parameter(c, s) \/ d = Constant(c, s), d.status = "ok"
    PROVE  Reads(d, f, P \ {s}, X)
<1> DEFINE b == Without(c, s.lhs)
           gate == ParseConstValue(s.value)
           n == s.lhs
<1>1. /\ Whole(c) /\ Reads(b, f, P, X) /\ Whole(b) /\ n \notin DOMAIN b.names
      /\ X \subseteq DOMAIN b.verts
  <2>1. Whole(c)
    BY DEF Reads
  <2>2. Reads(b, f, P, X)
    BY ReadsWithout
  <2> QED BY <2>1, <2>2, WithoutFacts DEF Reads
<1>2. d = Parameter(b, s)
  <2>1. Parameter(c, s) = Parameter(b, s)
    BY <1>1, ParameterWithout
  <2>2. Ended(c, "error").status = "error"
    BY <1>1 DEF Ended, Whole, Shaped
  <2> QED BY <2>1, <2>2 DEF Constant
<1>3. /\ gate = Literal(s.value) /\ gate \in Bits /\ gate \in Gates
      /\ n \in Names /\ "constant" \in Types /\ DOMAIN s.args = {}
  <2>1. s \in f.assigns /\ n \in Names /\ Plain(s.value) /\ WellFormed(f)
    BY NetFacts DEF Promising, Legal
  <2>2. /\ s.value.digits \in Seq(STRING) \ {<<>>}
        /\ s.args \in Seq([net : STRING, not : BOOLEAN])
        /\ Len(s.args) = 0
    <3>1. s.value.digits \in Seq(STRING) \ {<<>>} /\ s.args \in Seq([net : STRING, not : BOOLEAN])
      BY <2>1 DEF WellFormed
    <3>2. Len(s.args) \in CASE s.op \in ValueOps -> {0}
                           [] s.op = "Assign"   -> {1}
                           [] s.op = "Maj"      -> {3}
                           [] s.op \in {"And", "Or", "Xor"}    -> {2, 3}
                           [] s.op \in {"Nand", "Nor", "Xnor"} -> {2}
      BY <2>1 DEF WellFormed
    <3>3. Len(s.args) \in {0}
      BY <3>2 DEF ValueOps
    <3> QED BY <3>1, <3>3
  <2>3. gate = Literal(s.value) /\ gate \in Bits
    BY <2>1, <2>2, LiteralIsRead
  <2>4. DOMAIN s.args = {}
    BY <2>2
  <2> QED BY <2>1, <2>3, <2>4 DEF Bits, Gates, Types
<1> DEFINE new == New(b, "constant", gate, n)
<1>4. d = Bind(new, n)
  BY <1>2 DEF Parameter
<1> HIDE DEF gate, n, b
<1> DEFINE p == new.at[2]
<1>5. /\ Ext(b, new, {}, {}) /\ new.names = b.names /\ Inside(new, new.at)
      /\ DOMAIN new.verts = DOMAIN b.verts \cup {p} /\ p \notin DOMAIN b.verts
      /\ new.verts[p] = Vertex("constant", gate, n)
  <2>1. "constant" # "output"
    OBVIOUS
  <2> HIDE DEF new
  <2>2. Sprouted(b, new, "constant", gate, n)
    BY <1>1, <1>3, <2>1, NewEffect DEF new
  <2> QED BY <2>2 DEF Sprouted
<1> HIDE DEF new
<1>6. /\ Ext(new, d, {}, {n}) /\ d.verts = new.verts /\ d.names[n] = new.at /\ Live(d, n)
  <2>1. Whole(new)
    BY <1>5 DEF Ext
  <2>2. Named(new, d, n)
    BY <1>1, <1>4, <1>5, <2>1, BindEffect
  <2> QED BY <2>2 DEF Named
<1>7. Pl(d, n) = p /\ n = s.lhs
  BY <1>6 DEF Pl, n
<1> HIDE DEF p
<1>8. Ext(b, d, {}, {n}) /\ Ext(b, d, {p}, Made(s))
  <2>1. Ext(b, d, {}, {n})
    BY <1>5, <1>6, ExtTwice
  <2>2. {n} \subseteq Made(s) /\ {} \subseteq {p}
    BY DEF Made, n
  <2> QED BY <2>1, <2>2, ExtMore
<1>9. X = X \ {p} /\ p \notin X /\ p \in DOMAIN d.verts
  BY <1>1, <1>5, <1>6
<1>10. /\ d.verts[p].type = "constant" /\ d.verts[p].gate = gate /\ Range(d.verts[p].ins) = {}
  BY <1>5, <1>6 DEF Vertex, Range
<1>11. Depends(d, X, p, Sources(d, s))
  BY <1>9, <1>10, DependsOnDrivers
<1>12. Computes(d, X, p, s)
  <2> SUFFICES ASSUME NEW env, NEW val, Fits(d, X, env, val) PROVE val[p] = Literal(s.value)
    BY DEF Computes
  <2> DEFINE x == d.verts[p]
             in == At(val, x.ins)
  <2>1. val[p] = Value(d.verts[p], env, At(val, d.verts[p].ins))
    BY <1>9 DEF Fits
  <2>2. x.type = "constant" /\ x.gate = gate
    BY <1>10
  <2> HIDE DEF x, in
  <2>3. Value(x, env, in) = x.gate
    BY <2>2, ConstantValue
  <2> QED BY <1>3, <2>1, <2>2, <2>3 DEF x, in
<1>13. Inverters(d, f, X)
  <2>1. \A m \in Nets(f) : NotName(m) \notin {n}
    <3>1. n \in Nets(f)
      BY NetFacts DEF n
    <3> QED BY <3>1, NetFacts
  <2>2. {} \subseteq X /\ X \cap DOMAIN b.verts \subseteq X /\ Inverters(b, f, X)
    BY <1>1 DEF Reads
  <2> QED BY <1>8, <2>1, <2>2, InvertersStay
<1>14. Done(b, d, f, X, s, X)
  <2>1. DOMAIN d.verts \ DOMAIN b.verts = {p}
    BY <1>5, <1>6
  <2> QED BY <1>5, <1>6, <1>7, <1>8, <1>9, <1>11, <1>12, <1>13, <2>1 DEF Done
<1>15. Apt(b, f, P, s)
  BY <1>3 DEF Apt
<1> QED BY <1>1, <1>14, <1>15, StatementKeeps

-----------------------------------------------------------------------------
(* Gates.                                                                  *)

\* v has been connected to the first operands of s.
Partly(c, X, s, v, ops) ==
    /\ Wired(c, v, ops)
    /\ \A i \in 1..Len(ops) : Stands(c, X, ops[i], s.args[i])

\* An operand s has in the graph.
Operand(c, f, s, i) == i \in DOMAIN s.args /\ s.args[i].net \in Nets(f) /\ Live(c, s.args[i].net)

\* From c to d the vertex v has been connected to n operands of s.
Connected(c, d, f, X, s, v, n) ==
    /\ Leads(c, d, f, X, {v[2]}, Sources(c, s), Made(s))
    /\ d.verts[v[2]].gate = c.verts[v[2]].gate
    /\ Inside(d, v)
    /\ \E ops : Partly(d, X, s, v[2], ops) /\ Len(ops) = n

LEMMA StandsStays ==
    ASSUME NEW c, NEW d, NEW T, NEW N, Ext(c, d, T, N), NEW X, T \subseteq X,
           NEW Y, Y \cap DOMAIN c.verts \subseteq X, NEW x, NEW arg, Stands(c, X, x, arg)
    PROVE  Stands(d, Y, x, arg)
BY StaysTrue

LEMMA ConnectNext ==
    ASSUME NEW c, NEW d, NEW f, Promising(f), NEW X, X \subseteq DOMAIN c.verts, NEW s,
           NEW v, v[2] \in X, NEW n \in Nat, Connected(c, d, f, X, s, v, n),
           NEW i, i = n + 1, Operand(c, f, s, i),
           NEW e, e = Connect(d, s.args[i], v), e.status = "ok"
    PROVE  Connected(c, e, f, X, s, v, i)
<1> DEFINE arg == s.args[i]
           x == RightHS(d, arg).at[2]
           A == Sources(c, s)
           N == Made(s)
           p == v[2]
<1>1. /\ Whole(d) /\ Inverters(d, f, X) /\ Ext(c, d, {p}, N) /\ DOMAIN c.verts \subseteq DOMAIN d.verts
      /\ Leads(c, d, f, X, {p}, A, N) /\ Inside(d, v) /\ d.verts[p].gate = c.verts[p].gate
  BY DEF Leads, Ext, Connected
<1>2. PICK ops : Partly(d, X, s, p, ops) /\ Len(ops) = n
  BY DEF Connected
<1>3. /\ arg.net \in Nets(f) /\ d.names[arg.net][2] \in A /\ NotName(arg.net) \in N
  <2>1. Pl(d, arg.net) = Pl(c, arg.net)
    BY <1>1, LiveStays DEF Operand
  <2> QED BY <2>1 DEF Operand, Sources, Made, Pl
<1>4. X \subseteq DOMAIN d.verts /\ e = Connect(d, arg, v) /\ p \in X
  BY <1>1
<1> HIDE DEF arg, A, N
<1>5. Joined(d, e, f, X, v[2], arg, x, A, N)
  <2>1. x = RightHS(d, arg).at[2]
    OBVIOUS
  <2> HIDE DEF x
  <2> QED BY <1>1, <1>3, <1>4, <2>1, ConnectLeads
<1> HIDE DEF x, p
<1>6. /\ Leads(d, e, f, X, {p}, A, N) /\ Stands(e, X, x, arg) /\ e.verts[p].gate = d.verts[p].gate
      /\ \A l : Wired(d, p, l) => Wired(e, p, Append(l, x))
  BY <1>5 DEF Joined, p
<1>7. Leads(c, e, f, X, {p}, A, N)
  <2>1. {p} \subseteq {p} /\ {p} \cap DOMAIN c.verts \subseteq {p} /\ {p} \subseteq X
    BY <1>4
  <2> QED BY <1>1, <1>6, <2>1, LeadsTwice
<1>8. Ext(d, e, {p}, N)
  BY <1>6 DEF Leads
<1>9. Inside(e, v)
  BY <1>1, <1>8, LiveStays
<1> DEFINE l == Append(ops, x)
<1>10. ops \in Seq(Nat) /\ Wired(d, p, ops)
  BY <1>1, <1>2, WiredFacts DEF Partly
<1>11. /\ Wired(e, p, l) /\ Len(l) = i /\ l[i] = x
       /\ \A j \in 1..Len(l) : j # i => j \in 1..Len(ops) /\ l[j] = ops[j]
  BY <1>2, <1>6, <1>10
<1> HIDE DEF l
<1>12. ASSUME NEW j \in 1..Len(l) PROVE Stands(e, X, l[j], s.args[j])
  <2>1. CASE j = i
    BY <1>6, <1>11, <2>1 DEF arg
  <2>2. CASE j # i
    <3> DEFINE y == ops[j]
               b == s.args[j]
    <3>1. j \in 1..Len(ops) /\ l[j] = y
      BY <1>11, <1>12, <2>2
    <3>2. Stands(d, X, y, b)
      BY <1>2, <3>1 DEF Partly
    <3>3. {p} \subseteq X /\ X \cap DOMAIN d.verts \subseteq X
      BY <1>4
    <3> HIDE DEF y, b
    <3>4. Stands(e, X, y, b)
      BY <1>8, <3>2, <3>3, StandsStays
    <3> QED BY <3>1, <3>4 DEF b
  <2> QED BY <2>1, <2>2
<1>13. Partly(e, X, s, p, l) /\ Len(l) = i
  BY <1>11, <1>12 DEF Partly
<1> QED BY <1>1, <1>6, <1>7, <1>9, <1>13 DEF A, N, p, Connected

\* All operands of s are connected to v.
Fed(c, s, v) ==
    LET two == Connect(Connect(c, s.args[1], v), s.args[2], v)
    IN  IF Len(s.args) = 3 THEN Connect(two, s.args[3], v) ELSE two

LEMMA ConnectsAll ==
    ASSUME NEW c, Whole(c), NEW f, Promising(f), NEW X, X \subseteq DOMAIN c.verts, Inverters(c, f, X),
           NEW s, Takes(s.op, Len(s.args)), \A i \in 1..Len(s.args) : Operand(c, f, s, i),
           NEW v, Inside(c, v), v[2] \in X, Wired(c, v[2], <<>>),
           NEW d, d = Fed(c, s, v), d.status = "ok"
    PROVE  Connected(c, d, f, X, s, v, Len(s.args))
<1> DEFINE one == Connect(c, s.args[1], v)
           two == Connect(one, s.args[2], v)
           three == Connect(two, s.args[3], v)
<1>1. d = IF Len(s.args) = 3 THEN three ELSE two
  BY DEF Fed
<1>2. two.status = "ok" /\ one.status = "ok"
  <2> HIDE DEF one
  <2>1. two.status = "ok"
    <3> HIDE DEF two
    <3> QED BY <1>1, OkBefore
  <2> QED BY <2>1, OkBefore
<1>3. 1 \in 1..Len(s.args) /\ 2 \in 1..Len(s.args) /\ (Len(s.args) = 3 => 3 \in 1..Len(s.args))
  <2>1. Len(s.args) \in {2, 3}
    BY DEF Takes
  <2> HIDE DEF one, two, three
  <2>2. CASE Len(s.args) = 2
    BY <2>2
  <2>3. CASE Len(s.args) = 3
    BY <2>3
  <2> QED BY <2>1, <2>2, <2>3
<1>4. Connected(c, c, f, X, s, v, 0)
  <2>1. Leads(c, c, f, X, {}, Sources(c, s), Made(s))
    BY LeadsNowhere
  <2>2. Leads(c, c, f, X, {v[2]}, Sources(c, s), Made(s))
    BY <2>1, ExtSame DEF Leads
  <2>3. Partly(c, X, s, v[2], <<>>) /\ Len(<<>>) = 0
    BY DEF Partly
  <2> QED BY <2>2, <2>3 DEF Connected
<1>5. Connected(c, one, f, X, s, v, 1)
  <2>1. 0 \in Nat /\ 1 = 0 + 1 /\ Operand(c, f, s, 1) /\ one = Connect(c, s.args[1], v)
    BY <1>3
  <2> HIDE DEF one
  <2> QED BY <1>2, <1>4, <2>1, ConnectNext
<1>6. Connected(c, two, f, X, s, v, 2)
  <2>1. 1 \in Nat /\ 2 = 1 + 1 /\ Operand(c, f, s, 2) /\ two = Connect(one, s.args[2], v)
    BY <1>3
  <2> HIDE DEF one, two
  <2> QED BY <1>2, <1>5, <2>1, ConnectNext
<1>7. CASE Len(s.args) = 3
  <2>1. 2 \in Nat /\ 3 = 2 + 1 /\ Operand(c, f, s, 3) /\ three = Connect(two, s.args[3], v) /\ three.status = "ok"
    BY <1>1, <1>3, <1>7
  <2> HIDE DEF two, three
  <2>2. Connected(c, three, f, X, s, v, 3)
    BY <1>6, <2>1, ConnectNext
  <2> QED BY <1>1, <1>7, <2>2
<1>8. CASE Len(s.args) = 2
  <2> HIDE DEF one, two, three
  <2> QED BY <1>1, <1>6, <1>8
<1> QED BY <1>7, <1>8 DEF Takes

LEMMA ArgsFacts ==
    ASSUME NEW f, Promising(f), NEW s \in f.assigns
    PROVE  /\ s.args \in Seq([net : STRING, not : BOOLEAN]) /\ DOMAIN s.args = 1..Len(s.args)
           /\ s.op \in ElemOps \cup ValueOps \cup {"Assign", "Maj"}
           /\ s.op \in ElemOps => Takes(s.op, Len(s.args))
           /\ s.op = "Assign" => Len(s.args) = 1
           /\ s.op = "Maj" => Len(s.args) = 3
           /\ s.lhs \in Nets(f)
           /\ \A i \in DOMAIN s.args : s.args[i].net \in Nets(f)
<1>1. /\ s.args \in Seq([net : STRING, not : BOOLEAN])
      /\ s.op \in ElemOps \cup ValueOps \cup {"Assign", "Maj"}
      /\ Len(s.args) \in CASE s.op \in ValueOps -> {0}
                           [] s.op = "Assign"   -> {1}
                           [] s.op = "Maj"      -> {3}
                           [] s.op \in {"And", "Or", "Xor"}    -> {2, 3}
                           [] s.op \in {"Nand", "Nor", "Xnor"} -> {2}
  BY NetFacts DEF Promising, WellFormed
<1>2. s.op \in ElemOps => Takes(s.op, Len(s.args))
  <2>1. CASE s.op \in {"And", "Or", "Xor"}
    BY <1>1, <2>1 DEF ElemOps, ValueOps, Takes
  <2>2. CASE s.op \in {"Nand", "Nor", "Xnor"}
    <3>1. Len(s.args) \in {2}
      BY <1>1, <2>2 DEF ValueOps
    <3> QED BY <3>1 DEF Takes
  <2> QED BY <2>1, <2>2 DEF ElemOps
<1>3. s.op = "Assign" => Len(s.args) = 1
  BY <1>1 DEF ValueOps
<1>4. s.op = "Maj" => Len(s.args) = 3
  BY <1>1 DEF ValueOps
<1>5. s.lhs \in Nets(f) /\ \A i \in DOMAIN s.args : s.args[i].net \in Nets(f)
  BY NetFacts DEF Promising, Legal, Nets
<1> QED BY <1>1, <1>2, <1>3, <1>4, <1>5

(* When fewer vertices are left out.                                       *)
LEMMA Closes ==
    ASSUME NEW c, NEW d, NEW f, NEW X, NEW T, NEW A, NEW N, Leads(c, d, f, X, T, A, N),
           NEW Y, Y \subseteq X
    PROVE  /\ Inverters(d, f, Y)
           /\ \A k \in DOMAIN d.verts \ (DOMAIN c.verts \cup X) : Depends(d, Y, k, A)
<1>1. Ext(d, d, {}, {}) /\ {} \subseteq X /\ Y \cap DOMAIN d.verts \subseteq X
  BY ExtSame DEF Leads, Ext
<1>2. Inverters(d, f, Y)
  <2>1. Inverters(d, f, X) /\ \A n \in Nets(f) : NotName(n) \notin {}
    BY DEF Leads
  <2> QED BY <1>1, <2>1, InvertersStay
<1>3. ASSUME NEW k \in DOMAIN d.verts \ (DOMAIN c.verts \cup X) PROVE Depends(d, Y, k, A)
  <2>1. Depends(d, X, k, A)
    BY DEF Leads, Sprung
  <2> QED BY <1>1, <2>1, StaysTrue
<1> QED BY <1>2, <1>3

LEMMA SourcesStay ==
    ASSUME NEW c, NEW d, NEW T, NEW N, Ext(c, d, T, N), NEW s,
           \A i \in DOMAIN s.args : Live(c, s.args[i].net)
    PROVE  Sources(d, s) = Sources(c, s)
BY LiveStays DEF Sources

\* The vertex q is the gate s says, in a graph where only Y have no drivers.
Gated(c, d, f, Z, Y, T, s, q) ==
    /\ Leads(c, d, f, Z, T, Sources(c, s), Made(s))
    /\ Inverters(d, f, Y)
    /\ \A k \in DOMAIN d.verts \ (DOMAIN c.verts \cup Z) : Depends(d, Y, k, Sources(d, s))
    /\ Computes(d, Y, q, s)
    /\ Depends(d, Y, q, Sources(d, s))

(* A gate of the right type is wired.                                      *)
LEMMA WiresGate ==
    ASSUME NEW c, NEW f, Promising(f), NEW s \in f.assigns, s.op \in ElemOps,
           \A i \in DOMAIN s.args : Live(c, s.args[i].net),
           NEW t, NEW Z, NEW T, Leads(c, t, f, Z, T, Sources(c, s), Made(s)), Z \subseteq DOMAIN t.verts,
           NEW v, Inside(t, v), v[2] \in Z, {v[2]} \cap DOMAIN c.verts \subseteq T,
           t.verts[v[2]].type = "gate", t.verts[v[2]].gate = s.op, t.verts[v[2]].ins = <<>>,
           NEW d, d = Fed(t, s, v), d.status = "ok",
           NEW Y, Y \subseteq Z, v[2] \notin Y
    PROVE  Gated(c, d, f, Z, Y, T, s, v[2]) /\ Ext(t, d, {v[2]}, Made(s))
<1> DEFINE q == v[2]
<1>1. /\ Ext(c, t, T, Made(s)) /\ Whole(t) /\ Inverters(t, f, Z)
  BY DEF Leads, Ext
<1>2. /\ s.args \in Seq([net : STRING, not : BOOLEAN]) /\ DOMAIN s.args = 1..Len(s.args)
      /\ Takes(s.op, Len(s.args))
      /\ \A i \in DOMAIN s.args : s.args[i].net \in Nets(f)
  BY ArgsFacts
<1>3. \A i \in 1..Len(s.args) : Operand(t, f, s, i)
  BY <1>1, <1>2, LiveStays DEF Operand
<1>4. Wired(t, v[2], <<>>)
  BY DEF Wired, Inside
<1>5. Connected(t, d, f, Z, s, v, Len(s.args))
  BY <1>1, <1>2, <1>3, <1>4, ConnectsAll
<1>6. /\ Leads(t, d, f, Z, {q}, Sources(t, s), Made(s))
      /\ d.verts[q].gate = t.verts[q].gate /\ Inside(d, v)
  BY <1>5 DEF Connected
<1>7. PICK ops : Partly(d, Z, s, q, ops) /\ Len(ops) = Len(s.args)
  BY <1>5 DEF Connected
<1>8. Ext(t, d, {q}, Made(s)) /\ Whole(d)
  <2>1. Ext(t, d, {q}, Made(s))
    BY <1>6 DEF Leads
  <2> QED BY <2>1 DEF Ext
<1>9. Sources(t, s) = Sources(c, s) /\ Sources(d, s) = Sources(c, s)
  <2>1. Sources(t, s) = Sources(c, s)
    BY <1>1, SourcesStay
  <2>2. \A i \in DOMAIN s.args : Live(t, s.args[i].net)
    BY <1>1, LiveStays
  <2>3. Sources(d, s) = Sources(t, s)
    BY <1>8, <2>2, SourcesStay
  <2> QED BY <2>1, <2>3
<1>10. Leads(c, d, f, Z, T, Sources(c, s), Made(s))
  <2>1. T \subseteq T /\ {q} \cap DOMAIN c.verts \subseteq T /\ {q} \subseteq Z
    OBVIOUS
  <2>2. Leads(t, d, f, Z, {q}, Sources(c, s), Made(s))
    BY <1>6, <1>9
  <2> QED BY <2>1, <2>2, LeadsTwice
<1>11. /\ Inverters(d, f, Y)
       /\ \A k \in DOMAIN d.verts \ (DOMAIN c.verts \cup Z) : Depends(d, Y, k, Sources(d, s))
  BY <1>9, <1>10, Closes
<1>12. Wired(d, q, ops) /\ ops \in Seq(Nat) /\ Operands(d, Y, s, ops)
  <2>1. Wired(d, q, ops) /\ ops \in Seq(Nat)
    BY <1>7, <1>8, WiredFacts DEF Partly
  <2>2. ASSUME NEW i \in 1..Len(ops) PROVE Stands(d, Y, ops[i], s.args[i])
    <3> DEFINE x == ops[i]
               arg == s.args[i]
    <3>1. Stands(d, Z, x, arg) /\ Ext(d, d, {}, {}) /\ {} \subseteq Z /\ Y \cap DOMAIN d.verts \subseteq Z
      BY <1>7, <1>8, <2>2, ExtSame DEF Partly
    <3> HIDE DEF x, arg
    <3>2. Stands(d, Y, x, arg)
      BY <3>1, StandsStays
    <3> QED BY <3>2 DEF x, arg
  <2> QED BY <1>7, <2>1, <2>2 DEF Operands
<1>13. d.verts[q].type = "gate" /\ d.verts[q].gate = s.op
  <2>1. q \in DOMAIN t.verts
    BY DEF Inside
  <2>2. d.verts[q].type = t.verts[q].type
    BY <1>8, <2>1 DEF Ext
  <2> QED BY <1>6, <2>2
<1>14. Computes(d, Y, q, s) /\ Depends(d, Y, q, Sources(d, s))
  <2>1. q \notin Y /\ Takes(s.op, Len(ops))
    BY <1>2, <1>7
  <2> HIDE DEF q
  <2> QED BY <1>2, <1>8, <1>12, <1>13, <2>1, GateDone
<1> QED BY <1>8, <1>10, <1>11, <1>14 DEF Gated

\* An operator whose net is declared as a wire: its vertex becomes the gate.
LEMMA ElemOnWire ==
    ASSUME NEW c, NEW f, Promising(f), NEW P, P \subseteq f.assigns, NEW s \in P, s.op \in ElemOps,
           NEW X, Reads(c, f, P, X), Apt(c, f, P, s), Live(c, s.lhs), Waits(c, f, X, s.lhs),
           c.verts[Pl(c, s.lhs)].type = "gate",
           NEW d, d = Elem(c, s), d.status = "ok"
    PROVE  \E Y : Reads(d, f, P \ {s}, Y)
<1> DEFINE n == s.lhs
           v == c.names[n]
           left == [c EXCEPT !.at = v]
           t == SetGateIfDefault(left, v, s.op, TRUE)
           Y == X \ {v[2]}
<1>1. /\ Whole(c) /\ Shaped(c) /\ c.status = "ok" /\ X \subseteq DOMAIN c.verts /\ Inverters(c, f, X)
      /\ n \in DOMAIN c.names /\ Inside(c, v) /\ v[2] \in DOMAIN c.verts /\ v[2] \in X
      /\ c.verts[v[2]].type = "gate" /\ c.verts[v[2]].gate = "Default" /\ c.verts[v[2]].ins = <<>>
  <2>1. Whole(c) /\ X \subseteq DOMAIN c.verts /\ Inverters(c, f, X)
    BY DEF Reads
  <2>2. n \in DOMAIN c.names /\ Inside(c, v) /\ v[2] = Pl(c, n)
    BY DEF Live, Pl
  <2>3. v[2] \in X /\ c.verts[v[2]].type = "gate" /\ c.verts[v[2]].gate = "Default"
    BY <2>2 DEF Waits
  <2>4. c.verts[v[2]].ins = <<>>
    BY <2>3 DEF Reads
  <2> QED BY <2>1, <2>2, <2>3, <2>4 DEF Whole, Inside
<1>2. /\ left.names = c.names /\ left.verts = c.verts /\ left.graph = c.graph /\ left.at = v
      /\ left.status = "ok" /\ left.kept = c.kept
  BY <1>1 DEF Shaped
<1>3. /\ LeftHS(c, n) = left
      /\ d = Fed(t, s, v)
  <2>1. LeftHS(c, n) = left
    BY <1>1 DEF LeftHS, Lookup, After, Freed, Vert, Inside
  <2>2. ~Freed(left, v) /\ Vert(left, v).type = "gate" /\ Vert(left, v).gate = "Default"
    BY <1>1, <1>2 DEF Freed, Vert, Inside
  <2>3. left.at = v
    BY <1>2
  <2> HIDE DEF left, v
  <2> QED BY <1>2, <2>1, <2>2, <2>3 DEF Elem, After, Fed
<1> HIDE DEF left
<1>4. Ext(c, left, {}, {}) /\ Whole(left) /\ Inside(left, v)
  <2>1. Ext(c, left, {}, {})
    BY <1>1, AtEffect DEF left
  <2> QED BY <1>1, <1>2, <2>1 DEF Ext, Inside
<1> HIDE DEF t, v
<1>5. /\ Ext(left, t, {v[2]}, {}) /\ DOMAIN t.verts = DOMAIN left.verts
      /\ t.verts[v[2]].gate = s.op /\ t.verts[v[2]].ins = <<>>
  <2>1. s.op \in Gates
    <3>1. ElemOps \subseteq Gates
      BY DEF ElemOps, Gates
    <3> QED BY <3>1
  <2>2. left.verts[v[2]].type = "gate" /\ left.verts[v[2]].gate = "Default" /\ left.verts[v[2]].ins = <<>>
    BY <1>1, <1>2
  <2>3. t = SetGateIfDefault(left, v, s.op, TRUE)
    BY DEF t
  <2>4. /\ Ext(left, t, {v[2]}, {}) /\ DOMAIN t.verts = DOMAIN left.verts
        /\ t.verts[v[2]].gate = s.op /\ t.verts[v[2]].ins = left.verts[v[2]].ins
    <3>1. Retyped(left, t, v[2], s.op)
      BY <1>4, <2>1, <2>2, <2>3, SetGateEffect
    <3> QED BY <3>1 DEF Retyped
  <2> QED BY <2>2, <2>4
<1>6. Ext(c, t, {v[2]}, {})
  BY <1>4, <1>5, ExtTwice
<1>7. Leads(c, t, f, X, {v[2]}, Sources(c, s), Made(s))
  <2>1. {v[2]} \subseteq X /\ DOMAIN t.verts = DOMAIN c.verts /\ {} \subseteq Made(s)
        /\ \A m \in Nets(f) : NotName(m) \notin {}
    BY <1>1, <1>2, <1>5
  <2> QED BY <1>1, <1>6, <2>1, LeadsPlain
<1>8. /\ Inside(t, v) /\ X \subseteq DOMAIN t.verts /\ t.verts[v[2]].type = "gate"
  <2>1. Inside(t, v)
    BY <1>1, <1>6, LiveStays
  <2>2. t.verts[v[2]].type = c.verts[v[2]].type
    BY <1>1, <1>6 DEF Ext
  <2> QED BY <1>1, <1>2, <1>5, <2>1, <2>2
<1>9. s \in f.assigns /\ \A i \in DOMAIN s.args : Live(c, s.args[i].net)
  BY DEF Apt
<1>10. Gated(c, d, f, X, Y, {v[2]}, s, v[2])
  <2>1. Y \subseteq X /\ v[2] \notin Y /\ {v[2]} \cap DOMAIN c.verts \subseteq {v[2]}
    OBVIOUS
  <2> HIDE DEF Y
  <2> QED BY <1>1, <1>3, <1>5, <1>7, <1>8, <1>9, <2>1, WiresGate
<1>11. Leads(c, d, f, X, {v[2]}, Sources(c, s), Made(s)) /\ Ext(c, d, {v[2]}, Made(s))
  BY <1>10 DEF Gated, Leads
<1>12. Live(d, n) /\ Pl(d, n) = v[2]
  BY <1>11, LiveStays DEF Pl, v
<1>13. Done(c, d, f, X, s, Y)
  <2>1. DOMAIN c.verts \cup X = DOMAIN c.verts
    BY <1>1
  <2> HIDE DEF Y
  <2>2. /\ Inverters(d, f, Y) /\ Computes(d, Y, v[2], s) /\ Depends(d, Y, v[2], Sources(d, s))
        /\ \A k \in DOMAIN d.verts \ DOMAIN c.verts : Depends(d, Y, k, Sources(d, s))
    BY <1>10, <2>1 DEF Gated
  <2> QED BY <1>11, <1>12, <2>2 DEF Done, Y
<1>14. Reads(d, f, P \ {s}, Y)
  <2> HIDE DEF Y
  <2> QED BY <1>13, StatementKeeps
<1> QED BY <1>14

(* An output takes over the value of its one driver.                       *)
Relayed(d, Y, o, x) ==
    /\ \A env, val : Fits(d, Y, env, val) => val[o] = val[x]
    /\ Depends(d, Y, o, {x})

LEMMA Relays ==
    ASSUME NEW d, Whole(d), NEW Y, NEW o \in DOMAIN d.verts, o \notin Y, d.verts[o].type = "output",
           NEW x, d.verts[o].ins = <<x>>
    PROVE  Relayed(d, Y, o, x)
<1>1. ASSUME NEW env, NEW val, Fits(d, Y, env, val) PROVE val[o] = val[x]
  BY <1>1, SingleValue
<1>2. Depends(d, Y, o, {x})
  <2>1. Range(d.verts[o].ins) \subseteq {x}
    BY DEF Range
  <2> QED BY <2>1, DependsOnDrivers
<1> QED BY <1>1, <1>2 DEF Relayed

\* The output o has got a gate v of its own, with a name.
Opened(c, d, o, v, name) ==
    /\ Ext(c, d, {o}, {name})
    /\ DOMAIN d.verts = DOMAIN c.verts \cup {v[2]} /\ v[2] \notin DOMAIN c.verts
    /\ Inside(d, v) /\ d.at = v
    /\ d.verts[v[2]].type = "gate" /\ d.verts[v[2]].gate = "Default" /\ d.verts[v[2]].ins = <<>>
    /\ d.verts[o].ins = <<v[2]>>

LEMMA OutputOpens ==
    ASSUME NEW c, Whole(c), NEW w, Inside(c, w), NEW o, o = w[2], c.verts[o].ins = <<>>,
           NEW name \in Names, name \notin DOMAIN c.names,
           NEW g, g = New(c, "gate", "Default", name), NEW v, v = g.at,
           NEW e, e = AddEdge(g, v, w), NEW d, d = Bind(e, name), d.status = "ok"
    PROVE  Opened(c, d, o, v, name)
<1> DEFINE q == v[2]
<1>1. e.status = "ok"
  BY OkBefore
<1>2. /\ Ext(c, g, {}, {}) /\ g.names = c.names /\ Inside(g, v)
      /\ DOMAIN g.verts = DOMAIN c.verts \cup {q} /\ q \notin DOMAIN c.verts
      /\ g.verts[q] = Vertex("gate", "Default", name)
  <2>1. "gate" \in Types /\ "gate" # "output" /\ "Default" \in Gates
    BY DEF Types, Gates
  <2>2. Sprouted(c, g, "gate", "Default", name)
    BY <2>1, NewEffect
  <2> QED BY <2>2 DEF Sprouted
<1>3. /\ Whole(g) /\ Held(g, v) /\ Held(g, w)
      /\ g.verts[o].ins = <<>> /\ o \in DOMAIN g.verts /\ o # q
      /\ g.verts[q].type = "gate" /\ g.verts[q].gate = "Default" /\ g.verts[q].ins = <<>>
  <2>1. Inside(g, w) /\ o \in DOMAIN c.verts
    BY <1>2, LiveStays DEF Inside
  <2>2. Whole(g) /\ g.verts[o].ins = c.verts[o].ins
    BY <1>2, <2>1 DEF Ext
  <2> QED BY <1>2, <2>1, <2>2 DEF Held, Vertex
<1>4. Edged(g, e, v, w)
  BY <1>1, <1>3, EdgeEffect
<1>5. /\ Ext(g, e, {o}, {}) /\ DOMAIN e.verts = DOMAIN g.verts /\ e.at = v /\ e.names = g.names
      /\ e.verts[o].ins = Append(g.verts[o].ins, q) \/ q \in Range(g.verts[o].ins)
  BY <1>4 DEF Edged
<1>6. e.verts[o].ins = <<q>>
  <2>1. Range(<<>>) = {} /\ Append(<<>>, q) = <<q>>
    BY DEF Range
  <2> QED BY <1>3, <1>5, <2>1
<1>7. Whole(e) /\ Inside(e, v) /\ name \notin DOMAIN e.names
  <2>1. Whole(e)
    BY <1>5 DEF Ext
  <2>2. Ext(g, e, {o}, {}) /\ Inside(g, v)
    BY <1>2, <1>5
  <2>3. Inside(e, v)
    BY <2>2, LiveStays
  <2> QED BY <1>2, <1>5, <2>1, <2>3
<1>8. Ext(e, d, {}, {name}) /\ d.verts = e.verts /\ d.at = v
  <2>1. e.at = v
    BY <1>5
  <2>2. Named(e, d, name)
    BY <1>7, <2>1, BindEffect
  <2> QED BY <2>1, <2>2 DEF Named
<1>9. Ext(c, d, {o}, {name})
  <2>1. Ext(c, e, {o}, {})
    <3>1. Ext(c, g, {}, {}) /\ Ext(g, e, {o}, {}) /\ {} \subseteq {o} /\ {o} \cap DOMAIN c.verts \subseteq {o}
          /\ {} \cup {} \subseteq {}
      BY <1>2, <1>5
    <3> QED BY <3>1, ExtTwice
  <2> QED BY <1>8, <2>1, ExtTwice
<1>10. Inside(d, v)
  BY <1>7, <1>8, LiveStays
<1>11. e.verts[q].type = "gate" /\ e.verts[q].gate = "Default" /\ e.verts[q].ins = <<>>
  <2>1. q \in DOMAIN g.verts /\ q \notin {o}
    BY <1>2, <1>3
  <2>2. /\ e.verts[q].type = g.verts[q].type /\ e.verts[q].gate = g.verts[q].gate
        /\ e.verts[q].ins = g.verts[q].ins
    BY <1>5, <2>1 DEF Ext
  <2> QED BY <1>3, <2>2
<1> QED BY <1>2, <1>5, <1>6, <1>8, <1>9, <1>10, <1>11 DEF Opened

\* The gate at hand gets a type if it has none.
Typed(l, op) ==
    After(l, IF Freed(l, l.at) THEN Ended(l, "undefined")
             ELSE IF Vert(l, l.at).type = "gate" /\ Vert(l, l.at).gate = "Default"
                  THEN SetGateIfDefault(l, l.at, op, TRUE) ELSE l)

\* What Elem makes of s when it is asked for the vertex v of an output o.
ForOutput(c, d, s, left, t, o, v) ==
    /\ GateName(s.lhs) \notin DOMAIN c.names
    /\ left.status = "ok"
    /\ Opened(c, left, o, v, GateName(s.lhs)) => d = Fed(t, s, v)

LEMMA OutputElem ==
    ASSUME NEW c, Whole(c), NEW s, s.lhs \in DOMAIN c.names,
           NEW w, w = c.names[s.lhs], Inside(c, w), c.verts[w[2]].type = "output",
           NEW name, name = GateName(s.lhs), ~Live(c, name),
           NEW g, g = New(c, "gate", "Default", name), NEW v, v = g.at,
           NEW e, e = AddEdge(g, v, w), NEW left, left = Bind(e, name),
           NEW t, t = SetGateIfDefault(left, v, s.op, TRUE),
           NEW d, d = Elem(c, s), d.status = "ok"
    PROVE  ForOutput(c, d, s, left, t, w[2], v)
<1>1. Shaped(c) /\ c.status = "ok" /\ ~Freed(c, w)
  BY DEF Whole, Inside, Freed
<1>2. LeftHS(c, s.lhs) = IF name \in DOMAIN c.names THEN Lookup(c, name) ELSE left
  <2>1. OutputGate(c, s.lhs) = IF name \in DOMAIN c.names THEN Lookup(c, name) ELSE left
    BY DEF OutputGate
  <2> QED BY <1>1, <2>1 DEF LeftHS, After, Vert
<1>3. ASSUME NEW l, l = LeftHS(c, s.lhs), NEW typed,
             typed = Typed(l, s.op)
      PROVE  /\ typed.status = "ok"
             /\ d = Fed(typed, s, l.at)
  <2>1. d = Fed(typed, s, l.at)
    BY <1>3 DEF Elem, Typed, Fed
  <2>2. typed.status # "ok" => d = typed
    BY <2>1, OkBefore DEF Fed
  <2> QED BY <2>1, <2>2
<1>4. name \notin DOMAIN c.names
  <2> SUFFICES ASSUME name \in DOMAIN c.names PROVE FALSE
    OBVIOUS
  <2>1. Freed(c, c.names[name])
    BY DEF Whole, Live
  <2>2. PICK l : l = Lookup(c, name)
    OBVIOUS
  <2>3. /\ l.at = c.names[name] /\ l.graph = c.graph /\ l.kept = c.kept /\ l.status = "ok"
    BY <1>1, <2>2 DEF Lookup, Shaped
  <2>4. l = LeftHS(c, s.lhs) /\ Freed(l, l.at)
    BY <1>2, <2>1, <2>2, <2>3 DEF Freed
  <2>5. Ended(l, "undefined").status = "undefined"
    BY <1>1, <2>2 DEF Ended, Lookup, Shaped
  <2>6. Typed(l, s.op) = Ended(l, "undefined")
    BY <2>3, <2>4 DEF After, Typed
  <2> QED BY <1>3, <2>4, <2>5, <2>6
<1>5. left = LeftHS(c, s.lhs)
  BY <1>2, <1>4
<1>6. left.status = "ok"
  <2>1. left.status # "ok" =>
          Typed(left, s.op) = left
    BY DEF After, Typed
  <2> QED BY <1>3, <1>5, <2>1
<1>7. ASSUME Opened(c, left, w[2], v, name)
      PROVE  d = Fed(t, s, v)
  <2>1. left.at = v /\ ~Freed(left, left.at) /\ Vert(left, v).type = "gate" /\ Vert(left, v).gate = "Default"
    BY <1>7 DEF Opened, Freed, Inside, Vert
  <2>2. t = Typed(left, s.op)
    <3>1. Typed(left, s.op) = SetGateIfDefault(left, left.at, s.op, TRUE)
      BY <1>6, <2>1 DEF After, Typed
    <3> QED BY <2>1, <3>1
  <2>3. d = Fed(t, s, left.at)
    BY <1>3, <1>5, <2>2
  <2> QED BY <2>1, <2>3
<1> QED BY <1>4, <1>6, <1>7 DEF ForOutput

LEMMA ExtNew ==
    ASSUME NEW c, NEW d, NEW T, NEW N, Ext(c, d, T, N), NEW e, NEW U, Ext(d, e, U, {}),
           U \cap DOMAIN c.verts \subseteq T
    PROVE  Ext(c, e, T, N)
BY ExtTwice

LEMMA InvertersNew ==
    ASSUME NEW c, NEW d, NEW T, NEW N, Ext(c, d, T, N), NEW X, T \subseteq X,
           NEW Y, Y \cap DOMAIN c.verts \subseteq X, NEW f, Inverters(c, f, X),
           \A n \in Nets(f) : NotName(n) \notin N
    PROVE  Inverters(d, f, Y)
BY InvertersStay

\* The gate q has its type, and drives the output o.
Prepared(c, t, f, Z, s, o, v) ==
    /\ Leads(c, t, f, Z, {o}, Sources(c, s), Made(s))
    /\ Inside(t, v) /\ Z \subseteq DOMAIN t.verts /\ Whole(t)
    /\ t.verts[v[2]].type = "gate" /\ t.verts[v[2]].gate = s.op /\ t.verts[v[2]].ins = <<>>
    /\ o # v[2] /\ o \in DOMAIN t.verts /\ t.verts[o].type = "output" /\ t.verts[o].ins = <<v[2]>>

LEMMA OutputTyped ==
    ASSUME NEW c, Whole(c), NEW f, Promising(f), NEW X, X \subseteq DOMAIN c.verts, Inverters(c, f, X),
           NEW s \in f.assigns, s.op \in ElemOps,
           NEW o \in X, c.verts[o].type = "output",
           NEW name, name = GateName(s.lhs), NEW v, NEW left, Opened(c, left, o, v, name),
           NEW q, q = v[2], NEW t, Retyped(left, t, q, s.op), NEW Z, Z = X \cup {q}
    PROVE  Prepared(c, t, f, Z, s, o, v)
<1>1. /\ Ext(c, left, {o}, {name}) /\ DOMAIN left.verts = DOMAIN c.verts \cup {q} /\ q \notin DOMAIN c.verts
      /\ Inside(left, v) /\ left.verts[q].type = "gate" /\ left.verts[q].gate = "Default"
      /\ left.verts[q].ins = <<>> /\ left.verts[o].ins = <<q>> /\ o # q
  BY DEF Opened
<1>2. s.lhs \in Nets(f) /\ {name} \subseteq Made(s) /\ Whole(left)
  <2>1. s.lhs \in Nets(f)
    BY NetFacts
  <2> QED BY <1>1, <2>1 DEF Made, Ext
<1>3. /\ Ext(left, t, {q}, {}) /\ DOMAIN t.verts = DOMAIN left.verts
      /\ t.verts[q].gate = s.op /\ t.verts[q].ins = <<>>
  BY <1>1 DEF Retyped
<1>4. Ext(c, t, {o}, {name})
  <2>1. {q} \cap DOMAIN c.verts \subseteq {o}
    BY <1>1
  <2> QED BY <1>1, <1>3, <2>1, ExtNew
<1>5. Leads(c, t, f, Z, {o}, Sources(c, s), Made(s))
  <2>1. Ext(c, t, {o}, Made(s))
    BY <1>2, <1>4, ExtMore
  <2>2. Inverters(t, f, Z)
    <3>1. {o} \subseteq X /\ Z \cap DOMAIN c.verts \subseteq X
      BY <1>1
    <3>2. \A m \in Nets(f) : NotName(m) \notin {name}
      BY <1>2, SuffixAssumption DEF Promising
    <3> QED BY <1>4, <3>1, <3>2, InvertersNew
  <2>3. Sprung(c, t, Z, Sources(c, s))
    BY <1>1, <1>3 DEF Sprung
  <2> QED BY <2>1, <2>2, <2>3 DEF Leads
<1>6. Inside(t, v)
  BY <1>1, <1>3, LiveStays
<1>7. /\ t.verts[q].type = "gate" /\ t.verts[o].ins = <<q>> /\ t.verts[o].type = "output"
      /\ o \in DOMAIN t.verts /\ Whole(t)
  <2>1. q \in DOMAIN left.verts /\ o \in DOMAIN left.verts /\ o \notin {q} /\ o \in DOMAIN c.verts
    BY <1>1
  <2>2. t.verts[q].type = left.verts[q].type /\ t.verts[o].ins = left.verts[o].ins /\ Whole(t)
    BY <1>3, <2>1 DEF Ext
  <2>3. t.verts[o].type = c.verts[o].type
    BY <1>4, <2>1 DEF Ext
  <2> QED BY <1>1, <1>3, <2>1, <2>2, <2>3
<1> QED BY <1>1, <1>3, <1>5, <1>6, <1>7 DEF Prepared

\* What has been made for an output is what s says.
LEMMA OutputDone ==
    ASSUME NEW c, NEW f, NEW X, X \subseteq DOMAIN c.verts, NEW s,
           Live(c, s.lhs), NEW o, o = Pl(c, s.lhs), o \in X,
           NEW q, q \notin X, NEW Z, Z = X \cup {q}, NEW Y, Y = X \ {o},
           NEW d, Gated(c, d, f, Z, Y, {o}, s, q),
           o \in DOMAIN d.verts, d.verts[o].type = "output", d.verts[o].ins = <<q>>
    PROVE  Done(c, d, f, X, s, Y)
<1>1. /\ Ext(c, d, {o}, Made(s)) /\ Whole(d)
      /\ Inverters(d, f, Y) /\ Computes(d, Y, q, s) /\ Depends(d, Y, q, Sources(d, s))
      /\ \A k \in DOMAIN d.verts \ (DOMAIN c.verts \cup Z) : Depends(d, Y, k, Sources(d, s))
  <2>1. Ext(c, d, {o}, Made(s))
    BY DEF Gated, Leads
  <2> QED BY <2>1 DEF Gated, Ext
<1>2. Live(d, s.lhs) /\ Pl(d, s.lhs) = o
  BY <1>1, LiveStays
<1>3. /\ \A env, val : Fits(d, Y, env, val) => val[o] = val[q]
      /\ Depends(d, Y, o, {q})
  <2>1. o \notin Y
    OBVIOUS
  <2>2. Relayed(d, Y, o, q)
    BY <1>1, <2>1, Relays
  <2> QED BY <2>2 DEF Relayed
<1>4. Computes(d, Y, o, s)
  BY <1>1, <1>3 DEF Computes
<1>5. Depends(d, Y, o, Sources(d, s))
  <2>1. \A a \in {q} : a \in Sources(d, s) \/ Depends(d, Y, a, Sources(d, s))
    BY <1>1
  <2> QED BY <1>3, <2>1, DependsTwice
<1>6. ASSUME NEW k \in DOMAIN d.verts \ DOMAIN c.verts PROVE Depends(d, Y, k, Sources(d, s))
  <2>1. k = q \/ k \in DOMAIN d.verts \ (DOMAIN c.verts \cup Z)
    BY <1>6
  <2> QED BY <1>1, <2>1
<1> QED BY <1>1, <1>2, <1>4, <1>5, <1>6 DEF Done

\* An operator whose net is an output: its vertex gets a gate of its own.
LEMMA ElemOnOutput ==
    ASSUME NEW c, NEW f, Promising(f), NEW P, P \subseteq f.assigns, NEW s \in P, s.op \in ElemOps,
           NEW X, Reads(c, f, P, X), Apt(c, f, P, s), Live(c, s.lhs), Waits(c, f, X, s.lhs),
           c.verts[Pl(c, s.lhs)].type = "output",
           NEW d, d = Elem(c, s), d.status = "ok"
    PROVE  \E Y : Reads(d, f, P \ {s}, Y)
<1>1. PICK w, o, name : w = c.names[s.lhs] /\ o = w[2] /\ name = GateName(s.lhs)
  OBVIOUS
<1>2. PICK g, v, q, e, left, t, Y, Z :
        /\ g = New(c, "gate", "Default", name) /\ v = g.at /\ q = v[2] /\ e = AddEdge(g, v, w)
        /\ left = Bind(e, name) /\ t = SetGateIfDefault(left, v, s.op, TRUE)
        /\ Y = X \ {o} /\ Z = X \cup {q}
  OBVIOUS
<1>3. /\ Whole(c) /\ X \subseteq DOMAIN c.verts /\ Inverters(c, f, X)
      /\ s.lhs \in DOMAIN c.names /\ Inside(c, w) /\ o \in DOMAIN c.verts /\ o \in X /\ o = Pl(c, s.lhs)
      /\ c.verts[o].type = "output" /\ c.verts[o].ins = <<>>
      /\ ~Live(c, name)
  <2>1. Whole(c) /\ X \subseteq DOMAIN c.verts /\ Inverters(c, f, X)
    BY DEF Reads
  <2>2. s.lhs \in DOMAIN c.names /\ Inside(c, w) /\ o = Pl(c, s.lhs)
    BY <1>1 DEF Live, Pl
  <2>3. o \in X /\ c.verts[o].type = "output" /\ ~Live(c, name)
    BY <1>1, <2>2 DEF Waits
  <2>4. c.verts[o].ins = <<>>
    BY <2>3 DEF Reads
  <2> QED BY <2>1, <2>2, <2>3, <2>4
<1>4. /\ name \notin DOMAIN c.names /\ left.status = "ok"
      /\ Opened(c, left, w[2], v, name) =>
           d = Fed(t, s, v)
  <2>1. c.verts[w[2]].type = "output"
    BY <1>1, <1>3
  <2>2. ForOutput(c, d, s, left, t, w[2], v)
    BY <1>1, <1>2, <1>3, <2>1, OutputElem
  <2> QED BY <1>1, <2>2 DEF ForOutput
<1>5. s \in f.assigns /\ name \in Names /\ \A i \in DOMAIN s.args : Live(c, s.args[i].net)
  BY <1>1, NetFacts DEF Apt
<1>6. Opened(c, left, o, v, name)
  BY <1>1, <1>2, <1>3, <1>4, <1>5, OutputOpens
<1>7. d = Fed(t, s, v)
  BY <1>1, <1>4, <1>6
<1>8. /\ Leads(c, t, f, Z, {o}, Sources(c, s), Made(s))
      /\ Inside(t, v) /\ Z \subseteq DOMAIN t.verts /\ Whole(t)
      /\ t.verts[q].type = "gate" /\ t.verts[q].gate = s.op /\ t.verts[q].ins = <<>>
      /\ o # q /\ o \in DOMAIN t.verts /\ t.verts[o].type = "output" /\ t.verts[o].ins = <<q>>
  <2>1. s.op \in Gates
    <3>1. ElemOps \subseteq Gates
      BY DEF ElemOps, Gates
    <3> QED BY <3>1
  <2>2. /\ Inside(left, v) /\ left.verts[v[2]].type = "gate" /\ left.verts[v[2]].gate = "Default"
        /\ Whole(left)
    BY <1>6 DEF Opened, Ext
  <2>3. Retyped(left, t, v[2], s.op)
    BY <1>2, <2>1, <2>2, SetGateEffect
  <2>4. Prepared(c, t, f, Z, s, o, v)
    BY <1>1, <1>2, <1>3, <1>5, <1>6, <2>3, OutputTyped
  <2> QED BY <1>2, <2>4 DEF Prepared
<1>9. q \notin X
  BY <1>2, <1>3, <1>6 DEF Opened
<1>10. Gated(c, d, f, Z, Y, {o}, s, q) /\ Ext(t, d, {q}, Made(s))
  <2>1. Y \subseteq Z /\ v[2] \notin Y /\ {v[2]} \cap DOMAIN c.verts \subseteq {o} /\ v[2] \in Z
    BY <1>2, <1>3, <1>6, <1>9 DEF Opened
  <2>2. t.verts[v[2]].type = "gate" /\ t.verts[v[2]].gate = s.op /\ t.verts[v[2]].ins = <<>>
    BY <1>2, <1>8
  <2>3. Gated(c, d, f, Z, Y, {o}, s, v[2]) /\ Ext(t, d, {v[2]}, Made(s))
    BY <1>5, <1>7, <1>8, <2>1, <2>2, WiresGate
  <2> QED BY <1>2, <2>3
<1>11. d.verts[o].type = "output" /\ d.verts[o].ins = <<q>> /\ o \in DOMAIN d.verts
  <2>1. o \notin {q}
    BY <1>8
  <2>2. d.verts[o].type = t.verts[o].type /\ d.verts[o].ins = t.verts[o].ins /\ o \in DOMAIN d.verts
    BY <1>8, <1>10, <2>1 DEF Ext
  <2> QED BY <1>8, <2>2
<1>12. Done(c, d, f, X, s, Y)
  BY <1>2, <1>3, <1>9, <1>10, <1>11, OutputDone
<1>13. Reads(d, f, P \ {s}, Y)
  BY <1>12, StatementKeeps
<1> QED BY <1>13

(* on_elem and on_elem3.                                                   *)
LEMMA ElemReads ==
    ASSUME NEW c, NEW f, Promising(f), NEW P, P \subseteq f.assigns, NEW s \in P, s.op \in ElemOps,
           NEW X, Reads(c, f, P, X), Apt(c, f, P, s), NEW d, d = Elem(c, s), d.status = "ok"
    PROVE  \E Y : Reads(d, f, P \ {s}, Y)
<1>1. s.lhs \in f.wires \cup f.outputs /\ s.op \notin ValueOps
  BY DEF Promising, Legal, ElemOps, ValueOps
<1>2. Live(c, s.lhs)
  BY <1>1 DEF Reads
<1>3. Waits(c, f, X, s.lhs)
  BY <1>2 DEF Reads, Lhs
<1>4. CASE c.verts[Pl(c, s.lhs)].type = "gate"
  BY <1>2, <1>3, <1>4, ElemOnWire
<1>5. CASE c.verts[Pl(c, s.lhs)].type = "output"
  BY <1>2, <1>3, <1>5, ElemOnOutput
<1> QED BY <1>3, <1>4, <1>5 DEF Waits

=============================================================================
