---------------------------- MODULE TcpMeshProofs ----------------------------
(***************************************************************************)
(* Proofs about TcpMesh, for meshes of every size, any number of tasks and *)
(* calls, and payloads of any lengths.                                     *)
(*                                                                         *)
(* Every end of a connection is in one place (Placed, Once), so that what  *)
(* is filed is read and written by one rank only; that rank's mutex lets   *)
(* one task at a time be half way through a frame (Busy); and so what is   *)
(* on the wire joins what the writer has begun to what the reader has      *)
(* finished (Streams).                                                     *)
(***************************************************************************)
EXTENDS TcpMesh, SequenceTheorems, TLAPS

\* What follows an item of a stream.
After(item) == IF item.kind = "word" /\ item.value > 0 THEN "payload" ELSE "word"

\* A stream v between a writer that has begun the frames s and a reader that has
\* finished the first b of them: every item is half of the frame at pos[i], the
\* reader wants the first one, and the writer owes what follows the last one.
Flow(v, s, b, wanted, owed) ==
  IF v = <<>> THEN wanted = owed /\ Len(s) = (IF wanted = "payload" THEN b + 1 ELSE b)
  ELSE \E pos \in [1 .. Len(v) -> 1 .. Len(s)] :
         /\ \A i \in 1 .. Len(v) :
              \/ v[i] = Word(s[pos[i]].size, s[pos[i]])
              \/ v[i] = Payload(s[pos[i]]) /\ s[pos[i]].size > 0
         /\ \A i \in 1 .. Len(v) - 1 :
              /\ v[i + 1].kind = After(v[i])
              /\ pos[i + 1] = (IF v[i + 1].kind = "word" THEN pos[i] + 1 ELSE pos[i])
         /\ pos[1] = b + 1 /\ v[1].kind = wanted
         /\ pos[Len(v)] = Len(s) /\ owed = After(v[Len(v)])
------------------------------------------------------------------------------
LEMMA TheItems ==
  ASSUME NEW f \in Frames
  PROVE  /\ f.size \in Sizes /\ f.size \in Nat /\ f # NoFrame
         /\ Word(f.size, f) \in Items /\ Payload(f) \in Items
<1>1. f.size \in Sizes /\ f.call \in 1 .. MaxCalls
  BY DEF Frames
<1>2. f.size \in Nat
  BY <1>1, TcpMeshAssumption
<1>3. NoFrame.call = 0 /\ f.call # 0
  BY <1>1, TcpMeshAssumption DEF NoFrame
<1> QED BY <1>1, <1>2, <1>3 DEF Items, Keys, Word, Payload

LEMMA AppendWord ==
  ASSUME NEW v \in Seq(Items), NEW s \in Seq(Frames), NEW b \in Nat, NEW wanted, NEW f \in Frames,
         Flow(v, s, b, wanted, "word")
  PROVE  Flow(Append(v, Word(f.size, f)), Append(s, f), b, wanted,
              IF f.size = 0 THEN "word" ELSE "payload")
<1> DEFINE x == Word(f.size, f)
           w == Append(v, x)
           z == Append(s, f)
<1>1. /\ x.kind = "word" /\ x.value = f.size /\ f.size \in Nat /\ x \in Items
      /\ After(x) = (IF f.size = 0 THEN "word" ELSE "payload")
  BY TheItems DEF Word, After
<1>2. /\ w # <<>> /\ Len(w) = Len(v) + 1 /\ Len(v) \in Nat
      /\ w[Len(w)] = x
      /\ \A i \in 1 .. Len(v) : w[i] = v[i]
  BY <1>1 DEF x
<1>3. /\ Len(z) = Len(s) + 1 /\ Len(s) \in Nat
      /\ z[Len(z)] = f
      /\ \A i \in 1 .. Len(s) : z[i] = s[i]
  OBVIOUS
<1> HIDE DEF w, z
<1>4. CASE v = <<>>
  <2> DEFINE p == [i \in 1 .. Len(w) |-> Len(z)]
  <2>1. wanted = "word" /\ Len(s) = b
    BY <1>4 DEF Flow
  <2>2. Len(w) = 1
    BY <1>2, <1>4
  <2>3. p \in [1 .. Len(w) -> 1 .. Len(z)] /\ p[1] = Len(z)
    BY <2>2, <1>3
  <2> HIDE DEF p
  <2>4. \A i \in 1 .. Len(w) : w[i] = Word(z[p[i]].size, z[p[i]])
    BY <2>2, <2>3, <1>2, <1>3 DEF x
  <2>5. Flow(w, z, b, wanted, After(x))
    BY <2>1, <2>2, <2>3, <2>4, <1>1, <1>2, <1>3 DEF Flow
  <2> QED BY <2>5, <1>1 DEF w, z, x
<1>5. CASE v # <<>>
  <2>1. PICK pos \in [1 .. Len(v) -> 1 .. Len(s)] :
         /\ \A i \in 1 .. Len(v) :
              \/ v[i] = Word(s[pos[i]].size, s[pos[i]])
              \/ v[i] = Payload(s[pos[i]]) /\ s[pos[i]].size > 0
         /\ \A i \in 1 .. Len(v) - 1 :
              /\ v[i + 1].kind = After(v[i])
              /\ pos[i + 1] = (IF v[i + 1].kind = "word" THEN pos[i] + 1 ELSE pos[i])
         /\ pos[1] = b + 1 /\ v[1].kind = wanted
         /\ pos[Len(v)] = Len(s) /\ "word" = After(v[Len(v)])
    BY <1>5 DEF Flow
  <2> DEFINE p == [i \in 1 .. Len(w) |-> IF i = Len(w) THEN Len(z) ELSE pos[i]]
  <2>2. Len(v) >= 1
    BY <1>5, <1>2, EmptySeq
  <2>3. /\ p \in [1 .. Len(w) -> 1 .. Len(z)]
        /\ \A i \in 1 .. Len(v) : p[i] = pos[i] /\ p[i] \in 1 .. Len(s)
        /\ p[Len(w)] = Len(z)
    <3>1. ASSUME NEW i \in 1 .. Len(w), i # Len(w)
          PROVE  pos[i] \in 1 .. Len(s) /\ pos[i] \in 1 .. Len(z)
      BY <3>1, <1>2, <1>3
    <3>2. Len(z) \in 1 .. Len(z) /\ Len(w) \in 1 .. Len(w)
      BY <1>2, <1>3
    <3> QED BY <3>1, <3>2, <1>2
  <2> HIDE DEF p
  <2>4. ASSUME NEW i \in 1 .. Len(w)
        PROVE  \/ w[i] = Word(z[p[i]].size, z[p[i]])
               \/ w[i] = Payload(z[p[i]]) /\ z[p[i]].size > 0
    <3>1. CASE i = Len(w)
      BY <3>1, <2>3, <1>2, <1>3 DEF x
    <3>2. CASE i # Len(w)
      <4>1. i \in 1 .. Len(v)
        BY <3>2, <1>2
      <4>2. w[i] = v[i] /\ p[i] = pos[i] /\ z[p[i]] = s[p[i]]
        BY <4>1, <2>3, <1>2, <1>3
      <4> QED BY <4>1, <4>2, <2>1
    <3> QED BY <3>1, <3>2
  <2>5. ASSUME NEW i \in 1 .. Len(w) - 1
        PROVE  /\ w[i + 1].kind = After(w[i])
               /\ p[i + 1] = (IF w[i + 1].kind = "word" THEN p[i] + 1 ELSE p[i])
    <3>1. i \in 1 .. Len(v) /\ w[i] = v[i] /\ p[i] = pos[i]
      BY <1>2, <2>3
    <3>2. CASE i = Len(v)
      BY <3>1, <3>2, <2>1, <2>3, <1>1, <1>2, <1>3
    <3>3. CASE i # Len(v)
      <4>1. i + 1 \in 1 .. Len(v) /\ i \in 1 .. Len(v) - 1
        BY <3>1, <3>3, <1>2
      <4> QED BY <3>1, <4>1, <2>1, <2>3, <1>2
    <3> QED BY <3>2, <3>3
  <2>6. p[1] = b + 1 /\ w[1].kind = wanted /\ p[Len(w)] = Len(z) /\ After(x) = After(w[Len(w)])
    BY <2>1, <2>2, <2>3, <1>2
  <2>7. Flow(w, z, b, wanted, After(x))
    BY <2>3, <2>4, <2>5, <2>6, <1>2 DEF Flow
  <2> QED BY <2>7, <1>1 DEF w, z, x
<1> QED BY <1>4, <1>5

LEMMA AppendPayload ==
  ASSUME NEW v \in Seq(Items), NEW s \in Seq(Frames), NEW b \in Nat, NEW wanted, NEW f \in Frames,
         Flow(v, s, b, wanted, "payload"), s # <<>>, s[Len(s)] = f, f.size > 0
  PROVE  Flow(Append(v, Payload(f)), s, b, wanted, "word")
<1> DEFINE x == Payload(f)
           w == Append(v, x)
<1>1. x.kind = "payload" /\ After(x) = "word" /\ x \in Items
  BY TheItems DEF Payload, After
<1>2. /\ w # <<>> /\ Len(w) = Len(v) + 1 /\ Len(v) \in Nat
      /\ w[Len(w)] = x
      /\ \A i \in 1 .. Len(v) : w[i] = v[i]
  BY <1>1 DEF x
<1>3. Len(s) \in Nat /\ Len(s) >= 1
  BY EmptySeq
<1> HIDE DEF w
<1>4. CASE v = <<>>
  <2> DEFINE p == [i \in 1 .. Len(w) |-> Len(s)]
  <2>1. wanted = "payload" /\ Len(s) = b + 1
    BY <1>4 DEF Flow
  <2>2. Len(w) = 1
    BY <1>2, <1>4
  <2>3. p \in [1 .. Len(w) -> 1 .. Len(s)] /\ p[1] = Len(s)
    BY <2>2, <1>3
  <2> HIDE DEF p
  <2>4. \A i \in 1 .. Len(w) : w[i] = Payload(s[p[i]]) /\ s[p[i]].size > 0
    BY <2>2, <2>3, <1>2, <1>3 DEF x
  <2>5. Flow(w, s, b, wanted, After(x))
    BY <2>1, <2>2, <2>3, <2>4, <1>1, <1>2, <1>3 DEF Flow
  <2> QED BY <2>5, <1>1 DEF w, x
<1>5. CASE v # <<>>
  <2>1. PICK pos \in [1 .. Len(v) -> 1 .. Len(s)] :
         /\ \A i \in 1 .. Len(v) :
              \/ v[i] = Word(s[pos[i]].size, s[pos[i]])
              \/ v[i] = Payload(s[pos[i]]) /\ s[pos[i]].size > 0
         /\ \A i \in 1 .. Len(v) - 1 :
              /\ v[i + 1].kind = After(v[i])
              /\ pos[i + 1] = (IF v[i + 1].kind = "word" THEN pos[i] + 1 ELSE pos[i])
         /\ pos[1] = b + 1 /\ v[1].kind = wanted
         /\ pos[Len(v)] = Len(s) /\ "payload" = After(v[Len(v)])
    BY <1>5 DEF Flow
  <2> DEFINE p == [i \in 1 .. Len(w) |-> IF i = Len(w) THEN Len(s) ELSE pos[i]]
  <2>2. Len(v) >= 1
    BY <1>5, <1>2, EmptySeq
  <2>3. /\ p \in [1 .. Len(w) -> 1 .. Len(s)]
        /\ \A i \in 1 .. Len(v) : p[i] = pos[i]
        /\ p[Len(w)] = Len(s)
    BY <2>2, <1>2, <1>3
  <2> HIDE DEF p
  <2>4. ASSUME NEW i \in 1 .. Len(w)
        PROVE  \/ w[i] = Word(s[p[i]].size, s[p[i]])
               \/ w[i] = Payload(s[p[i]]) /\ s[p[i]].size > 0
    <3>1. CASE i = Len(w)
      BY <3>1, <2>3, <1>2, <1>3 DEF x
    <3>2. CASE i # Len(w)
      <4>1. i \in 1 .. Len(v)
        BY <3>2, <1>2
      <4> QED BY <4>1, <2>1, <2>3, <1>2
    <3> QED BY <3>1, <3>2
  <2>5. ASSUME NEW i \in 1 .. Len(w) - 1
        PROVE  /\ w[i + 1].kind = After(w[i])
               /\ p[i + 1] = (IF w[i + 1].kind = "word" THEN p[i] + 1 ELSE p[i])
    <3>1. i \in 1 .. Len(v) /\ w[i] = v[i] /\ p[i] = pos[i]
      BY <1>2, <2>3
    <3>2. CASE i = Len(v)
      BY <3>1, <3>2, <2>1, <2>3, <1>1, <1>2, <1>3
    <3>3. CASE i # Len(v)
      <4>1. i + 1 \in 1 .. Len(v) /\ i \in 1 .. Len(v) - 1
        BY <3>1, <3>3, <1>2
      <4> QED BY <3>1, <4>1, <2>1, <2>3, <1>2
    <3> QED BY <3>2, <3>3
  <2>6. p[1] = b + 1 /\ w[1].kind = wanted /\ p[Len(w)] = Len(s) /\ After(x) = After(w[Len(w)])
    BY <2>1, <2>2, <2>3, <1>2
  <2>7. Flow(w, s, b, wanted, After(x))
    BY <2>3, <2>4, <2>5, <2>6, <1>2 DEF Flow
  <2> QED BY <2>7, <1>1 DEF w, x
<1> QED BY <1>4, <1>5

\* The item read is the half of frame b + 1 that the reader wants.
LEMMA TailOfFlow ==
  ASSUME NEW v \in Seq(Items), NEW s \in Seq(Frames), NEW b \in Nat, NEW wanted, NEW owed,
         Flow(v, s, b, wanted, owed), v # <<>>
  PROVE  /\ b + 1 \in 1 .. Len(s)
         /\ Head(v) = Word(s[b + 1].size, s[b + 1]) \/ (Head(v) = Payload(s[b + 1]) /\ s[b + 1].size > 0)
         /\ Head(v).kind = wanted
         /\ Flow(Tail(v), s, IF After(Head(v)) = "word" THEN b + 1 ELSE b, After(Head(v)), owed)
<1> DEFINE w == Tail(v)
           x == Head(v)
<1>1. PICK pos \in [1 .. Len(v) -> 1 .. Len(s)] :
         /\ \A i \in 1 .. Len(v) :
              \/ v[i] = Word(s[pos[i]].size, s[pos[i]])
              \/ v[i] = Payload(s[pos[i]]) /\ s[pos[i]].size > 0
         /\ \A i \in 1 .. Len(v) - 1 :
              /\ v[i + 1].kind = After(v[i])
              /\ pos[i + 1] = (IF v[i + 1].kind = "word" THEN pos[i] + 1 ELSE pos[i])
         /\ pos[1] = b + 1 /\ v[1].kind = wanted
         /\ pos[Len(v)] = Len(s) /\ owed = After(v[Len(v)])
  BY DEF Flow
<1>2. /\ Len(v) \in Nat /\ Len(v) >= 1 /\ Len(w) = Len(v) - 1
      /\ x = v[1]
      /\ \A i \in 1 .. Len(w) : w[i] = v[i + 1]
      /\ w = <<>> <=> Len(v) = 1
  <2>1. /\ Len(v) \in Nat /\ Len(v) >= 1 /\ w \in Seq(Items) /\ Len(w) = Len(v) - 1
        /\ \A i \in 1 .. Len(w) : w[i] = v[i + 1]
    BY EmptySeq, HeadTailProperties
  <2>2. w = <<>> <=> Len(w) = 0
    BY <2>1, EmptySeq
  <2> QED BY <2>1, <2>2
<1>3. Len(s) \in Nat /\ 1 \in 1 .. Len(v) /\ Len(v) \in 1 .. Len(v)
  BY <1>2
<1>4. b + 1 \in 1 .. Len(s)
  BY <1>1, <1>3
<1> HIDE DEF w, x
<1>5. x = Word(s[b + 1].size, s[b + 1]) \/ (x = Payload(s[b + 1]) /\ s[b + 1].size > 0)
  BY <1>1, <1>2, <1>3
<1>6. x.kind = wanted
  BY <1>1, <1>2
<1>7. After(x) \in {"word", "payload"}
  BY DEF After
<1> DEFINE c == IF After(x) = "word" THEN b + 1 ELSE b
<1>8. Flow(w, s, c, After(x), owed)
  <2>1. CASE w = <<>>
    <3>1. Len(v) = 1 /\ b + 1 = Len(s) /\ owed = After(x)
      BY <2>1, <1>1, <1>2
    <3> QED BY <2>1, <3>1, <1>7 DEF Flow
  <2>2. CASE w # <<>>
    <3> DEFINE p == [i \in 1 .. Len(w) |-> pos[i + 1]]
    <3>1. Len(w) >= 1 /\ Len(w) \in Nat
      BY <2>2, <1>2
    <3>2. /\ p \in [1 .. Len(w) -> 1 .. Len(s)]
          /\ \A i \in 1 .. Len(w) : p[i] = pos[i + 1] /\ i + 1 \in 1 .. Len(v)
      BY <3>1, <1>2
    <3> HIDE DEF p
    <3>3. ASSUME NEW i \in 1 .. Len(w)
          PROVE  \/ w[i] = Word(s[p[i]].size, s[p[i]])
                 \/ w[i] = Payload(s[p[i]]) /\ s[p[i]].size > 0
      BY <3>2, <1>1, <1>2
    <3>4. ASSUME NEW i \in 1 .. Len(w) - 1
          PROVE  /\ w[i + 1].kind = After(w[i])
                 /\ p[i + 1] = (IF w[i + 1].kind = "word" THEN p[i] + 1 ELSE p[i])
      <4>1. /\ i + 1 \in 1 .. Len(v) - 1 /\ i \in 1 .. Len(w) /\ i + 1 \in 1 .. Len(w)
        BY <1>2
      <4>2. w[i] = v[i + 1] /\ w[i + 1] = v[(i + 1) + 1] /\ p[i] = pos[i + 1] /\ p[i + 1] = pos[(i + 1) + 1]
        BY <4>1, <3>2, <1>2
      <4> QED BY <4>1, <4>2, <1>1
    <3>5. p[1] = c + 1 /\ w[1].kind = After(x)
      <4>1. w[1] = v[2] /\ p[1] = pos[2] /\ 1 \in 1 .. Len(v) - 1
        BY <3>1, <3>2, <1>2
      <4>2. v[1 + 1].kind = After(v[1]) /\ pos[1 + 1] = (IF v[1 + 1].kind = "word" THEN pos[1] + 1 ELSE pos[1])
        BY <4>1, <1>1
      <4> QED BY <4>1, <4>2, <1>1, <1>2, <1>7
    <3>6. p[Len(w)] = Len(s) /\ owed = After(w[Len(w)])
      <4>1. Len(w) \in 1 .. Len(w) /\ Len(w) + 1 = Len(v)
        BY <3>1, <1>2
      <4> QED BY <4>1, <3>2, <1>1, <1>2
    <3> QED BY <2>2, <3>2, <3>3, <3>4, <3>5, <3>6 DEF Flow
  <2> QED BY <2>1, <2>2
<1> QED BY <1>4, <1>5, <1>6, <1>8 DEF w, x
------------------------------------------------------------------------------
(* The invariant.                                                          *)

\* TypeOK, but for the connections being open.
Shape ==
  /\ created \in [Ranks -> {"no", "connect", "insert", "yes"}]
  /\ dst \in [Ranks -> 0 .. WorldSize]
  /\ known \in [Ranks -> SUBSET Ranks]
  /\ links \subseteq Links
  /\ wire \in [Ends -> Seq(Items)]
  /\ \A e \in Ends : Len(wire[e]) <= Capacity
  /\ dropped \subseteq Ends
  /\ backlog \in [Ranks -> Seq(Links)]
  /\ acceptor \in [Ranks -> [link : Links \cup {NoLink}, key : Keys,
                             at : {"accept", "read", "insert"}]]
  /\ connections \in [Ranks -> [Keys -> Links \cup {NoLink}]]
  /\ mutex \in [Ranks -> Seq(Tasks \cup {"new", "accept"})]
  /\ call \in [Ranks -> [Tasks -> Calls \cup {Idle}]]
  /\ calls \in [Ranks -> 0 .. MaxCalls]
  /\ sent \in [Ends -> Seq(Frames)] /\ received \in [Ends -> Seq(Frames)]
  /\ misframed \subseteq Ends

\* Where an end of a connection may be: in the hands of the function that opened
\* it, in the backlog, with the accept loop, in the map, or dropped.
Opening(l) ==
  \/ l.via = "new" /\ created[l.from] = "insert" /\ dst[l.from] = l.to
  \/ /\ l.via = "connect_to"
     /\ \E t \in Tasks : call[l.from][t].op = "connect" /\ call[l.from][t].peer = l.to
Queued(l) == \E i \in 1 .. Len(backlog[l.to]) : backlog[l.to][i] = l
Accepting(l) == acceptor[l.to].at # "accept" /\ acceptor[l.to].link = l
Unread(l) == Queued(l) \/ (acceptor[l.to].at = "read" /\ acceptor[l.to].link = l)
FiledAt(l, r) == \E k \in Keys : connections[r][k] = l

\* No rank is connected to twice by new().
Started ==
  /\ \A r \in Ranks : /\ created[r] = "no" => dst[r] = 0
                      /\ known[r] \subseteq r + 1 .. WorldSize - 1
                      /\ created[r] = "insert" => dst[r] \in known[r]
  /\ \A l \in links : l.via = "new" =>
       l.to < dst[l.from] \/ (l.to = dst[l.from] /\ created[l.from] = "insert")

\* An end is in one of those places only.
Placed ==
  \A l \in Links :
    /\ Opening(l) => l \in links /\ ~FiledAt(l, l.from) /\ <<l, l.from>> \notin dropped
    /\ Queued(l) \/ Accepting(l) => l \in links /\ ~FiledAt(l, l.to) /\ <<l, l.to>> \notin dropped
    /\ \A r \in Ranks : FiledAt(l, r) => l \in links /\ r \in {l.from, l.to} /\ <<l, r>> \notin dropped
    /\ ~(Queued(l) /\ Accepting(l))

\* And there only once.
Once ==
  \A r \in Ranks :
    /\ \A i, j \in 1 .. Len(backlog[r]) : backlog[r][i] = backlog[r][j] => i = j
    /\ \A i \in 1 .. Len(backlog[r]) : backlog[r][i].to = r
    /\ IF acceptor[r].at = "accept" THEN acceptor[r].link = NoLink
       ELSE acceptor[r].link \in Links /\ acceptor[r].link.to = r
    /\ \A k, m \in Keys :
         connections[r][k] = connections[r][m] /\ connections[r][k] # NoLink => k = m
    /\ \A t, u \in Tasks :
         call[r][t].op = "connect" /\ call[r][u].op = "connect"
           /\ call[r][t].peer = call[r][u].peer => t = u

Called ==
  \A r \in Ranks, t \in Tasks :
    /\ call[r][t].op # "none" => call[r][t].peer # r
    /\ call[r][t].op = "send" => call[r][t].size \in Sizes

\* The mutex: only its holder is half way through a frame, on a connection that
\* stays in the map.
Busy ==
  \A r \in Ranks, t \in Tasks : call[r][t].at = "payload" =>
    /\ Holds(r, t)
    /\ call[r][t].op \in {"send", "recv"}
    /\ Link(r, t) # NoLink
    /\ call[r][t].op = "send" =>
         /\ call[r][t].size > 0
         /\ sent[OutEnd(r, t)] # <<>>
         /\ sent[OutEnd(r, t)][Len(sent[OutEnd(r, t)])] = Frame(r, t)

\* A connection of new() starts with the rank that opened it.
Introduced ==
  /\ \A r \in Ranks : acceptor[r].at = "insert" /\ acceptor[r].link.via = "new" =>
       acceptor[r].key = acceptor[r].link.from
  /\ \A l \in Links : Unread(l) =>
       /\ received[<<l, l.to>>] = <<>>
       /\ l.via = "new" => wire[<<l, l.to>>] # <<>> /\ Head(wire[<<l, l.to>>]) = Word(l.from, NoFrame)

Unopened ==
  \A e \in Ends : e[1] \notin links =>
    wire[e] = <<>> /\ sent[e] = <<>> /\ received[e] = <<>> /\ e \notin dropped

\* What the reader of an end wants and its writer owes.
Wanted(e) ==
  IF \E t \in Tasks : /\ call[e[2]][t].at = "payload" /\ call[e[2]][t].op = "recv"
                      /\ Link(e[2], t) = e[1]
  THEN "payload" ELSE "word"
Owed(e) ==
  IF \E t \in Tasks : /\ call[Other(e[1], e[2])][t].at = "payload"
                      /\ call[Other(e[1], e[2])][t].op = "send"
                      /\ Link(Other(e[1], e[2]), t) = e[1]
  THEN "payload" ELSE "word"

\* Ends whose stream is whole: open, not taken for something else, and not cut
\* short because the writer is gone.
Live(e) ==
  /\ e[1] \in links /\ e \notin dropped /\ e \notin misframed
  /\ ~(wire[e] = <<>> /\ <<e[1], Other(e[1], e[2])>> \in dropped)

\* The frames on the wire, without the rank that may come first, and how many are
\* done with, the one among them that the accept loop took for a rank.
OnTheWire(e) == IF e[1].via = "new" /\ e[2] = e[1].to /\ Unread(e[1]) THEN Tail(wire[e]) ELSE wire[e]
Done(e) ==
  IF e[1].via = "connect_to" /\ e[2] = e[1].to /\ ~Unread(e[1]) THEN Len(received[e]) + 1
  ELSE Len(received[e])
Streams ==
  \A e \in Ends : Live(e) => Flow(OnTheWire(e), sent[e], Done(e), Wanted(e), Owed(e))

Inv == /\ Shape /\ Started /\ Placed /\ Once /\ Called /\ Busy /\ Introduced
       /\ Unopened /\ Streams /\ FramesInOrder /\ FiledUnderItsRank
------------------------------------------------------------------------------
LEMMA TheEnds ==
  ASSUME NEW l \in Links
  PROVE  /\ l.from \in Ranks /\ l.to \in Ranks /\ l.from # l.to
         /\ l.via \in {"new", "connect_to"}
         /\ <<l, l.from>> \in Ends /\ <<l, l.to>> \in Ends
         /\ Other(l, l.from) = l.to /\ Other(l, l.to) = l.from
         /\ l # NoLink
BY DEF Links, Ends, Other, NoLink

LEMMA AnEnd ==
  ASSUME NEW e \in Ends
  PROVE  /\ e[1] \in Links /\ e[2] \in Ranks /\ e = <<e[1], e[2]>>
         /\ e[2] \in {e[1].from, e[1].to}
         /\ Other(e[1], e[2]) \in Ranks /\ Other(e[1], e[2]) # e[2]
         /\ Other(e[1], e[2]) \in {e[1].from, e[1].to}
BY DEF Links, Ends, Other

LEMMA TheRanks ==
  /\ Ranks \subseteq Nat /\ Ranks \subseteq Keys /\ Sizes \subseteq Keys
  /\ \A r \in Ranks : 0 \in Ranks /\ r + 1 \in 0 .. WorldSize
BY TcpMeshAssumption DEF Ranks, Keys

LEMMA TheCalls ==
  /\ \A c \in Calls : c # Idle /\ c.op # "none"
  /\ Idle.op = "none" /\ Idle.at = "none"
  /\ \A c \in Calls \cup {Idle} : c.op = "none" <=> c = Idle
BY DEF Calls, Idle

LEMMA Initially == Init => Inv
<1> SUFFICES ASSUME Init PROVE Inv
  OBVIOUS
<1>1. Shape
  <2>1. \A r \in Ranks : NotAccepting \in [link : Links \cup {NoLink}, key : Keys,
                                           at : {"accept", "read", "insert"}]
    BY TheRanks DEF NotAccepting
  <2>2. WorldSize \in Nat /\ MaxCalls \in Nat /\ Capacity \in Nat
    BY TcpMeshAssumption
  <2> QED BY <2>1, <2>2 DEF Init, Shape
<1>2. Started
  BY DEF Init, Started
<1>3. \A l \in Links : ~Opening(l) /\ ~Queued(l) /\ ~Accepting(l) /\ \A r \in Ranks : ~FiledAt(l, r)
  <2> TAKE l \in Links
  <2>1. l.from \in Ranks /\ l.to \in Ranks /\ l # NoLink
    BY TheEnds
  <2>2. ~Opening(l)
    BY <2>1, TheCalls DEF Init, Opening
  <2>3. ~Queued(l) /\ ~Accepting(l)
    BY <2>1 DEF Init, Queued, Accepting, NotAccepting
  <2>4. \A r \in Ranks : ~FiledAt(l, r)
    BY <2>1 DEF Init, FiledAt
  <2> QED BY <2>2, <2>3, <2>4
<1>4. Placed
  BY <1>3 DEF Placed
<1>5. Once
  BY TheCalls DEF Init, Once, NotAccepting
<1>6. Called /\ Busy
  BY TheCalls DEF Init, Called, Busy
<1>7. Introduced
  BY <1>3, TheEnds DEF Init, Introduced, Unread, Accepting, NotAccepting
<1>8. Unopened /\ Streams
  BY DEF Init, Unopened, Streams, Live
<1>9. FramesInOrder
  BY DEF Init, FramesInOrder
<1>10. FiledUnderItsRank
  BY DEF Init, FiledUnderItsRank
<1> QED BY <1>1, <1>2, <1>4, <1>5, <1>6, <1>7, <1>8, <1>9, <1>10 DEF Inv
------------------------------------------------------------------------------
(* The small steps that the actions share.                                 *)

LEMMA Locking ==
  ASSUME Shape, NEW r \in Ranks, NEW who \in Tasks \cup {"new", "accept"}, Lock(r, who)
  PROVE  /\ mutex' \in [Ranks -> Seq(Tasks \cup {"new", "accept"})]
         /\ \A q \in Ranks : \A w : Holds(q, w) => Holds(q, w)'
<1> DEFINE Who == Tasks \cup {"new", "accept"}
<1>1. /\ mutex \in [Ranks -> Seq(Who)]
      /\ mutex' = [mutex EXCEPT ![r] = Append(@, who)]
  BY DEF Shape, Lock
<1>2. /\ Append(mutex[r], who) \in Seq(Who) /\ Append(mutex[r], who) # <<>>
      /\ mutex[r] # <<>> => Head(Append(mutex[r], who)) = Head(mutex[r])
  BY <1>1, AppendProperties, HeadTailAppend
<1> HIDE DEF Who
<1>3. mutex' \in [Ranks -> Seq(Who)]
  BY <1>1, <1>2
<1>4. \A q \in Ranks : \A w : Holds(q, w) => Holds(q, w)'
  BY <1>1, <1>2 DEF Holds
<1> QED BY <1>3, <1>4 DEF Who

LEMMA Unlocking ==
  ASSUME Shape, NEW r \in Ranks, NEW who, Holds(r, who), Unlock(r)
  PROVE  /\ mutex' \in [Ranks -> Seq(Tasks \cup {"new", "accept"})]
         /\ \A q \in Ranks \ {r} : \A w : Holds(q, w) => Holds(q, w)'
<1> DEFINE Who == Tasks \cup {"new", "accept"}
<1>1. /\ mutex \in [Ranks -> Seq(Who)] /\ mutex[r] # <<>>
      /\ mutex' = [mutex EXCEPT ![r] = Tail(@)]
  BY DEF Shape, Unlock, Holds
<1> HIDE DEF Who
<1>2. Tail(mutex[r]) \in Seq(Who)
  BY <1>1, HeadTailProperties
<1>3. mutex' \in [Ranks -> Seq(Who)]
  BY <1>1, <1>2
<1>4. \A q \in Ranks \ {r} : \A w : Holds(q, w) => Holds(q, w)'
  BY <1>1 DEF Holds
<1> QED BY <1>3, <1>4 DEF Who

LEMMA Opened ==
  ASSUME Shape, NEW l \in Links, NEW items \in Seq(Items), Len(items) <= 1, Open(l, items)
  PROVE  /\ links' \subseteq Links /\ links' = links \cup {l}
         /\ wire' \in [Ends -> Seq(Items)] /\ wire'[<<l, l.to>>] = items
         /\ \A e \in Ends : Len(wire'[e]) <= Capacity
         /\ \A e \in Ends : e # <<l, l.to>> => wire'[e] = wire[e]
         /\ backlog' \in [Ranks -> Seq(Links)]
         /\ backlog'[l.to] = Append(backlog[l.to], l)
         /\ \A q \in Ranks : q # l.to => backlog'[q] = backlog[q]
         /\ \A m \in Links : Queued(m)' <=> Queued(m) \/ m = l
<1>1. l.to \in Ranks /\ <<l, l.to>> \in Ends
  BY TheEnds
<1>2. links' \subseteq Links /\ links' = links \cup {l}
  BY DEF Shape, Open
<1>3. /\ wire' \in [Ends -> Seq(Items)] /\ wire'[<<l, l.to>>] = items
      /\ \A e \in Ends : e # <<l, l.to>> => wire'[e] = wire[e]
  BY <1>1 DEF Shape, Open
<1>4. \A e \in Ends : Len(wire'[e]) <= Capacity
  <2>1. Len(items) \in Nat /\ Capacity \in Nat /\ Capacity >= 1
    BY TcpMeshAssumption
  <2>2. Len(items) <= Capacity
    BY <2>1
  <2>3. \A e \in Ends : Len(wire[e]) <= Capacity
    BY DEF Shape
  <2> QED BY <2>2, <2>3, <1>3
<1>5. backlog \in [Ranks -> Seq(Links)] /\ backlog' = [backlog EXCEPT ![l.to] = Append(@, l)]
  BY DEF Shape, Open
<1>6. backlog[l.to] \in Seq(Links) /\ Append(backlog[l.to], l) \in Seq(Links)
  BY <1>1, <1>5, AppendProperties
<1>7. /\ backlog' \in [Ranks -> Seq(Links)]
      /\ backlog'[l.to] = Append(backlog[l.to], l)
      /\ \A q \in Ranks : q # l.to => backlog'[q] = backlog[q]
  BY <1>1, <1>5, <1>6
<1>8. ASSUME NEW m \in Links PROVE Queued(m)' <=> Queued(m) \/ m = l
  <2>1. m.to \in Ranks
    BY TheEnds
  <2>2. CASE m.to # l.to
    BY <2>1, <2>2, <1>7 DEF Queued
  <2>3. CASE m.to = l.to
    <3> DEFINE s == backlog[l.to]
               z == Append(s, l)
    <3>1. /\ Len(z) = Len(s) + 1 /\ Len(s) \in Nat /\ z[Len(s) + 1] = l
          /\ \A i \in 1 .. Len(s) : z[i] = s[i]
      BY <1>6, AppendProperties
    <3> HIDE DEF s, z
    <3>2. (\E i \in 1 .. Len(z) : z[i] = m) <=> (\E i \in 1 .. Len(s) : s[i] = m) \/ m = l
      BY <3>1
    <3>3. backlog[m.to] = s /\ backlog'[m.to] = z
      BY <2>3, <1>7 DEF s, z
    <3> QED BY <3>2, <3>3 DEF Queued
  <2> QED BY <2>2, <2>3
<1> QED BY <1>2, <1>3, <1>4, <1>7, <1>8

LEMMA Inserted ==
  ASSUME Shape, Placed, NEW r \in Ranks, NEW key \in Keys, NEW l \in Links, Insert(r, key, l)
  PROVE  /\ connections' \in [Ranks -> [Keys -> Links \cup {NoLink}]]
         /\ \A q \in Ranks : q # r => connections'[q] = connections[q]
         /\ \A k \in Keys : connections'[r][k] = (IF k = key THEN l ELSE connections[r][k])
         /\ dropped' \subseteq Ends /\ dropped \subseteq dropped'
         /\ \A m \in Links, q \in Ranks : <<m, q>> \in dropped' =>
              <<m, q>> \in dropped \/ (q = r /\ connections[r][key] = m /\ m \in links)
<1>1. connections \in [Ranks -> [Keys -> Links \cup {NoLink}]]
  BY DEF Shape
<1>2. connections' = [connections EXCEPT ![r][key] = l]
  BY DEF Insert
<1>3. /\ connections' \in [Ranks -> [Keys -> Links \cup {NoLink}]]
      /\ \A q \in Ranks : q # r => connections'[q] = connections[q]
      /\ \A k \in Keys : connections'[r][k] = (IF k = key THEN l ELSE connections[r][k])
  BY <1>1, <1>2
<1>4. CASE connections[r][key] = NoLink
  <2>1. dropped' = dropped
    BY <1>4 DEF Insert
  <2> QED BY <1>3, <2>1 DEF Shape
<1>5. CASE connections[r][key] # NoLink
  <2>1. dropped' = dropped \cup {<<connections[r][key], r>>}
    BY <1>5 DEF Insert
  <2>2. connections[r][key] \in Links /\ FiledAt(connections[r][key], r)
    BY <1>1, <1>5 DEF FiledAt
  <2>3. r \in {connections[r][key].from, connections[r][key].to}
    BY <2>2 DEF Placed
  <2>4. connections[r][key] \in links
    BY <2>2 DEF Placed
  <2>5. <<connections[r][key], r>> \in Ends
    BY <2>2, <2>3, TheEnds
  <2> QED BY <1>3, <2>1, <2>4, <2>5 DEF Shape
<1> QED BY <1>4, <1>5
------------------------------------------------------------------------------
(* Types.                                                                  *)

LEMMA LinksOpened ==
  ASSUME Shape, NEW r \in Ranks
  PROVE  /\ created[r] = "connect" /\ dst[r] \in known[r] /\ Started =>
              LinkOfNew(r) \in Links /\ LinkOfNew(r) \notin links
         /\ \A p \in Ranks : p # r => LinkOfConnectTo(r, p) \in Links
         /\ \A l \in Links : Handshake(l) \in Seq(Items) /\ Len(Handshake(l)) <= 1
<1>1. ASSUME created[r] = "connect", dst[r] \in known[r], Started
      PROVE  LinkOfNew(r) \in Links /\ LinkOfNew(r) \notin links
  <2>1. dst[r] \in r + 1 .. WorldSize - 1 /\ r \in Nat
    BY <1>1, TheRanks DEF Started
  <2>2. dst[r] \in Ranks /\ dst[r] # r
    BY <2>1, TcpMeshAssumption DEF Ranks
  <2>3. LinkOfNew(r) \in Links
    BY <2>2 DEF LinkOfNew, Links
  <2>4. ~(dst[r] < dst[r])
    BY <2>1, TcpMeshAssumption
  <2>5. LinkOfNew(r).via = "new" /\ LinkOfNew(r).from = r /\ LinkOfNew(r).to = dst[r]
    BY DEF LinkOfNew
  <2> QED BY <2>3, <2>4, <2>5, <1>1 DEF Started
<1>2. ASSUME NEW p \in Ranks, p # r PROVE LinkOfConnectTo(r, p) \in Links
  BY <1>2 DEF LinkOfConnectTo, Links
<1>3. ASSUME NEW l \in Links PROVE Handshake(l) \in Seq(Items) /\ Len(Handshake(l)) <= 1
  <2>1. Word(l.from, NoFrame) \in Items
    BY TheEnds DEF Word, Items, Keys
  <2> QED BY <2>1 DEF Handshake
<1> QED BY <1>1, <1>2, <1>3

LEMMA Returning ==
  ASSUME Shape, NEW r \in Ranks, NEW t \in Tasks, Holds(r, t), Return(r, t)
  PROVE  /\ call' \in [Ranks -> [Tasks -> Calls \cup {Idle}]]
         /\ mutex' \in [Ranks -> Seq(Tasks \cup {"new", "accept"})]
         /\ calls' = calls
         /\ call'[r][t] = Idle
         /\ \A q \in Ranks, u \in Tasks : <<q, u>> # <<r, t>> => call'[q][u] = call[q][u]
         /\ \A q \in Ranks \ {r} : \A w : Holds(q, w) => Holds(q, w)'
<1>1. Unlock(r) /\ call' = [call EXCEPT ![r][t] = Idle] /\ calls' = calls
  BY DEF Return
<1>2. call \in [Ranks -> [Tasks -> Calls \cup {Idle}]]
  BY DEF Shape
<1>3. /\ call' \in [Ranks -> [Tasks -> Calls \cup {Idle}]]
      /\ call'[r][t] = Idle
      /\ \A q \in Ranks, u \in Tasks : <<q, u>> # <<r, t>> => call'[q][u] = call[q][u]
  BY <1>1, <1>2
<1> QED BY <1>1, <1>3, Unlocking

LEMMA GoingOn ==
  ASSUME Shape, NEW r \in Ranks, NEW t \in Tasks, call[r][t] # Idle, GoOn(r, t)
  PROVE  /\ call' \in [Ranks -> [Tasks -> Calls \cup {Idle}]]
         /\ mutex' = mutex /\ calls' = calls
         /\ call'[r][t] = [call[r][t] EXCEPT !.at = "payload"]
         /\ call'[r][t].at = "payload" /\ call'[r][t].op = call[r][t].op
         /\ call'[r][t].peer = call[r][t].peer /\ call'[r][t].no = call[r][t].no
         /\ call'[r][t].size = call[r][t].size
         /\ \A q \in Ranks, u \in Tasks : <<q, u>> # <<r, t>> => call'[q][u] = call[q][u]
<1>1. call' = [call EXCEPT ![r][t].at = "payload"] /\ mutex' = mutex /\ calls' = calls
  BY DEF GoOn
<1>2. call \in [Ranks -> [Tasks -> Calls \cup {Idle}]] /\ call[r][t] \in Calls
  BY DEF Shape
<1>3. [call[r][t] EXCEPT !.at = "payload"] \in Calls
  BY <1>2 DEF Calls
<1>4. /\ call'[r][t] = [call[r][t] EXCEPT !.at = "payload"]
      /\ \A q \in Ranks, u \in Tasks : <<q, u>> # <<r, t>> => call'[q][u] = call[q][u]
  BY <1>1, <1>2
<1>5. call' \in [Ranks -> [Tasks -> Calls \cup {Idle}]]
  BY <1>1, <1>2, <1>3
<1>6. /\ call'[r][t].at = "payload" /\ call'[r][t].op = call[r][t].op
      /\ call'[r][t].peer = call[r][t].peer /\ call'[r][t].no = call[r][t].no
      /\ call'[r][t].size = call[r][t].size
  BY <1>2, <1>4 DEF Calls
<1> QED BY <1>1, <1>4, <1>5, <1>6

LEMMA Beginning ==
  ASSUME Shape, NEW r \in Ranks, NEW t \in Tasks, NEW op \in {"send", "recv", "connect"},
         NEW peer \in Ranks, NEW size \in Sizes \cup {0}, Begin(r, t, op, peer, size)
  PROVE  /\ call' \in [Ranks -> [Tasks -> Calls \cup {Idle}]]
         /\ calls' \in [Ranks -> 0 .. MaxCalls]
         /\ mutex' \in [Ranks -> Seq(Tasks \cup {"new", "accept"})]
         /\ call'[r][t].op = op /\ call'[r][t].peer = peer /\ call'[r][t].size = size
         /\ call'[r][t].at = "lock" /\ peer # r /\ call[r][t] = Idle
         /\ \A q \in Ranks, u \in Tasks : <<q, u>> # <<r, t>> => call'[q][u] = call[q][u]
         /\ \A q \in Ranks : \A w : Holds(q, w) => Holds(q, w)'
<1> DEFINE c == [op |-> op, no |-> calls[r] + 1, peer |-> peer, size |-> size, at |-> "lock"]
<1>1. /\ call[r][t] = Idle /\ calls[r] < MaxCalls /\ peer # r /\ Lock(r, t)
      /\ call' = [call EXCEPT ![r][t] = c] /\ calls' = [calls EXCEPT ![r] = @ + 1]
  BY DEF Begin
<1>2. calls[r] \in 0 .. MaxCalls /\ MaxCalls \in Nat
  BY TcpMeshAssumption DEF Shape
<1>3. calls[r] + 1 \in 1 .. MaxCalls /\ calls[r] + 1 \in 0 .. MaxCalls
  BY <1>1, <1>2
<1>4. c \in Calls /\ c.op = op /\ c.peer = peer /\ c.size = size /\ c.at = "lock"
  BY <1>3 DEF Calls
<1> HIDE DEF c
<1>5. call \in [Ranks -> [Tasks -> Calls \cup {Idle}]] /\ calls \in [Ranks -> 0 .. MaxCalls]
  BY DEF Shape
<1>6. /\ call' \in [Ranks -> [Tasks -> Calls \cup {Idle}]]
      /\ call'[r][t] = c
      /\ \A q \in Ranks, u \in Tasks : <<q, u>> # <<r, t>> => call'[q][u] = call[q][u]
  BY <1>1, <1>4, <1>5
<1>7. calls' \in [Ranks -> 0 .. MaxCalls]
  BY <1>1, <1>3, <1>5
<1> QED BY <1>1, <1>4, <1>6, <1>7, Locking

\* A task that does op on its connection.
LEMMA Holding ==
  ASSUME Shape, Placed, Called, NEW r \in Ranks, NEW t \in Tasks,
         call[r][t].op \in {"send", "recv"}, Link(r, t) # NoLink
  PROVE  /\ Link(r, t) \in Links /\ FiledAt(Link(r, t), r) /\ Link(r, t) \in links
         /\ InEnd(r, t) \in Ends /\ OutEnd(r, t) \in Ends
         /\ InEnd(r, t) \notin dropped
         /\ r \in {Link(r, t).from, Link(r, t).to}
         /\ Other(Link(r, t), r) \in Ranks /\ Other(Link(r, t), r) # r
         /\ Other(Link(r, t), Other(Link(r, t), r)) = r
         /\ call[r][t] \in Calls /\ call[r][t] # Idle /\ call[r][t].peer \in Keys
         /\ call[r][t].op = "send" => Frame(r, t) \in Frames
<1>1. call[r][t] \in Calls /\ call[r][t] # Idle
  BY TheCalls DEF Shape
<1>2. call[r][t].peer \in Ranks /\ call[r][t].no \in 1 .. MaxCalls
  BY <1>1 DEF Calls
<1>3. call[r][t].peer \in Keys
  BY <1>2, TheRanks
<1>4. Link(r, t) \in Links /\ FiledAt(Link(r, t), r)
  BY <1>3 DEF Shape, Link, FiledAt
<1>5. Link(r, t) \in links /\ r \in {Link(r, t).from, Link(r, t).to} /\ <<Link(r, t), r>> \notin dropped
  BY <1>4 DEF Placed
<1>6. /\ InEnd(r, t) \in Ends /\ OutEnd(r, t) \in Ends
      /\ Other(Link(r, t), r) \in Ranks /\ Other(Link(r, t), r) # r
      /\ Other(Link(r, t), Other(Link(r, t), r)) = r
  BY <1>4, <1>5, TheEnds DEF InEnd, OutEnd
<1>7. call[r][t].op = "send" => Frame(r, t) \in Frames
  BY <1>2 DEF Frame, Frames, Called
<1> QED BY <1>1, <1>3, <1>4, <1>5, <1>6, <1>7 DEF InEnd

\* The mutex leaves its holder alone with the streams of its rank.
LEMMA Alone ==
  ASSUME Busy, NEW r \in Ranks, NEW who, Holds(r, who)
  PROVE  \A u \in Tasks : u # who => call[r][u].at # "payload"
BY DEF Busy, Holds

LEMMA WantedByHolder ==
  ASSUME Busy, NEW r \in Ranks, NEW t \in Tasks, Holds(r, t), NEW e \in Ends, e[2] = r
  PROVE  Wanted(e) = (IF call[r][t].at = "payload" /\ call[r][t].op = "recv" /\ Link(r, t) = e[1]
                      THEN "payload" ELSE "word")
BY Alone DEF Wanted

LEMMA OwedByHolder ==
  ASSUME Busy, NEW r \in Ranks, NEW t \in Tasks, Holds(r, t), NEW e \in Ends, Other(e[1], e[2]) = r
  PROVE  Owed(e) = (IF call[r][t].at = "payload" /\ call[r][t].op = "send" /\ Link(r, t) = e[1]
                    THEN "payload" ELSE "word")
BY Alone DEF Owed

LEMMA FiledIsRead ==
  ASSUME Placed, NEW l \in Links, NEW r \in Ranks, FiledAt(l, r)
  PROVE  r = l.to => ~Unread(l)
BY DEF Placed, Unread, Accepting

\* What a receive finds.
LEMMA Reader ==
  ASSUME Inv, NEW r \in Ranks, NEW t \in Tasks, NEW place \in {"lock", "payload"},
         Doing(r, t, "recv", place), Read(r, t)
  PROVE  LET e == InEnd(r, t)
             x == Head(wire[e])
             b == Done(e)
         IN  /\ e \in Ends /\ wire[e] # <<>> /\ b \in Nat
             /\ OnTheWire(e) = wire[e]
             /\ b + 1 \in 1 .. Len(sent[e]) /\ sent[e][b + 1] \in Frames
             /\ x.frame = sent[e][b + 1] /\ x.value = sent[e][b + 1].size
             /\ x.kind = (IF place = "payload" THEN "payload" ELSE "word")
             /\ Flow(Tail(wire[e]), sent[e], IF After(x) = "word" THEN b + 1 ELSE b, After(x), Owed(e))
<1> DEFINE e == InEnd(r, t)
           x == Head(wire[e])
           b == Done(e)
<1>1. /\ Holds(r, t) /\ call[r][t].op = "recv" /\ call[r][t].at = place /\ Link(r, t) # NoLink
      /\ e \notin misframed /\ wire[e] # <<>>
  BY DEF Doing, Read
<1>2. /\ e \in Ends /\ e \notin dropped /\ Link(r, t) \in links /\ Link(r, t) \in Links
      /\ FiledAt(Link(r, t), r)
  BY <1>1, Holding DEF Inv
<1>3. e[1] = Link(r, t) /\ e[2] = r
  BY DEF InEnd
<1>4. Live(e)
  BY <1>1, <1>2, <1>3 DEF Live
<1>5. OnTheWire(e) = wire[e]
  BY <1>2, <1>3, FiledIsRead DEF OnTheWire, Inv
<1>6. Wanted(e) = (IF place = "payload" THEN "payload" ELSE "word")
  BY <1>1, <1>2, <1>3, WantedByHolder DEF Inv
<1>7. wire[e] \in Seq(Items) /\ sent[e] \in Seq(Frames) /\ received[e] \in Seq(Frames)
  BY <1>2 DEF Inv, Shape
<1>8. b \in Nat
  BY <1>7 DEF Done
<1>9. Flow(wire[e], sent[e], b, Wanted(e), Owed(e))
  BY <1>2, <1>4, <1>5 DEF Inv, Streams
<1> HIDE DEF e, b
<1>10. /\ b + 1 \in 1 .. Len(sent[e])
       /\ \/ x = Word(sent[e][b + 1].size, sent[e][b + 1])
          \/ x = Payload(sent[e][b + 1]) /\ sent[e][b + 1].size > 0
       /\ x.kind = Wanted(e)
       /\ Flow(Tail(wire[e]), sent[e], IF After(x) = "word" THEN b + 1 ELSE b, After(x), Owed(e))
  BY <1>1, <1>7, <1>8, <1>9, TailOfFlow
<1>11. sent[e][b + 1] \in Frames
  BY <1>7, <1>10
<1>12. x.frame = sent[e][b + 1] /\ x.value = sent[e][b + 1].size
  BY <1>10 DEF Word, Payload
<1> QED BY <1>1, <1>2, <1>5, <1>6, <1>8, <1>10, <1>11, <1>12 DEF e, b

\* Taking an item off an end.
LEMMA Taking ==
  ASSUME Shape, NEW e \in Ends, wire[e] # <<>>
  PROVE  /\ Head(wire[e]) \in Items /\ Head(wire[e]).value \in Keys
         /\ Tail(wire[e]) \in Seq(Items)
         /\ Len(Tail(wire[e])) <= Capacity
<1>1. wire[e] \in Seq(Items) /\ Len(wire[e]) <= Capacity /\ Capacity \in Nat
  BY TcpMeshAssumption DEF Shape
<1>2. /\ Head(wire[e]) \in Items /\ Tail(wire[e]) \in Seq(Items)
      /\ Len(Tail(wire[e])) = Len(wire[e]) - 1 /\ Len(wire[e]) \in Nat
  BY <1>1, HeadTailProperties
<1> QED BY <1>1, <1>2 DEF Items

LEMMA Accepted ==
  ASSUME Shape, Once, NEW r \in Ranks, acceptor[r].at # "accept"
  PROVE  /\ acceptor[r].link \in Links /\ acceptor[r].link.to = r
         /\ <<acceptor[r].link, r>> \in Ends
         /\ acceptor[r].key \in Keys
BY TheEnds DEF Once, Shape

LEMMA ShapeOfNew ==
  ASSUME Inv, NEW r \in Ranks
  PROVE  /\ \A addresses \in SUBSET Ranks : Create(r, addresses) => Shape'
         /\ New(r) => Shape'
<1> USE DEF Inv
<1>1. ASSUME NEW addresses \in SUBSET Ranks, Create(r, addresses) PROVE Shape'
  BY <1>1, TheRanks DEF Create, Shape, network, caller, history
<1>2. ASSUME ConnectNext(r) PROVE Shape'
  <2>1. /\ created[r] = "connect" /\ dst[r] \in known[r]
        /\ Open(LinkOfNew(r), Handshake(LinkOfNew(r))) /\ Lock(r, "new")
    BY <1>2 DEF ConnectNext
  <2>2. /\ LinkOfNew(r) \in Links
        /\ Handshake(LinkOfNew(r)) \in Seq(Items) /\ Len(Handshake(LinkOfNew(r))) <= 1
    BY <2>1, LinksOpened
  <2>3. /\ links' \subseteq Links /\ wire' \in [Ends -> Seq(Items)]
        /\ \A e \in Ends : Len(wire'[e]) <= Capacity
        /\ backlog' \in [Ranks -> Seq(Links)]
    BY <2>1, <2>2, Opened
  <2>4. mutex' \in [Ranks -> Seq(Tasks \cup {"new", "accept"})]
    BY <2>1, Locking
  <2> QED BY <1>2, <2>3, <2>4 DEF ConnectNext, Shape, caller, history
<1>3. ASSUME InsertNext(r) PROVE Shape'
  <2>1. /\ created[r] = "insert" /\ Holds(r, "new") /\ Insert(r, dst[r], LinkOfNew(r)) /\ Unlock(r)
        /\ dst' = [dst EXCEPT ![r] = @ + 1]
    BY <1>3 DEF InsertNext
  <2>2. dst[r] \in Ranks /\ dst[r] # r /\ dst[r] \in Keys /\ dst[r] + 1 \in 0 .. WorldSize
    <3>1. dst[r] \in r + 1 .. WorldSize - 1 /\ r \in Nat
      BY <2>1, TheRanks DEF Started
    <3> QED BY <3>1, TheRanks, TcpMeshAssumption DEF Ranks
  <2>3. LinkOfNew(r) \in Links
    BY <2>2 DEF LinkOfNew, Links
  <2>4. connections' \in [Ranks -> [Keys -> Links \cup {NoLink}]] /\ dropped' \subseteq Ends
    BY <2>1, <2>2, <2>3, Inserted
  <2>5. mutex' \in [Ranks -> Seq(Tasks \cup {"new", "accept"})]
    BY <2>1, Unlocking
  <2>6. dst' \in [Ranks -> 0 .. WorldSize]
    BY <2>1, <2>2 DEF Shape
  <2> QED BY <1>3, <2>4, <2>5, <2>6 DEF InsertNext, Shape, caller, history
<1>4. ASSUME SkipNext(r) PROVE Shape'
  <2>1. dst[r] \in 0 .. WorldSize /\ dst[r] < WorldSize /\ WorldSize \in Nat
    BY <1>4, TcpMeshAssumption DEF SkipNext, Shape
  <2>2. dst[r] + 1 \in 0 .. WorldSize
    BY <2>1
  <2> QED BY <1>4, <2>2 DEF SkipNext, Shape, network, caller, history
<1>5. ASSUME Created(r) PROVE Shape'
  BY <1>5 DEF Created, Shape, network, caller, history
<1> QED BY <1>1, <1>2, <1>3, <1>4, <1>5 DEF New

LEMMA ShapeOfAcceptLoop ==
  ASSUME Inv, NEW r \in Ranks, AcceptLoop(r)
  PROVE  Shape'
<1> USE DEF Inv
<1>1. ASSUME Accept(r) PROVE Shape'
  <2>1. backlog[r] \in Seq(Links) /\ backlog[r] # <<>>
    BY <1>1 DEF Accept, Shape
  <2>2. Head(backlog[r]) \in Links /\ Tail(backlog[r]) \in Seq(Links)
    BY <2>1, HeadTailProperties
  <2>3. backlog' \in [Ranks -> Seq(Links)]
    BY <1>1, <2>2 DEF Accept, Shape
  <2>4. acceptor' \in [Ranks -> [link : Links \cup {NoLink}, key : Keys,
                                 at : {"accept", "read", "insert"}]]
    BY <1>1, <2>2, TheRanks DEF Accept, Shape
  <2> QED BY <1>1, <2>3, <2>4 DEF Accept, Shape, new, caller, history
<1>2. ASSUME ReadRank(r) PROVE Shape'
  <2> DEFINE e == <<acceptor[r].link, r>>
  <2>1. /\ acceptor[r].at = "read" /\ wire[e] # <<>> /\ Lock(r, "accept")
        /\ acceptor' = [acceptor EXCEPT ![r].key = Head(wire[e]).value, ![r].at = "insert"]
        /\ wire' = [wire EXCEPT ![e] = Tail(@)]
        /\ misframed' = misframed \cup {e} \/ misframed' = misframed
    BY <1>2 DEF ReadRank
  <2>2. e \in Ends
    BY <2>1, Accepted
  <2> HIDE DEF e
  <2>3. wire' \in [Ends -> Seq(Items)] /\ \A d \in Ends : Len(wire'[d]) <= Capacity
    BY <2>1, <2>2, Taking DEF Shape
  <2>4. acceptor' \in [Ranks -> [link : Links \cup {NoLink}, key : Keys,
                                 at : {"accept", "read", "insert"}]]
    BY <2>1, <2>2, Taking DEF Shape
  <2>5. mutex' \in [Ranks -> Seq(Tasks \cup {"new", "accept"})]
    BY <2>1, Locking
  <2>6. misframed' \subseteq Ends
    BY <2>1, <2>2 DEF Shape
  <2> QED BY <1>2, <2>3, <2>4, <2>5, <2>6 DEF ReadRank, Shape, new, caller
<1>3. ASSUME ReadRankFails(r) PROVE Shape'
  <2>1. acceptor[r].at = "read" /\ dropped' = dropped \cup {<<acceptor[r].link, r>>}
        /\ acceptor' = [acceptor EXCEPT ![r] = NotAccepting]
    BY <1>3 DEF ReadRankFails
  <2>2. dropped' \subseteq Ends
    BY <2>1, Accepted DEF Shape
  <2>3. acceptor' \in [Ranks -> [link : Links \cup {NoLink}, key : Keys,
                                 at : {"accept", "read", "insert"}]]
    BY <2>1, TheRanks DEF Shape, NotAccepting
  <2> QED BY <1>3, <2>2, <2>3 DEF ReadRankFails, Shape, new, caller, history
<1>4. ASSUME InsertAccepted(r) PROVE Shape'
  <2>1. /\ acceptor[r].at = "insert" /\ Holds(r, "accept") /\ Unlock(r)
        /\ Insert(r, acceptor[r].key, acceptor[r].link)
        /\ acceptor' = [acceptor EXCEPT ![r] = NotAccepting]
    BY <1>4 DEF InsertAccepted
  <2>2. acceptor[r].key \in Keys /\ acceptor[r].link \in Links
    BY <2>1, Accepted
  <2>3. connections' \in [Ranks -> [Keys -> Links \cup {NoLink}]] /\ dropped' \subseteq Ends
    BY <2>1, <2>2, Inserted
  <2>4. acceptor' \in [Ranks -> [link : Links \cup {NoLink}, key : Keys,
                                 at : {"accept", "read", "insert"}]]
    BY <2>1, TheRanks DEF Shape, NotAccepting
  <2>5. mutex' \in [Ranks -> Seq(Tasks \cup {"new", "accept"})]
    BY <2>1, Unlocking
  <2> QED BY <1>4, <2>3, <2>4, <2>5 DEF InsertAccepted, Shape, new, caller, history
<1> QED BY <1>1, <1>2, <1>3, <1>4 DEF AcceptLoop

LEMMA ShapeOfCalls ==
  ASSUME Inv, NEW r \in Ranks, NEW t \in Tasks, NEW peer \in Ranks, NEW size \in Sizes \cup {0}
  PROVE  (Send(r, t, peer, size) /\ size \in Sizes) \/ Recv(r, t, peer) \/ ConnectTo(r, t, peer) => Shape'
<1> USE DEF Inv
<1>1. ASSUME Send(r, t, peer, size) PROVE Shape'
  <2>1. Begin(r, t, "send", peer, size)
    BY <1>1 DEF Send
  <2>2. /\ call' \in [Ranks -> [Tasks -> Calls \cup {Idle}]]
        /\ calls' \in [Ranks -> 0 .. MaxCalls]
        /\ mutex' \in [Ranks -> Seq(Tasks \cup {"new", "accept"})]
    BY <2>1, Beginning
  <2> QED BY <1>1, <2>1, <2>2 DEF Send, Begin, Shape, new, history
<1>2. ASSUME Recv(r, t, peer) PROVE Shape'
  <2>1. Begin(r, t, "recv", peer, 0)
    BY <1>2 DEF Recv
  <2>2. /\ call' \in [Ranks -> [Tasks -> Calls \cup {Idle}]]
        /\ calls' \in [Ranks -> 0 .. MaxCalls]
        /\ mutex' \in [Ranks -> Seq(Tasks \cup {"new", "accept"})]
    BY <2>1, Beginning
  <2> QED BY <1>2, <2>1, <2>2 DEF Recv, Begin, Shape, new, history
<1>3. ASSUME ConnectTo(r, t, peer) PROVE Shape'
  <2>1. Begin(r, t, "connect", peer, 0) /\ Open(LinkOfConnectTo(r, peer), <<>>)
    BY <1>3 DEF ConnectTo
  <2>2. LinkOfConnectTo(r, peer) \in Links
    BY <2>1, LinksOpened, Beginning
  <2>3. /\ links' \subseteq Links /\ wire' \in [Ends -> Seq(Items)]
        /\ \A e \in Ends : Len(wire'[e]) <= Capacity
        /\ backlog' \in [Ranks -> Seq(Links)]
    <3>1. <<>> \in Seq(Items) /\ Len(<<>>) <= 1
      BY EmptySeq
    <3> QED BY <2>1, <2>2, <3>1, Opened
  <2>4. /\ call' \in [Ranks -> [Tasks -> Calls \cup {Idle}]]
        /\ calls' \in [Ranks -> 0 .. MaxCalls]
        /\ mutex' \in [Ranks -> Seq(Tasks \cup {"new", "accept"})]
    BY <2>1, Beginning
  <2> QED BY <2>1, <2>3, <2>4 DEF Begin, Shape, new, history
<1> QED BY <1>1, <1>2, <1>3

LEMMA ShapeOfTask ==
  ASSUME Inv, NEW r \in Ranks, NEW t \in Tasks
  PROVE  Task(r, t) \/ ReadAnything(r, t) => Shape'
<1> USE DEF Inv
<1>1. ASSUME InsertConnected(r, t) PROVE Shape'
  <2>1. /\ Holds(r, t) /\ call[r][t].op = "connect" /\ Return(r, t)
        /\ Insert(r, call[r][t].peer, LinkOfConnectTo(r, call[r][t].peer))
    BY <1>1 DEF InsertConnected
  <2>2. call[r][t] \in Calls
    BY <2>1, TheCalls DEF Shape
  <2>3. call[r][t].peer \in Ranks /\ call[r][t].peer \in Keys /\ call[r][t].peer # r
    BY <2>1, <2>2, TheRanks DEF Called, Calls
  <2>4. LinkOfConnectTo(r, call[r][t].peer) \in Links
    BY <2>3, LinksOpened
  <2>5. connections' \in [Ranks -> [Keys -> Links \cup {NoLink}]] /\ dropped' \subseteq Ends
    BY <2>1, <2>3, <2>4, Inserted
  <2>6. /\ call' \in [Ranks -> [Tasks -> Calls \cup {Idle}]] /\ calls' = calls
        /\ mutex' \in [Ranks -> Seq(Tasks \cup {"new", "accept"})]
    BY <2>1, Returning
  <2> QED BY <1>1, <2>5, <2>6 DEF InsertConnected, Shape, new, history
<1>2. ASSUME NoConnection(r, t) \/ ReadAnything(r, t) PROVE Shape'
  <2>1. Holds(r, t) /\ Return(r, t) /\ UNCHANGED <<new, network, acceptor, connections, history>>
    BY <1>2 DEF NoConnection, ReadAnything, Doing
  <2>2. /\ call' \in [Ranks -> [Tasks -> Calls \cup {Idle}]] /\ calls' = calls
        /\ mutex' \in [Ranks -> Seq(Tasks \cup {"new", "accept"})]
    BY <2>1, Returning
  <2> QED BY <2>1, <2>2 DEF Shape, new, network, history
<1>3. ASSUME IoError(r, t) PROVE Shape'
  <2>1. /\ Holds(r, t) /\ Return(r, t) /\ call[r][t].op \in {"send", "recv"} /\ Link(r, t) # NoLink
        /\ wire' = [wire EXCEPT ![InEnd(r, t)] = <<>>]
    BY <1>3 DEF IoError, Doing
  <2>2. /\ call' \in [Ranks -> [Tasks -> Calls \cup {Idle}]] /\ calls' = calls
        /\ mutex' \in [Ranks -> Seq(Tasks \cup {"new", "accept"})]
    BY <2>1, Returning
  <2>3. InEnd(r, t) \in Ends
    BY <2>1, Holding
  <2>4. wire' \in [Ends -> Seq(Items)] /\ \A e \in Ends : Len(wire'[e]) <= Capacity
    <3>1. <<>> \in Seq(Items) /\ Len(<<>>) <= Capacity
      BY TcpMeshAssumption, EmptySeq
    <3> QED BY <2>1, <2>3, <3>1 DEF Shape
  <2> QED BY <1>3, <2>2, <2>4 DEF IoError, Shape, new, history
<1>4. ASSUME NEW place \in {"lock", "payload"}, NEW x \in Items,
             Doing(r, t, "send", place), Write(r, t, x)
      PROVE  /\ wire' \in [Ends -> Seq(Items)] /\ \A e \in Ends : Len(wire'[e]) <= Capacity
             /\ OutEnd(r, t) \in Ends /\ Frame(r, t) \in Frames
  <2>1. OutEnd(r, t) \in Ends /\ Frame(r, t) \in Frames
    BY <1>4, Holding DEF Doing
  <2>2. /\ wire[OutEnd(r, t)] \in Seq(Items) /\ Len(wire[OutEnd(r, t)]) < Capacity
        /\ wire' = [wire EXCEPT ![OutEnd(r, t)] = Append(@, x)]
    BY <1>4, <2>1 DEF Write, Shape
  <2>3. /\ Append(wire[OutEnd(r, t)], x) \in Seq(Items)
        /\ Len(Append(wire[OutEnd(r, t)], x)) <= Capacity
    BY <2>2, TcpMeshAssumption, AppendProperties
  <2> QED BY <2>1, <2>2, <2>3 DEF Shape
<1>5. ASSUME WriteLength(r, t) PROVE Shape'
  <2>1. /\ Doing(r, t, "send", "lock") /\ Write(r, t, Word(call[r][t].size, Frame(r, t)))
        /\ sent' = [sent EXCEPT ![OutEnd(r, t)] = Append(@, Frame(r, t))]
        /\ Return(r, t) \/ GoOn(r, t)
    BY <1>5 DEF WriteLength
  <2>2. Holds(r, t) /\ call[r][t] # Idle /\ Frame(r, t) \in Frames /\ OutEnd(r, t) \in Ends
    BY <2>1, Holding DEF Doing
  <2>3. Word(call[r][t].size, Frame(r, t)) \in Items
    BY <2>2, TheItems DEF Frame
  <2>4. wire' \in [Ends -> Seq(Items)] /\ \A e \in Ends : Len(wire'[e]) <= Capacity
    BY <1>4, <2>1, <2>3
  <2>5. sent' \in [Ends -> Seq(Frames)]
    <3>1. Append(sent[OutEnd(r, t)], Frame(r, t)) \in Seq(Frames)
      BY <2>2, AppendProperties DEF Shape
    <3> QED BY <2>1, <3>1 DEF Shape
  <2>6. /\ call' \in [Ranks -> [Tasks -> Calls \cup {Idle}]] /\ calls' = calls
        /\ mutex' \in [Ranks -> Seq(Tasks \cup {"new", "accept"})]
    <3>1. CASE Return(r, t)
      BY <2>2, <3>1, Returning
    <3>2. CASE GoOn(r, t)
      BY <2>2, <3>2, GoingOn DEF Shape
    <3> QED BY <2>1, <3>1, <3>2
  <2> QED BY <1>5, <2>4, <2>5, <2>6 DEF WriteLength, Shape, new
<1>6. ASSUME WritePayload(r, t) PROVE Shape'
  <2>1. /\ Doing(r, t, "send", "payload") /\ Write(r, t, Payload(Frame(r, t)))
        /\ Return(r, t) /\ Holds(r, t)
    BY <1>6 DEF WritePayload, Doing
  <2>2. Frame(r, t) \in Frames
    BY <2>1, Holding DEF Doing
  <2>3. Payload(Frame(r, t)) \in Items
    BY <2>2, TheItems
  <2>4. wire' \in [Ends -> Seq(Items)] /\ \A e \in Ends : Len(wire'[e]) <= Capacity
    BY <1>4, <2>1, <2>3
  <2>5. /\ call' \in [Ranks -> [Tasks -> Calls \cup {Idle}]] /\ calls' = calls
        /\ mutex' \in [Ranks -> Seq(Tasks \cup {"new", "accept"})]
    BY <2>1, Returning
  <2> QED BY <1>6, <2>4, <2>5 DEF WritePayload, Shape, new, history
<1>7. ASSUME NEW place \in {"lock", "payload"}, Doing(r, t, "recv", place), Read(r, t)
      PROVE  /\ wire' \in [Ends -> Seq(Items)] /\ \A e \in Ends : Len(wire'[e]) <= Capacity
             /\ Arrives(r, t) => received' \in [Ends -> Seq(Frames)]
  <2>1. InEnd(r, t) \in Ends /\ wire[InEnd(r, t)] # <<>> /\ Head(wire[InEnd(r, t)]).frame \in Frames
    BY <1>7, Reader
  <2>2. wire' = [wire EXCEPT ![InEnd(r, t)] = Tail(@)]
    BY <1>7 DEF Read
  <2>3. wire' \in [Ends -> Seq(Items)] /\ \A e \in Ends : Len(wire'[e]) <= Capacity
    BY <2>1, <2>2, Taking DEF Shape
  <2>4. Append(received[InEnd(r, t)], Head(wire[InEnd(r, t)]).frame) \in Seq(Frames)
    BY <2>1, AppendProperties DEF Shape
  <2> QED BY <2>1, <2>3, <2>4 DEF Arrives, Shape
<1>8. ASSUME ReadLength(r, t) PROVE Shape'
  <2>1. /\ Doing(r, t, "recv", "lock") /\ Read(r, t) /\ Holds(r, t) /\ call[r][t] # Idle
        /\ \/ Arrives(r, t) /\ Return(r, t)
           \/ GoOn(r, t) /\ UNCHANGED received
    BY <1>8, TheCalls DEF ReadLength, Doing
  <2>2. wire' \in [Ends -> Seq(Items)] /\ \A e \in Ends : Len(wire'[e]) <= Capacity
    BY <1>7, <2>1
  <2>3. received' \in [Ends -> Seq(Frames)]
    BY <1>7, <2>1 DEF Shape
  <2>4. /\ call' \in [Ranks -> [Tasks -> Calls \cup {Idle}]] /\ calls' = calls
        /\ mutex' \in [Ranks -> Seq(Tasks \cup {"new", "accept"})]
    <3>1. CASE Return(r, t)
      BY <2>1, <3>1, Returning
    <3>2. CASE GoOn(r, t)
      BY <2>1, <3>2, GoingOn DEF Shape
    <3> QED BY <2>1, <3>1, <3>2
  <2> QED BY <1>8, <2>2, <2>3, <2>4 DEF ReadLength, Shape, new
<1>9. ASSUME ReadPayload(r, t) PROVE Shape'
  <2>1. /\ Doing(r, t, "recv", "payload") /\ Read(r, t) /\ Holds(r, t)
        /\ Arrives(r, t) /\ Return(r, t)
    BY <1>9 DEF ReadPayload, Doing
  <2>2. /\ wire' \in [Ends -> Seq(Items)] /\ \A e \in Ends : Len(wire'[e]) <= Capacity
        /\ received' \in [Ends -> Seq(Frames)]
    BY <1>7, <2>1
  <2>3. /\ call' \in [Ranks -> [Tasks -> Calls \cup {Idle}]] /\ calls' = calls
        /\ mutex' \in [Ranks -> Seq(Tasks \cup {"new", "accept"})]
    BY <2>1, Returning
  <2> QED BY <1>9, <2>2, <2>3 DEF ReadPayload, Shape, new
<1> QED BY <1>1, <1>2, <1>3, <1>5, <1>6, <1>8, <1>9 DEF Task
------------------------------------------------------------------------------
(* Every end is in one place.                                              *)

LEMMA SameLink ==
  ASSUME NEW l \in Links, NEW m \in Links, l.from = m.from, l.to = m.to, l.via = m.via
  PROVE  l = m
BY DEF Links

LEMMA FreshLink ==
  ASSUME Inv, NEW l \in Links, l \notin links
  PROVE  /\ ~Opening(l) /\ ~Queued(l) /\ ~Accepting(l) /\ ~Unread(l)
         /\ \A r \in Ranks : ~FiledAt(l, r) /\ (r \in {l.from, l.to} => <<l, r>> \notin dropped)
<1>1. ~Opening(l) /\ ~Queued(l) /\ ~Accepting(l) /\ \A r \in Ranks : ~FiledAt(l, r)
  BY DEF Inv, Placed
<1>2. ~Unread(l)
  BY <1>1 DEF Unread, Accepting
<1>3. \A r \in Ranks : r \in {l.from, l.to} => <<l, r>> \notin dropped
  BY TheEnds DEF Inv, Unopened
<1> QED BY <1>1, <1>2, <1>3

LEMMA InsertPlaces ==
  ASSUME Shape, Placed, Once, NEW r \in Ranks, NEW key \in Keys, NEW l \in Links,
         Insert(r, key, l), l \in links, ~FiledAt(l, r), <<l, r>> \notin dropped
  PROVE  /\ FiledAt(l, r)'
         /\ \A m \in Links, q \in Ranks :
              /\ FiledAt(m, q)' => FiledAt(m, q) \/ (m = l /\ q = r)
              /\ FiledAt(m, q)' => <<m, q>> \notin dropped'
              /\ <<m, q>> \in dropped' => <<m, q>> \in dropped \/ FiledAt(m, q)
         /\ \A q \in Ranks : \A k, n \in Keys :
              connections'[q][k] = connections'[q][n] /\ connections'[q][k] # NoLink => k = n
<1>1. /\ connections' \in [Ranks -> [Keys -> Links \cup {NoLink}]]
      /\ \A q \in Ranks : q # r => connections'[q] = connections[q]
      /\ \A k \in Keys : connections'[r][k] = (IF k = key THEN l ELSE connections[r][k])
      /\ \A m \in Links, q \in Ranks : <<m, q>> \in dropped' =>
           <<m, q>> \in dropped \/ (q = r /\ connections[r][key] = m)
  BY Inserted
<1>2. l # NoLink
  BY TheEnds
<1>3. FiledAt(l, r)'
  BY <1>1 DEF FiledAt
<1>4. ASSUME NEW m \in Links, NEW q \in Ranks, FiledAt(m, q)'
      PROVE  FiledAt(m, q) \/ (m = l /\ q = r)
  BY <1>1, <1>4 DEF FiledAt
<1>5. ASSUME NEW m \in Links, NEW q \in Ranks, <<m, q>> \in dropped'
      PROVE  <<m, q>> \in dropped \/ FiledAt(m, q)
  BY <1>1, <1>5 DEF FiledAt
<1>6. \A q \in Ranks : \A k, n \in Keys :
        connections[q][k] = connections[q][n] /\ connections[q][k] # NoLink => k = n
  BY DEF Once
<1>7. ASSUME NEW m \in Links, NEW q \in Ranks, FiledAt(m, q)'
      PROVE  <<m, q>> \notin dropped'
  <2>1. SUFFICES ASSUME <<m, q>> \in dropped' PROVE FALSE
    OBVIOUS
  <2>2. PICK k \in Keys : connections'[q][k] = m
    BY <1>7 DEF FiledAt
  <2>3. m # NoLink
    BY TheEnds
  <2>4. CASE m = l /\ q = r
    BY <2>1, <2>4, <1>5
  <2>5. CASE ~(m = l /\ q = r)
    <3>1. connections[q][k] = m /\ (q = r => k # key)
      BY <2>2, <2>5, <1>1
    <3>2. <<m, q>> \notin dropped
      BY <3>1 DEF FiledAt, Placed
    <3>3. q = r /\ connections[r][key] = m
      BY <2>1, <3>2, <1>1
    <3> QED BY <3>1, <3>3, <2>3, <1>6
  <2> QED BY <2>4, <2>5
<1>8. ASSUME NEW q \in Ranks, NEW k \in Keys, NEW n \in Keys,
             connections'[q][k] = connections'[q][n], connections'[q][k] # NoLink
      PROVE  k = n
  <2>1. CASE q # r
    BY <2>1, <1>1, <1>6, <1>8
  <2>2. CASE q = r
    <3>1. \A i \in Keys : connections[r][i] # l
      BY DEF FiledAt
    <3> QED BY <2>2, <3>1, <1>1, <1>2, <1>6, <1>8
  <2> QED BY <2>1, <2>2
<1> QED BY <1>3, <1>4, <1>5, <1>7, <1>8

LEMMA QueuedOnce ==
  ASSUME Inv, NEW l \in Links, NEW items \in Seq(Items), Len(items) <= 1, Open(l, items), l \notin links
  PROVE  \A q \in Ranks : /\ \A i, j \in 1 .. Len(backlog'[q]) : backlog'[q][i] = backlog'[q][j] => i = j
                         /\ \A i \in 1 .. Len(backlog'[q]) : backlog'[q][i].to = q
<1> USE DEF Inv
<1>0. /\ backlog'[l.to] = Append(backlog[l.to], l)
      /\ \A q \in Ranks : q # l.to => backlog'[q] = backlog[q]
  BY Opened
<1>1. ASSUME NEW q \in Ranks
      PROVE  /\ \A i, j \in 1 .. Len(backlog'[q]) : backlog'[q][i] = backlog'[q][j] => i = j
             /\ \A i \in 1 .. Len(backlog'[q]) : backlog'[q][i].to = q
  <2>1. CASE q # l.to
    BY <2>1, <1>0 DEF Once
  <2>2. CASE q = l.to
    <3> DEFINE s == backlog[q]
               z == Append(s, l)
    <3>1. s \in Seq(Links) /\ backlog'[q] = z
      BY <2>2, <1>0 DEF Shape
    <3>2. /\ Len(z) = Len(s) + 1 /\ Len(s) \in Nat /\ z[Len(s) + 1] = l
          /\ \A i \in 1 .. Len(s) : z[i] = s[i]
      BY <3>1, <1>0, AppendProperties
    <3>3. /\ \A i, j \in 1 .. Len(s) : s[i] = s[j] => i = j
          /\ \A i \in 1 .. Len(s) : s[i].to = q
      BY DEF Once
    <3>4. \A i \in 1 .. Len(s) : s[i] # l
      BY <2>2, <1>0, FreshLink DEF Queued
    <3> HIDE DEF s, z
    <3>5. \A i, j \in 1 .. Len(z) : z[i] = z[j] => i = j
      BY <3>2, <3>3, <3>4
    <3>6. \A i \in 1 .. Len(z) : z[i].to = q
      BY <2>2, <3>2, <3>3
    <3> QED BY <3>1, <3>5, <3>6
  <2> QED BY <2>1, <2>2
<1> QED BY <1>1

LEMMA PlacesOfConnectNext ==
  ASSUME Inv, NEW r \in Ranks, ConnectNext(r)
  PROVE  Started' /\ Placed' /\ Once' /\ Called'
<1> DEFINE l == LinkOfNew(r)
<1> USE DEF Inv
<1>1. /\ created[r] = "connect" /\ dst[r] \in known[r] /\ Open(l, Handshake(l))
      /\ created' = [created EXCEPT ![r] = "insert"]
      /\ UNCHANGED <<dst, known, dropped, acceptor, connections, call>>
  BY DEF ConnectNext, caller
<1>2. /\ l \in Links /\ l \notin links /\ Handshake(l) \in Seq(Items) /\ Len(Handshake(l)) <= 1
  BY <1>1, LinksOpened
<1>3. l.from = r /\ l.to = dst[r] /\ l.via = "new"
  BY DEF LinkOfNew
<1> HIDE DEF l
<1>4. /\ links' = links \cup {l}
      /\ backlog'[l.to] = Append(backlog[l.to], l)
      /\ \A q \in Ranks : q # l.to => backlog'[q] = backlog[q]
      /\ \A m \in Links : Queued(m)' <=> Queued(m) \/ m = l
  BY <1>1, <1>2, Opened
<1>5. created \in [Ranks -> {"no", "connect", "insert", "yes"}]
  BY DEF Shape
<1>6. created'[r] = "insert" /\ \A q \in Ranks : q # r => created'[q] = created[q]
  BY <1>1, <1>5
<1>7. \A m \in Links : Opening(m)' => Opening(m) \/ m = l
  BY <1>1, <1>2, <1>3, <1>6, TheEnds, SameLink DEF Opening
<1>8. Started'
  <2>1. \A q \in Ranks : /\ created'[q] = "no" => dst'[q] = 0
                         /\ known'[q] \subseteq q + 1 .. WorldSize - 1
                         /\ created'[q] = "insert" => dst'[q] \in known'[q]
    BY <1>1, <1>6 DEF Started
  <2>2. ASSUME NEW m \in links', m.via = "new"
        PROVE  m.to < dst'[m.from] \/ (m.to = dst'[m.from] /\ created'[m.from] = "insert")
    <3>1. CASE m = l
      BY <3>1, <1>1, <1>3, <1>6
    <3>2. CASE m # l
      <4>1. m \in links /\ m.from \in Ranks
        BY <3>2, <1>4, TheEnds DEF Shape
      <4> QED BY <4>1, <2>2, <1>1, <1>6 DEF Started
    <3> QED BY <3>1, <3>2
  <2> QED BY <2>1, <2>2 DEF Started
<1>9. \A m \in Links : Accepting(m)' <=> Accepting(m)
  BY <1>1 DEF Accepting
<1>10. \A m \in Links, q \in Ranks : FiledAt(m, q)' <=> FiledAt(m, q)
  BY <1>1 DEF FiledAt
<1>11. Placed'
  <2>1. ASSUME NEW m \in Links
        PROVE  /\ Opening(m)' => m \in links' /\ ~FiledAt(m, m.from)' /\ <<m, m.from>> \notin dropped'
               /\ (Queued(m) \/ Accepting(m))' => m \in links' /\ ~FiledAt(m, m.to)' /\ <<m, m.to>> \notin dropped'
               /\ \A q \in Ranks : FiledAt(m, q)' =>
                    m \in links' /\ q \in {m.from, m.to} /\ <<m, q>> \notin dropped'
               /\ ~(Queued(m) /\ Accepting(m))'
    <3>1. m.from \in Ranks /\ m.to \in Ranks
      BY TheEnds
    <3>2. CASE m = l
      BY <3>1, <3>2, <1>1, <1>2, <1>4, <1>9, <1>10, FreshLink
    <3>3. CASE m # l
      BY <3>1, <3>3, <1>1, <1>4, <1>7, <1>9, <1>10 DEF Placed
    <3> QED BY <3>2, <3>3
  <2> QED BY <2>1 DEF Placed
<1>12. Once'
  <2>1. \A q \in Ranks : /\ \A i, j \in 1 .. Len(backlog'[q]) : backlog'[q][i] = backlog'[q][j] => i = j
                         /\ \A i \in 1 .. Len(backlog'[q]) : backlog'[q][i].to = q
    BY <1>1, <1>2, QueuedOnce
  <2> QED BY <2>1, <1>1 DEF Once
<1>13. Called'
  BY <1>1 DEF Called
<1> QED BY <1>8, <1>11, <1>12, <1>13

LEMMA PlacesKept ==
  ASSUME Placed, UNCHANGED <<links, dropped, backlog, acceptor, connections>>,
         \A m \in Links : Opening(m)' => Opening(m)
  PROVE  /\ Placed'
         /\ \A m \in Links : (Queued(m)' <=> Queued(m)) /\ (Unread(m)' <=> Unread(m))
<1>1. \A m \in Links : /\ Queued(m)' <=> Queued(m)
                       /\ Accepting(m)' <=> Accepting(m)
                       /\ Unread(m)' <=> Unread(m)
                       /\ \A q \in Ranks : FiledAt(m, q)' <=> FiledAt(m, q)
  BY DEF Queued, Accepting, Unread, FiledAt
<1>2. Placed'
  BY <1>1, TheEnds DEF Placed
<1> QED BY <1>1, <1>2

LEMMA PlacesOfInsertNext ==
  ASSUME Inv, NEW r \in Ranks, InsertNext(r)
  PROVE  Started' /\ Placed' /\ Once' /\ Called'
<1> DEFINE l == LinkOfNew(r)
           key == dst[r]
<1> USE DEF Inv
<1>1. /\ created[r] = "insert" /\ Insert(r, key, l)
      /\ created' = [created EXCEPT ![r] = "connect"]
      /\ dst' = [dst EXCEPT ![r] = @ + 1]
      /\ UNCHANGED <<known, links, backlog, acceptor, call>>
  BY DEF InsertNext, caller
<1>2. key \in Ranks /\ key # r /\ key \in Keys /\ key \in Nat
  <2>1. key \in r + 1 .. WorldSize - 1 /\ r \in Nat
    BY <1>1, TheRanks DEF Started
  <2> QED BY <2>1, TheRanks, TcpMeshAssumption DEF Ranks
<1>3. l \in Links /\ l.from = r /\ l.to = key /\ l.via = "new"
  BY <1>2 DEF LinkOfNew, Links
<1> HIDE DEF l, key
<1>4. Opening(l)
  BY <1>1, <1>3 DEF Opening, key
<1>5. l \in links /\ ~FiledAt(l, r) /\ <<l, r>> \notin dropped
  BY <1>3, <1>4 DEF Placed
<1>6. /\ created'[r] = "connect" /\ \A q \in Ranks : q # r => created'[q] = created[q] /\ dst'[q] = dst[q]
      /\ dst'[r] = key + 1
  BY <1>1 DEF Shape, key
<1>7. /\ \A m \in Links, q \in Ranks :
           /\ FiledAt(m, q)' => FiledAt(m, q) \/ (m = l /\ q = r)
           /\ FiledAt(m, q)' => <<m, q>> \notin dropped'
           /\ <<m, q>> \in dropped' => <<m, q>> \in dropped \/ FiledAt(m, q)
      /\ \A q \in Ranks : \A k, n \in Keys :
           connections'[q][k] = connections'[q][n] /\ connections'[q][k] # NoLink => k = n
  BY <1>1, <1>2, <1>3, <1>5, InsertPlaces
<1>8. \A m \in Links : Opening(m)' => Opening(m) /\ m # l
  BY <1>1, <1>3, <1>6, TheEnds DEF Opening
<1>9. Started'
  <2>1. \A q \in Ranks : /\ created'[q] = "no" => dst'[q] = 0
                         /\ known'[q] \subseteq q + 1 .. WorldSize - 1
                         /\ created'[q] = "insert" => dst'[q] \in known'[q]
    BY <1>1, <1>6 DEF Started
  <2>2. ASSUME NEW m \in links', m.via = "new"
        PROVE  m.to < dst'[m.from] \/ (m.to = dst'[m.from] /\ created'[m.from] = "insert")
    <3>1. m \in links /\ m.from \in Ranks /\ m.to \in Nat
      BY <1>1, TheEnds, TheRanks DEF Shape
    <3>2. m.to < dst[m.from] \/ (m.to = dst[m.from] /\ created[m.from] = "insert")
      BY <2>2, <3>1 DEF Started
    <3>3. CASE m.from = r
      <4>1. m.to < key \/ m.to = key
        BY <3>2, <3>3 DEF key
      <4> QED BY <4>1, <3>1, <3>3, <1>2, <1>6
    <3>4. CASE m.from # r
      BY <3>1, <3>2, <3>4, <1>6
    <3> QED BY <3>3, <3>4
  <2> QED BY <2>1, <2>2 DEF Started
<1>10. \A m \in Links : (Queued(m)' <=> Queued(m)) /\ (Accepting(m)' <=> Accepting(m))
  BY <1>1 DEF Queued, Accepting
<1>11. Placed'
  <2>1. ASSUME NEW m \in Links
        PROVE  /\ Opening(m)' => m \in links' /\ ~FiledAt(m, m.from)' /\ <<m, m.from>> \notin dropped'
               /\ (Queued(m) \/ Accepting(m))' => m \in links' /\ ~FiledAt(m, m.to)' /\ <<m, m.to>> \notin dropped'
               /\ \A q \in Ranks : FiledAt(m, q)' =>
                    m \in links' /\ q \in {m.from, m.to} /\ <<m, q>> \notin dropped'
               /\ ~(Queued(m) /\ Accepting(m))'
    <3>1. m.from \in Ranks /\ m.to \in Ranks /\ l.to # r
      BY <1>2, <1>3, TheEnds
    <3>2. Opening(m)' => m \in links' /\ ~FiledAt(m, m.from)' /\ <<m, m.from>> \notin dropped'
      BY <3>1, <1>1, <1>7, <1>8 DEF Placed
    <3>3. (Queued(m) \/ Accepting(m))' => m \in links' /\ ~FiledAt(m, m.to)' /\ <<m, m.to>> \notin dropped'
      BY <3>1, <1>1, <1>7, <1>10 DEF Placed
    <3>4. \A q \in Ranks : FiledAt(m, q)' =>
            m \in links' /\ q \in {m.from, m.to} /\ <<m, q>> \notin dropped'
      BY <1>1, <1>3, <1>5, <1>7 DEF Placed
    <3> QED BY <3>2, <3>3, <3>4, <1>10 DEF Placed
  <2> QED BY <2>1 DEF Placed
<1>12. Once' /\ Called'
  BY <1>1, <1>7 DEF Once, Called
<1> QED BY <1>9, <1>11, <1>12

LEMMA PlacesOfOtherNew ==
  ASSUME Inv, NEW r \in Ranks, NEW addresses \in SUBSET Ranks,
         Create(r, addresses) \/ SkipNext(r) \/ Created(r)
  PROVE  Started' /\ Placed' /\ Once' /\ Called'
<1> USE DEF Inv
<1>1. /\ UNCHANGED <<links, dropped, backlog, acceptor, connections, call>>
      /\ created[r] # "insert" /\ created'[r] # "insert" /\ created'[r] # "no"
      /\ \A q \in Ranks : q # r => created'[q] = created[q] /\ dst'[q] = dst[q] /\ known'[q] = known[q]
  BY DEF Create, SkipNext, Created, network, caller, Shape
<1>2. \A m \in Links : Opening(m)' => Opening(m)
  BY <1>1, TheEnds DEF Opening
<1>3. Placed' /\ Once' /\ Called'
  BY <1>1, <1>2, PlacesKept DEF Once, Called
<1>4. known'[r] \subseteq r + 1 .. WorldSize - 1
  BY DEF Create, SkipNext, Created, Shape, Started
<1>5. dst[r] <= dst'[r] /\ dst[r] \in Nat /\ dst'[r] \in Nat
  <2>1. dst[r] \in Nat /\ WorldSize \in Nat /\ r \in Nat
    BY TcpMeshAssumption, TheRanks DEF Shape
  <2>2. CASE Create(r, addresses)
    <3>1. dst[r] = 0 /\ dst'[r] = r + 1
      BY <2>2 DEF Create, Started, Shape
    <3> QED BY <2>1, <3>1
  <2>3. CASE SkipNext(r) \/ Created(r)
    BY <2>1, <2>3 DEF SkipNext, Created, Shape
  <2> QED BY <2>2, <2>3
<1>6. ASSUME NEW m \in links', m.via = "new"
      PROVE  m.to < dst'[m.from] \/ (m.to = dst'[m.from] /\ created'[m.from] = "insert")
  <2>1. m \in links /\ m.from \in Ranks /\ m.to \in Nat
    BY <1>1, TheEnds, TheRanks DEF Shape
  <2>2. m.to < dst[m.from] \/ (m.to = dst[m.from] /\ created[m.from] = "insert")
    BY <1>6, <2>1 DEF Started
  <2> QED BY <2>1, <2>2, <1>1, <1>5
<1>7. Started'
  BY <1>1, <1>4, <1>6 DEF Started
<1> QED BY <1>3, <1>7

LEMMA PlacesOfAccept ==
  ASSUME Inv, NEW r \in Ranks, Accept(r)
  PROVE  /\ Started' /\ Placed' /\ Once' /\ Called'
         /\ \A m \in Links : Unread(m)' <=> Unread(m)
<1> USE DEF Inv
<1>1. /\ acceptor[r].at = "accept" /\ backlog[r] # <<>>
      /\ acceptor' = [acceptor EXCEPT ![r] = [link |-> Head(backlog[r]), key |-> 0, at |-> "read"]]
      /\ backlog' = [backlog EXCEPT ![r] = Tail(@)]
      /\ UNCHANGED <<created, dst, known, links, dropped, connections, call>>
  BY DEF Accept, new, caller
<1>2. PICK l : l = Head(backlog[r])
  OBVIOUS
<1>3. backlog[r] \in Seq(Links)
  BY DEF Shape
<1>4. /\ l = backlog[r][1] /\ l \in Links /\ 1 \in 1 .. Len(backlog[r])
      /\ Len(Tail(backlog[r])) = Len(backlog[r]) - 1 /\ Len(backlog[r]) \in Nat
      /\ \A i \in 1 .. Len(Tail(backlog[r])) : Tail(backlog[r])[i] = backlog[r][i + 1]
  BY <1>1, <1>2, <1>3, EmptySeq, HeadTailProperties
<1>5. /\ backlog'[r] = Tail(backlog[r]) /\ \A q \in Ranks : q # r => backlog'[q] = backlog[q]
      /\ acceptor'[r].link = l /\ acceptor'[r].at = "read"
      /\ \A q \in Ranks : q # r => acceptor'[q] = acceptor[q]
  BY <1>1, <1>2 DEF Shape
<1>6. /\ \A i, j \in 1 .. Len(backlog[r]) : backlog[r][i] = backlog[r][j] => i = j
      /\ \A i \in 1 .. Len(backlog[r]) : backlog[r][i].to = r
  BY DEF Once
<1>7. l.to = r /\ Queued(l) /\ ~Accepting(l)
  <2>1. l.to = r
    BY <1>4, <1>6
  <2> QED BY <2>1, <1>1, <1>4 DEF Queued, Accepting
<1>8. ASSUME NEW m \in Links
      PROVE  /\ Queued(m)' <=> Queued(m) /\ m # l
             /\ Accepting(m)' <=> Accepting(m) \/ m = l
             /\ Unread(m)' <=> Unread(m)
  <2>1. m.to \in Ranks
    BY TheEnds
  <2>2. CASE m.to # r
    BY <2>1, <2>2, <1>5, <1>7 DEF Queued, Accepting, Unread
  <2>3. CASE m.to = r
    <3>1. \A i \in 2 .. Len(backlog[r]) : i - 1 \in 1 .. Len(backlog'[r]) /\ backlog'[r][i - 1] = backlog[r][i]
      BY <1>4, <1>5
    <3>2. \A i \in 1 .. Len(backlog'[r]) : i + 1 \in 2 .. Len(backlog[r]) /\ backlog'[r][i] = backlog[r][i + 1]
      BY <1>4, <1>5
    <3>3. (\E i \in 1 .. Len(backlog'[r]) : backlog'[r][i] = m) <=> (\E i \in 2 .. Len(backlog[r]) : backlog[r][i] = m)
      BY <3>1, <3>2
    <3>4. (\E i \in 2 .. Len(backlog[r]) : backlog[r][i] = m)
            <=> (\E i \in 1 .. Len(backlog[r]) : backlog[r][i] = m) /\ m # l
      BY <1>4, <1>6
    <3>5. Queued(m)' <=> Queued(m) /\ m # l
      BY <2>3, <3>3, <3>4 DEF Queued
    <3>6. (Accepting(m)' <=> m = l) /\ ~Accepting(m)
      BY <2>3, <1>1, <1>5 DEF Accepting
    <3>7. Unread(m)' <=> Queued(m)' \/ m = l
      BY <2>3, <1>5 DEF Unread
    <3>8. Unread(m) <=> Queued(m)
      BY <2>3, <1>1 DEF Unread
    <3> QED BY <3>5, <3>6, <3>7, <3>8, <1>7
  <2> QED BY <2>2, <2>3
<1>9. \A m \in Links, q \in Ranks : FiledAt(m, q)' <=> FiledAt(m, q)
  BY <1>1 DEF FiledAt
<1>10. \A m \in Links : Opening(m)' <=> Opening(m)
  BY <1>1 DEF Opening
<1>11. Placed'
  <2>1. ASSUME NEW m \in Links
        PROVE  /\ Opening(m)' => m \in links' /\ ~FiledAt(m, m.from)' /\ <<m, m.from>> \notin dropped'
               /\ (Queued(m) \/ Accepting(m))' => m \in links' /\ ~FiledAt(m, m.to)' /\ <<m, m.to>> \notin dropped'
               /\ \A q \in Ranks : FiledAt(m, q)' =>
                    m \in links' /\ q \in {m.from, m.to} /\ <<m, q>> \notin dropped'
               /\ ~(Queued(m) /\ Accepting(m))'
    BY <1>1, <1>7, <1>8, <1>9, <1>10, TheEnds DEF Placed
  <2> QED BY <2>1 DEF Placed
<1>12. Once'
  <2>1. /\ \A i, j \in 1 .. Len(backlog'[r]) : backlog'[r][i] = backlog'[r][j] => i = j
        /\ \A i \in 1 .. Len(backlog'[r]) : backlog'[r][i].to = r
    <3>1. \A i \in 1 .. Len(backlog'[r]) : i + 1 \in 1 .. Len(backlog[r]) /\ backlog'[r][i] = backlog[r][i + 1]
      BY <1>4, <1>5
    <3>2. ASSUME NEW i \in 1 .. Len(backlog'[r]), NEW j \in 1 .. Len(backlog'[r]),
                 backlog'[r][i] = backlog'[r][j]
          PROVE  i = j
      <4>1. i + 1 = j + 1 /\ i \in Int /\ j \in Int
        BY <3>1, <3>2, <1>6
      <4> QED BY <4>1
    <3> QED BY <3>1, <3>2, <1>6
  <2> QED BY <2>1, <1>1, <1>4, <1>5, <1>7 DEF Once
<1>13. Started' /\ Called'
  BY <1>1 DEF Started, Called
<1> QED BY <1>8, <1>11, <1>12, <1>13

LEMMA PlacesOfReadRank ==
  ASSUME Inv, NEW r \in Ranks, ReadRank(r)
  PROVE  Started' /\ Placed' /\ Once' /\ Called'
<1> USE DEF Inv
<1>1. /\ acceptor[r].at = "read"
      /\ UNCHANGED <<created, dst, known, links, dropped, backlog, connections, call>>
  BY DEF ReadRank, new, caller
<1>2. /\ acceptor'[r].at = "insert" /\ acceptor'[r].link = acceptor[r].link
      /\ \A q \in Ranks : q # r => acceptor'[q] = acceptor[q]
  BY DEF ReadRank, Shape
<1>3. \A m \in Links : /\ Queued(m)' <=> Queued(m)
                       /\ Accepting(m)' <=> Accepting(m)
                       /\ Opening(m)' <=> Opening(m)
                       /\ \A q \in Ranks : FiledAt(m, q)' <=> FiledAt(m, q)
  BY <1>1, <1>2, TheEnds DEF Queued, Accepting, Opening, FiledAt
<1>4. Placed'
  BY <1>1, <1>3, TheEnds DEF Placed
<1>5. Started' /\ Called'
  BY <1>1 DEF Started, Called
<1>6. Once'
  BY <1>1, <1>2 DEF Once
<1> QED BY <1>4, <1>5, <1>6

LEMMA PlacesOfReadRankFails ==
  ASSUME Inv, NEW r \in Ranks, ReadRankFails(r)
  PROVE  Started' /\ Placed' /\ Once' /\ Called'
<1> USE DEF Inv
<1>1. PICK l : l = acceptor[r].link
  OBVIOUS
<1>2. /\ acceptor[r].at = "read" /\ dropped' = dropped \cup {<<l, r>>}
      /\ UNCHANGED <<created, dst, known, links, backlog, connections, call>>
  BY <1>1 DEF ReadRankFails, new, caller
<1>3. acceptor'[r] = NotAccepting /\ \A q \in Ranks : q # r => acceptor'[q] = acceptor[q]
  BY DEF ReadRankFails, Shape
<1>4. l \in Links /\ l.to = r /\ Accepting(l)
  BY <1>1, <1>2, Accepted DEF Accepting
<1>5. ~Queued(l) /\ ~FiledAt(l, r)
  BY <1>4 DEF Placed
<1>6. \A m \in Links : /\ Queued(m)' <=> Queued(m)
                       /\ Accepting(m)' => Accepting(m)
                       /\ m = l => ~Accepting(m)'
                       /\ Opening(m)' <=> Opening(m)
                       /\ \A q \in Ranks : FiledAt(m, q)' <=> FiledAt(m, q)
  <2> TAKE m \in Links
  <2>1. m.to \in Ranks /\ NotAccepting.at = "accept"
    BY TheEnds DEF NotAccepting
  <2>2. (Queued(m)' <=> Queued(m)) /\ (Opening(m)' <=> Opening(m))
    BY <1>2 DEF Queued, Opening
  <2>3. (Accepting(m)' => Accepting(m)) /\ (m = l => ~Accepting(m)')
    <3>1. CASE m.to = r
      BY <2>1, <3>1, <1>3 DEF Accepting
    <3>2. CASE m.to # r
      BY <2>1, <3>2, <1>3, <1>4 DEF Accepting
    <3> QED BY <3>1, <3>2
  <2>4. \A q \in Ranks : FiledAt(m, q)' <=> FiledAt(m, q)
    BY <1>2 DEF FiledAt
  <2> QED BY <2>2, <2>3, <2>4
<1>7. Placed'
  <2>1. ASSUME NEW m \in Links
        PROVE  /\ Opening(m)' => m \in links' /\ ~FiledAt(m, m.from)' /\ <<m, m.from>> \notin dropped'
               /\ (Queued(m) \/ Accepting(m))' => m \in links' /\ ~FiledAt(m, m.to)' /\ <<m, m.to>> \notin dropped'
               /\ \A q \in Ranks : FiledAt(m, q)' =>
                    m \in links' /\ q \in {m.from, m.to} /\ <<m, q>> \notin dropped'
               /\ ~(Queued(m) /\ Accepting(m))'
    <3>1. m.from \in Ranks /\ m.to \in Ranks /\ m.from # m.to
      BY TheEnds
    <3> QED BY <3>1, <1>2, <1>4, <1>5, <1>6 DEF Placed
  <2> QED BY <2>1 DEF Placed
<1>8. Started' /\ Called'
  BY <1>2 DEF Started, Called
<1>9. Once'
  BY <1>2, <1>3 DEF Once, NotAccepting
<1> QED BY <1>7, <1>8, <1>9

LEMMA PlacesOfInsertAccepted ==
  ASSUME Inv, NEW r \in Ranks, InsertAccepted(r)
  PROVE  Started' /\ Placed' /\ Once' /\ Called'
<1> USE DEF Inv
<1>1. PICK l, key : l = acceptor[r].link /\ key = acceptor[r].key
  OBVIOUS
<1>2. /\ acceptor[r].at = "insert" /\ Insert(r, key, l)
      /\ UNCHANGED <<created, dst, known, links, backlog, call>>
  BY <1>1 DEF InsertAccepted, new, caller
<1>3. acceptor'[r] = NotAccepting /\ \A q \in Ranks : q # r => acceptor'[q] = acceptor[q]
  BY DEF InsertAccepted, Shape
<1>4. l \in Links /\ key \in Keys /\ l.to = r /\ Accepting(l)
  BY <1>1, <1>2, Accepted DEF Accepting
<1>5. l \in links /\ ~Queued(l) /\ ~FiledAt(l, r) /\ <<l, r>> \notin dropped
  BY <1>4 DEF Placed
<1>6. /\ \A m \in Links, q \in Ranks :
           /\ FiledAt(m, q)' => FiledAt(m, q) \/ (m = l /\ q = r)
           /\ FiledAt(m, q)' => <<m, q>> \notin dropped'
           /\ <<m, q>> \in dropped' => <<m, q>> \in dropped \/ FiledAt(m, q)
      /\ \A q \in Ranks : \A k, n \in Keys :
           connections'[q][k] = connections'[q][n] /\ connections'[q][k] # NoLink => k = n
  BY <1>2, <1>4, <1>5, InsertPlaces
<1>7. \A m \in Links : /\ Queued(m)' <=> Queued(m)
                       /\ Accepting(m)' => Accepting(m)
                       /\ m = l => ~Accepting(m)'
                       /\ Opening(m)' <=> Opening(m)
  <2> TAKE m \in Links
  <2>1. m.to \in Ranks /\ NotAccepting.at = "accept"
    BY TheEnds DEF NotAccepting
  <2>2. (Queued(m)' <=> Queued(m)) /\ (Opening(m)' <=> Opening(m))
    BY <1>2 DEF Queued, Opening
  <2>3. (Accepting(m)' => Accepting(m)) /\ (m = l => ~Accepting(m)')
    <3>1. CASE m.to = r
      BY <2>1, <3>1, <1>3 DEF Accepting
    <3>2. CASE m.to # r
      BY <2>1, <3>2, <1>3, <1>4 DEF Accepting
    <3> QED BY <3>1, <3>2
  <2> QED BY <2>2, <2>3
<1>8. Placed'
  <2>1. ASSUME NEW m \in Links
        PROVE  /\ Opening(m)' => m \in links' /\ ~FiledAt(m, m.from)' /\ <<m, m.from>> \notin dropped'
               /\ (Queued(m) \/ Accepting(m))' => m \in links' /\ ~FiledAt(m, m.to)' /\ <<m, m.to>> \notin dropped'
               /\ \A q \in Ranks : FiledAt(m, q)' =>
                    m \in links' /\ q \in {m.from, m.to} /\ <<m, q>> \notin dropped'
               /\ ~(Queued(m) /\ Accepting(m))'
    <3>1. m.from \in Ranks /\ m.to \in Ranks /\ m.from # m.to
      BY TheEnds
    <3>2. Opening(m)' => m \in links' /\ ~FiledAt(m, m.from)' /\ <<m, m.from>> \notin dropped'
      BY <3>1, <1>2, <1>4, <1>6, <1>7 DEF Placed
    <3>3. (Queued(m) \/ Accepting(m))' => m \in links' /\ ~FiledAt(m, m.to)' /\ <<m, m.to>> \notin dropped'
      BY <3>1, <1>2, <1>5, <1>6, <1>7 DEF Placed
    <3>4. \A q \in Ranks : FiledAt(m, q)' =>
            m \in links' /\ q \in {m.from, m.to} /\ <<m, q>> \notin dropped'
      BY <1>2, <1>4, <1>5, <1>6 DEF Placed
    <3> QED BY <3>2, <3>3, <3>4, <1>7 DEF Placed
  <2> QED BY <2>1 DEF Placed
<1>9. Started' /\ Called'
  BY <1>2 DEF Started, Called
<1>10. Once'
  BY <1>2, <1>3, <1>6 DEF Once, NotAccepting
<1> QED BY <1>8, <1>9, <1>10

LEMMA PlacesOfCalls ==
  ASSUME Inv, NEW r \in Ranks, NEW t \in Tasks, NEW peer \in Ranks, NEW size \in Sizes \cup {0},
         (Send(r, t, peer, size) /\ size \in Sizes) \/ Recv(r, t, peer)
  PROVE  Started' /\ Placed' /\ Once' /\ Called'
<1> USE DEF Inv
<1>1. UNCHANGED <<created, dst, known, links, dropped, backlog, acceptor, connections>>
  BY DEF Send, Recv, Begin, new
<1>2. /\ \A q \in Ranks, u \in Tasks : <<q, u>> # <<r, t>> => call'[q][u] = call[q][u]
      /\ \/ call'[r][t].op = "send" /\ call'[r][t].size = size /\ size \in Sizes
         \/ call'[r][t].op = "recv"
      /\ call'[r][t].peer = peer /\ peer # r
  BY Beginning DEF Send, Recv
<1>3. \A m \in Links : Opening(m)' => Opening(m)
  BY <1>1, <1>2, TheEnds DEF Opening
<1>4. Placed'
  BY <1>1, <1>3, PlacesKept
<1>5. Started' /\ Called'
  BY <1>1, <1>2 DEF Started, Called
<1>6. Once'
  BY <1>1, <1>2 DEF Once
<1> QED BY <1>4, <1>5, <1>6

LEMMA PlacesOfConnectTo ==
  ASSUME Inv, NEW r \in Ranks, NEW t \in Tasks, NEW peer \in Ranks, ConnectTo(r, t, peer)
  PROVE  Started' /\ Placed' /\ Once' /\ Called'
<1> USE DEF Inv
<1>1. PICK l : l = LinkOfConnectTo(r, peer)
  OBVIOUS
<1>2. /\ Begin(r, t, "connect", peer, 0) /\ Open(l, <<>>) /\ l \notin links
      /\ UNCHANGED <<created, dst, known, dropped, acceptor, connections>>
  BY <1>1 DEF ConnectTo, Begin, new
<1>3. /\ call'[r][t].op = "connect" /\ call'[r][t].peer = peer /\ peer # r /\ call[r][t] = Idle
      /\ \A q \in Ranks, u \in Tasks : <<q, u>> # <<r, t>> => call'[q][u] = call[q][u]
  BY <1>2, Beginning
<1>4. l \in Links /\ l.from = r /\ l.to = peer /\ l.via = "connect_to"
  BY <1>1, <1>3, LinksOpened DEF LinkOfConnectTo
<1>5. <<>> \in Seq(Items) /\ Len(<<>>) <= 1
  BY EmptySeq
<1>6. links' = links \cup {l} /\ \A m \in Links : Queued(m)' <=> Queued(m) \/ m = l
  BY <1>2, <1>4, <1>5, Opened
<1>7. ASSUME NEW m \in Links, Opening(m)'
      PROVE  Opening(m) \/ m = l
  <2>1. CASE m.via = "new"
    BY <2>1, <1>2, <1>7 DEF Opening
  <2>2. CASE m.via # "new"
    <3>1. PICK u \in Tasks : call'[m.from][u].op = "connect" /\ call'[m.from][u].peer = m.to
      BY <2>2, <1>7 DEF Opening
    <3>2. m.from \in Ranks /\ m.via = "connect_to"
      BY <2>2, TheEnds
    <3>3. CASE m.from = r /\ u = t
      BY <3>1, <3>2, <3>3, <1>3, <1>4, SameLink
    <3>4. CASE ~(m.from = r /\ u = t)
      BY <3>1, <3>2, <3>4, <1>3 DEF Opening
    <3> QED BY <3>3, <3>4
  <2> QED BY <2>1, <2>2
<1>8. \A m \in Links : Accepting(m)' <=> Accepting(m)
  BY <1>2 DEF Accepting
<1>9. \A m \in Links, q \in Ranks : FiledAt(m, q)' <=> FiledAt(m, q)
  BY <1>2 DEF FiledAt
<1>10. Placed'
  <2>1. ASSUME NEW m \in Links
        PROVE  /\ Opening(m)' => m \in links' /\ ~FiledAt(m, m.from)' /\ <<m, m.from>> \notin dropped'
               /\ (Queued(m) \/ Accepting(m))' => m \in links' /\ ~FiledAt(m, m.to)' /\ <<m, m.to>> \notin dropped'
               /\ \A q \in Ranks : FiledAt(m, q)' =>
                    m \in links' /\ q \in {m.from, m.to} /\ <<m, q>> \notin dropped'
               /\ ~(Queued(m) /\ Accepting(m))'
    <3>1. m.from \in Ranks /\ m.to \in Ranks
      BY TheEnds
    <3>2. CASE m = l
      BY <3>1, <3>2, <1>2, <1>4, <1>6, <1>8, <1>9, FreshLink
    <3>3. CASE m # l
      BY <3>1, <3>3, <1>2, <1>6, <1>7, <1>8, <1>9 DEF Placed
    <3> QED BY <3>2, <3>3
  <2> QED BY <2>1 DEF Placed
<1>11. Once'
  <2>1. \A q \in Ranks : /\ \A i, j \in 1 .. Len(backlog'[q]) : backlog'[q][i] = backlog'[q][j] => i = j
                         /\ \A i \in 1 .. Len(backlog'[q]) : backlog'[q][i].to = q
    BY <1>2, <1>4, <1>5, QueuedOnce
  <2>2. \A u \in Tasks : call[r][u].op = "connect" => call[r][u].peer # peer
    BY <1>2, <1>4, FreshLink DEF Opening
  <2>3. \A q \in Ranks : \A u, v \in Tasks :
          call'[q][u].op = "connect" /\ call'[q][v].op = "connect"
            /\ call'[q][u].peer = call'[q][v].peer => u = v
    BY <1>3, <2>2 DEF Once
  <2> QED BY <2>1, <2>3, <1>2 DEF Once
<1>12. Started'
  BY <1>2, <1>4, <1>6 DEF Started
<1>13. Called'
  BY <1>3 DEF Called
<1> QED BY <1>10, <1>11, <1>12, <1>13

LEMMA PlacesOfInsertConnected ==
  ASSUME Inv, NEW r \in Ranks, NEW t \in Tasks, InsertConnected(r, t)
  PROVE  Started' /\ Placed' /\ Once' /\ Called'
<1> USE DEF Inv
<1>1. PICK l, key : l = LinkOfConnectTo(r, call[r][t].peer) /\ key = call[r][t].peer
  OBVIOUS
<1>2. /\ Holds(r, t) /\ call[r][t].op = "connect" /\ Insert(r, key, l) /\ Return(r, t)
      /\ UNCHANGED <<created, dst, known, links, backlog, acceptor>>
  BY <1>1 DEF InsertConnected, new
<1>3. /\ call'[r][t] = Idle
      /\ \A q \in Ranks, u \in Tasks : <<q, u>> # <<r, t>> => call'[q][u] = call[q][u]
  BY <1>2, Returning
<1>4. key \in Ranks /\ key \in Keys /\ key # r
  BY <1>1, <1>2, TheCalls, TheRanks DEF Shape, Called, Calls
<1>5. l \in Links /\ l.from = r /\ l.to = key /\ l.via = "connect_to"
  BY <1>1, <1>4, LinksOpened DEF LinkOfConnectTo
<1>6. Opening(l)
  BY <1>1, <1>2, <1>5 DEF Opening
<1>7. l \in links /\ ~FiledAt(l, r) /\ <<l, r>> \notin dropped
  BY <1>5, <1>6 DEF Placed
<1>8. /\ \A m \in Links, q \in Ranks :
           /\ FiledAt(m, q)' => FiledAt(m, q) \/ (m = l /\ q = r)
           /\ FiledAt(m, q)' => <<m, q>> \notin dropped'
           /\ <<m, q>> \in dropped' => <<m, q>> \in dropped \/ FiledAt(m, q)
      /\ \A q \in Ranks : \A k, n \in Keys :
           connections'[q][k] = connections'[q][n] /\ connections'[q][k] # NoLink => k = n
  BY <1>2, <1>4, <1>5, <1>7, InsertPlaces
<1>9. ASSUME NEW m \in Links
      PROVE  Opening(m)' => Opening(m) /\ m # l
  <2>1. Idle.op = "none" /\ m.from \in Ranks
    BY TheCalls, TheEnds
  <2>2. \A u \in Tasks : call'[r][u].op = "connect" => u # t /\ call[r][u].op = "connect" /\ call'[r][u].peer = call[r][u].peer
    BY <1>3, <2>1
  <2>3. \A u \in Tasks : call'[r][u].op = "connect" => call'[r][u].peer # key
    BY <1>1, <1>2, <2>2 DEF Once
  <2>4. CASE m = l
    BY <2>3, <2>4, <1>5 DEF Opening
  <2>5. CASE m # l
    BY <2>1, <2>2, <2>5, <1>2, <1>3 DEF Opening
  <2> QED BY <2>4, <2>5
<1>10. \A m \in Links : (Queued(m)' <=> Queued(m)) /\ (Accepting(m)' <=> Accepting(m))
  BY <1>2 DEF Queued, Accepting
<1>11. Placed'
  <2>1. ASSUME NEW m \in Links
        PROVE  /\ Opening(m)' => m \in links' /\ ~FiledAt(m, m.from)' /\ <<m, m.from>> \notin dropped'
               /\ (Queued(m) \/ Accepting(m))' => m \in links' /\ ~FiledAt(m, m.to)' /\ <<m, m.to>> \notin dropped'
               /\ \A q \in Ranks : FiledAt(m, q)' =>
                    m \in links' /\ q \in {m.from, m.to} /\ <<m, q>> \notin dropped'
               /\ ~(Queued(m) /\ Accepting(m))'
    <3>1. m.from \in Ranks /\ m.to \in Ranks /\ l.to # r
      BY <1>4, <1>5, TheEnds
    <3>2. Opening(m)' => m \in links' /\ ~FiledAt(m, m.from)' /\ <<m, m.from>> \notin dropped'
      BY <3>1, <1>2, <1>8, <1>9 DEF Placed
    <3>3. (Queued(m) \/ Accepting(m))' => m \in links' /\ ~FiledAt(m, m.to)' /\ <<m, m.to>> \notin dropped'
      BY <3>1, <1>2, <1>8, <1>10 DEF Placed
    <3>4. \A q \in Ranks : FiledAt(m, q)' =>
            m \in links' /\ q \in {m.from, m.to} /\ <<m, q>> \notin dropped'
      BY <1>2, <1>5, <1>7, <1>8 DEF Placed
    <3> QED BY <3>2, <3>3, <3>4, <1>10 DEF Placed
  <2> QED BY <2>1 DEF Placed
<1>12. Started'
  BY <1>2 DEF Started
<1>13. Called'
  BY <1>3, TheCalls DEF Called
<1>14. Once'
  BY <1>2, <1>3, <1>8, TheCalls DEF Once
<1> QED BY <1>11, <1>12, <1>13, <1>14

\* The steps of a task that holds the mutex to send or receive.
Transfer(r, t) ==
  /\ Holds(r, t)
  /\ call[r][t].op \in {"send", "recv"}
  /\ \/ Return(r, t)
     \/ GoOn(r, t) /\ call[r][t] # Idle
  /\ UNCHANGED <<new, links, dropped, backlog, acceptor, connections>>

LEMMA Transferring ==
  ASSUME NEW r \in Ranks, NEW t \in Tasks
  PROVE  \/ NoConnection(r, t) \/ IoError(r, t) \/ ReadAnything(r, t)
         \/ WriteLength(r, t) \/ WritePayload(r, t) \/ ReadLength(r, t) \/ ReadPayload(r, t)
         => Transfer(r, t)
<1>1. call[r][t].op \in {"send", "recv"} => call[r][t] # Idle
  BY TheCalls
<1>2. NoConnection(r, t) \/ IoError(r, t) \/ ReadAnything(r, t) => Transfer(r, t)
  BY DEF NoConnection, IoError, ReadAnything, Doing, Transfer, network
<1>3. WriteLength(r, t) \/ WritePayload(r, t) => Transfer(r, t)
  BY <1>1 DEF WriteLength, WritePayload, Doing, Transfer
<1>4. ReadLength(r, t) \/ ReadPayload(r, t) => Transfer(r, t)
  BY <1>1 DEF ReadLength, ReadPayload, Doing, Transfer
<1> QED BY <1>2, <1>3, <1>4

LEMMA TransferCalls ==
  ASSUME Shape, NEW r \in Ranks, NEW t \in Tasks, Transfer(r, t)
  PROVE  /\ \A q \in Ranks, u \in Tasks : <<q, u>> # <<r, t>> => call'[q][u] = call[q][u]
         /\ \/ call'[r][t] = Idle
            \/ /\ call'[r][t].at = "payload" /\ call'[r][t].op = call[r][t].op
               /\ call'[r][t].peer = call[r][t].peer /\ call'[r][t].no = call[r][t].no
               /\ call'[r][t].size = call[r][t].size
               /\ mutex' = mutex
         /\ \A q \in Ranks \ {r} : \A w : Holds(q, w) => Holds(q, w)'
<1>1. CASE Return(r, t)
  BY <1>1, Returning DEF Transfer
<1>2. CASE GoOn(r, t) /\ call[r][t] # Idle
  BY <1>2, GoingOn DEF Transfer, Holds
<1> QED BY <1>1, <1>2 DEF Transfer

LEMMA PlacesOfTransfer ==
  ASSUME Inv, NEW r \in Ranks, NEW t \in Tasks, Transfer(r, t)
  PROVE  /\ Started' /\ Placed' /\ Once' /\ Called'
         /\ \A m \in Links : Unread(m)' <=> Unread(m)
<1> USE DEF Inv
<1>1. UNCHANGED <<created, dst, known, links, dropped, backlog, acceptor, connections>>
  BY DEF Transfer, new
<1>2. /\ \A q \in Ranks, u \in Tasks : <<q, u>> # <<r, t>> => call'[q][u] = call[q][u]
      /\ \/ call'[r][t] = Idle
         \/ /\ call'[r][t].op = call[r][t].op /\ call'[r][t].size = call[r][t].size
            /\ call'[r][t].peer = call[r][t].peer
      /\ call[r][t].op # "connect" /\ call'[r][t].op # "connect"
  BY TransferCalls, TheCalls DEF Transfer
<1>3. \A m \in Links : Opening(m)' => Opening(m)
  BY <1>1, <1>2, TheEnds DEF Opening
<1>4. Placed' /\ \A m \in Links : Unread(m)' <=> Unread(m)
  BY <1>1, <1>3, PlacesKept
<1>5. Started' /\ Called'
  BY <1>1, <1>2, TheCalls DEF Started, Called
<1>6. Once'
  BY <1>1, <1>2 DEF Once
<1> QED BY <1>4, <1>5, <1>6
------------------------------------------------------------------------------
(* Steps that leave every frame that is half written or half read alone.   *)

Quiet ==
  \A q \in Ranks, u \in Tasks : call[q][u].at = "payload" \/ call'[q][u].at = "payload" =>
    call'[q][u] = call[q][u] /\ connections'[q] = connections[q] /\ Holds(q, u)'

LEMMA LinkIsFiled ==
  ASSUME Shape, NEW q \in Ranks, NEW u \in Tasks, Link(q, u) # NoLink
  PROVE  Link(q, u) \in Links /\ FiledAt(Link(q, u), q) /\ call[q][u].peer \in Keys
<1>1. call[q][u].peer \in Ranks
  <2>1. call[q][u] \in Calls \cup {Idle} /\ 0 \in Ranks
    BY TheRanks DEF Shape
  <2> QED BY <2>1 DEF Calls, Idle
<1>2. call[q][u].peer \in Keys
  BY <1>1, TheRanks
<1> QED BY <1>2 DEF Link, FiledAt, Shape

LEMMA HalfwayIsFiled ==
  ASSUME Shape, NEW e \in Ends
  PROVE  /\ Wanted(e) = "payload" => FiledAt(e[1], e[2])
         /\ Owed(e) = "payload" => FiledAt(e[1], Other(e[1], e[2]))
         /\ Wanted(e) \in {"word", "payload"} /\ Owed(e) \in {"word", "payload"}
BY LinkIsFiled, AnEnd, TheEnds DEF Wanted, Owed

LEMMA QuietSteps ==
  ASSUME Busy, Quiet, UNCHANGED sent
  PROVE  Busy' /\ \A e \in Ends : Wanted(e)' = Wanted(e) /\ Owed(e)' = Owed(e)
<1>1. ASSUME NEW q \in Ranks, NEW u \in Tasks, call[q][u].at = "payload" \/ call'[q][u].at = "payload"
      PROVE  /\ call'[q][u] = call[q][u] /\ Link(q, u)' = Link(q, u) /\ Holds(q, u)'
             /\ OutEnd(q, u)' = OutEnd(q, u) /\ Frame(q, u)' = Frame(q, u)
  BY <1>1 DEF Quiet, Link, OutEnd, Frame
<1>2. Busy'
  BY <1>1 DEF Busy
<1>3. ASSUME NEW e \in Ends PROVE Wanted(e)' = Wanted(e)
  BY <1>1, AnEnd DEF Wanted
<1>4. ASSUME NEW e \in Ends PROVE Owed(e)' = Owed(e)
  BY <1>1, AnEnd DEF Owed
<1> QED BY <1>2, <1>3, <1>4

LEMMA StreamKept ==
  ASSUME Streams, NEW e \in Ends, Live(e),
         wire'[e] = wire[e], sent'[e] = sent[e], received'[e] = received[e],
         Wanted(e)' = Wanted(e), Owed(e)' = Owed(e),
         e[2] = e[1].to => (Unread(e[1])' <=> Unread(e[1]))
  PROVE  Flow(OnTheWire(e)', sent'[e], Done(e)', Wanted(e)', Owed(e)')
<1>1. OnTheWire(e)' = OnTheWire(e)
  BY DEF OnTheWire
<1>2. Done(e)' = Done(e)
  BY DEF Done
<1> QED BY <1>1, <1>2 DEF Streams

\* Nothing moves on any connection; ends may be filed or dropped.
LEMMA Still ==
  ASSUME Inv, Quiet, UNCHANGED <<links, wire, history>>,
         dropped \subseteq dropped',
         \A m \in Links, q \in Ranks : <<m, q>> \in dropped' => <<m, q>> \in dropped \/ m \in links,
         \A m \in Links : Unread(m)' => Unread(m),
         \A m \in Links : Unread(m) /\ ~Unread(m)' => <<m, m.to>> \in dropped',
         \A q \in Ranks : acceptor'[q].at = "insert" => acceptor'[q] = acceptor[q]
  PROVE  Busy' /\ Introduced' /\ Unopened' /\ Streams' /\ FramesInOrder'
<1> USE DEF Inv
<1>1. UNCHANGED <<sent, received, misframed>>
  BY DEF history
<1>2. Busy' /\ \A e \in Ends : Wanted(e)' = Wanted(e) /\ Owed(e)' = Owed(e)
  BY <1>1, QuietSteps
<1>3. Introduced'
  BY <1>1, TheEnds DEF Introduced
<1>4. Unopened'
  BY <1>1, AnEnd DEF Unopened
<1>5. Streams'
  <2>1. ASSUME NEW e \in Ends, Live(e)'
        PROVE  Flow(OnTheWire(e)', sent'[e], Done(e)', Wanted(e)', Owed(e)')
    <3>1. e[1] \in Links /\ e = <<e[1], e[2]>>
      BY AnEnd
    <3>2. Live(e)
      BY <2>1, <1>1 DEF Live
    <3>3. e[2] = e[1].to => (Unread(e[1])' <=> Unread(e[1]))
      BY <2>1, <3>1 DEF Live
    <3> QED BY <3>2, <3>3, <1>1, <1>2, StreamKept
  <2> QED BY <2>1 DEF Streams
<1>6. FramesInOrder'
  BY <1>1 DEF FramesInOrder
<1> QED BY <1>2, <1>3, <1>4, <1>5, <1>6

\* A connection is opened.
LEMMA StillWhenOpened ==
  ASSUME Inv, Quiet, NEW l \in Links, l \notin links, NEW items \in Seq(Items), Open(l, items),
         items = (IF l.via = "new" THEN Handshake(l) ELSE <<>>),
         UNCHANGED <<dropped, acceptor, connections, history>>
  PROVE  Busy' /\ Introduced' /\ Unopened' /\ Streams' /\ FramesInOrder' /\ FiledUnderItsRank'
<1> USE DEF Inv
<1>1. UNCHANGED <<sent, received, misframed>>
  BY DEF history
<1>2. Busy' /\ \A e \in Ends : Wanted(e)' = Wanted(e) /\ Owed(e)' = Owed(e)
  BY <1>1, QuietSteps
<1>3. Len(items) <= 1
  BY EmptySeq DEF Handshake
<1>4. /\ links' = links \cup {l} /\ wire'[<<l, l.to>>] = items
      /\ \A e \in Ends : e # <<l, l.to>> => wire'[e] = wire[e]
      /\ \A m \in Links : Queued(m)' <=> Queued(m) \/ m = l
  BY <1>3, Opened
<1>5. /\ l.to \in Ranks /\ l.from \in Ranks /\ l.from # l.to
      /\ <<l, l.to>> \in Ends /\ <<l, l.from>> \in Ends
  BY TheEnds
<1>6. \A m \in Links : Unread(m)' <=> Unread(m) \/ m = l
  BY <1>4 DEF Unread
<1>7. \A e \in Ends : e[1] = l => wire[e] = <<>> /\ sent[e] = <<>> /\ received[e] = <<>>
  BY DEF Unopened
<1>8. Introduced'
  <2>1. ASSUME NEW m \in Links, Unread(m)'
        PROVE  /\ received'[<<m, m.to>>] = <<>>
               /\ m.via = "new" => wire'[<<m, m.to>>] # <<>> /\ Head(wire'[<<m, m.to>>]) = Word(m.from, NoFrame)
    <3>1. <<m, m.to>> \in Ends
      BY TheEnds
    <3>2. CASE m = l
      BY <3>2, <1>1, <1>4, <1>5, <1>7 DEF Handshake
    <3>3. CASE m # l
      BY <2>1, <3>1, <3>3, <1>1, <1>4, <1>6 DEF Introduced
    <3> QED BY <3>2, <3>3
  <2> QED BY <2>1 DEF Introduced
<1>9. Unopened'
  BY <1>1, <1>4, AnEnd DEF Unopened
<1>10. Streams'
  <2>1. ASSUME NEW e \in Ends, Live(e)'
        PROVE  Flow(OnTheWire(e)', sent'[e], Done(e)', Wanted(e)', Owed(e)')
    <3>1. e[1] \in Links /\ e = <<e[1], e[2]>> /\ e[2] \in {e[1].from, e[1].to}
      BY AnEnd
    <3>2. CASE e[1] = l
      <4>1. sent'[e] = <<>> /\ received'[e] = <<>> /\ Unread(l)'
        BY <3>2, <1>1, <1>6, <1>7
      <4>2. Wanted(e)' = "word" /\ Owed(e)' = "word"
        BY <3>1, <3>2, <1>2, HalfwayIsFiled, FreshLink, AnEnd
      <4>3. OnTheWire(e)' = <<>>
        <5>1. CASE e[2] = l.to
          <6>1. wire'[e] = items
            BY <3>1, <3>2, <5>1, <1>4
          <6>2. l.via = "new" => Tail(items) = <<>>
            BY DEF Handshake
          <6> QED BY <3>2, <4>1, <5>1, <6>1, <6>2, TheEnds DEF OnTheWire
        <5>2. CASE e[2] # l.to
          BY <3>1, <3>2, <5>2, <1>4, <1>7 DEF OnTheWire
        <5> QED BY <5>1, <5>2
      <4>4. Done(e)' = 0
        BY <3>2, <4>1 DEF Done
      <4> QED BY <4>1, <4>2, <4>3, <4>4 DEF Flow
    <3>3. CASE e[1] # l
      <4>1. Live(e)
        BY <2>1, <3>3, <1>1, <1>4 DEF Live
      <4>2. wire'[e] = wire[e] /\ (Unread(e[1])' <=> Unread(e[1]))
        BY <3>1, <3>3, <1>4, <1>6
      <4> QED BY <4>1, <4>2, <1>1, <1>2, StreamKept
    <3> QED BY <3>2, <3>3
  <2> QED BY <2>1 DEF Streams
<1>11. FramesInOrder' /\ FiledUnderItsRank'
  BY <1>1 DEF FramesInOrder, FiledUnderItsRank
<1> QED BY <1>2, <1>8, <1>9, <1>10, <1>11

\* Only the holder of the mutex is half way: what another step does to the map or
\* to its own call disturbs nobody.
LEMMA QuietByHolder ==
  ASSUME Inv, NEW r \in Ranks, NEW who, Holds(r, who),
         who \in Tasks => call[r][who].at # "payload",
         \A q \in Ranks, u \in Tasks : <<q, u>> # <<r, who>> => call'[q][u] = call[q][u],
         who \in Tasks => call'[r][who].at # "payload",
         \A q \in Ranks : q # r => connections'[q] = connections[q],
         \A q \in Ranks \ {r} : \A w : Holds(q, w) => Holds(q, w)'
  PROVE  Quiet
<1>1. \A u \in Tasks : call[r][u].at # "payload" /\ call'[r][u].at # "payload"
  BY Alone DEF Inv
<1>2. \A q \in Ranks, u \in Tasks : call[q][u].at = "payload" => Holds(q, u)
  BY DEF Inv, Busy
<1> QED BY <1>1, <1>2 DEF Quiet

LEMMA QuietByOthers ==
  ASSUME Inv, UNCHANGED connections,
         \A q \in Ranks, u \in Tasks : call'[q][u] = call[q][u] \/ (call[q][u] = Idle /\ call'[q][u].at = "lock"),
         \A q \in Ranks : \A w : Holds(q, w) => Holds(q, w)'
  PROVE  Quiet
<1>1. \A q \in Ranks, u \in Tasks : call[q][u].at = "payload" => Holds(q, u)
  BY DEF Inv, Busy
<1> QED BY <1>1, TheCalls DEF Quiet

LEMMA RestOfNew ==
  ASSUME Inv, NEW r \in Ranks
  PROVE  /\ \A addresses \in SUBSET Ranks : Create(r, addresses) =>
              Busy' /\ Introduced' /\ Unopened' /\ Streams' /\ FramesInOrder' /\ FiledUnderItsRank'
         /\ New(r) => Busy' /\ Introduced' /\ Unopened' /\ Streams' /\ FramesInOrder' /\ FiledUnderItsRank'
<1> USE DEF Inv
<1>1. ASSUME NEW addresses \in SUBSET Ranks, Create(r, addresses) \/ SkipNext(r) \/ Created(r)
      PROVE  Busy' /\ Introduced' /\ Unopened' /\ Streams' /\ FramesInOrder' /\ FiledUnderItsRank'
  <2>1. UNCHANGED <<links, wire, dropped, backlog, acceptor, connections, mutex, call, history>>
    BY <1>1 DEF Create, SkipNext, Created, network, caller
  <2>2. Quiet
    BY <2>1, QuietByOthers DEF Holds
  <2>3. \A m \in Links : Unread(m)' <=> Unread(m)
    BY <2>1 DEF Unread, Queued
  <2>4. \A m \in Links, q \in Ranks : <<m, q>> \in dropped' => <<m, q>> \in dropped \/ m \in links
    BY <2>1
  <2>5. Busy' /\ Introduced' /\ Unopened' /\ Streams' /\ FramesInOrder'
    BY <2>1, <2>2, <2>3, <2>4, Still
  <2> QED BY <2>1, <2>5 DEF FiledUnderItsRank
<1>2. ASSUME ConnectNext(r)
      PROVE  Busy' /\ Introduced' /\ Unopened' /\ Streams' /\ FramesInOrder' /\ FiledUnderItsRank'
  <2>1. PICK l : l = LinkOfNew(r)
    OBVIOUS
  <2>2. /\ created[r] = "connect" /\ dst[r] \in known[r]
        /\ Open(l, Handshake(l)) /\ Lock(r, "new")
        /\ UNCHANGED <<dropped, acceptor, connections, call, history>>
    BY <1>2, <2>1 DEF ConnectNext, caller
  <2>3. l \in Links /\ l \notin links /\ Handshake(l) \in Seq(Items) /\ l.via = "new"
    BY <2>1, <2>2, LinksOpened DEF LinkOfNew
  <2>4. \A q \in Ranks : \A w : Holds(q, w) => Holds(q, w)'
    BY <2>2, Locking
  <2>5. Quiet
    BY <2>2, <2>4, QuietByOthers
  <2>6. PICK items : items = Handshake(l)
    OBVIOUS
  <2> QED BY <2>2, <2>3, <2>5, <2>6, StillWhenOpened
<1>3. ASSUME InsertNext(r)
      PROVE  Busy' /\ Introduced' /\ Unopened' /\ Streams' /\ FramesInOrder' /\ FiledUnderItsRank'
  <2>1. PICK l, key : l = LinkOfNew(r) /\ key = dst[r]
    OBVIOUS
  <2>2. /\ created[r] = "insert" /\ Holds(r, "new") /\ Insert(r, key, l) /\ Unlock(r)
        /\ UNCHANGED <<links, wire, backlog, acceptor, call, history>>
    BY <1>3, <2>1 DEF InsertNext, caller
  <2>3. key \in Ranks /\ key # r /\ key \in Keys
    <3>1. key \in r + 1 .. WorldSize - 1 /\ r \in Nat
      BY <2>1, <2>2, TheRanks DEF Started
    <3> QED BY <3>1, TheRanks, TcpMeshAssumption DEF Ranks
  <2>4. l \in Links /\ l.from = r /\ l.to = key
    BY <2>1, <2>3 DEF LinkOfNew, Links
  <2>5. /\ \A q \in Ranks : q # r => connections'[q] = connections[q]
        /\ \A k \in Keys : connections'[r][k] = (IF k = key THEN l ELSE connections[r][k])
        /\ dropped \subseteq dropped'
        /\ \A m \in Links, q \in Ranks : <<m, q>> \in dropped' =>
             <<m, q>> \in dropped \/ (q = r /\ connections[r][key] = m /\ m \in links)
    BY <2>2, <2>3, <2>4, Inserted
  <2>6. Quiet
    <3>1. \A q \in Ranks \ {r} : \A w : Holds(q, w) => Holds(q, w)'
      BY <2>2, Unlocking
    <3>2. "new" \notin Tasks
      BY TcpMeshAssumption
    <3> QED BY <2>2, <2>5, <3>1, <3>2, QuietByHolder
  <2>7. \A m \in Links : Unread(m)' <=> Unread(m)
    BY <2>2 DEF Unread, Queued
  <2>8. \A m \in Links, q \in Ranks : <<m, q>> \in dropped' => <<m, q>> \in dropped \/ m \in links
    BY <2>5
  <2>9. Busy' /\ Introduced' /\ Unopened' /\ Streams' /\ FramesInOrder'
    BY <2>2, <2>5, <2>6, <2>7, <2>8, Still
  <2>10. FiledUnderItsRank'
    BY <2>4, <2>5 DEF FiledUnderItsRank, Other
  <2> QED BY <2>9, <2>10
<1> QED BY <1>1, <1>2, <1>3 DEF New

LEMMA RestOfAcceptLoop ==
  ASSUME Inv, NEW r \in Ranks, Accept(r) \/ ReadRankFails(r) \/ InsertAccepted(r)
  PROVE  Busy' /\ Introduced' /\ Unopened' /\ Streams' /\ FramesInOrder' /\ FiledUnderItsRank'
<1> USE DEF Inv
<1>1. NotAccepting.at = "accept"
  BY DEF NotAccepting
<1>2. ASSUME Accept(r)
      PROVE  Busy' /\ Introduced' /\ Unopened' /\ Streams' /\ FramesInOrder' /\ FiledUnderItsRank'
  <2>1. /\ UNCHANGED <<links, wire, dropped, connections, mutex, call, history>>
        /\ acceptor'[r].at = "read" /\ \A q \in Ranks : q # r => acceptor'[q] = acceptor[q]
    BY <1>2 DEF Accept, caller, Shape
  <2>2. Quiet
    BY <2>1, QuietByOthers DEF Holds
  <2>3. \A m \in Links : Unread(m)' <=> Unread(m)
    BY <1>2, PlacesOfAccept
  <2>4. \A m \in Links, q \in Ranks : <<m, q>> \in dropped' => <<m, q>> \in dropped \/ m \in links
    BY <2>1
  <2>5. Busy' /\ Introduced' /\ Unopened' /\ Streams' /\ FramesInOrder'
    BY <2>1, <2>2, <2>3, <2>4, Still
  <2> QED BY <2>1, <2>5 DEF FiledUnderItsRank
<1>3. ASSUME ReadRankFails(r)
      PROVE  Busy' /\ Introduced' /\ Unopened' /\ Streams' /\ FramesInOrder' /\ FiledUnderItsRank'
  <2>1. PICK l : l = acceptor[r].link
    OBVIOUS
  <2>2. /\ UNCHANGED <<links, wire, backlog, connections, mutex, call, history>>
        /\ acceptor[r].at = "read" /\ dropped' = dropped \cup {<<l, r>>}
        /\ acceptor'[r] = NotAccepting /\ \A q \in Ranks : q # r => acceptor'[q] = acceptor[q]
    BY <1>3, <2>1 DEF ReadRankFails, caller, Shape
  <2>3. l \in Links /\ l.to = r /\ Accepting(l) /\ l \in links
    BY <2>1, <2>2, Accepted DEF Accepting, Placed
  <2>4. Quiet
    BY <2>2, QuietByOthers DEF Holds
  <2>5. ASSUME NEW m \in Links
        PROVE  /\ Unread(m)' => Unread(m)
               /\ Unread(m) /\ ~Unread(m)' => m = l
    <3>1. m.to \in Ranks /\ (Queued(m)' <=> Queued(m))
      BY <2>2, TheEnds DEF Queued
    <3>2. CASE m.to = r
      BY <3>1, <3>2, <2>1, <2>2, <1>1 DEF Unread
    <3>3. CASE m.to # r
      BY <3>1, <3>3, <2>2 DEF Unread
    <3> QED BY <3>2, <3>3
  <2>6. \A m \in Links : Unread(m) /\ ~Unread(m)' => <<m, m.to>> \in dropped'
    BY <2>2, <2>3, <2>5
  <2>7. \A m \in Links, q \in Ranks : <<m, q>> \in dropped' => <<m, q>> \in dropped \/ m \in links
    BY <2>2, <2>3
  <2>8. Busy' /\ Introduced' /\ Unopened' /\ Streams' /\ FramesInOrder'
    BY <2>2, <2>4, <2>5, <2>6, <2>7, <1>1, Still
  <2> QED BY <2>2, <2>8 DEF FiledUnderItsRank
<1>4. ASSUME InsertAccepted(r)
      PROVE  Busy' /\ Introduced' /\ Unopened' /\ Streams' /\ FramesInOrder' /\ FiledUnderItsRank'
  <2>1. PICK l, key : l = acceptor[r].link /\ key = acceptor[r].key
    OBVIOUS
  <2>2. /\ UNCHANGED <<links, wire, backlog, call, history>>
        /\ acceptor[r].at = "insert" /\ Holds(r, "accept") /\ Unlock(r) /\ Insert(r, key, l)
        /\ acceptor'[r] = NotAccepting /\ \A q \in Ranks : q # r => acceptor'[q] = acceptor[q]
    BY <1>4, <2>1 DEF InsertAccepted, caller, Shape
  <2>3. l \in Links /\ l.to = r /\ key \in Keys
    BY <2>1, <2>2, Accepted
  <2>4. /\ \A q \in Ranks : q # r => connections'[q] = connections[q]
        /\ \A k \in Keys : connections'[r][k] = (IF k = key THEN l ELSE connections[r][k])
        /\ dropped \subseteq dropped'
        /\ \A m \in Links, q \in Ranks : <<m, q>> \in dropped' =>
             <<m, q>> \in dropped \/ (q = r /\ connections[r][key] = m /\ m \in links)
    BY <2>2, <2>3, Inserted
  <2>5. Quiet
    <3>1. \A q \in Ranks \ {r} : \A w : Holds(q, w) => Holds(q, w)'
      BY <2>2, Unlocking
    <3>2. "accept" \notin Tasks
      BY TcpMeshAssumption
    <3> QED BY <2>2, <2>4, <3>1, <3>2, QuietByHolder
  <2>6. ASSUME NEW m \in Links PROVE Unread(m)' <=> Unread(m)
    <3>1. m.to \in Ranks /\ (Queued(m)' <=> Queued(m))
      BY <2>2, TheEnds DEF Queued
    <3>2. CASE m.to = r
      BY <3>1, <3>2, <2>2, <1>1 DEF Unread
    <3>3. CASE m.to # r
      BY <3>1, <3>3, <2>2 DEF Unread
    <3> QED BY <3>2, <3>3
  <2>7. \A m \in Links, q \in Ranks : <<m, q>> \in dropped' => <<m, q>> \in dropped \/ m \in links
    BY <2>4
  <2>8. Busy' /\ Introduced' /\ Unopened' /\ Streams' /\ FramesInOrder'
    BY <2>2, <2>4, <2>5, <2>6, <2>7, <1>1, Still
  <2>9. l.via = "new" => Other(l, r) = key
    BY <2>1, <2>2, <2>3, TheEnds DEF Introduced
  <2>10. ASSUME NEW q \in Ranks, NEW k \in Keys, connections'[q][k] # NoLink
         PROVE  Other(connections'[q][k], q) = k
                  \/ (connections'[q][k].via = "connect_to" /\ q = connections'[q][k].to)
    <3>1. CASE q = r /\ k = key
      <4>1. connections'[q][k] = l /\ l.via \in {"new", "connect_to"}
        BY <2>3, <2>4, <3>1, TheEnds
      <4> QED BY <4>1, <3>1, <2>3, <2>9
    <3>2. CASE ~(q = r /\ k = key)
      <4>1. connections'[q][k] = connections[q][k]
        BY <2>4, <3>2
      <4> QED BY <4>1, <2>10 DEF FiledUnderItsRank
    <3> QED BY <3>1, <3>2
  <2>11. FiledUnderItsRank'
    BY <2>10 DEF FiledUnderItsRank
  <2> QED BY <2>8, <2>11
<1> QED BY <1>2, <1>3, <1>4

\* The accept loop takes the first item: the rank of a connection of new(), the
\* first length of one of connect_to.
LEMMA RestOfReadRank ==
  ASSUME Inv, NEW r \in Ranks, ReadRank(r)
  PROVE  Busy' /\ Introduced' /\ Unopened' /\ Streams' /\ FramesInOrder' /\ FiledUnderItsRank'
<1> USE DEF Inv
<1>1. PICK l, end, x : l = acceptor[r].link /\ end = <<l, r>> /\ x = Head(wire[end])
  OBVIOUS
<1>2. /\ acceptor[r].at = "read" /\ wire[end] # <<>>
      /\ acceptor' = [acceptor EXCEPT ![r].key = x.value, ![r].at = "insert"]
      /\ wire' = [wire EXCEPT ![end] = Tail(@)]
      /\ misframed' = IF x.frame # NoFrame /\ x.value > 0 THEN misframed \cup {end} ELSE misframed
      /\ Lock(r, "accept")
      /\ UNCHANGED <<links, dropped, backlog, connections, call, sent, received>>
  BY <1>1 DEF ReadRank, caller
<1>3. l \in Links /\ l.to = r /\ end \in Ends /\ Accepting(l) /\ Unread(l)
  BY <1>1, <1>2, Accepted DEF Accepting, Unread
<1>4. l \in links /\ ~Queued(l) /\ ~FiledAt(l, r) /\ <<l, r>> \notin dropped
  BY <1>3 DEF Placed
<1>5. /\ acceptor'[r].key = x.value /\ acceptor'[r].at = "insert" /\ acceptor'[r].link = l
      /\ \A q \in Ranks : q # r => acceptor'[q] = acceptor[q]
  BY <1>1, <1>2 DEF Shape
<1>6. wire'[end] = Tail(wire[end]) /\ \A e \in Ends : e # end => wire'[e] = wire[e]
  BY <1>2, <1>3 DEF Shape
<1>7. Quiet
  BY <1>2, Locking, QuietByOthers
<1>8. Busy' /\ \A e \in Ends : Wanted(e)' = Wanted(e) /\ Owed(e)' = Owed(e)
  BY <1>2, <1>7, QuietSteps
<1>9. ASSUME NEW m \in Links
      PROVE  Unread(m)' <=> Unread(m) /\ m # l
  <2>1. m.to \in Ranks /\ (Queued(m)' <=> Queued(m))
    BY <1>2, TheEnds DEF Queued
  <2>2. CASE m.to = r
    BY <2>1, <2>2, <1>1, <1>2, <1>4, <1>5 DEF Unread
  <2>3. CASE m.to # r
    BY <2>1, <2>3, <1>3, <1>5 DEF Unread
  <2> QED BY <2>2, <2>3
<1>10. received[end] = <<>> /\ (l.via = "new" => x = Word(l.from, NoFrame))
  BY <1>1, <1>3 DEF Introduced
<1>11. Introduced'
  <2>1. ASSUME NEW q \in Ranks, acceptor'[q].at = "insert", acceptor'[q].link.via = "new"
        PROVE  acceptor'[q].key = acceptor'[q].link.from
    <3>1. CASE q = r
      BY <3>1, <2>1, <1>5, <1>10 DEF Word
    <3>2. CASE q # r
      BY <3>2, <2>1, <1>5 DEF Introduced
    <3> QED BY <3>1, <3>2
  <2>2. ASSUME NEW m \in Links, Unread(m)'
        PROVE  /\ received'[<<m, m.to>>] = <<>>
               /\ m.via = "new" => wire'[<<m, m.to>>] # <<>> /\ Head(wire'[<<m, m.to>>]) = Word(m.from, NoFrame)
    <3>1. Unread(m) /\ m # l /\ <<m, m.to>> \in Ends /\ <<m, m.to>> # end
      BY <2>2, <1>1, <1>9, TheEnds
    <3> QED BY <3>1, <1>2, <1>6 DEF Introduced
  <2> QED BY <2>1, <2>2 DEF Introduced
<1>12. Unopened'
  BY <1>1, <1>2, <1>4, <1>6 DEF Unopened
<1>13. Streams'
  <2>1. ASSUME NEW e \in Ends, Live(e)'
        PROVE  Flow(OnTheWire(e)', sent'[e], Done(e)', Wanted(e)', Owed(e)')
    <3>1. e[1] \in Links /\ e = <<e[1], e[2]>>
      BY AnEnd
    <3>2. CASE e # end
      <4>1. wire'[e] = wire[e] /\ Live(e)
        BY <2>1, <3>2, <1>2, <1>6 DEF Live
      <4>2. e[2] = e[1].to => (Unread(e[1])' <=> Unread(e[1]))
        BY <3>1, <3>2, <1>1, <1>3, <1>9
      <4> QED BY <4>1, <4>2, <1>2, <1>8, StreamKept
    <3>3. CASE e = end
      <4>1. e[1] = l /\ e[2] = l.to /\ Live(e)
        BY <2>1, <3>3, <1>1, <1>2, <1>3, <1>6 DEF Live
      <4>2. Flow(OnTheWire(e), sent[e], Done(e), Wanted(e), Owed(e))
        BY <4>1 DEF Streams
      <4>3. ~Unread(l)'
        BY <1>3, <1>9
      <4>4. wire[e] \in Seq(Items) /\ sent[e] \in Seq(Frames) /\ wire[e] # <<>>
        BY <1>2, <3>3 DEF Shape
      <4>5. received[e] = <<>> /\ received'[e] = <<>> /\ Done(e) = 0
        BY <3>3, <4>1, <1>2, <1>3, <1>10 DEF Done
      <4>6. CASE l.via = "new"
        <5>1. OnTheWire(e) = Tail(wire[e]) /\ OnTheWire(e)' = Tail(wire[e]) /\ Done(e)' = 0
          BY <3>3, <4>1, <4>3, <4>5, <4>6, <1>3, <1>6 DEF OnTheWire, Done
        <5> QED BY <4>2, <4>5, <5>1, <1>2, <1>8
      <4>7. CASE l.via # "new"
        <5>1. l.via = "connect_to"
          BY <4>7, <1>3, TheEnds
        <5>2. OnTheWire(e) = wire[e] /\ OnTheWire(e)' = Tail(wire[e]) /\ Done(e)' = 1
          BY <3>3, <4>1, <4>3, <4>5, <5>1, <1>6 DEF OnTheWire, Done
        <5>3. Flow(wire[e], sent[e], 0, Wanted(e), Owed(e))
          BY <4>2, <4>5, <5>2
        <5>4. PICK v, s, wanted, owed : v = wire[e] /\ s = sent[e] /\ wanted = Wanted(e) /\ owed = Owed(e)
          OBVIOUS
        <5>5. v \in Seq(Items) /\ s \in Seq(Frames) /\ v # <<>> /\ Flow(v, s, 0, wanted, owed)
          BY <4>4, <5>3, <5>4
        <5>6. /\ 0 + 1 \in 1 .. Len(s)
              /\ Head(v) = Word(s[0 + 1].size, s[0 + 1]) \/ (Head(v) = Payload(s[0 + 1]) /\ s[0 + 1].size > 0)
              /\ Head(v).kind = wanted
              /\ Flow(Tail(v), s, IF After(Head(v)) = "word" THEN 0 + 1 ELSE 0, After(Head(v)), owed)
          BY <5>5, TailOfFlow
        <5>7. wanted = "word"
          BY <4>1, <5>4, <1>3, <1>4, HalfwayIsFiled
        <5>8. s[1] \in Frames /\ x = Head(v)
          BY <3>3, <5>4, <5>5, <5>6, <1>1
        <5>9. x.value = s[1].size /\ x.frame = s[1] /\ s[1] # NoFrame /\ s[1].size \in Nat
          <6>1. 0 + 1 = 1
            OBVIOUS
          <6>2. x = Word(s[1].size, s[1]) \/ x = Payload(s[1])
            BY <5>6, <5>8, <6>1
          <6>3. x.value = s[1].size /\ x.frame = s[1]
            BY <6>2 DEF Word, Payload
          <6> QED BY <5>8, <6>3, TheItems
        <5>10. x.value = 0
          BY <2>1, <3>3, <5>9, <1>2 DEF Live
        <5>11. After(x) = "word"
          BY <5>10 DEF After
        <5>12. Flow(Tail(v), s, 1, "word", owed)
          BY <5>6, <5>8, <5>11
        <5> QED BY <5>2, <5>4, <5>7, <5>12, <1>2, <1>8
      <4> QED BY <4>6, <4>7
    <3> QED BY <3>2, <3>3
  <2> QED BY <2>1 DEF Streams
<1>14. FramesInOrder'
  BY <1>2 DEF FramesInOrder
<1>15. FiledUnderItsRank'
  BY <1>2 DEF FiledUnderItsRank
<1> QED BY <1>8, <1>11, <1>12, <1>13, <1>14, <1>15

LEMMA RestOfCalls ==
  ASSUME Inv, NEW r \in Ranks, NEW t \in Tasks, NEW peer \in Ranks, NEW size \in Sizes \cup {0},
         (Send(r, t, peer, size) /\ size \in Sizes) \/ Recv(r, t, peer) \/ ConnectTo(r, t, peer)
  PROVE  Busy' /\ Introduced' /\ Unopened' /\ Streams' /\ FramesInOrder' /\ FiledUnderItsRank'
<1> USE DEF Inv
<1>1. /\ \A q \in Ranks, u \in Tasks : <<q, u>> # <<r, t>> => call'[q][u] = call[q][u]
      /\ call[r][t] = Idle /\ call'[r][t].at = "lock" /\ peer # r
      /\ \A q \in Ranks : \A w : Holds(q, w) => Holds(q, w)'
  BY Beginning DEF Send, Recv, ConnectTo
<1>2. UNCHANGED <<acceptor, connections, dropped, history>>
  BY DEF Send, Recv, ConnectTo, Begin
<1>3. Quiet
  BY <1>1, <1>2, QuietByOthers
<1>4. ASSUME Send(r, t, peer, size) \/ Recv(r, t, peer)
      PROVE  Busy' /\ Introduced' /\ Unopened' /\ Streams' /\ FramesInOrder' /\ FiledUnderItsRank'
  <2>1. UNCHANGED <<links, wire, backlog>>
    BY <1>4 DEF Send, Recv
  <2>2. \A m \in Links : Unread(m)' <=> Unread(m)
    BY <2>1, <1>2 DEF Unread, Queued
  <2>3. \A m \in Links, q \in Ranks : <<m, q>> \in dropped' => <<m, q>> \in dropped \/ m \in links
    BY <1>2
  <2>4. Busy' /\ Introduced' /\ Unopened' /\ Streams' /\ FramesInOrder'
    BY <2>1, <2>2, <2>3, <1>2, <1>3, Still
  <2> QED BY <2>4, <1>2 DEF FiledUnderItsRank
<1>5. ASSUME ConnectTo(r, t, peer)
      PROVE  Busy' /\ Introduced' /\ Unopened' /\ Streams' /\ FramesInOrder' /\ FiledUnderItsRank'
  <2>1. PICK l : l = LinkOfConnectTo(r, peer)
    OBVIOUS
  <2>2. Open(l, <<>>) /\ l \notin links /\ l \in Links /\ l.via = "connect_to"
    BY <1>1, <1>5, <2>1, LinksOpened DEF ConnectTo, LinkOfConnectTo
  <2>3. <<>> \in Seq(Items)
    OBVIOUS
  <2> QED BY <2>2, <2>3, <1>2, <1>3, StillWhenOpened
<1> QED BY <1>4, <1>5

LEMMA RestOfInsertConnected ==
  ASSUME Inv, NEW r \in Ranks, NEW t \in Tasks, InsertConnected(r, t)
  PROVE  Busy' /\ Introduced' /\ Unopened' /\ Streams' /\ FramesInOrder' /\ FiledUnderItsRank'
<1> USE DEF Inv
<1>1. PICK l, key : l = LinkOfConnectTo(r, call[r][t].peer) /\ key = call[r][t].peer
  OBVIOUS
<1>2. /\ Holds(r, t) /\ call[r][t].op = "connect" /\ Insert(r, key, l) /\ Return(r, t)
      /\ UNCHANGED <<links, wire, backlog, acceptor, history>>
  BY <1>1 DEF InsertConnected
<1>3. /\ call'[r][t] = Idle
      /\ \A q \in Ranks, u \in Tasks : <<q, u>> # <<r, t>> => call'[q][u] = call[q][u]
      /\ \A q \in Ranks \ {r} : \A w : Holds(q, w) => Holds(q, w)'
  BY <1>2, Returning
<1>4. key \in Ranks /\ key \in Keys /\ key # r
  BY <1>1, <1>2, TheCalls, TheRanks DEF Shape, Called, Calls
<1>5. l \in Links /\ l.from = r /\ l.to = key
  BY <1>1, <1>4, LinksOpened DEF LinkOfConnectTo
<1>6. /\ \A q \in Ranks : q # r => connections'[q] = connections[q]
      /\ \A k \in Keys : connections'[r][k] = (IF k = key THEN l ELSE connections[r][k])
      /\ dropped \subseteq dropped'
      /\ \A m \in Links, q \in Ranks : <<m, q>> \in dropped' =>
           <<m, q>> \in dropped \/ (q = r /\ connections[r][key] = m /\ m \in links)
  BY <1>2, <1>4, <1>5, Inserted
<1>7. call[r][t].at # "payload"
  BY <1>2 DEF Busy
<1>8. Quiet
  BY <1>2, <1>3, <1>6, <1>7, TheCalls, QuietByHolder
<1>9. \A m \in Links : Unread(m)' <=> Unread(m)
  BY <1>2 DEF Unread, Queued
<1>10. \A m \in Links, q \in Ranks : <<m, q>> \in dropped' => <<m, q>> \in dropped \/ m \in links
  BY <1>6
<1>11. Busy' /\ Introduced' /\ Unopened' /\ Streams' /\ FramesInOrder'
  BY <1>2, <1>6, <1>8, <1>9, <1>10, Still
<1>12. FiledUnderItsRank'
  BY <1>5, <1>6 DEF FiledUnderItsRank, Other
<1> QED BY <1>11, <1>12
------------------------------------------------------------------------------
(* Steps of a task that sends or receives.                                 *)

LEMMA TransferStreams ==
  ASSUME Inv, NEW r \in Ranks, NEW t \in Tasks, Transfer(r, t), NEW e \in Ends
  PROVE  /\ e[2] # r => Wanted(e)' = Wanted(e)
         /\ e[2] = r => Wanted(e)' = (IF /\ call'[r][t].at = "payload" /\ call'[r][t].op = "recv"
                                        /\ Link(r, t) = e[1]
                                     THEN "payload" ELSE "word")
         /\ Other(e[1], e[2]) # r => Owed(e)' = Owed(e)
         /\ Other(e[1], e[2]) = r =>
              Owed(e)' = (IF /\ call'[r][t].at = "payload" /\ call'[r][t].op = "send"
                             /\ Link(r, t) = e[1]
                          THEN "payload" ELSE "word")
<1>1. /\ \A q \in Ranks, u \in Tasks : <<q, u>> # <<r, t>> => call'[q][u] = call[q][u]
      /\ call'[r][t].at = "payload" => call'[r][t].peer = call[r][t].peer
      /\ connections' = connections
  BY TransferCalls, TheCalls DEF Inv, Transfer
<1>2. \A u \in Tasks : u # t => call'[r][u].at # "payload"
  BY <1>1, Alone DEF Inv, Transfer
<1>3. e[2] \in Ranks /\ Other(e[1], e[2]) \in Ranks
  BY AnEnd
<1>4. call'[r][t].at = "payload" => Link(r, t)' = Link(r, t)
  BY <1>1 DEF Link
<1>5. \A q \in Ranks, u \in Tasks : q # r => Link(q, u)' = Link(q, u) /\ call'[q][u] = call[q][u]
  BY <1>1 DEF Link
<1>6. e[2] # r => Wanted(e)' = Wanted(e)
  BY <1>3, <1>5 DEF Wanted
<1>7. Other(e[1], e[2]) # r => Owed(e)' = Owed(e)
  BY <1>3, <1>5 DEF Owed
<1>8. e[2] = r => Wanted(e)' = (IF /\ call'[r][t].at = "payload" /\ call'[r][t].op = "recv"
                                  /\ Link(r, t) = e[1]
                               THEN "payload" ELSE "word")
  BY <1>2, <1>4 DEF Wanted
<1>9. Other(e[1], e[2]) = r =>
        Owed(e)' = (IF /\ call'[r][t].at = "payload" /\ call'[r][t].op = "send"
                       /\ Link(r, t) = e[1]
                    THEN "payload" ELSE "word")
  BY <1>2, <1>4 DEF Owed
<1> QED BY <1>6, <1>7, <1>8, <1>9

\* The ends that the step does not use.
LEMMA TransferElsewhere ==
  ASSUME Inv, NEW r \in Ranks, NEW t \in Tasks, Transfer(r, t), Link(r, t) # NoLink, NEW e \in Ends
  PROVE  /\ e # InEnd(r, t) => Wanted(e)' = Wanted(e)
         /\ e # OutEnd(r, t) => Owed(e)' = Owed(e)
<1>1. e[1] \in Links /\ e[2] \in Ranks /\ e = <<e[1], e[2]>> /\ e[2] \in {e[1].from, e[1].to}
  BY AnEnd
<1>2. ASSUME e # InEnd(r, t) PROVE Wanted(e)' = Wanted(e)
  <2>1. e[2] = r => Link(r, t) # e[1]
    BY <1>1, <1>2 DEF InEnd
  <2>2. e[2] = r => Wanted(e) = "word" /\ Wanted(e)' = "word"
    BY <2>1, WantedByHolder, TransferStreams DEF Inv, Transfer
  <2> QED BY <2>2, TransferStreams
<1>3. ASSUME e # OutEnd(r, t) PROVE Owed(e)' = Owed(e)
  <2>1. Other(e[1], e[2]) = r => Link(r, t) # e[1]
    BY <1>1, <1>3, TheEnds DEF OutEnd
  <2>2. Other(e[1], e[2]) = r => Owed(e) = "word" /\ Owed(e)' = "word"
    BY <2>1, OwedByHolder, TransferStreams DEF Inv, Transfer
  <2> QED BY <2>2, TransferStreams
<1> QED BY <1>2, <1>3

LEMMA BusyOfTransfer ==
  ASSUME Inv, NEW r \in Ranks, NEW t \in Tasks, Transfer(r, t), Link(r, t) # NoLink,
         \A e \in Ends : e # OutEnd(r, t) => sent'[e] = sent[e],
         call'[r][t].at = "payload" /\ call[r][t].op = "send" =>
           /\ call[r][t].size > 0 /\ sent'[OutEnd(r, t)] # <<>>
           /\ sent'[OutEnd(r, t)][Len(sent'[OutEnd(r, t)])] = Frame(r, t)
  PROVE  Busy'
<1> USE DEF Inv
<1>1. /\ \A q \in Ranks, u \in Tasks : <<q, u>> # <<r, t>> => call'[q][u] = call[q][u]
      /\ \/ call'[r][t] = Idle
         \/ /\ call'[r][t].at = "payload" /\ call'[r][t].op = call[r][t].op
            /\ call'[r][t].peer = call[r][t].peer /\ call'[r][t].no = call[r][t].no
            /\ call'[r][t].size = call[r][t].size
            /\ mutex' = mutex
      /\ \A q \in Ranks \ {r} : \A w : Holds(q, w) => Holds(q, w)'
      /\ connections' = connections /\ Holds(r, t) /\ call[r][t].op \in {"send", "recv"}
  BY TransferCalls DEF Transfer
<1>2. ASSUME NEW q \in Ranks, NEW u \in Tasks, call'[q][u].at = "payload"
      PROVE  /\ Holds(q, u)'
             /\ call'[q][u].op \in {"send", "recv"}
             /\ Link(q, u)' # NoLink
             /\ call'[q][u].op = "send" =>
                  /\ call'[q][u].size > 0
                  /\ sent'[OutEnd(q, u)'] # <<>>
                  /\ sent'[OutEnd(q, u)'][Len(sent'[OutEnd(q, u)'])] = Frame(q, u)'
  <2>1. CASE q = r /\ u = t
    <3>1. call'[r][t] # Idle
      BY <1>2, <2>1, TheCalls
    <3>2. /\ Link(r, t)' = Link(r, t) /\ Holds(r, t)' /\ OutEnd(r, t)' = OutEnd(r, t)
          /\ Frame(r, t)' = Frame(r, t) /\ call'[r][t].op = call[r][t].op
          /\ call'[r][t].size = call[r][t].size
      BY <3>1, <1>1 DEF Link, OutEnd, Frame, Holds
    <3> QED BY <1>2, <2>1, <3>2, <1>1
  <2>2. CASE ~(q = r /\ u = t)
    <3>1. call'[q][u] = call[q][u] /\ call[q][u].at = "payload"
      BY <1>1, <1>2, <2>2
    <3>2. q # r
      BY <3>1, <2>2, <1>1, Alone
    <3>3. /\ Link(q, u)' = Link(q, u) /\ Holds(q, u)' /\ OutEnd(q, u)' = OutEnd(q, u)
          /\ Frame(q, u)' = Frame(q, u)
      BY <3>1, <3>2, <1>1 DEF Link, OutEnd, Frame, Busy
    <3>4. /\ call[q][u].op \in {"send", "recv"} /\ Link(q, u) # NoLink
          /\ call[q][u].op = "send" =>
               /\ call[q][u].size > 0
               /\ sent[OutEnd(q, u)] # <<>>
               /\ sent[OutEnd(q, u)][Len(sent[OutEnd(q, u)])] = Frame(q, u)
      BY <3>1 DEF Busy
    <3>5. /\ OutEnd(q, u) \in Ends /\ OutEnd(q, u) = <<Link(q, u), Other(Link(q, u), q)>>
          /\ Other(Link(q, u), Other(Link(q, u), q)) = q
      BY <3>4, Holding DEF OutEnd
    <3>6. /\ OutEnd(r, t) = <<Link(r, t), Other(Link(r, t), r)>>
          /\ Other(Link(r, t), Other(Link(r, t), r)) = r
      BY <1>1, Holding DEF OutEnd
    <3>7. OutEnd(q, u) # OutEnd(r, t)
      BY <3>2, <3>5, <3>6
    <3>8. sent'[OutEnd(q, u)] = sent[OutEnd(q, u)]
      BY <3>5, <3>7
    <3> QED BY <3>1, <3>3, <3>4, <3>8
  <2> QED BY <2>1, <2>2
<1> QED BY <1>2 DEF Busy

LEMMA RestOfGivingUp ==
  ASSUME Inv, NEW r \in Ranks, NEW t \in Tasks, NoConnection(r, t) \/ ReadAnything(r, t)
  PROVE  Busy' /\ Introduced' /\ Unopened' /\ Streams' /\ FramesInOrder' /\ FiledUnderItsRank'
<1> USE DEF Inv
<1>1. /\ Holds(r, t) /\ Return(r, t) /\ Transfer(r, t)
      /\ UNCHANGED <<links, wire, dropped, backlog, acceptor, connections, history>>
  BY Transferring DEF NoConnection, ReadAnything, Doing, network
<1>2. call[r][t].at # "payload"
  BY DEF NoConnection, ReadAnything, Doing, Busy
<1>3. /\ call'[r][t] = Idle
      /\ \A q \in Ranks, u \in Tasks : <<q, u>> # <<r, t>> => call'[q][u] = call[q][u]
      /\ \A q \in Ranks \ {r} : \A w : Holds(q, w) => Holds(q, w)'
  BY <1>1, Returning
<1>4. Quiet
  BY <1>1, <1>2, <1>3, TheCalls, QuietByHolder
<1>5. \A m \in Links : Unread(m)' <=> Unread(m)
  BY <1>1, PlacesOfTransfer
<1>6. \A m \in Links, q \in Ranks : <<m, q>> \in dropped' => <<m, q>> \in dropped \/ m \in links
  BY <1>1
<1>7. Busy' /\ Introduced' /\ Unopened' /\ Streams' /\ FramesInOrder'
  BY <1>1, <1>4, <1>5, <1>6, Still
<1> QED BY <1>1, <1>7 DEF FiledUnderItsRank

LEMMA RestOfIoError ==
  ASSUME Inv, NEW r \in Ranks, NEW t \in Tasks, IoError(r, t)
  PROVE  Busy' /\ Introduced' /\ Unopened' /\ Streams' /\ FramesInOrder' /\ FiledUnderItsRank'
<1> USE DEF Inv
<1>1. PICK l, in, out : l = Link(r, t) /\ in = InEnd(r, t) /\ out = OutEnd(r, t)
  OBVIOUS
<1>2. /\ Holds(r, t) /\ call[r][t].op \in {"send", "recv"} /\ Link(r, t) # NoLink /\ Return(r, t)
      /\ Transfer(r, t) /\ out \in dropped /\ wire' = [wire EXCEPT ![in] = <<>>]
      /\ UNCHANGED <<links, dropped, acceptor, connections, sent, received, misframed>>
  BY <1>1, Transferring DEF IoError, Doing, history
<1>3. /\ l \in Links /\ l \in links /\ FiledAt(l, r) /\ in \in Ends /\ out \in Ends
      /\ in = <<l, r>> /\ out = <<l, Other(l, r)>>
  BY <1>1, <1>2, Holding DEF InEnd, OutEnd
<1>4. wire'[in] = <<>> /\ \A e \in Ends : e # in => wire'[e] = wire[e]
  BY <1>2, <1>3 DEF Shape
<1>5. call'[r][t].at # "payload"
  BY <1>2, Returning, TheCalls
<1>6. Busy'
  BY <1>2, <1>5, BusyOfTransfer
<1>7. \A m \in Links : Unread(m)' <=> Unread(m)
  BY <1>2, PlacesOfTransfer
<1>8. \A m \in Links : Unread(m) => <<m, m.to>> \in Ends /\ <<m, m.to>> # in
  BY <1>3, TheEnds, FiledIsRead
<1>9. Introduced'
  BY <1>2, <1>4, <1>7, <1>8 DEF Introduced
<1>10. Unopened'
  BY <1>2, <1>3, <1>4 DEF Unopened
<1>11. Streams'
  <2>1. ASSUME NEW e \in Ends, Live(e)'
        PROVE  Flow(OnTheWire(e)', sent'[e], Done(e)', Wanted(e)', Owed(e)')
    <3>1. e # in /\ e # out
      BY <2>1, <1>2, <1>3, <1>4 DEF Live
    <3>2. Wanted(e)' = Wanted(e) /\ Owed(e)' = Owed(e)
      BY <3>1, <1>1, <1>2, TransferElsewhere
    <3>3. Live(e) /\ e[1] \in Links
      BY <2>1, <3>1, <1>2, <1>4, AnEnd DEF Live
    <3> QED BY <3>1, <3>2, <3>3, <1>2, <1>4, <1>7, StreamKept
  <2> QED BY <2>1 DEF Streams
<1>12. FramesInOrder' /\ FiledUnderItsRank'
  BY <1>2 DEF FramesInOrder, FiledUnderItsRank
<1> QED BY <1>6, <1>9, <1>10, <1>11, <1>12

\* An item is written: what it adds to the stream is all that changes.
LEMMA RestOfWrite ==
  ASSUME Inv, NEW r \in Ranks, NEW t \in Tasks, Transfer(r, t), NEW place \in {"lock", "payload"},
         Doing(r, t, "send", place), NEW x \in Items, Write(r, t, x),
         NEW l, NEW out, l = Link(r, t), out = OutEnd(r, t),
         \A e \in Ends : e # out => sent'[e] = sent[e],
         sent'[out] = sent[out] \/ sent'[out] = Append(sent[out], Frame(r, t)),
         UNCHANGED <<received, misframed>>,
         Flow(OnTheWire(out), sent[out], Done(out), Wanted(out),
              IF place = "payload" THEN "payload" ELSE "word")
           => Flow(Append(OnTheWire(out), x), sent'[out], Done(out), Wanted(out), Owed(out)')
  PROVE  Introduced' /\ Unopened' /\ Streams' /\ FramesInOrder' /\ FiledUnderItsRank'
<1> USE DEF Inv
<1>1. PICK in : in = InEnd(r, t)
  OBVIOUS
<1>2. /\ Holds(r, t) /\ call[r][t].op = "send" /\ call[r][t].at = place /\ Link(r, t) # NoLink
      /\ UNCHANGED <<links, dropped, acceptor, connections>>
      /\ wire' = [wire EXCEPT ![out] = Append(@, x)]
  BY DEF Doing, Transfer, Write
<1>3. /\ l \in Links /\ l \in links /\ FiledAt(l, r) /\ in \in Ends /\ out \in Ends
      /\ in = <<l, r>> /\ out = <<l, Other(l, r)>> /\ in \notin dropped
      /\ Other(l, r) # r /\ Other(l, Other(l, r)) = r /\ Frame(r, t) \in Frames
  BY <1>1, <1>2, Holding DEF InEnd, OutEnd
<1>4. wire'[out] = Append(wire[out], x) /\ \A e \in Ends : e # out => wire'[e] = wire[e]
  BY <1>2, <1>3 DEF Shape
<1>5. /\ wire[out] \in Seq(Items) /\ sent[out] \in Seq(Frames)
      /\ Append(wire[out], x) # <<>>
      /\ wire[out] # <<>> => /\ Head(Append(wire[out], x)) = Head(wire[out])
                             /\ Tail(Append(wire[out], x)) = Append(Tail(wire[out]), x)
  <2>1. wire[out] \in Seq(Items) /\ sent[out] \in Seq(Frames)
    BY <1>3 DEF Shape
  <2>2. /\ Append(wire[out], x) # <<>>
        /\ Head(Append(wire[out], x)) = (IF wire[out] = <<>> THEN x ELSE Head(wire[out]))
        /\ Tail(Append(wire[out], x)) = (IF wire[out] = <<>> THEN <<>> ELSE Append(Tail(wire[out]), x))
    BY <2>1, AppendProperties, HeadTailAppend
  <2> QED BY <2>1, <2>2
<1>6. \A m \in Links : Unread(m)' <=> Unread(m)
  BY PlacesOfTransfer
<1>7. Introduced'
  <2>1. ASSUME NEW m \in Links, Unread(m)'
        PROVE  /\ received'[<<m, m.to>>] = <<>>
               /\ m.via = "new" => wire'[<<m, m.to>>] # <<>> /\ Head(wire'[<<m, m.to>>]) = Word(m.from, NoFrame)
    <3>1. Unread(m) /\ <<m, m.to>> \in Ends
      BY <2>1, <1>6, TheEnds
    <3> QED BY <3>1, <1>2, <1>4, <1>5 DEF Introduced
  <2> QED BY <2>1, <1>2 DEF Introduced
<1>8. Unopened'
  BY <1>2, <1>3, <1>4 DEF Unopened
<1>9. Streams'
  <2>1. ASSUME NEW e \in Ends, Live(e)'
        PROVE  Flow(OnTheWire(e)', sent'[e], Done(e)', Wanted(e)', Owed(e)')
    <3>1. CASE e # out
      <4>1. Owed(e)' = Owed(e)
        BY <3>1, <1>2, TransferElsewhere
      <4>2. Wanted(e)' = Wanted(e)
        <5>1. CASE e = in
          <6>1. Wanted(e) = "word"
            BY <5>1, <1>2, <1>3, WantedByHolder
          <6>2. call'[r][t].at = "payload" => call'[r][t].op = "send"
            BY <1>2, TransferCalls, TheCalls
          <6> QED BY <5>1, <6>1, <6>2, <1>3, TransferStreams
        <5>2. CASE e # in
          BY <5>2, <1>1, <1>2, TransferElsewhere
        <5> QED BY <5>1, <5>2
      <4>3. Live(e) /\ e[1] \in Links
        BY <2>1, <3>1, <1>2, <1>4, AnEnd DEF Live
      <4> QED BY <3>1, <4>1, <4>2, <4>3, <1>2, <1>4, <1>6, StreamKept
    <3>2. CASE e = out
      <4>1. out[1] = l /\ out[2] = Other(l, r) /\ in # out
        BY <1>3
      <4>2. Live(out)
        BY <2>1, <3>2, <4>1, <1>2, <1>3 DEF Live
      <4>3. Wanted(out)' = Wanted(out)
        BY <4>1, <1>1, <1>2, <1>3, TransferElsewhere
      <4>4. Owed(out) = (IF place = "payload" THEN "payload" ELSE "word")
        BY <4>1, <1>2, <1>3, OwedByHolder
      <4>5. Flow(OnTheWire(out), sent[out], Done(out), Wanted(out), Owed(out))
        BY <4>2, <1>3 DEF Streams
      <4>6. Flow(Append(OnTheWire(out), x), sent'[out], Done(out), Wanted(out), Owed(out)')
        BY <4>4, <4>5
      <4>7. Done(out)' = Done(out)
        BY <4>1, <1>2, <1>3, <1>6 DEF Done
      <4>8. OnTheWire(out)' = Append(OnTheWire(out), x)
        <5>1. CASE l.via = "new" /\ out[2] = l.to /\ Unread(l)
          <6>1. wire[out] # <<>>
            <7>1. out = <<l, l.to>>
              BY <5>1, <4>1, <1>3
            <7> QED BY <5>1, <7>1, <1>3 DEF Introduced
          <6> QED BY <5>1, <6>1, <4>1, <1>3, <1>4, <1>5, <1>6 DEF OnTheWire
        <5>2. CASE ~(l.via = "new" /\ out[2] = l.to /\ Unread(l))
          BY <5>2, <4>1, <1>3, <1>4, <1>6 DEF OnTheWire
        <5> QED BY <5>1, <5>2
      <4> QED BY <3>2, <4>3, <4>6, <4>7, <4>8
    <3> QED BY <3>1, <3>2
  <2> QED BY <2>1 DEF Streams
<1>10. FramesInOrder'
  <2>1. ASSUME NEW e \in Ends
        PROVE  /\ Len(sent[e]) <= Len(sent'[e])
               /\ \A i \in 1 .. Len(sent[e]) : sent'[e][i] = sent[e][i]
               /\ Len(sent[e]) \in Nat /\ Len(sent'[e]) \in Nat
    <3>1. sent[e] \in Seq(Frames)
      BY DEF Shape
    <3>2. CASE sent'[e] = sent[e]
      BY <3>1, <3>2
    <3>3. CASE sent'[e] # sent[e]
      <4>1. sent'[e] = Append(sent[e], Frame(r, t))
        BY <3>3
      <4> QED BY <3>1, <4>1, <1>3, AppendProperties
    <3> QED BY <3>2, <3>3
  <2>2. ASSUME NEW e \in Ends \ misframed, NEW b \in {0, 1}, NEW i \in 1 .. Len(received[e]),
               i + b <= Len(sent[e]), received[e][i] = sent[e][i + b]
        PROVE  i + b <= Len(sent'[e]) /\ received[e][i] = sent'[e][i + b]
    <3>1. i \in Nat /\ i >= 1 /\ b \in Nat
      BY DEF Shape
    <3>2. i + b \in 1 .. Len(sent[e])
      BY <2>1, <2>2, <3>1
    <3> QED BY <2>1, <2>2, <3>1, <3>2
  <2> QED BY <2>2, <1>2 DEF FramesInOrder
<1>11. FiledUnderItsRank'
  BY <1>2 DEF FiledUnderItsRank
<1> QED BY <1>7, <1>8, <1>9, <1>10, <1>11

LEMMA WireOfWriter ==
  ASSUME Inv, NEW e \in Ends
  PROVE  OnTheWire(e) \in Seq(Items) /\ Done(e) \in Nat /\ sent[e] \in Seq(Frames)
<1>1. wire[e] \in Seq(Items) /\ received[e] \in Seq(Frames) /\ sent[e] \in Seq(Frames)
  BY DEF Inv, Shape
<1>2. Done(e) \in Nat
  BY <1>1 DEF Done
<1>3. e[1].via = "new" /\ e[2] = e[1].to /\ Unread(e[1]) => wire[e] # <<>>
  BY AnEnd DEF Inv, Introduced
<1>4. wire[e] # <<>> => Tail(wire[e]) \in Seq(Items)
  BY <1>1, HeadTailProperties
<1> QED BY <1>1, <1>2, <1>3, <1>4 DEF OnTheWire

LEMMA RestOfWriteLength ==
  ASSUME Inv, NEW r \in Ranks, NEW t \in Tasks, WriteLength(r, t)
  PROVE  Busy' /\ Introduced' /\ Unopened' /\ Streams' /\ FramesInOrder' /\ FiledUnderItsRank'
<1> USE DEF Inv
<1>1. PICK l, out, f : l = Link(r, t) /\ out = OutEnd(r, t) /\ f = Frame(r, t)
  OBVIOUS
<1>2. /\ Doing(r, t, "send", "lock") /\ Write(r, t, Word(f.size, f)) /\ Transfer(r, t)
      /\ sent' = [sent EXCEPT ![out] = Append(@, f)]
      /\ f.size = call[r][t].size
      /\ IF f.size = 0 THEN Return(r, t) ELSE GoOn(r, t)
      /\ UNCHANGED <<received, misframed>>
  BY <1>1, Transferring DEF WriteLength, Frame
<1>3. /\ out \in Ends /\ f \in Frames /\ Holds(r, t) /\ call[r][t] # Idle /\ Link(r, t) # NoLink
      /\ l \in Links /\ out = <<l, Other(l, r)>> /\ Other(l, Other(l, r)) = r /\ call[r][t].op = "send"
  BY <1>1, <1>2, Holding DEF Doing, OutEnd
<1>4. f.size \in Nat /\ Word(f.size, f) \in Items
  BY <1>3, TheItems
<1>5. sent'[out] = Append(sent[out], f) /\ \A e \in Ends : e # out => sent'[e] = sent[e]
  BY <1>2, <1>3 DEF Shape
<1>6. IF f.size = 0 THEN call'[r][t] = Idle
      ELSE call'[r][t].at = "payload" /\ call'[r][t].op = "send"
  <2>1. CASE f.size = 0
    BY <2>1, <1>2, <1>3, Returning
  <2>2. CASE f.size # 0
    BY <2>2, <1>2, <1>3, GoingOn
  <2> QED BY <2>1, <2>2
<1>7. Owed(out)' = (IF f.size = 0 THEN "word" ELSE "payload")
  BY <1>1, <1>2, <1>3, <1>6, TheCalls, TransferStreams
<1>8. Busy'
  <2>1. Append(sent[out], f) # <<>> /\ Append(sent[out], f)[Len(Append(sent[out], f))] = f
    <3>1. sent[out] \in Seq(Frames)
      BY <1>3 DEF Shape
    <3> QED BY <3>1, <1>3, AppendProperties
  <2>2. call'[r][t].at = "payload" => f.size > 0
    BY <1>4, <1>6, TheCalls
  <2> QED BY <2>1, <2>2, <1>1, <1>2, <1>3, <1>5, BusyOfTransfer
<1>9. Flow(OnTheWire(out), sent[out], Done(out), Wanted(out), "word")
        => Flow(Append(OnTheWire(out), Word(f.size, f)), sent'[out], Done(out), Wanted(out), Owed(out)')
  BY <1>3, <1>5, <1>7, WireOfWriter, AppendWord
<1> QED BY <1>1, <1>2, <1>4, <1>5, <1>8, <1>9, RestOfWrite

LEMMA RestOfWritePayload ==
  ASSUME Inv, NEW r \in Ranks, NEW t \in Tasks, WritePayload(r, t)
  PROVE  Busy' /\ Introduced' /\ Unopened' /\ Streams' /\ FramesInOrder' /\ FiledUnderItsRank'
<1> USE DEF Inv
<1>1. PICK l, out, f : l = Link(r, t) /\ out = OutEnd(r, t) /\ f = Frame(r, t)
  OBVIOUS
<1>2. /\ Doing(r, t, "send", "payload") /\ Write(r, t, Payload(f)) /\ Transfer(r, t)
      /\ Return(r, t)
      /\ UNCHANGED <<sent, received, misframed>>
  BY <1>1, Transferring DEF WritePayload, history
<1>3. /\ out \in Ends /\ f \in Frames /\ Holds(r, t) /\ call[r][t].op = "send" /\ Link(r, t) # NoLink
      /\ l \in Links /\ out = <<l, Other(l, r)>> /\ Other(l, Other(l, r)) = r
  BY <1>1, <1>2, Holding DEF Doing, OutEnd
<1>4. Payload(f) \in Items
  BY <1>3, TheItems
<1>5. call'[r][t] = Idle
  BY <1>2, <1>3, Returning
<1>6. Owed(out)' = "word"
  BY <1>1, <1>2, <1>3, <1>5, TheCalls, TransferStreams
<1>7. Busy'
  BY <1>2, <1>3, <1>5, TheCalls, BusyOfTransfer
<1>8. f.size > 0 /\ sent[out] # <<>> /\ sent[out][Len(sent[out])] = f
  BY <1>1, <1>2 DEF Busy, Doing, Frame
<1>9. Flow(OnTheWire(out), sent[out], Done(out), Wanted(out), "payload")
        => Flow(Append(OnTheWire(out), Payload(f)), sent'[out], Done(out), Wanted(out), Owed(out)')
  BY <1>2, <1>3, <1>6, <1>8, WireOfWriter, AppendPayload
<1> QED BY <1>1, <1>2, <1>4, <1>7, <1>9, RestOfWrite

\* An item is read: the frame it ends, if it does, is the next one in order.
LEMMA RestOfRead ==
  ASSUME Inv, NEW r \in Ranks, NEW t \in Tasks, Transfer(r, t), NEW place \in {"lock", "payload"},
         Doing(r, t, "recv", place), Read(r, t), NEW in, in = InEnd(r, t),
         UNCHANGED <<sent, misframed>>,
         IF After(Head(wire[in])) = "word"
           THEN received' = [received EXCEPT ![in] = Append(@, Head(wire[in]).frame)] /\ call'[r][t] = Idle
           ELSE received' = received /\ GoOn(r, t)
  PROVE  Busy' /\ Introduced' /\ Unopened' /\ Streams' /\ FramesInOrder' /\ FiledUnderItsRank'
<1> USE DEF Inv
<1>1. PICK l, out, x, b : l = Link(r, t) /\ out = OutEnd(r, t) /\ x = Head(wire[in]) /\ b = Done(in)
  OBVIOUS
<1>2. /\ Holds(r, t) /\ call[r][t].op = "recv" /\ call[r][t].at = place /\ Link(r, t) # NoLink
      /\ UNCHANGED <<links, dropped, acceptor, connections>>
      /\ wire' = [wire EXCEPT ![in] = Tail(@)] /\ wire[in] # <<>> /\ in \notin misframed
  BY DEF Doing, Transfer, Read
<1>3. /\ l \in Links /\ l \in links /\ FiledAt(l, r) /\ in \in Ends /\ out \in Ends
      /\ in = <<l, r>> /\ out = <<l, Other(l, r)>> /\ in \notin dropped
      /\ Other(l, r) # r /\ Other(l, Other(l, r)) = r /\ call[r][t] # Idle
  BY <1>1, <1>2, Holding DEF InEnd, OutEnd
<1>4. /\ b \in Nat /\ OnTheWire(in) = wire[in]
      /\ b + 1 \in 1 .. Len(sent[in]) /\ x.frame = sent[in][b + 1]
      /\ Flow(Tail(wire[in]), sent[in], IF After(x) = "word" THEN b + 1 ELSE b, After(x), Owed(in))
  BY <1>1, Reader
<1>5. wire'[in] = Tail(wire[in]) /\ \A e \in Ends : e # in => wire'[e] = wire[e]
  BY <1>2, <1>3 DEF Shape
<1>6. /\ \A e \in Ends : e # in => received'[e] = received[e]
      /\ received'[in] = (IF After(x) = "word" THEN Append(received[in], sent[in][b + 1]) ELSE received[in])
  BY <1>1, <1>3, <1>4 DEF Shape
<1>7. /\ After(x) = "word" => call'[r][t] = Idle
      /\ After(x) # "word" => call'[r][t].at = "payload" /\ call'[r][t].op = "recv"
  BY <1>1, <1>2, <1>3, GoingOn
<1>8. \A m \in Links : Unread(m)' <=> Unread(m)
  BY PlacesOfTransfer
<1>9. Busy'
  BY <1>2, <1>7, BusyOfTransfer
<1>10. ASSUME NEW m \in Links, Unread(m)
       PROVE  <<m, m.to>> \in Ends /\ <<m, m.to>> # in
  <2>1. CASE m = l /\ r = l.to
    BY <2>1, <1>3, <1>10, FiledIsRead
  <2>2. CASE ~(m = l /\ r = l.to)
    <3>1. <<m, m.to>> \in Ends
      BY TheEnds
    <3>2. in = <<l, r>>
      BY <1>3
    <3> QED BY <2>2, <3>1, <3>2
  <2> QED BY <2>1, <2>2
<1>11. Introduced'
  BY <1>2, <1>5, <1>6, <1>8, <1>10 DEF Introduced
<1>12. Unopened'
  BY <1>2, <1>3, <1>5, <1>6 DEF Unopened
<1>13. After(x) \in {"word", "payload"}
  BY DEF After
<1>14. received[in] \in Seq(Frames) /\ sent[in] \in Seq(Frames) /\ sent[in][b + 1] \in Frames
  BY <1>3, <1>4 DEF Shape
<1>15. r = l.to => ~Unread(l)
  BY <1>3, FiledIsRead
<1>0. b = (IF l.via = "connect_to" /\ r = l.to THEN Len(received[in]) + 1 ELSE Len(received[in]))
  <2>1. in[1] = l /\ in[2] = r
    BY <1>3
  <2> QED BY <2>1, <1>1, <1>15 DEF Done
<1>16. Streams'
  <2>1. ASSUME NEW e \in Ends, Live(e)'
        PROVE  Flow(OnTheWire(e)', sent'[e], Done(e)', Wanted(e)', Owed(e)')
    <3>1. CASE e # in
      <4>1. Wanted(e)' = Wanted(e)
        BY <3>1, <1>2, TransferElsewhere
      <4>2. Owed(e)' = Owed(e)
        <5>1. CASE e = out
          <6>1. e[1] = l /\ Other(e[1], e[2]) = r
            BY <5>1, <1>3
          <6>2. Owed(e) = "word"
            BY <6>1, <1>2, OwedByHolder
          <6>3. call'[r][t].at = "payload" => call'[r][t].op = "recv"
            BY <1>7, TheCalls
          <6> QED BY <6>1, <6>2, <6>3, TransferStreams
        <5>2. CASE e # out
          BY <5>2, <1>1, <1>2, TransferElsewhere
        <5> QED BY <5>1, <5>2
      <4>3. Live(e) /\ e[1] \in Links
        BY <2>1, <3>1, <1>2, <1>5, AnEnd DEF Live
      <4> QED BY <3>1, <4>1, <4>2, <4>3, <1>5, <1>6, <1>8, StreamKept
    <3>2. CASE e = in
      <4>1. in[1] = l /\ in[2] = r /\ in # out
        BY <1>3
      <4>2. Owed(in)' = Owed(in)
        BY <4>1, <1>1, <1>2, <1>3, TransferElsewhere
      <4>3. Wanted(in)' = After(x)
        BY <4>1, <1>1, <1>3, <1>7, <1>13, TheCalls, TransferStreams
      <4>4. OnTheWire(in)' = Tail(wire[in])
        BY <4>1, <1>3, <1>5, <1>8, <1>15 DEF OnTheWire
      <4>5. Done(in)' = (IF After(x) = "word" THEN b + 1 ELSE b)
        <5>1. Len(received'[in]) = (IF After(x) = "word" THEN Len(received[in]) + 1 ELSE Len(received[in]))
          BY <1>6, <1>14, AppendProperties
        <5>2. Len(received[in]) \in Nat
          BY <1>14
        <5>3. Done(in)' = (IF l.via = "connect_to" /\ r = l.to THEN Len(received'[in]) + 1 ELSE Len(received'[in]))
          BY <4>1, <1>3, <1>8, <1>15 DEF Done
        <5> QED BY <5>1, <5>2, <5>3, <1>0
      <4> QED BY <3>2, <4>2, <4>3, <4>4, <4>5, <1>2, <1>4
    <3> QED BY <3>1, <3>2
  <2> QED BY <2>1 DEF Streams
<1>17. FramesInOrder'
  <2> DEFINE c == IF l.via = "connect_to" /\ r = l.to THEN 1 ELSE 0
  <2>1. b = Len(received[in]) + c /\ Len(received[in]) \in Nat /\ c \in Nat
    <3>1. Len(received[in]) \in Nat
      BY <1>14
    <3>2. CASE l.via = "connect_to" /\ r = l.to
      <4>1. c = 1
        BY <3>2
      <4> HIDE DEF c
      <4> QED BY <3>1, <3>2, <4>1, <1>0
    <3>3. CASE ~(l.via = "connect_to" /\ r = l.to)
      <4>1. c = 0
        BY <3>3
      <4> HIDE DEF c
      <4> QED BY <3>1, <3>3, <4>1, <1>0
    <3> QED BY <3>2, <3>3
  <2>2. \A i \in 1 .. Len(received[in]) : i + c <= Len(sent[in]) /\ received[in][i] = sent[in][i + c]
    BY <1>2, <1>3 DEF FramesInOrder
  <2> HIDE DEF c
  <2>3. ASSUME NEW i \in 1 .. Len(received'[in])
        PROVE  i + c <= Len(sent[in]) /\ received'[in][i] = sent[in][i + c]
    <3>1. CASE received'[in] = received[in]
      BY <2>2, <3>1
    <3>2. CASE received'[in] = Append(received[in], sent[in][b + 1])
      <4>1. /\ Len(received'[in]) = Len(received[in]) + 1
            /\ \A j \in 1 .. Len(received[in]) : received'[in][j] = received[in][j]
            /\ received'[in][Len(received[in]) + 1] = sent[in][b + 1]
        BY <3>2, <1>14, AppendProperties
      <4>2. CASE i = Len(received[in]) + 1
        <5>1. i + c = b + 1
          BY <4>2, <2>1
        <5> QED BY <4>1, <4>2, <5>1, <1>4
      <4>3. CASE i # Len(received[in]) + 1
        <5>1. i \in 1 .. Len(received[in])
          BY <4>1, <4>3, <2>1
        <5> QED BY <4>1, <5>1, <2>2
      <4> QED BY <4>2, <4>3
    <3> QED BY <3>1, <3>2, <1>6
  <2>4. ASSUME NEW e \in Ends \ misframed', NEW i \in 1 .. Len(received'[e]), e = in
        PROVE  LET swallowed == IF e[1].via = "connect_to" /\ e[2] = e[1].to THEN 1 ELSE 0
               IN  i + swallowed <= Len(sent'[e]) /\ received'[e][i] = sent'[e][i + swallowed]
    BY <2>3, <2>4, <1>2, <1>3 DEF c
  <2>5. ASSUME NEW e \in Ends \ misframed', NEW i \in 1 .. Len(received'[e]), e # in
        PROVE  LET swallowed == IF e[1].via = "connect_to" /\ e[2] = e[1].to THEN 1 ELSE 0
               IN  i + swallowed <= Len(sent'[e]) /\ received'[e][i] = sent'[e][i + swallowed]
    BY <2>5, <1>2, <1>6 DEF FramesInOrder
  <2> QED BY <2>4, <2>5 DEF FramesInOrder
<1>18. FiledUnderItsRank'
  BY <1>2 DEF FiledUnderItsRank
<1> QED BY <1>9, <1>11, <1>12, <1>16, <1>17, <1>18

LEMMA RestOfReadLength ==
  ASSUME Inv, NEW r \in Ranks, NEW t \in Tasks, ReadLength(r, t)
  PROVE  Busy' /\ Introduced' /\ Unopened' /\ Streams' /\ FramesInOrder' /\ FiledUnderItsRank'
<1>1. PICK in, x : in = InEnd(r, t) /\ x = Head(wire[in])
  OBVIOUS
<1>2. /\ Doing(r, t, "recv", "lock") /\ Read(r, t) /\ Transfer(r, t) /\ Holds(r, t)
      /\ UNCHANGED <<sent, misframed>>
      /\ IF x.value = 0 THEN Arrives(r, t) /\ Return(r, t) ELSE GoOn(r, t) /\ UNCHANGED received
  BY <1>1, Transferring DEF ReadLength, Doing
<1>3. x.kind = "word" /\ x.value \in Nat
  <2>1. /\ x.kind = "word" /\ x.value = sent[in][Done(in) + 1].size
        /\ sent[in][Done(in) + 1] \in Frames
    BY <1>1, <1>2, Reader
  <2> QED BY <2>1, TheItems
<1>4. After(x) = "word" <=> x.value = 0
  BY <1>3 DEF After
<1>5. IF After(x) = "word"
        THEN received' = [received EXCEPT ![in] = Append(@, x.frame)] /\ call'[r][t] = Idle
        ELSE received' = received /\ GoOn(r, t)
  BY <1>1, <1>2, <1>4, Returning DEF Arrives, Inv
<1> QED BY <1>1, <1>2, <1>5, RestOfRead

LEMMA RestOfReadPayload ==
  ASSUME Inv, NEW r \in Ranks, NEW t \in Tasks, ReadPayload(r, t)
  PROVE  Busy' /\ Introduced' /\ Unopened' /\ Streams' /\ FramesInOrder' /\ FiledUnderItsRank'
<1>1. PICK in, x : in = InEnd(r, t) /\ x = Head(wire[in])
  OBVIOUS
<1>2. /\ Doing(r, t, "recv", "payload") /\ Read(r, t) /\ Transfer(r, t) /\ Holds(r, t)
      /\ UNCHANGED <<sent, misframed>> /\ Arrives(r, t) /\ Return(r, t)
  BY Transferring DEF ReadPayload, Doing
<1>3. After(x) = "word"
  BY <1>1, <1>2, Reader DEF After
<1>4. received' = [received EXCEPT ![in] = Append(@, x.frame)] /\ call'[r][t] = Idle
  BY <1>1, <1>2, Returning DEF Arrives, Inv
<1> QED BY <1>1, <1>2, <1>3, <1>4, RestOfRead
------------------------------------------------------------------------------
LEMMA OpenLinks == Inv => TypeOK
<1> SUFFICES ASSUME Inv PROVE TypeOK
  OBVIOUS
<1> USE DEF Inv
<1>1. backlog \in [Ranks -> Seq(links)]
  <2>1. ASSUME NEW r \in Ranks PROVE backlog[r] \in Seq(links)
    <3>1. backlog[r] \in Seq(Links)
      BY DEF Shape
    <3>2. ASSUME NEW i \in 1 .. Len(backlog[r]) PROVE backlog[r][i] \in links
      <4>1. backlog[r][i] \in Links /\ backlog[r][i].to = r
        BY <3>1 DEF Once
      <4> QED BY <4>1 DEF Placed, Queued
    <3> QED BY <3>1, <3>2
  <2> QED BY <2>1 DEF Shape
<1>2. acceptor \in [Ranks -> [link : links \cup {NoLink}, key : Keys,
                              at : {"accept", "read", "insert"}]]
  <2>1. ASSUME NEW r \in Ranks PROVE acceptor[r].link \in links \cup {NoLink}
    <3>1. CASE acceptor[r].at = "accept"
      BY <3>1 DEF Once
    <3>2. CASE acceptor[r].at # "accept"
      BY <3>2, Accepted DEF Placed, Accepting
    <3> QED BY <3>1, <3>2
  <2> QED BY <2>1 DEF Shape
<1>3. connections \in [Ranks -> [Keys -> links \cup {NoLink}]]
  <2>1. ASSUME NEW r \in Ranks, NEW k \in Keys PROVE connections[r][k] \in links \cup {NoLink}
    <3>1. connections[r][k] \in Links \cup {NoLink}
      BY DEF Shape
    <3>2. connections[r][k] \in Links => FiledAt(connections[r][k], r)
      BY DEF FiledAt
    <3> QED BY <3>1, <3>2 DEF Placed
  <2> QED BY <2>1 DEF Shape
<1> QED BY <1>1, <1>2, <1>3 DEF Shape, TypeOK

LEMMA Step == Inv /\ [Next]_vars => Inv'
<1> SUFFICES ASSUME Inv, [Next]_vars PROVE Inv'
  OBVIOUS
<1>1. ASSUME NEW r \in Ranks, NEW addresses \in SUBSET Ranks, Create(r, addresses)
      PROVE  Inv'
  BY <1>1, ShapeOfNew, PlacesOfOtherNew, RestOfNew DEF Inv
<1>2. ASSUME NEW r \in Ranks, New(r)
      PROVE  Inv'
  <2>1. Shape' /\ Busy' /\ Introduced' /\ Unopened' /\ Streams' /\ FramesInOrder' /\ FiledUnderItsRank'
    BY <1>2, ShapeOfNew, RestOfNew
  <2>2. {} \in SUBSET Ranks
    OBVIOUS
  <2>3. Started' /\ Placed' /\ Once' /\ Called'
    BY <1>2, <2>2, PlacesOfConnectNext, PlacesOfInsertNext, PlacesOfOtherNew DEF New
  <2> QED BY <2>1, <2>3 DEF Inv
<1>3. ASSUME NEW r \in Ranks, AcceptLoop(r)
      PROVE  Inv'
  <2>1. Shape'
    BY <1>3, ShapeOfAcceptLoop
  <2>2. Started' /\ Placed' /\ Once' /\ Called'
    BY <1>3, PlacesOfAccept, PlacesOfReadRank, PlacesOfReadRankFails, PlacesOfInsertAccepted DEF AcceptLoop
  <2>3. Busy' /\ Introduced' /\ Unopened' /\ Streams' /\ FramesInOrder' /\ FiledUnderItsRank'
    BY <1>3, RestOfAcceptLoop, RestOfReadRank DEF AcceptLoop
  <2> QED BY <2>1, <2>2, <2>3 DEF Inv
<1>4. ASSUME NEW r \in Ranks, NEW t \in Tasks, NEW peer \in Ranks, NEW size \in Sizes,
             Send(r, t, peer, size)
      PROVE  Inv'
  BY <1>4, ShapeOfCalls, PlacesOfCalls, RestOfCalls DEF Inv
<1>5. ASSUME NEW r \in Ranks, NEW t \in Tasks, NEW peer \in Ranks, Recv(r, t, peer) \/ ConnectTo(r, t, peer)
      PROVE  Inv'
  <2>1. 0 \in Sizes \cup {0}
    OBVIOUS
  <2>2. Shape' /\ Started' /\ Placed' /\ Once' /\ Called'
    BY <1>5, <2>1, ShapeOfCalls, PlacesOfCalls, PlacesOfConnectTo
  <2>3. Busy' /\ Introduced' /\ Unopened' /\ Streams' /\ FramesInOrder' /\ FiledUnderItsRank'
    BY <1>5, <2>1, RestOfCalls
  <2> QED BY <2>2, <2>3 DEF Inv
<1>6. ASSUME NEW r \in Ranks, NEW t \in Tasks, Task(r, t) \/ ReadAnything(r, t)
      PROVE  Inv'
  <2>1. Shape'
    BY <1>6, ShapeOfTask
  <2>2. Started' /\ Placed' /\ Once' /\ Called'
    BY <1>6, PlacesOfInsertConnected, PlacesOfTransfer, Transferring DEF Task
  <2>3. Busy' /\ Introduced' /\ Unopened' /\ Streams' /\ FramesInOrder' /\ FiledUnderItsRank'
    BY <1>6, RestOfInsertConnected, RestOfGivingUp, RestOfIoError, RestOfWriteLength,
       RestOfWritePayload, RestOfReadLength, RestOfReadPayload DEF Task
  <2> QED BY <2>1, <2>2, <2>3 DEF Inv
<1>7. CASE UNCHANGED vars
  <2> USE DEF Inv
  <2>1. /\ UNCHANGED <<created, dst, known, links, wire, dropped, backlog, acceptor, connections>>
        /\ UNCHANGED <<mutex, call, calls, sent, received, misframed, history>>
    BY <1>7 DEF vars, new, network, caller, history
  <2>2. \A m \in Links : (Opening(m)' <=> Opening(m)) /\ (Unread(m)' <=> Unread(m))
    BY <2>1 DEF Opening, Unread, Queued
  <2>3. Placed'
    BY <2>1, <2>2, PlacesKept
  <2>4. Started' /\ Once' /\ Called'
    BY <2>1 DEF Started, Once, Called
  <2>5. Quiet
    BY <2>1, QuietByOthers DEF Holds
  <2>6. \A m \in Links, q \in Ranks : <<m, q>> \in dropped' => <<m, q>> \in dropped \/ m \in links
    BY <2>1
  <2>7. Busy' /\ Introduced' /\ Unopened' /\ Streams' /\ FramesInOrder'
    BY <2>1, <2>2, <2>5, <2>6, Still
  <2> QED BY <2>1, <2>3, <2>4, <2>7 DEF Shape, FiledUnderItsRank
<1> QED BY <1>1, <1>2, <1>3, <1>4, <1>5, <1>6, <1>7 DEF Next

LEMMA Invariance == Spec => []Inv
BY Initially, Step, PTL DEF Spec
------------------------------------------------------------------------------
\* The state keeps its types, and the backlogs, the accept loops and the maps name
\* only connections that were opened.
THEOREM TypeCorrect == Spec => []TypeOK
BY Invariance, OpenLinks, PTL

\* In a mesh of any size, with any number of tasks that share its connections,
\* frames come out whole and in the order they went in: send_frame and recv_frame
\* under the mutex of send_async and recv_async.
THEOREM WholeAndInOrder == Spec => []FramesInOrder
<1>1. Inv => FramesInOrder
  BY DEF Inv
<1> QED BY <1>1, Invariance, PTL

\* Whatever the order in which ranks start, connect and are accepted, a connection
\* of new() is filed under the rank at its other end: the rank that new() sends
\* first, and the key its accept loop inserts under.
THEOREM FiledRight == Spec => []FiledUnderItsRank
<1>1. Inv => FiledUnderItsRank
  BY DEF Inv
<1> QED BY <1>1, Invariance, PTL

\* A task half way through a frame holds its rank's mutex and its connection is
\* still in the map: nothing that comes between the two writes of send_frame, or
\* the two reads of recv_frame, takes either away.
THEOREM HalfwayHoldsTheMutex == Spec => []Busy
<1>1. Inv => Busy
  BY DEF Inv
<1> QED BY <1>1, Invariance, PTL
==============================================================================
