------------------------------- MODULE TcpMesh -------------------------------
(***************************************************************************)
(* TcpCommunicator, mt-comm/src/tcp.rs: new(), the accept loop it spawns,  *)
(* send_async, recv_async and connect_to, called by the tasks of each rank.*)
(*                                                                         *)
(* One mutex per rank guards the map of connections.  A call holds it for  *)
(* as long as it reads or writes a frame, so a receive keeps the rank's    *)
(* other tasks, and its accept loop, waiting until the peer has sent.      *)
(*                                                                         *)
(* A socket is the sequence of what was written and not read yet: an item  *)
(* is an 8-byte word (a rank or a length) or the payload of a frame.       *)
(***************************************************************************)
EXTENDS Naturals, Sequences, FiniteSets

CONSTANTS
  WorldSize,          \* the length of `addresses`
  Tasks,              \* the tasks that share a rank's communicator
  Sizes,              \* the lengths of payloads
  Capacity,           \* items a socket holds before a write has to wait
  ConnectsLater,      \* do tasks call connect_to?
  MaxCalls            \* bound of the model: calls of each rank, to other ranks

ASSUME TcpMeshAssumption ==
  /\ WorldSize \in Nat
  /\ Sizes \subseteq Nat
  /\ Capacity \in Nat \ {0}
  /\ ConnectsLater \in BOOLEAN
  /\ MaxCalls \in Nat
  /\ {"new", "accept"} \cap Tasks = {}

Ranks == 0 .. WorldSize - 1

\* A connection: who opened it, to whom, and by which function.  The model
\* opens at most one of each.
Links == {l \in [from : Ranks, to : Ranks, via : {"new", "connect_to"}] : l.from # l.to}
Ends == {e \in Links \X Ranks : e[2] \in {e[1].from, e[1].to}}
Other(l, r) == IF r = l.from THEN l.to ELSE l.from
NoLink == [from |-> 0, to |-> 0, via |-> "none"]

Frames == [from : Ranks, to : Ranks, call : 1 .. MaxCalls, size : Sizes]
NoFrame == [from |-> 0, to |-> 0, call |-> 0, size |-> 0]

\* What 8 bytes can be read as: a rank or a length.
Keys == Ranks \cup Sizes
Word(value, frame) == [kind |-> "word", value |-> value, frame |-> frame]
Payload(frame) == [kind |-> "payload", value |-> frame.size, frame |-> frame]
Items == [kind : {"word", "payload"}, value : Keys, frame : Frames \cup {NoFrame}]

VARIABLES
  created,            \* how far new() is: "no", "connect", "insert", "yes"
  dst,                \* the rank its loop has come to
  known,              \* the ranks whose address it was given
  links,              \* the connections opened so far
  wire,               \* what is on its way to each end of a connection
  dropped,            \* the ends whose TcpStream was dropped
  backlog,            \* connections the accept loop has not taken yet
  acceptor,           \* the connection it reads from, and the rank it has read
  connections,        \* the map
  mutex,              \* who holds the mutex, then who waits for it, in order
  call,               \* what each task is doing
  calls,              \* how many calls the tasks of each rank have made
  sent, received,     \* the frames that went into each end, and came out of it
  misframed           \* the ends whose reader no longer knows where frames begin

new == <<created, dst, known>>
network == <<links, wire, dropped, backlog>>
caller == <<call, calls>>
history == <<sent, received, misframed>>
vars == <<new, network, acceptor, connections, mutex, caller, history>>

Idle == [op |-> "none", no |-> 0, peer |-> 0, size |-> 0, at |-> "none"]
Calls == [op : {"send", "recv", "connect"}, no : 1 .. MaxCalls, peer : Ranks,
          size : Sizes \cup {0}, at : {"lock", "payload"}]
NotAccepting == [link |-> NoLink, key |-> 0, at |-> "accept"]

TypeOK ==
  /\ created \in [Ranks -> {"no", "connect", "insert", "yes"}]
  /\ dst \in [Ranks -> 0 .. WorldSize]
  /\ known \in [Ranks -> SUBSET Ranks]
  /\ links \subseteq Links
  /\ wire \in [Ends -> Seq(Items)]
  /\ \A e \in Ends : Len(wire[e]) <= Capacity
  /\ dropped \subseteq Ends
  /\ backlog \in [Ranks -> Seq(links)]
  /\ acceptor \in [Ranks -> [link : links \cup {NoLink}, key : Keys,
                             at : {"accept", "read", "insert"}]]
  /\ connections \in [Ranks -> [Keys -> links \cup {NoLink}]]
  /\ mutex \in [Ranks -> Seq(Tasks \cup {"new", "accept"})]
  /\ call \in [Ranks -> [Tasks -> Calls \cup {Idle}]]
  /\ calls \in [Ranks -> 0 .. MaxCalls]
  /\ sent \in [Ends -> Seq(Frames)] /\ received \in [Ends -> Seq(Frames)]
  /\ misframed \subseteq Ends
------------------------------------------------------------------------------
Init ==
  /\ created = [r \in Ranks |-> "no"]
  /\ dst = [r \in Ranks |-> 0]
  /\ known = [r \in Ranks |-> {}]
  /\ links = {}
  /\ wire = [e \in Ends |-> <<>>]
  /\ dropped = {}
  /\ backlog = [r \in Ranks |-> <<>>]
  /\ acceptor = [r \in Ranks |-> NotAccepting]
  /\ connections = [r \in Ranks |-> [k \in Keys |-> NoLink]]
  /\ mutex = [r \in Ranks |-> <<>>]
  /\ call = [r \in Ranks |-> [t \in Tasks |-> Idle]]
  /\ calls = [r \in Ranks |-> 0]
  /\ sent = [e \in Ends |-> <<>>] /\ received = [e \in Ends |-> <<>>]
  /\ misframed = {}

\* tokio's Mutex serves its waiters in the order they came.
Holds(r, who) == mutex[r] # <<>> /\ Head(mutex[r]) = who
Lock(r, who) == mutex' = [mutex EXCEPT ![r] = Append(@, who)]
Unlock(r) == mutex' = [mutex EXCEPT ![r] = Tail(@)]

\* TcpStream::connect succeeds as soon as the connection is in the backlog of
\* the listener, whether or not the accept loop has taken it.
Open(l, items) ==
  /\ links' = links \cup {l}
  /\ wire' = [wire EXCEPT ![<<l, l.to>>] = items]
  /\ backlog' = [backlog EXCEPT ![l.to] = Append(@, l)]

\* HashMap::insert drops the stream it replaces.
Insert(r, key, l) ==
  /\ connections' = [connections EXCEPT ![r][key] = l]
  /\ dropped' = IF connections[r][key] = NoLink THEN dropped
                ELSE dropped \cup {<<connections[r][key], r>>}
------------------------------------------------------------------------------
(* new(): bind, spawn the accept loop, connect to every higher rank.       *)

\* The port is chosen by bind and told by port(), so the caller can only know
\* the addresses of ranks whose new() has returned; those of lower ranks are not
\* looked at.
Create(r, addresses) ==
  /\ created[r] = "no"
  /\ addresses \subseteq {higher \in r + 1 .. WorldSize - 1 : created[higher] = "yes"}
  /\ created' = [created EXCEPT ![r] = "connect"]
  /\ dst' = [dst EXCEPT ![r] = r + 1]
  /\ known' = [known EXCEPT ![r] = addresses]
  /\ UNCHANGED <<network, acceptor, connections, mutex, caller, history>>

LinkOfNew(r) == [from |-> r, to |-> dst[r], via |-> "new"]

\* Faulty: the rank of the other side.
HandshakeOfPeer(l) == <<Word(l.to, NoFrame)>>

\* The rank a connection introduces itself with.
Handshake(l) == <<Word(l.from, NoFrame)>>

ConnectNext(r) ==
  /\ created[r] = "connect"
  /\ dst[r] \in known[r]
  /\ Open(LinkOfNew(r), Handshake(LinkOfNew(r)))
  /\ Lock(r, "new")
  /\ created' = [created EXCEPT ![r] = "insert"]
  /\ UNCHANGED <<dst, known, dropped, acceptor, connections, caller, history>>

InsertNext(r) ==
  /\ created[r] = "insert"
  /\ Holds(r, "new")
  /\ Insert(r, dst[r], LinkOfNew(r))
  /\ Unlock(r)
  /\ created' = [created EXCEPT ![r] = "connect"]
  /\ dst' = [dst EXCEPT ![r] = @ + 1]
  /\ UNCHANGED <<known, links, wire, backlog, acceptor, caller, history>>

\* No listener at that address: the rank is skipped and never tried again.
SkipNext(r) ==
  /\ created[r] = "connect"
  /\ dst[r] < WorldSize
  /\ dst[r] \notin known[r]
  /\ dst' = [dst EXCEPT ![r] = @ + 1]
  /\ UNCHANGED <<created, known, network, acceptor, connections, mutex, caller, history>>

Created(r) ==
  /\ created[r] = "connect"
  /\ dst[r] = WorldSize
  /\ created' = [created EXCEPT ![r] = "yes"]
  /\ UNCHANGED <<dst, known, network, acceptor, connections, mutex, caller, history>>

New(r) == ConnectNext(r) \/ InsertNext(r) \/ SkipNext(r) \/ Created(r)
------------------------------------------------------------------------------
(* The accept loop: one connection at a time.                              *)

Accept(r) ==
  /\ acceptor[r].at = "accept"
  /\ backlog[r] # <<>>
  /\ acceptor' = [acceptor EXCEPT ![r] = [link |-> Head(backlog[r]), key |-> 0, at |-> "read"]]
  /\ backlog' = [backlog EXCEPT ![r] = Tail(@)]
  /\ UNCHANGED <<new, links, wire, dropped, connections, mutex, caller, history>>

\* Faulty: the connection is forgotten when the mutex is taken (try_lock).
ReadRankTrying(r) ==
  LET end == <<acceptor[r].link, r>>
  IN  /\ acceptor[r].at = "read"
      /\ wire[end] # <<>>
      /\ wire' = [wire EXCEPT ![end] = Tail(@)]
      /\ IF mutex[r] = <<>>
           THEN /\ acceptor' = [acceptor EXCEPT ![r].key = Head(wire[end]).value, ![r].at = "insert"]
                /\ Lock(r, "accept")
           ELSE acceptor' = [acceptor EXCEPT ![r] = NotAccepting] /\ UNCHANGED mutex
      /\ UNCHANGED <<new, links, dropped, backlog, connections, caller, history>>

\* The first 8 bytes are taken for a rank.  connect_to sends no rank: they are
\* then the length of its first frame, whose payload stays in the socket.
ReadRank(r) ==
  LET end == <<acceptor[r].link, r>>
  IN  /\ acceptor[r].at = "read"
      /\ wire[end] # <<>>
      /\ acceptor' = [acceptor EXCEPT ![r].key = Head(wire[end]).value, ![r].at = "insert"]
      /\ wire' = [wire EXCEPT ![end] = Tail(@)]
      /\ misframed' = IF Head(wire[end]).frame # NoFrame /\ Head(wire[end]).value > 0
                        THEN misframed \cup {end} ELSE misframed
      /\ Lock(r, "accept")
      /\ UNCHANGED <<new, links, dropped, backlog, connections, caller, sent, received>>

\* The other side is gone before it sent 8 bytes.
ReadRankFails(r) ==
  LET l == acceptor[r].link
  IN  /\ acceptor[r].at = "read"
      /\ <<l, l.from>> \in dropped
      /\ acceptor' = [acceptor EXCEPT ![r] = NotAccepting]
      /\ dropped' = dropped \cup {<<l, r>>}
      /\ UNCHANGED <<new, links, wire, backlog, connections, mutex, caller, history>>

InsertAccepted(r) ==
  /\ acceptor[r].at = "insert"
  /\ Holds(r, "accept")
  /\ Insert(r, acceptor[r].key, acceptor[r].link)
  /\ Unlock(r)
  /\ acceptor' = [acceptor EXCEPT ![r] = NotAccepting]
  /\ UNCHANGED <<new, links, wire, backlog, caller, history>>

AcceptLoop(r) == Accept(r) \/ ReadRank(r) \/ ReadRankFails(r) \/ InsertAccepted(r)
------------------------------------------------------------------------------
(* The calls of a task.                                                    *)

Begin(r, t, op, peer, size) ==
  /\ created[r] = "yes"
  /\ call[r][t] = Idle
  /\ calls[r] < MaxCalls
  /\ peer # r
  /\ call' = [call EXCEPT ![r][t] =
                [op |-> op, no |-> calls[r] + 1, peer |-> peer, size |-> size, at |-> "lock"]]
  /\ calls' = [calls EXCEPT ![r] = @ + 1]
  /\ Lock(r, t)
  /\ UNCHANGED <<new, acceptor, connections, dropped, history>>

Send(r, t, peer, size) ==
  Begin(r, t, "send", peer, size) /\ UNCHANGED <<links, wire, backlog>>

Recv(r, t, peer) ==
  Begin(r, t, "recv", peer, 0) /\ UNCHANGED <<links, wire, backlog>>

LinkOfConnectTo(r, peer) == [from |-> r, to |-> peer, via |-> "connect_to"]

\* connect_to opens a connection, sends nothing, and waits for the mutex.
ConnectTo(r, t, peer) ==
  /\ ConnectsLater
  /\ created[peer] = "yes"
  /\ LinkOfConnectTo(r, peer) \notin links
  /\ Begin(r, t, "connect", peer, 0)
  /\ Open(LinkOfConnectTo(r, peer), <<>>)

Return(r, t) ==
  /\ call' = [call EXCEPT ![r][t] = Idle]
  /\ Unlock(r)
  /\ UNCHANGED calls

InsertConnected(r, t) ==
  /\ Holds(r, t)
  /\ call[r][t].op = "connect"
  /\ Insert(r, call[r][t].peer, LinkOfConnectTo(r, call[r][t].peer))
  /\ Return(r, t)
  /\ UNCHANGED <<new, links, wire, backlog, acceptor, history>>

\* A task that holds the mutex to do op, has come to the given place, and has
\* a connection to its peer.
Link(r, t) == connections[r][call[r][t].peer]
InEnd(r, t) == <<Link(r, t), r>>
OutEnd(r, t) == <<Link(r, t), Other(Link(r, t), r)>>
Doing(r, t, op, place) ==
  /\ Holds(r, t)
  /\ call[r][t].op = op
  /\ call[r][t].at = place
  /\ Link(r, t) # NoLink

\* Faulty: the error leaves the mutex locked.
NoConnectionLocked(r, t) ==
  /\ Holds(r, t)
  /\ call[r][t].op \in {"send", "recv"}
  /\ Link(r, t) = NoLink
  /\ call' = [call EXCEPT ![r][t] = Idle]
  /\ UNCHANGED <<new, network, acceptor, connections, calls, mutex, history>>

\* "no connection to rank".
NoConnection(r, t) ==
  /\ Holds(r, t)
  /\ call[r][t].op \in {"send", "recv"}
  /\ Link(r, t) = NoLink
  /\ Return(r, t)
  /\ UNCHANGED <<new, network, acceptor, connections, history>>

\* A socket whose other end is gone makes a read or a write fail, and what it
\* had not delivered by then is lost.
IoError(r, t) ==
  /\ \E op \in {"send", "recv"}, place \in {"lock", "payload"} : Doing(r, t, op, place)
  /\ OutEnd(r, t) \in dropped
  /\ wire' = [wire EXCEPT ![InEnd(r, t)] = <<>>]
  /\ Return(r, t)
  /\ UNCHANGED <<new, links, dropped, backlog, acceptor, connections, history>>

\* Faulty: the mutex is given up between the two halves of a frame.
GoOnUnlocked(r, t) ==
  /\ call' = [call EXCEPT ![r][t].at = "payload"]
  /\ mutex' = [mutex EXCEPT ![r] = Append(Tail(@), t)]
  /\ UNCHANGED calls

GoOn(r, t) ==
  /\ call' = [call EXCEPT ![r][t].at = "payload"]
  /\ UNCHANGED <<calls, mutex>>

\* send_frame: the length, then the payload.
Frame(r, t) == [from |-> r, to |-> call[r][t].peer,
                call |-> call[r][t].no, size |-> call[r][t].size]
\* Faulty: a write that does not wait.
WriteAtOnce(r, t, item) == wire' = [wire EXCEPT ![OutEnd(r, t)] = Append(@, item)]

Write(r, t, item) ==
  /\ Len(wire[OutEnd(r, t)]) < Capacity
  /\ wire' = [wire EXCEPT ![OutEnd(r, t)] = Append(@, item)]

WriteLength(r, t) ==
  /\ Doing(r, t, "send", "lock")
  /\ Write(r, t, Word(call[r][t].size, Frame(r, t)))
  /\ sent' = [sent EXCEPT ![OutEnd(r, t)] = Append(@, Frame(r, t))]
  /\ IF call[r][t].size = 0 THEN Return(r, t) ELSE GoOn(r, t)
  /\ UNCHANGED <<new, links, dropped, backlog, acceptor, connections, received, misframed>>

WritePayload(r, t) ==
  /\ Doing(r, t, "send", "payload")
  /\ Write(r, t, Payload(Frame(r, t)))
  /\ Return(r, t)
  /\ UNCHANGED <<new, links, dropped, backlog, acceptor, connections, history>>

\* recv_frame: the length, then as many bytes.
Read(r, t) ==
  /\ InEnd(r, t) \notin misframed
  /\ wire[InEnd(r, t)] # <<>>
  /\ wire' = [wire EXCEPT ![InEnd(r, t)] = Tail(@)]
Arrives(r, t) ==
  received' = [received EXCEPT ![InEnd(r, t)] = Append(@, Head(wire[InEnd(r, t)]).frame)]

ReadLength(r, t) ==
  /\ Doing(r, t, "recv", "lock")
  /\ Read(r, t)
  /\ IF Head(wire[InEnd(r, t)]).value = 0
       THEN Arrives(r, t) /\ Return(r, t)
       ELSE GoOn(r, t) /\ UNCHANGED received
  /\ UNCHANGED <<new, links, dropped, backlog, acceptor, connections, sent, misframed>>

ReadPayload(r, t) ==
  /\ Doing(r, t, "recv", "payload")
  /\ Read(r, t)
  /\ Arrives(r, t)
  /\ Return(r, t)
  /\ UNCHANGED <<new, links, dropped, backlog, acceptor, connections, sent, misframed>>

\* Where frames begin is lost: whatever the next bytes are taken for, the call
\* may wait for ever or end with some bytes or an error.
ReadAnything(r, t) ==
  /\ Doing(r, t, "recv", "lock")
  /\ InEnd(r, t) \in misframed
  /\ wire[InEnd(r, t)] # <<>>
  /\ Return(r, t)
  /\ UNCHANGED <<new, network, acceptor, connections, history>>

Task(r, t) ==
  \/ InsertConnected(r, t) \/ NoConnection(r, t) \/ IoError(r, t)
  \/ WriteLength(r, t) \/ WritePayload(r, t)
  \/ ReadLength(r, t) \/ ReadPayload(r, t)
------------------------------------------------------------------------------
Next ==
  \E r \in Ranks :
    \/ \E addresses \in SUBSET Ranks : Create(r, addresses)
    \/ New(r)
    \/ AcceptLoop(r)
    \/ \E t \in Tasks :
         \/ \E peer \in Ranks : \/ \E size \in Sizes : Send(r, t, peer, size)
                                \/ Recv(r, t, peer)
                                \/ ConnectTo(r, t, peer)
         \/ Task(r, t)
         \/ ReadAnything(r, t)

Spec == Init /\ [][Next]_vars

\* The runtime polls every task that can go on; nobody owes a further call.
FairSpec ==
  /\ Spec
  /\ \A r \in Ranks : /\ WF_vars(New(r))
                      /\ WF_vars(AcceptLoop(r))
                      /\ \A t \in Tasks : WF_vars(Task(r, t))
------------------------------------------------------------------------------
(* What must hold.                                                         *)

\* Frames come out whole and in the order they went in, although several tasks
\* write to and read from the same stream, each frame in two steps.  Only the
\* accepting side of connect_to never sees the first one, taken for a rank.
FramesInOrder ==
  \A e \in Ends \ misframed :
    LET swallowed == IF e[1].via = "connect_to" /\ e[2] = e[1].to THEN 1 ELSE 0
    IN  \A i \in 1 .. Len(received[e]) :
          i + swallowed <= Len(sent[e]) /\ received[e][i] = sent[e][i + swallowed]

\* A connection is filed under the rank at its other end, whatever the order in
\* which the ranks start and are accepted; only a connection accepted from
\* connect_to, which does not say who calls, is ever filed under another.
FiledUnderItsRank ==
  \A r \in Ranks, k \in Keys :
    LET l == connections[r][k]
    IN  l # NoLink => Other(l, r) = k \/ (l.via = "connect_to" /\ r = l.to)

\* Who waits for what: a receive that has nothing to read, a send that has no
\* room, and an accept loop whose connection does not say a word.
Silent(r) ==
  \E t \in Tasks : \E place \in {"lock", "payload"} :
    Doing(r, t, "recv", place) /\ (wire[InEnd(r, t)] = <<>> \/ InEnd(r, t) \in misframed)
Full(r) ==
  \E t \in Tasks : \E place \in {"lock", "payload"} :
    Doing(r, t, "send", place) /\ Len(wire[OutEnd(r, t)]) = Capacity
Mute(r) == acceptor[r].at = "read" /\ wire[<<acceptor[r].link, r>>] = <<>>

\* A connection opened by new() is filed by the other side (which may drop it
\* for one of connect_to later), unless a call of the
\* other side keeps the mutex for ever, waiting for its peer, or its accept loop
\* hangs on a connection of connect_to that sends nothing.
Filed(l) == (\E k \in Keys : connections[l.to][k] = l) \/ <<l, l.to>> \in dropped
HandshakesAreFiled ==
  \A l \in Links :
    (l \in links /\ l.via = "new") ~>
      (Filed(l) \/ [](Silent(l.to) \/ Full(l.to)) \/ []Mute(l.to))

\* A call returns unless a receive of its own rank waits for data for ever, or
\* a send for room.
Calling(r, t) == call[r][t] # Idle
CallsReturn ==
  \A r \in Ranks, t \in Tasks : Calling(r, t) ~> (~Calling(r, t) \/ [](Silent(r) \/ Full(r)))
==============================================================================
