------------------------------ MODULE P2PChannels ------------------------------
(***************************************************************************)
(* The point-to-point channels of mt-comm/src/p2p.rs: P2PChannel over a    *)
(* mutex of threads, and AsyncP2PChannel, which does the same over a mutex *)
(* of tasks.  The ranks of a group share one matrix of buffers.            *)
(*                                                                         *)
(* isend and irecv return handles as if they went on in the background,    *)
(* but both do their work, under the mutex, before they return; an irecv   *)
(* takes what the buffer holds at that moment.  The data of a call is its  *)
(* sender and the number of the call.                                      *)
(***************************************************************************)
EXTENDS MockComm

CONSTANTS
  WorldSizes,         \* what create_group is called with
  MaxCalls            \* bound of the model: calls a rank of such a world makes

ASSUME P2PChannelsAssumption ==
  /\ WorldSizes \subseteq Nat \ {0}
  /\ MaxCalls \in [WorldSizes -> Nat]

VARIABLES
  world_size,
  buffers,
  holder,             \* who holds the mutex: <<>>, or <<rank>>
  calls,              \* how many calls each rank has begun
  todo,               \* what is left of its call, the next operation first
  floor,              \* the data its call could have found when it began
  handles,            \* the handles its calls returned
  panicked            \* has it indexed the buffers with no rank of the group?

vars == <<world_size, buffers, holder, calls, todo, floor, handles, panicked>>

World == Ranks(world_size)
Message == [src : Nat, call : Nat]
Operation == [op : {"isend", "irecv"}, peer : Nat]
\* A result is <<>> for None and <<data>> for Some(data).
Handle == [call : Nat, op : {"isend", "irecv"}, peer : Nat, floor : Nat, result : Seq(Seq(Message))]

TypeOK ==
  /\ world_size \in WorldSizes
  /\ buffers \in [World \X World -> Seq(Message)]
  /\ holder \in Seq(World) /\ Len(holder) <= 1
  /\ calls \in [World -> 0 .. MaxCalls[world_size]]
  /\ todo \in [World -> Seq(Operation)]
  /\ floor \in [World -> [World -> Nat]]
  /\ handles \in [World -> SUBSET Handle]
  /\ panicked \in [World -> BOOLEAN]

\* The call the data came from, 0 for the empty Vec.
CallOf(data) == IF data = <<>> THEN 0 ELSE data[1].call

Init ==
  /\ world_size \in WorldSizes
  /\ buffers = EmptySlots(world_size)
  /\ holder = <<>>
  /\ calls = [r \in World |-> 0]
  /\ todo = [r \in World |-> <<>>]
  /\ floor = [r \in World |-> [src \in World |-> 0]]
  /\ handles = [r \in World |-> {}]
  /\ panicked = [r \in World |-> FALSE]
------------------------------------------------------------------------------
Isend(dst) == [op |-> "isend", peer |-> dst]
Irecv(src) == [op |-> "irecv", peer |-> src]

\* Faulty: received first.
SendrecvReceiving(dst, src) == <<Irecv(src), Isend(dst)>>

Sendrecv(dst, src) == <<Isend(dst), Irecv(src)>>

\* The calls a rank can make, with peers of the group and the first beyond it.
CallsOf ==
  {<<Isend(dst)>> : dst \in 0 .. world_size}
    \cup {<<Irecv(src)>> : src \in 0 .. world_size}
    \cup {Sendrecv(dst, src) : dst, src \in 0 .. world_size}

Begin(r, operations) ==
  /\ ~panicked[r]
  /\ todo[r] = <<>>
  /\ calls[r] < MaxCalls[world_size]
  /\ calls' = [calls EXCEPT ![r] = @ + 1]
  /\ todo' = [todo EXCEPT ![r] = operations]
  /\ floor' = [floor EXCEPT ![r] = [src \in World |-> CallOf(Held(buffers, src, r))]]
  /\ UNCHANGED <<world_size, buffers, holder, handles, panicked>>

Lock(r) ==
  /\ todo[r] # <<>>
  /\ holder = <<>>
  /\ holder' = <<r>>
  /\ UNCHANGED <<world_size, buffers, calls, todo, floor, handles, panicked>>

Op(r) == Head(todo[r])
Doing(r, op) == holder = <<r>> /\ Op(r).op = op

\* The operation lets go of the mutex and completes its handle.
Complete(r, result) ==
  /\ holder' = <<>>
  /\ todo' = [todo EXCEPT ![r] = Tail(@)]
  /\ handles' = [handles EXCEPT ![r] = @ \cup
       {[call |-> calls[r], op |-> Op(r).op, peer |-> Op(r).peer,
         floor |-> IF Op(r).peer \in World THEN floor[r][Op(r).peer] ELSE 0, result |-> result]}]

\* Faulty: the matrix grows with the ranks it is asked for.
WriteBeyond(r) ==
  /\ Doing(r, "isend")
  /\ LET data == [src |-> r, call |-> calls[r]]
         pair == <<r, Op(r).peer>>
     IN  /\ buffers' = [p \in DOMAIN buffers \cup {pair} |->
                         IF p = pair THEN <<data>> ELSE buffers[p]]
         /\ Complete(r, <<<<data>>>>)
  /\ UNCHANGED <<world_size, calls, floor, panicked>>

\* isend: the handle is complete with the data sent.
Write(r) ==
  /\ Doing(r, "isend")
  /\ IsPeer(world_size, Op(r).peer)
  /\ LET data == [src |-> r, call |-> calls[r]]
     IN  /\ buffers' = Put(buffers, r, Op(r).peer, data)
         /\ Complete(r, <<<<data>>>>)
  /\ UNCHANGED <<world_size, calls, floor, panicked>>

\* irecv: complete with what the buffer holds, be it empty or old.
Read(r) ==
  /\ Doing(r, "irecv")
  /\ IsPeer(world_size, Op(r).peer)
  /\ Complete(r, <<Held(buffers, Op(r).peer, r)>>)
  /\ UNCHANGED <<world_size, buffers, calls, floor, panicked>>

\* The index is out of bounds; unwinding lets go of the mutex, and neither kind
\* of mutex is poisoned by it.  What a sendrecv has sent before stays sent, its
\* handle is lost.
Panic(r) ==
  /\ holder = <<r>>
  /\ ~IsPeer(world_size, Op(r).peer)
  /\ holder' = <<>>
  /\ todo' = [todo EXCEPT ![r] = <<>>]
  /\ handles' = [handles EXCEPT ![r] = {h \in @ : h.call # calls[r]}]
  /\ panicked' = [panicked EXCEPT ![r] = TRUE]
  /\ UNCHANGED <<world_size, buffers, calls, floor>>

Locked(r) == Write(r) \/ Read(r) \/ Panic(r)

Next ==
  \E r \in World :
    \/ \E operations \in CallsOf : Begin(r, operations)
    \/ Lock(r)
    \/ Locked(r)

Spec == Init /\ [][Next]_vars

------------------------------------------------------------------------------
Given(r, op) == {h \in handles[r] : h.op = op /\ h.result # <<>>}
Got(h) == CallOf(h.result[1])

\* The buffer is a register: an irecv gives data no older than what the buffer
\* held when the call began, hence no older than any irecv before it was given;
\* and it is data of the peer asked for, of a call it has begun.
Regular ==
  \A r \in World : \A h \in Given(r, "irecv") :
    /\ Got(h) >= h.floor
    /\ Got(h) > 0 => h.result[1][1].src = h.peer /\ Got(h) <= calls[h.peer]
    /\ \A g \in Given(r, "irecv") : g.peer = h.peer /\ g.call < h.call => Got(g) <= Got(h)

\* The two halves of a sendrecv: what it sent, and what it was given.
Sent(r) == {h \in Given(r, "isend") : \E g \in Given(r, "irecv") : g.call = h.call}
Behind(r, k, src, sent) == \E g \in Given(r, "irecv") : g.call = k /\ g.peer = src /\ Got(g) < sent

\* Where the ranks of a group pass data around in a ring, each sending to the
\* next and receiving from the one before, they cannot all receive too early: at
\* least one is given what the one before sent in that sendrecv, or later.
Prev(r) == IF r = 0 THEN world_size - 1 ELSE r - 1
NextTo(r) == IF r = world_size - 1 THEN 0 ELSE r + 1
RingSees ==
  \A k \in [World -> 1 .. MaxCalls[world_size]] :
    ~ \A r \in World :
        /\ \E h \in Sent(r) : h.call = k[r] /\ h.peer = NextTo(r)
        /\ Behind(r, k[r], Prev(r), k[Prev(r)])
==============================================================================
