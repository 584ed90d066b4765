--------------------------- MODULE P2PChannelsProofs ---------------------------
(***************************************************************************)
(* Proofs about P2PChannels, for groups of every size and any number of    *)
(* calls.                                                                  *)
(***************************************************************************)
EXTENDS P2PChannels, SequenceTheorems, TLAPS

\* The call whose data a buffer holds.
Current(src, dst) == CallOf(buffers[<<src, dst>>])

\* What is left of a call, and that a sendrecv sends before it receives.
Pending ==
  \A r \in World :
    /\ holder = <<r>> => todo[r] # <<>>
    /\ \/ todo[r] = <<>>
       \/ \E p \in Nat : todo[r] = <<Irecv(p)>>
       \/ \E p \in Nat : todo[r] = <<Isend(p)>>
       \/ \E p, q \in Nat : todo[r] = Sendrecv(p, q)
    /\ todo[r] # <<>> => calls[r] >= 1
    /\ \A h \in handles[r] :
         /\ h.call <= calls[r]
         /\ todo[r] # <<>> /\ Op(r).op = "isend" => h.call < calls[r]

\* A buffer holds what its sender wrote in some call, and no less than was sent.
Written ==
  /\ \A src, dst \in World :
       \/ buffers[<<src, dst>>] = <<>>
       \/ \E c \in 1 .. calls[src] : buffers[<<src, dst>>] = <<[src |-> src, call |-> c]>>
  /\ \A r \in World : \A h \in handles[r] :
       h.op = "isend" /\ h.peer \in World => h.call <= Current(r, h.peer)

Floors == \A r, src \in World : floor[r][src] <= Current(src, r)

\* What an irecv was given is a lower bound of what the buffer holds since, and of
\* what it held when a later call began.
Received ==
  \A r \in World : \A h \in handles[r] : h.op = "irecv" =>
    /\ h.peer \in World
    /\ Got(h) \in Nat /\ h.floor <= Got(h) /\ Got(h) <= Current(h.peer, r)
    /\ Got(h) > 0 => h.result[1][1].src = h.peer
    /\ h.call < calls[r] => Got(h) <= floor[r][h.peer]

Ordered ==
  \A r \in World : \A g, h \in handles[r] :
    g.op = "irecv" /\ h.op = "irecv" /\ g.peer = h.peer /\ g.call < h.call => Got(g) <= Got(h)

Inv == TypeOK /\ Pending /\ Written /\ Floors /\ Received /\ Ordered
------------------------------------------------------------------------------
LEMMA Parameters ==
  ASSUME TypeOK
  PROVE  /\ world_size \in Nat /\ world_size > 0
         /\ MaxCalls[world_size] \in Nat
         /\ \A r \in World : r \in Nat /\ r < world_size /\ calls[r] \in Nat
         /\ \A p \in Nat : p < world_size => p \in World
BY P2PChannelsAssumption DEF TypeOK, World, Ranks

LEMMA MessageCall ==
  /\ CallOf(<<>>) = 0
  /\ \A m \in Message : CallOf(<<m>>) = m.call /\ <<m>>[1] = m
BY DEF CallOf

LEMMA CurrentType ==
  ASSUME TypeOK, Written, NEW src \in World, NEW dst \in World
  PROVE  Current(src, dst) \in Nat /\ Current(src, dst) <= calls[src]
<1>1. calls[src] \in Nat /\ src \in Nat
  BY Parameters
<1>2. CASE buffers[<<src, dst>>] = <<>>
  BY <1>1, <1>2, MessageCall DEF Current
<1>3. CASE \E c \in 1 .. calls[src] : buffers[<<src, dst>>] = <<[src |-> src, call |-> c]>>
  <2>1. PICK c \in 1 .. calls[src] : buffers[<<src, dst>>] = <<[src |-> src, call |-> c]>>
    BY <1>3
  <2>2. [src |-> src, call |-> c] \in Message /\ c \in Nat /\ c <= calls[src]
    BY <1>1 DEF Message
  <2>3. Current(src, dst) = c
    BY <2>1, <2>2, MessageCall DEF Current
  <2> QED
    BY <2>2, <2>3
<1> QED
  BY <1>2, <1>3 DEF Written

\* The operation at hand, and what is left after it.
LEMMA HeadOfCall ==
  ASSUME Pending, TypeOK, NEW r \in World, todo[r] # <<>>
  PROVE  /\ Op(r) \in Operation
         /\ Tail(todo[r]) \in Seq(Operation)
         /\ \/ Tail(todo[r]) = <<>>
            \/ Op(r).op = "isend" /\ \E q \in Nat : Tail(todo[r]) = <<Irecv(q)>>
<1>1. \A p \in Nat : Irecv(p) \in Operation /\ Isend(p) \in Operation
  BY DEF Irecv, Isend, Operation
<1>2. CASE \E p \in Nat : todo[r] = <<Irecv(p)>>
  <2>1. PICK p \in Nat : todo[r] = <<Irecv(p)>>
    BY <1>2
  <2>2. Head(todo[r]) = Irecv(p) /\ Tail(todo[r]) = <<>>
    BY <2>1
  <2> QED
    BY <1>1, <2>2, EmptySeq DEF Op
<1>3. CASE \E p \in Nat : todo[r] = <<Isend(p)>>
  <2>1. PICK p \in Nat : todo[r] = <<Isend(p)>>
    BY <1>3
  <2>2. Head(todo[r]) = Isend(p) /\ Tail(todo[r]) = <<>>
    BY <2>1
  <2> QED
    BY <1>1, <2>2, EmptySeq DEF Op
<1>4. CASE \E p, q \in Nat : todo[r] = Sendrecv(p, q)
  <2>1. PICK p \in Nat, q \in Nat : todo[r] = <<Isend(p), Irecv(q)>>
    BY <1>4 DEF Sendrecv
  <2>2. Head(todo[r]) = Isend(p) /\ Tail(todo[r]) = <<Irecv(q)>>
    BY <2>1
  <2>3. Isend(p).op = "isend"
    BY DEF Isend
  <2>4. Tail(todo[r]) \in Seq(Operation)
    BY <2>1, HeadTailProperties DEF TypeOK
  <2> QED
    BY <1>1, <2>2, <2>3, <2>4 DEF Op
<1> QED
  BY <1>2, <1>3, <1>4 DEF Pending
------------------------------------------------------------------------------
LEMMA InitInv == Init => Inv
<1> SUFFICES ASSUME Init PROVE Inv
  OBVIOUS
<1>1. world_size \in Nat /\ MaxCalls[world_size] \in Nat /\ 0 \in 0 .. MaxCalls[world_size]
  BY P2PChannelsAssumption DEF Init
<1>2. <<>> \in Seq(Message) /\ <<>> \in Seq(Operation) /\ <<>> \in Seq(World) /\ Len(<<>>) = 0
  BY EmptySeq
<1>3. buffers = [pair \in World \X World |-> <<>>]
  BY DEF Init, EmptySlots, World
<1>4. TypeOK
  BY <1>1, <1>2, <1>3 DEF Init, TypeOK
<1>5. \A r \in World : todo[r] = <<>> /\ handles[r] = {} /\ holder # <<r>>
  BY DEF Init
<1>6. Pending
  BY <1>5 DEF Pending
<1>7. \A src, dst \in World : buffers[<<src, dst>>] = <<>> /\ Current(src, dst) = 0
  BY <1>3, MessageCall DEF Current
<1>8. Written /\ Received /\ Ordered
  BY <1>5, <1>7 DEF Written, Received, Ordered
<1>9. Floors
  <2>1. \A r, src \in World : floor[r][src] = 0
    BY DEF Init
  <2>2. 0 <= 0
    OBVIOUS
  <2>3. \A r, src \in World : floor[r][src] <= Current(src, r)
    BY ONLY <1>7, <2>1, <2>2
  <2> QED
    BY <2>3 DEF Floors
<1> QED
  BY <1>4, <1>6, <1>8, <1>9 DEF Inv

\* A call begins.
LEMMA BeginInv ==
  ASSUME Inv, NEW r \in World, NEW operations \in CallsOf, Begin(r, operations)
  PROVE  Inv'
<1>1. /\ todo[r] = <<>> /\ calls[r] < MaxCalls[world_size]
      /\ calls' = [calls EXCEPT ![r] = @ + 1]
      /\ todo' = [todo EXCEPT ![r] = operations]
      /\ floor' = [floor EXCEPT ![r] = [src \in World |-> CallOf(Held(buffers, src, r))]]
      /\ UNCHANGED <<world_size, buffers, holder, handles, panicked>>
  BY DEF Begin
<1>2. TypeOK /\ Pending /\ Written /\ World' = World
  BY <1>1 DEF Inv, World
<1>3. /\ world_size \in Nat /\ MaxCalls[world_size] \in Nat
      /\ \A s \in World : s \in Nat /\ calls[s] \in Nat
  BY <1>2, Parameters
<1>4. \A src, dst \in World : /\ Current(src, dst) \in Nat
                              /\ Current(src, dst)' = Current(src, dst)
  BY <1>1, <1>2, CurrentType DEF Current
<1>5. /\ calls' \in [World -> 0 .. MaxCalls[world_size]]
      /\ calls'[r] = calls[r] + 1
      /\ \A s \in World : s # r => calls'[s] = calls[s]
      /\ \A s \in World : calls[s] <= calls'[s]
  BY <1>1, <1>2, <1>3 DEF TypeOK
<1>6. /\ floor' \in [World -> [World -> Nat]]
      /\ \A src \in World : floor'[r][src] = Current(src, r)
      /\ \A s \in World : s # r => floor'[s] = floor[s]
  <2>1. [src \in World |-> CallOf(Held(buffers, src, r))] \in [World -> Nat]
    BY <1>4 DEF Held, Current
  <2> QED
    BY <1>1, <1>2, <2>1 DEF TypeOK, Held, Current
<1>7. /\ operations \in Seq(Operation) /\ operations # <<>>
      /\ \/ \E p \in Nat : operations = <<Irecv(p)>>
         \/ \E p \in Nat : operations = <<Isend(p)>>
         \/ \E p, q \in Nat : operations = Sendrecv(p, q)
  <2>1. \A p \in Nat : Irecv(p) \in Operation /\ Isend(p) \in Operation
    BY DEF Irecv, Isend, Operation
  <2>2. \A p \in 0 .. world_size : p \in Nat
    BY <1>3
  <2>3. CASE operations \in {<<Isend(dst)>> : dst \in 0 .. world_size}
    <3>1. PICK p \in Nat : operations = <<Isend(p)>>
      BY <2>2, <2>3
    <3> QED
      BY <2>1, <3>1
  <2>4. CASE operations \in {<<Irecv(src)>> : src \in 0 .. world_size}
    <3>1. PICK p \in Nat : operations = <<Irecv(p)>>
      BY <2>2, <2>4
    <3> QED
      BY <2>1, <3>1
  <2>5. CASE operations \in {Sendrecv(dst, src) : dst, src \in 0 .. world_size}
    <3>1. PICK p \in Nat, q \in Nat : operations = Sendrecv(p, q)
      BY <2>2, <2>5
    <3>2. operations \in Seq(Operation) /\ operations # <<>>
      BY <2>1, <3>1 DEF Sendrecv
    <3> QED
      BY <3>1, <3>2
  <2> QED
    BY <2>3, <2>4, <2>5 DEF CallsOf
<1>8. /\ todo' \in [World -> Seq(Operation)] /\ todo'[r] = operations
      /\ \A s \in World : s # r => todo'[s] = todo[s]
  BY <1>1, <1>2, <1>7 DEF TypeOK
<1>9. TypeOK'
  BY <1>1, <1>2, <1>5, <1>6, <1>8 DEF TypeOK
<1>10. Pending'
  <2> SUFFICES ASSUME NEW s \in World
               PROVE  /\ holder = <<s>> => todo'[s] # <<>>
                      /\ \/ todo'[s] = <<>>
                         \/ \E p \in Nat : todo'[s] = <<Irecv(p)>>
                         \/ \E p \in Nat : todo'[s] = <<Isend(p)>>
                         \/ \E p, q \in Nat : todo'[s] = Sendrecv(p, q)
                      /\ todo'[s] # <<>> => calls'[s] >= 1
                      /\ \A h \in handles[s] :
                           /\ h.call <= calls'[s]
                           /\ todo'[s] # <<>> /\ Op(s)'.op = "isend" => h.call < calls'[s]
    BY <1>1, <1>2 DEF Pending
  <2>1. CASE s = r
    <3>1. \A h \in handles[s] : h.call <= calls[s] /\ h.call \in Nat
      BY <1>2 DEF Pending, TypeOK, Handle
    <3>2. \A h \in handles[s] : h.call < calls'[s]
      BY <1>3, <1>5, <2>1, <3>1
    <3>3. todo'[s] = operations /\ calls'[s] >= 1
      BY <1>3, <1>5, <1>8, <2>1
    <3>4. \A h \in handles[s] : h.call <= calls'[s]
      BY <1>3, <1>5, <2>1, <3>1
    <3> QED
      BY <1>7, <3>2, <3>3, <3>4
  <2>2. CASE s # r
    <3>1. todo'[s] = todo[s] /\ calls'[s] = calls[s] /\ Op(s)' = Op(s)
      BY <1>5, <1>8, <2>2 DEF Op
    <3> QED
      BY <1>2, <3>1 DEF Pending
  <2> QED
    BY <2>1, <2>2
<1>11. Written'
  <2>1. \A src \in World : 1 .. calls[src] \subseteq 1 .. calls'[src]
    BY <1>2, <1>3, <1>5 DEF TypeOK
  <2>2. \A src, dst \in World :
          \/ buffers'[<<src, dst>>] = <<>>
          \/ \E c \in 1 .. calls'[src] : buffers'[<<src, dst>>] = <<[src |-> src, call |-> c]>>
    BY <1>1, <1>2, <2>1 DEF Written
  <2>3. \A s \in World : \A h \in handles[s] :
          h.op = "isend" /\ h.peer \in World => h.call <= Current(s, h.peer)'
    BY <1>2, <1>4 DEF Written
  <2> QED
    BY <1>1, <1>2, <2>2, <2>3 DEF Written
<1>12. Floors'
  BY <1>1, <1>2, <1>4, <1>6 DEF Inv, Floors
<1>13. Received'
  <2> SUFFICES ASSUME NEW s \in World, NEW h \in handles[s], h.op = "irecv"
               PROVE  /\ h.peer \in World
                      /\ Got(h) \in Nat /\ h.floor <= Got(h) /\ Got(h) <= Current(h.peer, s)'
                      /\ Got(h) > 0 => h.result[1][1].src = h.peer
                      /\ h.call < calls'[s] => Got(h) <= floor'[s][h.peer]
    BY <1>1, <1>2 DEF Received
  <2>1. /\ h.peer \in World
        /\ Got(h) \in Nat /\ h.floor <= Got(h) /\ Got(h) <= Current(h.peer, s)
        /\ Got(h) > 0 => h.result[1][1].src = h.peer
        /\ h.call < calls[s] => Got(h) <= floor[s][h.peer]
    BY DEF Inv, Received
  <2>2. CASE s = r
    BY <1>4, <1>6, <2>1, <2>2
  <2>3. CASE s # r
    BY <1>4, <1>5, <1>6, <2>1, <2>3
  <2> QED
    BY <2>2, <2>3
<1>14. Ordered'
  BY <1>1, <1>2 DEF Inv, Ordered
<1> QED
  BY <1>9, <1>10, <1>11, <1>12, <1>13, <1>14 DEF Inv

\* A call gets the mutex.
LEMMA LockInv ==
  ASSUME Inv, NEW r \in World, Lock(r)
  PROVE  Inv'
<1>1. /\ todo[r] # <<>> /\ holder' = <<r>>
      /\ UNCHANGED <<world_size, buffers, calls, todo, floor, handles, panicked>>
  BY DEF Lock
<1>2. World' = World
  BY <1>1 DEF World
<1>3. TypeOK'
  <2>1. holder' \in Seq(World) /\ Len(holder') <= 1
    BY <1>1
  <2> QED
    BY <1>1, <1>2, <2>1 DEF Inv, TypeOK
<1>4. Pending'
  <2>1. \A s \in World : holder' = <<s>> => s = r
    BY <1>1
  <2> QED
    BY <1>1, <1>2, <2>1 DEF Inv, Pending, Op
<1>5. Written' /\ Floors' /\ Received' /\ Ordered'
  BY <1>1, <1>2 DEF Inv, Written, Floors, Received, Ordered, Current
<1> QED
  BY <1>3, <1>4, <1>5 DEF Inv

\* What Complete leaves: the handles and the rest of the call.
LEMMA CompleteKeeps ==
  ASSUME Inv, NEW r \in World, NEW result \in Seq(Seq(Message)),
         holder = <<r>>, Op(r).peer \in World, Complete(r, result), UNCHANGED <<world_size, calls>>
  PROVE  LET new == [call |-> calls[r], op |-> Op(r).op, peer |-> Op(r).peer,
                     floor |-> floor[r][Op(r).peer], result |-> result]
         IN  /\ new \in Handle
             /\ handles' \in [World -> SUBSET Handle]
             /\ handles'[r] = handles[r] \cup {new}
             /\ \A s \in World : s # r => handles'[s] = handles[s]
             /\ todo' \in [World -> Seq(Operation)]
             /\ holder' = <<>>
             /\ Pending'
<1> DEFINE new == [call |-> calls[r], op |-> Op(r).op, peer |-> Op(r).peer,
                   floor |-> floor[r][Op(r).peer], result |-> result]
<1>1. /\ TypeOK /\ Pending /\ World' = World /\ calls' = calls /\ todo[r] # <<>>
      /\ holder' = <<>> /\ todo' = [todo EXCEPT ![r] = Tail(@)]
      /\ handles' = [handles EXCEPT ![r] = @ \cup {new}]
  BY DEF Inv, Pending, Complete, World
<1>2. /\ Op(r) \in Operation /\ Tail(todo[r]) \in Seq(Operation)
      /\ \/ Tail(todo[r]) = <<>>
         \/ Op(r).op = "isend" /\ \E q \in Nat : Tail(todo[r]) = <<Irecv(q)>>
  BY <1>1, HeadOfCall
<1>3. calls[r] \in Nat /\ floor[r][Op(r).peer] \in Nat
  BY <1>1, Parameters DEF TypeOK
<1>4. new \in Handle
  BY <1>2, <1>3 DEF Handle, Operation
<1>5. /\ handles' \in [World -> SUBSET Handle]
      /\ handles'[r] = handles[r] \cup {new}
      /\ \A s \in World : s # r => handles'[s] = handles[s]
  BY <1>1, <1>4 DEF TypeOK
<1>6. /\ todo' \in [World -> Seq(Operation)] /\ todo'[r] = Tail(todo[r])
      /\ \A s \in World : s # r => todo'[s] = todo[s]
  BY <1>1, <1>2 DEF TypeOK
<1>7. new.call = calls[r]
  OBVIOUS
<1> HIDE DEF new
<1>8. Pending'
  <2> SUFFICES ASSUME NEW s \in World
               PROVE  /\ \/ todo'[s] = <<>>
                         \/ \E p \in Nat : todo'[s] = <<Irecv(p)>>
                         \/ \E p \in Nat : todo'[s] = <<Isend(p)>>
                         \/ \E p, q \in Nat : todo'[s] = Sendrecv(p, q)
                      /\ todo'[s] # <<>> => calls[s] >= 1
                      /\ \A h \in handles'[s] :
                           /\ h.call <= calls[s]
                           /\ todo'[s] # <<>> /\ Op(s)'.op = "isend" => h.call < calls[s]
    BY <1>1 DEF Pending
  <2>1. CASE s = r
    <3>1. \A h \in handles'[r] : h.call <= calls[r]
      BY <1>1, <1>3, <1>5, <1>7 DEF Pending
    <3>2. CASE Tail(todo[r]) = <<>>
      BY <1>6, <2>1, <3>1, <3>2
    <3>3. CASE \E q \in Nat : Tail(todo[r]) = <<Irecv(q)>>
      <4>1. PICK q \in Nat : Tail(todo[r]) = <<Irecv(q)>>
        BY <3>3
      <4>2. Irecv(q).op # "isend"
        BY DEF Irecv
      <4>3. todo'[r] = <<Irecv(q)>>
        BY <1>6, <4>1
      <4>4. \A op : Head(<<op>>) = op
        OBVIOUS
      <4>5. Head(todo'[r]) = Irecv(q)
        BY <4>3, <4>4
      <4>6. Op(r)' = Irecv(q)
        BY <4>5 DEF Op
      <4>7. calls[r] >= 1
        BY <1>1 DEF Pending
      <4> QED
        BY <2>1, <3>1, <4>2, <4>3, <4>6, <4>7
    <3> QED
      BY <1>2, <3>2, <3>3
  <2>2. CASE s # r
    <3>1. todo'[s] = todo[s] /\ Op(s)' = Op(s) /\ handles'[s] = handles[s]
      BY <1>5, <1>6, <2>2 DEF Op
    <3> QED
      BY <1>1, <3>1 DEF Pending
  <2> QED
    BY <2>1, <2>2
<1> QED
  BY <1>1, <1>4, <1>5, <1>6, <1>8 DEF new

\* An isend.
LEMMA WriteInv ==
  ASSUME Inv, NEW r \in World, Write(r)
  PROVE  Inv'
<1>0. /\ TypeOK /\ Pending /\ Written /\ holder = <<r>> /\ todo[r] # <<>> /\ Op(r).peer < world_size
  BY DEF Inv, Pending, Write, Doing, IsPeer
<1>a. PICK dst \in World : dst = Op(r).peer
  BY <1>0, HeadOfCall, Parameters DEF Operation
<1> DEFINE data == [src |-> r, call |-> calls[r]]
           new == [call |-> calls[r], op |-> Op(r).op, peer |-> dst,
                   floor |-> floor[r][dst], result |-> <<<<data>>>>]
<1>1. /\ holder = <<r>> /\ Op(r).op = "isend" /\ dst = Op(r).peer
      /\ buffers' = [buffers EXCEPT ![<<r, dst>>] = <<data>>]
      /\ Complete(r, <<<<data>>>>)
      /\ UNCHANGED <<world_size, calls, floor, panicked>>
  BY <1>0, <1>a DEF Write, Doing, IsPeer, Put
<1>2. TypeOK /\ Pending /\ Written /\ World' = World /\ todo[r] # <<>>
  BY <1>1 DEF Inv, Pending, World
<1>3. dst \in World /\ r \in Nat /\ calls[r] \in Nat /\ calls[r] >= 1
  BY <1>2, Parameters DEF Pending
<1>4. data \in Message /\ <<data>> \in Seq(Message) /\ <<<<data>>>> \in Seq(Seq(Message))
  BY <1>3 DEF Message
<1>5. data.call = calls[r]
  OBVIOUS
<1> HIDE DEF data
<1>6. /\ handles' \in [World -> SUBSET Handle]
      /\ handles'[r] = handles[r] \cup {new}
      /\ \A s \in World : s # r => handles'[s] = handles[s]
      /\ todo' \in [World -> Seq(Operation)]
      /\ holder' = <<>>
      /\ Pending'
  BY <1>1, <1>3, <1>4, CompleteKeeps
<1>7. /\ buffers' \in [World \X World -> Seq(Message)]
      /\ buffers'[<<r, dst>>] = <<data>>
      /\ \A p \in World \X World : p # <<r, dst>> => buffers'[p] = buffers[p]
  BY <1>1, <1>2, <1>3, <1>4 DEF TypeOK
<1>8. holder' \in Seq(World) /\ Len(holder') <= 1
  BY <1>6
<1>9. TypeOK'
  BY <1>1, <1>2, <1>6, <1>7, <1>8 DEF TypeOK
<1>10. Current(r, dst)' = calls[r]
  <2>1. CallOf(<<data>>) = data.call
    BY <1>4, MessageCall
  <2> QED
    BY <1>5, <1>7, <2>1 DEF Current
<1>11. \A src, d \in World : <<src, d>> # <<r, dst>> => Current(src, d)' = Current(src, d)
  BY <1>7 DEF Current
<1>12. \A src, d \in World :
         /\ Current(src, d) \in Nat /\ Current(src, d)' \in Nat
         /\ Current(src, d) <= Current(src, d)'
  <2>1. \A src, d \in World : Current(src, d) \in Nat /\ Current(src, d) <= calls[src]
    BY <1>2, CurrentType
  <2> SUFFICES ASSUME NEW src \in World, NEW d \in World
               PROVE  /\ Current(src, d) \in Nat /\ Current(src, d)' \in Nat
                      /\ Current(src, d) <= Current(src, d)'
    OBVIOUS
  <2>2. CASE src = r /\ d = dst
    <3>1. Current(src, d)' = calls[r]
      BY <1>10, <2>2
    <3> QED
      BY <1>3, <2>1, <2>2, <3>1
  <2>3. CASE ~(src = r /\ d = dst)
    <3>1. Current(src, d)' = Current(src, d)
      BY <1>11, <2>3
    <3>2. \A n \in Nat : n <= n
      OBVIOUS
    <3> QED
      BY <2>1, <3>1, <3>2
  <2> QED
    BY <2>2, <2>3
<1>13. new.op = "isend" /\ new.call = calls[r] /\ new.peer = dst
  BY <1>1
<1> HIDE DEF new
<1>14. Written'
  <2>1. \A src, d \in World :
          \/ buffers'[<<src, d>>] = <<>>
          \/ \E c \in 1 .. calls[src] : buffers'[<<src, d>>] = <<[src |-> src, call |-> c]>>
    <3> SUFFICES ASSUME NEW src \in World, NEW d \in World
                 PROVE  \/ buffers'[<<src, d>>] = <<>>
                        \/ \E c \in 1 .. calls[src] : buffers'[<<src, d>>] = <<[src |-> src, call |-> c]>>
      OBVIOUS
    <3>1. CASE src = r /\ d = dst
      <4>1. calls[src] \in 1 .. calls[src]
        BY <1>3, <3>1
      <4>2. buffers'[<<src, d>>] = <<[src |-> src, call |-> calls[src]]>>
        BY <1>7, <3>1 DEF data
      <4> QED
        BY <4>1, <4>2
    <3>2. CASE ~(src = r /\ d = dst)
      <4>1. buffers'[<<src, d>>] = buffers[<<src, d>>]
        BY <1>7, <3>2
      <4> QED
        BY <1>2, <4>1 DEF Written
    <3> QED
      BY <3>1, <3>2
  <2>2. ASSUME NEW s \in World, NEW h \in handles'[s], h.op = "isend", h.peer \in World
        PROVE  h.call <= Current(s, h.peer)'
    <3>1. CASE h \in handles[s]
      <4>1. h.call <= Current(s, h.peer) /\ h.call \in Nat
        BY <1>2, <2>2, <3>1 DEF Written, TypeOK, Handle
      <4> QED
        BY <1>12, <2>2, <4>1
    <3>2. CASE s = r /\ h = new
      BY <1>3, <1>10, <1>13, <3>2
    <3> QED
      BY <1>6, <3>1, <3>2
  <2> QED
    BY <1>1, <1>2, <2>1, <2>2 DEF Written
<1>15. Floors'
  <2>1. \A s, src \in World : floor[s][src] <= Current(src, s) /\ floor[s][src] \in Nat
    BY <1>2 DEF Inv, Floors, TypeOK
  <2>2. \A s, src \in World : floor[s][src] <= Current(src, s)'
    BY <1>12, <2>1
  <2> QED
    BY <1>1, <1>2, <2>2 DEF Floors
<1>16. \A s \in World : \A h \in handles'[s] : h.op = "irecv" => h \in handles[s]
  BY <1>6, <1>13
<1>17. Received'
  <2> SUFFICES ASSUME NEW s \in World, NEW h \in handles'[s], h.op = "irecv"
               PROVE  /\ h.peer \in World
                      /\ Got(h) \in Nat /\ h.floor <= Got(h) /\ Got(h) <= Current(h.peer, s)'
                      /\ Got(h) > 0 => h.result[1][1].src = h.peer
                      /\ h.call < calls[s] => Got(h) <= floor[s][h.peer]
    BY <1>1, <1>2 DEF Received
  <2>1. /\ h.peer \in World
        /\ Got(h) \in Nat /\ h.floor <= Got(h) /\ Got(h) <= Current(h.peer, s)
        /\ Got(h) > 0 => h.result[1][1].src = h.peer
        /\ h.call < calls[s] => Got(h) <= floor[s][h.peer]
    BY <1>16 DEF Inv, Received
  <2>2. Current(h.peer, s) \in Nat /\ Current(h.peer, s)' \in Nat /\ Current(h.peer, s) <= Current(h.peer, s)'
    BY <1>12, <2>1
  <2>3. Got(h) <= Current(h.peer, s)'
    BY <2>1, <2>2
  <2> QED
    BY <2>1, <2>3
<1>18. Ordered'
  BY <1>2, <1>16 DEF Inv, Ordered
<1> QED
  BY <1>6, <1>9, <1>14, <1>15, <1>17, <1>18 DEF Inv

\* An irecv.
LEMMA ReadInv ==
  ASSUME Inv, NEW r \in World, Read(r)
  PROVE  Inv'
<1> DEFINE src == Op(r).peer
           data == buffers[<<src, r>>]
           new == [call |-> calls[r], op |-> Op(r).op, peer |-> src,
                   floor |-> floor[r][src], result |-> <<data>>]
<1>1. /\ holder = <<r>> /\ Op(r).op = "irecv" /\ src < world_size
      /\ Complete(r, <<data>>)
      /\ UNCHANGED <<world_size, buffers, calls, floor, panicked>>
  BY DEF Read, Doing, IsPeer, Held
<1>2. TypeOK /\ Pending /\ Written /\ World' = World /\ todo[r] # <<>>
  BY <1>1 DEF Inv, Pending, World
<1>3. src \in World /\ r \in Nat /\ calls[r] \in Nat
  BY <1>1, <1>2, HeadOfCall, Parameters DEF Operation
<1>4. data \in Seq(Message) /\ <<data>> \in Seq(Seq(Message)) /\ <<data>>[1] = data
  BY <1>2, <1>3 DEF TypeOK
<1>5. /\ handles' \in [World -> SUBSET Handle]
      /\ handles'[r] = handles[r] \cup {new}
      /\ \A s \in World : s # r => handles'[s] = handles[s]
      /\ todo' \in [World -> Seq(Operation)]
      /\ holder' = <<>>
      /\ Pending'
  BY <1>1, <1>3, <1>4, CompleteKeeps
<1>6. /\ new.op = "irecv" /\ new.call = calls[r] /\ new.peer = src
      /\ new.floor = floor[r][src] /\ new.result[1] = data
  BY <1>1, <1>4
<1>7. Got(new) = Current(src, r)
  BY <1>6 DEF Got, Current
<1>8. TypeOK'
  <2>1. holder' \in Seq(World) /\ Len(holder') <= 1
    BY <1>5
  <2> QED
    BY <1>1, <1>2, <1>5, <2>1 DEF TypeOK
<1>9. Current(src, r) \in Nat /\ floor[r][src] \in Nat /\ floor[r][src] <= Current(src, r)
  BY <1>2, <1>3, CurrentType DEF Inv, Floors, TypeOK
<1>10. Current(src, r) > 0 => data[1].src = src
  <2>1. CASE data = <<>>
    BY <2>1, MessageCall DEF Current
  <2>2. CASE \E c \in 1 .. calls[src] : data = <<[src |-> src, call |-> c]>>
    BY <2>2
  <2> QED
    BY <1>2, <1>3, <2>1, <2>2 DEF Written
<1> HIDE DEF new, src, data
<1>11. \A s \in World : \A h \in handles'[s] : h \in handles[s] \/ (s = r /\ h = new)
  BY <1>5
<1>12. Written'
  <2>1. ASSUME NEW s \in World, NEW h \in handles'[s], h.op = "isend", h.peer \in World
        PROVE  h.call <= Current(s, h.peer)
    BY <1>2, <1>6, <1>11, <2>1 DEF Written
  <2> QED
    BY <1>1, <1>2, <2>1 DEF Written, Current
<1>13. Floors'
  BY <1>1, <1>2 DEF Inv, Floors, Current
<1>14. Received'
  <2> SUFFICES ASSUME NEW s \in World, NEW h \in handles'[s], h.op = "irecv"
               PROVE  /\ h.peer \in World
                      /\ Got(h) \in Nat /\ h.floor <= Got(h) /\ Got(h) <= Current(h.peer, s)
                      /\ Got(h) > 0 => h.result[1][1].src = h.peer
                      /\ h.call < calls[s] => Got(h) <= floor[s][h.peer]
    BY <1>1, <1>2 DEF Received, Current
  <2>1. CASE h \in handles[s]
    BY <2>1 DEF Inv, Received
  <2>2. CASE s = r /\ h = new
    BY <1>3, <1>6, <1>7, <1>9, <1>10, <2>2
  <2> QED
    BY <1>11, <2>1, <2>2
<1>15. Ordered'
  <2> SUFFICES ASSUME NEW s \in World, NEW g \in handles'[s], NEW h \in handles'[s],
                      g.op = "irecv", h.op = "irecv", g.peer = h.peer, g.call < h.call
               PROVE  Got(g) <= Got(h)
    BY <1>2 DEF Ordered
  <2>1. CASE g \in handles[s] /\ h \in handles[s]
    BY <2>1 DEF Inv, Ordered
  <2>2. CASE s = r /\ g = new
    <3>1. h.call <= calls[r]
      BY <1>1, <1>2, <1>5, <2>2 DEF Pending
    <3>2. h.call \in Nat
      BY <1>5 DEF Handle
    <3> QED
      BY <1>3, <1>6, <2>2, <3>1, <3>2
  <2>3. CASE s = r /\ g \in handles[s] /\ h = new
    <3>1. Got(g) \in Nat /\ Got(g) <= floor[r][src]
      BY <1>6, <2>3 DEF Inv, Received
    <3> QED
      BY <1>7, <1>9, <2>3, <3>1
  <2> QED
    BY <1>11, <2>1, <2>2, <2>3
<1> QED
  BY <1>5, <1>8, <1>12, <1>13, <1>14, <1>15 DEF Inv

\* An index out of bounds.
LEMMA PanicInv ==
  ASSUME Inv, NEW r \in World, Panic(r)
  PROVE  Inv'
<1>1. /\ holder = <<r>> /\ holder' = <<>>
      /\ todo' = [todo EXCEPT ![r] = <<>>]
      /\ handles' = [handles EXCEPT ![r] = {h \in @ : h.call # calls[r]}]
      /\ panicked' = [panicked EXCEPT ![r] = TRUE]
      /\ UNCHANGED <<world_size, buffers, calls, floor>>
  BY DEF Panic
<1>2. TypeOK /\ Pending /\ World' = World
  BY <1>1 DEF Inv, World
<1>3. <<>> \in Seq(World) /\ Len(<<>>) <= 1 /\ <<>> \in Seq(Operation)
  BY EmptySeq
<1>4. /\ handles' \in [World -> SUBSET Handle]
      /\ \A s \in World : handles'[s] \subseteq handles[s]
  BY <1>1, <1>2 DEF TypeOK
<1>5. /\ todo' \in [World -> Seq(Operation)] /\ todo'[r] = <<>>
      /\ \A s \in World : s # r => todo'[s] = todo[s]
  BY <1>1, <1>2, <1>3 DEF TypeOK
<1>6. TypeOK'
  BY <1>1, <1>2, <1>3, <1>4, <1>5 DEF TypeOK
<1>7. Pending'
  <2>1. \A s \in World : s # r => Op(s)' = Op(s)
    BY <1>5 DEF Op
  <2>2. \A s \in World : holder' # <<s>>
    BY <1>1
  <2>3. \A h \in handles'[r] : h.call <= calls[r]
    BY <1>2, <1>4 DEF Pending
  <2> SUFFICES ASSUME NEW s \in World
               PROVE  /\ \/ todo'[s] = <<>>
                         \/ \E p \in Nat : todo'[s] = <<Irecv(p)>>
                         \/ \E p \in Nat : todo'[s] = <<Isend(p)>>
                         \/ \E p, q \in Nat : todo'[s] = Sendrecv(p, q)
                      /\ todo'[s] # <<>> => calls[s] >= 1
                      /\ \A h \in handles'[s] :
                           /\ h.call <= calls[s]
                           /\ todo'[s] # <<>> /\ Op(s)'.op = "isend" => h.call < calls[s]
    BY <1>1, <1>2, <2>2 DEF Pending
  <2>4. CASE s = r
    BY <1>5, <2>3, <2>4
  <2>5. CASE s # r
    BY <1>2, <1>4, <1>5, <2>1, <2>5 DEF Pending
  <2> QED
    BY <2>4, <2>5
<1>8. Written' /\ Floors'
  BY <1>1, <1>2, <1>4 DEF Inv, Written, Floors, Current
<1>9. Received' /\ Ordered'
  BY <1>1, <1>2, <1>4 DEF Inv, Received, Ordered, Current
<1> QED
  BY <1>6, <1>7, <1>8, <1>9 DEF Inv

LEMMA NextInv == Inv /\ [Next]_vars => Inv'
<1> SUFFICES ASSUME Inv, [Next]_vars PROVE Inv'
  OBVIOUS
<1>1. CASE UNCHANGED vars
  <2>1. World' = World /\ UNCHANGED <<world_size, buffers, holder, calls, todo, floor, handles, panicked>>
    BY <1>1 DEF vars, World
  <2>2. TypeOK' /\ Pending'
    BY <2>1 DEF Inv, TypeOK, Pending, Op
  <2>3. Written' /\ Floors' /\ Received' /\ Ordered'
    BY <2>1 DEF Inv, Written, Floors, Received, Ordered, Current
  <2> QED
    BY <2>2, <2>3 DEF Inv
<1>2. ASSUME NEW r \in World,
             (\E operations \in CallsOf : Begin(r, operations)) \/ Lock(r) \/ Locked(r)
      PROVE  Inv'
  BY <1>2, BeginInv, LockInv, WriteInv, ReadInv, PanicInv DEF Locked
<1> QED
  BY <1>1, <1>2 DEF Next

LEMMA Inductive == Spec => []Inv
BY InitInv, NextInv, PTL DEF Spec
------------------------------------------------------------------------------
\* The state keeps its types, whatever the calls and however they interleave.
THEOREM TypeCorrect == Spec => []TypeOK
<1>1. Inv => TypeOK
  BY DEF Inv
<1> QED
  BY <1>1, Inductive, PTL

\* In a group of any size, with any number of calls under way, irecv gives data of
\* the peer it asked for, no older than what the buffer held when the call began
\* and no older than what an earlier call was given: AsyncP2PChannel::irecv and
\* P2PChannel::irecv read a register.
THEOREM RegularReads == Spec => []Regular
<1>1. ASSUME Inv PROVE Regular
  <2>1. TypeOK /\ Written /\ Received /\ Ordered
    BY <1>1 DEF Inv
  <2> SUFFICES ASSUME NEW r \in World, NEW h \in Given(r, "irecv")
               PROVE  /\ Got(h) >= h.floor
                      /\ Got(h) > 0 => h.result[1][1].src = h.peer /\ Got(h) <= calls[h.peer]
                      /\ \A g \in Given(r, "irecv") :
                           g.peer = h.peer /\ g.call < h.call => Got(g) <= Got(h)
    BY DEF Regular
  <2>2. h \in handles[r] /\ h.op = "irecv" /\ h.floor \in Nat
    BY <2>1 DEF Given, TypeOK, Handle
  <2>3. /\ h.peer \in World /\ Got(h) \in Nat
        /\ h.floor <= Got(h) /\ Got(h) <= Current(h.peer, r)
        /\ Got(h) > 0 => h.result[1][1].src = h.peer
    BY <2>1, <2>2 DEF Received
  <2>4. Got(h) <= calls[h.peer]
    BY <2>1, <2>3, CurrentType, Parameters
  <2>5. \A g \in Given(r, "irecv") : g.peer = h.peer /\ g.call < h.call => Got(g) <= Got(h)
    BY <2>1, <2>2 DEF Given, Ordered
  <2> QED
    BY <2>2, <2>3, <2>4, <2>5
<1> QED
  BY <1>1, Inductive, PTL
------------------------------------------------------------------------------
\* Of calls k, one for each rank, r has sent to the next in the ring, and was given
\* by the one before less than that has sent.
SentOn(r, k) == \E h \in handles[r] : h.op = "isend" /\ h.call = k[r] /\ h.peer = NextTo(r)
TooEarly(r, k) ==
  \E g \in handles[r] : g.op = "irecv" /\ g.call = k[r] /\ g.peer = Prev(r) /\ Got(g) < k[Prev(r)]

\* RingSees without the bound on the number of calls.
NotAllTooEarly == \A k \in [World -> Nat] : ~ \A r \in World : SentOn(r, k) /\ TooEarly(r, k)

LEMMA AroundTheRing ==
  ASSUME TypeOK, NEW r \in World
  PROVE  Prev(r) \in World /\ NextTo(r) \in World /\ NextTo(Prev(r)) = r
<1>1. world_size \in Nat /\ world_size > 0 /\ r \in Nat /\ r < world_size
  BY Parameters
<1>2. \A n \in Nat : n \in World <=> n < world_size
  BY <1>1 DEF World, Ranks
<1>3. CASE r = 0
  BY <1>1, <1>2, <1>3 DEF Prev, NextTo
<1>4. CASE r # 0
  <2>1. Prev(r) = r - 1 /\ r - 1 \in Nat /\ r - 1 < world_size /\ r - 1 # world_size - 1
    BY <1>1, <1>4 DEF Prev
  <2>2. NextTo(r - 1) = r
    BY <1>1, <2>1 DEF NextTo
  <2>3. NextTo(r) \in World
    BY <1>1, <1>2 DEF NextTo
  <2> QED
    BY <1>2, <2>1, <2>2, <2>3
<1> QED
  BY <1>3, <1>4

LEMMA RingFewer ==
  ASSUME NotAllTooEarly, UNCHANGED world_size, \A s \in World : handles'[s] \subseteq handles[s]
  PROVE  NotAllTooEarly'
<1>1. World' = World
  BY DEF World
<1>2. ASSUME NEW k \in [World -> Nat], NEW s \in World, SentOn(s, k)', TooEarly(s, k)'
      PROVE  SentOn(s, k) /\ TooEarly(s, k)
  <2>1. SentOn(s, k)
    BY <1>2 DEF SentOn, NextTo
  <2>2. TooEarly(s, k)
    BY <1>2 DEF TooEarly, Prev
  <2> QED
    BY <2>1, <2>2
<1> QED
  BY <1>1, <1>2 DEF NotAllTooEarly

\* A receive that comes after the peer's send was given what was sent.
LEMMA RingRead ==
  ASSUME Inv, NotAllTooEarly, NEW r \in World, Read(r)
  PROVE  NotAllTooEarly'
<1>1. /\ TypeOK /\ Written /\ Pending /\ World' = World /\ holder = <<r>> /\ Op(r).op = "irecv"
      /\ Op(r).peer < world_size /\ UNCHANGED <<world_size, calls, buffers>>
      /\ Complete(r, <<buffers[<<Op(r).peer, r>>]>>)
  BY DEF Inv, Read, Doing, World, IsPeer, Held
<1>2. PICK src \in World : src = Op(r).peer
  BY <1>1, HeadOfCall, Parameters DEF Operation, Pending
<1> DEFINE new == [call |-> calls[r], op |-> Op(r).op, peer |-> Op(r).peer,
                   floor |-> floor[r][Op(r).peer], result |-> <<buffers[<<Op(r).peer, r>>]>>]
<1>3. buffers[<<src, r>>] \in Seq(Message) /\ <<buffers[<<src, r>>]>> \in Seq(Seq(Message))
  BY <1>1 DEF TypeOK
<1>4. handles'[r] = handles[r] \cup {new} /\ \A s \in World : s # r => handles'[s] = handles[s]
  BY <1>1, <1>2, <1>3, CompleteKeeps
<1>5. new.op = "irecv" /\ new.peer = src /\ Got(new) = Current(src, r)
  BY <1>1, <1>2 DEF Got, Current
<1> HIDE DEF new
<1>6. ASSUME NEW k \in [World -> Nat], \A s \in World : SentOn(s, k)' /\ TooEarly(s, k)'
      PROVE  FALSE
  <2>1. \A s \in World : SentOn(s, k)
    BY <1>1, <1>4, <1>5, <1>6 DEF SentOn, NextTo
  <2>2. PICK s \in World : ~TooEarly(s, k)
    BY <2>1 DEF NotAllTooEarly
  <2>3. PICK g \in handles'[s] : /\ g.op = "irecv" /\ g.call = k[s] /\ g.peer = Prev(s)
                                 /\ Got(g) < k[Prev(s)]
    BY <1>1, <1>6 DEF TooEarly, Prev
  <2>4. s = r /\ g = new
    BY <1>4, <2>2, <2>3 DEF TooEarly
  <2>5. Prev(r) = src /\ Current(src, r) < k[src]
    BY <1>5, <2>3, <2>4
  <2>6. PICK h \in handles[src] : h.op = "isend" /\ h.call = k[src] /\ h.peer = NextTo(src)
    BY <2>1 DEF SentOn
  <2>7. NextTo(src) = r
    BY <1>1, <2>5, AroundTheRing
  <2>8. k[src] <= Current(src, r)
    BY <1>1, <2>6, <2>7 DEF Written
  <2> QED
    BY <1>1, <2>5, <2>8, CurrentType
<1> QED
  BY <1>1, <1>6 DEF NotAllTooEarly

\* A send comes before the receive of its call.
LEMMA RingWrite ==
  ASSUME Inv, NotAllTooEarly, NEW r \in World, Write(r)
  PROVE  NotAllTooEarly'
<1> DEFINE data == [src |-> r, call |-> calls[r]]
           new == [call |-> calls[r], op |-> Op(r).op, peer |-> Op(r).peer,
                   floor |-> floor[r][Op(r).peer], result |-> <<<<data>>>>]
<1>1. /\ TypeOK /\ Pending /\ World' = World /\ holder = <<r>> /\ Op(r).op = "isend"
      /\ Op(r).peer < world_size /\ UNCHANGED <<world_size, calls>> /\ Complete(r, <<<<data>>>>)
  BY DEF Inv, Write, Doing, World, IsPeer
<1>2. Op(r).peer \in World /\ r \in Nat /\ calls[r] \in Nat
  BY <1>1, HeadOfCall, Parameters DEF Operation, Pending
<1>3. <<<<data>>>> \in Seq(Seq(Message))
  BY <1>2 DEF Message
<1>4. handles'[r] = handles[r] \cup {new} /\ \A s \in World : s # r => handles'[s] = handles[s]
  BY <1>1, <1>2, <1>3, CompleteKeeps
<1>5. new.op = "isend" /\ new.call = calls[r]
  BY <1>1
<1> HIDE DEF new
<1>6. \A h \in handles[r] : h.call < calls[r] /\ h.call \in Nat
  BY <1>1 DEF Pending, TypeOK, Handle
<1>7. ASSUME NEW k \in [World -> Nat], \A s \in World : SentOn(s, k)' /\ TooEarly(s, k)'
      PROVE  FALSE
  <2>1. \A s \in World : TooEarly(s, k)
    BY <1>1, <1>4, <1>5, <1>7 DEF TooEarly, Prev
  <2>2. PICK s \in World : ~SentOn(s, k)
    BY <2>1 DEF NotAllTooEarly
  <2>3. PICK h \in handles'[s] : h.op = "isend" /\ h.call = k[s] /\ h.peer = NextTo(s)
    BY <1>1, <1>7 DEF SentOn, NextTo
  <2>4. s = r /\ k[r] = calls[r]
    BY <1>4, <1>5, <2>2, <2>3 DEF SentOn
  <2>5. PICK g \in handles[r] : g.call = k[r]
    BY <2>1 DEF TooEarly
  <2> QED
    BY <1>2, <1>6, <2>4, <2>5
<1> QED
  BY <1>1, <1>7 DEF NotAllTooEarly

\* Ranks that pass data around a ring of any size, in sendrecvs that interleave in
\* any way, cannot all receive before the data was sent: the order of the two
\* halves in AsyncP2PChannel::sendrecv.
THEOREM RingReceives == Spec => []RingSees
<1>1. Init => NotAllTooEarly
  <2> SUFFICES ASSUME Init PROVE NotAllTooEarly
    OBVIOUS
  <2>1. 0 \in World /\ handles[0] = {}
    BY P2PChannelsAssumption DEF Init, World, Ranks
  <2> QED
    BY <2>1 DEF NotAllTooEarly, SentOn
<1>2. Inv /\ NotAllTooEarly /\ [Next]_vars => NotAllTooEarly'
  <2> SUFFICES ASSUME Inv, NotAllTooEarly, [Next]_vars PROVE NotAllTooEarly'
    OBVIOUS
  <2>1. CASE UNCHANGED <<world_size, handles>>
    BY <2>1, RingFewer
  <2>2. ASSUME NEW r \in World, Panic(r)
        PROVE  NotAllTooEarly'
    <3>1. UNCHANGED world_size /\ \A s \in World : handles'[s] \subseteq handles[s]
      BY <2>2 DEF Panic, Inv, TypeOK
    <3> QED
      BY <3>1, RingFewer
  <2>3. \A r \in World :
          /\ \A operations \in CallsOf : Begin(r, operations) => UNCHANGED <<world_size, handles>>
          /\ Lock(r) => UNCHANGED <<world_size, handles>>
    BY DEF Begin, Lock
  <2>4. ASSUME NEW r \in World, Write(r) \/ Read(r)
        PROVE  NotAllTooEarly'
    BY <2>4, RingRead, RingWrite
  <2> QED
    BY <2>1, <2>2, <2>3, <2>4 DEF Next, Locked, vars
<1>3. Inv /\ NotAllTooEarly => RingSees
  <2> SUFFICES ASSUME Inv, NotAllTooEarly, NEW k \in [World -> 1 .. MaxCalls[world_size]]
               PROVE  \E r \in World :
                        ~ (/\ \E h \in Sent(r) : h.call = k[r] /\ h.peer = NextTo(r)
                           /\ Behind(r, k[r], Prev(r), k[Prev(r)]))
    BY DEF RingSees
  <2>1. k \in [World -> Nat]
    BY Parameters DEF Inv
  <2>2. PICK r \in World : ~SentOn(r, k) \/ ~TooEarly(r, k)
    BY <2>1 DEF NotAllTooEarly
  <2>3. CASE ~SentOn(r, k)
    BY <2>3 DEF SentOn, Sent, Given
  <2>4. CASE ~TooEarly(r, k)
    BY <2>4 DEF TooEarly, Behind, Given
  <2> QED
    BY <2>2, <2>3, <2>4
<1> QED
  BY <1>1, <1>2, <1>3, Inductive, InitInv, PTL DEF Spec
==============================================================================
