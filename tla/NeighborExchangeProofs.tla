------------------------ MODULE NeighborExchangeProofs ------------------------
(***************************************************************************)
(* The safety of NeighborExchange for every world, every torus and any     *)
(* number of calls.                                                        *)
(*                                                                         *)
(* A slot <<a, b>> is written by a alone, with calls that only grow, so    *)
(* what b once read there stays a lower bound of what is there; and a has  *)
(* written before it reads, so what it reads is at least what b had        *)
(* written when b read.                                                    *)
(***************************************************************************)
EXTENDS NeighborExchange, TLAPS

Seen(a, b) == CallOf(slots[<<a, b>>])

\* A slot holds a call its sender has begun.
SlotsInv ==
  \A a, b \in World :
    \/ slots[<<a, b>>] = <<>>
    \/ \E c \in 1 .. calls[a] : slots[<<a, b>>] = <<[src |-> a, call |-> c]>>

\* A rank in a call has begun it, and one that is about to receive has sent.
RunningInv ==
  \A r \in World :
    /\ at[r] # "idle" => calls[r] > 0
    /\ at[r] = "recv" => /\ peers[r] # <<>>
                         /\ IsPeer(world_size, Peer(r))
                         /\ slots[<<r, Peer(r)>>] = <<Data(r)>>

\* The slots have only moved on since an exchange.
TakenInv ==
  \A a, b \in World : \A e \in Exchanges(a, b) :
    /\ e.call <= calls[a]
    /\ e.call <= Seen(a, b)
    /\ CallOf(e.data) <= Seen(b, a)

IInv ==
  /\ TypeOK
  /\ SlotsInv
  /\ RunningInv
  /\ TakenInv
  /\ EitherSees
  /\ NeverOlder
  /\ FromThePeer
------------------------------------------------------------------------------
(* Types.                                                                  *)

LEMMA DimensionTypes ==
  ASSUME TypeOK
  PROVE  /\ world_size \in Nat
         /\ dims \in Seq(Nat)
         /\ Len(dims) \in {2, 3}
         /\ dims[1] \in Nat \ {0}
         /\ dims[2] \in Nat \ {0}
         /\ Len(dims) = 3 => dims[3] \in Nat \ {0}
<1>1. world_size \in Nat /\ dims \in Seq(Nat) /\ IsTorus(dims)
  BY NeighborExchangeAssumption DEF TypeOK
<1>2. \A i \in 1 .. Len(dims) : dims[i] \in Nat \ {0}
  BY <1>1 DEF IsTorus
<1>3. QED
  BY <1>1, <1>2 DEF IsTorus

LEMMA Remainder ==
  ASSUME NEW n \in Nat, NEW d \in Nat \ {0}
  PROVE  n % d \in Nat /\ n \div d \in Nat
OBVIOUS

LEMMA ProductType ==
  ASSUME NEW m \in Nat, NEW n \in Nat
  PROVE  m * n \in Nat
OBVIOUS

LEMMA PositiveProduct ==
  ASSUME NEW m \in Nat \ {0}, NEW n \in Nat \ {0}
  PROVE  m * n \in Nat \ {0}
OBVIOUS

LEMMA WrapType ==
  ASSUME NEW c \in Nat, NEW size \in Nat \ {0}, NEW positive \in BOOLEAN
  PROVE  wrap_neighbor(c, size, positive) \in Nat
<1>1. c + 1 \in Nat /\ c + size - 1 \in Nat
  OBVIOUS
<1>2. QED
  BY <1>1, Remainder DEF wrap_neighbor

Places == {c \in Seq(Nat) : Len(c) \in {2, 3}}

LEMMA Appended ==
  ASSUME NEW s \in Seq(Nat), NEW n \in Nat
  PROVE  Append(s, n) \in Seq(Nat) /\ Len(Append(s, n)) = Len(s) + 1
OBVIOUS

LEMMA Pair ==
  ASSUME NEW m \in Nat, NEW n \in Nat
  PROVE  <<m, n>> \in Seq(Nat)
OBVIOUS

LEMMA RankPlace ==
  ASSUME TypeOK, NEW r \in Nat
  PROVE  /\ from_linear(r, dims) \in Places
         /\ Len(from_linear(r, dims)) = Len(dims)
<1>0. /\ Len(dims) \in {2, 3} /\ dims[1] \in Nat \ {0} /\ dims[2] \in Nat \ {0}
      /\ Len(dims) = 3 => dims[3] \in Nat \ {0}
  BY DimensionTypes
<1>1. CASE Len(dims) = 2
  <2>1. r % dims[1] \in Nat /\ r \div dims[1] \in Nat
    BY <1>0, Remainder
  <2>2. from_linear(r, dims) = <<r % dims[1], r \div dims[1]>>
    BY <1>1 DEF from_linear
  <2>3. <<r % dims[1], r \div dims[1]>> \in Seq(Nat) /\ Len(<<r % dims[1], r \div dims[1]>>) = 2
    BY <2>1
  <2>4. QED
    BY <1>1, <2>2, <2>3 DEF Places
<1>2. CASE Len(dims) = 3
  <2> DEFINE plane == dims[1] * dims[2]
             rem == r % plane
             place == <<rem % dims[1], rem \div dims[1], (r \div plane) % dims[3]>>
  <2>1. plane \in Nat \ {0}
    BY <1>0, PositiveProduct
  <2> HIDE DEF plane
  <2>2. rem \in Nat /\ r \div plane \in Nat
    BY <2>1, Remainder
  <2> HIDE DEF rem
  <2>3. rem % dims[1] \in Nat /\ rem \div dims[1] \in Nat /\ (r \div plane) % dims[3] \in Nat
    BY <1>0, <1>2, <2>2, Remainder
  <2>4. from_linear(r, dims) = place
    BY <1>2 DEF from_linear, plane, rem
  <2>5. place \in Seq(Nat) /\ Len(place) = 3
    BY <2>3
  <2>6. QED
    BY <1>2, <2>4, <2>5 DEF Places
<1>3. QED
  BY <1>0, <1>1, <1>2

LEMMA NeighborPlace ==
  ASSUME TypeOK, NEW c \in Places, Len(c) = Len(dims),
         NEW axis \in 0 .. 2, NEW positive \in BOOLEAN
  PROVE  neighbor(c, dims, axis, positive) \in Places
<1>0. /\ Len(dims) \in {2, 3} /\ dims[1] \in Nat \ {0} /\ dims[2] \in Nat \ {0}
      /\ Len(dims) = 3 => dims[3] \in Nat \ {0}
  BY DimensionTypes
<1>1. CASE axis = Len(c)
  <2>1. wrap_neighbor(0, 1, positive) \in Nat
    BY WrapType
  <2> DEFINE here == wrap_neighbor(0, 1, positive)
  <2>2. c \in Seq(Nat) /\ Len(c) = 2
    BY <1>1 DEF Places
  <2> HIDE DEF here
  <2>3. Append(c, here) \in Seq(Nat) /\ Len(Append(c, here)) = 3
    <3>1. here \in Nat
      BY <2>1 DEF here
    <3>2. Append(c, here) \in Seq(Nat) /\ Len(Append(c, here)) = Len(c) + 1
      BY ONLY <2>2, <3>1, Appended
    <3>3. QED
      BY ONLY <2>2, <3>2
  <2>4. QED
    BY <1>1, <2>3 DEF Places, neighbor, here
<1>2. CASE axis # Len(c)
  <2>1. axis + 1 \in 1 .. Len(c)
    BY <1>0, <1>2
  <2>2. c[axis + 1] \in Nat /\ dims[axis + 1] \in Nat \ {0}
    <3>1. c \in Seq(Nat)
      BY DEF Places
    <3>2. c[axis + 1] \in Nat
      BY ONLY <2>1, <3>1
    <3>3. CASE axis = 0
      BY ONLY <1>0, <3>2, <3>3
    <3>4. CASE axis = 1
      BY ONLY <1>0, <3>2, <3>4
    <3>5. CASE axis = 2
      BY <1>0, <2>1, <3>2, <3>5
    <3>6. QED
      BY <3>3, <3>4, <3>5
  <2>3. wrap_neighbor(c[axis + 1], dims[axis + 1], positive) \in Nat
    BY <2>2, WrapType
  <2>4. [c EXCEPT ![axis + 1] = wrap_neighbor(@, dims[axis + 1], positive)] \in Places
    BY <2>1, <2>3 DEF Places
  <2>5. QED
    BY <1>2, <2>4 DEF neighbor
<1>3. QED
  BY <1>1, <1>2

LEMMA PlaceRank ==
  ASSUME TypeOK, NEW c \in Places
  PROVE  linear_index(c, dims) \in Nat
<1>0. dims[1] \in Nat /\ dims[2] \in Nat
  BY DimensionTypes
<1>1. c[1] \in Nat /\ c[2] \in Nat /\ c[2] * dims[1] \in Nat
  BY <1>0, ProductType DEF Places
<1>2. CASE Len(c) = 3
  <2>1. c \in Seq(Nat) /\ 3 \in 1 .. Len(c) => c[3] \in Nat
    OBVIOUS
  <2>2. c[3] \in Nat /\ c[3] * dims[1] * dims[2] \in Nat
    BY <1>0, <1>2, <2>1, ProductType DEF Places
  <2>3. QED
    BY <1>1, <1>2, <2>2 DEF linear_index
<1>3. CASE Len(c) # 3
  BY <1>1, <1>3 DEF linear_index
<1>4. QED
  BY <1>2, <1>3

\* Every operation has a sequence of ranks to exchange with.
LEMMA OperationTypes ==
  ASSUME TypeOK, NEW r \in World, NEW operation \in Operations(r)
  PROVE  operation.peers \in Seq(Nat) /\ operation.strict \in BOOLEAN
<1>0. r \in Nat /\ world_size \in Nat /\ Len(dims) \in {2, 3}
  BY DimensionTypes DEF World, Ranks
<1>1. rank_coords(r) \in Places /\ Len(rank_coords(r)) = Len(dims)
  BY <1>0, RankPlace DEF rank_coords
<1>2. ASSUME NEW axis \in 0 .. 2, NEW positive \in BOOLEAN
      PROVE  linear_index(neighbor(rank_coords(r), dims, axis, positive), dims) \in Nat
  BY <1>1, NeighborPlace, PlaceRank
<1>3. CASE operation = ExchangeWithNeighbors(r)
  <2>1. ASSUME NEW k \in 1 .. 2 * Len(dims)
        PROVE  linear_index(neighbors(rank_coords(r), dims)[k], dims) \in Nat
    <3>0. k \in 1 .. 6
      <4>1. CASE Len(dims) = 2
        BY <4>1
      <4>2. CASE Len(dims) = 3
        BY <4>2
      <4>3. QED
        BY <1>0, <4>1, <4>2
    <3>1. (k - 1) \div 2 \in 0 .. 2 /\ (k % 2 = 1) \in BOOLEAN
      BY <3>0
    <3>2. neighbors(rank_coords(r), dims)[k]
            = neighbor(rank_coords(r), dims, (k - 1) \div 2, k % 2 = 1)
      BY <1>0, <1>1 DEF neighbors
    <3>3. QED
      BY <1>2, <3>1, <3>2
  <2>2. 2 * Len(dims) \in Nat
    BY <1>0
  <2>3. QED
    BY <1>3, <2>1, <2>2 DEF ExchangeWithNeighbors
<1>4. CASE \E axis \in 0 .. 2 : operation = NearestNeighborExchange(r, axis)
  <2>1. PICK axis \in 0 .. 2 : operation = NearestNeighborExchange(r, axis)
    BY <1>4
  <2>2. /\ linear_index(neighbor(rank_coords(r), dims, axis, TRUE), dims) \in Nat
        /\ linear_index(neighbor(rank_coords(r), dims, axis, FALSE), dims) \in Nat
    BY <1>2
  <2>3. QED
    BY <2>1, <2>2, Pair DEF NearestNeighborExchange
<1>5. CASE \E stage_rank \in 0 .. world_size : operation = PipelineStageSendrecv(stage_rank)
  BY <1>0, <1>5 DEF PipelineStageSendrecv
<1>6. QED
  BY <1>3, <1>4, <1>5 DEF Operations
------------------------------------------------------------------------------
(* Facts about one state.                                                  *)

LEMMA CallType ==
  ASSUME NEW data \in Seq(Message)
  PROVE  CallOf(data) \in Nat
<1>1. CASE data = <<>>
  BY <1>1 DEF CallOf
<1>2. CASE data # <<>>
  <2>1. data[1] \in Message
    BY <1>2
  <2>2. QED
    BY <1>2, <2>1 DEF CallOf, Message
<1>3. QED
  BY <1>1, <1>2

LEMMA WorldTypes ==
  ASSUME TypeOK, NEW a \in World
  PROVE  a \in Nat /\ calls[a] \in Nat
<1>1. a \in Nat
  BY DimensionTypes DEF World, Ranks
<1>2. calls[a] \in 0 .. MaxCalls
  BY DEF TypeOK
<1>3. QED
  BY <1>1, <1>2

LEMMA SeenType ==
  ASSUME TypeOK, SlotsInv, NEW a \in World, NEW b \in World
  PROVE  Seen(a, b) \in Nat /\ Seen(a, b) <= calls[a]
<1>1. calls[a] \in Nat
  BY WorldTypes
<1>2. CASE slots[<<a, b>>] = <<>>
  BY <1>1, <1>2 DEF Seen, CallOf
<1>3. CASE \E c \in 1 .. calls[a] : slots[<<a, b>>] = <<[src |-> a, call |-> c]>>
  <2>1. PICK c \in 1 .. calls[a] : slots[<<a, b>>] = <<[src |-> a, call |-> c]>>
    BY <1>3
  <2>2. Seen(a, b) = c
    BY <2>1 DEF Seen, CallOf
  <2>3. QED
    BY <1>1, <2>2
<1>4. QED
  BY <1>2, <1>3 DEF SlotsInv

LEMMA ExchangeTypes ==
  ASSUME TypeOK, NEW a \in World, NEW b, NEW e \in Exchanges(a, b)
  PROVE  /\ e \in results[a]
         /\ e.peer = b
         /\ e.call \in Nat
         /\ e.data \in Seq(Message)
         /\ CallOf(e.data) \in Nat
<1>1. e \in results[a] /\ e.peer = b /\ e \in Result
  BY DEF Exchanges, TypeOK
<1>2. QED
  BY <1>1, CallType DEF Result

LEMMA PeerInWorld ==
  ASSUME TypeOK, NEW r \in World, peers[r] # <<>>
  PROVE  /\ Peer(r) \in Nat
         /\ Tail(peers[r]) \in Seq(Nat)
         /\ IsPeer(world_size, Peer(r)) <=> Peer(r) \in World
<1>1. peers[r] \in Seq(Nat) /\ world_size \in Nat
  BY DimensionTypes DEF TypeOK
<1>2. Peer(r) \in Nat /\ Tail(peers[r]) \in Seq(Nat)
  BY <1>1 DEF Peer
<1>3. QED
  BY <1>1, <1>2 DEF IsPeer, World, Ranks

LEMMA DataType ==
  ASSUME TypeOK, NEW r \in World
  PROVE  <<Data(r)>> \in Seq(Message) /\ CallOf(<<Data(r)>>) = calls[r]
<1>1. Data(r) \in Message
  BY WorldTypes DEF Data, Message
<1>2. <<Data(r)>> \in Seq(Message)
  BY <1>1
<1>3. CallOf(<<Data(r)>>) = calls[r]
  BY DEF CallOf, Data
<1>4. QED
  BY <1>2, <1>3
------------------------------------------------------------------------------
(* Types are preserved.                                                    *)

\* The call of a rank has one more result and one less peer to go.
LEMMA GivenTypes ==
  ASSUME TypeOK, NEW r \in World, peers[r] # <<>>, NEW data \in Seq(Message), Given(r, data)
  PROVE  /\ results' \in [World -> SUBSET Result]
         /\ peers' \in [World -> Seq(Nat)]
         /\ at' \in [World -> {"idle", "send", "recv"}]
<1>1. Tail(peers[r]) \in Seq(Nat) /\ Peer(r) \in Nat /\ calls[r] \in Nat
  BY PeerInWorld, WorldTypes
<1> DEFINE new == [call |-> calls[r], peer |-> Peer(r), data |-> data]
<1>2. new \in Result
  BY <1>1 DEF Result
<1> HIDE DEF new
<1>3. results' = [results EXCEPT ![r] = @ \cup {new}]
  BY DEF Given, new
<1>4. results' \in [World -> SUBSET Result]
  BY <1>2, <1>3 DEF TypeOK
<1>5. peers' \in [World -> Seq(Nat)]
  BY <1>1 DEF TypeOK, Given
<1>6. at' \in [World -> {"idle", "send", "recv"}]
  BY DEF TypeOK, Given
<1>7. QED
  BY <1>4, <1>5, <1>6

LEMMA TypeInit == Init => TypeOK
<1> SUFFICES ASSUME Init PROVE TypeOK
  OBVIOUS
<1>1. world_size \in WorldSizes /\ dims \in Dimensions
  BY DEF Init
<1>2. slots \in [World \X World -> Seq(Message)]
  BY DEF Init, EmptySlots, World
<1>3. calls \in [World -> 0 .. MaxCalls]
  BY NeighborExchangeAssumption DEF Init
<1>4. peers \in [World -> Seq(Nat)]
  BY DEF Init
<1>5. QED
  BY <1>1, <1>2, <1>3, <1>4 DEF Init, TypeOK

LEMMA TypeStep ==
  ASSUME TypeOK, RunningInv, [Next]_vars
  PROVE  TypeOK'
<1>1. ASSUME NEW r \in World, NEW operation \in Operations(r), Begin(r, operation)
      PROVE  TypeOK'
  <2>1. operation.peers \in Seq(Nat) /\ operation.strict \in BOOLEAN
    BY OperationTypes
  <2>2. World' = World
    BY <1>1 DEF Begin, World
  <2>3. calls' \in [World -> 0 .. MaxCalls]
    BY <1>1, NeighborExchangeAssumption DEF TypeOK, Begin
  <2>4. at' \in [World -> {"idle", "send", "recv"}]
    BY <1>1 DEF TypeOK, Begin
  <2>5. peers' \in [World -> Seq(Nat)] /\ strict' \in [World -> BOOLEAN]
    BY <1>1, <2>1 DEF TypeOK, Begin
  <2>6. QED
    BY <1>1, <2>2, <2>3, <2>4, <2>5 DEF TypeOK, Begin
<1>2. ASSUME NEW r \in World, Send(r) PROVE TypeOK'
  <2>1. World' = World
    BY <1>2 DEF Send, World
  <2>2. slots' \in [World \X World -> Seq(Message)]
    BY <1>2, DataType DEF TypeOK, Send, Put
  <2>3. at' \in [World -> {"idle", "send", "recv"}]
    BY <1>2 DEF TypeOK, Send
  <2>4. QED
    BY <1>2, <2>1, <2>2, <2>3 DEF TypeOK, Send
<1>3. ASSUME NEW r \in World, SendFails(r) PROVE TypeOK'
  <2>1. World' = World
    BY <1>3 DEF SendFails, World
  <2>2. CASE strict[r]
    <3>1. failed' \in [World -> BOOLEAN] /\ at' \in [World -> {"idle", "send", "recv"}]
      BY <1>3, <2>2 DEF TypeOK, SendFails
    <3>2. QED
      BY <1>3, <2>1, <2>2, <3>1 DEF TypeOK, SendFails
  <2>3. CASE ~strict[r]
    <3>1. /\ results' \in [World -> SUBSET Result]
          /\ peers' \in [World -> Seq(Nat)]
          /\ at' \in [World -> {"idle", "send", "recv"}]
      BY <1>3, <2>3, DataType, GivenTypes DEF SendFails
    <3>2. QED
      BY <1>3, <2>1, <2>3, <3>1 DEF TypeOK, SendFails
  <2>4. QED
    BY <2>2, <2>3
<1>4. ASSUME NEW r \in World, Recv(r) PROVE TypeOK'
  <2>1. World' = World
    BY <1>4 DEF Recv, World
  <2>2. peers[r] # <<>> /\ Peer(r) \in World
    BY <1>4, PeerInWorld DEF RunningInv, Recv
  <2>3. Held(slots, Peer(r), r) \in Seq(Message)
    BY <2>2 DEF TypeOK, Held
  <2>4. /\ results' \in [World -> SUBSET Result]
        /\ peers' \in [World -> Seq(Nat)]
        /\ at' \in [World -> {"idle", "send", "recv"}]
    BY <1>4, <2>2, <2>3, GivenTypes DEF Recv
  <2>5. QED
    BY <1>4, <2>1, <2>4 DEF TypeOK, Recv
<1>5. ASSUME NEW r \in World, Return(r) PROVE TypeOK'
  BY <1>5 DEF TypeOK, Return, World
<1>6. CASE UNCHANGED vars
  BY <1>6 DEF TypeOK, vars, World
<1>7. QED
  BY <1>1, <1>2, <1>3, <1>4, <1>5, <1>6 DEF Next, Running
------------------------------------------------------------------------------
(* The invariant is preserved.                                             *)

\* What the properties say of the slots and of the results.
DataInv == SlotsInv /\ TakenInv /\ EitherSees /\ NeverOlder /\ FromThePeer

\* A step that leaves the slots and the exchanges alone can only begin a call.
LEMMA Unmoved ==
  ASSUME TypeOK, DataInv, world_size' = world_size, slots' = slots,
         \A a \in World : calls'[a] \in Nat /\ calls'[a] >= calls[a],
         \A a, b \in World : Exchanges(a, b)' = Exchanges(a, b)
  PROVE  DataInv'
<1>0. World' = World
  BY DEF World
<1>1. SlotsInv'
  <2> SUFFICES ASSUME NEW a \in World, NEW b \in World
               PROVE  \/ slots[<<a, b>>] = <<>>
                      \/ \E c \in 1 .. calls'[a] : slots[<<a, b>>] = <<[src |-> a, call |-> c]>>
    BY <1>0 DEF SlotsInv
  <2>1. CASE slots[<<a, b>>] = <<>>
    BY <2>1
  <2>2. CASE \E c \in 1 .. calls[a] : slots[<<a, b>>] = <<[src |-> a, call |-> c]>>
    <3>1. PICK c \in 1 .. calls[a] : slots[<<a, b>>] = <<[src |-> a, call |-> c]>>
      BY <2>2
    <3>2. c \in 1 .. calls'[a]
      BY WorldTypes
    <3>3. QED
      BY <3>1, <3>2
  <2>3. QED
    BY <2>1, <2>2 DEF DataInv, SlotsInv
<1>2. TakenInv'
  <2> SUFFICES ASSUME NEW a \in World, NEW b \in World, NEW e \in Exchanges(a, b)
               PROVE  /\ e.call <= calls'[a]
                      /\ e.call <= Seen(a, b)
                      /\ CallOf(e.data) <= Seen(b, a)
    BY <1>0 DEF TakenInv, Seen
  <2>1. /\ e.call <= calls[a]
        /\ e.call <= Seen(a, b)
        /\ CallOf(e.data) <= Seen(b, a)
    BY DEF DataInv, TakenInv
  <2>2. e.call \in Nat /\ calls[a] \in Nat
    BY ExchangeTypes, WorldTypes
  <2>3. QED
    BY <2>1, <2>2
<1>3. EitherSees'
  BY <1>0 DEF DataInv, EitherSees
<1>4. NeverOlder'
  <2> SUFFICES ASSUME NEW a \in World, NEW b \in World, NEW e \in Exchanges(a, b)
               PROVE  /\ CallOf(e.data) <= calls'[b]
                      /\ \A f \in Exchanges(a, b) :
                           e.call < f.call => CallOf(e.data) <= CallOf(f.data)
    BY <1>0 DEF NeverOlder
  <2>1. /\ CallOf(e.data) <= calls[b]
        /\ \A f \in Exchanges(a, b) : e.call < f.call => CallOf(e.data) <= CallOf(f.data)
    BY DEF DataInv, NeverOlder
  <2>2. CallOf(e.data) \in Nat /\ calls[b] \in Nat
    BY ExchangeTypes, WorldTypes
  <2>3. QED
    BY <2>1, <2>2
<1>5. FromThePeer'
  BY <1>0 DEF DataInv, FromThePeer
<1>6. QED
  BY <1>1, <1>2, <1>3, <1>4, <1>5 DEF DataInv

\* A send moves one slot on, to the call of its sender.
LEMMA SendInv ==
  ASSUME TypeOK, DataInv, RunningInv, NEW r \in World, Send(r)
  PROVE  DataInv'
<1>0. World' = World
  BY DEF World, Send
<1> DEFINE p == Peer(r)
<1>1. p \in World /\ calls[r] \in Nat /\ calls[r] > 0
  BY PeerInWorld, WorldTypes DEF Send, RunningInv
<1> HIDE DEF p
<1>2. \A a, b \in World :
        slots'[<<a, b>>] = IF a = r /\ b = p THEN <<Data(r)>> ELSE slots[<<a, b>>]
  BY <1>1 DEF Send, Put, TypeOK, p
<1>3. SlotsInv'
  <2> SUFFICES ASSUME NEW a \in World, NEW b \in World
               PROVE  \/ slots'[<<a, b>>] = <<>>
                      \/ \E c \in 1 .. calls[a] : slots'[<<a, b>>] = <<[src |-> a, call |-> c]>>
    BY <1>0 DEF SlotsInv, Send
  <2>1. CASE a = r /\ b = p
    <3>1. slots'[<<a, b>>] = <<[src |-> a, call |-> calls[a]]>> /\ calls[a] \in 1 .. calls[a]
      BY <1>1, <1>2, <2>1 DEF Data
    <3>2. QED
      BY <3>1
  <2>2. CASE ~(a = r /\ b = p)
    BY <1>2, <2>2 DEF DataInv, SlotsInv
  <2>3. QED
    BY <2>1, <2>2
<1>4. \A a, b \in World : /\ Seen(a, b) \in Nat
                           /\ Seen(a, b)' \in Nat
                           /\ Seen(a, b) <= Seen(a, b)'
  <2> SUFFICES ASSUME NEW a \in World, NEW b \in World
               PROVE  /\ Seen(a, b) \in Nat
                      /\ CallOf(slots'[<<a, b>>]) \in Nat
                      /\ Seen(a, b) <= CallOf(slots'[<<a, b>>])
    BY DEF Seen
  <2>1. Seen(a, b) \in Nat /\ Seen(a, b) <= calls[a] /\ calls[a] \in Nat
    BY SeenType, WorldTypes DEF DataInv
  <2>2. CASE a = r /\ b = p
    <3>1. CallOf(slots'[<<a, b>>]) = calls[a]
      BY <1>2, <2>2, DataType
    <3>2. QED
      BY <2>1, <3>1
  <2>3. CASE ~(a = r /\ b = p)
    <3>1. CallOf(slots'[<<a, b>>]) = Seen(a, b)
      BY <1>2, <2>3 DEF Seen
    <3>2. QED
      BY <2>1, <3>1
  <2>4. QED
    BY <2>2, <2>3
<1>5. \A a, b \in World : Exchanges(a, b)' = Exchanges(a, b)
  BY DEF Exchanges, Send
<1>6. TakenInv'
  <2> SUFFICES ASSUME NEW a \in World, NEW b \in World, NEW e \in Exchanges(a, b)
               PROVE  /\ e.call <= calls[a]
                      /\ e.call <= Seen(a, b)'
                      /\ CallOf(e.data) <= Seen(b, a)'
    BY <1>0, <1>5 DEF TakenInv, Send
  <2>1. /\ e.call <= calls[a]
        /\ e.call <= Seen(a, b)
        /\ CallOf(e.data) <= Seen(b, a)
    BY DEF DataInv, TakenInv
  <2>2. e.call \in Nat /\ CallOf(e.data) \in Nat
    BY ExchangeTypes
  <2>3. QED
    BY <1>4, <2>1, <2>2
<1>7. EitherSees' /\ FromThePeer'
  BY <1>0, <1>5 DEF DataInv, EitherSees, FromThePeer
<1>8. NeverOlder'
  BY <1>0, <1>5 DEF DataInv, NeverOlder, Send
<1>9. QED
  BY <1>3, <1>6, <1>7, <1>8 DEF DataInv

\* A receive adds what the slot holds; the rank's own slot to the peer holds
\* the call it is in.
LEMMA RecvInv ==
  ASSUME TypeOK, DataInv, RunningInv, NEW r \in World, Recv(r)
  PROVE  DataInv'
<1>0. World' = World /\ slots' = slots /\ calls' = calls
  BY DEF World, Recv
<1> DEFINE p == Peer(r)
           new == [call |-> calls[r], peer |-> p, data |-> slots[<<p, r>>]]
<1>1. /\ p \in World
      /\ calls[r] \in Nat
      /\ slots[<<r, p>>] = <<Data(r)>>
  BY PeerInWorld, WorldTypes DEF Recv, RunningInv
<1>2. results' = [results EXCEPT ![r] = @ \cup {new}]
  BY DEF Recv, Given, Held
<1>3. new.call = calls[r] /\ new.peer = p /\ new.data = slots[<<p, r>>]
  OBVIOUS
<1> HIDE DEF p, new
<1>4. ASSUME NEW a \in World, NEW b \in World, NEW e \in Exchanges(a, b)'
      PROVE  e \in Exchanges(a, b) \/ (a = r /\ b = p /\ e = new)
  <2>1. e \in results'[a] /\ e.peer = b
    BY DEF Exchanges
  <2>2. e \in results[a] \/ (a = r /\ e = new)
    BY <1>2, <2>1 DEF TypeOK
  <2>3. QED
    BY <1>3, <2>1, <2>2 DEF Exchanges
<1>5. Seen(r, p) = calls[r] /\ CallOf(new.data) = Seen(p, r)
  BY <1>1, <1>3, DataType DEF Seen
<1>6. \A a, b \in World : Seen(a, b) \in Nat /\ Seen(a, b) <= calls[a] /\ calls[a] \in Nat
  BY SeenType, WorldTypes DEF DataInv
<1>7. ASSUME NEW a \in World, NEW b \in World, NEW e \in Exchanges(a, b)'
      PROVE  /\ e.call \in Nat
             /\ CallOf(e.data) \in Nat
             /\ e.call <= calls[a]
             /\ e.call <= Seen(a, b)
             /\ CallOf(e.data) <= Seen(b, a)
  <2>1. CASE e \in Exchanges(a, b)
    BY <2>1, ExchangeTypes DEF DataInv, TakenInv
  <2>2. CASE a = r /\ b = p /\ e = new
    BY <1>1, <1>3, <1>5, <1>6, <2>2
  <2>3. QED
    BY <1>4, <2>1, <2>2
<1>8. TakenInv'
  BY <1>0, <1>7 DEF TakenInv, Seen
<1>9. EitherSees'
  <2> SUFFICES ASSUME NEW a \in World, NEW b \in World,
                      NEW e \in Exchanges(a, b)', NEW f \in Exchanges(b, a)'
               PROVE  CallOf(e.data) >= f.call \/ CallOf(f.data) >= e.call
    BY <1>0 DEF EitherSees
  <2>1. CASE a = r /\ b = p /\ e = new
    <3>1. f.call \in Nat /\ f.call <= Seen(p, r)
      BY <1>7, <2>1
    <3>2. QED
      BY <1>1, <1>5, <1>6, <2>1, <3>1
  <2>2. CASE b = r /\ a = p /\ f = new
    <3>1. e.call \in Nat /\ e.call <= Seen(p, r)
      BY <1>7, <2>2
    <3>2. QED
      BY <1>1, <1>5, <1>6, <2>2, <3>1
  <2>3. CASE e \in Exchanges(a, b) /\ f \in Exchanges(b, a)
    BY <2>3 DEF DataInv, EitherSees
  <2>4. QED
    BY <1>4, <2>1, <2>2, <2>3
<1>10. NeverOlder'
  <2> SUFFICES ASSUME NEW a \in World, NEW b \in World, NEW e \in Exchanges(a, b)'
               PROVE  /\ CallOf(e.data) <= calls[b]
                      /\ \A f \in Exchanges(a, b)' :
                           e.call < f.call => CallOf(e.data) <= CallOf(f.data)
    BY <1>0 DEF NeverOlder
  <2>1. CallOf(e.data) <= calls[b]
    BY <1>6, <1>7
  <2>2. ASSUME NEW f \in Exchanges(a, b)', e.call < f.call
        PROVE  CallOf(e.data) <= CallOf(f.data)
    <3>1. CASE e \in Exchanges(a, b) /\ f \in Exchanges(a, b)
      BY <2>2, <3>1 DEF DataInv, NeverOlder
    <3>2. CASE a = r /\ b = p /\ f = new
      <4>1. CallOf(e.data) <= Seen(p, r)
        BY <1>7, <3>2
      <4>2. QED
        BY <1>5, <3>2, <4>1
    <3>3. CASE a = r /\ b = p /\ e = new
      <4>1. f.call \in Nat /\ f.call <= calls[r] /\ e.call = calls[r]
        BY <1>3, <1>7, <3>3
      <4>2. QED
        BY <1>1, <2>2, <4>1
    <3>4. QED
      BY <1>4, <3>1, <3>2, <3>3
  <2>3. QED
    BY <2>1, <2>2
<1>11. FromThePeer'
  <2> SUFFICES ASSUME NEW a \in World, NEW b \in World, NEW e \in Exchanges(a, b)'
               PROVE  e.data = <<>> \/ e.data[1].src = b
    BY <1>0 DEF FromThePeer
  <2>1. CASE e \in Exchanges(a, b)
    BY <2>1 DEF DataInv, FromThePeer
  <2>2. CASE a = r /\ b = p /\ e = new
    <3>1. e.data = slots[<<b, a>>]
      BY <1>3, <2>2
    <3>2. \/ slots[<<b, a>>] = <<>>
          \/ \E c \in 1 .. calls[b] : slots[<<b, a>>] = <<[src |-> b, call |-> c]>>
      BY DEF DataInv, SlotsInv
    <3>3. CASE slots[<<b, a>>] = <<>>
      BY <3>1, <3>3
    <3>4. CASE \E c \in 1 .. calls[b] : slots[<<b, a>>] = <<[src |-> b, call |-> c]>>
      <4>1. PICK c \in 1 .. calls[b] : e.data = <<[src |-> b, call |-> c]>>
        BY <3>1, <3>4
      <4>2. e.data[1] = [src |-> b, call |-> c]
        BY <4>1
      <4>3. QED
        BY <4>2
    <3>5. QED
      BY <3>2, <3>3, <3>4
  <2>3. QED
    BY <1>4, <2>1, <2>2
<1>12. SlotsInv'
  BY <1>0 DEF DataInv, SlotsInv
<1>13. QED
  BY <1>8, <1>9, <1>10, <1>11, <1>12 DEF DataInv

\* Of the other steps, only a call that gave up on a peer adds a result, and
\* that peer is no rank of the world.
LEMMA OtherInv ==
  ASSUME TypeOK, DataInv, NEW r \in World,
         \/ \E operation \in Operations(r) : Begin(r, operation)
         \/ SendFails(r)
         \/ Return(r)
  PROVE  DataInv'
<1>1. world_size' = world_size /\ slots' = slots
  BY DEF Begin, SendFails, Return
<1>2. \A a \in World : calls'[a] \in Nat /\ calls'[a] >= calls[a]
  <2> SUFFICES ASSUME NEW a \in World PROVE calls'[a] \in Nat /\ calls'[a] >= calls[a]
    OBVIOUS
  <2>1. calls[a] \in Nat
    BY WorldTypes
  <2>2. calls'[a] = calls[a] \/ calls'[a] = calls[a] + 1
    BY DEF Begin, SendFails, Return, TypeOK
  <2>3. QED
    BY <2>1, <2>2
<1>3. \A a, b \in World : Exchanges(a, b)' = Exchanges(a, b)
  <2>1. CASE results' = results
    BY <2>1 DEF Exchanges
  <2>2. CASE SendFails(r) /\ ~strict[r]
    <3> DEFINE new == [call |-> calls[r], peer |-> Peer(r), data |-> <<Data(r)>>]
    <3>1. results' = [results EXCEPT ![r] = @ \cup {new}] /\ new.peer \notin World
      BY <2>2, PeerInWorld DEF SendFails, Given
    <3> HIDE DEF new
    <3>2. \A a \in World : results'[a] = IF a = r THEN results[a] \cup {new} ELSE results[a]
      BY <3>1 DEF TypeOK
    <3>3. QED
      BY <3>1, <3>2 DEF Exchanges
  <2>3. QED
    BY <2>1, <2>2 DEF Begin, SendFails, Return
<1>4. QED
  BY <1>1, <1>2, <1>3, Unmoved

LEMMA RunningStep ==
  ASSUME TypeOK, RunningInv, [Next]_vars
  PROVE  RunningInv'
<1>1. ASSUME NEW r \in World, NEW operation \in Operations(r), Begin(r, operation)
      PROVE  RunningInv'
  <2>1. World' = World /\ world_size' = world_size /\ slots' = slots
    BY <1>1 DEF Begin, World
  <2>2. at'[r] = "send" /\ calls'[r] > 0
    <3>1. calls[r] \in Nat
      BY WorldTypes
    <3>2. calls'[r] = calls[r] + 1
      BY <1>1 DEF Begin, TypeOK
    <3>3. QED
      BY <1>1, <3>1, <3>2 DEF Begin, TypeOK
  <2>3. \A q \in World : q # r => at'[q] = at[q] /\ calls'[q] = calls[q] /\ peers'[q] = peers[q]
    BY <1>1 DEF Begin, TypeOK
  <2>4. QED
    BY <2>1, <2>2, <2>3 DEF RunningInv, Peer, Data
<1>2. ASSUME NEW r \in World, Send(r) PROVE RunningInv'
  <2>1. World' = World /\ world_size' = world_size /\ peers' = peers /\ calls' = calls
    BY <1>2 DEF Send, World
  <2>2. Peer(r) \in World /\ peers[r] # <<>> /\ IsPeer(world_size, Peer(r)) /\ calls[r] > 0
    BY <1>2, PeerInWorld DEF Send, RunningInv
  <2>3. slots'[<<r, Peer(r)>>] = <<Data(r)>>
    BY <1>2, <2>2 DEF Send, Put, TypeOK
  <2>4. \A q \in World : q # r => at'[q] = at[q]
    BY <1>2 DEF Send, TypeOK
  <2>5. \A q \in World : q # r /\ peers[q] # <<>> /\ IsPeer(world_size, Peer(q))
                            => slots'[<<q, Peer(q)>>] = slots[<<q, Peer(q)>>]
    BY <1>2, PeerInWorld DEF Send, Put, TypeOK
  <2>6. QED
    BY <2>1, <2>2, <2>3, <2>4, <2>5 DEF RunningInv, Peer, Data
<1>3. ASSUME NEW r \in World, SendFails(r) \/ Recv(r) \/ Return(r) PROVE RunningInv'
  <2>1. World' = World /\ world_size' = world_size /\ slots' = slots /\ calls' = calls
    BY <1>3 DEF SendFails, Recv, Return, World
  <2>2. at'[r] # "recv" /\ at[r] # "idle"
    BY <1>3 DEF SendFails, Recv, Return, Given, TypeOK
  <2>3. \A q \in World : q # r => at'[q] = at[q] /\ peers'[q] = peers[q]
    BY <1>3 DEF SendFails, Recv, Return, Given, TypeOK
  <2>4. QED
    BY <2>1, <2>2, <2>3 DEF RunningInv, Peer, Data
<1>4. CASE UNCHANGED vars
  BY <1>4 DEF RunningInv, vars, World, Peer, Data
<1>5. QED
  BY <1>1, <1>2, <1>3, <1>4 DEF Next, Running
------------------------------------------------------------------------------
LEMMA InvInit == Init => IInv
<1> SUFFICES ASSUME Init PROVE IInv
  OBVIOUS
<1>1. TypeOK
  BY TypeInit
<1>2. \A a, b \in World : slots[<<a, b>>] = <<>> /\ Exchanges(a, b) = {}
  BY DEF Init, EmptySlots, World, Exchanges
<1>3. RunningInv
  BY DEF Init, RunningInv
<1>4. SlotsInv /\ TakenInv /\ EitherSees /\ NeverOlder /\ FromThePeer
  BY <1>2 DEF SlotsInv, TakenInv, EitherSees, NeverOlder, FromThePeer
<1>5. QED
  BY <1>1, <1>3, <1>4 DEF IInv

LEMMA InvStep == IInv /\ [Next]_vars => IInv'
<1> SUFFICES ASSUME IInv, [Next]_vars PROVE IInv'
  OBVIOUS
<1>1. TypeOK /\ RunningInv /\ DataInv
  BY DEF IInv, DataInv
<1>2. TypeOK' /\ RunningInv'
  BY <1>1, TypeStep, RunningStep
<1>3. DataInv'
  <2>1. CASE UNCHANGED vars
    <3>1. /\ world_size' = world_size /\ slots' = slots
          /\ \A a \in World : calls'[a] \in Nat /\ calls'[a] >= calls[a]
          /\ \A a, b \in World : Exchanges(a, b)' = Exchanges(a, b)
      <4>1. world_size' = world_size /\ slots' = slots /\ calls' = calls /\ results' = results
        BY <2>1 DEF vars
      <4>2. \A a \in World : calls[a] \in Nat
        BY <1>1, WorldTypes
      <4>3. \A a, b \in World : Exchanges(a, b)' = Exchanges(a, b)
        BY <4>1 DEF Exchanges
      <4>4. QED
        BY <4>1, <4>2, <4>3
    <3>2. QED
      BY <1>1, <3>1, Unmoved
  <2>2. CASE Next
    <3>1. PICK r \in World : \/ \E operation \in Operations(r) : Begin(r, operation)
                             \/ Running(r)
      BY <2>2 DEF Next
    <3>2. CASE Send(r)
      BY <1>1, <3>2, SendInv
    <3>3. CASE Recv(r)
      BY <1>1, <3>3, RecvInv
    <3>4. CASE \/ \E operation \in Operations(r) : Begin(r, operation)
               \/ SendFails(r)
               \/ Return(r)
      BY <1>1, <3>4, OtherInv
    <3>5. QED
      BY <3>1, <3>2, <3>3, <3>4 DEF Running
  <2>3. QED
    BY <2>1, <2>2
<1>4. QED
  BY <1>2, <1>3 DEF IInv, DataInv

LEMMA Inductive == Spec => []IInv
BY InvInit, InvStep, PTL DEF Spec

\* The types hold of every world, torus and number of calls.
THEOREM TypeCorrect == Spec => []TypeOK
<1>1. IInv => TypeOK
  BY DEF IInv
<1>2. QED
  BY <1>1, Inductive, PTL

\* Two ranks that exchange with each other never both miss the other's data,
\* although exchange_with_neighbors synchronises nothing.
THEOREM OneOfTwoSees == Spec => []EitherSees
<1>1. IInv => EitherSees
  BY DEF IInv
<1>2. QED
  BY <1>1, Inductive, PTL

\* Successive calls never go back to older data of a peer.
THEOREM Monotone == Spec => []NeverOlder
<1>1. IInv => NeverOlder
  BY DEF IInv
<1>2. QED
  BY <1>1, Inductive, PTL

\* A rank is only ever given the peer's own data.
THEOREM Authentic == Spec => []FromThePeer
<1>1. IInv => FromThePeer
  BY DEF IInv
<1>2. QED
  BY <1>1, Inductive, PTL
==============================================================================
