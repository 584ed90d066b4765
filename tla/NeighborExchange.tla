--------------------------- MODULE NeighborExchange ---------------------------
(***************************************************************************)
(* TopologyAwareComm over MockCommunicator::create_world                   *)
(* (mt-comm/src/topology_aware.rs): one thread per rank, each of which     *)
(* calls the neighbour operations again and again with new data.           *)
(*                                                                         *)
(* An operation sends to a peer and at once receives from it, for each     *)
(* peer in turn.  Nobody waits for anybody: the steps of the ranks         *)
(* interleave, and what a receive finds is whatever the slot holds.  The   *)
(* data of a call is its sender and the number of the call.                *)
(***************************************************************************)
EXTENDS Torus, MockComm

CONSTANTS
  WorldSizes,         \* the numbers of ranks in a world
  Dimensions,         \* the tori they are told they form
  MaxCalls            \* bound of the model: calls each rank makes

ASSUME NeighborExchangeAssumption ==
  /\ WorldSizes \subseteq Nat
  /\ \A d \in Dimensions : d \in Seq(Nat) /\ IsTorus(d)
  /\ MaxCalls \in Nat

VARIABLES
  world_size, dims,
  slots,              \* the mailboxes all ranks share
  calls,              \* how many calls each rank has begun
  at,                 \* where a rank is: "idle", "send" or "recv"
  peers,              \* the peers its call has not done with, first one first
  strict,             \* does the call give up at the first error?
  failed,             \* has a call of the rank returned an error?
  results             \* what its calls were given, for each peer

vars == <<world_size, dims, slots, calls, at, peers, strict, failed, results>>

World == Ranks(world_size)
AllRanks == UNION {Ranks(w) : w \in WorldSizes}
Message == [src : Nat, call : Nat]
Result == [call : Nat, peer : Nat, data : Seq(Message)]

TypeOK ==
  /\ world_size \in WorldSizes
  /\ dims \in Dimensions
  /\ slots \in [World \X World -> Seq(Message)]
  /\ calls \in [World -> 0 .. MaxCalls]
  /\ at \in [World -> {"idle", "send", "recv"}]
  /\ peers \in [World -> Seq(Nat)]
  /\ strict \in [World -> BOOLEAN]
  /\ failed \in [World -> BOOLEAN]
  /\ results \in [World -> SUBSET Result]
------------------------------------------------------------------------------
(* The peers of each operation, from the rank's own place on the torus.    *)

rank_coords(r) == from_linear(r, dims)

\* exchange_with_neighbors: every neighbour; the first error ends it (`?`).
ExchangeWithNeighbors(r) ==
  [peers |-> [k \in 1 .. 2 * Len(dims) |-> linear_index(neighbors(rank_coords(r), dims)[k], dims)],
   strict |-> TRUE]

\* nearest_neighbor_exchange: both ways along one axis; an error is answered
\* with the rank's own data.
NearestNeighborExchange(r, axis) ==
  [peers |-> <<linear_index(neighbor(rank_coords(r), dims, axis, TRUE), dims),
               linear_index(neighbor(rank_coords(r), dims, axis, FALSE), dims)>>,
   strict |-> FALSE]

\* pipeline_stage_sendrecv: one peer, likewise.
PipelineStageSendrecv(stage_rank) == [peers |-> <<stage_rank>>, strict |-> FALSE]

Operations(r) ==
  {ExchangeWithNeighbors(r)}
    \cup {NearestNeighborExchange(r, axis) : axis \in 0 .. 2}
    \cup {PipelineStageSendrecv(stage_rank) : stage_rank \in 0 .. world_size}
------------------------------------------------------------------------------
Init ==
  /\ world_size \in WorldSizes
  /\ dims \in Dimensions
  /\ slots = EmptySlots(world_size)
  /\ calls = [r \in World |-> 0]
  /\ at = [r \in World |-> "idle"]
  /\ peers = [r \in World |-> <<>>]
  /\ strict = [r \in World |-> FALSE]
  /\ failed = [r \in World |-> FALSE]
  /\ results = [r \in World |-> {}]

Begin(r, operation) ==
  /\ at[r] = "idle"
  /\ calls[r] < MaxCalls
  /\ calls' = [calls EXCEPT ![r] = @ + 1]
  /\ at' = [at EXCEPT ![r] = "send"]
  /\ peers' = [peers EXCEPT ![r] = operation.peers]
  /\ strict' = [strict EXCEPT ![r] = operation.strict]
  /\ UNCHANGED <<world_size, dims, slots, failed, results>>

Data(r) == [src |-> r, call |-> calls[r]]
Peer(r) == Head(peers[r])

\* The loop body goes on to the next peer with what it was given for this one.
Given(r, data) ==
  /\ results' = [results EXCEPT ![r] = @ \cup {[call |-> calls[r], peer |-> Peer(r), data |-> data]}]
  /\ peers' = [peers EXCEPT ![r] = Tail(@)]
  /\ at' = [at EXCEPT ![r] = "send"]

Send(r) ==
  /\ at[r] = "send"
  /\ peers[r] # <<>>
  /\ IsPeer(world_size, Peer(r))
  /\ slots' = Put(slots, r, Peer(r), Data(r))
  /\ at' = [at EXCEPT ![r] = "recv"]
  /\ UNCHANGED <<world_size, dims, calls, peers, strict, failed, results>>

\* send refuses a peer outside the world.
SendFails(r) ==
  /\ at[r] = "send"
  /\ peers[r] # <<>>
  /\ ~IsPeer(world_size, Peer(r))
  /\ IF strict[r]
       THEN /\ failed' = [failed EXCEPT ![r] = TRUE]
            /\ at' = [at EXCEPT ![r] = "idle"]
            /\ UNCHANGED <<peers, results>>
       ELSE /\ Given(r, <<Data(r)>>)
            /\ UNCHANGED failed
  /\ UNCHANGED <<world_size, dims, slots, calls, strict>>

\* Faulty: a receive that takes the data away; and one that waits for data.
RecvTaking(r) ==
  /\ at[r] = "recv"
  /\ Given(r, Held(slots, Peer(r), r))
  /\ slots' = [slots EXCEPT ![<<Peer(r), r>>] = <<>>]
  /\ UNCHANGED <<world_size, dims, calls, strict, failed>>
RecvWaiting(r) ==
  /\ at[r] = "recv"
  /\ Held(slots, Peer(r), r) # <<>>
  /\ Given(r, Held(slots, Peer(r), r))
  /\ UNCHANGED <<world_size, dims, slots, calls, strict, failed>>

\* The send before it has shown that the peer is in the world, so a receive
\* does not fail; it may find the empty Vec of a slot never written.
Recv(r) ==
  /\ at[r] = "recv"
  /\ Given(r, Held(slots, Peer(r), r))
  /\ UNCHANGED <<world_size, dims, slots, calls, strict, failed>>

Return(r) ==
  /\ at[r] = "send"
  /\ peers[r] = <<>>
  /\ at' = [at EXCEPT ![r] = "idle"]
  /\ UNCHANGED <<world_size, dims, slots, calls, peers, strict, failed, results>>

Running(r) == Send(r) \/ SendFails(r) \/ Recv(r) \/ Return(r)

Next ==
  \E r \in World :
    \/ \E operation \in Operations(r) : Begin(r, operation)
    \/ Running(r)

Spec == Init /\ [][Next]_vars

\* A thread inside a call keeps running; nobody owes a further call.
FairSpec == Spec /\ \A r \in AllRanks : WF_vars(r \in World /\ Running(r))
------------------------------------------------------------------------------
(* What must hold, although the operations do not synchronise.             *)

\* The call the data came from, 0 for the empty Vec.
CallOf(data) == IF data = <<>> THEN 0 ELSE data[1].call

Exchanges(r, peer) == {result \in results[r] : result.peer = peer}

\* Each rank writes before it reads: of two ranks that exchanged with each
\* other at least one was given what the other sent in that call, or later.
\* Both may not miss each other, however their steps interleave.
EitherSees ==
  \A a, b \in World : \A e \in Exchanges(a, b), f \in Exchanges(b, a) :
    CallOf(e.data) >= f.call \/ CallOf(f.data) >= e.call

\* A later call is never given older data of a peer than an earlier one was,
\* and no call is given data its peer has not sent yet.
NeverOlder ==
  \A a, b \in World : \A e \in Exchanges(a, b) :
    /\ CallOf(e.data) <= calls[b]
    /\ \A f \in Exchanges(a, b) : e.call < f.call => CallOf(e.data) <= CallOf(f.data)

\* What a rank is given for a peer of the world is the peer's data or nothing:
\* never its own by mistake, never a third rank's.
FromThePeer ==
  \A a, b \in World : \A e \in Exchanges(a, b) :
    e.data = <<>> \/ e.data[1].src = b

\* Nobody waits for anybody: every call returns.
InCall(r) == r \in World /\ at[r] # "idle"
CallsReturn == \A r \in AllRanks : InCall(r) ~> ~InCall(r)
==============================================================================
