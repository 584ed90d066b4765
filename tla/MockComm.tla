------------------------------- MODULE MockComm -------------------------------
(***************************************************************************)
(* The in-process communicator, mt-comm/src/mock.rs: one slot per ordered  *)
(* pair of ranks, behind one lock.  A send overwrites the slot, a receive  *)
(* clones it and leaves it: there is no queue, no waiting and no consuming.*)
(* A slot is the sequence of what it holds: <<>> until the first send,     *)
(* then <<data>>.                                                          *)
(***************************************************************************)
EXTENDS Naturals, Sequences

Ranks(world_size) == 0 .. world_size - 1

\* create_world: every slot is an empty Vec.
EmptySlots(world_size) == [pair \in Ranks(world_size) \X Ranks(world_size) |-> <<>>]

\* The bound test of send and of recv: any other peer is an Err.
IsPeer(world_size, peer) == peer < world_size

\* Faulty: the first message stays.
PutOnce(slots, src, dst, data) ==
  IF slots[<<src, dst>>] = <<>> THEN [slots EXCEPT ![<<src, dst>>] = <<data>>] ELSE slots

\* MockCommunicator::send and ::recv between two ranks of the world.
Put(slots, src, dst, data) == [slots EXCEPT ![<<src, dst>>] = <<data>>]

\* Faulty: the indices the other way round.
HeldOwn(slots, src, dst) == slots[<<dst, src>>]

Held(slots, src, dst) == slots[<<src, dst>>]
==============================================================================
