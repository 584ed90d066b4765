------------------------------ MODULE Collectives ------------------------------
(***************************************************************************)
(* The collectives of the in-process communicator (mt-comm/src/mock.rs),   *)
(* what TopologyAwareComm makes of them (mt-comm/src/topology_aware.rs),   *)
(* and the dummy of mt-core/src/topology/coordinator.rs, as operators.     *)
(*                                                                         *)
(* A rank never sees the data of another: a collective answers as if every *)
(* rank had passed what this one passes.                                   *)
(*                                                                         *)
(* A payload is its words and the number of odd bytes behind them; a byte  *)
(* is the word it belongs to and its place in it.                          *)
(***************************************************************************)
EXTENDS Integers, Sequences, FiniteSetsExt, SequencesExt

CONSTANTS
  WordBytes,          \* bytes of a word: 8 in the code
  Modulus             \* 2 to the bits of a word

ReduceOp == {"Sum", "Product", "Min", "Max", "Mean"}

Ok(bytes) == [is |-> "ok", bytes |-> bytes]
Err == [is |-> "err", bytes |-> <<>>]
Panic == [is |-> "panic", bytes |-> <<>>]

WordsToBytes(words) ==
  [i \in 1 .. Len(words) * WordBytes |->
    [word |-> words[(i - 1) \div WordBytes + 1], place |-> (i - 1) % WordBytes]]
Bytes(payload) ==
  WordsToBytes(payload.words) \o [i \in 1 .. payload.tail |-> [word |-> -1, place |-> i - 1]]

Sum(values) == FoldSeq(LAMBDA a, b : a + b, 0, values)
Times(values) == FoldSeq(LAMBDA a, b : a * b, 1, values)

Overflows(op, values) ==
  \/ op \in {"Sum", "Mean"} /\ Sum(values) >= Modulus
  \/ op = "Product" /\ Times(values) >= Modulus

\* One word of the result, in a build that lets arithmetic wrap around.
reduce(op, values) ==
  CASE op = "Sum" -> Sum(values) % Modulus
    [] op = "Product" -> Times(values) % Modulus
    [] op = "Min" -> Min(ToSet(values))
    [] op = "Max" -> Max(ToSet(values))
    [] op = "Mean" -> (Sum(values) % Modulus) \div Len(values)

\* apply_reduce on as many copies of the own payload as there are ranks: odd bytes
\* are left out.
Copies(world_size, word) == [c \in 1 .. world_size |-> word]
apply_reduce(op, world_size, payload) ==
  WordsToBytes([i \in DOMAIN payload.words |-> reduce(op, Copies(world_size, payload.words[i]))])

\* In a build that checks arithmetic, a word too large panics.
all_reduce(op, world_size, payload, overflow_checks) ==
  IF overflow_checks
     /\ \E i \in DOMAIN payload.words : Overflows(op, Copies(world_size, payload.words[i]))
    THEN Panic
    ELSE Ok(apply_reduce(op, world_size, payload))

broadcast(payload, root, world_size) == IF root >= world_size THEN Err ELSE Ok(Bytes(payload))

all_gather(payload, world_size) == [c \in 1 .. world_size |-> Bytes(payload)]

\* The bytes a rank keeps of a reduction: cut by bytes, whatever the words.
chunk_size(length, world_size) == length \div world_size
chunk_start(rank, length, world_size) == rank * chunk_size(length, world_size)

\* TopologyAwareComm::perform_collective.
perform_collective(op, payload, rank, world_size, overflow_checks) ==
  LET reduced == all_reduce("Sum", world_size, payload, overflow_checks)
      start == chunk_start(rank, Len(reduced.bytes), world_size)
      end == start + chunk_size(Len(reduced.bytes), world_size)
  IN  CASE op = "AllReduce" -> reduced
        [] op = "Broadcast" -> broadcast(payload, 0, world_size)
        [] op = "AllGather" -> Ok(FlattenSeq(all_gather(payload, world_size)))
        [] op = "ReduceScatter" ->
             IF reduced.is # "ok" THEN reduced
             ELSE IF end > Len(reduced.bytes) THEN Panic
             ELSE Ok(SubSeq(reduced.bytes, start + 1, end))

\* reduce_on_mesh, whatever the group.
reduce_on_mesh(payload, group, world_size, overflow_checks) ==
  all_reduce("Sum", world_size, payload, overflow_checks)

\* all_reduce_mesh and route_collective answer an Err with no bytes.
unwrap_or_default(answer) == IF answer.is = "err" THEN Ok(<<>>) ELSE answer

\* DummyCommunicator gives back what it is given, from up to four neighbours.
dummy_exchange(bytes, world_size) == [n \in 1 .. Min({world_size, 4}) |-> bytes]
==============================================================================
