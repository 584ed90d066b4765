-------------------------------- MODULE MCFp8 --------------------------------
(***************************************************************************)
(* Fp8 for TLC: slices of up to four values, NaN, zero, too small for E5M2 *)
(* but not for E4M3, small, larger than the largest E4M3 number, and       *)
(* infinite, in blocks of 1 to 4, so that the last block is full, short by *)
(* one, and short by as many values as there are blocks; histories of none *)
(* to 2 entries, so that the ring is empty, a single cell, and long enough *)
(* to hold an old peak behind newer, smaller ones.                         *)
(***************************************************************************)
EXTENDS Fp8, BurnAdapters

MCHistoryLengths == 0 .. 2
MCInfinity == 100000
MCSmallest == [format \in Fp8Format |-> IF format = "E4M3" THEN 1 ELSE 2]
MCAmaxes == {-1, 0, 1, 3, 1000, 416, 49152, MCInfinity}
MCSlices == UNION {[1 .. n -> {0, 3, 1000}] : n \in {0, 1, 3}}
              \cup {<<-1>>, <<1>>, <<MCInfinity>>, <<0, 1>>, <<3, MCInfinity>>,
                    <<0, 3, -1, 0>>, <<3, 0, 0, 1000>>, <<1000, 0, 3, 1>>}
MCBlockSizes == {1, 2, 3, 4}

\* Casting keeps the shape of a tensor in cast_preserving_shape.  Without it,
\* cast_gradients_to_e5m2 panics for all tensors of more or less than one value.
ASSUME CastsKeepTheShape ==
  \A dims \in UNION {[1 .. n -> 0 .. 3] : n \in 1 .. 3} :
    LET burn == TensorData([i \in 1 .. Product(dims) |-> i], dims)
    IN  /\ cast_preserving_shape(burn) = burn
        /\ (cast_gradients_to_e5m2(burn) # Panic) = (Product(dims) = 1)

\* fp8_to_burn finds dimensions for a tensor of more than one dimension only
\* where the number of values happens to fit.
ASSUME FewNumbersFit ==
  LET fits(D) == {n \in 0 .. 20 : fp8_to_burn([i \in 1 .. n |-> i], D) # Panic}
  IN  fits(1) = 0 .. 20 /\ fits(2) = {2} /\ fits(3) = {9, 18}

\* A weight is updated with as many gradients as it has values, or the update
\* panics; more gradients than values are ignored.
ASSUME UpdatesAreWhole ==
  \A n, m \in 0 .. 4 :
    LET weight == TensorData([i \in 1 .. n |-> 10 * i], <<n>>)
        updated == update_weight_fp8(weight, [i \in 1 .. m |-> i], 2)
    IN  IF m < n THEN updated = Panic ELSE updated = TensorData([i \in 1 .. n |-> 8 * i], <<n>>)

\* A gradient registered again does not replace the first, which is the one
\* that remove gives back.
ASSUME OldestIsRemoved ==
  LET grads == register(register(register(<<>>, "w", 1), "v", 2), "w", 3)
      once == remove(grads, "w")
  IN  /\ once.removed = <<1>> /\ remove(once.grads, "w").removed = <<3>>
      /\ remove(grads, "u") = [removed |-> <<>>, grads |-> grads]

\* split_evenly cuts [0, count) into as many stages as asked for, or as there
\* are modules: each begins where the one before ends, none is empty, and none
\* is longer by two than another.
ASSUME StagesAreEven ==
  \A count, num_stages \in 0 .. 9 :
    LET ranges == split_evenly(count, num_stages)
        length(i) == ranges[i][2] - ranges[i][1]
    IN  /\ Len(ranges) = Min({count, num_stages})
        /\ ranges # <<>> => ranges[1][1] = 0 /\ Last(ranges)[2] = count
        /\ \A i \in 1 .. Len(ranges) - 1 : ranges[i][2] = ranges[i + 1][1]
        /\ \A i, j \in DOMAIN ranges : length(i) > 0 /\ length(i) <= length(j) + 1

\* Stages run in order, each on what the one before gave.
ASSUME StagesChain ==
  SequentialForward(<<[n \in Nat |-> n + 1], [n \in Nat |-> n * 2]>>, 3) = 8
==============================================================================
