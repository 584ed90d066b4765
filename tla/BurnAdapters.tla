----------------------------- MODULE BurnAdapters -----------------------------
(***************************************************************************)
(* The adapters of the mt-burn crate as operators: casts of Burn tensors   *)
(* to FP8 and back, the gradients an FP8 optimizer collects, and the cut   *)
(* of a sequence of modules into stages.                                   *)
(*                                                                         *)
(* A Burn tensor is its values in row-major order and its dimensions.  The *)
(* values stand for themselves; that a cast to FP8 rounds them is left to  *)
(* Fp8.                                                                    *)
(***************************************************************************)
EXTENDS Integers, Sequences, SequencesExt

Product(dims) == FoldSeq(LAMBDA a, b : a * b, 1, dims)

\* TensorData::new refuses dimensions that do not hold exactly the values.
Panic == [panic |-> TRUE]
TensorData(values, dims) ==
  IF Product(dims) = Len(values) THEN [values |-> values, dims |-> dims] ELSE Panic

\* The integer logarithm of n; ilog panics for n = 0 (and for a base below 2).
ilog(n, base) == CHOOSE k \in 0 .. n : base ^ k <= n /\ n < base ^ (k + 1)

\* fp8_to_burn to D dimensions: the values alone do not tell them, and what the
\* code takes depends on their number only.
fp8_to_burn(values, D) ==
  IF D = 1 THEN TensorData(values, <<Len(values)>>)
  ELSE IF Len(values) = 0 THEN Panic
  ELSE TensorData(values, Append([k \in 1 .. D - 1 |-> D],
                                 Len(values) \div (D ^ ilog(Len(values), D))))

\* fp8_to_burn_1d and fp8_to_burn_2d.
fp8_to_burn_1d(values) == TensorData(values, <<Len(values)>>)
fp8_to_burn_2d(values, rows, cols) ==
  IF Len(values) = rows * cols THEN TensorData(values, <<rows, cols>>) ELSE Panic

\* burn_to_fp8, burn_1d_to_fp8 and burn_2d_to_fp8 keep the values alone.
burn_to_fp8(tensor) == tensor.values

\* GradientHook::cast_gradients_to_e5m2 makes each dimension 1.
cast_gradients_to_e5m2(tensor) ==
  TensorData(burn_to_fp8(tensor), [k \in DOMAIN tensor.dims |-> 1])

\* cast_gradients_to_e5m2_preserving_shape, gradient_cast_e5m2, weight_cast_e4m3.
cast_preserving_shape(tensor) == TensorData(burn_to_fp8(tensor), tensor.dims)

\* update_weight_fp8 pairs weights and gradients as far as both go (the learning
\* rate is a whole number here).
update_weight_fp8(weight, grads, lr) ==
  LET n == IF Len(weight.values) <= Len(grads) THEN Len(weight.values) ELSE Len(grads)
  IN  TensorData([i \in 1 .. n |-> weight.values[i] - lr * grads[i]], weight.dims)

\* Fp8Gradients: register keeps what was registered before under the same id, and
\* remove takes the oldest.
register(grads, id, values) == Append(grads, <<id, values>>)
Registered(grads, id) == {k \in DOMAIN grads : grads[k][1] = id}
remove(grads, id) ==
  IF Registered(grads, id) = {} THEN [removed |-> <<>>, grads |-> grads]
  ELSE LET pos == CHOOSE k \in Registered(grads, id) : \A l \in Registered(grads, id) : k <= l
       IN  [removed |-> <<grads[pos][2]>>, grads |-> RemoveAt(grads, pos)]
------------------------------------------------------------------------------
\* split_evenly: the turns of its loop.
split_evenly(count, num_stages) ==
  IF num_stages = 0 \/ count = 0 THEN <<>>
  ELSE LET actual_stages == IF num_stages <= count THEN num_stages ELSE count
           base == count \div actual_stages
           remainder == count % actual_stages
           turn(ranges, i) ==
             LET offset == IF ranges = <<>> THEN 0 ELSE Last(ranges)[2]
             IN  Append(ranges, <<offset, offset + base + (IF i < remainder THEN 1 ELSE 0)>>)
       IN  FoldLeft(turn, <<>>, [i \in 1 .. actual_stages |-> i - 1])

\* SequentialStages::forward, on stages that are functions.
SequentialForward(stages, input) == FoldLeft(LAMBDA output, stage : stage[output], input, stages)
==============================================================================
