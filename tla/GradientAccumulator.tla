-------------------------- MODULE GradientAccumulator --------------------------
(***************************************************************************)
(* GradientAccumulator, mt-training/src/accumulator.rs, as a value and the *)
(* operations on it.                                                       *)
(*                                                                         *)
(* The map has a parameter only once a gradient was summed in it.  A       *)
(* gradient vector is the sequence of the contributions summed in it, in   *)
(* order.  The gradients of a parameter that are in f32 have one length    *)
(* wherever the crate calls this code (all come from one module); of one   *)
(* in another precision, to_vec::<f32>().unwrap_or_default() makes an      *)
(* empty vector.                                                           *)
(***************************************************************************)
EXTENDS Naturals, Sequences

\* GradientAccumulator::new
Empty == [grads |-> <<>>, count |-> 0]

Precisions == {"f32", "other"}

\* The vector a gradient of this precision is read as.
Values(precision, contribution) == IF precision = "f32" THEN <<contribution>> ELSE <<>>

\* Two vectors are added as far as both go (zip): an empty one adds nothing, and
\* nothing is added to an empty one.
Zipped(stored, values) == IF stored = <<>> THEN <<>> ELSE stored \o values

\* Faulty: a gradient that comes later takes the place of the sum.
AddReplacing(grads, given, contribution) ==
  [id \in DOMAIN grads \cup DOMAIN given |->
    IF id \in DOMAIN given THEN Values(given[id], contribution) ELSE grads[id]]

\* The gradients given, by parameter the precision of its gradient, all of one
\* micro-batch, are added to the stored vectors, or inserted.
Add(grads, given, contribution) ==
  [id \in DOMAIN grads \cup DOMAIN given |->
    IF id \notin DOMAIN given THEN grads[id]
    ELSE IF id \in DOMAIN grads THEN Zipped(grads[id], Values(given[id], contribution))
    ELSE Values(given[id], contribution)]

\* The parameters whose gradient is not as long as the vector stored for them, at
\* which a debug build panics (debug_assert_eq).
Mismatched(grads, given) ==
  {id \in DOMAIN grads \cap DOMAIN given : grads[id] = <<>> <=> given[id] = "f32"}

\* drain_from: the parameters that have a gradient in this micro-batch are
\* summed and the micro-batch counts once, also if none of them has.
drain_from(acc, given, contribution) ==
  [grads |-> Add(acc.grads, given, contribution), count |-> acc.count + 1]

\* register, and register_values for a vector in f32: one parameter, and the
\* count goes up for each.
register(acc, id, precision, contribution) ==
  [grads |-> Add(acc.grads, [param \in {id} |-> precision], contribution), count |-> acc.count + 1]

reset(acc) == Empty

\* into_gradients drains the map, returns its tensors and keeps the count.
Drained(acc) == [acc EXCEPT !.grads = <<>>]
into_gradients(acc) == acc.grads

effective_batch_size(acc, micro_batch_size) == micro_batch_size * acc.count
==============================================================================
