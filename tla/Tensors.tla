-------------------------------- MODULE Tensors --------------------------------
(***************************************************************************)
(* The operations on tensors that the GPT example takes from Burn, as far  *)
(* as the example uses them: which element of the result comes from which  *)
(* elements of the arguments.                                              *)
(*                                                                         *)
(* A tensor of n dimensions is a function on the n-tuples of its indices,  *)
(* which count from 0.  An element is the set of what it depends on:       *)
(* tokens and positions of the batch.                                      *)
(***************************************************************************)
EXTENDS Integers, Sequences

Box(dims) ==
  LET below(k) == 0 .. dims[k] - 1
  IN  CASE Len(dims) = 1 -> {<<i>> : i \in below(1)}
        [] Len(dims) = 2 -> below(1) \X below(2)
        [] Len(dims) = 3 -> below(1) \X below(2) \X below(3)
        [] Len(dims) = 4 -> below(1) \X below(2) \X below(3) \X below(4)

\* The place of an index in row-major order, and the index at a place.
Offset(dims, index) ==
  LET upTo[k \in 0 .. Len(dims)] == IF k = 0 THEN 0 ELSE upTo[k - 1] * dims[k] + index[k]
  IN  upTo[Len(dims)]
Index(dims, offset) ==
  LET stride[k \in 1 .. Len(dims)] == IF k = Len(dims) THEN 1 ELSE stride[k + 1] * dims[k + 1]
  IN  <<>> \o [k \in DOMAIN dims |-> (offset \div stride[k]) % dims[k]]

\* The data stays where it is.
reshape(t, from, to) == [index \in Box(to) |-> t[Index(from, Offset(to, index))]]

Swapped(s, i, j) == [s EXCEPT ![i] = s[j], ![j] = s[i]]
swap_dims(t, dims, i, j) == [index \in Box(Swapped(dims, i, j)) |-> t[Swapped(index, i, j)]]

\* Elementwise sum of tensors of the same dimensions.
Sum(t, u) == [index \in DOMAIN t |-> t[index] \cup u[index]]

\* A layer over the last dimension, such as Linear or LayerNorm: each of the
\* `width` outputs of a row depends on the whole row.
WithLast(index, i) == [index EXCEPT ![Len(index)] = i]
Row(t, dims, index) == {t[WithLast(index, i)] : i \in 0 .. dims[Len(dims)] - 1}
OverRows(t, dims, width) ==
  [index \in Box(WithLast(dims, width)) |-> UNION Row(t, dims, index)]

\* A score of minus infinity, which softmax turns into a weight of exactly 0, and
\* what it gives where a row has no other score.
Masked == {<<"masked", 0, 0>>}
NaN == {<<"NaN", 0, 0>>}

\* softmax over the last dimension of the scores.
softmax(t, dims) ==
  [index \in Box(dims) |->
     LET row == Row(t, dims, index) \ {Masked}
     IN  IF row = {} THEN NaN ELSE IF t[index] = Masked THEN Masked ELSE UNION row]

\* Matrix products over the last two of four dimensions; a weight of 0 keeps
\* what it is multiplied with out of the sum.
matmul(t, tdims, u, udims) ==
  [index \in Box(WithLast(tdims, udims[4])) |->
     UNION {t[WithLast(index, k)] \cup u[<<index[1], index[2], k, index[4]>>] :
              k \in {i \in 0 .. tdims[4] - 1 : t[WithLast(index, i)] # Masked}}]
==============================================================================
