----------------------------- MODULE MCGptExample -----------------------------
(***************************************************************************)
(* GptExample for TLC: two rows of two or three tokens, one to three heads  *)
(* of one to four features, none to two blocks: a split into heads that     *)
(* mixes rows or positions shows with two of each.  Sequences shorter than *)
(* the positions of the model, as long, and longer; loaders with fewer and *)
(* with more batches than the loop has steps.                              *)
(***************************************************************************)
EXTENDS GptExample

MCShapes ==
  [batch_size : {2}, seq_len : {2, 3}, d_model : {2, 4}, num_heads : 1 .. 3,
   num_layers : 0 .. 2, max_seq_len : {2, 3}, vocab_size : {3}]
MCBatchCounts == {0, 2}
MCStepCounts == {1, 3}
==============================================================================
