------------------------------- MODULE GptExample -------------------------------
(***************************************************************************)
(* The training program of examples/gpt-1b: the data loader                *)
(* (synthetic_data.rs), the model (model.rs, transformer.rs) and the loop  *)
(* of main.rs around them, one step per batch.                             *)
(*                                                                         *)
(* What the numbers are plays no part here; what matters is which tokens   *)
(* the logits of a position have seen after heads were split off, swapped  *)
(* and merged again.  Dropout, which leaves elements out at random, and    *)
(* activations, which act on single elements, change nothing of that.      *)
(***************************************************************************)
EXTENDS Tensors

CONSTANTS
  Shapes,             \* of a run, see Shape
  BatchCounts,        \* num_batches of the loader
  StepCounts          \* num_steps of the loop

Shape == [batch_size : Nat \ {0}, seq_len : Nat \ {0}, d_model : Nat \ {0}, num_heads : Nat \ {0},
          num_layers : Nat, max_seq_len : Nat \ {0}, vocab_size : Nat \ {0}]

ASSUME GptExampleAssumption ==
  Shapes \subseteq Shape /\ BatchCounts \subseteq Nat /\ StepCounts \subseteq Nat

VARIABLES
  config,             \* a Shape
  num_batches, current,   \* the loader, and how many batches it has yielded
  num_steps, step,    \* the loop
  hidden,             \* the hidden states between the halves of the blocks
  block,              \* how many blocks they have passed
  loss,               \* the terms of the mean, see cross_entropy_loss
  pc                  \* "new", "next", "blocks", "feed_forward", "backward", "done" or "panic"

model == <<hidden, block>>
gptVars == <<config, num_batches, current, num_steps, step, model, loss, pc>>

Rows == 0 .. config.batch_size - 1
Positions == 0 .. config.seq_len - 1

Token(b, s) == <<"token", b, s>>
Position(s) == <<"position", 0, s>>
Nothing == <<>>
BatchDims == <<config.batch_size, config.seq_len>>
HiddenDims == <<config.batch_size, config.seq_len, config.d_model>>

GptTypeOK ==
  /\ config \in Shapes
  /\ num_batches \in BatchCounts /\ current \in 0 .. num_batches
  /\ num_steps \in StepCounts /\ step \in 0 .. num_steps
  /\ hidden = Nothing \/ DOMAIN hidden = Box(HiddenDims)
  /\ block \in 0 .. config.num_layers
  /\ \A term \in loss : term.target \in {Token(b, s) : b \in Rows, s \in Positions}
  /\ pc \in {"new", "next", "blocks", "feed_forward", "backward", "done", "panic"}

GptInit ==
  /\ config \in Shapes
  /\ num_batches \in BatchCounts /\ current = 0
  /\ num_steps \in StepCounts /\ step = 0
  /\ hidden = Nothing /\ block = 0
  /\ loss = {}
  /\ pc = "new"
------------------------------------------------------------------------------
\* GptModel::new: each block has an attention, which asserts that the heads
\* divide d_model.
NewModel ==
  /\ pc = "new"
  /\ pc' = IF config.num_layers > 0 /\ config.d_model % config.num_heads # 0 THEN "panic" ELSE "next"
  /\ UNCHANGED <<config, num_batches, current, num_steps, step, model, loss>>

\* Every row of the batch is numbered from 0.
create_position_ids == [index \in Box(BatchDims) |-> index[2]]

\* The token and the position of each element, looked up and added.
Embedded ==
  [index \in Box(HiddenDims) |->
     {Token(index[1], index[2]), Position(create_position_ids[<<index[1], index[2]>>])}]

\* Faulty: one batch too many.
LoaderEndsLate == current > num_batches

\* SyntheticDataLoader::next has no batch left.
LoaderEnds == current >= num_batches

\* The loop is over, or breaks because the loader has ended.
Finish ==
  /\ pc = "next"
  /\ step >= num_steps \/ LoaderEnds
  /\ pc' = "done"
  /\ UNCHANGED <<config, num_batches, current, num_steps, step, model, loss>>

\* The next batch is embedded; a position the table does not have panics.
NextBatch ==
  /\ pc = "next"
  /\ step < num_steps /\ ~LoaderEnds
  /\ current' = current + 1
  /\ IF config.seq_len > config.max_seq_len
       THEN pc' = "panic" /\ UNCHANGED hidden
       ELSE pc' = "blocks" /\ hidden' = Embedded
  /\ block' = 0
  /\ UNCHANGED <<config, num_batches, num_steps, step, loss>>

\* Is position j hidden from position i?
create_causal_mask(i, j) == j > i

d_head == config.d_model \div config.num_heads
ScoreDims == <<config.batch_size, config.num_heads, config.seq_len, config.seq_len>>
HeadDims == <<config.batch_size, config.num_heads, config.seq_len, d_head>>
KeyDims == Swapped(HeadDims, 3, 4)

\* Faulty: cuts the data into heads without moving them before the positions.
SplitHeadsInPlace(x) == reshape(x, HiddenDims, HeadDims)

\* [batch, seq, d_model] as [batch, head, seq, d_head], and back.
SplitHeads(x) ==
  LET apart == Swapped(HeadDims, 2, 3)
  IN  swap_dims(reshape(x, HiddenDims, apart), apart, 2, 3)
MergeHeads(x) == reshape(swap_dims(x, HeadDims, 2, 3), Swapped(HeadDims, 2, 3), HiddenDims)

Scored(product) ==
  [index \in Box(ScoreDims) |->
     IF create_causal_mask(index[3], index[4]) THEN Masked ELSE product[index]]

\* A layer from d_model to d_model, or two: what the rows depend on is the same.
Layer(x) == OverRows(x, HiddenDims, config.d_model)

\* MultiHeadAttention::forward with the causal mask.  Queries, keys and values
\* depend on the same rows.
MultiHeadAttention(x) ==
  LET q == SplitHeads(Layer(x))
      scores == Scored(matmul(q, HeadDims, swap_dims(q, HeadDims, 3, 4), KeyDims))
      out == matmul(softmax(scores, ScoreDims), ScoreDims, q, HeadDims)
  IN  Layer(MergeHeads(out))

\* FeedForward::forward: both of its layers act on single positions.
FeedForward(x) == Layer(x)

\* TransformerBlock::forward: each half acts on normalised rows and is added to
\* what it was given.
Attend ==
  /\ pc = "blocks"
  /\ block < config.num_layers
  /\ hidden' = Sum(MultiHeadAttention(hidden), hidden)
  /\ pc' = "feed_forward"
  /\ UNCHANGED <<config, num_batches, current, num_steps, step, block, loss>>

FeedOn ==
  /\ pc = "feed_forward"
  /\ hidden' = Sum(FeedForward(hidden), hidden)
  /\ block' = block + 1
  /\ pc' = "blocks"
  /\ UNCHANGED <<config, num_batches, current, num_steps, step, loss>>

\* The last norm and the head, then the loss: logits and targets are laid out in
\* one row per position of the batch, and each row of logits is compared with
\* the target of that row.  The target is the input itself.
cross_entropy_loss(logits, targets) ==
  LET rows == config.batch_size * config.seq_len
      logits_2d == reshape(logits, WithLast(HiddenDims, config.vocab_size), <<rows, config.vocab_size>>)
      target_1d == reshape(targets, BatchDims, <<rows>>)
  IN  {[seen |-> UNION {logits_2d[<<n, v>>] : v \in 0 .. config.vocab_size - 1},
        target |-> target_1d[<<n>>]] : n \in 0 .. rows - 1}

ComputeLoss ==
  /\ pc = "blocks"
  /\ block = config.num_layers
  /\ loss' = cross_entropy_loss(OverRows(hidden, HiddenDims, config.vocab_size),
                               [index \in Box(BatchDims) |-> Token(index[1], index[2])])
  /\ pc' = "backward"
  /\ UNCHANGED <<config, num_batches, current, num_steps, step, model>>

\* The gradients go to the optimizer and the loop to its next step.
OptimizerStep ==
  /\ pc = "backward"
  /\ step' = step + 1
  /\ hidden' = Nothing /\ loss' = {}
  /\ pc' = "next"
  /\ UNCHANGED <<config, num_batches, current, num_steps, block>>

GptNext == NewModel \/ Finish \/ NextBatch \/ Attend \/ FeedOn \/ ComputeLoss \/ OptimizerStep

\* One thread runs main to its end.
GptSpec == GptInit /\ [][GptNext]_gptVars /\ WF_gptVars(GptNext)
------------------------------------------------------------------------------
\* The logits of a position have seen the tokens of its own row up to and
\* including it (none of the layers leaves any out, and a model without blocks
\* sees its own only), and no later token, no token of another row; the
\* positions they have seen are those.  Each is scored once, on the token at
\* the position itself (synthetic_data.rs: "the target is set to the input
\* directly"), which the logits have therefore seen.
SeesOnlyThePast ==
  pc = "backward" =>
    LET past(s) == IF config.num_layers = 0 THEN {s} ELSE 0 .. s
    IN  loss = {[seen |-> {Token(b, t) : t \in past(s)} \cup {Position(t) : t \in past(s)},
                 target |-> Token(b, s)] : b \in Rows, s \in Positions}

\* The program ends after one optimizer step per batch, on the first num_steps
\* batches of the loader; or it panics, before the first step, if the heads do
\* not divide d_model or the sequence is longer than the positions the model
\* has.
RunsThrough ==
  LET steps == IF num_steps <= num_batches THEN num_steps ELSE num_batches
      uneven == config.num_layers > 0 /\ config.d_model % config.num_heads # 0
      too_long == config.seq_len > config.max_seq_len /\ steps > 0
  IN  <>[](IF uneven \/ too_long THEN pc = "panic" /\ step = 0
           ELSE pc = "done" /\ step = steps /\ current = steps)
==============================================================================
