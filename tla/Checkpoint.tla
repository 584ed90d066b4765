------------------------------ MODULE Checkpoint ------------------------------
(***************************************************************************)
(* One PipelineStage (mt-pipeline/src/stage.rs) and its activation         *)
(* checkpointing: input_cache, the strategies and the handles of           *)
(* mt-pipeline/src/checkpoint.rs.                                          *)
(*                                                                         *)
(* The stage remembers one input, whatever number of micro-batches is in   *)
(* flight.  No schedule of the crate calls this code; the caller here is   *)
(* any: it feeds micro-batches under any strategy and comes back for their *)
(* gradients in any order.  A matrix is its micro-batch and the layers it  *)
(* has passed, the latest last.                                            *)
(***************************************************************************)
EXTENDS Integers, Sequences

CONSTANTS
  LayerCounts,        \* the numbers of layers a stage may have
  MaxMicro            \* bound of the model: micro-batches fed

ASSUME CheckpointAssumption == LayerCounts \subseteq Nat /\ MaxMicro \in Nat

VARIABLES
  num_layers,
  input_cache,        \* <<>> for None, <<input>> for Some(input)
  handles,            \* the CheckpointHandles the caller holds
  fed,                \* how many micro-batches have been fed
  log                 \* the calls made so far, what on and what they gave

checkpointVars == <<num_layers, input_cache, handles, fed, log>>

Strategies == {"Full", "Selective", "None"}
Calls == Strategies \cup {"handle", "recompute", "panic"}

Matrix == [micro : 1 .. MaxMicro, through : Seq(Nat)]
Fresh(micro) == [micro |-> micro, through |-> <<>>]

CheckpointTypeOK ==
  /\ num_layers \in LayerCounts
  /\ input_cache \in Seq(Matrix) /\ Len(input_cache) <= 1
  /\ handles \subseteq Matrix
  /\ fed \in 0 .. MaxMicro
  /\ log \in Seq([call : Calls, input : Matrix, output : Matrix])

CheckpointInit ==
  /\ num_layers \in LayerCounts
  /\ input_cache = <<>>
  /\ handles = {}
  /\ fed = 0
  /\ log = <<>>
------------------------------------------------------------------------------
\* The layers first .. last, one after the other.
Layers(data, first, last) ==
  [data EXCEPT !.through = @ \o [k \in 1 .. last + 1 - first |-> first + k - 1]]

forward(input) == Layers(input, 1, num_layers)

\* The layers from the last to the first; each is given the input of the stage,
\* also where its own input is the output of the layer before it.
backward(input, grad_output) ==
  [grad_output EXCEPT !.through = @ \o [k \in 1 .. num_layers |-> num_layers + 1 - k]]

\* Faulty: the layer at the split belongs to both halves.
ForwardInHalvesOverlapping(input) ==
  LET split_point == num_layers \div 2
  IN  Layers(Layers(input, 1, split_point), (IF split_point = 0 THEN 1 ELSE split_point), num_layers)

\* The Selective strategy runs the two halves of the layers.  It keeps what
\* comes out of the first only until it returns.
ForwardInHalves(input) ==
  LET split_point == num_layers \div 2
  IN  Layers(Layers(input, 1, split_point), split_point + 1, num_layers)

Panicked == log # <<>> /\ log[Len(log)].call = "panic"
Record(call, input, output) ==
  /\ ~Panicked
  /\ log' = Append(log, [call |-> call, input |-> input, output |-> output])

\* The caller feeds the next micro-batch.
Feed == fed < MaxMicro /\ fed' = fed + 1

\* Faulty: an occupied cache is kept.
ApplyCheckpointForwardKeeping(strategy) ==
  /\ Feed
  /\ input_cache' = IF strategy = "None" \/ input_cache # <<>> THEN input_cache ELSE <<Fresh(fed')>>
  /\ Record(strategy, Fresh(fed'), forward(Fresh(fed')))
  /\ UNCHANGED <<num_layers, handles>>

\* apply_checkpoint_forward; under Full also PipelineStage::checkpoint_forward,
\* under None also PipelineStage::forward.  None leaves the cache alone.
ApplyCheckpointForward(strategy) ==
  /\ Feed
  /\ LET input == Fresh(fed')
     IN  /\ input_cache' = IF strategy = "None" THEN input_cache ELSE <<input>>
         /\ Record(strategy, input,
                   IF strategy = "Selective" /\ num_layers > 1
                     THEN ForwardInHalves(input) ELSE forward(input))
  /\ UNCHANGED <<num_layers, handles>>

\* recompute_and_backward with the gradient of a micro-batch: the cached input
\* is taken, run forward for nothing, and run backward.
RecomputeAndBackward(micro) ==
  /\ input_cache # <<>>
  /\ input_cache' = <<>>
  /\ Record("recompute", input_cache[1], backward(input_cache[1], Fresh(micro)))
  /\ UNCHANGED <<num_layers, handles, fed>>

\* expect("no cached input for recomputation")
RecomputePanics(micro) ==
  /\ input_cache = <<>>
  /\ Record("panic", Fresh(micro), Fresh(micro))
  /\ UNCHANGED <<num_layers, input_cache, handles, fed>>

\* ActivationCheckpoint::save_input: the caller keeps the next input itself.
SaveInput ==
  /\ ~Panicked
  /\ Feed
  /\ handles' = handles \cup {Fresh(fed')}
  /\ UNCHANGED <<num_layers, input_cache, log>>

\* ActivationCheckpoint::recompute_forward consumes the handle.
RecomputeForward(handle) ==
  /\ handles' = handles \ {handle}
  /\ Record("handle", handle, forward(handle))
  /\ UNCHANGED <<num_layers, input_cache, fed>>

CheckpointNext ==
  \/ \E strategy \in Strategies : ApplyCheckpointForward(strategy)
  \/ \E micro \in 1 .. fed : RecomputeAndBackward(micro) \/ RecomputePanics(micro)
  \/ SaveInput
  \/ \E handle \in handles : RecomputeForward(handle)

CheckpointSpec == CheckpointInit /\ [][CheckpointNext]_checkpointVars
------------------------------------------------------------------------------
Made(calls) == {i \in DOMAIN log : log[i].call \in calls}

\* Strategies and handles change what is remembered, never what is computed:
\* each output has passed every layer of the stage once, first to last, also
\* where Selective cuts the stage in two; gradients pass them last to first.
SameOutput ==
  \A i \in DOMAIN log :
    CASE log[i].call = "panic" -> TRUE
      [] log[i].call = "recompute" ->
           log[i].output.through = [k \in 1 .. num_layers |-> num_layers + 1 - k]
      [] OTHER ->
           log[i].output = [micro |-> log[i].input.micro, through |-> [k \in 1 .. num_layers |-> k]]

\* Is the k-th call the last one before the i-th that filled or emptied the cache?
IsLastCacheCall(k, i) ==
  LET before == {l \in Made({"Full", "Selective", "recompute"}) : l < i}
  IN  k \in before /\ \A l \in before : l <= k

\* A recomputation runs on the input of the last checkpointed forward, if
\* nothing has recomputed since, and panics otherwise, whatever is forwarded
\* without checkpointing or recomputed from handles in between.  So a caller
\* that comes back for a micro-batch before it checkpoints the next one is
\* right, one with two micro-batches in flight is not: none is recomputed twice,
\* and none after a later one.
Saved(k) == log[k].call # "recompute"
RecomputesTheLastSaved ==
  /\ \A i \in Made({"recompute"}) :
       \E k \in 1 .. i - 1 : IsLastCacheCall(k, i) /\ Saved(k) /\ log[i].input = log[k].input
  /\ \A i \in Made({"panic"}) :
       \A k \in 1 .. i - 1 : IsLastCacheCall(k, i) => ~Saved(k)
==============================================================================
