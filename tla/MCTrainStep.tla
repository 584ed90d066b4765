------------------------------ MODULE MCTrainStep ------------------------------
(***************************************************************************)
(* TrainStep for TLC: windows of 1 to 3 micro-batches, 5 micro-batches, so *)
(* that two windows fit with an overflow before, between and in them.  Of  *)
(* the two parameters one is not always given a gradient, or not in f32;   *)
(* in a debug build the second of two that do not match ends the program.  *)
(* Norm 3 is infinite, norm 2 is finite until two are added.  Each refusal *)
(* of validate() has a configuration.                                      *)
(***************************************************************************)
EXTENDS TrainStep

Config(accumulation, warmup, log, clip) ==
  [Default EXCEPT !.accumulation_steps = accumulation, !.warmup_steps = warmup,
                  !.log_interval = log, !.clip_grad_norm = clip]

Valid ==
  {Config(1, 2, 1, 0), Config(2, 1, 1, 0), Config(2, 0, 0, 1),
   Config(3, 0, 10, 1), [Config(1, 3, 2, 1) EXCEPT !.learning_rate = "NaN"]}

Invalid ==
  {Config(0, 0, 1, 0), [Default EXCEPT !.micro_batch_size = 0],
   [Default EXCEPT !.batch_size = 8], [Default EXCEPT !.batch_size = 40],
   [Default EXCEPT !.epochs = 0], [Default EXCEPT !.learning_rate = "negative"]}

MCTrainingConfigs == Valid \cup Invalid
MCTopologies == {4}
MCCommunicators == {4}
MCParams == {"weight", "bias"}
MCPresences ==
  [{"bias"} -> {"other"}] \cup [{"weight", "bias"} -> {"f32"}] \cup [{"weight"} -> {"f32"}]
MCNorms == {0, 2, 3}
MCNormCap == 2
MCModes == {"dynamic", "static"}
MCInitialExponents == {1}
MCGrowthIntervals == 1 .. 2
MCMaxExponent == 127
MCMaxMicrobatches == 5
MCMaxResets == 1

\* An accepted configuration has optimizer steps enough for its batch in every
\* epoch (config.rs: validate, steps_per_epoch).
ASSUME StepsCoverBatch ==
  \A c \in Valid :
    validate(c) = "Ok" /\ steps_per_epoch(c) * effective_batch_size(c) >= c.batch_size

\* Registering the parameters of a micro-batch one by one sums what drain_from
\* sums at once, in whatever precisions they are, but counts each of them
\* (accumulator.rs: register, drain_from).
ASSUME RegisterCountsParameters ==
  \A first, second \in [MCParams -> Acc!Precisions] :
    LET drained == Acc!drain_from(Acc!drain_from(Acc!Empty, first, 1), second, 2)
        both(acc, given, m) ==
          Acc!register(Acc!register(acc, "bias", given["bias"], m), "weight", given["weight"], m)
        one_by_one == both(both(Acc!Empty, first, 1), second, 2)
    IN  /\ one_by_one.grads = drained.grads
        /\ Acc!effective_batch_size(drained, 16) = 32
        /\ Acc!effective_batch_size(one_by_one, 16) = 64
==============================================================================
