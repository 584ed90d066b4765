---------------------------- MODULE TrainingConfig ----------------------------
(***************************************************************************)
(* TrainingConfig, mt-training/src/config.rs: the fields that steer a      *)
(* training run, their validation and the sizes derived from them.         *)
(*                                                                         *)
(* A learning rate is its sign, or "NaN", which no comparison refuses; a   *)
(* clipping norm is an integer, 0 for none.  What is never read outside    *)
(* its own field (topology, schedule, interval of saving) is left out.     *)
(***************************************************************************)
EXTENDS Naturals

LearningRates == {"positive", "zero", "negative", "NaN"}

Configs == [batch_size : Nat, micro_batch_size : Nat, accumulation_steps : Nat,
            learning_rate : LearningRates, epochs : Nat, warmup_steps : Nat,
            log_interval : Nat, clip_grad_norm : Nat]

\* impl Default for TrainingConfig
Default == [batch_size |-> 32, micro_batch_size |-> 16, accumulation_steps |-> 2,
            learning_rate |-> "positive", epochs |-> 10, warmup_steps |-> 0,
            log_interval |-> 10, clip_grad_norm |-> 0]

\* Faulty: lets a window of no micro-batches through.
validate_lenient(c) ==
  IF c.micro_batch_size = 0 THEN "MicroBatchSizeZero"
  ELSE IF c.batch_size < c.micro_batch_size THEN "BatchSizeTooSmall"
  ELSE IF c.batch_size % c.micro_batch_size # 0 THEN "BatchSizeNotDivisible"
  ELSE IF c.epochs = 0 THEN "EpochsZero"
  ELSE IF c.learning_rate \in {"zero", "negative"} THEN "LearningRateNonPositive"
  ELSE "Ok"

\* The first refusal, in the order of the code.
validate(c) ==
  IF c.micro_batch_size = 0 THEN "MicroBatchSizeZero"
  ELSE IF c.accumulation_steps = 0 THEN "AccumulationStepsZero"
  ELSE IF c.batch_size < c.micro_batch_size THEN "BatchSizeTooSmall"
  ELSE IF c.batch_size % c.micro_batch_size # 0 THEN "BatchSizeNotDivisible"
  ELSE IF c.epochs = 0 THEN "EpochsZero"
  ELSE IF c.learning_rate \in {"zero", "negative"} THEN "LearningRateNonPositive"
  ELSE "Ok"

\* The samples of one optimizer step.
effective_batch_size(c) == c.micro_batch_size * c.accumulation_steps

\* Optimizer steps per epoch: batch_size over the effective size, rounded up.
steps_per_epoch(c) ==
  LET effective == effective_batch_size(c)
  IN  IF effective = 0 THEN 0 ELSE (c.batch_size + effective - 1) \div effective
==============================================================================
