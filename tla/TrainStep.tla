------------------------------- MODULE TrainStep -------------------------------
(***************************************************************************)
(* Training, mt-training: a runtime is built from what its builder was     *)
(* given (runtime.rs, config.rs), and train_step (step.rs) is then called  *)
(* with its configuration and its LossScaler, one micro-batch at a time,   *)
(* by the loop the doc comment of train_step leaves to the caller.         *)
(*                                                                         *)
(* The gradients of a micro-batch are the parameters that have one, with   *)
(* the precision it is in, and the norm, an integer, of those in f32;      *)
(* those of a window are taken to point the same way, so that their norms  *)
(* add up.  A norm above NormCap is infinite in f32.                       *)
(***************************************************************************)
EXTENDS Integers, SequencesExt, Runtime

CONSTANTS
  Topologies, Communicators, TrainingConfigs,   \* what the builder may be given
  Params,             \* the parameters of the module
  Presences,          \* the gradients a micro-batch may have: by parameter, the precision
  Norms,              \* the norms the gradients of a micro-batch may have
  NormCap,            \* the largest finite norm
  Modes, InitialExponents, GrowthIntervals, MaxExponent,   \* see LossScaler
  CallerResets,       \* does the caller call reset() after into_gradients()?
  MaxMicrobatches,    \* bound of the model
  MaxResets           \* bound of the model: between how many micro-batches the caller resets the scaler

ASSUME TrainStepAssumption ==
  /\ TrainingConfigs \subseteq Configs
  /\ Presences \subseteq UNION {[ids -> {"f32", "other"}] : ids \in SUBSET Params}
  /\ Norms \subseteq Nat
  /\ NormCap \in Nat
  /\ CallerResets \in BOOLEAN
  /\ MaxMicrobatches \in Nat /\ MaxResets \in Nat
  /\ Modes = {"dynamic", "static"}
  /\ MaxExponent \in Nat
  /\ InitialExponents \subseteq 0 .. MaxExponent
  /\ GrowthIntervals \subseteq Nat

VARIABLES
  debug_assertions,   \* is the program built with them?
  builder,
  training_config,    \* of the runtime that was built
  mode, growth_interval, exponent, growth_counter,    \* its loss scaler
  accumulator,        \* a GradientAccumulator
  norm,               \* the norm of the sum in it
  global_step,
  learning_rate,      \* in the metrics of the last step, in parts of the configured one
  micro,              \* micro-batches the caller has run
  present,            \* the gradients each of them had
  scaled_by,          \* the exponent of the scale each of them was run with
  rescaled,           \* those after which the caller reset the scaler
  infinite,           \* those whose own gradient was infinite or NaN
  pc,                 \* "setup", "refused", "train", "extract", after a panic "dead",
                      \* or "torn" if drain_from panicked
  window,             \* the micro-batches drained since the gradient map was last emptied
  applied,            \* what the optimizer was given, step by step, and of which window
  dropped             \* the micro-batches thrown away on an overflow or a panic

scaler == <<mode, growth_interval, exponent, growth_counter>>
setup == <<debug_assertions, builder, training_config>>
history == <<micro, present, scaled_by, rescaled, infinite, window, applied, dropped>>
vars == <<setup, scaler, accumulator, norm, global_step, learning_rate, pc, history>>

Scaler == INSTANCE LossScaler
Acc == INSTANCE GradientAccumulator

Builders ==
  [topology : {<<>>} \cup {<<t>> : t \in Topologies},
   communicator : {<<>>} \cup {<<c>> : c \in Communicators},
   precision_config : {<<>>} \cup {<<s>> : s \in Strategies},
   training_config : {<<>>} \cup {<<c>> : c \in TrainingConfigs}]

Rates == (0 .. MaxMicrobatches) \X Nat

IsGradients(grads) ==
  DOMAIN grads \subseteq Params /\ \A p \in DOMAIN grads : grads[p] \in Seq(1 .. micro)

TypeOK ==
  /\ debug_assertions \in BOOLEAN
  /\ builder \in Builders
  /\ training_config \in TrainingConfigs \cup {Default}
  /\ Scaler!TypeOK
  /\ IsGradients(accumulator.grads) /\ accumulator.count \in 0 .. micro
  /\ norm \in Nat
  /\ global_step \in 0 .. micro
  /\ learning_rate \in Rates
  /\ micro \in 0 .. MaxMicrobatches
  /\ present \in [1 .. micro -> Presences]
  /\ scaled_by \in [1 .. micro -> 0 .. Scaler!Inf]
  /\ rescaled \subseteq 0 .. micro
  /\ infinite \subseteq 1 .. micro
  /\ pc \in {"setup", "refused", "train", "extract", "dead", "torn"}
  /\ window \subseteq 1 .. micro
  /\ \A i \in DOMAIN applied :
       /\ IsGradients(applied[i].grads) /\ applied[i].norm \in Nat /\ applied[i].rate \in Rates
       /\ applied[i].window \subseteq 1 .. micro
  /\ dropped \subseteq 1 .. micro
------------------------------------------------------------------------------
Init ==
  /\ debug_assertions \in BOOLEAN
  /\ builder = NewBuilder
  /\ training_config = Default
  /\ mode = "static" /\ growth_interval = 0 /\ exponent = 0 /\ growth_counter = 0
  /\ accumulator = Acc!Empty /\ norm = 0
  /\ global_step = 0 /\ learning_rate = <<0, 1>>
  /\ micro = 0 /\ present = <<>> /\ scaled_by = <<>> /\ rescaled = {} /\ infinite = {}
  /\ pc = "setup"
  /\ window = {} /\ applied = <<>> /\ dropped = {}

\* What a with_* method may be called with.
Settings(field) ==
  CASE field = "topology" -> Topologies
    [] field = "communicator" -> Communicators
    [] field = "precision_config" -> Strategies
    [] field = "training_config" -> TrainingConfigs

Configure(field, value) ==
  /\ pc = "setup"
  /\ builder' = With(builder, field, value)
  /\ UNCHANGED <<debug_assertions, training_config, scaler, accumulator, norm, global_step,
                 learning_rate, pc, history>>

\* A Dynamic strategy starts from 65536 and doubles every 2000 steps, for which
\* the initial sets stand in; a Delayed one has a static scale of 1.
loss_scaler_from_config(strategy) ==
  /\ IF strategy = "Dynamic"
       THEN mode' = "dynamic" /\ exponent' \in InitialExponents /\ growth_interval' \in GrowthIntervals
       ELSE mode' = "static" /\ exponent' = 0 /\ growth_interval' = 0
  /\ growth_counter' = 0

\* The builder is consumed, whether or not it gives a runtime.
Build ==
  /\ pc = "setup"
  /\ builder' = NewBuilder
  /\ IF build(builder) = "Ok"
       THEN /\ pc' = "train"
            /\ training_config' = TrainingOf(builder)
            /\ loss_scaler_from_config(PrecisionOf(builder))
       ELSE pc' = "refused" /\ UNCHANGED <<training_config, scaler>>
  /\ UNCHANGED <<debug_assertions, accumulator, norm, global_step, learning_rate, history>>

\* The overflow test on a norm.
is_infinite(n) == n > NormCap

\* The caller runs one more micro-batch under the current scale.  It has the
\* gradients given, of which those in f32 are of norm n altogether.
RunMicrobatch(given, n) ==
  /\ pc = "train"
  /\ micro < MaxMicrobatches
  /\ (\A id \in DOMAIN given : given[id] # "f32") => n = 0
  /\ micro' = micro + 1
  /\ present' = Append(present, given)
  /\ scaled_by' = Append(scaled_by, exponent)
  /\ infinite' = IF is_infinite(n) THEN infinite \cup {micro + 1} ELSE infinite
  /\ UNCHANGED rescaled

Mismatched(given) == Acc!Mismatched(accumulator.grads, given)

\* The norms the sum may have with these gradients: where one in f32 is lost on
\* an empty vector, only the others count.
NormsWith(given, n) ==
  IF \A id \in Mismatched(given) : given[id] # "f32" THEN {norm + n} ELSE norm .. norm + n

\* drain_from adds the gradients and counts the micro-batch, unless it panics.
Drain(given) ==
  /\ debug_assertions => Mismatched(given) = {}
  /\ accumulator' = Acc!drain_from(accumulator, given, micro + 1)
  /\ window' = window \cup {micro + 1}
  /\ UNCHANGED <<setup, applied, dropped>>

\* drain_from panics, in the order of the parameters before or after it has
\* summed the gradients of others.
DrainPanics(given, n) ==
  /\ RunMicrobatch(given, n)
  /\ debug_assertions /\ Mismatched(given) # {}
  /\ \E before \in SUBSET (DOMAIN given \ Mismatched(given)) :
       accumulator' = [accumulator EXCEPT !.grads = Acc!Add(@, Restrict(given, before), micro + 1)]
  /\ norm' \in norm .. norm + n
  /\ pc' = "torn"
  /\ dropped' = dropped \cup {micro + 1}
  /\ UNCHANGED <<setup, scaler, global_step, learning_rate, window, applied>>

\* Faulty: only the overflowed micro-batch is dropped, not its window.
OverflowAlone(given, n) ==
  /\ RunMicrobatch(given, n)
  /\ is_infinite(n)
  /\ Scaler!Update(TRUE)
  /\ dropped' = dropped \cup {micro + 1}
  /\ UNCHANGED <<setup, accumulator, norm, global_step, learning_rate, pc, window, applied>>

\* drain_from returns an infinite norm: the scale is halved, the accumulator
\* reset and the error returned.
Overflow(given, n) ==
  /\ RunMicrobatch(given, n)
  /\ debug_assertions => Mismatched(given) = {}
  /\ is_infinite(n)
  /\ Scaler!Update(TRUE)
  /\ accumulator' = Acc!reset(accumulator) /\ norm' = 0
  /\ window' = {} /\ dropped' = dropped \cup window \cup {micro + 1}
  /\ UNCHANGED <<setup, global_step, learning_rate, pc, applied>>

\* Faulty: the norm is not looked at before the window is complete.
AccumulateUnchecked(given, n) ==
  /\ RunMicrobatch(given, n)
  /\ Drain(given)
  /\ accumulator'.count < training_config.accumulation_steps
  /\ norm' \in NormsWith(given, n)
  /\ UNCHANGED <<scaler, global_step, learning_rate, pc>>

\* The target is not met.
Accumulate(given, n) ==
  /\ RunMicrobatch(given, n)
  /\ ~is_infinite(n)
  /\ Drain(given)
  /\ accumulator'.count < training_config.accumulation_steps
  /\ norm' \in NormsWith(given, n)
  /\ learning_rate' = <<1, 1>>
  /\ UNCHANGED <<scaler, global_step, pc>>

\* Faulty: clips only what is infinite.
clip_grad_norm_infinite(total, max_norm) == IF is_infinite(total) THEN 0 ELSE total

\* The norm of a vector after clipping: an infinite one is above any maximum,
\* and is scaled by max_norm / inf, that is to zero.
clip_grad_norm(total, max_norm) ==
  IF total <= max_norm THEN total ELSE IF is_infinite(total) THEN 0 ELSE max_norm

\* apply_clip_norm on the vectors of all parameters together; a maximum of 0
\* disables it.
Clipped(total) ==
  LET max_norm == training_config.clip_grad_norm
  IN  IF max_norm > 0 THEN clip_grad_norm(total, max_norm) ELSE total

\* Faulty: by the micro-batches run instead of the steps taken.
warmup_rate_by_micro(step) ==
  IF micro < training_config.warmup_steps /\ training_config.warmup_steps > 0
    THEN <<micro, training_config.warmup_steps>> ELSE <<1, 1>>

\* The learning rate of the step that follows `step` steps: nothing at first,
\* then in equal parts up to the configured one.
warmup_rate(step) ==
  IF step < training_config.warmup_steps /\ training_config.warmup_steps > 0
    THEN <<step, training_config.warmup_steps>> ELSE <<1, 1>>

\* The target is met: clip, update the scaler, count the step.  The count is
\* compared with `%` to the log interval, which panics at zero.
Complete(given, n) ==
  /\ RunMicrobatch(given, n)
  /\ ~is_infinite(n)
  /\ Drain(given)
  /\ accumulator'.count >= training_config.accumulation_steps
  /\ norm' \in {Clipped(total) : total \in NormsWith(given, n)}
  /\ learning_rate' = warmup_rate(global_step)
  /\ Scaler!Update(FALSE)
  /\ global_step' = global_step + 1
  /\ pc' = IF training_config.log_interval = 0 THEN "dead" ELSE "extract"

\* The caller sees that the step advanced: into_gradients() empties the
\* gradient map but keeps the count, the optimizer steps, and a careful caller
\* then calls reset().
OptimizerStep ==
  /\ pc = "extract"
  /\ applied' = Append(applied, [grads |-> Acc!into_gradients(accumulator), norm |-> norm,
                                 rate |-> learning_rate, window |-> window])
  /\ accumulator' = IF CallerResets THEN Acc!reset(accumulator) ELSE Acc!Drained(accumulator)
  /\ norm' = 0
  /\ pc' = "train"
  /\ window' = {}
  /\ UNCHANGED <<setup, scaler, global_step, learning_rate, micro, present, scaled_by, rescaled,
                 infinite, dropped>>

\* LossScaler::reset, which the caller may call at any time.
ResetScaler(initial) ==
  /\ pc \in {"train", "extract"}
  /\ Scaler!Reset(initial)
  /\ rescaled' = rescaled \cup {micro} /\ Cardinality(rescaled') <= MaxResets
  /\ UNCHANGED <<setup, accumulator, norm, global_step, learning_rate, pc, micro, present, scaled_by,
                 infinite, window, applied, dropped>>

Next ==
  \/ \E field \in DOMAIN builder : \E value \in Settings(field) : Configure(field, value)
  \/ Build
  \/ \E given \in Presences, n \in Norms :
       DrainPanics(given, n) \/ Overflow(given, n) \/ Accumulate(given, n) \/ Complete(given, n)
  \/ OptimizerStep
  \/ \E initial \in InitialExponents : ResetScaler(initial)

Spec == Init /\ [][Next]_vars
------------------------------------------------------------------------------
(* What must hold.                                                         *)

Steps == DOMAIN applied

\* Every optimizer step is given accumulation_steps consecutive micro-batches,
\* no more and no fewer, also after an overflow cut a window short
\* (config.rs: "Number of micro-batches over which to accumulate gradients"):
\* validate() lets no configuration through for which that cannot be.
FullWindows ==
  \A i \in Steps : \E last \in 1 .. micro :
    applied[i].window = (last - training_config.accumulation_steps + 1) .. last

\* Of the gradients that the micro-batches of a window have for a parameter,
\* those that are kept: the ones in f32, and not even these if the first was in
\* another precision, for then nothing can be added to the vector stored of it.
Kept(micros, p) ==
  LET with == {m \in micros : p \in DOMAIN present[m]}
  IN  {m \in with : present[m][p] = "f32" /\ present[Min(with)][p] = "f32"}

Increasing(s) == \A j, k \in DOMAIN s : j < k => s[j] < s[k]

\* The gradients hold each contribution of the window that is kept once, in the
\* order of the micro-batches, and no other.
HoldsOnce(grads, micros) ==
  \A p \in Params :
    LET summed == IF p \in DOMAIN grads THEN grads[p] ELSE <<>>
    IN  Increasing(summed) /\ ToSet(summed) = Kept(micros, p)

\* Every micro-batch is in one window only, that of an optimizer step, in their
\* order, or the one that is being filled, unless an overflow (or a panic) threw
\* it away; and what is summed of a window is each gradient that is kept, once,
\* and nothing that was not there.  That is less than the doc comment says: it
\* keeps gradients "regardless of their incoming precision".
EachOnce ==
  /\ 1 .. micro = (UNION {applied[i].window : i \in Steps}) \cup window \cup dropped
  /\ window \cap dropped = {}
  /\ \A i \in Steps :
       /\ applied[i].window \cap (window \cup dropped) = {}
       /\ \A j \in Steps : i < j =>
            \A m \in applied[i].window, n \in applied[j].window : m < n
       /\ HoldsOnce(applied[i].grads, applied[i].window)
  /\ pc # "torn" => HoldsOnce(accumulator.grads, window)

\* The micro-batches summed together ran under one loss scale, so one division
\* can unscale their sum: the scale never moves inside a window, unless the
\* caller resets it there.
OneScalePerStep ==
  \A i \in Steps : \A m, n \in applied[i].window :
    m < n /\ scaled_by[m] # scaled_by[n] => \E k \in rescaled : m <= k /\ k < n

\* No infinite gradient is ever summed or given to the optimizer, and with it
\* goes the whole window it fell in.
InfiniteNeverApplied ==
  /\ infinite \subseteq dropped
  /\ \A i \in Steps : applied[i].window \cap dropped = {}

\* With clipping, no step is larger than the maximum norm, whatever is summed,
\* and a sum that overflowed is not applied.  Without, only a sum can be
\* infinite: no step of a single micro-batch is.
StepsAreBounded ==
  \A i \in Steps :
    IF training_config.clip_grad_norm > 0 THEN applied[i].norm <= training_config.clip_grad_norm
    ELSE training_config.accumulation_steps = 1 => applied[i].norm <= NormCap

\* The learning rate rises by one part in warmup_steps from optimizer step to
\* optimizer step, however many micro-batches a step takes and however many
\* overflows fall between them, and is the configured one from then on.
RampFollowsSteps ==
  \A i \in Steps :
    LET part == applied[i].rate
        warmup == training_config.warmup_steps
    IN  IF i <= warmup THEN part[1] * warmup = (i - 1) * part[2] ELSE part[1] = part[2]

\* The scale grows once per growth_interval optimizer steps at most, however
\* many micro-batches a step takes.
GrowthIsSlow ==
  \A initial \in InitialExponents \cup {0} :
    (\A e \in InitialExponents : e <= initial) =>
      exponent <= initial +
        (IF growth_interval = 0 THEN global_step ELSE global_step \div growth_interval)
==============================================================================
