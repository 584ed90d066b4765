---------------------------- MODULE TrainStepProofs ----------------------------
(***************************************************************************)
(* Proofs about TrainStep, for every configuration, any number of          *)
(* parameters, and training runs of any length.                            *)
(***************************************************************************)
EXTENDS TrainStep, SequenceTheorems, WellFoundedInduction, TLAPS

Contributions == Seq(1 .. MaxMicrobatches)
Gradients == UNION {[ids -> Contributions] : ids \in SUBSET Params}
StepRecord == [grads : Gradients, norm : Nat, rate : Rates, window : SUBSET (1 .. MaxMicrobatches)]

\* The micro-batches summed in some gradients.
Held(grads) == UNION {ToSet(grads[p]) : p \in DOMAIN grads}

\* The types, with what TypeOK says by the current count said by the bound.
Types ==
  /\ debug_assertions \in BOOLEAN
  /\ builder \in Builders
  /\ training_config \in TrainingConfigs \cup {Default}
  /\ Scaler!TypeOK
  /\ accumulator \in [grads : Gradients, count : 0 .. micro]
  /\ norm \in Nat
  /\ global_step \in 0 .. micro
  /\ learning_rate \in Rates
  /\ micro \in 0 .. MaxMicrobatches
  /\ present \in [1 .. micro -> Presences]
  /\ scaled_by \in [1 .. micro -> 0 .. Scaler!Inf]
  /\ rescaled \subseteq 0 .. micro
  /\ infinite \subseteq 1 .. micro
  /\ pc \in {"setup", "refused", "train", "extract", "dead", "torn"}
  /\ window \subseteq 1 .. micro
  /\ applied \in Seq(StepRecord)
  /\ dropped \subseteq 1 .. micro

\* Nothing is summed, or applied, that was not run.
WithinBounds ==
  /\ Held(accumulator.grads) \subseteq 1 .. micro
  /\ \A i \in Steps :
       Held(applied[i].grads) \subseteq 1 .. micro /\ applied[i].window \subseteq 1 .. micro
------------------------------------------------------------------------------
(* Sequences and gradients.                                                *)

LEMMA AppendFunction ==
  ASSUME NEW S, NEW n \in Nat, NEW f \in [1 .. n -> S], NEW x \in S
  PROVE  /\ Append(f, x) \in [1 .. n + 1 -> S]
         /\ \A i \in 1 .. n : Append(f, x)[i] = f[i]
         /\ Append(f, x)[n + 1] = x
<1>1. f \in Seq(S) /\ Len(f) = n
  BY SeqDef
<1>2. /\ Append(f, x) \in Seq(S)
      /\ Len(Append(f, x)) = n + 1
      /\ \A i \in 1 .. n + 1 : Append(f, x)[i] = IF i = n + 1 THEN x ELSE f[i]
  BY <1>1, AppendProperties
<1> DEFINE g == Append(f, x)
<1> HIDE DEF g
<1>3. g \in [1 .. Len(g) -> S]
  BY <1>2, LenProperties DEF g
<1> QED
  BY <1>2, <1>3 DEF g

LEMMA NoGradients == <<>> \in Gradients /\ DOMAIN <<>> = {} /\ Held(<<>>) = {}
<1>1. <<>> \in Contributions /\ Len(<<>>) = 0
  BY EmptySeq DEF Contributions
<1>2. DOMAIN <<>> = {}
  OBVIOUS
<1>3. <<>> \in [{} -> Contributions]
  BY <1>2
<1>4. {} \in SUBSET Params
  OBVIOUS
<1> QED
  BY <1>2, <1>3, <1>4 DEF Gradients, Held

LEMMA GradientTypes ==
  ASSUME NEW grads \in Gradients
  PROVE  /\ DOMAIN grads \subseteq Params
         /\ \A p \in DOMAIN grads : grads[p] \in Contributions
BY DEF Gradients

LEMMA SummedOnce ==
  ASSUME NEW s \in Contributions, NEW m \in 1 .. MaxMicrobatches
  PROVE  /\ s \o <<m>> \in Contributions
         /\ ToSet(s \o <<m>>) = ToSet(s) \cup {m}
<1>1. <<m>> \in Seq(1 .. MaxMicrobatches) /\ Len(<<m>>) = 1 /\ <<m>>[1] = m
  OBVIOUS
<1>2. s \in Seq(1 .. MaxMicrobatches)
  BY DEF Contributions
<1> DEFINE t == s \o <<m>>
<1>3. /\ t \in Seq(1 .. MaxMicrobatches)
      /\ Len(t) = Len(s) + 1
      /\ \A i \in 1 .. Len(s) + 1 : t[i] = IF i <= Len(s) THEN s[i] ELSE <<m>>[i - Len(s)]
  BY <1>1, <1>2, ConcatProperties
<1> HIDE DEF t
<1>4. Len(s) \in Nat /\ DOMAIN s = 1 .. Len(s) /\ DOMAIN t = 1 .. Len(s) + 1
  BY <1>2, <1>3, LenProperties
<1>5. \A i \in 1 .. Len(s) : t[i] = s[i]
  BY <1>3, <1>4
<1>6. t[Len(s) + 1] = m
  BY <1>1, <1>3, <1>4
<1>7. \A i \in 1 .. Len(s) + 1 : i \in 1 .. Len(s) \/ i = Len(s) + 1
  BY <1>4
<1>8. ToSet(t) = ToSet(s) \cup {m}
  <2>1. \A i \in DOMAIN s : i \in DOMAIN t
    BY <1>4
  <2>2. Len(s) + 1 \in DOMAIN t
    BY <1>4
  <2> QED
    BY <1>4, <1>5, <1>6, <1>7, <2>1, <2>2 DEF ToSet
<1> QED
  BY <1>3, <1>8 DEF t, Contributions

LEMMA SummedNothing ==
  ASSUME NEW s \in Contributions
  PROVE  s \o <<>> = s
BY ConcatEmptySeq DEF Contributions

LEMMA EmptyHolds == <<>> \in Contributions /\ ToSet(<<>>) = {}
<1>1. <<>> \in Contributions
  BY EmptySeq DEF Contributions
<1> QED
  BY <1>1 DEF ToSet

LEMMA PresenceTypes ==
  ASSUME NEW given \in Presences
  PROVE  DOMAIN given \subseteq Params /\ \A p \in DOMAIN given : given[p] \in {"f32", "other"}
<1>1. PICK ids \in SUBSET Params : given \in [ids -> {"f32", "other"}]
  BY TrainStepAssumption
<1> QED
  BY <1>1

\* What a gradient adds to the vector stored before it.
LEMMA ZippedTypes ==
  ASSUME NEW s \in Contributions, NEW precision, NEW m \in 1 .. MaxMicrobatches
  PROVE  /\ Acc!Values(precision, m) \in Contributions
         /\ ToSet(Acc!Values(precision, m)) \subseteq {m}
         /\ Acc!Zipped(s, Acc!Values(precision, m)) \in Contributions
         /\ ToSet(Acc!Zipped(s, Acc!Values(precision, m))) \subseteq ToSet(s) \cup {m}
<1>1. <<m>> \in Contributions /\ ToSet(<<m>>) = {m}
  BY DEF Contributions, ToSet
<1>2. <<>> \in Contributions /\ ToSet(<<>>) = {}
  BY EmptyHolds
<1>3. /\ s \o <<m>> \in Contributions /\ ToSet(s \o <<m>>) = ToSet(s) \cup {m}
      /\ s \o <<>> = s
  BY SummedOnce, SummedNothing
<1>4. CASE precision = "f32"
  BY <1>1, <1>2, <1>3, <1>4 DEF Acc!Values, Acc!Zipped
<1>5. CASE precision # "f32"
  BY <1>2, <1>3, <1>5 DEF Acc!Values, Acc!Zipped
<1> QED
  BY <1>4, <1>5

\* What drain_from adds to the gradients.
LEMMA GradientsAdded ==
  ASSUME NEW grads \in Gradients, NEW given, DOMAIN given \subseteq Params,
         NEW m \in 1 .. MaxMicrobatches
  PROVE  /\ Acc!Add(grads, given, m) \in Gradients
         /\ Held(Acc!Add(grads, given, m)) \subseteq Held(grads) \cup {m}
<1> DEFINE sum == Acc!Add(grads, given, m)
           ids == DOMAIN grads \cup DOMAIN given
<1>1. DOMAIN grads \subseteq Params /\ \A p \in DOMAIN grads : grads[p] \in Contributions
  BY GradientTypes
<1>2. sum = [p \in ids |-> sum[p]]
  BY DEF Acc!Add
<1>3. ASSUME NEW p \in ids
      PROVE  /\ sum[p] \in Contributions
             /\ ToSet(sum[p]) \subseteq Held(grads) \cup {m}
  <2>1. CASE p \notin DOMAIN given
    <3>1. sum[p] = grads[p] /\ p \in DOMAIN grads
      BY <2>1 DEF Acc!Add
    <3> QED
      BY <1>1, <3>1 DEF Held
  <2>2. CASE p \in DOMAIN given /\ p \in DOMAIN grads
    <3>1. sum[p] = Acc!Zipped(grads[p], Acc!Values(given[p], m))
      BY <2>2 DEF Acc!Add
    <3>2. ToSet(grads[p]) \subseteq Held(grads)
      BY <2>2 DEF Held
    <3> QED
      BY <1>1, <2>2, <3>1, <3>2, ZippedTypes
  <2>3. CASE p \in DOMAIN given /\ p \notin DOMAIN grads
    <3>1. sum[p] = Acc!Values(given[p], m)
      BY <2>3 DEF Acc!Add
    <3> QED
      BY <3>1, EmptyHolds, ZippedTypes
  <2> QED
    BY <2>1, <2>2, <2>3
<1> HIDE DEF sum
<1>4. sum \in [ids -> Contributions]
  BY <1>2, <1>3
<1>5. sum \in Gradients
  BY <1>1, <1>4 DEF Gradients
<1>6. Held(sum) \subseteq Held(grads) \cup {m}
  BY <1>2, <1>3 DEF Held
<1> QED
  BY <1>5, <1>6 DEF sum
------------------------------------------------------------------------------
(* Types.                                                                  *)

LEMMA ScalerUpdated ==
  ASSUME Scaler!TypeOK, NEW overflow \in BOOLEAN, Scaler!Update(overflow)
  PROVE  Scaler!TypeOK' /\ mode' = mode /\ growth_interval' = growth_interval
<1>0. /\ MaxExponent \in Nat /\ Scaler!Inf = MaxExponent + 1
      /\ growth_interval \in Nat /\ growth_counter \in Nat /\ exponent \in 0 .. Scaler!Inf
  BY TrainStepAssumption DEF Scaler!TypeOK, Scaler!Inf
<1>1. mode' = mode /\ growth_interval' = growth_interval
  BY DEF Scaler!Update
<1>2. exponent' \in 0 .. Scaler!Inf
  BY <1>0 DEF Scaler!Update, Scaler!Overflowed, Scaler!Clean, Scaler!Halved, Scaler!Doubled
<1>3. growth_counter' \in Nat /\ (growth_counter' = 0 \/ growth_counter' < growth_interval)
  BY <1>0 DEF Scaler!Update, Scaler!Overflowed, Scaler!Clean, Scaler!TypeOK
<1> QED
  BY <1>1, <1>2, <1>3 DEF Scaler!TypeOK, Scaler!Inf

LEMMA ConfigTypes == Default \in Configs /\ TrainingConfigs \cup {Default} \subseteq Configs
<1>1. Default \in Configs
  BY DEF Default, Configs, LearningRates
<1> QED
  BY <1>1, TrainStepAssumption

LEMMA InitTypes == Init => Types
<1> SUFFICES ASSUME Init PROVE Types
  OBVIOUS
<1>1. builder \in Builders
  BY DEF Init, NewBuilder, Builders
<1>2. Scaler!TypeOK
  BY TrainStepAssumption DEF Init, Scaler!TypeOK, Scaler!Inf
<1>3. accumulator \in [grads : Gradients, count : 0 .. micro]
  BY NoGradients DEF Init, Acc!Empty
<1>4. micro = 0 /\ micro \in 0 .. MaxMicrobatches /\ 0 \in 0 .. micro /\ 1 .. micro = {}
  BY TrainStepAssumption DEF Init
<1>5. present \in [1 .. micro -> Presences] /\ scaled_by \in [1 .. micro -> 0 .. Scaler!Inf]
  <2>1. \A S : <<>> \in [1 .. 0 -> S]
    BY EmptySeq, LenProperties
  <2> QED
    BY <2>1 DEF Init
<1>6. applied \in Seq(StepRecord)
  BY EmptySeq DEF Init
<1>7. learning_rate \in Rates
  BY <1>4 DEF Init, Rates
<1> QED
  BY <1>1, <1>2, <1>3, <1>4, <1>5, <1>6, <1>7 DEF Init, Types

LEMMA ConfigureTypes ==
  ASSUME Types, NEW field \in DOMAIN builder, NEW value \in Settings(field), Configure(field, value)
  PROVE  Types'
<1>1. builder \in Builders
  BY DEF Types
<1>2. field \in {"topology", "communicator", "precision_config", "training_config"}
  BY <1>1 DEF Builders
<1>3. builder' = [builder EXCEPT ![field] = <<value>>]
  BY DEF Configure, With
<1>4. builder' \in Builders
  <2>1. CASE field = "topology"
    BY <1>1, <1>3, <2>1 DEF Builders, Settings
  <2>2. CASE field = "communicator"
    BY <1>1, <1>3, <2>2 DEF Builders, Settings
  <2>3. CASE field = "precision_config"
    BY <1>1, <1>3, <2>3 DEF Builders, Settings
  <2>4. CASE field = "training_config"
    BY <1>1, <1>3, <2>4 DEF Builders, Settings
  <2> QED
    BY <1>2, <2>1, <2>2, <2>3, <2>4
<1> QED
  BY <1>4 DEF Types, Configure, scaler, history, Scaler!TypeOK, Scaler!Inf

LEMMA BuildTypes ==
  ASSUME Types, Build
  PROVE  Types'
<1>1. builder' \in Builders
  BY DEF Build, NewBuilder, Builders
<1>2. TrainingOf(builder) \in TrainingConfigs \cup {Default}
  <2>1. builder.training_config \in {<<>>} \cup {<<c>> : c \in TrainingConfigs}
    BY DEF Types, Builders
  <2> QED
    BY <2>1 DEF TrainingOf, unwrap_or
<1>3. CASE build(builder) = "Ok"
  <2>1. /\ training_config' \in TrainingConfigs \cup {Default}
        /\ pc' = "train"
    BY <1>2, <1>3 DEF Build
  <2>2. loss_scaler_from_config(PrecisionOf(builder))
    BY <1>3 DEF Build
  <2>3. Scaler!TypeOK'
    <3>1. mode' \in Modes /\ growth_interval' \in GrowthIntervals \cup {0} /\ growth_counter' = 0
      BY <2>2, TrainStepAssumption DEF loss_scaler_from_config
    <3>2. exponent' \in InitialExponents \cup {0}
      BY <2>2 DEF loss_scaler_from_config
    <3>3. exponent' \in 0 .. MaxExponent + 1
      BY <3>2, TrainStepAssumption
    <3> QED
      BY <3>1, <3>3 DEF Scaler!TypeOK, Scaler!Inf
  <2>4. UNCHANGED <<debug_assertions, accumulator, norm, global_step, learning_rate, history>>
    BY DEF Build
  <2> QED
    BY <1>1, <2>1, <2>3, <2>4 DEF Types, history, Scaler!Inf
<1>4. CASE build(builder) # "Ok"
  <2>1. pc' = "refused" /\ UNCHANGED <<training_config, scaler>>
    BY <1>4 DEF Build
  <2>2. Scaler!TypeOK'
    BY <2>1 DEF Types, scaler, Scaler!TypeOK, Scaler!Inf
  <2> QED
    BY <1>1, <2>1, <2>2 DEF Types, Build, history, Scaler!Inf
<1> QED
  BY <1>3, <1>4

\* One more micro-batch.
LEMMA MicrobatchTypes ==
  ASSUME Types, NEW given \in Presences, NEW n \in Norms, RunMicrobatch(given, n)
  PROVE  /\ micro \in Nat /\ micro + 1 \in 1 .. MaxMicrobatches
         /\ micro' = micro + 1 /\ micro' \in 0 .. MaxMicrobatches
         /\ 1 .. micro' = (1 .. micro) \cup {micro + 1}
         /\ present' \in [1 .. micro' -> Presences]
         /\ scaled_by' \in [1 .. micro' -> 0 .. Scaler!Inf]
         /\ \A m \in 1 .. micro : scaled_by'[m] = scaled_by[m]
         /\ scaled_by'[micro + 1] = exponent
         /\ infinite' \subseteq 1 .. micro'
         /\ rescaled' = rescaled /\ rescaled' \subseteq 0 .. micro'
<1>1. /\ micro \in Nat /\ micro < MaxMicrobatches /\ MaxMicrobatches \in Nat
      /\ micro' = micro + 1
  BY TrainStepAssumption DEF Types, RunMicrobatch
<1>2. 1 .. micro' = (1 .. micro) \cup {micro + 1}
  BY <1>1
<1>3. present' \in [1 .. micro' -> Presences]
  BY <1>1, AppendFunction DEF Types, RunMicrobatch
<1>4. exponent \in 0 .. Scaler!Inf
  BY DEF Types, Scaler!TypeOK
<1>5. /\ scaled_by' \in [1 .. micro' -> 0 .. Scaler!Inf]
      /\ \A m \in 1 .. micro : scaled_by'[m] = scaled_by[m]
      /\ scaled_by'[micro + 1] = exponent
  <2> DEFINE exponents == 0 .. Scaler!Inf
  <2>1. scaled_by \in [1 .. micro -> exponents] /\ scaled_by' = Append(scaled_by, exponent)
    BY DEF Types, RunMicrobatch
  <2>2. exponent \in exponents
    BY <1>4
  <2> HIDE DEF exponents
  <2>3. micro \in Nat
    BY <1>1
  <2>4. scaled_by \in [1 .. micro -> exponents]
    BY <2>1
  <2>5. /\ Append(scaled_by, exponent) \in [1 .. micro + 1 -> exponents]
        /\ \A m \in 1 .. micro : Append(scaled_by, exponent)[m] = scaled_by[m]
        /\ Append(scaled_by, exponent)[micro + 1] = exponent
    BY ONLY <2>2, <2>3, <2>4, AppendFunction
  <2>6. /\ scaled_by' \in [1 .. micro + 1 -> exponents]
        /\ \A m \in 1 .. micro : scaled_by'[m] = scaled_by[m]
        /\ scaled_by'[micro + 1] = exponent
    BY <2>1, <2>5
  <2> QED
    BY <1>1, <2>6 DEF exponents
<1>6. infinite' \subseteq 1 .. micro'
  BY <1>2 DEF Types, RunMicrobatch
<1>7. rescaled' = rescaled /\ rescaled' \subseteq 0 .. micro'
  BY <1>1 DEF Types, RunMicrobatch
<1> QED
  BY <1>1, <1>2, <1>3, <1>5, <1>6, <1>7

LEMMA OverflowTypes ==
  ASSUME Types, NEW given \in Presences, NEW n \in Norms, Overflow(given, n)
  PROVE  Types'
<1>1. RunMicrobatch(given, n) /\ Scaler!Update(TRUE)
  BY DEF Overflow
<1>2. /\ micro \in Nat /\ micro' = micro + 1 /\ micro' \in 0 .. MaxMicrobatches
      /\ 1 .. micro' = (1 .. micro) \cup {micro + 1}
      /\ present' \in [1 .. micro' -> Presences]
      /\ scaled_by' \in [1 .. micro' -> 0 .. Scaler!Inf]
      /\ infinite' \subseteq 1 .. micro' /\ rescaled' \subseteq 0 .. micro'
  BY <1>1, MicrobatchTypes
<1>3. Scaler!TypeOK'
  BY <1>1, ScalerUpdated DEF Types
<1>4. accumulator' \in [grads : Gradients, count : 0 .. micro'] /\ norm' \in Nat
  BY <1>2, NoGradients DEF Overflow, Acc!reset, Acc!Empty
<1>5. dropped' \subseteq 1 .. micro' /\ window' \subseteq 1 .. micro'
  BY <1>2 DEF Types, Overflow
<1>6. global_step' \in 0 .. micro'
  BY <1>2 DEF Types, Overflow
<1> QED
  BY <1>2, <1>3, <1>4, <1>5, <1>6 DEF Types, Overflow, setup, Scaler!Inf

LEMMA DrainTypes ==
  ASSUME Types, NEW given \in Presences, NEW n \in Norms, RunMicrobatch(given, n), Drain(given)
  PROVE  /\ accumulator' \in [grads : Gradients, count : 0 .. micro']
         /\ accumulator'.count = accumulator.count + 1
         /\ accumulator'.grads = Acc!Add(accumulator.grads, given, micro + 1)
         /\ Held(accumulator'.grads) \subseteq Held(accumulator.grads) \cup {micro + 1}
         /\ window' = window \cup {micro + 1} /\ window' \subseteq 1 .. micro'
         /\ dropped' = dropped /\ dropped' \subseteq 1 .. micro'
<1>1. /\ micro \in Nat /\ micro + 1 \in 1 .. MaxMicrobatches /\ micro' = micro + 1
      /\ 1 .. micro' = (1 .. micro) \cup {micro + 1}
  BY MicrobatchTypes
<1>2. DOMAIN given \subseteq Params
  BY PresenceTypes
<1>3. accumulator.grads \in Gradients /\ accumulator.count \in 0 .. micro
  BY DEF Types
<1>4. accumulator' = [grads |-> Acc!Add(accumulator.grads, given, micro + 1),
                      count |-> accumulator.count + 1]
  BY DEF Drain, Acc!drain_from
<1>5. accumulator.count + 1 \in 0 .. micro'
  BY <1>1, <1>3
<1>6. /\ window' = window \cup {micro + 1} /\ window' \subseteq 1 .. micro'
      /\ dropped' = dropped /\ dropped' \subseteq 1 .. micro'
  BY <1>1 DEF Types, Drain
<1> QED
  BY <1>1, <1>2, <1>3, <1>4, <1>5, <1>6, GradientsAdded

\* The norm of the sum is no more than that of its parts.
LEMMA NormTypes ==
  ASSUME Types, NEW given, NEW n \in Norms, NEW total \in NormsWith(given, n)
  PROVE  total \in Nat /\ norm \in Nat /\ n \in Nat /\ total <= norm + n
BY TrainStepAssumption DEF Types, NormsWith

LEMMA PanicTypes ==
  ASSUME Types, NEW given \in Presences, NEW n \in Norms, DrainPanics(given, n)
  PROVE  /\ Types'
         /\ Held(accumulator'.grads) \subseteq Held(accumulator.grads) \cup {micro + 1}
<1>1. RunMicrobatch(given, n)
  BY DEF DrainPanics
<1>2. /\ micro \in Nat /\ micro' = micro + 1 /\ micro' \in 0 .. MaxMicrobatches
      /\ micro + 1 \in 1 .. MaxMicrobatches
      /\ 1 .. micro' = (1 .. micro) \cup {micro + 1}
      /\ present' \in [1 .. micro' -> Presences]
      /\ scaled_by' \in [1 .. micro' -> 0 .. Scaler!Inf]
      /\ infinite' \subseteq 1 .. micro' /\ rescaled' \subseteq 0 .. micro'
  BY <1>1, MicrobatchTypes
<1>3. PICK before \in SUBSET (DOMAIN given \ Mismatched(given)) :
        accumulator' = [accumulator EXCEPT !.grads = Acc!Add(@, Restrict(given, before), micro + 1)]
  BY DEF DrainPanics
<1>4. DOMAIN Restrict(given, before) \subseteq Params
  BY PresenceTypes DEF Restrict
<1>5. accumulator \in [grads : Gradients, count : 0 .. micro]
  BY DEF Types
<1> DEFINE part == Restrict(given, before)
<1> HIDE DEF part
<1>6. /\ Acc!Add(accumulator.grads, part, micro + 1) \in Gradients
      /\ Held(Acc!Add(accumulator.grads, part, micro + 1))
           \subseteq Held(accumulator.grads) \cup {micro + 1}
  BY <1>2, <1>4, <1>5, GradientsAdded DEF part
<1>7. accumulator' = [grads |-> Acc!Add(accumulator.grads, part, micro + 1),
                      count |-> accumulator.count]
  BY <1>3, <1>5 DEF part
<1>8. accumulator.count \in 0 .. micro'
  BY <1>2, <1>5
<1>9. /\ accumulator' \in [grads : Gradients, count : 0 .. micro']
      /\ Held(accumulator'.grads) \subseteq Held(accumulator.grads) \cup {micro + 1}
  BY <1>6, <1>7, <1>8
<1>10. norm' \in Nat
  BY TrainStepAssumption DEF Types, DrainPanics
<1>11. /\ window' \subseteq 1 .. micro' /\ dropped' \subseteq 1 .. micro'
       /\ global_step' \in 0 .. micro'
  BY <1>2 DEF Types, DrainPanics
<1>12. Scaler!TypeOK'
  BY DEF Types, DrainPanics, scaler, Scaler!TypeOK, Scaler!Inf
<1> QED
  BY <1>2, <1>9, <1>10, <1>11, <1>12 DEF Types, DrainPanics, setup, Scaler!Inf

LEMMA AccumulateTypes ==
  ASSUME Types, NEW given \in Presences, NEW n \in Norms, Accumulate(given, n)
  PROVE  Types'
<1>1. RunMicrobatch(given, n) /\ Drain(given)
  BY DEF Accumulate
<1>2. /\ micro \in Nat /\ micro' = micro + 1 /\ micro' \in 0 .. MaxMicrobatches
      /\ 1 .. micro' = (1 .. micro) \cup {micro + 1}
      /\ present' \in [1 .. micro' -> Presences]
      /\ scaled_by' \in [1 .. micro' -> 0 .. Scaler!Inf]
      /\ infinite' \subseteq 1 .. micro' /\ rescaled' \subseteq 0 .. micro'
  BY <1>1, MicrobatchTypes
<1>3. /\ accumulator' \in [grads : Gradients, count : 0 .. micro']
      /\ window' \subseteq 1 .. micro' /\ dropped' \subseteq 1 .. micro'
  BY <1>1, DrainTypes
<1>4. norm' \in Nat /\ learning_rate' \in Rates
  <2>1. 1 \in 0 .. MaxMicrobatches
    BY <1>2, TrainStepAssumption
  <2>2. norm' \in NormsWith(given, n) /\ learning_rate' = <<1, 1>>
    BY DEF Accumulate
  <2> QED
    BY <2>1, <2>2, NormTypes DEF Rates
<1>5. Scaler!TypeOK'
  BY DEF Types, Accumulate, scaler, Scaler!TypeOK, Scaler!Inf
<1>6. global_step' \in 0 .. micro'
  BY <1>2 DEF Types, Accumulate
<1> QED
  BY <1>1, <1>2, <1>3, <1>4, <1>5, <1>6 DEF Types, Accumulate, Drain, setup, Scaler!Inf

LEMMA ClippedType ==
  ASSUME Types, NEW total \in Nat
  PROVE  Clipped(total) \in Nat
<1>1. training_config.clip_grad_norm \in Nat
  BY ConfigTypes DEF Types, Configs
<1> QED
  BY <1>1 DEF Clipped, clip_grad_norm

LEMMA CompleteTypes ==
  ASSUME Types, NEW given \in Presences, NEW n \in Norms, Complete(given, n)
  PROVE  Types'
<1>1. RunMicrobatch(given, n) /\ Drain(given) /\ Scaler!Update(FALSE)
  BY DEF Complete
<1>2. /\ micro \in Nat /\ micro' = micro + 1 /\ micro' \in 0 .. MaxMicrobatches
      /\ 1 .. micro' = (1 .. micro) \cup {micro + 1}
      /\ present' \in [1 .. micro' -> Presences]
      /\ scaled_by' \in [1 .. micro' -> 0 .. Scaler!Inf]
      /\ infinite' \subseteq 1 .. micro' /\ rescaled' \subseteq 0 .. micro'
  BY <1>1, MicrobatchTypes
<1>3. /\ accumulator' \in [grads : Gradients, count : 0 .. micro']
      /\ window' \subseteq 1 .. micro' /\ dropped' \subseteq 1 .. micro'
  BY <1>1, DrainTypes
<1>4. norm' \in Nat
  <2>1. PICK total \in NormsWith(given, n) : norm' = Clipped(total)
    BY DEF Complete
  <2> QED
    BY <2>1, NormTypes, ClippedType
<1>5. learning_rate' \in Rates
  <2>1. training_config.warmup_steps \in Nat
    BY ConfigTypes DEF Types, Configs
  <2>2. global_step \in 0 .. MaxMicrobatches /\ 1 \in 0 .. MaxMicrobatches
    BY <1>2, TrainStepAssumption DEF Types
  <2> QED
    BY <2>1, <2>2 DEF Complete, warmup_rate, Rates
<1>6. Scaler!TypeOK'
  BY <1>1, ScalerUpdated DEF Types
<1>7. global_step' \in 0 .. micro'
  BY <1>2 DEF Types, Complete
<1>8. pc' \in {"extract", "dead"}
  BY DEF Complete
<1> QED
  BY <1>1, <1>2, <1>3, <1>4, <1>5, <1>6, <1>7, <1>8 DEF Types, Drain, setup, Scaler!Inf

\* What into_gradients takes out becomes a step of the optimizer.
LEMMA AppliedStep ==
  ASSUME Types, OptimizerStep
  PROVE  LET given == [grads |-> accumulator.grads, norm |-> norm, rate |-> learning_rate,
                       window |-> window]
         IN  /\ applied' \in Seq(StepRecord)
             /\ Len(applied) \in Nat /\ Len(applied') = Len(applied) + 1
             /\ Steps = 1 .. Len(applied)
             /\ Steps' = 1 .. Len(applied) + 1
             /\ \A i \in Steps : applied'[i] = applied[i]
             /\ applied'[Len(applied) + 1] = given
<1> DEFINE given == [grads |-> accumulator.grads, norm |-> norm, rate |-> learning_rate,
                     window |-> window]
<1>1. given \in StepRecord
  <2>1. window \subseteq 1 .. MaxMicrobatches
    BY TrainStepAssumption DEF Types
  <2> QED
    BY <2>1 DEF Types, StepRecord
<1>2. applied \in Seq(StepRecord)
  BY DEF Types
<1>3. applied' = Append(applied, given)
  BY DEF OptimizerStep, Acc!into_gradients
<1> HIDE DEF given
<1>4. /\ applied' \in Seq(StepRecord) /\ Len(applied') = Len(applied) + 1
      /\ \A i \in 1 .. Len(applied) : applied'[i] = applied[i]
      /\ applied'[Len(applied) + 1] = given
  BY <1>1, <1>2, <1>3, AppendProperties
<1>5. Len(applied) \in Nat /\ DOMAIN applied = 1 .. Len(applied)
  BY <1>2, LenProperties
<1>6. DOMAIN applied' = 1 .. Len(applied')
  BY <1>4, LenProperties
<1> QED
  BY <1>4, <1>5, <1>6 DEF given, Steps

LEMMA OptimizerTypes ==
  ASSUME Types, OptimizerStep
  PROVE  /\ Types'
         /\ accumulator'.grads = <<>>
<1>1. applied' \in Seq(StepRecord)
  BY AppliedStep
<1>2. accumulator' \in [grads : Gradients, count : 0 .. micro'] /\ accumulator'.grads = <<>>
  <2>1. micro' = micro /\ 0 \in 0 .. micro
    BY DEF Types, OptimizerStep
  <2> QED
    BY <2>1, NoGradients DEF Types, OptimizerStep, Acc!reset, Acc!Empty, Acc!Drained
<1> QED
  BY <1>1, <1>2 DEF Types, OptimizerStep, setup, scaler, Scaler!TypeOK, Scaler!Inf

LEMMA ResetTypes ==
  ASSUME Types, NEW initial \in InitialExponents, ResetScaler(initial)
  PROVE  Types'
<1>1. Scaler!TypeOK'
  BY TrainStepAssumption DEF Types, ResetScaler, Scaler!Reset, Scaler!TypeOK, Scaler!Inf
<1>2. rescaled' \subseteq 0 .. micro'
  BY DEF Types, ResetScaler
<1> QED
  BY <1>1, <1>2 DEF Types, ResetScaler, setup, Scaler!Inf

LEMMA UnchangedTypes ==
  ASSUME Types, UNCHANGED vars
  PROVE  Types'
BY DEF Types, vars, setup, scaler, history, Scaler!TypeOK, Scaler!Inf
------------------------------------------------------------------------------
(* Where the micro-batches go.                                             *)

\* Before training begins nothing has been run.
Setup == pc \in {"setup", "refused"} => micro = 0 /\ applied = <<>> /\ norm = 0

\* The micro-batches of the window being filled, those of each optimizer step,
\* and the dropped ones are different, and the infinite ones are dropped.
Accounts ==
  /\ infinite \subseteq dropped
  /\ window \cap dropped = {}
  /\ \A i \in Steps : applied[i].window \cap (window \cup dropped) = {}

AccountInv == Types /\ WithinBounds /\ Setup /\ Accounts

\* What a micro-batch that is summed changes.
LEMMA Summed ==
  ASSUME Types, NEW given \in Presences, NEW n \in Norms, Accumulate(given, n) \/ Complete(given, n)
  PROVE  /\ micro \in Nat /\ micro' = micro + 1 /\ micro + 1 \in 1 .. MaxMicrobatches
         /\ 1 .. micro' = (1 .. micro) \cup {micro + 1}
         /\ accumulator.count \in Nat /\ accumulator'.count = accumulator.count + 1
         /\ accumulator'.grads = Acc!Add(accumulator.grads, given, micro + 1)
         /\ Held(accumulator'.grads) \subseteq Held(accumulator.grads) \cup {micro + 1}
         /\ window' = window \cup {micro + 1}
         /\ applied' = applied /\ dropped' = dropped /\ infinite' = infinite
         /\ pc = "train" /\ training_config' = training_config
<1>1. /\ RunMicrobatch(given, n) /\ Drain(given) /\ ~is_infinite(n)
  BY DEF Accumulate, Complete
<1>2. /\ accumulator'.count = accumulator.count + 1
      /\ accumulator'.grads = Acc!Add(accumulator.grads, given, micro + 1)
      /\ Held(accumulator'.grads) \subseteq Held(accumulator.grads) \cup {micro + 1}
      /\ window' = window \cup {micro + 1} /\ dropped' = dropped
  BY <1>1, DrainTypes
<1>3. /\ micro \in Nat /\ micro' = micro + 1 /\ micro + 1 \in 1 .. MaxMicrobatches
      /\ 1 .. micro' = (1 .. micro) \cup {micro + 1}
  BY <1>1, MicrobatchTypes
<1>4. accumulator.count \in Nat
  BY DEF Types
<1> QED
  BY <1>1, <1>2, <1>3, <1>4 DEF RunMicrobatch, Drain, setup

LEMMA InitAccounts == Init => WithinBounds /\ Setup /\ Accounts
<1> SUFFICES ASSUME Init PROVE WithinBounds /\ Setup /\ Accounts
  OBVIOUS
<1>1. accumulator.grads = <<>> /\ Held(accumulator.grads) = {}
  BY NoGradients DEF Init, Acc!Empty
<1>2. applied = <<>> /\ Steps = {}
  BY NoGradients DEF Init, Steps
<1> QED
  BY <1>1, <1>2 DEF Init, WithinBounds, Setup, Accounts

LEMMA BuilderAccounts ==
  ASSUME AccountInv,
         \/ Build
         \/ \E field \in DOMAIN builder : \E value \in Settings(field) : Configure(field, value)
  PROVE  (WithinBounds /\ Setup /\ Accounts)'
<1>1. UNCHANGED <<accumulator, norm, history>> /\ pc = "setup"
  BY DEF Build, Configure
<1> QED
  BY <1>1 DEF AccountInv, WithinBounds, Setup, Accounts, history, Steps

\* A micro-batch that is thrown away, with the window or without.
LEMMA DroppedAccounts ==
  ASSUME AccountInv, NEW given \in Presences, NEW n \in Norms,
         Overflow(given, n) \/ DrainPanics(given, n)
  PROVE  (WithinBounds /\ Setup /\ Accounts)'
<1>1. RunMicrobatch(given, n) /\ Types
  BY DEF Overflow, DrainPanics, AccountInv
<1>2. /\ micro \in Nat /\ micro' = micro + 1
      /\ 1 .. micro' = (1 .. micro) \cup {micro + 1}
  BY <1>1, MicrobatchTypes
<1>3. /\ window' \subseteq window /\ applied' = applied
      /\ dropped \subseteq dropped' /\ micro + 1 \in dropped'
      /\ dropped' \subseteq dropped \cup window \cup {micro + 1}
      /\ window' \cap dropped' \subseteq window' \cap (dropped \cup {micro + 1})
  BY DEF Overflow, DrainPanics
<1>4. infinite' \subseteq infinite \cup {micro + 1}
  BY <1>1 DEF RunMicrobatch
<1>5. pc' \in {"train", "torn"}
  BY <1>1 DEF Overflow, DrainPanics, RunMicrobatch
<1>6. micro + 1 \notin 1 .. micro
  BY <1>2
<1>7. Held(accumulator'.grads) \subseteq Held(accumulator.grads) \cup {micro + 1}
  <2>1. CASE Overflow(given, n)
    BY <2>1, NoGradients DEF Overflow, Acc!reset, Acc!Empty
  <2>2. CASE DrainPanics(given, n)
    BY <1>1, <2>2, PanicTypes
  <2> QED
    BY <2>1, <2>2
<1>8. WithinBounds'
  BY <1>2, <1>3, <1>7 DEF AccountInv, WithinBounds, Steps
<1>9. Setup'
  BY <1>5 DEF Setup
<1>10. Accounts'
  <2>1. infinite' \subseteq dropped'
    BY <1>3, <1>4 DEF AccountInv, Accounts
  <2>2. window' \cap dropped' = {}
    BY <1>1, <1>3, <1>6 DEF AccountInv, Accounts, Types
  <2>3. ASSUME NEW i \in Steps PROVE applied[i].window \cap (window' \cup dropped') = {}
    BY <1>3, <1>6 DEF AccountInv, Accounts, WithinBounds
  <2> QED
    BY <1>3, <2>1, <2>2, <2>3 DEF Accounts, Steps
<1> QED
  BY <1>8, <1>9, <1>10

LEMMA SummedAccounts ==
  ASSUME AccountInv, NEW given \in Presences, NEW n \in Norms, Accumulate(given, n) \/ Complete(given, n)
  PROVE  (WithinBounds /\ Setup /\ Accounts)'
<1>1. /\ micro \in Nat /\ micro' = micro + 1
      /\ 1 .. micro' = (1 .. micro) \cup {micro + 1}
      /\ Held(accumulator'.grads) \subseteq Held(accumulator.grads) \cup {micro + 1}
      /\ window' = window \cup {micro + 1}
      /\ applied' = applied /\ dropped' = dropped /\ infinite' = infinite
      /\ pc = "train"
  BY Summed DEF AccountInv
<1>2. micro + 1 \notin 1 .. micro
  BY <1>1
<1>3. WithinBounds'
  BY <1>1 DEF AccountInv, WithinBounds, Steps
<1>4. Setup'
  <2>1. pc' \in {"train", "extract", "dead"}
    BY <1>1 DEF Accumulate, Complete
  <2> QED
    BY <2>1 DEF Setup
<1>5. Accounts'
  <2>1. micro + 1 \notin dropped
    BY <1>2 DEF AccountInv, Types
  <2>2. \A i \in Steps : micro + 1 \notin applied[i].window
    BY <1>2 DEF AccountInv, WithinBounds
  <2> QED
    BY <1>1, <2>1, <2>2 DEF AccountInv, Accounts, Steps
<1> QED
  BY <1>3, <1>4, <1>5

LEMMA OptimizerAccounts ==
  ASSUME AccountInv, OptimizerStep
  PROVE  (WithinBounds /\ Setup /\ Accounts)'
<1>1. accumulator'.grads = <<>> /\ Held(accumulator'.grads) = {}
  BY OptimizerTypes, NoGradients DEF AccountInv
<1>2. /\ micro' = micro /\ dropped' = dropped /\ infinite' = infinite
      /\ pc' = "train" /\ norm' = 0 /\ window' = {}
  BY DEF OptimizerStep
<1>3. /\ Len(applied) \in Nat
      /\ Steps = 1 .. Len(applied) /\ Steps' = 1 .. Len(applied) + 1
      /\ \A i \in Steps : applied'[i] = applied[i]
      /\ applied'[Len(applied) + 1].grads = accumulator.grads
      /\ applied'[Len(applied) + 1].window = window
  BY AppliedStep DEF AccountInv
<1>4. \A i \in Steps' : i \in Steps \/ i = Len(applied) + 1
  BY <1>3
<1>5. WithinBounds'
  BY <1>1, <1>2, <1>3, <1>4 DEF AccountInv, WithinBounds, Types
<1>6. Setup'
  BY <1>2 DEF Setup
<1>7. Accounts'
  BY <1>2, <1>3, <1>4 DEF AccountInv, Accounts
<1> QED
  BY <1>5, <1>6, <1>7

LEMMA NextAccounts == AccountInv /\ [Next]_vars => AccountInv'
<1> SUFFICES ASSUME AccountInv, [Next]_vars PROVE AccountInv'
  OBVIOUS
<1>0. Types /\ WithinBounds
  BY DEF AccountInv
<1>1. ASSUME NEW field \in DOMAIN builder, NEW value \in Settings(field), Configure(field, value)
      PROVE  AccountInv'
  BY <1>0, <1>1, ConfigureTypes, BuilderAccounts DEF AccountInv
<1>2. CASE Build
  BY <1>0, <1>2, BuildTypes, BuilderAccounts DEF AccountInv
<1>3. ASSUME NEW given \in Presences, NEW n \in Norms,
             \/ DrainPanics(given, n) \/ Overflow(given, n)
             \/ Accumulate(given, n) \/ Complete(given, n)
      PROVE  AccountInv'
  <2>0. CASE DrainPanics(given, n)
    BY <2>0, PanicTypes, DroppedAccounts DEF AccountInv
  <2>1. CASE Overflow(given, n)
    BY <1>0, <2>1, OverflowTypes, DroppedAccounts DEF AccountInv
  <2>2. CASE Accumulate(given, n)
    BY <1>0, <2>2, AccumulateTypes, SummedAccounts DEF AccountInv
  <2>3. CASE Complete(given, n)
    BY <1>0, <2>3, CompleteTypes, SummedAccounts DEF AccountInv
  <2> QED
    BY <1>3, <2>0, <2>1, <2>2, <2>3
<1>4. CASE OptimizerStep
  BY <1>0, <1>4, OptimizerTypes, OptimizerAccounts DEF AccountInv
<1>5. ASSUME NEW initial \in InitialExponents, ResetScaler(initial)
      PROVE  AccountInv'
  <2>1. Types'
    BY <1>0, <1>5, ResetTypes
  <2>2. UNCHANGED <<accumulator, norm, pc, micro, infinite, window, applied, dropped>>
    BY <1>5 DEF ResetScaler
  <2> QED
    BY <2>1, <2>2 DEF AccountInv, WithinBounds, Setup, Accounts, Steps
<1>6. CASE UNCHANGED vars
  <2>1. Types'
    BY <1>0, <1>6, UnchangedTypes
  <2> QED
    BY <1>6, <2>1 DEF AccountInv, WithinBounds, Setup, Accounts, vars, history, Steps
<1> QED
  BY <1>1, <1>2, <1>3, <1>4, <1>5, <1>6 DEF Next

LEMMA AccountsHold == Spec => []AccountInv
<1>1. Init => AccountInv
  BY InitTypes, InitAccounts DEF AccountInv
<1> QED
  BY <1>1, NextAccounts, PTL DEF Spec

\* The types of a training run.
THEOREM TypeCorrect == Spec => []TypeOK
<1>1. Types /\ WithinBounds => TypeOK
  <2> SUFFICES ASSUME Types, WithinBounds PROVE TypeOK
    OBVIOUS
  <2>1. ASSUME NEW grads \in Gradients, Held(grads) \subseteq 1 .. micro
        PROVE  IsGradients(grads)
    <3>1. DOMAIN grads \subseteq Params /\ \A p \in DOMAIN grads : grads[p] \in Contributions
      BY GradientTypes
    <3>2. ASSUME NEW p \in DOMAIN grads PROVE grads[p] \in Seq(1 .. micro)
      <4>1. /\ Len(grads[p]) \in Nat
            /\ grads[p] \in [1 .. Len(grads[p]) -> 1 .. MaxMicrobatches]
        BY <3>1, LenProperties DEF Contributions
      <4>2. \A k \in 1 .. Len(grads[p]) : grads[p][k] \in Held(grads)
        BY <4>1 DEF Held, ToSet
      <4>3. grads[p] \in [1 .. Len(grads[p]) -> 1 .. micro]
        BY <2>1, <4>1, <4>2
      <4> QED
        BY <4>1, <4>3, SeqDef
    <3> QED
      BY <3>1, <3>2 DEF IsGradients
  <2>2. IsGradients(accumulator.grads)
    BY <2>1 DEF Types, WithinBounds
  <2>3. ASSUME NEW i \in Steps
        PROVE  /\ IsGradients(applied[i].grads)
               /\ applied[i].norm \in Nat /\ applied[i].rate \in Rates
               /\ applied[i].window \subseteq 1 .. micro
    <3>1. applied \in Seq(StepRecord) /\ i \in 1 .. Len(applied)
      BY LenProperties DEF Types, Steps
    <3>2. applied[i] \in StepRecord
      BY <3>1, ElementOfSeq
    <3> QED
      BY <2>1, <3>2 DEF StepRecord, WithinBounds
  <2> QED
    BY <2>2, <2>3 DEF Types, TypeOK, Steps
<1> QED
  BY <1>1, AccountsHold, PTL DEF AccountInv

\* No infinite gradient is ever summed or applied, and with it goes the window
\* it fell in (step.rs: the reset on an overflow).
THEOREM NothingInfinite == Spec => []InfiniteNeverApplied
<1>1. AccountInv => InfiniteNeverApplied
  BY DEF AccountInv, Accounts, InfiniteNeverApplied
<1> QED
  BY <1>1, AccountsHold, PTL
------------------------------------------------------------------------------
(* One scale in a window.                                                  *)

\* Two micro-batches ran under one scale, or the caller reset the scaler between
\* them.
OneScaleIn(micros) ==
  \A m, n \in micros :
    m < n /\ scaled_by[m] # scaled_by[n] => \E k \in rescaled : m <= k /\ k < n

\* While a window is filled the scale is the one its micro-batches were run
\* with, unless it was reset; the update comes with the last of them, or empties
\* the window.
Scales ==
  /\ pc = "train" =>
       \A m \in window : scaled_by[m] = exponent \/ \E k \in rescaled : m <= k
  /\ OneScaleIn(window)
  /\ \A i \in Steps : OneScaleIn(applied[i].window)

LEMMA InitScales == Init => Scales
<1> SUFFICES ASSUME Init PROVE Scales
  OBVIOUS
<1>1. applied = <<>> /\ Steps = {}
  BY NoGradients DEF Init, Steps
<1> QED
  BY <1>1 DEF Init, Scales, OneScaleIn

LEMMA NextScales == AccountInv /\ Scales /\ [Next]_vars => Scales'
<1> SUFFICES ASSUME AccountInv, Scales, [Next]_vars PROVE Scales'
  OBVIOUS
<1>0. Types /\ WithinBounds /\ Setup
  BY DEF AccountInv
<1>1. ASSUME NEW field \in DOMAIN builder, NEW value \in Settings(field), Configure(field, value)
      PROVE  Scales'
  BY <1>1 DEF Configure, Scales, OneScaleIn, scaler, history, Steps
<1>2. CASE Build
  <2>1. pc = "setup" /\ UNCHANGED history
    BY <1>2 DEF Build
  <2>2. window = {}
    BY <1>0, <2>1 DEF Setup, Types
  <2> QED
    BY <2>1, <2>2 DEF Scales, OneScaleIn, history, Steps
<1>3. ASSUME NEW given \in Presences, NEW n \in Norms,
             \/ DrainPanics(given, n) \/ Overflow(given, n)
             \/ Accumulate(given, n) \/ Complete(given, n)
      PROVE  Scales'
  <2>1. RunMicrobatch(given, n) /\ pc = "train" /\ applied' = applied
    BY <1>3 DEF DrainPanics, Overflow, Accumulate, Complete, RunMicrobatch, Drain
  <2>2. /\ micro \in Nat
        /\ \A m \in 1 .. micro : scaled_by'[m] = scaled_by[m]
        /\ scaled_by'[micro + 1] = exponent
        /\ rescaled' = rescaled /\ rescaled \subseteq 0 .. micro
    BY <1>0, <2>1, MicrobatchTypes DEF Types
  <2>3. \A i \in Steps : OneScaleIn(applied[i].window)'
    BY <1>0, <2>1, <2>2 DEF Scales, OneScaleIn, WithinBounds
  <2>4. CASE DrainPanics(given, n)
    <3>1. window' = window /\ pc' # "train"
      BY <2>4 DEF DrainPanics
    <3>2. OneScaleIn(window)'
      BY <1>0, <2>2, <3>1 DEF Scales, OneScaleIn, Types
    <3> QED
      BY <2>1, <2>3, <3>1, <3>2 DEF Scales, Steps
  <2>5. CASE Overflow(given, n)
    <3>1. window' = {}
      BY <2>5 DEF Overflow
    <3> QED
      BY <2>1, <2>3, <3>1 DEF Scales, OneScaleIn, Steps
  <2>6. CASE Accumulate(given, n) \/ Complete(given, n)
    <3>1. window' = window \cup {micro + 1} /\ window \subseteq 1 .. micro
      BY <1>0, <2>6, Summed DEF Types
    <3>2. \A m \in window : scaled_by'[m] = exponent \/ \E k \in rescaled' : m <= k
      BY <2>1, <2>2, <3>1 DEF Scales
    <3>3. pc' = "train" => exponent' = exponent
      BY <2>6 DEF Accumulate, Complete, scaler
    <3>4. OneScaleIn(window)'
      <4> SUFFICES ASSUME NEW m \in window', NEW k \in window', m < k,
                          scaled_by'[m] # scaled_by'[k]
                   PROVE  \E r \in rescaled' : m <= r /\ r < k
        BY DEF OneScaleIn
      <4>1. m \in window
        BY <2>2, <3>1
      <4>2. CASE k \in window
        BY <2>2, <3>1, <4>1, <4>2 DEF Scales, OneScaleIn
      <4>3. CASE k = micro + 1
        <5>1. PICK r \in rescaled' : m <= r
          BY <2>2, <3>2, <4>1, <4>3
        <5>2. r < k
          BY <2>2, <4>3
        <5> QED
          BY <5>1, <5>2
      <4> QED
        BY <3>1, <4>2, <4>3
    <3> QED
      BY <2>1, <2>2, <2>3, <3>1, <3>2, <3>3, <3>4 DEF Scales, Steps
  <2> QED
    BY <1>3, <2>4, <2>5, <2>6
<1>4. CASE OptimizerStep
  <2>1. window' = {} /\ scaled_by' = scaled_by /\ rescaled' = rescaled
    BY <1>4 DEF OptimizerStep
  <2>2. /\ Len(applied) \in Nat
        /\ Steps = 1 .. Len(applied) /\ Steps' = 1 .. Len(applied) + 1
        /\ \A i \in Steps : applied'[i] = applied[i]
        /\ applied'[Len(applied) + 1].window = window
    BY <1>0, <1>4, AppliedStep
  <2>3. \A i \in Steps' : i \in Steps \/ i = Len(applied) + 1
    BY <2>2
  <2> QED
    BY <2>1, <2>2, <2>3 DEF Scales, OneScaleIn
<1>5. ASSUME NEW initial \in InitialExponents, ResetScaler(initial)
      PROVE  Scales'
  <2>1. /\ UNCHANGED <<micro, scaled_by, window, applied>>
        /\ rescaled \subseteq rescaled' /\ micro \in rescaled'
    BY <1>5 DEF ResetScaler
  <2>2. \A m \in window : m <= micro
    BY <1>0 DEF Types
  <2> QED
    BY <2>1, <2>2 DEF Scales, OneScaleIn, Steps
<1>6. CASE UNCHANGED vars
  BY <1>6 DEF Scales, OneScaleIn, vars, scaler, history, Steps
<1> QED
  BY <1>1, <1>2, <1>3, <1>4, <1>5, <1>6 DEF Next

\* The micro-batches summed together ran under one loss scale (step.rs: the
\* scale is updated once the window is complete, or dropped), but where the
\* caller reset the scaler between two of them (loss_scale.rs: reset).
THEOREM OneScale == Spec => []OneScalePerStep
<1>1. Scales => OneScalePerStep
  BY DEF Scales, OneScaleIn, OneScalePerStep
<1> QED
  BY <1>1, AccountsHold, InitScales, NextScales, PTL DEF Spec
------------------------------------------------------------------------------
(* The norm of a step.                                                     *)

\* What a step's norm is held to.
Bounded(n) ==
  IF training_config.clip_grad_norm > 0 THEN n <= training_config.clip_grad_norm
  ELSE training_config.accumulation_steps = 1 => n <= NormCap

\* In a window of one micro-batch nothing is summed before it.
NormsBounded ==
  /\ pc = "train" /\ training_config.accumulation_steps = 1 => norm = 0
  /\ pc = "extract" => Bounded(norm)
  /\ \A i \in Steps : Bounded(applied[i].norm)

LEMMA InitNorms == Init => NormsBounded
<1> SUFFICES ASSUME Init PROVE NormsBounded
  OBVIOUS
<1>1. applied = <<>> /\ Steps = {}
  BY NoGradients DEF Init, Steps
<1> QED
  BY <1>1 DEF Init, NormsBounded

LEMMA NextNorms == AccountInv /\ NormsBounded /\ [Next]_vars => NormsBounded'
<1> SUFFICES ASSUME AccountInv, NormsBounded, [Next]_vars PROVE NormsBounded'
  OBVIOUS
<1>0. /\ Types /\ Setup /\ NormCap \in Nat /\ norm \in Nat /\ accumulator.count \in Nat
      /\ training_config.clip_grad_norm \in Nat /\ training_config.accumulation_steps \in Nat
  <2>1. training_config \in Configs
    BY ConfigTypes DEF AccountInv, Types
  <2> QED
    BY <2>1, TrainStepAssumption DEF AccountInv, Types, Configs
<1>1. ASSUME NEW field \in DOMAIN builder, NEW value \in Settings(field), Configure(field, value)
      PROVE  NormsBounded'
  BY <1>1 DEF Configure, NormsBounded, Bounded, history, Steps
<1>2. CASE Build
  <2>1. pc = "setup" /\ UNCHANGED <<norm, history>> /\ pc' \in {"train", "refused"}
    BY <1>2 DEF Build
  <2>2. norm = 0 /\ applied = <<>>
    BY <1>0, <2>1 DEF Setup
  <2>3. applied' = <<>> /\ DOMAIN applied' = {}
    BY <2>1, <2>2, NoGradients DEF history
  <2> QED
    BY <2>1, <2>2, <2>3 DEF NormsBounded, Steps
<1>3. ASSUME NEW given \in Presences, NEW n \in Norms,
             \/ DrainPanics(given, n) \/ Overflow(given, n)
             \/ Accumulate(given, n) \/ Complete(given, n)
      PROVE  NormsBounded'
  <2>1. /\ pc = "train" /\ applied' = applied /\ training_config' = training_config
        /\ n \in Nat
    BY <1>3, TrainStepAssumption
       DEF DrainPanics, Overflow, Accumulate, Complete, RunMicrobatch, Drain, setup
  <2>2. \A i \in Steps : Bounded(applied[i].norm)'
    BY <2>1 DEF NormsBounded, Bounded
  <2>0. CASE DrainPanics(given, n)
    <3>1. pc' = "torn"
      BY <2>0 DEF DrainPanics
    <3> QED
      BY <2>1, <2>2, <3>1 DEF NormsBounded, Steps
  <2>3. CASE Overflow(given, n)
    <3>1. norm' = 0 /\ pc' = "train"
      BY <2>1, <2>3 DEF Overflow
    <3> QED
      BY <2>1, <2>2, <3>1 DEF NormsBounded, Steps
  <2>4. CASE Accumulate(given, n)
    <3>1. accumulator'.count = accumulator.count + 1
      BY <1>0, <2>4, Summed
    <3>2. training_config.accumulation_steps # 1 /\ pc' = "train"
      BY <1>0, <2>1, <2>4, <3>1 DEF Accumulate
    <3> QED
      BY <2>1, <2>2, <3>2 DEF NormsBounded, Steps
  <2>5. CASE Complete(given, n)
    <3>0. PICK total \in NormsWith(given, n) : norm' = Clipped(total)
      BY <2>5 DEF Complete
    <3>1. n <= NormCap /\ pc' # "train" /\ total \in Nat /\ total <= norm + n
      BY <1>0, <2>1, <2>5, NormTypes DEF Complete, is_infinite
    <3>2. training_config.accumulation_steps = 1 => total <= NormCap
      BY <1>0, <2>1, <3>1 DEF NormsBounded
    <3>3. Bounded(norm')
      BY <1>0, <2>1, <3>0, <3>1, <3>2 DEF Bounded, Clipped, clip_grad_norm
    <3>4. Bounded(norm)'
      BY <2>1, <3>3 DEF Bounded
    <3> QED
      BY <2>1, <2>2, <3>1, <3>4 DEF NormsBounded, Steps
  <2> QED
    BY <1>3, <2>0, <2>3, <2>4, <2>5
<1>4. CASE OptimizerStep
  <2>1. norm' = 0 /\ pc = "extract" /\ pc' = "train" /\ training_config' = training_config
    BY <1>4 DEF OptimizerStep, setup
  <2>2. /\ Len(applied) \in Nat
        /\ Steps = 1 .. Len(applied) /\ Steps' = 1 .. Len(applied) + 1
        /\ \A i \in Steps : applied'[i] = applied[i]
        /\ applied'[Len(applied) + 1].norm = norm
    BY <1>0, <1>4, AppliedStep
  <2>3. \A i \in Steps' : i \in Steps \/ i = Len(applied) + 1
    BY <2>2
  <2>4. ASSUME NEW i \in Steps' PROVE Bounded(applied'[i].norm)
    BY <2>1, <2>2, <2>3 DEF NormsBounded
  <2> QED
    BY <2>1, <2>4 DEF NormsBounded, Bounded
<1>5. ASSUME NEW initial \in InitialExponents, ResetScaler(initial)
      PROVE  NormsBounded'
  BY <1>5 DEF ResetScaler, NormsBounded, Bounded, setup, Steps
<1>6. CASE UNCHANGED vars
  BY <1>6 DEF NormsBounded, Bounded, vars, setup, history, Steps
<1> QED
  BY <1>1, <1>2, <1>3, <1>4, <1>5, <1>6 DEF Next

\* A clipped step is no larger than the maximum norm, and no step of a single
\* micro-batch is infinite (step.rs: apply_clip_norm after the overflow test).
THEOREM NormOfAStep == Spec => []StepsAreBounded
<1>1. NormsBounded => StepsAreBounded
  BY DEF NormsBounded, Bounded, StepsAreBounded
<1> QED
  BY <1>1, AccountsHold, InitNorms, NextNorms, PTL DEF Spec
------------------------------------------------------------------------------
(* The warm-up.                                                            *)

\* The optimizer is one step behind train_step only while it is called.
Ramped ==
  /\ pc \in {"setup", "refused"} => global_step = 0
  /\ pc # "dead" => Len(applied) = IF pc = "extract" THEN global_step - 1 ELSE global_step
  /\ pc = "extract" => learning_rate = warmup_rate(global_step - 1)
  /\ \A i \in Steps : applied[i].rate = warmup_rate(i - 1)

LEMMA InitRamped == Init => Ramped
<1> SUFFICES ASSUME Init PROVE Ramped
  OBVIOUS
<1>1. applied = <<>> /\ Steps = {} /\ Len(applied) = 0
  BY NoGradients, EmptySeq DEF Init, Steps
<1> QED
  BY <1>1 DEF Init, Ramped

LEMMA NextRamped == AccountInv /\ Ramped /\ [Next]_vars => Ramped'
<1> SUFFICES ASSUME AccountInv, Ramped, [Next]_vars PROVE Ramped'
  OBVIOUS
<1>0. Types /\ Setup /\ global_step \in Nat
  BY DEF AccountInv, Types
<1>1. ASSUME NEW field \in DOMAIN builder, NEW value \in Settings(field), Configure(field, value)
      PROVE  Ramped'
  BY <1>1 DEF Configure, Ramped, warmup_rate, history, Steps
<1>2. CASE Build
  <2>1. /\ pc = "setup" /\ UNCHANGED <<global_step, learning_rate, history>>
        /\ pc' \in {"train", "refused"}
    BY <1>2 DEF Build
  <2>2. global_step = 0 /\ applied = <<>> /\ Len(applied) = 0
    BY <1>0, <2>1, EmptySeq DEF Setup, Ramped
  <2>3. applied' = <<>> /\ DOMAIN applied' = {} /\ Len(applied') = 0 /\ global_step' = 0
    BY <2>1, <2>2, NoGradients, EmptySeq DEF history
  <2> QED
    BY <2>1, <2>3 DEF Ramped, Steps
<1>3. ASSUME NEW given \in Presences, NEW n \in Norms,
             \/ DrainPanics(given, n) \/ Overflow(given, n)
             \/ Accumulate(given, n) \/ Complete(given, n)
      PROVE  Ramped'
  <2>1. pc = "train" /\ applied' = applied /\ training_config' = training_config
    BY <1>3 DEF DrainPanics, Overflow, Accumulate, Complete, RunMicrobatch, Drain, setup
  <2>2. \A step : warmup_rate(step)' = warmup_rate(step)
    BY <2>1 DEF warmup_rate
  <2>3. \A i \in Steps : applied[i].rate = warmup_rate(i - 1)'
    BY <2>1 DEF Ramped, warmup_rate
  <2>4. CASE DrainPanics(given, n) \/ Overflow(given, n) \/ Accumulate(given, n)
    <3>1. global_step' = global_step /\ pc' \in {"train", "torn"}
      BY <2>1, <2>4 DEF DrainPanics, Overflow, Accumulate
    <3> QED
      BY <2>1, <2>3, <3>1 DEF Ramped, Steps
  <2>5. CASE Complete(given, n)
    <3>1. /\ global_step' = global_step + 1 /\ pc' \in {"extract", "dead"}
          /\ learning_rate' = warmup_rate(global_step)
      BY <2>5 DEF Complete
    <3>2. global_step' - 1 = global_step
      BY <1>0, <3>1
    <3>3. learning_rate' = warmup_rate(global_step - 1)'
      BY <2>1, <3>1, <3>2 DEF warmup_rate
    <3>4. Len(applied') = global_step' - 1
      BY <2>1, <3>2 DEF Ramped
    <3> QED
      BY <2>1, <2>3, <3>1, <3>3, <3>4 DEF Ramped, Steps
  <2> QED
    BY <1>3, <2>4, <2>5
<1>4. CASE OptimizerStep
  <2>1. /\ pc = "extract" /\ pc' = "train" /\ training_config' = training_config
        /\ global_step' = global_step
    BY <1>4 DEF OptimizerStep, setup
  <2>2. /\ Len(applied) \in Nat /\ applied' \in Seq(StepRecord)
        /\ Steps = 1 .. Len(applied) /\ Steps' = 1 .. Len(applied) + 1
        /\ \A i \in Steps : applied'[i] = applied[i]
        /\ applied'[Len(applied) + 1].rate = learning_rate
    BY <1>0, <1>4, AppliedStep
  <2>3. Len(applied) = global_step - 1 /\ learning_rate = warmup_rate(global_step - 1)
    BY <2>1 DEF Ramped
  <2>4. Len(applied') = Len(applied) + 1
    BY <1>0, <1>4, AppliedStep
  <2>5. Len(applied') = global_step'
    BY <1>0, <2>1, <2>3, <2>4
  <2>6. ASSUME NEW i \in Steps' PROVE applied'[i].rate = warmup_rate(i - 1)
    <3>1. CASE i \in Steps
      BY <2>2, <3>1 DEF Ramped
    <3>2. CASE i = Len(applied) + 1
      <4>1. i - 1 = global_step - 1
        BY <2>2, <2>3, <3>2
      <4> QED
        BY <2>2, <2>3, <3>2, <4>1
    <3> QED
      BY <2>2, <3>1, <3>2
  <2>7. \A i \in Steps' : applied'[i].rate = warmup_rate(i - 1)'
    BY <2>1, <2>6 DEF warmup_rate
  <2> QED
    BY <2>1, <2>5, <2>7 DEF Ramped
<1>5. ASSUME NEW initial \in InitialExponents, ResetScaler(initial)
      PROVE  Ramped'
  BY <1>5 DEF ResetScaler, Ramped, warmup_rate, setup, Steps
<1>6. CASE UNCHANGED vars
  BY <1>6 DEF Ramped, warmup_rate, vars, setup, history, Steps
<1> QED
  BY <1>1, <1>2, <1>3, <1>4, <1>5, <1>6 DEF Next

\* The learning rate rises with the optimizer steps, whatever falls between them
\* (step.rs: compute_learning_rate of the steps taken before).
THEOREM WarmupRamp == Spec => []RampFollowsSteps
<1>1. AccountInv /\ Ramped => RampFollowsSteps
  <2> SUFFICES ASSUME AccountInv, Ramped, NEW i \in Steps
               PROVE  LET part == applied[i].rate
                          warmup == training_config.warmup_steps
                      IN  IF i <= warmup THEN part[1] * warmup = (i - 1) * part[2]
                          ELSE part[1] = part[2]
    BY DEF RampFollowsSteps
  <2>1. applied[i].rate = warmup_rate(i - 1)
    BY DEF Ramped
  <2>2. training_config.warmup_steps \in Nat
    <3>1. training_config \in Configs
      BY ConfigTypes DEF AccountInv, Types
    <3> QED
      BY <3>1 DEF Configs
  <2>3. i \in Nat /\ i >= 1
    <3>1. Len(applied) \in Nat /\ DOMAIN applied = 1 .. Len(applied)
      BY LenProperties DEF AccountInv, Types
    <3> QED
      BY <3>1 DEF Steps
  <2>4. CASE i <= training_config.warmup_steps
    <3>1. warmup_rate(i - 1) = <<i - 1, training_config.warmup_steps>>
      BY <2>2, <2>3, <2>4 DEF warmup_rate
    <3> QED
      BY <2>1, <2>4, <3>1
  <2>5. CASE ~(i <= training_config.warmup_steps)
    <3>1. warmup_rate(i - 1) = <<1, 1>>
      BY <2>2, <2>3, <2>5 DEF warmup_rate
    <3> QED
      BY <2>1, <2>5, <3>1
  <2> QED
    BY <2>4, <2>5
<1> QED
  BY <1>1, AccountsHold, InitRamped, NextRamped, PTL DEF Spec
------------------------------------------------------------------------------
(* The growth of the scale.                                                *)

\* With the clean updates counted since the last growth as parts of the next one.
\* A scaler that grows at every update has an interval of 0 or of 1.
Grown(initial) ==
  IF growth_interval = 0 THEN exponent <= initial + global_step
  ELSE exponent * growth_interval + growth_counter <= initial * growth_interval + global_step

Growths ==
  \A initial \in InitialExponents \cup {0} :
    (\A e \in InitialExponents : e <= initial) => Grown(initial)

\* Before training begins the scaler is static, with a scale of 1.
Unscaled ==
  pc \in {"setup", "refused"} =>
    global_step = 0 /\ exponent = 0 /\ growth_counter = 0 /\ growth_interval = 0

LEMMA Product ==
  ASSUME NEW a \in Nat, NEW b \in Nat
  PROVE  a * b \in Nat
OBVIOUS

LEMMA TimesMonotone ==
  ASSUME NEW a \in Nat, NEW b \in Nat, NEW k \in Nat, a <= b
  PROVE  a * k <= b * k
<1>1. PICK d \in Nat : b = a + d
  <2>1. b - a \in Nat /\ b = a + (b - a)
    OBVIOUS
  <2> QED
    BY <2>1
<1>2. (a + d) * k = a * k + d * k
  OBVIOUS
<1>3. d * k \in Nat /\ a * k \in Nat
  OBVIOUS
<1> QED
  BY <1>1, <1>2, <1>3

\* The arithmetic of a growth from e to f, of a step without one, and of a fall.
LEMMA GrowthCounted ==
  ASSUME NEW e \in Nat, NEW f \in Nat, NEW i \in Nat, NEW k \in Nat, NEW c \in Nat, NEW n \in Nat,
         f <= e + 1, c + 1 >= k, e * k + c <= i * k + n
  PROVE  f * k + 0 <= i * k + (n + 1)
<1>1. e + 1 \in Nat
  OBVIOUS
<1>2. f * k <= (e + 1) * k
  BY <1>1, TimesMonotone
<1>3. (e + 1) * k = e * k + k
  OBVIOUS
<1>4. f * k \in Nat /\ e * k \in Nat /\ i * k \in Nat
  BY Product
<1> DEFINE fk == f * k
           ek == e * k
           ik == i * k
<1>5. fk <= ek + k /\ ek + c <= ik + n
  BY <1>2, <1>3
<1>6. fk \in Nat /\ ek \in Nat /\ ik \in Nat
  BY <1>4
<1> HIDE DEF fk, ek, ik
<1>7. fk + 0 <= ik + (n + 1)
  BY <1>5, <1>6
<1> QED
  BY <1>7 DEF fk, ik

LEMMA StepCounted ==
  ASSUME NEW e \in Nat, NEW i \in Nat, NEW k \in Nat, NEW c \in Nat, NEW d \in Nat, NEW n \in Nat,
         d <= c + 1, e * k + c <= i * k + n
  PROVE  e * k + d <= i * k + (n + 1)
<1> DEFINE ek == e * k
           ik == i * k
<1>1. ek \in Nat /\ ik \in Nat /\ ek + c <= ik + n
  BY Product
<1> HIDE DEF ek, ik
<1>2. ek + d <= ik + (n + 1)
  BY <1>1
<1> QED
  BY <1>2 DEF ek, ik

LEMMA StartCounted ==
  ASSUME NEW e \in Nat, NEW i \in Nat, NEW k \in Nat, e <= i
  PROVE  e * k + 0 <= i * k + 0
<1> DEFINE ek == e * k
           ik == i * k
<1>1. ek \in Nat /\ ik \in Nat /\ ek <= ik
  BY Product, TimesMonotone
<1> HIDE DEF ek, ik
<1>2. ek + 0 <= ik + 0
  BY <1>1
<1> QED
  BY <1>2 DEF ek, ik

LEMMA FallCounted ==
  ASSUME NEW e \in Nat, NEW f \in Nat, NEW i \in Nat, NEW k \in Nat, NEW c \in Nat, NEW n \in Nat,
         f <= e \/ f <= i, e * k + c <= i * k + n
  PROVE  f * k + 0 <= i * k + n
<1> DEFINE fk == f * k
           ek == e * k
           ik == i * k
<1>1. fk <= ek \/ fk <= ik
  BY TimesMonotone
<1>2. fk \in Nat /\ ek \in Nat /\ ik \in Nat /\ ek + c <= ik + n
  BY Product
<1> HIDE DEF fk, ek, ik
<1>3. fk + 0 <= ik + n
  BY <1>1, <1>2
<1> QED
  BY <1>3 DEF fk, ik

\* One clean update.
LEMMA CleanGrows ==
  ASSUME Types, NEW initial \in Nat, Grown(initial), Scaler!Update(FALSE),
         global_step' = global_step + 1
  PROVE  Grown(initial)'
<1>0. /\ growth_interval \in Nat /\ growth_counter \in Nat /\ exponent \in Nat /\ global_step \in Nat
      /\ growth_counter = 0 \/ growth_counter < growth_interval
      /\ growth_interval' = growth_interval
  BY TrainStepAssumption DEF Types, Scaler!TypeOK, Scaler!Inf, Scaler!Update
<1>1. CASE UNCHANGED <<exponent, growth_counter>>
  BY <1>0, <1>1, StepCounted DEF Grown
<1>2. CASE Scaler!Clean
  <2>1. CASE growth_counter + 1 >= growth_interval
    <3>1. exponent' \in Nat /\ exponent' <= exponent + 1 /\ growth_counter' = 0
      BY <1>0, <1>2, <2>1 DEF Scaler!Clean, Scaler!Doubled
    <3>2. CASE growth_interval = 0
      BY <1>0, <3>1, <3>2 DEF Grown
    <3>3. CASE growth_interval # 0
      <4>1. exponent * growth_interval + growth_counter <= initial * growth_interval + global_step
        BY <3>3 DEF Grown
      <4>2. exponent' * growth_interval + 0 <= initial * growth_interval + (global_step + 1)
        BY <1>0, <2>1, <3>1, <3>3, <4>1, GrowthCounted
      <4> QED
        BY <1>0, <3>1, <3>3, <4>2 DEF Grown
    <3> QED
      BY <3>2, <3>3
  <2>2. CASE ~(growth_counter + 1 >= growth_interval)
    <3>1. exponent' = exponent /\ growth_counter' = growth_counter + 1 /\ growth_interval # 0
      BY <1>0, <1>2, <2>2 DEF Scaler!Clean
    <3> QED
      BY <1>0, <3>1, StepCounted DEF Grown
  <2> QED
    BY <2>1, <2>2
<1> QED
  BY <1>1, <1>2 DEF Scaler!Update

\* The scale falls, or starts again.
LEMMA Lowered ==
  ASSUME Types, NEW initial \in Nat, Grown(initial),
         exponent' \in Nat, exponent' <= exponent \/ exponent' <= initial,
         growth_counter' = 0,
         growth_interval' = growth_interval, global_step' = global_step
  PROVE  Grown(initial)'
<1>0. /\ growth_interval \in Nat /\ growth_counter \in Nat /\ exponent \in Nat /\ global_step \in Nat
  BY TrainStepAssumption DEF Types, Scaler!TypeOK, Scaler!Inf
<1>1. CASE growth_interval = 0
  BY <1>0, <1>1 DEF Grown
<1>2. CASE growth_interval # 0
  <2>1. exponent * growth_interval + growth_counter <= initial * growth_interval + global_step
    BY <1>2 DEF Grown
  <2>2. exponent' * growth_interval + 0 <= initial * growth_interval + global_step
    BY <1>0, <2>1, FallCounted
  <2> QED
    BY <1>2, <2>2 DEF Grown
<1> QED
  BY <1>1, <1>2

LEMMA InitGrowths == Init => Growths /\ Unscaled
<1> SUFFICES ASSUME Init PROVE Growths /\ Unscaled
  OBVIOUS
<1>1. InitialExponents \cup {0} \subseteq Nat
  BY TrainStepAssumption
<1> QED
  BY <1>1 DEF Init, Growths, Grown, Unscaled

LEMMA NextGrowths == AccountInv /\ Growths /\ Unscaled /\ [Next]_vars => (Growths /\ Unscaled)'
<1> SUFFICES ASSUME AccountInv, Growths, Unscaled, [Next]_vars PROVE (Growths /\ Unscaled)'
  OBVIOUS
<1>0. Types /\ exponent \in Nat /\ InitialExponents \cup {0} \subseteq Nat
  BY TrainStepAssumption DEF AccountInv, Types, Scaler!TypeOK, Scaler!Inf
<1>1. ASSUME NEW field \in DOMAIN builder, NEW value \in Settings(field), Configure(field, value)
      PROVE  (Growths /\ Unscaled)'
  BY <1>1 DEF Configure, Growths, Grown, Unscaled, scaler
<1>2. CASE Build
  <2>1. pc = "setup" /\ global_step' = global_step /\ global_step = 0
    BY <1>2 DEF Build, Unscaled
  <2>2. CASE build(builder) = "Ok"
    <3>1. pc' = "train" /\ loss_scaler_from_config(PrecisionOf(builder))
      BY <1>2, <2>2 DEF Build
    <3>2. /\ exponent' \in InitialExponents \cup {0}
          /\ growth_counter' = 0 /\ growth_interval' \in Nat
      <4>1. GrowthIntervals \subseteq Nat
        BY TrainStepAssumption
      <4>2. CASE PrecisionOf(builder) = "Dynamic"
        BY <3>1, <4>1, <4>2 DEF loss_scaler_from_config
      <4>3. CASE PrecisionOf(builder) # "Dynamic"
        BY <3>1, <4>3 DEF loss_scaler_from_config
      <4> QED
        BY <4>2, <4>3
    <3>3. ASSUME NEW initial \in InitialExponents \cup {0},
                 \A e \in InitialExponents : e <= initial
          PROVE  Grown(initial)'
      <4>1. initial \in Nat /\ exponent' \in Nat /\ exponent' <= initial
        BY <1>0, <3>2, <3>3
      <4>2. exponent' * growth_interval' + 0 <= initial * growth_interval' + 0
        BY <3>2, <4>1, StartCounted
      <4>3. exponent' <= initial + 0
        BY <4>1
      <4>4. growth_counter' = 0 /\ global_step' = 0
        BY <2>1, <3>2
      <4> QED
        BY <4>2, <4>3, <4>4 DEF Grown
    <3> QED
      BY <3>1, <3>3 DEF Growths, Unscaled
  <2>3. CASE build(builder) # "Ok"
    BY <1>2, <2>1, <2>3 DEF Build, Growths, Grown, Unscaled, scaler
  <2> QED
    BY <2>2, <2>3
<1>3. ASSUME NEW given \in Presences, NEW n \in Norms,
             \/ DrainPanics(given, n) \/ Overflow(given, n)
             \/ Accumulate(given, n) \/ Complete(given, n)
      PROVE  (Growths /\ Unscaled)'
  <2>1. pc' \in {"train", "extract", "dead", "torn"}
    BY <1>3 DEF DrainPanics, Overflow, Accumulate, Complete, RunMicrobatch
  <2>2. Unscaled'
    BY <2>1 DEF Unscaled
  <2>3. CASE Overflow(given, n)
    <3>1. Scaler!Update(TRUE) /\ global_step' = global_step
      BY <2>3 DEF Overflow
    <3>2. CASE mode = "static"
      BY <3>1, <3>2, <2>2 DEF Scaler!Update, Growths, Grown
    <3>3. CASE mode # "static"
      <4>1. /\ exponent' \in Nat /\ exponent' <= exponent /\ growth_counter' = 0
            /\ growth_interval' = growth_interval
        BY <1>0, <3>1, <3>3 DEF Scaler!Update, Scaler!Overflowed, Scaler!Halved
      <4>2. \A initial \in InitialExponents \cup {0} : Grown(initial) => Grown(initial)'
        BY <1>0, <3>1, <4>1, Lowered
      <4> QED
        BY <2>2, <4>2 DEF Growths
    <3> QED
      BY <3>2, <3>3
  <2>4. CASE DrainPanics(given, n) \/ Accumulate(given, n)
    BY <2>2, <2>4 DEF DrainPanics, Accumulate, Growths, Grown, scaler
  <2>5. CASE Complete(given, n)
    <3>1. Scaler!Update(FALSE) /\ global_step' = global_step + 1
      BY <2>5 DEF Complete
    <3>2. \A initial \in InitialExponents \cup {0} : Grown(initial) => Grown(initial)'
      BY <1>0, <3>1, CleanGrows
    <3> QED
      BY <2>2, <3>2 DEF Growths
  <2> QED
    BY <1>3, <2>3, <2>4, <2>5
<1>4. CASE OptimizerStep
  BY <1>4 DEF OptimizerStep, Growths, Grown, Unscaled, scaler
<1>5. ASSUME NEW initial \in InitialExponents, ResetScaler(initial)
      PROVE  (Growths /\ Unscaled)'
  <2>1. /\ exponent' = initial /\ growth_counter' = 0 /\ growth_interval' = growth_interval
        /\ global_step' = global_step /\ pc' = pc /\ pc \in {"train", "extract"}
    BY <1>5 DEF ResetScaler, Scaler!Reset
  <2>2. ASSUME NEW bound \in InitialExponents \cup {0},
               \A e \in InitialExponents : e <= bound
        PROVE  Grown(bound)'
    <3>1. Grown(bound) /\ bound \in Nat /\ exponent' \in Nat /\ exponent' <= bound
      BY <1>0, <2>1, <2>2 DEF Growths
    <3> QED
      BY <1>0, <2>1, <3>1, Lowered
  <2> QED
    BY <2>1, <2>2 DEF Growths, Unscaled
<1>6. CASE UNCHANGED vars
  BY <1>6 DEF Growths, Grown, Unscaled, vars, scaler
<1> QED
  BY <1>1, <1>2, <1>3, <1>4, <1>5, <1>6 DEF Next

\* The largest whole number of intervals in a number of steps.
LEMMA Quotient ==
  ASSUME NEW a \in Int, NEW n \in Nat, NEW k \in Nat, k > 0, a * k <= n
  PROVE  a <= n \div k
<1>1. n = k * (n \div k) + (n % k) /\ (n % k) < k /\ n \div k \in Nat
  BY Z3
<1> DEFINE q == n \div k
<1>2. q \in Nat /\ n < k * q + k
  BY <1>1
<1> HIDE DEF q
<1>3. SUFFICES ASSUME ~(a <= q) PROVE FALSE
  BY DEF q
<1>4. q + 1 \in Nat /\ a \in Nat /\ q + 1 <= a
  BY <1>2, <1>3
<1>5. (q + 1) * k <= a * k
  BY <1>4, TimesMonotone
<1>6. (q + 1) * k = k * q + k
  BY <1>2
<1>7. a * k \in Nat /\ k * q \in Nat
  BY <1>2, <1>4
<1> QED
  BY <1>2, <1>5, <1>6, <1>7

\* The scale grows once per growth_interval optimizer steps at most
\* (loss_scale.rs: update; step.rs: one clean update per step).
THEOREM SlowGrowth == Spec => []GrowthIsSlow
<1>1. AccountInv /\ Growths => GrowthIsSlow
  <2> SUFFICES ASSUME AccountInv, Growths, NEW initial \in InitialExponents \cup {0},
                      \A e \in InitialExponents : e <= initial
               PROVE  exponent <= initial +
                        (IF growth_interval = 0 THEN global_step ELSE global_step \div growth_interval)
    BY DEF GrowthIsSlow
  <2>1. /\ growth_interval \in Nat /\ growth_counter \in Nat /\ exponent \in Nat
        /\ global_step \in Nat /\ initial \in Nat
    BY TrainStepAssumption DEF AccountInv, Types, Scaler!TypeOK, Scaler!Inf
  <2>2. Grown(initial)
    BY DEF Growths
  <2>3. CASE growth_interval = 0
    BY <2>2, <2>3 DEF Grown
  <2>4. CASE growth_interval # 0
    <3>1. exponent * growth_interval + growth_counter <= initial * growth_interval + global_step
      BY <2>2, <2>4 DEF Grown
    <3>2. (exponent - initial) * growth_interval = exponent * growth_interval - initial * growth_interval
      BY <2>1
    <3>3. exponent * growth_interval \in Nat /\ initial * growth_interval \in Nat
      BY <2>1
    <3>4. (exponent - initial) * growth_interval <= global_step
      BY <2>1, <3>1, <3>2, <3>3
    <3>5. exponent - initial <= global_step \div growth_interval
      BY <2>1, <2>4, <3>4, Quotient
    <3>6. global_step \div growth_interval \in Int
      BY <2>1, <2>4
    <3> QED
      BY <2>1, <2>4, <3>5, <3>6
  <2> QED
    BY <2>3, <2>4
<1> QED
  BY <1>1, AccountsHold, InitGrowths, NextGrowths, PTL DEF Spec
------------------------------------------------------------------------------
(* Whole windows.                                                          *)

\* n micro-batches, up to the last.
LastOnes(last, n) == (last - n + 1) .. last

\* The window is of the last micro-batches, as many as were counted, and fewer of
\* them than a window has until it is complete.
Filled ==
  /\ pc = "setup" => accumulator.count = 0
  /\ pc = "train" => /\ window = LastOnes(micro, accumulator.count)
                     /\ accumulator.count < training_config.accumulation_steps
  /\ pc = "extract" => /\ window = LastOnes(micro, training_config.accumulation_steps)
                       /\ micro >= 1 /\ 0 < training_config.accumulation_steps
  /\ \A i \in Steps : \E last \in 1 .. micro :
       applied[i].window = LastOnes(last, training_config.accumulation_steps)

LEMMA InitFilled == Init => Filled
<1> SUFFICES ASSUME Init PROVE Filled
  OBVIOUS
<1>1. applied = <<>> /\ Steps = {}
  BY NoGradients DEF Init, Steps
<1> QED
  BY <1>1 DEF Init, Filled, Acc!Empty

LEMMA OneMore ==
  ASSUME NEW last \in Nat, NEW n \in Nat, n <= last
  PROVE  LastOnes(last, n) \cup {last + 1} = LastOnes(last + 1, n + 1)
BY DEF LastOnes

LEMMA NextFilled ==
  ASSUME CallerResets
  PROVE  AccountInv /\ Filled /\ [Next]_vars => Filled'
<1> SUFFICES ASSUME AccountInv, Filled, [Next]_vars PROVE Filled'
  OBVIOUS
<1>0. /\ Types /\ WithinBounds /\ Setup
      /\ micro \in Nat /\ accumulator.count \in Nat /\ accumulator.count <= micro
      /\ training_config.accumulation_steps \in Nat
  <2>1. training_config \in Configs
    BY ConfigTypes DEF AccountInv, Types
  <2> QED
    BY <2>1, TrainStepAssumption DEF AccountInv, Types, Configs
<1>1. ASSUME NEW field \in DOMAIN builder, NEW value \in Settings(field), Configure(field, value)
      PROVE  Filled'
  BY <1>1 DEF Configure, Filled, history, Steps
<1>2. CASE Build
  <2>1. pc = "setup" /\ UNCHANGED <<accumulator, history>> /\ pc' \in {"train", "refused"}
    BY <1>2 DEF Build
  <2>2. micro = 0 /\ applied = <<>> /\ accumulator.count = 0 /\ Steps = {}
    BY <1>0, <2>1, NoGradients DEF Setup, Filled, Steps
  <2>3. micro' = 0 /\ accumulator' = accumulator /\ Steps' = {}
    BY <2>1, <2>2 DEF history, Steps
  <2>4. window' = {} /\ LastOnes(0, 0) = {}
    BY <1>0, <2>1, <2>2 DEF Types, LastOnes, history
  <2>5. CASE build(builder) = "Ok"
    <3>1. training_config' = TrainingOf(builder) /\ validate(TrainingOf(builder)) = "Ok"
      BY <1>2, <2>5 DEF Build, build
    <3>2. training_config'.accumulation_steps # 0
      BY <3>1 DEF validate
    <3>3. training_config'.accumulation_steps \in Nat
      <4>1. training_config' \in Configs
        BY <1>0, <1>2, BuildTypes, ConfigTypes DEF Types
      <4> QED
        BY <4>1 DEF Configs
    <3>4. accumulator.count < training_config'.accumulation_steps
      BY <2>2, <3>2, <3>3
    <3>5. pc' = "train"
      BY <1>2, <2>5 DEF Build
    <3> QED
      BY <2>2, <2>3, <2>4, <3>4, <3>5 DEF Filled
  <2>6. CASE build(builder) # "Ok"
    <3>1. pc' = "refused"
      BY <1>2, <2>6 DEF Build
    <3> QED
      BY <2>3, <3>1 DEF Filled
  <2> QED
    BY <2>5, <2>6
<1>3. ASSUME NEW given \in Presences, NEW n \in Norms,
             \/ DrainPanics(given, n) \/ Overflow(given, n)
             \/ Accumulate(given, n) \/ Complete(given, n)
      PROVE  Filled'
  <2>1. /\ pc = "train" /\ applied' = applied /\ training_config' = training_config
        /\ micro' = micro + 1
    BY <1>3 DEF DrainPanics, Overflow, Accumulate, Complete, RunMicrobatch, Drain, setup
  <2>2. \A i \in Steps : \E last \in 1 .. micro' :
          applied[i].window = LastOnes(last, training_config.accumulation_steps)
    <3>1. 1 .. micro \subseteq 1 .. micro'
      BY <1>0, <2>1
    <3> QED
      BY <3>1 DEF Filled
  <2>3. accumulator.count < training_config.accumulation_steps
    BY <2>1 DEF Filled
  <2>0. CASE DrainPanics(given, n)
    <3>1. pc' = "torn"
      BY <2>0 DEF DrainPanics
    <3> QED
      BY <2>1, <2>2, <3>1 DEF Filled, Steps
  <2>4. CASE Overflow(given, n)
    <3>1. window' = {} /\ accumulator'.count = 0 /\ pc' = "train"
      BY <2>1, <2>4 DEF Overflow, Acc!reset, Acc!Empty
    <3>2. LastOnes(micro', 0) = {}
      BY <1>0, <2>1 DEF LastOnes
    <3>3. 0 < training_config.accumulation_steps
      BY <1>0, <2>3
    <3> QED
      BY <2>1, <2>2, <3>1, <3>2, <3>3 DEF Filled, Steps
  <2>5. CASE Accumulate(given, n) \/ Complete(given, n)
    <3>1. /\ accumulator'.count = accumulator.count + 1
          /\ window' = window \cup {micro + 1}
      BY <1>0, <2>5, Summed
    <3>2. window' = LastOnes(micro', accumulator'.count)
      BY <1>0, <2>1, <3>1, OneMore DEF Filled
    <3>3. CASE Accumulate(given, n)
      <4>1. pc' = "train" /\ accumulator'.count < training_config.accumulation_steps
        BY <2>1, <3>3 DEF Accumulate
      <4> QED
        BY <2>1, <2>2, <3>2, <4>1 DEF Filled, Steps
    <3>4. CASE Complete(given, n)
      <4>1. accumulator'.count >= training_config.accumulation_steps /\ pc' \in {"extract", "dead"}
        BY <3>4 DEF Complete
      <4>2. accumulator'.count = training_config.accumulation_steps
        BY <1>0, <2>3, <3>1, <4>1
      <4>3. micro' >= 1 /\ 0 < training_config.accumulation_steps
        BY <1>0, <2>1, <2>3
      <4> QED
        BY <2>1, <2>2, <3>2, <4>1, <4>2, <4>3 DEF Filled, Steps
    <3> QED
      BY <2>5, <3>3, <3>4
  <2> QED
    BY <1>3, <2>0, <2>4, <2>5
<1>4. CASE OptimizerStep
  <2>1. /\ pc = "extract" /\ pc' = "train" /\ training_config' = training_config
        /\ micro' = micro /\ accumulator' = Acc!Empty
    BY <1>4 DEF OptimizerStep, setup, Acc!reset
  <2>2. /\ Len(applied) \in Nat
        /\ Steps = 1 .. Len(applied) /\ Steps' = 1 .. Len(applied) + 1
        /\ \A i \in Steps : applied'[i] = applied[i]
        /\ applied'[Len(applied) + 1].window = window
    BY <1>0, <1>4, AppliedStep
  <2>3. \A i \in Steps' : i \in Steps \/ i = Len(applied) + 1
    BY <2>2
  <2>4. window' = {} /\ accumulator'.count = 0
    BY <1>4, <2>1 DEF OptimizerStep, Acc!Empty
  <2>5. LastOnes(micro, 0) = {}
    BY <1>0 DEF LastOnes
  <2>6. /\ window = LastOnes(micro, training_config.accumulation_steps)
        /\ micro \in 1 .. micro
    BY <1>0, <2>1 DEF Filled
  <2>7. ASSUME NEW i \in Steps'
        PROVE  \E last \in 1 .. micro :
                 applied'[i].window = LastOnes(last, training_config.accumulation_steps)
    BY <2>2, <2>3, <2>6 DEF Filled
  <2>8. 0 < training_config.accumulation_steps
    BY <2>1 DEF Filled
  <2> QED
    BY <2>1, <2>4, <2>5, <2>7, <2>8 DEF Filled
<1>5. ASSUME NEW initial \in InitialExponents, ResetScaler(initial)
      PROVE  Filled'
  BY <1>5 DEF ResetScaler, Filled, setup, Steps
<1>6. CASE UNCHANGED vars
  BY <1>6 DEF Filled, vars, setup, history, Steps
<1> QED
  BY <1>1, <1>2, <1>3, <1>4, <1>5, <1>6 DEF Next

\* Every optimizer step is given accumulation_steps consecutive micro-batches, if
\* the caller resets the accumulator after each (step.rs, accumulator.rs:
\* drain_from, reset, into_gradients).
THEOREM WholeWindows ==
  ASSUME CallerResets
  PROVE  Spec => []FullWindows
<1>1. AccountInv /\ Filled => FullWindows
  BY DEF Filled, LastOnes, FullWindows
<1>2. AccountInv /\ Filled /\ [Next]_vars => Filled'
  BY NextFilled
<1> QED
  BY <1>1, <1>2, AccountsHold, InitFilled, PTL DEF Spec
------------------------------------------------------------------------------
(* Every contribution once.                                                *)

\* The least of some numbers is one of them.
LEMMA LeastOf ==
  ASSUME NEW S \in SUBSET Nat, S # {}
  PROVE  Min(S) \in S /\ \A k \in S : Min(S) <= k
<1> DEFINE Less == OpToRel(<, Nat)
<1>1. \A m, n \in Nat : m < n => <<m, n>> \in Less
  BY Zenon DEF OpToRel
<1>2. IsWellFoundedOn(Less, Nat)
  BY NatLessThanWellFounded, Zenon
<1> HIDE DEF Less
<1>3. PICK n \in S : \A m \in S : <<m, n>> \notin Less
  BY <1>2, WFMin
<1>4. ASSUME NEW m \in S PROVE n <= m
  <2>1. m \in Nat /\ n \in Nat /\ ~(m < n)
    BY <1>1, <1>3
  <2> QED
    BY <2>1
<1> QED
  BY <1>4 DEF Min

LEMMA LeastStays ==
  ASSUME NEW S \in SUBSET Nat, S # {}, NEW x \in Nat, \A k \in S : k < x
  PROVE  Min(S \cup {x}) = Min(S)
<1>1. Min(S) \in S /\ \A k \in S : Min(S) <= k
  BY LeastOf
<1> DEFINE least == Min(S)
           new == Min(S \cup {x})
<1>2. new \in S \cup {x} /\ \A k \in S \cup {x} : new <= k
  BY LeastOf
<1> HIDE DEF least, new
<1>3. least \in S /\ \A k \in S : least <= k
  BY <1>1 DEF least
<1>4. new \in Nat /\ least \in Nat /\ least < x
  BY <1>2, <1>3
<1>5. new <= least /\ new \in S
  BY <1>2, <1>3, <1>4
<1>6. new = least
  BY <1>3, <1>4, <1>5
<1> QED
  BY <1>6 DEF new, least

LEMMA LeastOfOne ==
  ASSUME NEW x \in Nat
  PROVE  Min({x}) = x
BY LeastOf

\* The micro-batches that have a gradient for a parameter, and Kept and
\* HoldsOnce, for the gradients of the micro-batches given.
Having(pres, micros, p) == {m \in micros : p \in DOMAIN pres[m]}

KeptOf(pres, micros, p) ==
  {m \in Having(pres, micros, p) :
     pres[m][p] = "f32" /\ pres[Min(Having(pres, micros, p))][p] = "f32"}

HoldsOf(pres, grads, micros, p) ==
  LET summed == IF p \in DOMAIN grads THEN grads[p] ELSE <<>>
  IN  Increasing(summed) /\ ToSet(summed) = KeptOf(pres, micros, p)

\* A vector is stored once a gradient came, and is empty if that one was not in f32.
LinkedOf(pres, grads, micros, p) ==
  LET with == Having(pres, micros, p)
  IN  /\ p \in DOMAIN grads <=> with # {}
      /\ with # {} => (grads[p] = <<>> <=> pres[Min(with)][p] # "f32")

\* What later micro-batches have is not looked at.
LEMMA SamePresent ==
  ASSUME NEW pres, NEW new, NEW grads, NEW micros \in SUBSET Nat, NEW p,
         \A m \in micros : new[m] = pres[m], HoldsOf(pres, grads, micros, p)
  PROVE  HoldsOf(new, grads, micros, p)
<1>1. Having(new, micros, p) = Having(pres, micros, p)
  BY DEF Having
<1>2. CASE Having(pres, micros, p) = {}
  BY <1>1, <1>2 DEF KeptOf, HoldsOf
<1>3. CASE Having(pres, micros, p) # {}
  <2>1. Having(pres, micros, p) \in SUBSET Nat
    BY DEF Having
  <2>2. Min(Having(pres, micros, p)) \in micros
    BY <1>3, <2>1, LeastOf DEF Having
  <2> QED
    BY <1>1, <2>2 DEF KeptOf, Having, HoldsOf
<1> QED
  BY <1>1, <1>2, <1>3

LEMMA IncreasingExtended ==
  ASSUME NEW s \in Contributions, NEW m \in 1 .. MaxMicrobatches, Increasing(s),
         \A k \in ToSet(s) : k < m
  PROVE  Increasing(s \o <<m>>)
<1> DEFINE t == s \o <<m>>
<1>1. /\ s \in Seq(1 .. MaxMicrobatches) /\ <<m>> \in Seq(1 .. MaxMicrobatches)
      /\ Len(<<m>>) = 1 /\ <<m>>[1] = m
  BY DEF Contributions
<1>2. /\ t \in Seq(1 .. MaxMicrobatches)
      /\ Len(t) = Len(s) + 1
      /\ \A i \in 1 .. Len(s) + 1 : t[i] = IF i <= Len(s) THEN s[i] ELSE <<m>>[i - Len(s)]
  BY <1>1, ConcatProperties
<1> HIDE DEF t
<1>3. Len(s) \in Nat /\ DOMAIN s = 1 .. Len(s) /\ DOMAIN t = 1 .. Len(s) + 1
  BY <1>1, <1>2, LenProperties
<1>4. \A i \in 1 .. Len(s) : t[i] = s[i] /\ s[i] < m
  BY <1>2, <1>3 DEF ToSet
<1>5. t[Len(s) + 1] = m
  BY <1>1, <1>2, <1>3
<1>6. ASSUME NEW j \in DOMAIN t, NEW k \in DOMAIN t, j < k PROVE t[j] < t[k]
  <2>1. j \in 1 .. Len(s)
    BY <1>3, <1>6
  <2>2. CASE k \in 1 .. Len(s)
    BY <1>3, <1>4, <1>6, <2>1, <2>2 DEF Increasing
  <2>3. CASE k = Len(s) + 1
    BY <1>4, <1>5, <2>1, <2>3
  <2> QED
    BY <1>3, <2>2, <2>3
<1> QED
  BY <1>6 DEF Increasing, t

LEMMA FewIncrease ==
  ASSUME NEW m
  PROVE  Increasing(<<>>) /\ Increasing(<<m>>)
<1>1. DOMAIN <<>> = {} /\ DOMAIN <<m>> = {1}
  OBVIOUS
<1> QED
  BY <1>1 DEF Increasing

\* One more micro-batch is drained: for each parameter, its gradient is the
\* first, or is added to what came before, or is lost.
LEMMA HeldOnceMore ==
  ASSUME NEW pres, NEW new, NEW grads \in Gradients, NEW n \in Nat, n + 1 \in 1 .. MaxMicrobatches,
         NEW micros \in SUBSET (1 .. n), NEW given, NEW p,
         p \in DOMAIN given => given[p] \in {"f32", "other"},
         \A m \in 1 .. n : new[m] = pres[m], new[n + 1] = given,
         HoldsOf(pres, grads, micros, p), LinkedOf(pres, grads, micros, p)
  PROVE  /\ HoldsOf(new, Acc!Add(grads, given, n + 1), micros \cup {n + 1}, p)
         /\ LinkedOf(new, Acc!Add(grads, given, n + 1), micros \cup {n + 1}, p)
<1> DEFINE with == Having(pres, micros, p)
           more == Having(new, micros \cup {n + 1}, p)
           sum == Acc!Add(grads, given, n + 1)
<1>1. with \in SUBSET Nat /\ with \subseteq 1 .. n /\ (\A k \in with : k < n + 1 /\ k # n + 1)
  <2>1. with \subseteq 1 .. n
    BY DEF Having
  <2> HIDE DEF with
  <2> QED
    BY <2>1
<1>2. more = with \cup (IF p \in DOMAIN given THEN {n + 1} ELSE {})
  BY DEF Having
<1>3. DOMAIN sum = DOMAIN grads \cup DOMAIN given
  BY DEF Acc!Add
<1>4. p \in DOMAIN grads <=> with # {}
  BY DEF LinkedOf
<1>5. CASE p \notin DOMAIN given
  <2>1. more = with /\ (p \in DOMAIN sum <=> p \in DOMAIN grads)
    BY <1>2, <1>3, <1>5
  <2>2. p \in DOMAIN grads => sum[p] = grads[p]
    BY <1>5 DEF Acc!Add
  <2>3. with # {} => Min(with) \in 1 .. n
    BY <1>1, LeastOf
  <2>4. \A m \in with : new[m] = pres[m]
    BY <1>1
  <2>5. with # {} => new[Min(with)] = pres[Min(with)]
    BY <2>3
  <2> HIDE DEF with, more, sum
  <2>6. KeptOf(new, micros \cup {n + 1}, p) = KeptOf(pres, micros, p)
    BY <2>1, <2>4, <2>5 DEF KeptOf, with, more
  <2>7. HoldsOf(new, sum, micros \cup {n + 1}, p)
    BY <2>1, <2>2, <2>6 DEF HoldsOf
  <2>8. LinkedOf(new, sum, micros \cup {n + 1}, p)
    BY <1>4, <2>1, <2>2, <2>5 DEF LinkedOf, with, more
  <2> QED
    BY <2>7, <2>8 DEF sum
<1>6. CASE p \in DOMAIN given /\ with = {}
  <2>1. more = {n + 1} /\ Min(more) = n + 1 /\ p \notin DOMAIN grads
    BY <1>2, <1>4, <1>6, LeastOfOne
  <2>2. sum[p] = Acc!Values(given[p], n + 1) /\ p \in DOMAIN sum
    BY <1>3, <1>6, <2>1 DEF Acc!Add
  <2> HIDE DEF with, more, sum
  <2>3. CASE given[p] = "f32"
    <3>1. sum[p] = <<n + 1>> /\ sum[p] # <<>>
      BY <2>2, <2>3 DEF Acc!Values
    <3>2. ToSet(<<n + 1>>) = {n + 1} /\ Increasing(<<n + 1>>)
      BY FewIncrease DEF ToSet
    <3>3. KeptOf(new, micros \cup {n + 1}, p) = {n + 1}
      BY <2>1, <2>3 DEF KeptOf, more
    <3>4. HoldsOf(new, sum, micros \cup {n + 1}, p)
      BY <2>2, <3>1, <3>2, <3>3 DEF HoldsOf
    <3>5. LinkedOf(new, sum, micros \cup {n + 1}, p)
      BY <2>1, <2>2, <2>3, <3>1 DEF LinkedOf, more
    <3> QED
      BY <3>4, <3>5 DEF sum
  <2>4. CASE given[p] # "f32"
    <3>1. sum[p] = <<>>
      BY <2>2, <2>4 DEF Acc!Values
    <3>2. ToSet(<<>>) = {} /\ Increasing(<<>>)
      BY EmptyHolds, FewIncrease
    <3>3. KeptOf(new, micros \cup {n + 1}, p) = {}
      BY <2>1, <2>4 DEF KeptOf, more
    <3>4. HoldsOf(new, sum, micros \cup {n + 1}, p)
      BY <2>2, <3>1, <3>2, <3>3 DEF HoldsOf
    <3>5. LinkedOf(new, sum, micros \cup {n + 1}, p)
      BY <2>1, <2>2, <2>4, <3>1 DEF LinkedOf, more
    <3> QED
      BY <3>4, <3>5 DEF sum
  <2> QED
    BY <2>3, <2>4
<1>7. CASE p \in DOMAIN given /\ with # {}
  <2>1. p \in DOMAIN grads /\ p \in DOMAIN sum
    BY <1>3, <1>4, <1>7
  <2>2. sum[p] = Acc!Zipped(grads[p], Acc!Values(given[p], n + 1))
    BY <1>7, <2>1 DEF Acc!Add
  <2>3. Min(with) \in with
    BY <1>1, <1>7, LeastOf
  <2>4. more = with \cup {n + 1}
    BY <1>2, <1>7
  <2>5. Min(more) = Min(with)
    <3> HIDE DEF with, more
    <3> QED
      BY <1>1, <1>7, <2>4, LeastStays
  <2>6. new[Min(with)] = pres[Min(with)] /\ \A m \in with : new[m] = pres[m]
    BY <1>1, <2>3
  <2>7. grads[p] \in Contributions
    BY <2>1, GradientTypes
  <2>8. /\ Increasing(grads[p]) /\ ToSet(grads[p]) = KeptOf(pres, micros, p)
        /\ grads[p] = <<>> <=> pres[Min(with)][p] # "f32"
    BY <1>7, <2>1 DEF HoldsOf, LinkedOf
  <2>9. KeptOf(pres, micros, p) \subseteq with
    BY DEF KeptOf
  <2> HIDE DEF with, more, sum
  <2>10. CASE pres[Min(with)][p] # "f32"
    <3>1. grads[p] = <<>> /\ sum[p] = <<>>
      BY <2>2, <2>8, <2>10 DEF Acc!Zipped
    <3>2. KeptOf(new, micros \cup {n + 1}, p) = {}
      BY <2>5, <2>6, <2>10 DEF KeptOf, more
    <3>3. HoldsOf(new, sum, micros \cup {n + 1}, p)
      BY <2>1, <3>1, <3>2, EmptyHolds, FewIncrease DEF HoldsOf
    <3>4. LinkedOf(new, sum, micros \cup {n + 1}, p)
      BY <2>1, <2>4, <2>5, <2>6, <2>10, <3>1 DEF LinkedOf, more
    <3> QED
      BY <3>3, <3>4 DEF sum
  <2>11. CASE pres[Min(with)][p] = "f32"
    <3>1. grads[p] # <<>>
      BY <2>8, <2>11
    <3>2. sum[p] = grads[p] \o Acc!Values(given[p], n + 1)
      BY <2>2, <3>1 DEF Acc!Zipped
    <3>3. KeptOf(new, micros \cup {n + 1}, p)
            = KeptOf(pres, micros, p) \cup (IF given[p] = "f32" THEN {n + 1} ELSE {})
      BY <2>4, <2>5, <2>6, <2>11 DEF KeptOf, with, more
    <3>4. /\ Increasing(sum[p])
          /\ ToSet(sum[p]) = ToSet(grads[p]) \cup (IF given[p] = "f32" THEN {n + 1} ELSE {})
          /\ sum[p] # <<>>
      <4>1. CASE given[p] = "f32"
        <5>1. sum[p] = grads[p] \o <<n + 1>>
          BY <3>2, <4>1 DEF Acc!Values
        <5>2. \A k \in ToSet(grads[p]) : k < n + 1
          BY <1>1, <2>8, <2>9
        <5>3. Increasing(sum[p]) /\ ToSet(sum[p]) = ToSet(grads[p]) \cup {n + 1}
          BY <2>7, <2>8, <5>1, <5>2, IncreasingExtended, SummedOnce
        <5> QED
          BY <4>1, <5>3, EmptyHolds
      <4>2. CASE given[p] # "f32"
        <5>1. sum[p] = grads[p]
          BY <2>7, <3>2, <4>2, SummedNothing DEF Acc!Values
        <5> QED
          BY <2>8, <3>1, <4>2, <5>1
      <4> QED
        BY <4>1, <4>2
    <3>5. HoldsOf(new, sum, micros \cup {n + 1}, p)
      BY <2>1, <2>8, <3>3, <3>4 DEF HoldsOf
    <3>6. LinkedOf(new, sum, micros \cup {n + 1}, p)
      BY <2>1, <2>4, <2>5, <2>6, <2>11, <3>4 DEF LinkedOf, more
    <3> QED
      BY <3>5, <3>6 DEF sum
  <2> QED
    BY <2>10, <2>11
<1> QED
  BY <1>5, <1>6, <1>7
------------------------------------------------------------------------------
(* The invariant of the windows.                                           *)

\* Every micro-batch has its place, the windows are in order, and the gradients
\* of each, but for a torn one, hold what is kept of it.
Once ==
  /\ 1 .. micro = (UNION {applied[i].window : i \in Steps}) \cup window \cup dropped
  /\ \A i \in Steps :
       /\ \A m \in applied[i].window, n \in window : m < n
       /\ \A j \in Steps : i < j =>
            \A m \in applied[i].window, n \in applied[j].window : m < n
       /\ \A p \in Params : HoldsOf(present, applied[i].grads, applied[i].window, p)
  /\ pc # "torn" =>
       \A p \in Params : /\ HoldsOf(present, accumulator.grads, window, p)
                         /\ LinkedOf(present, accumulator.grads, window, p)

LEMMA NothingHeld ==
  ASSUME NEW pres, NEW p
  PROVE  HoldsOf(pres, <<>>, {}, p) /\ LinkedOf(pres, <<>>, {}, p)
<1>1. Having(pres, {}, p) = {} /\ KeptOf(pres, {}, p) = {}
  BY DEF Having, KeptOf
<1>2. DOMAIN <<>> = {} /\ ToSet(<<>>) = {} /\ Increasing(<<>>)
  BY NoGradients, EmptyHolds, FewIncrease
<1> QED
  BY <1>1, <1>2 DEF HoldsOf, LinkedOf

LEMMA InitOnce == Init => Once
<1> SUFFICES ASSUME Init PROVE Once
  OBVIOUS
<1>1. applied = <<>> /\ Steps = {}
  BY NoGradients DEF Init, Steps
<1>2. /\ accumulator.grads = <<>> /\ window = {} /\ dropped = {}
      /\ micro = 0 /\ 1 .. micro = {}
  BY DEF Init, Acc!Empty
<1>3. \A p \in Params : /\ HoldsOf(present, accumulator.grads, window, p)
                        /\ LinkedOf(present, accumulator.grads, window, p)
  BY <1>2, NothingHeld
<1> QED
  BY <1>1, <1>2, <1>3 DEF Once

\* A micro-batch that is run leaves what the steps were given.
LEMMA StepsStay ==
  ASSUME AccountInv, Once, NEW given \in Presences, NEW n \in Norms, RunMicrobatch(given, n),
         applied' = applied
  PROVE  /\ \A m \in 1 .. micro : present'[m] = present[m]
         /\ present'[micro + 1] = given
         /\ \A i \in Steps : \A p \in Params :
              HoldsOf(present', applied[i].grads, applied[i].window, p)
<1>1. micro \in Nat /\ present \in [1 .. micro -> Presences]
  BY DEF AccountInv, Types
<1>2. /\ \A m \in 1 .. micro : present'[m] = present[m]
      /\ present'[micro + 1] = given
  BY <1>1, AppendFunction DEF RunMicrobatch
<1>3. ASSUME NEW i \in Steps, NEW p \in Params
      PROVE  HoldsOf(present', applied[i].grads, applied[i].window, p)
  <2> DEFINE micros == applied[i].window
             later == present'
             before == present
  <2>1. micros \subseteq Nat /\ \A m \in micros : later[m] = before[m]
    BY <1>1, <1>2 DEF AccountInv, WithinBounds
  <2>2. HoldsOf(present, applied[i].grads, micros, p)
    BY DEF Once
  <2> HIDE DEF micros, later, before
  <2>3. micros \in SUBSET Nat /\ HoldsOf(before, applied[i].grads, micros, p)
    BY <2>1, <2>2 DEF before
  <2>4. HoldsOf(later, applied[i].grads, micros, p)
    BY ONLY <2>1, <2>3, SamePresent
  <2> QED
    BY <2>4 DEF micros, later
<1> QED
  BY <1>2, <1>3

LEMMA SummedOnceMore ==
  ASSUME AccountInv, Once, NEW given \in Presences, NEW n \in Norms,
         Accumulate(given, n) \/ Complete(given, n)
  PROVE  Once'
<1>0. Types /\ WithinBounds
  BY DEF AccountInv
<1>1. /\ micro \in Nat /\ micro' = micro + 1 /\ micro + 1 \in 1 .. MaxMicrobatches
      /\ 1 .. micro' = (1 .. micro) \cup {micro + 1}
      /\ accumulator'.grads = Acc!Add(accumulator.grads, given, micro + 1)
      /\ window' = window \cup {micro + 1}
      /\ applied' = applied /\ dropped' = dropped
      /\ pc = "train"
  BY <1>0, Summed
<1>2. RunMicrobatch(given, n)
  BY DEF Accumulate, Complete
<1>3. /\ \A m \in 1 .. micro : present'[m] = present[m]
      /\ present'[micro + 1] = given
      /\ \A i \in Steps : \A p \in Params :
           HoldsOf(present', applied[i].grads, applied[i].window, p)
  BY <1>1, <1>2, StepsStay
<1>4. ASSUME NEW p \in Params
      PROVE  /\ HoldsOf(present', accumulator'.grads, window', p)
             /\ LinkedOf(present', accumulator'.grads, window', p)
  <2>1. /\ HoldsOf(present, accumulator.grads, window, p)
        /\ LinkedOf(present, accumulator.grads, window, p)
    BY <1>1 DEF Once
  <2>2. accumulator.grads \in Gradients /\ window \in SUBSET (1 .. micro)
    BY <1>0 DEF Types
  <2>3. p \in DOMAIN given => given[p] \in {"f32", "other"}
    BY PresenceTypes
  <2> DEFINE later == present'
  <2>4. (\A m \in 1 .. micro : later[m] = present[m]) /\ later[micro + 1] = given
    BY <1>3
  <2> HIDE DEF later
  <2>5. /\ HoldsOf(later, Acc!Add(accumulator.grads, given, micro + 1), window \cup {micro + 1}, p)
        /\ LinkedOf(later, Acc!Add(accumulator.grads, given, micro + 1), window \cup {micro + 1}, p)
    BY <1>1, <2>1, <2>2, <2>3, <2>4, HeldOnceMore
  <2> QED
    BY <1>1, <2>5 DEF later
<1>5. \A i \in Steps : \A m \in applied[i].window, k \in window' : m < k
  BY <1>0, <1>1 DEF Once, WithinBounds
<1>6. 1 .. micro' = (UNION {applied[i].window : i \in Steps}) \cup window' \cup dropped'
  BY <1>1 DEF Once
<1>7. \A i, j \in Steps : i < j => \A m \in applied[i].window, k \in applied[j].window : m < k
  BY DEF Once
<1>8. ASSUME NEW i \in Steps, NEW p \in Params
      PROVE  HoldsOf(present', applied'[i].grads, applied'[i].window, p)
  BY <1>1, <1>3
<1>9. Steps' = Steps /\ applied' = applied
  BY <1>1 DEF Steps
<1> QED
  BY <1>4, <1>5, <1>6, <1>7, <1>8, <1>9 DEF Once

\* What is thrown away was in no step.
LEMMA DroppedOnce ==
  ASSUME AccountInv, Once, NEW given \in Presences, NEW n \in Norms,
         Overflow(given, n) \/ DrainPanics(given, n)
  PROVE  Once'
<1>0. Types /\ WithinBounds
  BY DEF AccountInv
<1>1. RunMicrobatch(given, n) /\ applied' = applied
  BY DEF Overflow, DrainPanics
<1>2. /\ micro \in Nat /\ micro' = micro + 1
      /\ 1 .. micro' = (1 .. micro) \cup {micro + 1}
  BY <1>0, <1>1, MicrobatchTypes
<1>3. \A i \in Steps : \A p \in Params : HoldsOf(present', applied[i].grads, applied[i].window, p)
  BY <1>1, StepsStay
<1>4. /\ window' \subseteq window
      /\ window' \cup dropped' = window \cup dropped \cup {micro + 1}
  BY DEF Overflow, DrainPanics
<1>5. 1 .. micro' = (UNION {applied[i].window : i \in Steps}) \cup window' \cup dropped'
  BY <1>2, <1>4 DEF Once
<1>6. \A i \in Steps : \A m \in applied[i].window, k \in window' : m < k
  BY <1>4 DEF Once
<1>7. \A i, j \in Steps : i < j => \A m \in applied[i].window, k \in applied[j].window : m < k
  BY DEF Once
<1>8. pc' # "torn" =>
        \A p \in Params : /\ HoldsOf(present', accumulator'.grads, window', p)
                          /\ LinkedOf(present', accumulator'.grads, window', p)
  <2>1. CASE Overflow(given, n)
    <3>1. accumulator'.grads = <<>> /\ window' = {}
      BY <2>1 DEF Overflow, Acc!reset, Acc!Empty
    <3> QED
      BY <3>1, NothingHeld
  <2>2. CASE DrainPanics(given, n)
    BY <2>2 DEF DrainPanics
  <2> QED
    BY <2>1, <2>2
<1> QED
  BY <1>1, <1>3, <1>5, <1>6, <1>7, <1>8 DEF Once, Steps

\* The window becomes that of the new step.
LEMMA OptimizerOnce ==
  ASSUME AccountInv, Once, OptimizerStep
  PROVE  Once'
<1>0. Types
  BY DEF AccountInv
<1>1. accumulator'.grads = <<>> /\ window' = {}
  BY <1>0, OptimizerTypes DEF OptimizerStep
<1>2. micro' = micro /\ present' = present /\ dropped' = dropped /\ pc = "extract"
  BY DEF OptimizerStep
<1>3. /\ Len(applied) \in Nat
      /\ Steps = 1 .. Len(applied) /\ Steps' = 1 .. Len(applied) + 1
      /\ \A i \in Steps : applied'[i] = applied[i]
      /\ applied'[Len(applied) + 1].grads = accumulator.grads
      /\ applied'[Len(applied) + 1].window = window
  BY <1>0, AppliedStep
<1> DEFINE new == Len(applied) + 1
<1>4. new \notin Steps /\ new \in Steps' /\ Steps' = Steps \cup {new}
      /\ \A i \in Steps : i < new
  BY <1>3
<1> HIDE DEF new
<1>5. /\ applied'[new].grads = accumulator.grads /\ applied'[new].window = window
  BY <1>3 DEF new
<1>6. (UNION {applied'[i].window : i \in Steps'}) = (UNION {applied[i].window : i \in Steps}) \cup window
  BY <1>3, <1>4, <1>5
<1>7. 1 .. micro' = (UNION {applied'[i].window : i \in Steps'}) \cup window' \cup dropped'
  BY <1>1, <1>2, <1>6 DEF Once
<1>8. ASSUME NEW i \in Steps', NEW j \in Steps', i < j,
             NEW m \in applied'[i].window, NEW k \in applied'[j].window
      PROVE  m < k
  <2>1. i \in Steps
    <3>1. j \in Steps \/ j = new
      BY <1>4
    <3>2. i # new
      BY <1>3, <1>8, <3>1 DEF new
    <3> QED
      BY <1>4, <3>2
  <2>2. CASE j \in Steps
    BY <1>3, <1>8, <2>1, <2>2 DEF Once
  <2>3. CASE j = new
    BY <1>3, <1>5, <2>1, <2>3 DEF Once
  <2> QED
    BY <1>4, <2>2, <2>3
<1>9. ASSUME NEW i \in Steps', NEW p \in Params
      PROVE  HoldsOf(present', applied'[i].grads, applied'[i].window, p)
  <2>1. CASE i \in Steps
    BY <1>2, <1>3, <2>1 DEF Once
  <2>2. CASE i = new
    BY <1>2, <1>5, <2>2 DEF Once
  <2> QED
    BY <1>4, <2>1, <2>2
<1>10. \A p \in Params : /\ HoldsOf(present', accumulator'.grads, window', p)
                         /\ LinkedOf(present', accumulator'.grads, window', p)
  BY <1>1, NothingHeld
<1> QED
  BY <1>1, <1>7, <1>8, <1>9, <1>10 DEF Once

LEMMA NextOnce == AccountInv /\ Once /\ [Next]_vars => Once'
<1> SUFFICES ASSUME AccountInv, Once, [Next]_vars PROVE Once'
  OBVIOUS
<1>1. ASSUME UNCHANGED <<accumulator, micro, present, window, applied, dropped>>,
             pc' = "torn" <=> pc = "torn"
      PROVE  Once'
  BY <1>1 DEF Once, Steps
<1>2. ASSUME NEW given \in Presences, NEW n \in Norms,
             \/ DrainPanics(given, n) \/ Overflow(given, n)
             \/ Accumulate(given, n) \/ Complete(given, n)
      PROVE  Once'
  BY <1>2, DroppedOnce, SummedOnceMore
<1>3. CASE OptimizerStep
  BY <1>3, OptimizerOnce
<1>4. ASSUME \/ \E field \in DOMAIN builder : \E value \in Settings(field) : Configure(field, value)
             \/ \E initial \in InitialExponents : ResetScaler(initial)
             \/ UNCHANGED vars
      PROVE  Once'
  BY <1>1, <1>4 DEF Configure, ResetScaler, vars, history
<1>5. CASE Build
  BY <1>1, <1>5 DEF Build, history
<1> QED
  BY <1>2, <1>3, <1>4, <1>5 DEF Next

\* Every micro-batch is in one window, in order, or was thrown away, and of the
\* gradients of a window those in f32 are summed once, in order, unless the first
\* of the parameter was not; all others are lost, whatever the accumulator's
\* documentation promises (step.rs, accumulator.rs: drain_from, reset,
\* into_gradients).
THEOREM OnceOrDropped == Spec => []EachOnce
<1>1. AccountInv /\ Once => EachOnce
  <2> SUFFICES ASSUME AccountInv, Once PROVE EachOnce
    OBVIOUS
  <2>1. ASSUME NEW i \in Steps PROVE HoldsOnce(applied[i].grads, applied[i].window)
    BY DEF Once, HoldsOnce, HoldsOf, Kept, KeptOf, Having
  <2>2. pc # "torn" => HoldsOnce(accumulator.grads, window)
    BY DEF Once, HoldsOnce, HoldsOf, Kept, KeptOf, Having
  <2> QED
    BY <2>1, <2>2 DEF AccountInv, Accounts, Once, EachOnce
<1> QED
  BY <1>1, AccountsHold, InitOnce, NextOnce, PTL DEF Spec
==============================================================================
