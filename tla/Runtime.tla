-------------------------------- MODULE Runtime --------------------------------
(***************************************************************************)
(* DistributedRuntimeBuilder, mt-training/src/runtime.rs.                  *)
(*                                                                         *)
(* A field is the sequence of what it holds: <<>> for None, <<value>> for  *)
(* Some(value).  A topology is its number of nodes and a communicator its  *)
(* world size; a precision configuration is its scaling strategy.          *)
(***************************************************************************)
EXTENDS TrainingConfig, Sequences

Strategies == {"Dynamic", "Delayed"}

\* DistributedRuntimeBuilder::new
NewBuilder ==
  [topology |-> <<>>, communicator |-> <<>>, precision_config |-> <<>>, training_config |-> <<>>]

\* The with_* methods: a later value takes the place of an earlier one.
With(builder, field, value) == [builder EXCEPT ![field] = <<value>>]

unwrap_or(option, default) == IF option = <<>> THEN default ELSE option[1]

\* The configurations the runtime is built with.
PrecisionOf(builder) == unwrap_or(builder.precision_config, "Delayed")
TrainingOf(builder) == unwrap_or(builder.training_config, Default)

\* build: the first error, in the order of the code.  The topology, the world
\* size and the pipeline stages are not compared with each other.
build(builder) ==
  IF builder.topology = <<>> THEN "Topology"
  ELSE IF builder.communicator = <<>> THEN "Communication"
  ELSE IF validate(TrainingOf(builder)) # "Ok" THEN "Config"
  ELSE "Ok"
==============================================================================
