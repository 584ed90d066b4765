-------------------------------- MODULE GPipe --------------------------------
(***************************************************************************)
(* GpipeSchedule::execute, mt-pipeline/src/schedule/gpipe.rs, called again *)
(* and again by PipelineExecutor::run.                                     *)
(*                                                                         *)
(* One thread takes each micro-batch through every stage, then each        *)
(* gradient back through them.  Between two stages the data really goes    *)
(* through the communicators: stage s sends, and the same thread receives  *)
(* as stage s + 1.  The slots outlive the call, so every later run starts  *)
(* over slots that hold the data of the one before.                        *)
(***************************************************************************)
EXTENDS StageData, MockComm

CONSTANTS
  StageCounts,        \* the numbers of stages a pipeline may have
  MicrobatchCounts,   \* the numbers of micro-batches a run may be given
  WorldSizes,         \* how many communicators the caller provides
  Backends,           \* what they are, see Communicators
  MaxRuns             \* bound of the model: calls of run

\* "shared": MockCommunicator::create_world, one set of slots for all.
\* "private": MockCommunicator::new for each rank, which makes slots of its own.
\* "tcp": TcpCommunicator, whose synchronous send always returns Err.
Communicators == {"shared", "private", "tcp"}

ASSUME GPipeAssumption ==
  /\ StageCounts \subseteq Nat
  /\ MicrobatchCounts \subseteq Nat
  /\ WorldSizes \subseteq Nat
  /\ Backends \subseteq Communicators
  /\ MaxRuns \in Nat \ {0}

VARIABLES
  num_stages, num_microbatches, world_size, backend,
  run,                \* which call of run this is
  phase,              \* "forward" or "backward": the loop that is running
  mb, stage_idx,      \* its two indices
  carried,            \* activation, then grad_output: the data in hand
  all_inputs,         \* what each stage was given, in order
  outputs,            \* all_activations of the last stage
  backward_calls,     \* the arguments of each call of a stage's backward
  mailboxes,          \* the slots of the communicators, one set per world
  result              \* "running", or how the call ended

fixed == <<num_stages, world_size, backend>>
locals == <<phase, mb, stage_idx, carried, all_inputs, outputs, backward_calls>>
vars == <<fixed, num_microbatches, run, locals, mailboxes, result>>

Stages == 0 .. num_stages - 1
Data == Provenance(Nat \X Nat)

\* The set of slots that rank r reads and writes.
World(r) == IF backend = "private" THEN r ELSE 0

TypeOK ==
  /\ num_stages \in StageCounts
  /\ num_microbatches \in MicrobatchCounts
  /\ world_size \in WorldSizes
  /\ backend \in Backends
  /\ run \in 1 .. MaxRuns
  /\ phase \in {"forward", "backward"}
  /\ mb \in 0 .. num_microbatches
  /\ stage_idx \in Stages \cup {0}
  /\ carried \in Data
  /\ all_inputs \in [Stages -> Seq(Data)]
  /\ outputs \in Seq(Data)
  /\ backward_calls \in [Stages -> Seq([input : Data, grad : Data])]
  /\ mailboxes \in [Ranks(world_size) ->
                      [Ranks(world_size) \X Ranks(world_size) -> Seq(Data)]]
  /\ result \in {"running", "ok", "err", "panic"}
------------------------------------------------------------------------------
Init ==
  /\ num_stages \in StageCounts
  /\ num_microbatches \in MicrobatchCounts
  /\ world_size \in WorldSizes
  /\ backend \in Backends
  /\ run = 1
  /\ phase = "forward"
  /\ mb = 0
  /\ stage_idx = 0
  /\ carried = Fresh(<<1, 0>>)
  /\ all_inputs = [s \in Stages |-> <<>>]
  /\ outputs = <<>>
  /\ backward_calls = [s \in Stages |-> <<>>]
  /\ mailboxes = [w \in Ranks(world_size) |-> EmptySlots(world_size)]
  /\ result = "running"

\* The loops have come to a stage.
At(which) ==
  /\ result = "running"
  /\ num_stages > 0
  /\ phase = which
  /\ mb < num_microbatches

\* comms[src] sends to dst, then comms[dst] receives from src: the slots
\* after it, the data received, and how it ends.  The send must find its
\* communicator (else the index panics) and be accepted (else `?`), and the
\* slot read must have been written (else decompress_stage_data panics on
\* an empty Vec).
Slots(src, dst, data) ==
  [mailboxes EXCEPT ![World(src)] = Put(@, src, dst, Wire(data))]

\* Faulty: the receive comes before the send.
ReceivedBefore(src, dst, data) == Held(mailboxes[World(dst)], src, dst)

Received(src, dst, data) == Held(Slots(src, dst, data)[World(dst)], src, dst)

Outcome(src, dst, data) ==
  IF src >= world_size THEN "panic"
  ELSE IF backend = "tcp" \/ ~IsPeer(world_size, dst) THEN "err"
  ELSE IF Received(src, dst, data) = <<>> THEN "panic"
  ELSE "running"

\* Hand data over from this stage to the neighbouring stage dst.
Relay(dst, data) ==
  /\ result' = Outcome(stage_idx, dst, data)
  /\ IF result' = "err" \/ stage_idx >= world_size
       THEN UNCHANGED mailboxes
       ELSE mailboxes' = Slots(stage_idx, dst, data)
  /\ IF result' = "running"
       THEN carried' = Received(stage_idx, dst, data)[1] /\ stage_idx' = dst
       ELSE UNCHANGED <<carried, stage_idx>>

\* A stage keeps its input, runs forward and hands its output on.
ForwardAndRelay ==
  /\ At("forward")
  /\ stage_idx < num_stages - 1
  /\ all_inputs' = [all_inputs EXCEPT ![stage_idx] = Append(@, carried)]
  /\ Relay(stage_idx + 1, Through(carried))
  /\ UNCHANGED <<fixed, num_microbatches, run, phase, mb, outputs, backward_calls>>

\* Faulty: the output of a micro-batch is the input of the next.
ForwardLastChained ==
  /\ At("forward")
  /\ stage_idx = num_stages - 1
  /\ all_inputs' = [all_inputs EXCEPT ![stage_idx] = Append(@, carried)]
  /\ outputs' = Append(outputs, Through(carried))
  /\ mb' = mb + 1
  /\ stage_idx' = 0
  /\ carried' = Through(carried)
  /\ UNCHANGED <<fixed, num_microbatches, run, phase, backward_calls, mailboxes, result>>

\* The last stage ends the micro-batch; the next starts from a fresh input.
ForwardLast ==
  /\ At("forward")
  /\ stage_idx = num_stages - 1
  /\ all_inputs' = [all_inputs EXCEPT ![stage_idx] = Append(@, carried)]
  /\ outputs' = Append(outputs, Through(carried))
  /\ mb' = mb + 1
  /\ stage_idx' = 0
  /\ carried' = Fresh(<<run, mb + 1>>)
  /\ UNCHANGED <<fixed, num_microbatches, run, phase, backward_calls, mailboxes, result>>

\* Faulty: the second loop starts above the last stage.
TurnAroundAbove ==
  /\ result = "running"
  /\ num_stages > 0
  /\ phase = "forward"
  /\ mb = num_microbatches
  /\ phase' = "backward"
  /\ mb' = 0
  /\ stage_idx' = num_stages
  /\ carried' = Fresh(<<run, 0>>)
  /\ UNCHANGED <<fixed, num_microbatches, run, all_inputs, outputs, backward_calls,
                 mailboxes, result>>

\* The first loop is over: the second starts at the last stage with ones.
TurnAround ==
  /\ result = "running"
  /\ num_stages > 0
  /\ phase = "forward"
  /\ mb = num_microbatches
  /\ phase' = "backward"
  /\ mb' = 0
  /\ stage_idx' = num_stages - 1
  /\ carried' = Fresh(<<run, 0>>)
  /\ UNCHANGED <<fixed, num_microbatches, run, all_inputs, outputs, backward_calls,
                 mailboxes, result>>

\* Faulty: a gradient of ones at every stage.
BackwardCallOfOnes == [input |-> all_inputs[stage_idx][mb + 1], grad |-> Fresh(<<run, mb>>)]

\* A stage runs backward on the input it kept and the gradient in hand.
BackwardCall == [input |-> all_inputs[stage_idx][mb + 1], grad |-> carried]

BackwardAndRelay ==
  /\ At("backward")
  /\ stage_idx > 0
  /\ backward_calls' = [backward_calls EXCEPT ![stage_idx] = Append(@, BackwardCall)]
  /\ Relay(stage_idx - 1, Through(carried))
  /\ UNCHANGED <<fixed, num_microbatches, run, phase, mb, all_inputs, outputs>>

BackwardFirst ==
  /\ At("backward")
  /\ stage_idx = 0
  /\ backward_calls' = [backward_calls EXCEPT ![0] = Append(@, BackwardCall)]
  /\ mb' = mb + 1
  /\ stage_idx' = num_stages - 1
  /\ carried' = Fresh(<<run, mb + 1>>)
  /\ UNCHANGED <<fixed, num_microbatches, run, phase, all_inputs, outputs, mailboxes, result>>

\* Faulty: Ok after the first loop; and never Ok without micro-batches.
ReturnHalfway ==
  /\ result = "running"
  /\ num_stages = 0 \/ mb = num_microbatches
  /\ result' = "ok"
  /\ UNCHANGED <<fixed, num_microbatches, run, locals, mailboxes>>
ReturnIfAny ==
  /\ result = "running"
  /\ num_stages = 0 \/ (phase = "backward" /\ mb = num_microbatches /\ mb > 0)
  /\ result' = "ok"
  /\ UNCHANGED <<fixed, num_microbatches, run, locals, mailboxes>>

Return ==
  /\ result = "running"
  /\ num_stages = 0 \/ (phase = "backward" /\ mb = num_microbatches)
  /\ result' = "ok"
  /\ UNCHANGED <<fixed, num_microbatches, run, locals, mailboxes>>

\* The caller runs the same executor again, perhaps with another number of
\* micro-batches: new locals, the same communicators.
RunAgain ==
  /\ result \in {"ok", "err"}
  /\ run < MaxRuns
  /\ run' = run + 1
  /\ num_microbatches' \in MicrobatchCounts
  /\ phase' = "forward"
  /\ mb' = 0
  /\ stage_idx' = 0
  /\ carried' = Fresh(<<run + 1, 0>>)
  /\ all_inputs' = [s \in Stages |-> <<>>]
  /\ outputs' = <<>>
  /\ backward_calls' = [s \in Stages |-> <<>>]
  /\ result' = "running"
  /\ UNCHANGED <<fixed, mailboxes>>

Execute ==
  \/ ForwardAndRelay
  \/ ForwardLast
  \/ TurnAround
  \/ BackwardAndRelay
  \/ BackwardFirst
  \/ Return

Next == Execute \/ RunAgain

Spec == Init /\ [][Next]_vars

\* execute is a loop on one thread that waits for nothing; nobody owes a
\* further run.
FairSpec == Spec /\ WF_vars(Execute)
------------------------------------------------------------------------------
(* What must hold of a run.                                                *)

\* Although a receive neither waits nor consumes, a stage always gets its own
\* micro-batch of this very run, one FP8 round trip per hop, and never what an
\* earlier run or micro-batch left in the slot.
OwnActivations ==
  \A s \in Stages : \A i \in 1 .. Len(all_inputs[s]) :
    all_inputs[s][i] = [mb |-> <<run, i - 1>>, hops |-> s, fp8 |-> s]

\* A stage runs backward on the input of that micro-batch and on the gradient
\* that came all the way from the last stage.
GradientChain ==
  \A s \in Stages : \A i \in 1 .. Len(backward_calls[s]) :
    backward_calls[s][i] =
      [input |-> all_inputs[s][i],
       grad |-> [mb |-> <<run, i - 1>>,
                 hops |-> num_stages - 1 - s,
                 fp8 |-> num_stages - 1 - s]]

\* A world that shares its slots and has a rank for every stage cannot make
\* the run fail, and only a world that does not share them can make it panic.
FailsOnlyWithoutWorld ==
  /\ result = "err" => backend = "tcp" \/ world_size < num_stages
  /\ result = "panic" => backend = "private" \/ world_size = 0

\* Every call of run returns.
Termination == (result = "running") ~> (result # "running")

\* The cells a run has computed, by the data its stages were really given.
ForwardCells ==
  UNION {{<<s, all_inputs[s][i].mb[2]>> : i \in DOMAIN all_inputs[s]} : s \in Stages}
BackwardCells ==
  UNION {{<<s, backward_calls[s][i].grad.mb[2]>> : i \in DOMAIN backward_calls[s]} : s \in Stages}

P == INSTANCE Pipeline WITH
       forwards <- ForwardCells, backwards <- BackwardCells, ChainBackward <- TRUE

\* The schedule implements Pipeline with the gradient chained.
ImplementsPipeline == P!Spec
==============================================================================
