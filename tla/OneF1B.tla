-------------------------------- MODULE OneF1B --------------------------------
(***************************************************************************)
(* OneF1BSchedule::execute, mt-pipeline/src/schedule/onef1b.rs.            *)
(*                                                                         *)
(* One thread drives every stage: in each of max_ops rounds it visits the  *)
(* stages in order and runs one operation of each stage's own schedule.    *)
(* An activation goes to the next stage through pending_fwd, inside the    *)
(* process; the copy also sent through the communicator is never received, *)
(* and neither are the gradients.                                          *)
(***************************************************************************)
EXTENDS StageData, MockComm, FiniteSets

CONSTANTS
  StageCounts,        \* the numbers of stages a pipeline may have
  MicrobatchCounts,   \* the numbers of micro-batches of a run
  WorldSizes          \* how many communicators the caller provides

ASSUME OneF1BAssumption ==
  /\ StageCounts \subseteq Nat
  /\ MicrobatchCounts \subseteq Nat
  /\ WorldSizes \subseteq Nat

VARIABLES
  num_stages, num_microbatches, world_size,   \* the arguments of the call
  max_ops,            \* rounds left
  stage_id,           \* the stage the current round has come to
  op_idx,             \* how many operations of its schedule a stage has run
  stage_inputs,       \* what each stage was given, in order
  pending_fwd,        \* activations waiting at each stage, with their micro-batch
  backward_calls,     \* the arguments of each call of a stage's backward
  mailboxes,          \* the slots of the communicators
  result              \* "running", or how the call ended

params == <<num_stages, num_microbatches, world_size>>
vars == <<params, max_ops, stage_id, op_idx, stage_inputs, pending_fwd,
          backward_calls, mailboxes, result>>

Stages == 0 .. num_stages - 1
Data == Provenance(Nat)
Pending == [mb : Nat, data : Data]
Call == [input : Data, grad : Data]

TypeOK ==
  /\ num_stages \in StageCounts
  /\ num_microbatches \in MicrobatchCounts
  /\ world_size \in WorldSizes
  /\ max_ops \in 0 .. 2 * num_microbatches
  /\ stage_id \in Stages \cup {0}
  /\ op_idx \in [Stages -> 0 .. 2 * num_microbatches]
  /\ stage_inputs \in [Stages -> Seq(Data)]
  /\ pending_fwd \in [Stages -> SUBSET Pending]
  /\ backward_calls \in [Stages -> Seq(Call)]
  /\ mailboxes \in [Ranks(world_size) \X Ranks(world_size) -> Seq(Data)]
  /\ result \in {"running", "ok", "err", "panic"}
------------------------------------------------------------------------------
(* build_schedule: warmup forwards, then forward/backward pairs, then the  *)
(* backwards left over.                                                    *)

\* Faulty: the warmup of the first stages and of the last ones swapped; and twice
\* as deep.
WarmupInverted(s) == IF s < num_microbatches THEN s ELSE num_microbatches
WarmupTwice(s) == LET after == 2 * (num_stages - s - 1)
                  IN  IF after < num_microbatches THEN after ELSE num_microbatches

Warmup(s) == LET after == num_stages - s - 1
             IN  IF after < num_microbatches THEN after ELSE num_microbatches

ForwardOf(mb) == [kind |-> "forward", mb |-> mb]
BackwardOf(mb) == [kind |-> "backward", mb |-> mb]

\* What its three loops push, in this order, each counting fwd_mb or bwd_mb up.
Pushes(warmup, total) ==
  [i \in 1 .. warmup |-> "forward"]
    \o [i \in 1 .. 2 * (total - warmup) |-> IF i % 2 = 1 THEN "forward" ELSE "backward"]
    \o [i \in 1 .. warmup |-> "backward"]

Push(built, kind) ==
  IF kind = "forward"
    THEN [ops |-> Append(built.ops, ForwardOf(built.fwd_mb)),
          fwd_mb |-> built.fwd_mb + 1, bwd_mb |-> built.bwd_mb]
    ELSE [ops |-> Append(built.ops, BackwardOf(built.bwd_mb)),
          fwd_mb |-> built.fwd_mb, bwd_mb |-> built.bwd_mb + 1]

build_schedule(warmup, total) ==
  LET built[k \in 0 .. 2 * total] ==
        IF k = 0 THEN [ops |-> <<>>, fwd_mb |-> 0, bwd_mb |-> 0]
        ELSE Push(built[k - 1], Pushes(warmup, total)[k])
  IN  built[2 * total].ops

\* Operation k of what is built, in closed form.
ScheduledOp(warmup, total, k) ==
  IF k < warmup THEN ForwardOf(k)
  ELSE IF k >= 2 * total - warmup THEN BackwardOf(k - total)
  ELSE IF (k - warmup) % 2 = 0 THEN ForwardOf(warmup + (k - warmup) \div 2)
  ELSE BackwardOf((k - warmup) \div 2)

\* Faulty: every forward first, as in GPipe.
OpFlush ==
  IF op_idx[stage_id] < num_microbatches THEN ForwardOf(op_idx[stage_id])
  ELSE BackwardOf(op_idx[stage_id] - num_microbatches)

Op == ScheduledOp(Warmup(stage_id), num_microbatches, op_idx[stage_id])
------------------------------------------------------------------------------

Init ==
  /\ num_stages \in StageCounts
  /\ num_microbatches \in MicrobatchCounts
  /\ world_size \in WorldSizes
  /\ max_ops = IF num_stages = 0 THEN 0 ELSE 2 * num_microbatches
  /\ stage_id = 0
  /\ op_idx = [s \in Stages |-> 0]
  /\ stage_inputs = [s \in Stages |-> <<>>]
  /\ pending_fwd = [s \in Stages |-> {}]
  /\ backward_calls = [s \in Stages |-> <<>>]
  /\ mailboxes = EmptySlots(world_size)
  /\ result = "running"

\* The loop has come to an operation of the given kind.
AtOp(kind) ==
  /\ result = "running"
  /\ max_ops > 0
  /\ op_idx[stage_id] < 2 * num_microbatches
  /\ Op.kind = kind

\* The end of the loop body: the next stage, or the next round.
Advance ==
  /\ op_idx' = [op_idx EXCEPT ![stage_id] = @ + 1]
  /\ IF stage_id < num_stages - 1
       THEN stage_id' = stage_id + 1 /\ UNCHANGED max_ops
       ELSE stage_id' = 0 /\ max_ops' = max_ops - 1

\* Faulty: the result of the send is dropped.
SendUnchecked(peer, data) ==
  /\ mailboxes' = IF IsPeer(world_size, peer)
                   THEN Put(mailboxes, stage_id, peer, Wire(data)) ELSE mailboxes
  /\ Advance
  /\ UNCHANGED result

\* comms[stage_id] sends to peer and the body goes on, or `?` ends the call.
SendAndAdvance(peer, data) ==
  IF IsPeer(world_size, peer)
    THEN /\ mailboxes' = Put(mailboxes, stage_id, peer, Wire(data))
         /\ Advance
         /\ UNCHANGED result
    ELSE /\ result' = "err"
         /\ UNCHANGED <<mailboxes, op_idx, stage_id, max_ops>>

\* The activations of the operation's micro-batch that wait at this stage.
Waiting == {p \in pending_fwd[stage_id] : p.mb = Op.mb}

\* Faulty: the first stage takes the batch of the operation's index.
InputOfOp == IF stage_id = 0 THEN Fresh(op_idx[stage_id]) ELSE (CHOOSE p \in Waiting : TRUE).data

\* Where a forward gets its input: the constant batch at stage 0, else the
\* first match in pending_fwd.
Input == IF stage_id = 0 THEN Fresh(Op.mb) ELSE (CHOOSE p \in Waiting : TRUE).data

\* Faulty: backward on the latest input.
BackwardCallLatest ==
  [input |-> stage_inputs[stage_id][Len(stage_inputs[stage_id])], grad |-> Fresh(Op.mb)]

\* Op::Backward: on the stage's own input for that micro-batch, with a
\* gradient of ones, whatever the next stage computed.
BackwardCall == [input |-> stage_inputs[stage_id][Op.mb + 1], grad |-> Fresh(Op.mb)]

\* The operation finds nothing to compute with: no activation to take (`expect`),
\* or no input to run backward on.
InputMissing ==
  \/ Op.kind = "forward" /\ stage_id > 0 /\ Waiting = {}
  \/ Op.kind = "backward" /\ Op.mb >= Len(stage_inputs[stage_id])

\* The output has to go through comms[stage_id], and there is none.
NoComm ==
  /\ ~IsPeer(world_size, stage_id)
  /\ \/ Op.kind = "forward" /\ stage_id < num_stages - 1
     \/ Op.kind = "backward" /\ stage_id > 0

Panics == InputMissing \/ NoComm

\* The input is kept and the stage run forward on it; or the stage run backward.
RunForward == stage_inputs' = [stage_inputs EXCEPT ![stage_id] = Append(@, Input)]
RunBackward == backward_calls' = [backward_calls EXCEPT ![stage_id] = Append(@, BackwardCall)]

\* The body panics before it has touched anything, or at comms[stage_id], when
\* the operation has already been computed.
Panic ==
  /\ AtOp("forward") \/ AtOp("backward")
  /\ Panics
  /\ result' = "panic"
  /\ IF Op.kind = "forward" /\ ~InputMissing
       THEN RunForward /\ pending_fwd' = [pending_fwd EXCEPT ![stage_id] = @ \ Waiting]
       ELSE UNCHANGED <<stage_inputs, pending_fwd>>
  /\ IF Op.kind = "backward" /\ ~InputMissing THEN RunBackward ELSE UNCHANGED backward_calls
  /\ UNCHANGED <<params, max_ops, stage_id, op_idx, mailboxes>>

\* Op::Forward on the last stage: nothing to send.
ForwardLast ==
  /\ AtOp("forward")
  /\ ~Panics
  /\ stage_id = num_stages - 1
  /\ pending_fwd' = [pending_fwd EXCEPT ![stage_id] = @ \ Waiting]
  /\ RunForward
  /\ Advance
  /\ UNCHANGED <<params, backward_calls, mailboxes, result>>

\* Op::Forward on any other stage: the output is sent, then handed over.
ForwardAndSend ==
  /\ AtOp("forward")
  /\ ~Panics
  /\ stage_id < num_stages - 1
  /\ RunForward
  /\ SendAndAdvance(stage_id + 1, Through(Input))
  /\ LET handed == IF result' = "err" THEN {}
                   ELSE {[mb |-> Op.mb, data |-> Through(Input)]}
     IN  pending_fwd' = [s \in Stages |->
                           CASE s = stage_id -> pending_fwd[s] \ Waiting
                             [] s = stage_id + 1 -> pending_fwd[s] \cup handed
                             [] OTHER -> pending_fwd[s]]
  /\ UNCHANGED <<params, backward_calls>>

Backward ==
  /\ AtOp("backward")
  /\ ~Panics
  /\ RunBackward
  /\ IF stage_id > 0
       THEN SendAndAdvance(stage_id - 1, Through(BackwardCall.grad))
       ELSE Advance /\ UNCHANGED <<mailboxes, result>>
  /\ UNCHANGED <<params, stage_inputs, pending_fwd>>

\* No stages, or no rounds left: Ok(()).
Return ==
  /\ result = "running"
  /\ max_ops = 0
  /\ result' = "ok"
  /\ UNCHANGED <<params, max_ops, stage_id, op_idx, stage_inputs, pending_fwd,
                 backward_calls, mailboxes>>

Next == ForwardLast \/ ForwardAndSend \/ Backward \/ Panic \/ Return

Spec == Init /\ [][Next]_vars
------------------------------------------------------------------------------
(* What must hold of a run.                                                *)

\* An operation never finds its input missing: whatever the numbers of stages
\* and of micro-batches, the stage before has always run a micro-batch forward
\* by the time the round reaches the stage (the `expect` of execute), and a
\* backward always follows its own forward.  Only a call without communicators
\* panics.
NoPanic == result = "panic" => world_size = 0

\* The i-th input of stage s is micro-batch i - 1 after exactly s stages, and
\* the process hand-over spares it the FP8 wire format.
OwnActivations ==
  \A s \in Stages : \A i \in 1 .. Len(stage_inputs[s]) :
    stage_inputs[s][i] = [mb |-> i - 1, hops |-> s, fp8 |-> 0]

\* Backward takes the micro-batches in order, each with the input its own
\* forward had, although forwards of later micro-batches came in between.
BackwardOnOwnInput ==
  \A s \in Stages : \A i \in 1 .. Len(backward_calls[s]) :
    /\ i <= Len(stage_inputs[s])
    /\ backward_calls[s][i].input = stage_inputs[s][i]

\* What 1F1B is for: between their forward and their backward a stage has no
\* more micro-batches than there are stages from it to the last.
InFlightBound ==
  \A s \in Stages :
    Len(stage_inputs[s]) - Len(backward_calls[s]) <= num_stages - s

\* An activation handed over is taken before the next one comes.
HandOverBound == \A s \in Stages : Cardinality(pending_fwd[s]) <= 1

\* Ok means that every stage ran every micro-batch forward and backward.
CompleteOnOk ==
  result = "ok" =>
    \A s \in Stages : /\ Len(stage_inputs[s]) = num_microbatches
                      /\ Len(backward_calls[s]) = num_microbatches
                      /\ pending_fwd[s] = {}

\* With fewer communicators than stages the run ends at the first activation
\* that would leave the world.  A stage that cannot pass its output on computes
\* one micro-batch at most: the send fails or, without a communicator of the
\* stage's own, panics.  No stage but the first computes outside the world.
NoWorkBeyondWorld ==
  /\ \A s \in Stages : s < num_stages - 1 /\ s + 1 >= world_size =>
       Len(stage_inputs[s]) <=
         IF result = (IF s < world_size THEN "err" ELSE "panic") THEN 1 ELSE 0
  /\ \A s \in Stages : s > 0 /\ s >= world_size => stage_inputs[s] = <<>>

\* The schedule implements Pipeline, without the order of the backward pass:
\* the cells run are read off the data the stages were really given.
ForwardCells ==
  UNION {{<<s, stage_inputs[s][i].mb>> : i \in 1 .. Len(stage_inputs[s])} : s \in Stages}
BackwardCells ==
  UNION {{<<s, backward_calls[s][i].input.mb>> : i \in 1 .. Len(backward_calls[s])} : s \in Stages}

P == INSTANCE Pipeline WITH
       forwards <- ForwardCells, backwards <- BackwardCells, ChainBackward <- FALSE

ImplementsPipeline == P!Spec

\* NOT so in the code: the gradient a stage propagates comes from the stages
\* after it, as it does in GPipe.
GradientFromNextStage ==
  \A s \in Stages : \A i \in DOMAIN backward_calls[s] :
    backward_calls[s][i].grad.hops = num_stages - 1 - s
==============================================================================
