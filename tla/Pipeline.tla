------------------------------- MODULE Pipeline -------------------------------
(***************************************************************************)
(* What Schedule::execute (mt-pipeline/src/schedule/mod.rs) promises,      *)
(* whatever the schedule: every micro-batch runs forward through the       *)
(* stages in order and then backward, each stage once, and the call        *)
(* returns Ok only when all of it has happened.                            *)
(*                                                                         *)
(* With ChainBackward the backward pass of a stage also waits for the      *)
(* stage after it, whose gradient it propagates.  GPipe implements the     *)
(* specification with ChainBackward, OneF1B only without it.               *)
(***************************************************************************)
EXTENDS Naturals, FiniteSets

CONSTANTS
  StageCounts,        \* the numbers of stages a pipeline may have
  MicrobatchCounts,   \* the numbers of micro-batches a run may be given
  ChainBackward       \* TRUE: gradients flow from the last stage to the first

VARIABLES
  num_stages,
  num_microbatches,
  forwards,           \* the <<stage, micro-batch>> pairs run forward
  backwards,          \* the <<stage, micro-batch>> pairs run backward
  result              \* "running", or how the call to execute ended

vars == <<num_stages, num_microbatches, forwards, backwards, result>>

Cells == (0 .. num_stages - 1) \X (0 .. num_microbatches - 1)
Failures == {"err", "panic"}

TypeOK ==
  /\ num_stages \in StageCounts
  /\ num_microbatches \in MicrobatchCounts
  /\ forwards \subseteq Cells
  /\ backwards \subseteq Cells
  /\ result \in {"running", "ok"} \cup Failures

Init ==
  /\ num_stages \in StageCounts
  /\ num_microbatches \in MicrobatchCounts
  /\ forwards = {}
  /\ backwards = {}
  /\ result = "running"

\* A stage runs a micro-batch forward, after the stage before it did; the
\* send that follows may fail and end the call.
Forward(s, mb) ==
  /\ result = "running"
  /\ <<s, mb>> \notin forwards
  /\ s > 0 => <<s - 1, mb>> \in forwards
  /\ forwards' = forwards \cup {<<s, mb>>}
  /\ result' \in {"running"} \cup Failures
  /\ UNCHANGED <<num_stages, num_microbatches, backwards>>

Backward(s, mb) ==
  /\ result = "running"
  /\ <<s, mb>> \in forwards \ backwards
  /\ ChainBackward /\ s < num_stages - 1 => <<s + 1, mb>> \in backwards
  /\ backwards' = backwards \cup {<<s, mb>>}
  /\ result' \in {"running"} \cup Failures
  /\ UNCHANGED <<num_stages, num_microbatches, forwards>>

Return ==
  /\ result = "running"
  /\ forwards = Cells
  /\ backwards = Cells
  /\ result' = "ok"
  /\ UNCHANGED <<num_stages, num_microbatches, forwards, backwards>>

\* A call may end without running anything more.
Fail ==
  /\ result = "running"
  /\ result' \in Failures
  /\ UNCHANGED <<num_stages, num_microbatches, forwards, backwards>>

\* PipelineExecutor::run may be called again, with another num_microbatches
\* (config is a public field).
RunAgain ==
  /\ result \in {"ok", "err"}
  /\ num_microbatches' \in MicrobatchCounts
  /\ forwards' = {}
  /\ backwards' = {}
  /\ result' = "running"
  /\ UNCHANGED num_stages

Next ==
  \/ \E cell \in Cells : Forward(cell[1], cell[2]) \/ Backward(cell[1], cell[2])
  \/ Return
  \/ Fail
  \/ RunAgain

Spec == Init /\ [][Next]_vars
==============================================================================
