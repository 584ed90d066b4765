------------------------------ MODULE StageData ------------------------------
(***************************************************************************)
(* What a pipeline stage computes with: mt-pipeline/src/stage.rs.          *)
(*                                                                         *)
(* The matrix itself plays no part in how a schedule behaves, so a         *)
(* StageData value is its provenance: the micro-batch it belongs to, how   *)
(* many stages it has passed through, and how many times it went through   *)
(* the FP8 wire format of PipelineComm, which is lossy.                    *)
(***************************************************************************)
EXTENDS Naturals

\* StageData::new(vec![1.0; 4], 2, 2): the constant matrix the schedules feed
\* to the first forward and to the first backward of a micro-batch.
Fresh(mb) == [mb |-> mb, hops |-> 0, fp8 |-> 0]

\* PipelineStage::forward and ::backward: one more stage passed.
Through(data) == [data EXCEPT !.hops = @ + 1]

\* compress_stage_data, then decompress_stage_data at the other end: the same
\* rows and columns, the values quantised once more.
Wire(data) == [data EXCEPT !.fp8 = @ + 1]

Provenance(Tags) == [mb : Tags, hops : Nat, fp8 : Nat]
==============================================================================
