----------------------------- MODULE MCCheckpoint -----------------------------
(***************************************************************************)
(* Checkpoint for TLC: stages of none to 5 layers, which Selective cannot  *)
(* cut, cuts evenly and cuts unevenly, and up to 3 micro-batches, so that  *)
(* a cached input can be overwritten before and after it was used.         *)
(***************************************************************************)
EXTENDS Checkpoint

MCLayerCounts == 0 .. 5
MCMaxMicro == 3
==============================================================================
