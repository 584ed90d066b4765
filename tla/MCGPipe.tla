-------------------------------- MODULE MCGPipe --------------------------------
(***************************************************************************)
(* GPipe for TLC: up to 3 runs of up to 4 stages and 3 micro-batches, over *)
(* every kind of communicator and up to 4 of them.                         *)
(***************************************************************************)
EXTENDS GPipe

MCStageCounts == 0 .. 4
MCMicrobatchCounts == 0 .. 3
MCWorldSizes == 0 .. 4
MCBackends == Communicators
MCMaxRuns == 3
==============================================================================
