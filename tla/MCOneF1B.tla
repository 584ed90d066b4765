------------------------------- MODULE MCOneF1B -------------------------------
(***************************************************************************)
(* OneF1B for TLC: every run of up to 6 stages, 7 micro-batches and 6      *)
(* communicators.                                                          *)
(***************************************************************************)
EXTENDS OneF1B

MCStageCounts == 0 .. 6
MCMicrobatchCounts == 0 .. 7
MCWorldSizes == 0 .. 6

\* The closed form OneF1B uses is the schedule those loops build, for every
\* number of micro-batches and every warmup that fits.
ASSUME ScheduleAsBuilt ==
  \A total \in MCMicrobatchCounts : \A warmup \in 0 .. total :
    LET built == build_schedule(warmup, total)
    IN  /\ Len(built) = 2 * total
        /\ \A k \in 1 .. Len(built) : built[k] = ScheduledOp(warmup, total, k - 1)
==============================================================================
