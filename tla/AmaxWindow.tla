------------------------------ MODULE AmaxWindow ------------------------------
(***************************************************************************)
(* What delayed scaling promises: the scale of the next tensor covers the  *)
(* largest absolute value of the last tensors, as many as the history is   *)
(* long, and of none before them.  recent is those tensors by age, the     *)
(* latest at 0; peak is the value the scale is computed for, 0 standing    *)
(* for "no scale, 1.0".                                                    *)
(***************************************************************************)
EXTENDS Integers, FiniteSetsExt

CONSTANTS
  HistoryLengths,     \* the lengths a history may have
  Amaxes              \* the largest absolute values of the tensors; below 0: NaN

VARIABLES recent, peak

\* Values below zero, and NaN, do not count.
PeakOf(amaxes) == Max({0} \cup {amaxes[age] : age \in DOMAIN amaxes})

Init ==
  \E history_length \in HistoryLengths :
    /\ recent = [age \in 0 .. history_length - 1 |-> 0]
    /\ peak = 0

Update(amax) ==
  /\ recent' = [age \in DOMAIN recent |-> IF age = 0 THEN amax ELSE recent[age - 1]]
  /\ peak' = PeakOf(recent')

Next == \E amax \in Amaxes : Update(amax)

Spec == Init /\ [][Next]_<<recent, peak>>
==============================================================================
