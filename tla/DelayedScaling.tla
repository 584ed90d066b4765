---------------------------- MODULE DelayedScaling ----------------------------
(***************************************************************************)
(* DelayedScaling, mt-core/src/precision/scaling.rs: a ring of the largest *)
(* absolute values (amax) of the last tensors, from which the FP8 scale of *)
(* the next one is computed before it has been seen.                       *)
(*                                                                         *)
(* An amax is an integer; NaN, which f32::max passes over, is a value      *)
(* below 0, and infinity the largest of them.                              *)
(***************************************************************************)
EXTENDS Integers, FiniteSetsExt

CONSTANTS
  HistoryLengths,     \* what new() is called with
  Amaxes              \* what update() is called with

ASSUME DelayedScalingAssumption ==
  /\ HistoryLengths \subseteq Nat
  /\ Amaxes \subseteq Int

VARIABLES
  history_length,
  amax_history,
  cursor,
  panicked            \* has update() indexed a history of no entries?

vars == <<history_length, amax_history, cursor, panicked>>

Slots == 0 .. history_length - 1

TypeOK ==
  /\ history_length \in HistoryLengths
  /\ amax_history \in [Slots -> Amaxes \cup {0}]
  /\ history_length > 0 => cursor \in Slots
  /\ history_length = 0 => cursor = 0
  /\ panicked \in BOOLEAN
  /\ panicked => history_length = 0

Init ==
  /\ history_length \in HistoryLengths
  /\ amax_history = [slot \in Slots |-> 0]
  /\ cursor = 0
  /\ panicked = FALSE

\* Faulty: the ring does not wrap around.
UpdateUnwrapped(amax) ==
  /\ ~panicked
  /\ history_length > 0
  /\ cursor < history_length
  /\ amax_history' = [amax_history EXCEPT ![cursor] = amax]
  /\ cursor' = cursor + 1
  /\ UNCHANGED <<history_length, panicked>>

Update(amax) ==
  /\ ~panicked
  /\ history_length > 0
  /\ amax_history' = [amax_history EXCEPT ![cursor] = amax]
  /\ cursor' = (cursor + 1) % history_length
  /\ UNCHANGED <<history_length, panicked>>

\* The index into a history of length zero is out of bounds.
UpdatePanics ==
  /\ ~panicked
  /\ history_length = 0
  /\ panicked' = TRUE
  /\ UNCHANGED <<history_length, amax_history, cursor>>

Next == (\E amax \in Amaxes : Update(amax)) \/ UpdatePanics

Spec == Init /\ [][Next]_vars
------------------------------------------------------------------------------
\* Faulty: only the entries before the cursor.
current_amax_before == Max({0} \cup {amax_history[slot] : slot \in 0 .. cursor - 1})

\* compute_scale divides the largest FP8 value by this, unless it is 0, where
\* the scale is 1.
current_amax == Max({0} \cup {amax_history[slot] : slot \in Slots})

\* Where the ring keeps the entry of an age, the latest being of age 0.
SlotOf(age) == IF age < cursor THEN cursor - 1 - age ELSE cursor + history_length - 1 - age

Recent == [age \in Slots |-> amax_history[SlotOf(age)]]

Window == INSTANCE AmaxWindow WITH recent <- Recent, peak <- current_amax

\* compute_scale covers the largest value of exactly the last history_length
\* updates: none is dropped early when the ring wraps around, none stays longer,
\* and a NaN takes the place of an entry and nothing more.
ImplementsWindow == Window!Spec
==============================================================================
