------------------------------ MODULE LossScaler ------------------------------
(***************************************************************************)
(* LossScaler, mt-core/src/precision/loss_scale.rs.                        *)
(*                                                                         *)
(* The scale is an f32 that starts at a power of two (65536 in the         *)
(* runtime, 1 for the static scaler) and is only ever doubled, halved and  *)
(* kept from going below 1, so it is its exponent: 0 .. MaxExponent, which *)
(* is 127 for f32.  Doubling 2^127 gives infinity, the value Inf, and half *)
(* of infinity is infinity.                                                *)
(***************************************************************************)
EXTENDS Naturals

CONSTANTS
  Modes,              \* a subset of {"dynamic", "static"}
  InitialExponents,   \* the exponents a scaler may start from
  GrowthIntervals,    \* clean updates before the scale doubles
  MaxExponent         \* of the largest power of two an f32 can hold

VARIABLES mode, growth_interval, exponent, growth_counter

Inf == MaxExponent + 1

TypeOK ==
  /\ mode \in Modes
  /\ growth_interval \in GrowthIntervals \cup {0}
  /\ exponent \in 0 .. Inf
  /\ growth_counter \in Nat
  /\ growth_counter = 0 \/ growth_counter < growth_interval

Doubled(e) == IF e = Inf THEN Inf ELSE e + 1
Halved(e) == IF e = Inf THEN Inf ELSE IF e = 0 THEN 0 ELSE e - 1

Overflowed ==
  /\ exponent' = Halved(exponent)
  /\ growth_counter' = 0

\* Faulty: growing at every update from the first growth on.
CleanUnreset ==
  /\ exponent' = IF growth_counter + 1 >= growth_interval THEN Doubled(exponent) ELSE exponent
  /\ growth_counter' = growth_counter + 1

Clean ==
  IF growth_counter + 1 >= growth_interval
    THEN exponent' = Doubled(exponent) /\ growth_counter' = 0
    ELSE growth_counter' = growth_counter + 1 /\ UNCHANGED exponent

Update(overflow) ==
  /\ IF mode = "static" THEN UNCHANGED <<exponent, growth_counter>>
     ELSE IF overflow THEN Overflowed
     ELSE Clean
  /\ UNCHANGED <<mode, growth_interval>>

\* LossScaler::reset
Reset(initial) ==
  /\ exponent' = initial
  /\ growth_counter' = 0
  /\ UNCHANGED <<mode, growth_interval>>
==============================================================================
