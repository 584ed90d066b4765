---------------------------------- MODULE Fp8 ----------------------------------
(***************************************************************************)
(* Casting slices of values to FP8 and back, mt-core/src/precision: whole  *)
(* (to_fp8), with a scale delayed scaling has computed beforehand          *)
(* (to_fp8_with_scale), in blocks with a scale each (to_fp8_per_block), or *)
(* whole and through the wire format of mt-pipeline/src/communicator.rs,   *)
(* which keeps part of the tensor.  from_fp8 is given the tensor and has   *)
(* to find the scale and the format each value was cast with.              *)
(*                                                                         *)
(* The tensors come one after the other and share a DelayedScaling, which  *)
(* is told the amax of each tensor it cast; that caller is the one the     *)
(* public functions are made for.                                          *)
(*                                                                         *)
(* A value is its magnitude, below 0 for NaN.  A scale is the magnitude it *)
(* maps to the largest number of the format, which is that number divided  *)
(* by the scale: Infinity stands for the scale 0, and 0 for a scale that   *)
(* is infinite.                                                            *)
(***************************************************************************)
EXTENDS DelayedScaling, SequencesExt

CONSTANTS
  Slices,             \* sequences of values
  BlockSizes,         \* what to_fp8_per_block is called with
  Infinity,           \* f32::INFINITY
  Smallest            \* by format, the smallest amax whose scale is finite

Fp8Format == {"E4M3", "E5M2"}
fp8_format_max(format) == IF format = "E4M3" THEN 416 ELSE 49152

ASSUME Fp8Assumption ==
  /\ Slices \subseteq Seq(Int)
  /\ {0, 416, 49152} \subseteq Amaxes  \* what a tensor may report, see amax_of
  /\ Infinity \in Int /\ \A amax \in Amaxes : amax <= Infinity
  /\ Smallest \in [Fp8Format -> 1 .. 416]
  /\ \A slice \in Slices : \A i \in DOMAIN slice : slice[i] \in Amaxes
  /\ BlockSizes \subseteq Nat \ {0}     \* to_fp8_per_block asserts it

VARIABLES
  values,             \* the slice that is being cast
  block_size,         \* of its blocks; the length of the slice if it has none
  tensor,             \* what it was cast to, or None
  decoded             \* <<what from_fp8 made of it>>, or None

allVars == <<vars, values, block_size, tensor, decoded>>

None == <<>>

fp8Vars == <<values, block_size, tensor, decoded>>

Fp8TypeOK ==
  /\ TypeOK
  /\ values \in Slices
  /\ block_size \in Nat
  /\ tensor # None => tensor.format \in Fp8Format /\ Len(tensor.data) <= Len(values)
  /\ decoded # None => tensor # None /\ Len(decoded[1]) = Len(tensor.data)

Fp8Init ==
  /\ Init
  /\ values \in Slices /\ block_size = Len(values)
  /\ tensor = None /\ decoded = None
------------------------------------------------------------------------------
\* Fp8Tensor::new, with_block_scales and with_amax_history.
Tensor(data, format, scale, block_scales, amaxes) ==
  [data |-> data, format |-> format, scale |-> scale, block_scales |-> block_scales, amaxes |-> amaxes]

\* The largest magnitude of a slice; f32::max passes over NaN.
amax(slice) == Max({0} \cup {slice[i] : i \in DOMAIN slice})

\* The largest number of the format divided by an amax: 1.0 if that is 0, and
\* beyond the range of f32 if it is too small.
scale_for(peak, format) ==
  IF peak = 0 THEN fp8_format_max(format)
  ELSE IF peak < Smallest[format] THEN 0
  ELSE peak

\* DelayedScaling::compute_scale.
compute_scale(format) == scale_for(current_amax, format)

\* quantize_bytes: each value keeps what it was multiplied by and rounded to.
quantize_bytes(slice, format, scale) ==
  [i \in DOMAIN slice |-> [value |-> slice[i], scale |-> scale, format |-> format]]

to_fp8_with_scale(slice, format, scale) ==
  Tensor(quantize_bytes(slice, format, scale), format, scale, None, <<amax(slice)>>)

to_fp8(slice, format) == to_fp8_with_scale(slice, format, scale_for(amax(slice), format))

div_ceil(a, b) == (a + b - 1) \div b

\* Faulty: the last block is not cut off at the end of the slice, but moved back.
BlockMoved(slice, size, block_idx) ==
  LET end == Min({(block_idx + 1) * size, Len(slice)})
  IN  SubSeq(slice, Max({end - size, 0}) + 1, end)

\* The values of a block; the last block may be short.
Block(slice, size, block_idx) ==
  LET start == block_idx * size
  IN  SubSeq(slice, start + 1, Min({start + size, Len(slice)}))

to_fp8_per_block(slice, format, size) ==
  LET blocks == [b \in 1 .. div_ceil(Len(slice), size) |-> Block(slice, size, b - 1)]
      scales == [b \in DOMAIN blocks |-> scale_for(amax(blocks[b]), format)]
  IN  Tensor(FlattenSeq([b \in DOMAIN blocks |-> quantize_bytes(blocks[b], format, scales[b])]),
             format, IF scales = <<>> THEN fp8_format_max(format) ELSE scales[1], <<scales>>, <<amax(slice)>>)

\* Faulty: the format of the communicator, not the one of the message.
WireOwnFormat(t) == Tensor(t.data, "E4M3", t.scale, None, <<>>)

\* compress_stage_data and decompress_stage_data: the format as a byte, one scale
\* and the data; the amax stays behind.
Wire(t) ==
  LET format_byte == IF t.format = "E5M2" THEN 1 ELSE 0
  IN  Tensor(t.data, IF format_byte = 1 THEN "E5M2" ELSE "E4M3", t.scale, None, <<>>)

\* What the scale maps to the largest number, if the scale is above 0.
\* Faulty as the amax: always worked out from the scale.
amax_of_scale(t) == IF t.scale = Infinity THEN 0 ELSE t.scale

\* Fp8Tensor::amax: the last amax, or else what the scale tells of it.
amax_of(t) == IF t.amaxes # <<>> THEN Last(t.amaxes) ELSE amax_of_scale(t)

\* What from_fp8 takes for the size of the blocks.
inferred_block_size(t) ==
  IF t.block_scales[1] # <<>> THEN div_ceil(Len(t.data), Len(t.block_scales[1])) ELSE Len(t.data)

\* What from_fp8 divides a value by; a block without a scale counts as scale 1.0.
divisor(t, i) ==
  IF t.block_scales = None THEN t.scale
  ELSE LET block_idx == (i - 1) \div inferred_block_size(t)
       IN  IF block_idx < Len(t.block_scales[1]) THEN t.block_scales[1][block_idx + 1] ELSE fp8_format_max(t.format)

from_fp8(t) ==
  [i \in DOMAIN t.data |-> [value |-> t.data[i].value, scale |-> divisor(t, i), format |-> t.format]]
------------------------------------------------------------------------------
\* A slice is cast in one of the four ways.
Cast(format) ==
  /\ tensor = None
  /\ \/ /\ tensor' = to_fp8(values, format)
        /\ UNCHANGED block_size
     \/ /\ tensor' = to_fp8_with_scale(values, format, compute_scale(format))
        /\ UNCHANGED block_size
     \/ \E size \in BlockSizes :
          /\ tensor' = to_fp8_per_block(values, format, size)
          /\ block_size' = size
     \/ /\ tensor' = Wire(to_fp8(values, format))
        /\ UNCHANGED block_size
  /\ UNCHANGED <<vars, values, decoded>>

Decode ==
  /\ tensor # None /\ decoded = None
  /\ decoded' = <<from_fp8(tensor)>>
  /\ UNCHANGED <<vars, values, block_size, tensor>>

\* The caller tells delayed scaling of the tensor and takes the next slice.
Observe(slice) ==
  /\ decoded # None
  /\ Update(amax_of(tensor)) \/ UpdatePanics
  /\ values' = slice /\ block_size' = Len(slice)
  /\ tensor' = None /\ decoded' = None

\* Anybody may update the history, with any amax, between two tensors.
UpdateAny ==
  /\ tensor = None
  /\ Next
  /\ UNCHANGED fp8Vars

Fp8Next ==
  \/ \E format \in Fp8Format : Cast(format)
  \/ Decode
  \/ \E slice \in Slices : Observe(slice)
  \/ UpdateAny

Fp8Spec == Fp8Init /\ [][Fp8Next]_allVars
------------------------------------------------------------------------------
\* The blocks partition the slice, whatever is left for the last one: the data
\* holds every value once, in order; and in a tensor cast in blocks a value's
\* scale is that of the largest value of its own block, so that none is above
\* what its scale maps to the largest number unless the block is too small.
ScaledForOwnBlock ==
  tensor # None =>
    /\ [i \in DOMAIN tensor.data |-> tensor.data[i].value] = values
    /\ tensor.block_scales # None => \A i \in DOMAIN values :
         LET own == {j \in DOMAIN values : (j - 1) \div block_size = (i - 1) \div block_size}
         IN  tensor.data[i].scale =
               scale_for(Max({0} \cup {values[j] : j \in own}), tensor.format)

\* Values come back with the scale and the format they were cast with.  In
\* blocks this holds if the last one lacks fewer values than there are blocks,
\* or is the only one: then from_fp8 infers the size of the blocks.  (A scale of
\* 0 or of infinity brings no value back, and is found all the same.)
NearlyFull ==
  LET num_blocks == div_ceil(Len(values), block_size)
  IN  num_blocks <= 1 \/ num_blocks * block_size - Len(values) < num_blocks
RoundTripIfNearlyFull ==
  decoded # None /\ (tensor.block_scales = None \/ NearlyFull) => decoded[1] = tensor.data

\* An infinity that crosses the wire turns the scale into 0, from which amax
\* makes 0: delayed scaling is not told of it.
LostOnTheWire == tensor.amaxes = <<>> /\ amax(values) = Infinity

\* A delayed scale may be too large for a slice, whose values then saturate; but
\* once delayed scaling has been told of the tensor, also of one that came
\* over the wire, the scale it computes next is not too large for that slice,
\* unless an infinity was lost on the wire or all the history is so small that
\* the scale is infinite.
ObservedFits ==
  [][decoded # None /\ decoded' = None /\ ~panicked'
       /\ ~LostOnTheWire /\ current_amax' \notin 1 .. Smallest[tensor.format] - 1 =>
       \A i \in DOMAIN values : values[i] <= scale_for(current_amax', tensor.format)]_allVars
==============================================================================
