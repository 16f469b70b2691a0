------------------------------ MODULE ImaAdpcm ------------------------------
(***************************************************************************)
(* codec/HapbeatImaAdpcm: one sample, and blocks of them, of the decoder   *)
(* the transmitter's encoder mirrors.  outside stands for whatever lies    *)
(* next to the step table, were it indexed past its end.                   *)
(***************************************************************************)
EXTENDS Integers, Sequences

STEP_TABLE ==
  <<7, 8, 9, 10, 11, 12, 13, 14, 16, 17, 19, 21, 23, 25, 28, 31, 34, 37, 41, 45, 50, 55,
    60, 66, 73, 80, 88, 97, 107, 118, 130, 143, 157, 173, 190, 209, 230, 253, 279, 307,
    337, 371, 408, 449, 494, 544, 598, 658, 724, 796, 876, 963, 1060, 1166, 1282, 1411,
    1552, 1707, 1878, 2066, 2272, 2499, 2749, 3024, 3327, 3660, 4026, 4428, 4871, 5358,
    5894, 6484, 7132, 7845, 8630, 9493, 10442, 11487, 12635, 13899, 15289, 16818, 18500,
    20350, 22385, 24623, 27086, 29794, 32767>>
STEP_INDEX_MAX == 88

(* INDEX_TABLE: the sign bit of a nibble does not count.                   *)
INDEX_TABLE == <<-1, -1, -1, -1, 2, 4, 6, 8>>
Adjustment(nibble) == INDEX_TABLE[(nibble % 8) + 1]

INT16_MIN == -32768
INT16_MAX == 32767
Int16 == INT16_MIN .. INT16_MAX
Nibble == 0 .. 15

Clip(x, low, high) == IF x < low THEN low ELSE IF x > high THEN high ELSE x

Step(index, outside) ==
  IF index <= STEP_INDEX_MAX THEN STEP_TABLE[index + 1] ELSE outside

Bit(nibble, weight) == (nibble \div weight) % 2
Difference(nibble, step) ==
  LET size == step \div 8 + Bit(nibble, 1) * (step \div 4)
                          + Bit(nibble, 2) * (step \div 2) + Bit(nibble, 4) * step
  IN  IF Bit(nibble, 8) = 1 THEN -size ELSE size

(* The index comes out of a packet: it is clamped before the table is read.*)
IndexOf(st) == Clip(st.step_index, 0, STEP_INDEX_MAX)

(* Mutant: the predictor is not clamped.                                   *)
DecodeSampleUnclipped(nibble, st, outside) ==
  [predictor |-> st.predictor + Difference(nibble, Step(IndexOf(st), outside)),
   step_index |-> Clip(IndexOf(st) + Adjustment(nibble), 0, STEP_INDEX_MAX)]

(* The state a sample leaves; the sample is its predictor.                 *)
DecodeSample(nibble, st, outside) ==
  [predictor |-> Clip(st.predictor + Difference(nibble, Step(IndexOf(st), outside)),
                      INT16_MIN, INT16_MAX),
   step_index |-> Clip(IndexOf(st) + Adjustment(nibble), 0, STEP_INDEX_MAX)]

(* The states of a block, the first before any sample.                     *)
States(nibbles, st, outside) ==
  LET s[k \in 0 .. Len(nibbles)] ==
        IF k = 0 THEN st ELSE DecodeSample(nibbles[k], s[k - 1], outside)
  IN  s

Block(nibbles, st, outside) ==
  LET s == States(nibbles, st, outside)
  IN  [k \in 1 .. Len(nibbles) |-> s[k].predictor]

(* Two samples to a byte, the low nibble first; a pad nibble is not read.  *)
MonoNibbles(bytes, n) ==
  [k \in 1 .. n |-> IF k % 2 = 1 THEN bytes[(k + 1) \div 2] % 16
                                 ELSE bytes[(k + 1) \div 2] \div 16]

(* A frame to a byte, the left channel in the low nibble.                  *)
LeftNibbles(bytes) == [k \in 1 .. Len(bytes) |-> bytes[k] % 16]
RightNibbles(bytes) == [k \in 1 .. Len(bytes) |-> bytes[k] \div 16]
=============================================================================
