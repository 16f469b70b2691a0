--------------------------- MODULE MCStreamPacket ---------------------------
(* Values for StreamPacket's constants: SOLID with an even and LITE with an *)
(* odd number of frames, STEREO and FINE; payloads that tell channels,      *)
(* nibbles and packets apart.                                               *)
EXTENDS StreamPacket, TLC

Streams == {[mode |-> 0, frames |-> 2], [mode |-> 6, frames |-> 3],
            [mode |-> 4, frames |-> 1], [mode |-> 8, frames |-> 1]}

MCPayloads ==
  [s \in Streams |->
     CASE s.mode = 0 -> {<<<<7, 0>>, <<12, 5>>>>, <<<<15, 7>>, <<1, 8>>>>}
       [] s.mode = 6 -> {<<<<7, 12, 0>>>>, <<<<15, 15, 7>>>>}
       [] OTHER      -> {<<9>>, <<0, 255>>}]

(* One channel quiet, the other at full scale with the largest step.        *)
Quiet == [predictor |-> -3, step_index |-> 0]
Loud == [predictor |-> 32760, step_index |-> 88]
TwoStates == {<<Quiet, Loud>>, <<Loud, Quiet>>}

(* Headers that fit no body: modes beyond the table, lengths and counts     *)
(* that point past the end, and step indices no coder has.                  *)
Strays ==
  {[k \in 1 .. len |-> CASE k = 1 -> PKT_STREAM [] k = 2 -> mode [] k = 4 -> pb
                         [] k = 5 -> n [] OTHER -> fill] :
     len \in {4, 5, 6, 8, 9, 11, 12, 13, 20}, mode \in {0, 4, 6, 10, 127, 134},
     pb \in {0, 1, 255}, n \in {0, 1, 2, 65, 255}, fill \in {0, 1, 255}}
=============================================================================
