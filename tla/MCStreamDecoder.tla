-------------------------- MODULE MCStreamDecoder --------------------------
(* Values for StreamDecoder's constants: one mode of each body, SOLID (0), *)
(* SOLID48 (9) and LITE (6) of HapbeatStreamModes.cpp.  SOLID48's frame is *)
(* 10 ms, 160 samples at 16 kHz; its outSamples are 480.                   *)
EXTENDS StreamDecoder, TLC

Bodies == (0 :> "solid") @@ (1 :> "opus") @@ (2 :> "mono")
Shapes == (0 :> 2) @@ (1 :> 2) @@ (2 :> 1)
Lengths == (0 :> 1) @@ (1 :> 3) @@ (2 :> 1)

MacSymmetry == Permutations(Macs)
=============================================================================
