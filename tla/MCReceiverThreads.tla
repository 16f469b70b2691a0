------------------------- MODULE MCReceiverThreads -------------------------
(* One source changes its mode, the other has one of the two; and how long *)
(* the calls of the threads take.                                          *)
EXTENDS ReceiverThreads

TwoModes == [k \in Sources |-> IF k = 0 THEN {0, 1} ELSE {1}]

Prompt == [t \in Threads |-> 0]
SlowLoop == [t \in Threads |-> IF t = "loop" THEN 1 ELSE 0]

(* Bound: up to the return of the first idleTick() that onPacket() meets.  *)
FirstOverlap == h.overlap => InTick("loop")
=============================================================================
