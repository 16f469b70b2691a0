------------------------------ MODULE LossyFifo ------------------------------
(***************************************************************************)
(* What the jitter buffer promises: a queue of frames that is bounded,     *)
(* that may skip its oldest frames, and that plays frames in the order     *)
(* they were accepted, none twice and none that was not written.           *)
(***************************************************************************)
EXTENDS Integers, Sequences

CONSTANTS
  Numbers,     \* frames are numbered 0 .. Numbers - 1, over and over
  Bound        \* the most frames the queue holds

VARIABLES
  queue,       \* accepted and not played or skipped, oldest first
  next,        \* the number of the next frame accepted
  held         \* the last frame played

vars == <<queue, next, held>>

Init == queue = <<>> /\ next = 0 /\ held = 0

Accept ==
  \E n \in 0 .. Bound - Len(queue) :
    /\ queue' = queue \o [i \in 1 .. n |-> (next + i - 1) % Numbers]
    /\ next' = (next + n) % Numbers
    /\ UNCHANGED held

Skip ==
  \E n \in 0 .. Len(queue) :
    /\ queue' = SubSeq(queue, n + 1, Len(queue))
    /\ UNCHANGED <<next, held>>

Play ==
  /\ queue # <<>>
  /\ held' = Head(queue) /\ queue' = Tail(queue)
  /\ UNCHANGED next

Next == Accept \/ Skip \/ Play

Spec == Init /\ [][Next]_vars
=============================================================================
