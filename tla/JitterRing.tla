----------------------------- MODULE JitterRing -----------------------------
(***************************************************************************)
(* sink/HapbeatJitterRing: the lock-free ring between the Wi-Fi task, which*)
(* writes decoded frames and changes the jitter depth, and the audio task, *)
(* which reads blocks.  Each access to a shared variable is a step: the    *)
(* two indices are atomics, but the geometry and the priming flag are      *)
(* plain variables, so a change of depth reaches the reader field by field *)
(* and in any order, and the reader may see a new value at each place that *)
(* names a field.  A compiler that reads a field once for two places makes *)
(* the two steps follow each other at once.                                *)
(*                                                                         *)
(* A frame is the value the write index had when it was written.  Gain,    *)
(* the decay of a held frame and their sample values are left out.         *)
(***************************************************************************)
EXTENDS Integers, Sequences

CONSTANTS
  Capacity,     \* frames in the ring
  WordMod,      \* 2^32: the width of the indices
  DEADBAND,     \* the constant part of the drift deadband, 32 frames
  Depths,       \* depths that may be asked of setJitterFrames
  FirstDepth,   \* the depth at begin
  Batches,      \* frames of a writeFrames call
  Blocks,       \* frames of a read call
  MaxChanges    \* bound: changes of depth and reprimes

ASSUME RingAssumption ==
  /\ Capacity \in Nat /\ Capacity > 1
  /\ WordMod \in Nat /\ WordMod > Capacity /\ WordMod % Capacity = 0
  /\ DEADBAND \in Nat /\ MaxChanges \in Nat
  /\ Depths \subseteq Nat \ {0} /\ FirstDepth \in Nat \ {0}
  /\ Batches \subseteq Nat \ {0} /\ Blocks \subseteq Nat \ {0}

VARIABLES
  buf,          \* _buf: the frame in each slot
  w, r,         \* _w, _r
  geom,         \* _prebuf, _target, _max
  priming,      \* _priming
  held,         \* _holdL, _holdR: the last frame sourced
  prod,         \* the Wi-Fi task inside writeFrames or setJitterFrames
  cons,         \* the audio task inside read
  owed,         \* frames offered, less those sourced or counted in _dropped
  changes,
  pending,      \* history: a reprime the reader has not acted on
  torn          \* history: a trim to a depth above the fill has taken place

vars == <<buf, w, r, geom, priming, held, prod, cons, owed, changes, pending, torn>>

Index == 0 .. WordMod - 1
Plus(i, n) == (i + n) % WordMod
Minus(i, j) == (i - j) % WordMod
Slot(i) == i % Capacity

Geometry == [prebuf : 0 .. Capacity - 1, target : 0 .. Capacity - 1, max : 0 .. Capacity - 1]

(* The store of _priming stands with those of the geometry.                *)
Fields == {"prebuf", "target", "max", "priming"}

Calls == {"idle", "gate", "prime", "open", "above", "drop", "trim", "cut",
          "drift", "high", "low", "fill"}

TypeOK ==
  /\ buf \in [0 .. Capacity - 1 -> Index]
  /\ w \in Index /\ r \in Index /\ held \in Index /\ owed \in Index
  /\ geom \in Geometry /\ priming \in BOOLEAN
  /\ prod \in [batch : Index, copied : Index, todo : SUBSET Fields, geom : Geometry]
  /\ cons \in [pc : Calls, r : Index, fill : Index, left : Nat, drift : -1 .. 1,
               dead : Nat, late : BOOLEAN]
  /\ changes \in 0 .. MaxChanges /\ pending \in BOOLEAN /\ torn \in BOOLEAN

Least(a, b) == IF a < b THEN a ELSE b

(* Mutant: depths beyond the ring accepted.                                *)
Unclamped(d) ==
  [prebuf |-> d, target |-> d, max |-> IF d + d \div 2 <= d THEN d + 1 ELSE d + d \div 2]

(* Callers pass max = target + target / 2.                                 *)
Clamped(d) ==
  LET cap == Capacity - 1
      max == IF d + d \div 2 <= d THEN d + 1 ELSE d + d \div 2
  IN  [prebuf |-> Least(d, cap), target |-> Least(d, cap), max |-> Least(max, cap)]

Idle == [pc |-> "idle", r |-> 0, fill |-> 0, left |-> 0, drift |-> 0, dead |-> 0,
         late |-> FALSE]

Init ==
  /\ buf = [i \in 0 .. Capacity - 1 |-> 0]
  /\ w = 0 /\ r = 0 /\ held = 0 /\ owed = 0
  /\ geom = Clamped(FirstDepth) /\ priming = TRUE
  /\ prod = [batch |-> 0, copied |-> 0, todo |-> {}, geom |-> geom]
  /\ cons = Idle
  /\ changes = 0 /\ pending = FALSE /\ torn = FALSE

reader == <<r, held, cons>>

(***************************************************************************)
(* The producer.                                                           *)
(***************************************************************************)
ProducerIdle == prod.batch = 0 /\ prod.todo = {}

(* Mutants: the overrun not counted; one frame more than the ring holds.   *)
WriteBeginUncounted(n) ==
  LET fits == Least(n, Minus(Capacity, Minus(w, r)))
  IN  /\ ProducerIdle
      /\ prod' = [prod EXCEPT !.batch = fits, !.copied = 0]
      /\ owed' = Plus(owed, n)
      /\ UNCHANGED <<buf, w, geom, priming, reader, changes, pending, torn>>

WriteBeginOver(n) ==
  LET fits == Least(n, Minus(Capacity + 1, Minus(w, r)))
  IN  /\ ProducerIdle
      /\ prod' = [prod EXCEPT !.batch = fits, !.copied = 0]
      /\ owed' = Plus(owed, fits)
      /\ UNCHANGED <<buf, w, geom, priming, reader, changes, pending, torn>>

(* The loads of both indices; what does not fit is dropped, newest first.  *)
WriteBegin(n) ==
  LET fits == Least(n, Minus(Capacity, Minus(w, r)))
  IN  /\ ProducerIdle
      /\ prod' = [prod EXCEPT !.batch = fits, !.copied = 0]
      /\ owed' = Plus(owed, fits)
      /\ UNCHANGED <<buf, w, geom, priming, reader, changes, pending, torn>>

CopyFrame ==
  /\ prod.copied < prod.batch
  /\ buf' = [buf EXCEPT ![Slot(Plus(w, prod.copied))] = Plus(w, prod.copied)]
  /\ prod' = [prod EXCEPT !.copied = prod.copied + 1]
  /\ UNCHANGED <<w, geom, priming, reader, owed, changes, pending, torn>>

WriteEnd ==
  /\ prod.batch > 0 /\ prod.copied = prod.batch
  /\ w' = Plus(w, prod.batch)
  /\ prod' = [prod EXCEPT !.batch = 0, !.copied = 0]
  /\ UNCHANGED <<buf, geom, priming, reader, owed, changes, pending, torn>>

SetJitterFrames(d) ==
  /\ ProducerIdle /\ changes < MaxChanges
  /\ Clamped(d) # geom
  /\ prod' = [prod EXCEPT !.todo = Fields, !.geom = Clamped(d)]
  /\ changes' = changes + 1
  /\ UNCHANGED <<buf, w, geom, priming, reader, owed, pending, torn>>

Reprime ==
  /\ ProducerIdle /\ changes < MaxChanges
  /\ prod' = [prod EXCEPT !.todo = {"priming"}]
  /\ changes' = changes + 1
  /\ UNCHANGED <<buf, w, geom, priming, reader, owed, pending, torn>>

(* One plain store, in no particular order.                                *)
Store(f) ==
  /\ f \in prod.todo
  /\ prod' = [prod EXCEPT !.todo = prod.todo \ {f}]
  /\ geom' = IF f = "priming" THEN geom ELSE [geom EXCEPT ![f] = prod.geom[f]]
  /\ priming' = IF f = "priming" THEN TRUE ELSE priming
  /\ pending' = IF prod.todo = {f} THEN TRUE ELSE pending
  /\ UNCHANGED <<buf, w, reader, owed, changes, torn>>

(***************************************************************************)
(* The consumer: read(), from its loads to its last store.                 *)
(***************************************************************************)
writer == <<buf, w, prod, changes>>

(* Frames before the new index are discarded, and counted.                 *)
Discard(n) ==
  /\ r' = Plus(cons.r, n)
  /\ owed' = Minus(owed, n)

(* The fill is brought down to a depth, by an unsigned difference.         *)
TrimTo(depth, next) ==
  LET drop == Minus(cons.fill, depth)
  IN  /\ Discard(drop)
      /\ cons' = [cons EXCEPT !.pc = next, !.r = Plus(cons.r, drop), !.fill = depth]
      /\ torn' = (torn \/ depth > cons.fill)
      /\ UNCHANGED <<writer, geom, priming, held, pending>>

ReadBegin(n) ==
  /\ cons.pc = "idle"
  /\ cons' = [Idle EXCEPT !.pc = "gate", !.r = r, !.fill = Minus(w, r), !.left = n,
                          !.late = pending]
  /\ UNCHANGED <<writer, r, geom, priming, held, owed, pending, torn>>

(* The call has come so far, with nothing stored.                          *)
Step(here, next) ==
  /\ cons.pc = here
  /\ cons' = [cons EXCEPT !.pc = next]
  /\ UNCHANGED <<writer, r, geom, held, owed, torn>>

Gate == Step("gate", IF priming THEN "prime" ELSE "trim") /\ UNCHANGED <<priming, pending>>

(* While priming, a block that finds less than the pre-buffer depth is     *)
(* concealed and the call returns.                                         *)
Prime ==
  LET enough == cons.fill >= geom.prebuf
  IN  /\ cons.pc = "prime"
      /\ cons' = IF enough THEN [cons EXCEPT !.pc = "open", !.late = FALSE] ELSE Idle
      /\ pending' = (pending /\ ~enough)
      /\ UNCHANGED <<writer, r, geom, priming, held, owed, torn>>

Open == Step("open", "above") /\ priming' = FALSE /\ UNCHANGED pending

(* What is stale above the start depth goes: the depth is read for the     *)
(* test, and again for the difference.                                     *)
Above ==
  /\ Step("above", IF cons.fill > geom.prebuf THEN "drop" ELSE "trim")
  /\ UNCHANGED <<priming, pending>>

Drop == cons.pc = "drop" /\ TrimTo(geom.prebuf, "trim")

(* The hard trim reads _max, and then _target.                             *)
Trim ==
  /\ Step("trim", IF cons.fill > geom.max THEN "cut" ELSE "drift")
  /\ UNCHANGED <<priming, pending>>

Cut == cons.pc = "cut" /\ TrimTo(geom.target, "drift")

(* The drift correction reads _target up to three times.                   *)
Drift ==
  /\ cons.pc = "drift"
  /\ cons' = [cons EXCEPT !.pc = "high", !.dead = geom.target \div 4 + DEADBAND]
  /\ UNCHANGED <<writer, r, geom, priming, held, owed, pending, torn>>

High ==
  /\ cons.pc = "high"
  /\ IF cons.fill > Plus(geom.target, cons.dead)
     THEN /\ Discard(1)
          /\ cons' = [cons EXCEPT !.pc = "fill", !.drift = 1,
                                  !.r = Plus(cons.r, 1), !.fill = cons.fill - 1]
     ELSE cons' = [cons EXCEPT !.pc = "low"] /\ UNCHANGED <<r, owed>>
  /\ UNCHANGED <<writer, geom, priming, held, pending, torn>>

Low ==
  LET rebuild == cons.fill > 0 /\ Plus(cons.fill, cons.dead) < geom.target
  IN  /\ cons.pc = "low"
      /\ cons' = [cons EXCEPT !.pc = "fill", !.drift = IF rebuild THEN -1 ELSE 0]
      /\ UNCHANGED <<writer, r, geom, priming, held, owed, pending, torn>>

(* The last frame of a block is repeated when the depth is being rebuilt.  *)
Repeats == cons.drift = -1 /\ cons.left = 1

(* One frame of the block: the write index is loaded again before the      *)
(* reader concedes an under-run.                                           *)
FillFrame ==
  LET fill == IF cons.fill = 0 THEN Minus(w, cons.r) ELSE cons.fill
  IN  /\ cons.pc = "fill" /\ cons.left > 0
      /\ IF Repeats \/ fill = 0
         THEN /\ cons' = [cons EXCEPT !.left = cons.left - 1]
              /\ UNCHANGED <<held, owed>>
         ELSE /\ held' = buf[Slot(cons.r)]
              /\ owed' = Minus(owed, 1)
              /\ cons' = [cons EXCEPT !.left = cons.left - 1, !.fill = fill - 1,
                                      !.r = Plus(cons.r, 1)]
      /\ UNCHANGED <<writer, r, geom, priming, pending, torn>>

ReadEnd ==
  /\ cons.pc = "fill" /\ cons.left = 0
  /\ r' = cons.r /\ cons' = Idle
  /\ UNCHANGED <<writer, geom, priming, held, owed, pending, torn>>

Producer ==
  \/ \E n \in Batches : WriteBegin(n)
  \/ CopyFrame \/ WriteEnd
  \/ \E d \in Depths : SetJitterFrames(d)
  \/ Reprime
  \/ \E f \in Fields : Store(f)

Consumer ==
  \/ \E n \in Blocks : ReadBegin(n)
  \/ Gate \/ Prime \/ Open \/ Above \/ Drop \/ Trim \/ Cut
  \/ Drift \/ High \/ Low \/ FillFrame \/ ReadEnd

Next == Producer \/ Consumer

Safety == Init /\ [][Next]_vars

(* The stream keeps coming, setJitterFrames returns, and the audio task    *)
(* runs.                                                                   *)
Fairness ==
  /\ WF_vars(\E n \in Batches : WriteBegin(n)) /\ WF_vars(CopyFrame \/ WriteEnd)
  /\ \A f \in Fields : WF_vars(Store(f))
  /\ WF_vars(Consumer)

Spec == Safety /\ Fairness

(***************************************************************************)
(* Properties.                                                             *)
(***************************************************************************)
(* Where the reader stands: its own index inside a call, _r outside.       *)
Reading == IF cons.pc = "idle" THEN r ELSE cons.r

(* Every frame offered is played, still in the ring, or counted in         *)
(* droppedFrames(): none is lost silently and none is counted twice.       *)
Accounted == owed = Plus(Minus(w, Reading), prod.batch)

(* As a queue: the frames from the reader to the writer.                   *)
Fifo == INSTANCE LossyFifo WITH
  Numbers <- WordMod, Bound <- Capacity, next <- w,
  queue <- [i \in 1 .. Minus(w, Reading) |-> Plus(Reading, i - 1)]

(* The ring is a lossy FIFO: frames are played in the order they were      *)
(* written, none twice and none that is being overwritten.                 *)
ImplementsFifo == Fifo!Spec

(* Whatever depths are asked for, and whatever the interleaving, it is one *)
(* up to the moment a trim takes the fill to a depth above it: nothing     *)
(* else that a change of depth does can break the queue.                   *)
FifoUntilTorn == Fifo!Init /\ [][~torn' => Fifo!Next]_(Fifo!vars)

(* Playback starts: priming does not last while frames keep coming,        *)
(* whatever depth was asked for.                                           *)
PlaysAgain == []<>(~priming)

(* Only the reader moves _r, and only forward: a trim drops frames that    *)
(* are in the ring.                                                        *)
Forward == Minus(Reading', Reading) <= Minus(w, Reading)
IndexMovesForward == [][Forward]_vars

(* The same of the hard trim alone.                                        *)
HardTrimForward == [][cons.pc = "cut" => Forward]_vars

(* A new depth is adopted now: a block that starts after the reprime is    *)
(* played only if it found the pre-buffer depth.                           *)
NewDepthAdopted == [][held' # held => ~cons.late]_vars
=============================================================================
