--------------------------- MODULE FleetRegister ---------------------------
(***************************************************************************)
(* What fleet tuning promises (HapbeatFleetTune.h): for each parameter the *)
(* operator issues versions 0, 1, 2, ... of a value, and a receiver holds  *)
(* one that was issued and is never older than the one it held before,     *)
(* until a power cycle makes it forget.  How versions travel as one-byte   *)
(* epochs that wrap is FleetTune's business.                               *)
(***************************************************************************)
EXTENDS Integers

CONSTANT Params

None == -1

VARIABLES
  issued,   \* the newest version of each parameter, None before the first
  held      \* the version a receiver holds, None when it holds none

vars == <<issued, held>>

Init ==
  /\ issued = [p \in Params |-> None]
  /\ held = [p \in Params |-> None]

Issue(p) ==
  /\ issued' = [issued EXCEPT ![p] = issued[p] + 1]
  /\ UNCHANGED held

Adopt(p, n) ==
  /\ held[p] <= n /\ n <= issued[p]
  /\ held' = [held EXCEPT ![p] = n]
  /\ UNCHANGED issued

Forget ==
  /\ held' = [p \in Params |-> None]
  /\ UNCHANGED issued

Next ==
  \/ \E p \in Params : Issue(p) \/ \E n \in 0 .. issued[p] : Adopt(p, n)
  \/ Forget

Spec == Init /\ [][Next]_vars
=============================================================================
