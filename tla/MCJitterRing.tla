---------------------------- MODULE MCJitterRing ----------------------------
(* Values for JitterRing's constants: depths of one frame, and one beyond  *)
(* the ring, each with its maximum below the other's target.               *)
EXTENDS JitterRing

FarDepths == {1, 9}
=============================================================================
