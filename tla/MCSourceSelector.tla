-------------------------- MODULE MCSourceSelector --------------------------
(* Values for SourceSelector's constants in the model-checking runs.       *)
EXTENDS SourceSelector, TLC

(* One mode, two packets per window: the loss of one packet passes the 5 % *)
(* gate.                                                                   *)
OneMode == {0}
TwoModes == {0, 1}
TwoPerWindow == [m \in Modes |-> 2]

NoLoss == {[ok |-> TRUE, lost |-> 0, recovered |-> 0]}
SomeBad == NoLoss \cup {[ok |-> FALSE, lost |-> 0, recovered |-> 0]}
SomeLoss == NoLoss \cup {[ok |-> TRUE, lost |-> 1, recovered |-> 0]}

Unranked == {-128}
Ranked == {-70, -60}

MacSymmetry == Permutations(Macs)
=============================================================================
