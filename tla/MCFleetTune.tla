---------------------------- MODULE MCFleetTune ----------------------------
(* Values for FleetTune's constants: SOLID and TURBO of the mode table, and *)
(* for each parameter a value it rejects and two it accepts.                *)
EXTENDS FleetTune

Solid == 0
Turbo == 7
MCModes == {Solid, Turbo}
MCDepth == [m \in Modes |-> IF m = Solid THEN 480 ELSE 64]
OnlySolid == {Solid}

LockTimeoutValues == {4, 5, 50}
BufferAndVolumeValues == {3, 10, 20}
TwoValues == {0, 10}
=============================================================================
