----------------------------- MODULE StreamModes -----------------------------
(* HapbeatStreamModes: what the mode id of a 0xAA packet says of its body.  *)
EXTENDS Integers, Sequences

MODE_COUNT == 10

Adpcm(channels) == [codec |-> "adpcm", channels |-> channels]
Opus(channels) == [codec |-> "opus", channels |-> channels]

(* kModes: SOLID, FAST, BALANCED, SMOOTH, STEREO, HIFI, LITE, TURBO, FINE,  *)
(* SOLID48.                                                                 *)
kModes == <<Adpcm(2), Opus(1), Opus(1), Opus(1), Opus(2), Opus(2),
            Adpcm(1), Adpcm(1), Opus(1), Opus(2)>>

(* An id out of range is read as mode 0.                                    *)
modeInfo(id) == kModes[(IF id < MODE_COUNT THEN id ELSE 0) + 1]
=============================================================================
