----------------------------- MODULE FleetTune -----------------------------
(***************************************************************************)
(* Fleet tuning from the operator's hand to the receiver's settings: the   *)
(* 0xAC beacons a transmitter resends, a link that loses, duplicates and   *)
(* reorders them, FleetTune::onBeacon's epoch gate, what                   *)
(* StreamDecoder::onPacket applies, and the volume mailbox that            *)
(* dispatchDeferred() empties from another thread.                         *)
(*                                                                         *)
(* The transmitter is not in this repository: it is modelled from          *)
(* docs/wire-format.md and from what onBeacon expects of it (an epoch that *)
(* grows by one per change, a resend of the current value, a correction of *)
(* a bad value at the same epoch).                                         *)
(***************************************************************************)
EXTENDS Integers, FiniteSets

CONSTANTS
  Params,        \* the parameter ids the operator uses
  Values,        \* the bytes the operator may set
  Modes, Depth,  \* stream modes and their bufFrames
  EpochMod,      \* 2^8: the width of an epoch
  LegacyFlags,   \* {TRUE} when some beacons lack the epoch byte (len 4)
  MaxVersion,    \* bound: changes of a parameter
  MaxUpsets     \* bound: power cycles and lock losses of the receiver

FLEET_BUFFER_MS == 1
FLEET_SELECTION == 2
FLEET_LOCK_TIMEOUT == 3
FLEET_RESYNC_GAP == 4
FLEET_VOLUME_MAX == 5

FramesPerMs == 16

ASSUME FleetAssumption ==
  /\ Params \subseteq 1 .. 6 /\ Values \subseteq 0 .. 255
  /\ 0 \in Modes /\ Depth \in [Modes -> Nat]
  /\ EpochMod \in Nat /\ EpochMod > 1
  /\ LegacyFlags \subseteq BOOLEAN
  /\ MaxVersion \in Nat /\ MaxUpsets \in Nat

VARIABLES
  issued, value,     \* transmitter: version and value of each parameter
  air,               \* beacons that may still arrive, any number of times
  listening,         \* the transmitter is the locked source
  epoch, epochSet,   \* FleetTune::_epoch, _epochSet
  latched,           \* history: the version behind epoch
  opt,               \* DecoderOptions, as far as parameters 2 to 4 set them
  ring,              \* mode, standing override s_bufMs, target depth
  mail, box,         \* _pendingVolMax; dispatchDeferred()'s copy of it
  volume,            \* the ceiling last handed to the application, 0 for none
  upsets

transmitter == <<issued, value>>
gate == <<epoch, epochSet, latched>>
settings == <<opt, ring>>
mailbox == <<mail, box, volume>>
vars == <<transmitter, air, listening, gate, settings, mailbox, upsets>>

None == -1

Beacon == [param : Params, value : Values, legacy : BOOLEAN,
           epoch : 0 .. EpochMod - 1, version : 0 .. MaxVersion]

(* The settings a receiver may be in, whatever the air brings: those of    *)
(* the defaults and of the ranges onBeacon accepts.                        *)
Options == {o \in [2 .. 4 -> 0 .. 500] : o[2] <= 1 /\ o[3] >= 50 /\ o[4] \in 4 .. 64}
Rings == [mode : Modes, bufMs : {0} \cup 4 .. 60, depth : Nat]
Ceilings == {0} \cup 10 .. 100

TypeOK ==
  /\ issued \in [Params -> None .. MaxVersion] /\ value \in [Params -> Values \cup {None}]
  /\ air \subseteq Beacon /\ listening \in BOOLEAN
  /\ epoch \in [1 .. 5 -> 0 .. EpochMod - 1] /\ epochSet \in [1 .. 5 -> BOOLEAN]
  /\ latched \in [Params -> None .. MaxVersion]
  /\ opt \in Options
  /\ ring \in Rings
  /\ mail \in Ceilings /\ box \in Ceilings /\ volume \in Ceilings
  /\ upsets \in 0 .. MaxUpsets

(* Defaults of DecoderOptions: selection on, 150 ms, resync gap 20.        *)
Defaults == [p \in 2 .. 4 |-> CASE p = 2 -> 1 [] p = 3 -> 150 [] OTHER -> 20]
RingOf(mode) == [mode |-> mode, bufMs |-> 0, depth |-> Depth[mode]]

(* What FleetTune::reset leaves of the epochs.                             *)
NoEpoch == [p \in 1 .. 5 |-> 0]
NotSet == [p \in 1 .. 5 |-> FALSE]
NoVersion == [p \in Params |-> None]

Init ==
  /\ issued = [p \in Params |-> None] /\ value = [p \in Params |-> None]
  /\ air = {} /\ upsets = 0 /\ listening = FALSE
  /\ epoch = NoEpoch /\ epochSet = NotSet /\ latched = NoVersion
  /\ opt = Defaults /\ ring = RingOf(0)
  /\ mail = 0 /\ box = 0 /\ volume = 0

(***************************************************************************)
(* FleetTune::onBeacon.                                                    *)
(***************************************************************************)
(* Mutant: the timeout's lower bound left to the transmitter.              *)
InRangeLow(p, v) ==
  \/ p = FLEET_BUFFER_MS /\ (v = 0 \/ v \in 4 .. 60)
  \/ p = FLEET_SELECTION
  \/ p = FLEET_LOCK_TIMEOUT /\ v <= 50
  \/ p = FLEET_RESYNC_GAP /\ v \in 4 .. 64
  \/ p = FLEET_VOLUME_MAX /\ v \in 10 .. 100

InRange(p, v) ==
  \/ p = FLEET_BUFFER_MS /\ (v = 0 \/ v \in 4 .. 60)
  \/ p = FLEET_SELECTION
  \/ p = FLEET_LOCK_TIMEOUT /\ v \in 5 .. 50
  \/ p = FLEET_RESYNC_GAP /\ v \in 4 .. 64
  \/ p = FLEET_VOLUME_MAX /\ v \in 10 .. 100

HasEpoch(b) == ~b.legacy /\ b.param \in 1 .. 5

NotOlderAny(e, last) == TRUE
Newer(e, last) == 2 * ((e - last) % EpochMod) < EpochMod /\ e # last

(* (int8_t)(e - last) >= 0, whatever the width of an epoch.                *)
NotOlder(e, last) == 2 * ((e - last) % EpochMod) < EpochMod

EpochAllows(b) ==
  HasEpoch(b) /\ epochSet[b.param] => NotOlder(b.epoch, epoch[b.param])

Accepts(b) == EpochAllows(b) /\ InRange(b.param, b.value)

LatchAlways(b) ==
  /\ epoch' = [epoch EXCEPT ![b.param] = b.epoch]
  /\ epochSet' = [epochSet EXCEPT ![b.param] = TRUE]
  /\ latched' = [latched EXCEPT ![b.param] = b.version]

LatchEpoch(b) ==
  IF HasEpoch(b)
  THEN /\ epoch' = [epoch EXCEPT ![b.param] = b.epoch]
       /\ epochSet' = [epochSet EXCEPT ![b.param] = TRUE]
       /\ latched' = [latched EXCEPT ![b.param] = b.version]
  ELSE UNCHANGED gate

(***************************************************************************)
(* What onPacket does with an accepted beacon.                             *)
(***************************************************************************)
Stored(p, v) ==
  CASE p = FLEET_SELECTION -> (IF v # 0 THEN 1 ELSE 0)
    [] p = FLEET_LOCK_TIMEOUT -> 10 * v
    [] OTHER -> v

OverrideRaw(r, v) ==
  IF r.bufMs = v THEN r ELSE [r EXCEPT !.bufMs = v, !.depth = v * FramesPerMs]

(* The override is idempotent: the same value does not touch the ring.     *)
Override(r, v) ==
  IF r.bufMs = v THEN r
  ELSE [r EXCEPT !.bufMs = v,
                 !.depth = IF v = 0 THEN Depth[r.mode] ELSE v * FramesPerMs]

Apply(p, v) ==
  /\ ring' = IF p = FLEET_BUFFER_MS THEN Override(ring, v) ELSE ring
  /\ opt' = IF p \in 2 .. 4 THEN [opt EXCEPT ![p] = Stored(p, v)] ELSE opt
  /\ mail' = IF p = FLEET_VOLUME_MAX THEN v ELSE mail

(* A beacon reaches onPacket, which drops it unless it comes from the      *)
(* locked source; it may arrive again.                                     *)
OnBeacon(b) ==
  /\ b \in air
  /\ IF listening /\ Accepts(b)
     THEN LatchEpoch(b) /\ Apply(b.param, b.value)
     ELSE UNCHANGED <<gate, settings, mail>>
  /\ UNCHANGED <<transmitter, air, listening, box, volume, upsets>>

(***************************************************************************)
(* The rest of the receiver: applyMode, the lock coming and going, the     *)
(* loop thread's dispatchDeferred() in its two accesses to the mailbox,    *)
(* and a power cycle.                                                      *)
(***************************************************************************)
ApplyMode(m) ==
  /\ m # ring.mode
  /\ ring' = RingOf(m)
  /\ UNCHANGED <<transmitter, air, listening, gate, opt, mailbox, upsets>>

Relock ==
  /\ ~listening /\ listening' = TRUE
  /\ UNCHANGED <<transmitter, air, gate, settings, mailbox, upsets>>

Unlock ==
  /\ upsets < MaxUpsets
  /\ upsets' = upsets + 1
  /\ listening /\ listening' = FALSE
  /\ UNCHANGED <<transmitter, air, gate, settings, mailbox>>

DispatchRead ==
  /\ box = 0 /\ mail # 0
  /\ box' = mail
  /\ UNCHANGED <<transmitter, air, listening, gate, settings, mail, volume, upsets>>

DispatchClear ==
  /\ box # 0
  /\ mail' = 0 /\ volume' = box /\ box' = 0
  /\ UNCHANGED <<transmitter, air, listening, gate, settings, upsets>>

(* begin(): everything but what the application keeps.                     *)
Reboot ==
  /\ upsets < MaxUpsets
  /\ upsets' = upsets + 1
  /\ epoch' = NoEpoch /\ epochSet' = NotSet /\ latched' = NoVersion
  /\ opt' = Defaults /\ ring' = RingOf(0)
  /\ mail' = 0 /\ box' = 0 /\ listening' = FALSE
  /\ UNCHANGED <<transmitter, air, volume>>

(***************************************************************************)
(* The transmitter and the link.                                           *)
(***************************************************************************)
(* Epochs are compared by the sign of a one-byte difference: version n is  *)
(* told from version m as long as fewer than half of all epochs separate   *)
(* them.  A change waits until no beacon on the air and no receiver is     *)
(* half the epochs behind.                                                 *)
Tellable(n, m) == 2 * (n - m) < EpochMod

Change(p, v) ==
  /\ issued[p] < MaxVersion
  /\ latched[p] # None => Tellable(issued[p] + 1, latched[p])
  /\ issued' = [issued EXCEPT ![p] = issued[p] + 1]
  /\ value' = [value EXCEPT ![p] = v]
  /\ air' = {b \in air : b.param = p => Tellable(issued[p] + 1, b.version)}
  /\ UNCHANGED <<listening, gate, settings, mailbox, upsets>>

(* A value receivers reject is corrected without a new epoch.              *)
Correct(p, v) ==
  /\ issued[p] # None /\ ~InRange(p, value[p])
  /\ value' = [value EXCEPT ![p] = v]
  /\ UNCHANGED <<issued, air, listening, gate, settings, mailbox, upsets>>

(* A beacon without the epoch byte is read as epoch 0.                     *)
Current(p, legacy) ==
  [param |-> p, value |-> value[p], legacy |-> legacy,
   epoch |-> IF legacy THEN 0 ELSE issued[p] % EpochMod, version |-> issued[p]]

Resend(p, legacy) ==
  /\ issued[p] # None
  /\ air' = air \cup {Current(p, legacy)}
  /\ UNCHANGED <<transmitter, listening, gate, settings, mailbox, upsets>>

Lose(b) ==
  /\ b \in air
  /\ air' = air \ {b}
  /\ UNCHANGED <<transmitter, listening, gate, settings, mailbox, upsets>>

Next ==
  \/ \E p \in Params, v \in Values : Change(p, v) \/ Correct(p, v)
  \/ \E p \in Params, legacy \in LegacyFlags : Resend(p, legacy)
  \/ \E b \in air : Lose(b) \/ OnBeacon(b)
  \/ \E m \in Modes : ApplyMode(m)
  \/ Relock \/ Unlock
  \/ DispatchRead \/ DispatchClear
  \/ Reboot

Safety == Init /\ [][Next]_vars

(* The transmitter resends every 5 s, a receiver that lost its lock locks  *)
(* again, the link is fair to the current beacon, and the loop keeps       *)
(* calling tick().                                                         *)
Fairness ==
  /\ \A p \in Params :
       /\ WF_vars(Resend(p, FALSE))
       /\ SF_vars(listening /\ OnBeacon(Current(p, FALSE)))
  /\ WF_vars(Relock)
  /\ WF_vars(DispatchRead) /\ WF_vars(DispatchClear)

Spec == Safety /\ Fairness

(***************************************************************************)
(* Properties.                                                             *)
(***************************************************************************)
(* The receiver's gate implements FleetRegister: through wrapping epochs,  *)
(* resends, reordered and duplicated beacons, bad values and their         *)
(* corrections, the version it holds was issued and never goes back.       *)
Register == INSTANCE FleetRegister WITH held <- latched
ImplementsRegister == Register!Spec

(* What the gate compares is the epoch of the version held, and every      *)
(* beacon on the air is close enough to it to be told apart.               *)
GateFollowsVersion ==
  \A p \in Params \cap 1 .. 5 :
    /\ epochSet[p] <=> latched[p] # None
    /\ latched[p] # None => epoch[p] = latched[p] % EpochMod
    /\ \A b \in air : b.param = p /\ latched[p] # None
                        => Tellable(b.version, latched[p]) /\ Tellable(latched[p], b.version)

(* The ring's depth is the standing override, or the mode's default when   *)
(* there is none: a mode change forgets the override, a beacon restores it *)
(* once and not again.                                                     *)
DepthFollowsOverride ==
  ring.depth = IF ring.bufMs = 0 THEN Depth[ring.mode] ELSE ring.bufMs * FramesPerMs

InEffect(p) ==
  CASE p = FLEET_BUFFER_MS -> ring.bufMs = value[p]
    [] p = FLEET_VOLUME_MAX -> volume = value[p]
    [] OTHER -> opt[p] = Stored(p, value[p])

(* A venue never keeps a stale value: whatever was lost, reordered or      *)
(* rebooted, and whatever mode the stream switched to, the operator's      *)
(* value, if receivers accept it, is in effect again and again.            *)
Converges ==
  \A p \in Params : []<>(issued[p] # None /\ InRange(p, value[p]) => InEffect(p))

(* A volume ceiling is consumed exactly once: the mailbox is emptied of    *)
(* the value handed to the application and of no other.                    *)
VolumeHandedOver == [][mail # 0 /\ mail' = 0 /\ upsets' = upsets => volume' = mail]_vars
=============================================================================
