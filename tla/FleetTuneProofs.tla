-------------------------- MODULE FleetTuneProofs --------------------------
(***************************************************************************)
(* The epoch gate is sound for every width of an epoch, every set of       *)
(* parameters and values and any number of changes and power cycles: a     *)
(* receiver implements FleetRegister although it sees epochs that wrap.    *)
(*                                                                         *)
(* The argument: fewer than half of all epochs separate the version of any *)
(* beacon on the air, and of any receiver, from the newest version         *)
(* (Near), so the sign of the difference of two epochs is the sign of the  *)
(* difference of the versions behind them (EpochOrder).                    *)
(***************************************************************************)
EXTENDS FleetTune, TLAPS

(***************************************************************************)
(* Arithmetic of the one-byte difference.                                  *)
(***************************************************************************)
(* Quotient and remainder.                                                 *)
LEMMA DivMod ==
  ASSUME NEW M \in Nat, M > 0, NEW x \in Int
  PROVE  x = M * (x \div M) + (x % M) /\ x % M \in 0 .. M - 1 /\ x \div M \in Int
  OBVIOUS

(* A multiple of M that is not zero is at least M away from zero, one that *)
(* is not M or -M at least twice as far.                                   *)
LEMMA Multiples ==
  ASSUME NEW M \in Nat, M > 0, NEW k \in Int
  PROVE  /\ M * k \in Int
         /\ (k >= 1 => M * k >= M) /\ (k >= 2 => M * k >= 2 * M)
         /\ (k <= -1 => M * k <= -M) /\ (k <= -2 => M * k <= -2 * M)
         /\ (k = 0 => M * k = 0) /\ (k = 1 => M * k = M) /\ (k = -1 => M * k = -M)
  OBVIOUS

(* The remainder of a number smaller than the modulus, of either sign.     *)
LEMMA SmallMod ==
  ASSUME NEW M \in Nat, M > 0, NEW x \in Int, -M < x, x < M
  PROVE  x % M = IF x >= 0 THEN x ELSE x + M
<1> DEFINE q == x \div M
           r == x % M
<1>1. x = M * q + r /\ r \in 0 .. M - 1 /\ q \in Int
  BY DivMod
<1> HIDE DEF q, r
<1>2. (q >= 1 => M * q >= M) /\ (q <= -2 => M * q <= -2 * M)
  BY <1>1, Multiples
<1>3. q = 0 \/ q = -1
  BY <1>1, <1>2
<1>4. r = IF x >= 0 THEN x ELSE x + M
  BY <1>1, <1>3
<1> QED
  BY <1>4 DEF r

(* epochAllows: of two versions fewer than half the epochs apart, the sign *)
(* of the difference of their epochs tells which is the older.             *)
LEMMA EpochOrder ==
  ASSUME NEW n \in Int, NEW m \in Int, Tellable(n, m), Tellable(m, n)
  PROVE  NotOlder(n % EpochMod, m % EpochMod) <=> n >= m
<1> DEFINE M == EpochMod
           r == n % M
           s == m % M
           k == (n \div M) - (m \div M)
           j == M * k
<1>1. M \in Nat /\ M > 0 /\ 2 * (n - m) < M /\ 2 * (m - n) < M
  BY FleetAssumption DEF Tellable
<1> HIDE DEF M
<1>2. n = M * (n \div M) + r /\ r \in 0 .. M - 1 /\ n \div M \in Int
  BY <1>1, DivMod
<1>3. m = M * (m \div M) + s /\ s \in 0 .. M - 1 /\ m \div M \in Int
  BY <1>1, DivMod
<1>4. n - m = j + (r - s) /\ k \in Int
  BY <1>1, <1>2, <1>3
<1> HIDE DEF r, s, k
<1>5. /\ j \in Int
      /\ (k >= 2 => j >= 2 * M) /\ (k <= -2 => j <= -2 * M)
      /\ (k = 0 => j = 0) /\ (k = 1 => j = M) /\ (k = -1 => j = -M)
  BY <1>1, <1>4, Multiples
<1> HIDE DEF j
<1>6. k \in {-1, 0, 1}
  BY <1>1, <1>2, <1>3, <1>4, <1>5
<1>7. (r - s) % M = IF r - s >= 0 THEN r - s ELSE r - s + M
  BY <1>1, <1>2, <1>3, SmallMod
<1>8. 2 * ((r - s) % M) < M <=> n >= m
  BY <1>1, <1>2, <1>3, <1>4, <1>5, <1>6, <1>7
<1> QED
  BY <1>8 DEF NotOlder, M, r, s

(***************************************************************************)
(* The inductive invariant.                                                *)
(***************************************************************************)
(* Everything a receiver holds or may still hear was issued, and is near   *)
(* enough to the newest version to be told from it.                        *)
Near ==
  /\ \A b \in air : /\ ~b.legacy => b.epoch = b.version % EpochMod
                    /\ b.version <= issued[b.param]
                    /\ Tellable(issued[b.param], b.version)
  /\ \A p \in Params : latched[p] # None =>
       latched[p] <= issued[p] /\ Tellable(issued[p], latched[p])

Gate ==
  \A p \in Params \cap 1 .. 5 :
    /\ epochSet[p] <=> latched[p] # None
    /\ latched[p] # None => epoch[p] = latched[p] % EpochMod

(* The transmitter has a value to resend once it has issued a version.     *)
Announced == \A p \in Params : issued[p] # None => value[p] \in Values

Inv == TypeOK /\ Near /\ Gate /\ Announced

(* Near and Gate together are what the runs check of the gate.             *)
LEMMA InvGate ==
  ASSUME Inv
  PROVE  GateFollowsVersion
<1> SUFFICES ASSUME NEW p \in Params \cap 1 .. 5, latched[p] # None,
                    NEW b \in air, b.param = p
             PROVE  Tellable(b.version, latched[p]) /\ Tellable(latched[p], b.version)
  BY DEF Inv, Gate, GateFollowsVersion
<1>1. b.version \in Int /\ latched[p] \in Int /\ issued[p] \in Int /\ EpochMod \in Nat
  BY FleetAssumption DEF Inv, TypeOK, Beacon, None
<1>2. /\ b.version <= issued[p] /\ latched[p] <= issued[p]
      /\ Tellable(issued[p], b.version) /\ Tellable(issued[p], latched[p])
  BY DEF Inv, Near
<1> QED
  BY <1>1, <1>2 DEF Tellable

(* No beacon and no version held at the start.                             *)
LEMMA InitInv ==
  ASSUME Init
  PROVE  Inv
<1>1. /\ 0 \in 0 .. EpochMod - 1 /\ None \in None .. MaxVersion
      /\ 0 \in 0 .. MaxUpsets /\ 0 \in Modes /\ Depth[0] \in Nat
  BY FleetAssumption DEF None
<1>2. Defaults \in Options /\ RingOf(0) \in Rings /\ 0 \in Ceilings
  BY <1>1 DEF Defaults, Options, RingOf, Rings, Ceilings
<1>3. TypeOK
  BY <1>1, <1>2 DEF Init, TypeOK, NoEpoch, NotSet, NoVersion
<1> QED
  BY <1>3 DEF Init, Inv, Near, Gate, Announced, NoVersion, NotSet

(***************************************************************************)
(* The receiver's step on a beacon.                                        *)
(***************************************************************************)
(* An accepted beacon is not older than the version held.                  *)
LEMMA AcceptedNotOlder ==
  ASSUME Inv, NEW b \in air, Accepts(b), HasEpoch(b)
  PROVE  latched[b.param] <= b.version
<1> DEFINE p == b.param
<1>1. /\ p \in Params \cap 1 .. 5 /\ b.version \in Nat /\ b.epoch = b.version % EpochMod
      /\ latched[p] \in Int
  BY DEF Inv, TypeOK, Near, Beacon, HasEpoch, None
<1>2. CASE latched[p] = None
  BY <1>1, <1>2 DEF None
<1>3. CASE latched[p] # None
  <2>1. epochSet[p] /\ epoch[p] = latched[p] % EpochMod
    BY <1>1, <1>3 DEF Inv, Gate
  <2>2. NotOlder(b.epoch, epoch[p])
    BY <2>1 DEF Accepts, EpochAllows
  <2>3. Tellable(b.version, latched[p]) /\ Tellable(latched[p], b.version)
    BY <1>1, <1>3, InvGate DEF GateFollowsVersion
  <2> QED
    BY <1>1, <2>1, <2>2, <2>3, EpochOrder
<1> QED
  BY <1>2, <1>3

(* Applying a value of the range keeps the settings in their types.        *)
LEMMA ApplyType ==
  ASSUME TypeOK, NEW p \in Params, NEW v \in Values, InRange(p, v), Apply(p, v)
  PROVE  /\ opt' \in Options /\ mail' \in Ceilings
         /\ ring' \in Rings
<1>1. v \in 0 .. 255
  BY FleetAssumption
<1>2. /\ p = 2 => Stored(p, v) \in 0 .. 1
      /\ p = 3 => Stored(p, v) \in 50 .. 500
      /\ p = 4 => Stored(p, v) \in 4 .. 64
  <2>1. v \in 5 .. 50 => 10 * v \in 50 .. 500
    OBVIOUS
  <2> QED
    BY <2>1 DEF Stored, InRange, FLEET_BUFFER_MS, FLEET_SELECTION, FLEET_LOCK_TIMEOUT,
                FLEET_RESYNC_GAP, FLEET_VOLUME_MAX
<1>3. opt' \in Options
  <2>1. opt \in [2 .. 4 -> 0 .. 500] /\ opt[2] <= 1 /\ opt[3] >= 50 /\ opt[4] \in 4 .. 64
    BY DEF TypeOK, Options
  <2>2. opt' = IF p \in 2 .. 4 THEN [opt EXCEPT ![p] = Stored(p, v)] ELSE opt
    BY DEF Apply
  <2>3. CASE p \in 2 .. 4
    <3>1. p \in {2, 3, 4} /\ Stored(p, v) \in 0 .. 500
      BY <1>2, <2>3
    <3> QED
      BY <1>2, <2>1, <2>2, <2>3, <3>1 DEF Options
  <2>4. CASE p \notin 2 .. 4
    BY <2>1, <2>2, <2>4 DEF Options
  <2> QED
    BY <2>3, <2>4
<1>4. ASSUME p = FLEET_BUFFER_MS PROVE Override(ring, v) \in Rings
  <2>1. Depth[ring.mode] \in Nat /\ v * FramesPerMs \in Nat
    BY <1>1, FleetAssumption DEF TypeOK, FramesPerMs, Rings
  <2>2. v \in {0} \cup 4 .. 60
    BY <1>4 DEF InRange, FLEET_BUFFER_MS, FLEET_SELECTION, FLEET_LOCK_TIMEOUT,
                FLEET_RESYNC_GAP, FLEET_VOLUME_MAX
  <2> QED
    BY <2>1, <2>2 DEF Override, TypeOK, Rings
<1>5. p = FLEET_VOLUME_MAX => v \in Ceilings
  BY DEF InRange, FLEET_BUFFER_MS, FLEET_SELECTION, FLEET_LOCK_TIMEOUT,
         FLEET_RESYNC_GAP, FLEET_VOLUME_MAX, Ceilings
<1> QED
  BY <1>3, <1>4, <1>5 DEF Apply, TypeOK

(* onPacket on a beacon preserves the invariant.                           *)
LEMMA OnBeaconInv ==
  ASSUME Inv, NEW b \in air, OnBeacon(b)
  PROVE  Inv'
<1>1. b \in Beacon /\ UNCHANGED <<issued, value, air, listening, box, volume, upsets>>
  BY DEF OnBeacon, transmitter, Inv, TypeOK
<1>2. CASE listening /\ Accepts(b)
  <2>1. LatchEpoch(b) /\ Apply(b.param, b.value)
    BY <1>2 DEF OnBeacon
  <2>2. /\ opt' \in Options /\ mail' \in Ceilings
        /\ ring' \in Rings
    BY <1>1, <1>2, <2>1, ApplyType DEF Inv, Accepts, Beacon
  <2>3. CASE HasEpoch(b)
    <3>1. b.param \in Params \cap 1 .. 5 /\ b.version \in 0 .. MaxVersion
      BY <1>1, <2>3 DEF Beacon, HasEpoch
    <3>2. /\ epoch' = [epoch EXCEPT ![b.param] = b.epoch]
          /\ epochSet' = [epochSet EXCEPT ![b.param] = TRUE]
          /\ latched' = [latched EXCEPT ![b.param] = b.version]
      BY <2>1, <2>3 DEF LatchEpoch
    <3>3. TypeOK'
      BY <1>1, <2>2, <3>1, <3>2 DEF Inv, TypeOK, Beacon, None
    <3>4. Near'
      BY <1>1, <3>1, <3>2 DEF Inv, TypeOK, Near
    <3>5. Gate'
      <4>1. b.epoch = b.version % EpochMod
        BY <2>3 DEF HasEpoch, Inv, Near
      <4> QED
        BY <3>1, <3>2, <4>1 DEF Inv, TypeOK, Gate, None
    <3> QED
      BY <1>1, <3>3, <3>4, <3>5 DEF Inv, Announced
  <2>4. CASE ~HasEpoch(b)
    <3>1. UNCHANGED <<epoch, epochSet, latched>>
      BY <2>1, <2>4 DEF LatchEpoch, gate
    <3> QED
      BY <1>1, <2>2, <3>1 DEF Inv, TypeOK, Near, Gate, Announced
  <2> QED
    BY <2>3, <2>4
<1>3. CASE ~(listening /\ Accepts(b))
  <2>1. UNCHANGED <<epoch, epochSet, latched, opt, ring, mail>>
    BY <1>3 DEF OnBeacon, gate, settings
  <2> QED
    BY <1>1, <2>1 DEF Inv, TypeOK, Near, Gate, Announced
<1> QED
  BY <1>2, <1>3

(***************************************************************************)
(* The other steps.                                                        *)
(***************************************************************************)
(* A change waits for receivers half the epochs behind, and outdates       *)
(* beacons as old.                                                         *)
LEMMA ChangeInv ==
  ASSUME Inv, NEW p \in Params, NEW v \in Values, Change(p, v)
  PROVE  Inv'
<1>1. /\ issued' = [issued EXCEPT ![p] = issued[p] + 1]
      /\ value' = [value EXCEPT ![p] = v]
      /\ air' = {b \in air : b.param = p => Tellable(issued[p] + 1, b.version)}
      /\ UNCHANGED <<listening, epoch, epochSet, latched, opt, ring, mail, box, volume, upsets>>
  BY DEF Change, gate, settings, mailbox
<1>2. issued[p] + 1 \in None .. MaxVersion /\ issued[p] \in Int
  BY FleetAssumption DEF Change, Inv, TypeOK, None
<1>3. TypeOK'
  BY <1>1, <1>2 DEF Inv, TypeOK
<1>4. Near'
  <2>1. ASSUME NEW b \in air'
        PROVE  /\ ~b.legacy => b.epoch = b.version % EpochMod
               /\ b.version <= issued'[b.param] /\ Tellable(issued'[b.param], b.version)
    <3>1. b \in air /\ b.version \in Int /\ b.param \in Params
      BY <1>1 DEF Inv, TypeOK, Beacon
    <3> QED
      BY <1>1, <1>2, <3>1 DEF Inv, TypeOK, Near
  <2>2. ASSUME NEW q \in Params, latched'[q] # None
        PROVE  latched'[q] <= issued'[q] /\ Tellable(issued'[q], latched'[q])
    <3>1. latched[q] \in Int
      BY DEF Inv, TypeOK, None
    <3>2. latched[p] # None => Tellable(issued[p] + 1, latched[p])
      BY DEF Change
    <3> QED
      BY <1>1, <1>2, <2>2, <3>1, <3>2 DEF Inv, TypeOK, Near
  <2> QED
    BY <2>1, <2>2 DEF Near
<1>5. Gate'
  BY <1>1 DEF Inv, Gate
<1>6. Announced'
  BY <1>1 DEF Inv, TypeOK, Announced
<1> QED
  BY <1>3, <1>4, <1>5, <1>6 DEF Inv

(* A resend puts the newest version on the air.                            *)
LEMMA ResendInv ==
  ASSUME Inv, NEW p \in Params, NEW legacy \in LegacyFlags, Resend(p, legacy)
  PROVE  Inv'
<1> DEFINE c == Current(p, legacy)
<1>1. /\ issued[p] \in 0 .. MaxVersion /\ air' = air \cup {c}
      /\ UNCHANGED <<issued, value, listening, epoch, epochSet, latched, opt, ring, mail, box,
                     volume, upsets>>
  BY FleetAssumption DEF Resend, transmitter, gate, settings, mailbox, Inv, TypeOK, None
<1>2. value[p] \in Values
  BY <1>1 DEF None, Inv, Announced
<1>3. /\ c \in Beacon /\ c.version = issued[c.param]
      /\ ~c.legacy => c.epoch = c.version % EpochMod
  <2>1. issued[p] % EpochMod \in 0 .. EpochMod - 1 /\ legacy \in BOOLEAN
    BY <1>1, FleetAssumption
  <2>2. 0 \in 0 .. EpochMod - 1
    BY FleetAssumption
  <2>3. (IF legacy THEN 0 ELSE issued[p] % EpochMod) \in 0 .. EpochMod - 1
    BY <2>1, <2>2
  <2> QED
    BY <1>1, <1>2, <2>1, <2>3 DEF Current, Beacon
<1>4. Tellable(issued[c.param], c.version)
  BY <1>1, <1>3, FleetAssumption DEF Tellable, Current
<1> HIDE DEF c
<1>5. TypeOK'
  BY <1>1, <1>3 DEF Inv, TypeOK
<1>6. Near'
  <2>1. c.version <= issued[c.param]
    BY <1>3 DEF Inv, TypeOK, Beacon
  <2> QED
    BY <1>1, <1>3, <1>4, <2>1 DEF Inv, Near
<1> QED
  BY <1>1, <1>5, <1>6 DEF Inv, Gate, Announced

(* Steps that leave the versions, the link and the gate alone.             *)
LEMMA OtherInv ==
  ASSUME Inv,
         \/ \E p \in Params, v \in Values : Correct(p, v)
         \/ \E b \in air : Lose(b)
         \/ \E m \in Modes : ApplyMode(m)
         \/ Relock \/ Unlock \/ DispatchRead \/ DispatchClear
         \/ UNCHANGED vars
  PROVE  Inv' /\ UNCHANGED <<issued, latched>>
<1>1. UNCHANGED <<issued, epoch, epochSet, latched>> /\ air' \subseteq air
  BY DEF Correct, Lose, ApplyMode, Relock, Unlock, DispatchRead, DispatchClear, vars,
         transmitter, gate, settings, mailbox
<1>2. Near' /\ Gate'
  BY <1>1 DEF Inv, Near, Gate
<1>3. Announced'
  <2>1. \A p \in Params : value'[p] = value[p] \/ value'[p] \in Values
    BY DEF Correct, Lose, ApplyMode, Relock, Unlock, DispatchRead, DispatchClear, vars,
           transmitter, gate, settings, mailbox, Inv, TypeOK
  <2> QED
    BY <1>1, <2>1 DEF Inv, Announced
<1>4. TypeOK'
  <2>1. ASSUME NEW p \in Params, NEW v \in Values, Correct(p, v) PROVE TypeOK'
    BY <1>1, <2>1 DEF Correct, gate, settings, mailbox, Inv, TypeOK
  <2>2. ASSUME NEW b \in air, Lose(b) PROVE TypeOK'
    BY <1>1, <2>2 DEF Lose, transmitter, gate, settings, mailbox, Inv, TypeOK
  <2>3. ASSUME NEW m \in Modes, ApplyMode(m) PROVE TypeOK'
    <3>1. RingOf(m) \in Rings
      BY FleetAssumption DEF RingOf, Rings
    <3> QED
      BY <1>1, <2>3, <3>1 DEF ApplyMode, transmitter, gate, mailbox, Inv, TypeOK
  <2>4. CASE Relock
    BY <1>1, <2>4 DEF Relock, transmitter, gate, settings, mailbox, Inv, TypeOK
  <2>5. CASE Unlock
    <3>1. upsets + 1 \in 0 .. MaxUpsets
      BY <2>5, FleetAssumption DEF Unlock, Inv, TypeOK
    <3> QED
      BY <1>1, <2>5, <3>1 DEF Unlock, transmitter, gate, settings, mailbox, Inv, TypeOK
  <2>6. CASE DispatchRead
    BY <1>1, <2>6 DEF DispatchRead, transmitter, gate, settings, mailbox, Inv, TypeOK
  <2>7. CASE DispatchClear
    BY <1>1, <2>7 DEF DispatchClear, Ceilings, transmitter, gate, settings, mailbox, Inv, TypeOK
  <2>8. CASE UNCHANGED vars
    BY <1>1, <2>8 DEF vars, transmitter, gate, settings, mailbox, Inv, TypeOK
  <2> QED
    BY <2>1, <2>2, <2>3, <2>4, <2>5, <2>6, <2>7, <2>8
<1> QED
  BY <1>1, <1>2, <1>3, <1>4 DEF Inv

(* A power cycle forgets every epoch.                                      *)
LEMMA RebootInv ==
  ASSUME Inv, Reboot
  PROVE  Inv'
<1>1. /\ upsets' \in 0 .. MaxUpsets
      /\ UNCHANGED <<issued, value, air, volume>>
  BY FleetAssumption DEF Reboot, transmitter, Inv, TypeOK
<1>2. /\ Defaults \in Options /\ NoVersion \in [Params -> None .. MaxVersion]
      /\ RingOf(0) \in Rings
      /\ NoEpoch \in [1 .. 5 -> 0 .. EpochMod - 1] /\ NotSet \in [1 .. 5 -> BOOLEAN]
  <2>1. 0 \in 0 .. EpochMod - 1 /\ None \in None .. MaxVersion
    BY FleetAssumption DEF None
  <2> QED
    BY <2>1, FleetAssumption DEF Defaults, Options, NoVersion, RingOf, Rings, NoEpoch, NotSet
<1>3. TypeOK'
  <2>1. /\ epoch' \in [1 .. 5 -> 0 .. EpochMod - 1] /\ epochSet' \in [1 .. 5 -> BOOLEAN]
        /\ latched' \in [Params -> None .. MaxVersion] /\ opt' \in Options
        /\ ring' \in Rings
        /\ mail' \in Ceilings /\ box' \in Ceilings /\ listening' \in BOOLEAN
    <3>1. 0 \in Ceilings
      BY DEF Ceilings
    <3>2. /\ epoch' = NoEpoch /\ epochSet' = NotSet /\ latched' = NoVersion
          /\ opt' = Defaults /\ ring' = RingOf(0)
          /\ mail' = 0 /\ box' = 0 /\ listening' = FALSE
      BY DEF Reboot
    <3> QED
      BY <1>2, <3>1, <3>2
  <2> QED
    BY <1>1, <2>1 DEF Inv, TypeOK
<1>4. Near' /\ Gate' /\ Announced'
  BY <1>1 DEF Reboot, Inv, Near, Gate, Announced, NoVersion, NotSet
<1> QED
  BY <1>3, <1>4 DEF Inv

(* Inv is inductive.                                                       *)
LEMMA NextInv ==
  ASSUME Inv, [Next]_vars
  PROVE  Inv'
  BY ChangeInv, ResendInv, OnBeaconInv, RebootInv, OtherInv DEF Next

(***************************************************************************)
(* The register the receiver implements, step by step.                     *)
(***************************************************************************)
(* Every step is a step of FleetRegister or leaves it alone.               *)
LEMMA RegisterStep ==
  ASSUME Inv, [Next]_vars
  PROVE  [Register!Next]_(Register!vars)
<1>1. ASSUME NEW p \in Params, NEW v \in Values, Change(p, v)
      PROVE  Register!Next
  BY <1>1 DEF Change, gate, Register!Next, Register!Issue
<1>2. ASSUME NEW b \in air, OnBeacon(b)
      PROVE  Register!Next \/ UNCHANGED <<issued, latched>>
  <2>1. CASE listening /\ Accepts(b) /\ HasEpoch(b)
    <3>1. /\ b.param \in Params /\ b.version \in 0 .. issued[b.param]
          /\ latched' = [latched EXCEPT ![b.param] = b.version] /\ issued' = issued
      BY <1>2, <2>1 DEF OnBeacon, LatchEpoch, transmitter, Inv, TypeOK, Near, Beacon, None
    <3>2. latched[b.param] <= b.version
      BY <2>1, AcceptedNotOlder
    <3>3. b.version <= issued[b.param]
      BY <3>1
    <3>4. Register!Adopt(b.param, b.version)
      BY <3>1, <3>2, <3>3 DEF Register!Adopt
    <3> QED
      BY <3>1, <3>4 DEF Register!Next
  <2>2. CASE listening /\ Accepts(b) /\ ~HasEpoch(b)
    <3>1. issued' = issued /\ latched' = latched
      BY <1>2, <2>2 DEF OnBeacon, LatchEpoch, transmitter, gate
    <3> QED
      BY <3>1
  <2>3. CASE ~(listening /\ Accepts(b))
    <3>1. issued' = issued /\ latched' = latched
      BY <1>2, <2>3 DEF OnBeacon, transmitter, gate
    <3> QED
      BY <3>1
  <2> QED
    BY <2>1, <2>2, <2>3
<1>3. ASSUME NEW p \in Params, NEW legacy \in LegacyFlags, Resend(p, legacy)
      PROVE  UNCHANGED <<issued, latched>>
  BY <1>3 DEF Resend, transmitter, gate
<1>4. CASE Reboot
  BY <1>4 DEF Reboot, transmitter, NoVersion, None, Register!Next, Register!Forget, Register!None
<1> QED
  BY <1>1, <1>2, <1>3, <1>4, OtherInv DEF Next, Register!vars

(***************************************************************************)
(* The theorems.                                                           *)
(***************************************************************************)
(* The inductive invariant holds, and with it the types of transmitter,    *)
(* link and receiver.                                                      *)
THEOREM InvHolds == Safety => []Inv
<1>1. Init => Inv
  BY InitInv
<1>2. Inv /\ [Next]_vars => Inv'
  BY NextInv
<1> QED
  BY <1>1, <1>2, PTL DEF Safety

(* FleetTune's state, the beacons on the air and the settings stay typed.  *)
THEOREM TypeCorrect == Safety => []TypeOK
<1>1. Inv => TypeOK
  BY DEF Inv
<1> QED
  BY <1>1, InvHolds, PTL

(* The epoch a receiver latched is that of the version it holds, and every *)
(* beacon that may arrive can be told from it.                             *)
THEOREM GateSound == Safety => []GateFollowsVersion
<1>1. Inv => GateFollowsVersion
  BY InvGate
<1> QED
  BY <1>1, InvHolds, PTL

(* Whatever the width of an epoch and whatever is lost, repeated or        *)
(* reordered, a receiver never returns to an older version than the one it *)
(* holds, and holds only versions that were issued.                        *)
THEOREM ReceiverIsRegister == Safety => ImplementsRegister
<1>1. Init => Register!Init
  BY DEF Init, NoVersion, None, Register!Init, Register!None
<1>2. Inv /\ [Next]_vars => [Register!Next]_(Register!vars)
  BY RegisterStep
<1> QED
  BY <1>1, <1>2, InvHolds, PTL DEF Safety, ImplementsRegister, Register!Spec

(* The ring's depth follows the standing override, or the mode when there  *)
(* is none, through mode changes, beacons sent again and power cycles.     *)
THEOREM DepthAsOverridden == Safety => []DepthFollowsOverride
<1>1. Init => DepthFollowsOverride
  BY DEF Init, RingOf, DepthFollowsOverride
<1>2. Inv /\ DepthFollowsOverride /\ [Next]_vars => DepthFollowsOverride'
  <2> SUFFICES ASSUME Inv, DepthFollowsOverride, [Next]_vars PROVE DepthFollowsOverride'
    OBVIOUS
  <2>1. \/ ring' = ring \/ \E v \in Values : ring' = Override(ring, v)
        \/ \E m \in Modes : ring' = RingOf(m)
    <3>1. ASSUME NEW b \in air, OnBeacon(b)
          PROVE  ring' = ring \/ ring' = Override(ring, b.value)
      BY <3>1 DEF OnBeacon, Apply, settings
    <3>2. ASSUME NEW b \in air, OnBeacon(b)
          PROVE  b.value \in Values
      BY DEF Inv, TypeOK, Beacon
    <3>3. ASSUME NEW p \in Params, NEW v \in Values, Change(p, v) \/ Correct(p, v)
          PROVE  ring' = ring
      BY <3>3 DEF Change, Correct, settings
    <3>4. ASSUME NEW p \in Params, NEW legacy \in LegacyFlags, Resend(p, legacy)
          PROVE  ring' = ring
      BY <3>4 DEF Resend, settings
    <3>5. ASSUME NEW b \in air, Lose(b)
          PROVE  ring' = ring
      BY <3>5 DEF Lose, settings
    <3>6. ASSUME NEW m \in Modes, ApplyMode(m)
          PROVE  ring' = RingOf(m)
      BY <3>6 DEF ApplyMode
    <3>7. CASE Relock \/ Unlock \/ DispatchRead \/ DispatchClear
      BY <3>7 DEF Relock, Unlock, DispatchRead, DispatchClear, settings
    <3>8. CASE Reboot
      BY <3>8, FleetAssumption DEF Reboot
    <3>9. CASE UNCHANGED vars
      BY <3>9 DEF vars, settings
    <3> QED
      BY <3>1, <3>2, <3>3, <3>4, <3>5, <3>6, <3>7, <3>8, <3>9 DEF Next
  <2>2. ring \in Rings
    BY DEF Inv, TypeOK
  <2>3. ASSUME NEW v \in Values, ring' = Override(ring, v)
        PROVE  DepthFollowsOverride'
    BY <2>2, <2>3 DEF Override, DepthFollowsOverride, Rings
  <2>4. ASSUME NEW m \in Modes, ring' = RingOf(m)
        PROVE  DepthFollowsOverride'
    BY <2>4 DEF RingOf, DepthFollowsOverride
  <2>5. ASSUME ring' = ring
        PROVE  DepthFollowsOverride'
    BY <2>5 DEF DepthFollowsOverride
  <2> QED
    BY <2>1, <2>3, <2>4, <2>5
<1> QED
  BY <1>1, <1>2, InvHolds, PTL DEF Safety
=============================================================================
