---------------------------- MODULE SelectorOps ----------------------------
(***************************************************************************)
(* The class SourceSelector (protocol/HapbeatSourceSelector.{h,cpp}) as    *)
(* operators on a record: each method maps the selector before the call to *)
(* the selector after it, so that the modules that call several methods    *)
(* in a row (StreamDecoder::onPacket does) can compose them in one step.   *)
(*                                                                         *)
(* Times are uint32_t milliseconds in the code; here they are a clock of   *)
(* ClockMod units, and every subtraction wraps as the code's does.         *)
(***************************************************************************)
EXTENDS Integers, FiniteSets

CONSTANTS
  Macs, NoMac,          \* transmitters; the all-zero address of a free slot
  Modes,                \* masked mode ids, mode 0 among them
  Nominal,              \* packets a mode delivers in one window: ratedPps * 4 s
  MAX_SOURCES,          \* size of the source table
  MaxSources,           \* DecoderOptions::maxSources after setOptions' clamp
  ClockMod, CounterMod, \* 2^32: the width of times and of the hand-off counter
  CountMax,             \* 0xFFFF: where win_count saturates
  RSSI_HYST_DB, RSSI_HOLD_MS,
  SEL_WINDOW_MS, SEL_LOSS_GATE_PCT, SEL_BLACKLIST_MS, SEL_MIN_SWITCH_MS

RSSI_UNKNOWN == -128

ASSUME ConstantsAssumption ==
  /\ NoMac \notin Macs
  /\ 0 \in Modes
  /\ Nominal \in [Modes -> Nat]
  /\ MAX_SOURCES \in Nat /\ MaxSources \in 1 .. MAX_SOURCES
  /\ ClockMod \in Nat /\ ClockMod > 1
  /\ CounterMod \in Nat /\ CounterMod > 1
  /\ CountMax \in Nat
  /\ {RSSI_HYST_DB, RSSI_HOLD_MS, SEL_WINDOW_MS, SEL_LOSS_GATE_PCT,
      SEL_BLACKLIST_MS, SEL_MIN_SWITCH_MS} \subseteq Nat

Slots == 0 .. MAX_SOURCES - 1
Clock == 0 .. ClockMod - 1
RssiRange == -128 .. 127

Source == [mac : Macs \cup {NoMac}, used : BOOLEAN, last_ms : Clock,
           rssi : RssiRange, hyst_start : Clock, last_mode : Modes,
           relayed : BOOLEAN, win_count : 0 .. CountMax,
           blacklist_until : Clock]

(* _locked: a slot, -1 for never locked, -2 - slot for released.           *)
Selector == [src : [Slots -> Source], locked : -1 - MAX_SOURCES .. MAX_SOURCES - 1,
             lockChanged : BOOLEAN, relayTest : BOOLEAN,
             handoffs : 0 .. CounterMod - 1,
             winStart : Clock, lastSwitch : Clock,
             winLost : Nat, winRecovered : Nat, mode : Modes,
             lockTimeoutMs : Nat, selectionEnabled : BOOLEAN]

(***************************************************************************)
(* Helpers.                                                                *)
(***************************************************************************)
Plus(t, d) == (t + d) % ClockMod
Age(now, t) == (now - t) % ClockMod

(* The lowest index of S with the largest f: what the code's scans keep by *)
(* replacing the best so far only when a later slot is strictly better.    *)
FirstMax(S, f) ==
  CHOOSE i \in S : \A j \in S : f[j] < f[i] \/ (f[j] = f[i] /\ i <= j)

FirstOf(S) == CHOOSE i \in S : \A j \in S : i <= j

NewSource(mac, now) ==
  [mac |-> mac, used |-> TRUE, last_ms |-> now, rssi |-> RSSI_UNKNOWN,
   hyst_start |-> 0, last_mode |-> 0, relayed |-> FALSE,
   win_count |-> 0, blacklist_until |-> 0]

EmptySource ==
  [mac |-> NoMac, used |-> FALSE, last_ms |-> 0, rssi |-> 0,
   hyst_start |-> 0, last_mode |-> 0, relayed |-> FALSE,
   win_count |-> 0, blacklist_until |-> 0]

Begin(timeout, selection) ==
  [src |-> [i \in Slots |-> EmptySource], locked |-> -1, lockChanged |-> FALSE,
   relayTest |-> FALSE, handoffs |-> 0, winStart |-> 0, lastSwitch |-> 0,
   winLost |-> 0, winRecovered |-> 0, mode |-> 0,
   lockTimeoutMs |-> timeout, selectionEnabled |-> selection]

Locked(s) == s.locked >= 0
LockedMac(s) == IF Locked(s) THEN s.src[s.locked].mac ELSE NoMac
(* Mutant: the encoding of a released slot off by one.                     *)
ReleasedShort(s) == [s EXCEPT !.locked = -1 - s.locked]

Released(s) == [s EXCEPT !.locked = -2 - s.locked]

RememberedSlot(s) == IF s.locked >= 0 THEN s.locked
                     ELSE IF s.locked <= -2 THEN -2 - s.locked ELSE -1

(* blacklist_until is in the future, by the sign of the int32_t difference *)
Blacklisted(s, i, now) ==
  LET left == Age(s.src[i].blacklist_until, now)
  IN  s.src[i].blacklist_until # 0 /\ 0 < left /\ 2 * left < ClockMod

Blacklist(s, i, now) ==
  [s EXCEPT !.src[i].blacklist_until = Plus(now, SEL_BLACKLIST_MS)]

(***************************************************************************)
(* The private methods.                                                    *)
(***************************************************************************)
(* Mutants: a free slot before the one already known; the lock evictable.  *)
SlotForFreeFirst(s, mac, now) ==
  LET free == {i \in 0 .. MaxSources - 1 : ~s.src[i].used}
      held == {i \in Slots : s.src[i].used /\ s.src[i].mac = mac}
  IN  IF free # {} THEN FirstOf(free)
      ELSE IF held # {} THEN FirstOf(held)
      ELSE IF s.locked = 0 THEN 1 ELSE 0

SlotForStalest(s, mac, now) ==
  LET known == {i \in Slots : s.src[i].used /\ s.src[i].mac = mac}
      free  == {i \in 0 .. MaxSources - 1 : ~s.src[i].used}
  IN  IF known # {} THEN FirstOf(known)
      ELSE IF free # {} THEN FirstOf(free)
      ELSE FirstMax(0 .. MaxSources - 1,
                    [i \in 0 .. MaxSources - 1 |-> Age(now, s.src[i].last_ms)])

SlotFor(s, mac, now) ==
  LET known   == {i \in Slots : s.src[i].used /\ s.src[i].mac = mac}
      free    == {i \in 0 .. MaxSources - 1 : ~s.src[i].used}
      others  == {i \in 0 .. MaxSources - 1 : s.src[i].used /\ i # s.locked}
  IN  IF known # {} THEN FirstOf(known)
      ELSE IF free # {} THEN FirstOf(free)
      ELSE IF others # {}
        THEN FirstMax(others, [i \in others |-> Age(now, s.src[i].last_ms)])
      ELSE 0

FindOrAdd(s, i, mac, now) ==
  IF s.src[i].used /\ s.src[i].mac = mac THEN s
  ELSE [s EXCEPT !.src[i] = NewSource(mac, now)]

(* Mutants: the flag not raised; the hysteresis clocks left running.       *)
AcquireQuietly(s, i) ==
  [s EXCEPT
     !.handoffs = IF RememberedSlot(s) \in {-1, i} THEN @ ELSE (@ + 1) % CounterMod,
     !.locked = i,
     !.src = [j \in Slots |-> [s.src[j] EXCEPT !.hyst_start = 0]]]

AcquireKeepingHold(s, i) ==
  [s EXCEPT
     !.handoffs = IF RememberedSlot(s) \in {-1, i} THEN @ ELSE (@ + 1) % CounterMod,
     !.locked = i,
     !.lockChanged = TRUE]

Acquire(s, i) ==
  [s EXCEPT
     !.handoffs = IF RememberedSlot(s) \in {-1, i} THEN @ ELSE (@ + 1) % CounterMod,
     !.locked = i,
     !.lockChanged = TRUE,
     !.src = [j \in Slots |-> [s.src[j] EXCEPT !.hyst_start = 0]]]

(* Mutant: the blacklist forgotten.                                        *)
PickReLockTargetAnyway(s, now) ==
  LET live == {i \in Slots : /\ s.src[i].used
                             /\ Age(now, s.src[i].last_ms) < s.lockTimeoutMs}
  IN  IF live # {} THEN FirstOf(live) ELSE -1

PickReLockTarget(s, now) ==
  LET live == {i \in Slots : /\ s.src[i].used
                             /\ Age(now, s.src[i].last_ms) < s.lockTimeoutMs
                             /\ ~Blacklisted(s, i, now)}
      ranked == {i \in live : s.src[i].rssi # RSSI_UNKNOWN}
  IN  IF ranked # {} THEN FirstMax(ranked, [i \in ranked |-> s.src[i].rssi])
      ELSE IF live # {} THEN FirstOf(live)
      ELSE -1

(* Mutant: a lock released at its timeout rather than past it.             *)
ReleaseStaleEarly(s, now) ==
  LET t == PickReLockTarget(s, now)
  IN  IF ~(Locked(s) /\ Age(now, s.src[s.locked].last_ms) >= s.lockTimeoutMs)
        THEN s
      ELSE IF t >= 0 /\ t # s.locked THEN Acquire(s, t)
      ELSE Released(s)

(* The stale-lock release that admit() and tick() share.                   *)
ReleaseStale(s, now) ==
  LET t == PickReLockTarget(s, now)
  IN  IF ~(Locked(s) /\ Age(now, s.src[s.locked].last_ms) > s.lockTimeoutMs)
        THEN s
      ELSE IF t >= 0 /\ t # s.locked THEN Acquire(s, t)
      ELSE Released(s)

(* The lock lost SEL_LOSS_GATE_PCT of what its mode should have delivered. *)
LockBad(s) ==
  LET unrec == IF s.winLost > s.winRecovered THEN s.winLost - s.winRecovered ELSE 0
  IN  /\ Nominal[s.mode] > 0
      /\ unrec * 100 >= Nominal[s.mode] * SEL_LOSS_GATE_PCT

(* Mutant: sources in their cool-off compete as well.                      *)
ChallengersCooling(s, now) ==
  {i \in Slots : /\ s.src[i].used /\ i # s.locked
                 /\ s.src[i].last_mode = s.mode
                 /\ s.src[i].win_count >= Nominal[s.mode] \div 2
                 /\ s.src[i].win_count * 8 >= s.src[s.locked].win_count * 9}

Challengers(s, now) ==
  {i \in Slots : /\ s.src[i].used /\ i # s.locked
                 /\ ~Blacklisted(s, i, now)
                 /\ s.src[i].last_mode = s.mode
                 /\ s.src[i].win_count >= Nominal[s.mode] \div 2
                 /\ s.src[i].win_count * 8 >= s.src[s.locked].win_count * 9}

(* Mutants: the option ignored; the lock moved without acquire().          *)
SwitchOnRateAlways(s, now) ==
  LET c == Challengers(s, now)
      best == FirstMax(c, [i \in c |-> s.src[i].win_count])
  IN  IF Locked(s) /\ Age(now, s.lastSwitch) >= SEL_MIN_SWITCH_MS
         /\ LockBad(s) /\ c # {}
      THEN IF s.selectionEnabled
           THEN [Blacklist(Acquire(s, best), s.locked, now) EXCEPT !.lastSwitch = now]
           ELSE Acquire(s, best)
      ELSE s

SwitchOnRateByHand(s, now) ==
  LET c == Challengers(s, now)
      best == FirstMax(c, [i \in c |-> s.src[i].win_count])
  IN  IF /\ s.selectionEnabled /\ Locked(s)
         /\ Age(now, s.lastSwitch) >= SEL_MIN_SWITCH_MS
         /\ LockBad(s) /\ c # {}
      THEN [Blacklist(s, s.locked, now) EXCEPT !.locked = best, !.lastSwitch = now]
      ELSE s

SwitchOnRate(s, now) ==
  LET c == Challengers(s, now)
      best == FirstMax(c, [i \in c |-> s.src[i].win_count])
  IN  IF /\ s.selectionEnabled /\ Locked(s)
         /\ Age(now, s.lastSwitch) >= SEL_MIN_SWITCH_MS
         /\ LockBad(s)
         /\ c # {}
      THEN [Blacklist(Acquire(s, best), s.locked, now) EXCEPT !.lastSwitch = now]
      ELSE s

EvalRateSelection(s, now) ==
  IF Age(now, s.winStart) < SEL_WINDOW_MS THEN s
  ELSE LET t == SwitchOnRate(s, now)
       IN  [t EXCEPT !.src = [i \in Slots |-> [t.src[i] EXCEPT !.win_count = 0]],
                     !.winStart = now, !.winLost = 0, !.winRecovered = 0]

(* admit()'s lock decision, once the packet's slot i has been refreshed.   *)
Stronger(s, i) ==
  /\ s.src[i].rssi # RSSI_UNKNOWN
  /\ s.src[s.locked].rssi # RSSI_UNKNOWN
  /\ s.src[i].rssi >= s.src[s.locked].rssi + RSSI_HYST_DB

Challenge(s, i, now) ==
  LET start == IF s.src[i].hyst_start = 0 THEN now ELSE s.src[i].hyst_start
  IN  IF ~Stronger(s, i) THEN [s EXCEPT !.src[i].hyst_start = 0]
      ELSE IF Age(now, start) >= RSSI_HOLD_MS THEN Acquire(s, i)
      ELSE [s EXCEPT !.src[i].hyst_start = start]

(* Mutant: no fallback to the packet at hand.                              *)
DecideUnaided(s, i, now) ==
  LET t == PickReLockTarget(s, now)
  IN  IF ~Locked(s) THEN IF t >= 0 THEN Acquire(s, t) ELSE s
      ELSE IF s.locked # i THEN Challenge(s, i, now)
      ELSE s

Decide(s, i, now) ==
  LET t == PickReLockTarget(s, now)
  IN  IF ~Locked(s) THEN Acquire(s, IF t >= 0 THEN t ELSE i)
      ELSE IF s.locked # i THEN Challenge(s, i, now)
      ELSE s

(* Mutant: the window's counter not saturated.                             *)
RefreshedUnbounded(e, rssi, mode, relayed, now) ==
  [e EXCEPT !.last_ms = now, !.last_mode = mode, !.relayed = relayed,
            !.win_count = e.win_count + 1,
            !.rssi = IF rssi # RSSI_UNKNOWN THEN rssi ELSE e.rssi]

Refreshed(e, rssi, mode, relayed, now) ==
  [e EXCEPT !.last_ms = now, !.last_mode = mode, !.relayed = relayed,
            !.win_count = IF e.win_count < CountMax THEN e.win_count + 1 ELSE e.win_count,
            !.rssi = IF rssi # RSSI_UNKNOWN THEN rssi ELSE e.rssi]

Refresh(s, i, rssi, mode, relayed, now) ==
  [s EXCEPT !.src[i] = Refreshed(s.src[i], rssi, mode, relayed, now)]

(***************************************************************************)
(* The public methods.                                                     *)
(***************************************************************************)
AdmitAt(s, i, mac, rssi, mode, relayed, now) ==
  LET t == Decide(ReleaseStale(Refresh(FindOrAdd(s, i, mac, now),
                                       i, rssi, mode, relayed, now), now), i, now)
  IN  IF t.locked = i THEN [t EXCEPT !.mode = mode] ELSE t

(* admit() returns true, i.e. the packet is to be decoded, exactly when    *)
(* it passed the relay filter and its slot holds the lock afterwards.      *)
Filtered(s, relayed) == s.relayTest /\ ~relayed

Admit(s, mac, rssi, mode, relayed, now) ==
  IF Filtered(s, relayed) THEN s
  ELSE AdmitAt(s, SlotFor(s, mac, now), mac, rssi, mode, relayed, now)

Admitted(s, mac, rssi, mode, relayed, now) ==
  /\ ~Filtered(s, relayed)
  /\ Admit(s, mac, rssi, mode, relayed, now).locked = SlotFor(s, mac, now)

Tick(s, now) == EvalRateSelection(ReleaseStale(s, now), now)

ForceRelock(s, now) ==
  IF Locked(s) THEN Released(Blacklist(s, s.locked, now)) ELSE s

NoteLockLoss(s, lost, recovered) ==
  [s EXCEPT !.winLost = s.winLost + lost,
            !.winRecovered = s.winRecovered + recovered]

ConsumeLockChanged(s) == [s EXCEPT !.lockChanged = FALSE]

SetRelayTestOnly(s, on) == [s EXCEPT !.relayTest = on]

SetOptions(s, timeout, selection) ==
  [s EXCEPT !.lockTimeoutMs = timeout, !.selectionEnabled = selection]

(***************************************************************************)
(* What every method relies on: no MAC holds two slots, and the slot that  *)
(* is locked or remembered is in use.                                      *)
(***************************************************************************)
Table(s) ==
  /\ \A i, j \in Slots :
       s.src[i].used /\ s.src[j].used /\ s.src[i].mac = s.src[j].mac => i = j
  /\ RememberedSlot(s) >= 0 => s.src[RememberedSlot(s)].used
=============================================================================
