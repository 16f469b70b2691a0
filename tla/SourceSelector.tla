--------------------------- MODULE SourceSelector ---------------------------
(***************************************************************************)
(* The source lock at work: StreamDecoder drives one SourceSelector from   *)
(* the receive callback (Packet), from the idle tick (Idle) and from the   *)
(* fleet-tune options (Tune), while the application raises request flags   *)
(* that the next packet consumes.  Packet is the lock half of              *)
(* StreamDecoder::onPacket: consume the requests, admit, consume the lock  *)
(* change, decode, report the loss, tick, consume the lock change.  What   *)
(* decoding does is reduced here to whose sequence numbers it follows      *)
(* (track) and to the loss it reports; StreamDecoder.tla models the rest.  *)
(***************************************************************************)
EXTENDS SelectorOps

CONSTANTS
  Outcomes,        \* what decoding an admitted packet may find: [ok, lost, recovered]
  Rssis,           \* signal strengths a packet may carry
  RelayFlags,      \* values of the RELAYED bit in the packets sent
  Timeouts,        \* lock timeouts an option change may set
  Selections,      \* values of selectionEnabled an option change may set
  RelayRequests,   \* arguments setRelayTestOnly may be called with
  MayForce,        \* whether forceRelock may be called
  StartTime,       \* when the decoder begins, in milliseconds since the boot
  MaxWinLost,      \* bound: packets reported lost in one rate window
  Horizon          \* bound: the last instant of a behaviour

ASSUME FlowAssumption ==
  /\ Outcomes \subseteq [ok : BOOLEAN, lost : Nat, recovered : Nat]
  /\ Rssis \subseteq RssiRange
  /\ RelayFlags \subseteq BOOLEAN /\ RelayRequests \subseteq BOOLEAN
  /\ MayForce \in BOOLEAN /\ Selections \subseteq BOOLEAN
  /\ Timeouts \subseteq Nat /\ Timeouts # {}
  /\ Selections # {}
  /\ {StartTime, Horizon, MaxWinLost} \subseteq Nat

VARIABLES
  now,     \* milliseconds since the boot; millis() is its low 32 bits
  sel,     \* StreamDecoder::_sel
  req,     \* _reqRelock, _reqRelayTest and _relayTestOn
  track,   \* the MAC whose sequence numbers _expectedSeq follows; NoMac: ~_seqInit
  h        \* history, read by the properties only

vars == <<now, sel, req, track, h>>

Requests == [relock : BOOLEAN, relayTest : BOOLEAN, relayTestOn : BOOLEAN]

Never == -1

(* What the code reads: 32 bits, so it is back at 0 every 49.7 days.       *)
Millis == now % ClockMod

(* heard: when a packet of the MAC last passed the relay filter; relayed:  *)
(* its bit7; cool: the end of its cool-off; last: the MAC locked last;     *)
(* lockedAt: when; moves: changes of the locked MAC; lost: unrecovered     *)
(* packets reported since the lock was acquired; blame: the lost of the    *)
(* lock before; acquired, passed: the last step acquired a lock, was a     *)
(* packet that passed the filter; decoded, after: the MAC of the last      *)
(* packet decoded and what track was when it was.                          *)
History == [heard : [Macs -> Nat \cup {Never}], relayed : [Macs -> BOOLEAN],
            cool : [Macs -> Nat], last : Macs \cup {NoMac}, lockedAt : Nat,
            moves : 0 .. CounterMod - 1, lost : Int, blame : Int,
            acquired : BOOLEAN, passed : BOOLEAN,
            decoded : Macs \cup {NoMac}, after : Macs \cup {NoMac}]

TypeOK ==
  /\ now \in Nat
  /\ sel \in Selector /\ ~sel.lockChanged
  /\ req \in Requests
  /\ track \in Macs \cup {NoMac}
  /\ h \in History

Init ==
  /\ now = StartTime
  /\ \E t \in Timeouts, e \in Selections : sel = Begin(t, e)
  /\ req = [relock |-> FALSE, relayTest |-> FALSE, relayTestOn |-> FALSE]
  /\ track = NoMac
  /\ h = [heard |-> [m \in Macs |-> Never], relayed |-> [m \in Macs |-> FALSE],
          cool |-> [m \in Macs |-> 0], last |-> NoMac, lockedAt |-> StartTime,
          moves |-> 0, lost |-> 0, blame |-> 0, acquired |-> FALSE, passed |-> FALSE,
          decoded |-> NoMac, after |-> NoMac]

(***************************************************************************)
(* History of one acquisition, of a cool-off and of a packet heard.        *)
(***************************************************************************)
Still == [h EXCEPT !.acquired = FALSE, !.passed = FALSE]

Moved(g, s, changed) ==
  IF ~changed THEN g
  ELSE [g EXCEPT !.last = LockedMac(s), !.lockedAt = now, !.acquired = TRUE,
                 !.blame = g.lost, !.lost = 0,
                 !.moves = IF g.last \in {NoMac, LockedMac(s)} THEN g.moves
                           ELSE (g.moves + 1) % CounterMod]

Cooled(g, m) == [g EXCEPT !.cool = [@ EXCEPT ![m] = now + SEL_BLACKLIST_MS]]

Heard(g, m, relayed) ==
  [g EXCEPT !.heard = [@ EXCEPT ![m] = now], !.relayed = [@ EXCEPT ![m] = relayed]]

(***************************************************************************)
(* The parts of onPacket's lock flow.                                      *)
(***************************************************************************)
Forced == req.relock \/ (req.relayTest /\ req.relayTestOn /\ ~sel.relayTest)

AfterRequests ==
  LET s == IF req.relayTest THEN SetRelayTestOnly(sel, req.relayTestOn) ELSE sel
  IN  IF Forced THEN ForceRelock(s, Millis) ELSE s

(* Housekeeping: tick() and its consumeLockChanged(), the tail of onPacket *)
(* and all of idleTick.                                                    *)
Housekeeping(s, trk, g) ==
  LET r  == ReleaseStale(s, Millis)
      t  == Tick(s, Millis)
      g1 == Moved(g, r, r.lockChanged)
  IN  /\ sel' = ConsumeLockChanged(t)
      /\ track' = IF t.lockChanged THEN NoMac ELSE trk
      /\ h' = IF t.lastSwitch = s.lastSwitch THEN g1
              ELSE Moved(Cooled(g1, LockedMac(r)), t, TRUE)

Packet(m, rssi, mode, relayed, out) ==
  LET s1    == AfterRequests
      s2    == Admit(s1, m, rssi, mode, relayed, Millis)
      take  == Admitted(s1, m, rssi, mode, relayed, Millis)
      trk   == IF Forced \/ s2.lockChanged \/ (take /\ mode # sel.mode)
                 THEN NoMac ELSE track
      good  == take /\ out.ok
      lossy == good /\ trk # NoMac
      s3    == ConsumeLockChanged(s2)
      g0    == [Still EXCEPT !.passed = ~Filtered(s1, relayed)]
      g1    == IF Forced /\ Locked(sel) THEN Cooled(g0, LockedMac(sel)) ELSE g0
      g2    == IF Filtered(s1, relayed) THEN g1 ELSE Heard(g1, m, relayed)
      g3    == Moved(g2, s2, s2.lockChanged)
      g4    == IF good THEN [g3 EXCEPT !.decoded = m, !.after = trk,
                               !.lost = IF lossy THEN g3.lost + out.lost - out.recovered
                                        ELSE g3.lost]
               ELSE g3
  IN  /\ sel.winLost + out.lost <= MaxWinLost
      /\ req' = [req EXCEPT !.relock = FALSE, !.relayTest = FALSE]
      /\ Housekeeping(IF lossy THEN NoteLockLoss(s3, out.lost, out.recovered) ELSE s3,
                      IF good THEN m ELSE trk, g4)
      /\ UNCHANGED now

Idle ==
  /\ Housekeeping(sel, track, Still)
  /\ UNCHANGED <<now, req>>

(* A fleet-tune beacon of the locked source, or setLockTimeoutMs().        *)
Tune(timeout, selection) ==
  /\ sel' = SetOptions(sel, timeout, selection)
  /\ h' = Still /\ UNCHANGED <<now, req, track>>

(* forceRelock() and setRelayTestOnly(): raise a flag, nothing else.       *)
RequestRelock ==
  /\ MayForce
  /\ req' = [req EXCEPT !.relock = TRUE]
  /\ h' = Still /\ UNCHANGED <<now, sel, track>>

RequestRelayTest(on) ==
  /\ req' = [req EXCEPT !.relayTest = TRUE, !.relayTestOn = on]
  /\ h' = Still /\ UNCHANGED <<now, sel, track>>

Clockwork ==
  /\ now < Horizon
  /\ now' = now + 1
  /\ h' = Still /\ UNCHANGED <<sel, req, track>>

Next ==
  \/ \E m \in Macs, r \in Rssis, mode \in Modes, rel \in RelayFlags, out \in Outcomes :
       Packet(m, r, mode, rel, out)
  \/ Idle
  \/ \E t \in Timeouts, e \in Selections : Tune(t, e)
  \/ RequestRelock
  \/ \E on \in RelayRequests : RequestRelayTest(on)
  \/ Clockwork

Spec == Init /\ [][Next]_vars

(***************************************************************************)
(* Properties.                                                             *)
(***************************************************************************)
(* The table is sound: no MAC holds two slots, and the slot that is locked *)
(* or remembered after a release is in use (findOrAdd, acquire, release).  *)
TableOK == Table(sel)

(* "Never mix two sources": a packet is decoded either with the sequence   *)
(* tracking freshly restarted or following that same source's packets, and *)
(* the tracking of a live lock is the locked source's.                     *)
NoSplice ==
  /\ h.after \in {NoMac, h.decoded}
  /\ Locked(sel) => track \in {NoMac, LockedMac(sel)}

(* handoffs() counts the changes of the locked MAC, neither more (a source *)
(* resumed after a silence) nor less.                                      *)
HandoffsExact == sel.handoffs = h.moves

Quiet(m) == h.heard[m] = Never \/ now - h.heard[m] > sel.lockTimeoutMs

(* A lock is left only because its source went quiet, because the          *)
(* application asked, or because it lost a rate comparison.                *)
LockLeftForCause ==
  [][\A m \in Macs : LockedMac(sel) = m /\ LockedMac(sel') # m =>
       \/ Quiet(m)
       \/ Forced
       \/ sel.selectionEnabled /\ h'.cool[m] = now + SEL_BLACKLIST_MS]_vars

Candidate(k) ==
  /\ h.heard[k] # Never /\ now - h.heard[k] < sel.lockTimeoutMs
  /\ h.cool[k] <= now

(* A source in its cool-off (forceRelock, or a lost rate comparison) is    *)
(* locked again only when no other live source could be, and never in the  *)
(* place of a lock that is still heard and was not forced away.            *)
CoolOffHonoured ==
  [][h'.acquired /\ Locked(sel') /\ h'.cool[LockedMac(sel')] > now
       => /\ ~\E k \in Macs \ {LockedMac(sel')} : Candidate(k)'
          /\ Locked(sel) => Quiet(LockedMac(sel)) \/ Forced]_vars

(* Whatever is blacklisted or silent, a packet that passes the relay       *)
(* filter leaves the receiver locked: a blanket blacklist never ends in    *)
(* silence (the fallback of admit to the packet at hand, and the host test *)
(* select_force_relock_with_one_source_does_not_deadlock).  README.md      *)
(* gives a cool-off as a reason for sources heard and no lock; the next    *)
(* property is that, and CoolOffUnlocked.cfg shows that it is not so.      *)
PacketLeavesLock == h.passed => Locked(sel)

(* README.md:150-153 and Minimal_LevelMeter.ino:16-18: a source that       *)
(* forceRelock() dropped stays without the lock while it cools off, so     *)
(* that its packets may arrive and none be locked.                         *)
CoolOffUnlocked == \A m \in Macs : h.cool[m] > now => LockedMac(sel) # m

(* With RSSI known, two switches between live sources are RSSI_HOLD_MS     *)
(* apart: two sources of similar strength do not ping-pong.                *)
HysteresisSpacing ==
  [][\A m \in Macs :
       /\ h'.acquired /\ LockedMac(sel) = m /\ LockedMac(sel') # m
       /\ ~Quiet(m) /\ ~Forced
       => now - h.lockedAt >= RSSI_HOLD_MS]_vars

(* While relay test is on, a lock is acquired only on a source whose       *)
(* packets are relayed.                                                    *)
RelayTestLocksRelayed ==
  [][h'.acquired /\ sel'.relayTest => h'.relayed[LockedMac(sel')]]_vars

(* A rate switch blames the lock for loss of its own: what it left         *)
(* unrecovered since it was acquired reaches the loss gate.                *)
RateSwitchBlamesLock ==
  [][sel'.lastSwitch # sel.lastSwitch
       => h'.blame * 100 >= Nominal[sel'.mode] * SEL_LOSS_GATE_PCT]_vars

(* A rate switch goes to a source that is still heard.                     *)
RateSwitchToLive ==
  [][sel'.lastSwitch # sel.lastSwitch => ~Quiet(LockedMac(sel'))]_vars
=============================================================================
