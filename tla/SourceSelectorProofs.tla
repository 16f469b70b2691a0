------------------------ MODULE SourceSelectorProofs ------------------------
(***************************************************************************)
(* The source lock's type correctness, the soundness of its table, the     *)
(* single-source guarantee NoSplice and PacketLeavesLock, for any number   *)
(* of transmitters, any table of at least two slots and any timing; then,  *)
(* of its history, the exact count of the handoffs and the causes for      *)
(* which a lock is left.                                                   *)
(*                                                                         *)
(* Inv is inductive as the conjunction: TypeOK and TableOK make the        *)
(* methods' lemmas of SelectorLemmas apply; what they say of the lock      *)
(* (Keeps) then carries NoSplice from one step to the next.  The second    *)
(* half adds Tally, which ties each slot of the table to the history: when *)
(* its source was heard, since when it challenges the lock, which MAC is   *)
(* remembered and how often that has changed; and Cooling, by which the    *)
(* table and the history agree on who is in a cool-off and until when.     *)
(*                                                                         *)
(* Time has no bound but in Cooling: the table holds millis(), which       *)
(* wraps, the history the time itself, and Tally says of each time in the  *)
(* table which past instant it is the low bits of.                         *)
(***************************************************************************)
EXTENDS SourceSelector, SelectorLemmas, FiniteSetTheorems

Inv == TypeOK /\ TableOK /\ NoSplice /\ PacketLeavesLock

(***************************************************************************)
(* The history stays in its type.                                          *)
(***************************************************************************)
(* lockedMac() is a transmitter, or the zero address.                      *)
LEMMA LockedMacType ==
  ASSUME NEW s \in Selector
  PROVE  LockedMac(s) \in Macs \cup {NoMac}
  BY LockRange DEF LockedMac, Selector, Source

(* millis() stays in 32 bits for ever.                                     *)
LEMMA MillisInClock ==
  ASSUME now \in Nat
  PROVE  Millis \in Clock
  BY ConstantsAssumption DEF Millis, Clock

(* Recording an acquisition stays in History and touches no decoding       *)
(* field.                                                                  *)
LEMMA MovedType ==
  ASSUME now \in Nat, NEW g \in History, NEW s \in Selector, NEW c \in BOOLEAN
  PROVE  /\ Moved(g, s, c) \in History
         /\ Moved(g, s, c).passed = g.passed
         /\ Moved(g, s, c).decoded = g.decoded /\ Moved(g, s, c).after = g.after
<1>1. LockedMac(s) \in Macs \cup {NoMac}
  BY LockedMacType
<1> DEFINE n == IF g.last \in {NoMac, LockedMac(s)} THEN g.moves
                ELSE (g.moves + 1) % CounterMod
<1>2. n \in 0 .. CounterMod - 1
  BY ConstantsAssumption DEF History
<1> HIDE DEF n
<1>3. CASE c
  <2>1. Moved(g, s, c) = [g EXCEPT !.last = LockedMac(s), !.lockedAt = now,
                            !.acquired = TRUE, !.blame = g.lost, !.lost = 0, !.moves = n]
    BY <1>3 DEF Moved, n
  <2>2. g.lost \in Int /\ 0 \in Int
    BY DEF History
  <2>3. Moved(g, s, c) \in History
    BY <1>1, <1>2, <2>1, <2>2 DEF History
  <2> QED
    BY <2>1, <2>3 DEF History
<1>4. CASE ~c
  BY <1>4 DEF Moved
<1> QED
  BY <1>3, <1>4

(* So does recording a cool-off.                                           *)
LEMMA CooledType ==
  ASSUME now \in Nat, NEW g \in History, NEW m
  PROVE  /\ Cooled(g, m) \in History
         /\ Cooled(g, m).passed = g.passed
         /\ Cooled(g, m).decoded = g.decoded /\ Cooled(g, m).after = g.after
<1>1. now + SEL_BLACKLIST_MS \in Nat
  BY ConstantsAssumption
<1> QED
  BY <1>1 DEF Cooled, History

(* So does recording a packet heard.                                       *)
LEMMA HeardType ==
  ASSUME now \in Nat, NEW g \in History, NEW m, NEW rel \in BOOLEAN
  PROVE  /\ Heard(g, m, rel) \in History
         /\ Heard(g, m, rel).passed = g.passed
         /\ Heard(g, m, rel).decoded = g.decoded /\ Heard(g, m, rel).after = g.after
  BY DEF Heard, History

(* A step without a packet forgets only the last step's marks.             *)
LEMMA StillType ==
  ASSUME h \in History
  PROVE  /\ Still \in History /\ ~Still.passed
         /\ Still.decoded = h.decoded /\ Still.after = h.after
  BY DEF Still, History

(***************************************************************************)
(* Housekeeping, from a selector, a tracking and a history that satisfy    *)
(* the invariant to the next state.                                        *)
(***************************************************************************)
(* tick() and the consumption of its lock change establish the next        *)
(* state's part of Inv from a sound selector whose tracking follows the    *)
(* lock.                                                                   *)
LEMMA HousekeepingInv ==
  ASSUME now \in Nat, Millis \in Clock, NEW s, Sound(s), ~s.lockChanged,
         NEW trk \in Macs \cup {NoMac}, Locked(s) => trk \in {NoMac, LockedMac(s)},
         NEW g \in History, g.after \in {NoMac, g.decoded},
         g.passed => Locked(s) /\ Fresh(s, Millis),
         Housekeeping(s, trk, g)
  PROVE  /\ sel' \in Selector /\ ~sel'.lockChanged /\ TableOK'
         /\ track' \in Macs \cup {NoMac} /\ h' \in History
         /\ NoSplice' /\ PacketLeavesLock'
<1> DEFINE r == ReleaseStale(s, Millis)
           t == Tick(s, Millis)
           u == ConsumeLockChanged(t)
           g1 == Moved(g, r, r.lockChanged)
<1>1. Keeps(s, r) /\ Sound(r)
  BY ReleaseStaleFollows DEF Follows, Keeps
<1>2. Keeps(s, t) /\ Sound(t)
  BY TickFollows DEF Follows, Keeps
<1>3. Sound(u) /\ ~u.lockChanged /\ u.locked = t.locked /\ u.src = t.src
  BY <1>2, ConsumeKeepsLock
<1>4. sel' = u /\ track' = IF t.lockChanged THEN NoMac ELSE trk
  BY DEF Housekeeping
<1>5. r.lockChanged \in BOOLEAN /\ t.lockChanged \in BOOLEAN
  BY <1>1, <1>2 DEF Sound, Selector
<1>6. /\ h' \in History /\ h'.passed = g.passed
      /\ h'.decoded = g.decoded /\ h'.after = g.after
  <2>1. r \in Selector /\ t \in Selector
    BY <1>1, <1>2 DEF Sound
  <2>2. /\ g1 \in History /\ g1.passed = g.passed
        /\ g1.decoded = g.decoded /\ g1.after = g.after
    BY <1>5, <2>1, MovedType
  <2>3. LET g2 == Cooled(g1, LockedMac(r))
        IN  /\ g2 \in History /\ g2.passed = g.passed
            /\ g2.decoded = g.decoded /\ g2.after = g.after
    BY <2>2, CooledType
  <2>4. LET g3 == Moved(Cooled(g1, LockedMac(r)), t, TRUE)
        IN  /\ g3 \in History /\ g3.passed = g.passed
            /\ g3.decoded = g.decoded /\ g3.after = g.after
    BY <2>1, <2>3, MovedType
  <2> HIDE DEF g1
  <2>5. h' = g1 \/ h' = Moved(Cooled(g1, LockedMac(r)), t, TRUE)
    BY DEF Housekeeping, g1
  <2> QED
    BY <2>2, <2>4, <2>5
<1> HIDE DEF r, t, u
<1>7. Locked(u) => track' \in {NoMac, LockedMac(u)}
  BY <1>2, <1>3, <1>4 DEF Keeps, Locked, LockedMac
<1>8. TableOK'
  BY <1>3, <1>4 DEF TableOK, Sound
<1>9. NoSplice'
  BY <1>4, <1>6, <1>7 DEF NoSplice
<1>10. g.passed => Locked(t)
  BY TickKeepsFreshLock DEF t
<1>11. PacketLeavesLock'
  BY <1>3, <1>4, <1>6, <1>10 DEF PacketLeavesLock, Locked
<1> QED
  BY <1>3, <1>4, <1>6, <1>8, <1>9, <1>11 DEF Sound

(***************************************************************************)
(* The receive callback.                                                   *)
(***************************************************************************)
(* Consuming the request flags keeps the lock or leaves none; a forced re- *)
(* lock leaves none.                                                       *)
LEMMA AfterRequestsKeeps ==
  ASSUME Inv
  PROVE  /\ Keeps(sel, AfterRequests)
         /\ Forced => ~Locked(AfterRequests)
<1> DEFINE s == IF req.relayTest THEN SetRelayTestOnly(sel, req.relayTestOn) ELSE sel
<1>1. Sound(sel) /\ req.relayTestOn \in BOOLEAN /\ Millis \in Clock
  BY MillisInClock DEF Inv, TypeOK, TableOK, Sound, Requests
<1>2. Keeps(sel, s) /\ Sound(s)
  BY <1>1, SettersKeep DEF Follows, Keeps
<1> HIDE DEF s
<1>3. Keeps(s, ForceRelock(s, Millis)) /\ ~Locked(ForceRelock(s, Millis))
  BY <1>1, <1>2, ForceRelockFollows DEF Follows
<1> QED
  BY <1>2, <1>3, KeepsTransitive DEF AfterRequests, s

(* The receive callback preserves Inv.                                     *)
LEMMA PacketInv ==
  ASSUME Inv, MaxSources >= 2,
         NEW m \in Macs, NEW rssi \in Rssis, NEW mode \in Modes,
         NEW relayed \in RelayFlags, NEW out \in Outcomes,
         Packet(m, rssi, mode, relayed, out)
  PROVE  Inv'
<1> DEFINE s1    == AfterRequests
           s2    == Admit(s1, m, rssi, mode, relayed, Millis)
           take  == Admitted(s1, m, rssi, mode, relayed, Millis)
           trk   == IF Forced \/ s2.lockChanged \/ (take /\ mode # sel.mode)
                      THEN NoMac ELSE track
           good  == take /\ out.ok
           lossy == good /\ trk # NoMac
           s3    == ConsumeLockChanged(s2)
           g0    == [Still EXCEPT !.passed = ~Filtered(s1, relayed)]
           g1    == IF Forced /\ Locked(sel) THEN Cooled(g0, LockedMac(sel)) ELSE g0
           g2    == IF Filtered(s1, relayed) THEN g1 ELSE Heard(g1, m, relayed)
           g3    == Moved(g2, s2, s2.lockChanged)
           g4    == IF good THEN [g3 EXCEPT !.decoded = m, !.after = trk,
                                    !.lost = IF lossy THEN g3.lost + out.lost - out.recovered
                                             ELSE g3.lost]
                    ELSE g3
           s4    == IF lossy THEN NoteLockLoss(s3, out.lost, out.recovered) ELSE s3
           trk2  == IF good THEN m ELSE trk
<1>1. /\ Sound(sel) /\ ~sel.lockChanged /\ now \in Nat /\ Millis \in Clock /\ h \in History
      /\ track \in Macs \cup {NoMac} /\ req \in Requests
      /\ rssi \in RssiRange /\ relayed \in BOOLEAN
      /\ out.ok \in BOOLEAN /\ out.lost \in Nat /\ out.recovered \in Nat
  BY FlowAssumption, MillisInClock DEF Inv, TypeOK, TableOK, Sound
<1>2. Keeps(sel, s1) /\ Sound(s1) /\ (Forced => ~Locked(s1))
  BY AfterRequestsKeeps DEF Keeps
<1>3. /\ Keeps(s1, s2) /\ Sound(s2)
      /\ ~Filtered(s1, relayed) => Locked(s2) /\ Fresh(s2, Millis)
      /\ take => Locked(s2) /\ LockedMac(s2) = m
  BY <1>1, <1>2, AdmitKeeps DEF Keeps
<1>4. Keeps(sel, s2) /\ s2.lockChanged \in BOOLEAN
  BY <1>2, <1>3, KeepsTransitive DEF Sound, Selector
<1>5. Sound(s3) /\ ~s3.lockChanged /\ s3.locked = s2.locked /\ s3.src = s2.src
      /\ s3.lockTimeoutMs = s2.lockTimeoutMs
  BY <1>3, ConsumeKeepsLock DEF ConsumeLockChanged, Sound, Selector
<1>6. Sound(s4) /\ ~s4.lockChanged /\ s4.locked = s2.locked /\ s4.src = s2.src
      /\ s4.lockTimeoutMs = s2.lockTimeoutMs
  <2>1. Sound(NoteLockLoss(s3, out.lost, out.recovered))
    BY <1>1, <1>5, SettersKeep DEF Follows, Keeps
  <2> QED
    BY <1>5, <2>1 DEF NoteLockLoss, Sound, Selector
<1>7. Packet(m, rssi, mode, relayed, out) <=>
        /\ sel.winLost + out.lost <= MaxWinLost
        /\ req' = [req EXCEPT !.relock = FALSE, !.relayTest = FALSE]
        /\ Housekeeping(s4, trk2, g4)
        /\ UNCHANGED now
  BY DEF Packet
<1>8. trk \in Macs \cup {NoMac}
  BY <1>1
<1>9. /\ g3 \in History /\ g3.passed = ~Filtered(s1, relayed)
      /\ g3.decoded = h.decoded /\ g3.after = h.after
  <2>1. Filtered(s1, relayed) \in BOOLEAN
    BY <1>1, <1>2 DEF Filtered, Sound, Selector
  <2>2. /\ g0 \in History /\ g0.passed = ~Filtered(s1, relayed)
        /\ g0.decoded = h.decoded /\ g0.after = h.after
    BY <1>1, <2>1, StillType DEF History
  <2> HIDE DEF g0
  <2>3. /\ g1 \in History /\ g1.passed = ~Filtered(s1, relayed)
        /\ g1.decoded = h.decoded /\ g1.after = h.after
    BY <1>1, <2>2, CooledType
  <2> HIDE DEF g1
  <2>4. /\ g2 \in History /\ g2.passed = ~Filtered(s1, relayed)
        /\ g2.decoded = h.decoded /\ g2.after = h.after
    BY <1>1, <2>3, HeardType
  <2> HIDE DEF g2
  <2> QED
    BY <1>1, <1>3, <1>4, <2>4, MovedType DEF Sound
<1> HIDE DEF s1, s2, s3, s4, take, g0, g1, g2, g3
<1>10. Locked(s2) => trk \in {NoMac, LockedMac(s2)}
  BY <1>1, <1>2, <1>4 DEF Keeps, Inv, NoSplice
<1>11. Locked(s4) => trk2 \in {NoMac, LockedMac(s4)}
  BY <1>3, <1>6, <1>10 DEF Locked, LockedMac
<1>12. /\ g4 \in History /\ g4.passed = g3.passed
       /\ g4.after \in {NoMac, g4.decoded}
  <2>1. g3.lost + out.lost - out.recovered \in Int /\ g3.lost \in Int
    BY <1>1, <1>9 DEF History
  <2>2. CASE good
    <3>1. trk \in {NoMac, m}
      BY <1>3, <1>10, <2>2
    <3> QED
      BY <1>8, <1>9, <2>1, <2>2, <3>1 DEF History
  <2>3. CASE ~good
    BY <1>9, <2>3 DEF Inv, NoSplice
  <2> QED
    BY <2>2, <2>3
<1>13. g4.passed => Locked(s4) /\ Fresh(s4, Millis)
  BY <1>3, <1>6, <1>9, <1>12 DEF Locked, Fresh
<1>14. trk2 \in Macs \cup {NoMac}
  BY <1>8
<1>15. Housekeeping(s4, trk2, g4) /\ req' \in Requests /\ now' = now
  BY <1>1, <1>7 DEF Requests
<1> HIDE DEF g4, trk2
<1> QED
  BY <1>1, <1>6, <1>11, <1>12, <1>13, <1>14, <1>15, HousekeepingInv DEF Inv, TypeOK

(***************************************************************************)
(* The initial states, and the other actions.                              *)
(***************************************************************************)
(* begin() leaves an empty table and no lock, which satisfies Inv.         *)
LEMMA InitInv ==
  ASSUME Init
  PROVE  Inv
<1> PICK t \in Timeouts, e \in Selections : sel = Begin(t, e)
  BY DEF Init
<1>1. t \in Nat /\ e \in BOOLEAN /\ now \in Nat
  BY FlowAssumption DEF Init
<1>2. EmptySource \in Source
  <2>1. 0 \in RssiRange /\ 0 \in Clock /\ 0 \in Modes /\ 0 \in 0 .. CountMax
    BY ConstantsAssumption DEF RssiRange, Clock
  <2> QED
    BY <2>1 DEF EmptySource, Source
<1>3. sel \in Selector
  <2>1. /\ 0 \in Clock /\ 0 \in Modes /\ 0 \in 0 .. CounterMod - 1 /\ 0 \in Nat
        /\ -1 \in -1 - MAX_SOURCES .. MAX_SOURCES - 1
    BY ConstantsAssumption DEF Clock
  <2>2. [i \in Slots |-> EmptySource] \in [Slots -> Source]
    BY <1>2
  <2> QED
    BY <1>1, <2>1, <2>2 DEF Begin, Selector
<1>4. sel.locked = -1 /\ ~sel.lockChanged /\ \A i \in Slots : ~sel.src[i].used
  BY DEF Begin, EmptySource
<1>5. TableOK
  BY <1>4 DEF TableOK, Table, RememberedSlot
<1>6. h \in History
  <2>1. 0 \in Nat /\ 0 \in Int /\ 0 \in 0 .. CounterMod - 1 /\ Never \in {Never}
    BY ConstantsAssumption
  <2> QED
    BY <1>1, <2>1, FlowAssumption DEF Init, History
<1>7. req \in Requests /\ track \in Macs \cup {NoMac}
  BY DEF Init, Requests
<1>8. NoSplice /\ PacketLeavesLock
  BY <1>4 DEF Init, NoSplice, PacketLeavesLock, Locked
<1> QED
  BY <1>1, <1>3, <1>4, <1>5, <1>6, <1>7, <1>8 DEF Inv, TypeOK

(* idleTick() runs the same housekeeping as the end of onPacket.           *)
LEMMA IdleInv ==
  ASSUME Inv, Idle
  PROVE  Inv'
<1>1. /\ now \in Nat /\ Millis \in Clock /\ Sound(sel) /\ ~sel.lockChanged
      /\ track \in Macs \cup {NoMac} /\ h \in History /\ req \in Requests
  BY MillisInClock DEF Inv, TypeOK, TableOK, Sound
<1>2. Locked(sel) => track \in {NoMac, LockedMac(sel)}
  BY DEF Inv, NoSplice
<1>3. /\ Still \in History /\ ~Still.passed
      /\ Still.after \in {NoMac, Still.decoded}
  BY <1>1, StillType DEF Inv, NoSplice
<1>4. Housekeeping(sel, track, Still) /\ now' = now /\ req' = req
  BY DEF Idle
<1> QED
  BY <1>1, <1>2, <1>3, <1>4, HousekeepingInv DEF Inv, TypeOK

(* The setters change neither the table nor the lock.                      *)
LEMMA TuneInv ==
  ASSUME Inv, NEW t \in Timeouts, NEW e \in Selections, Tune(t, e)
  PROVE  Inv'
<1>1. Sound(sel) /\ h \in History /\ t \in Nat /\ e \in BOOLEAN
  BY FlowAssumption DEF Inv, TypeOK, TableOK, Sound
<1>2. sel' = SetOptions(sel, t, e) /\ h' = Still /\ UNCHANGED <<now, req, track>>
  BY DEF Tune
<1>3. Sound(sel') /\ ~sel'.lockChanged /\ sel'.locked = sel.locked /\ sel'.src = sel.src
  <2>1. Sound(SetOptions(sel, t, e))
    BY <1>1, SettersKeep DEF Follows, Keeps
  <2> QED
    BY <1>1, <1>2, <2>1 DEF SetOptions, Sound, Selector, Inv, TypeOK
<1>4. /\ h' \in History /\ ~h'.passed
      /\ h'.decoded = h.decoded /\ h'.after = h.after
  BY <1>1, <1>2, StillType
<1>5. NoSplice' /\ PacketLeavesLock'
  BY <1>2, <1>3, <1>4 DEF Inv, NoSplice, PacketLeavesLock, Locked, LockedMac
<1> QED
  BY <1>2, <1>3, <1>4, <1>5 DEF Inv, TypeOK, TableOK, Sound

(* A step that leaves selector and tracking alone preserves Inv.           *)
LEMMA QuietStepInv ==
  ASSUME Inv, UNCHANGED <<sel, track>>, h' \in {h, Still},
         now' \in Nat, req' \in Requests
  PROVE  Inv'
<1>1. /\ h' \in History /\ (h'.passed => h.passed)
      /\ h'.decoded = h.decoded /\ h'.after = h.after
  BY StillType DEF Inv, TypeOK
<1>2. NoSplice' /\ PacketLeavesLock'
  BY <1>1 DEF Inv, NoSplice, PacketLeavesLock
<1> QED
  BY <1>1, <1>2 DEF Inv, TypeOK, TableOK

(* Inv is inductive: one case per action, and the stutter.                 *)
LEMMA NextInv ==
  ASSUME MaxSources >= 2, Inv, [Next]_vars
  PROVE  Inv'
<1>1. now \in Nat /\ req \in Requests
  BY DEF Inv, TypeOK
<1>2. ASSUME NEW m \in Macs, NEW r \in Rssis, NEW mode \in Modes,
             NEW rel \in RelayFlags, NEW out \in Outcomes, Packet(m, r, mode, rel, out)
      PROVE  Inv'
  BY <1>2, PacketInv
<1>3. CASE Idle
  BY <1>3, IdleInv
<1>4. ASSUME NEW t \in Timeouts, NEW e \in Selections, Tune(t, e)
      PROVE  Inv'
  BY <1>4, TuneInv
<1>5. CASE RequestRelock
  <2>1. req' \in Requests
    BY <1>1, <1>5 DEF RequestRelock, Requests
  <2> QED
    BY <1>1, <1>5, <2>1, QuietStepInv DEF RequestRelock
<1>6. ASSUME NEW on \in RelayRequests, RequestRelayTest(on)
      PROVE  Inv'
  <2>1. on \in BOOLEAN
    BY FlowAssumption
  <2>2. req' \in Requests
    BY <1>1, <1>6, <2>1 DEF RequestRelayTest, Requests
  <2> QED
    BY <1>1, <1>6, <2>2, QuietStepInv DEF RequestRelayTest
<1>7. CASE Clockwork
  <2>1. now' \in Nat
    BY <1>1, <1>7 DEF Clockwork
  <2> QED
    BY <1>1, <1>7, <2>1, QuietStepInv DEF Clockwork
<1>8. CASE UNCHANGED vars
  BY <1>1, <1>8, QuietStepInv DEF vars
<1> QED
  BY <1>2, <1>3, <1>4, <1>5, <1>6, <1>7, <1>8 DEF Next

(***************************************************************************)
(* The theorems.                                                           *)
(***************************************************************************)
(* With a table of at least two slots the source lock keeps its types, its *)
(* table sound, its decoding free of splices, and every packet that passes *)
(* the relay filter leaves it locked, whatever the transmitters, the       *)
(* timing and the application do.                                          *)
THEOREM InvHolds ==
  ASSUME MaxSources >= 2
  PROVE  Spec => []Inv
<1>1. Init => Inv
  BY InitInv
<1>2. Inv /\ [Next]_vars => Inv'
  BY NextInv
<1> QED
  BY <1>1, <1>2, PTL DEF Spec

(* SourceSelector's state and StreamDecoder's request flags stay in range. *)
THEOREM TypeCorrect ==
  ASSUME MaxSources >= 2
  PROVE  Spec => []TypeOK
<1>1. Inv => TypeOK
  BY DEF Inv
<1> QED
  BY <1>1, InvHolds, PTL

(* findOrAdd never duplicates a MAC, and the locked or remembered slot is  *)
(* always one in use.                                                      *)
THEOREM TableSound ==
  ASSUME MaxSources >= 2
  PROVE  Spec => []TableOK
<1>1. Inv => TableOK
  BY DEF Inv
<1> QED
  BY <1>1, InvHolds, PTL

(* onPacket never decodes a packet of one source against the sequence      *)
(* numbers of another.                                                     *)
THEOREM SingleSource ==
  ASSUME MaxSources >= 2
  PROVE  Spec => []NoSplice
<1>1. Inv => NoSplice
  BY DEF Inv
<1> QED
  BY <1>1, InvHolds, PTL

(* admit() never turns a packet that passed the relay filter away while    *)
(* holding no lock.                                                        *)
THEOREM NeverStranded ==
  ASSUME MaxSources >= 2
  PROVE  Spec => []PacketLeavesLock
<1>1. Inv => PacketLeavesLock
  BY DEF Inv
<1> QED
  BY <1>1, InvHolds, PTL

(***************************************************************************)
(* The history and the table: every slot in use was heard when the history *)
(* says, no challenge is older than the lock, and handoffs() has counted   *)
(* the moves of the lock.                                                  *)
(***************************************************************************)
(* The minimum spacings are not zero: 10 s and 0.4 s in the code.          *)
Paced == SEL_MIN_SWITCH_MS >= 1 /\ RSSI_HOLD_MS >= 1

(* No packet carries a signal strength.                                    *)
NoRssi == Rssis \subseteq {RSSI_UNKNOWN}

(* A slot for every transmitter: none is evicted.                          *)
Roomy == IsFiniteSet(Macs) /\ Cardinality(Macs) <= MaxSources

HeardThen(e, g) ==
  e.used => /\ e.mac \in Macs
            /\ g.heard[e.mac] \in 0 .. now /\ g.heard[e.mac] % ClockMod = e.last_ms
            /\ NoRssi => e.rssi = RSSI_UNKNOWN

ChallengedSince(e, g) ==
  e.hyst_start = 0 \/ \E c \in Nat : /\ g.lockedAt <= c /\ c <= now
                                     /\ c % ClockMod = e.hyst_start

Recorded(s, g) ==
  /\ g.lockedAt <= now
  /\ \A i \in Slots : HeardThen(s.src[i], g) /\ ChallengedSince(s.src[i], g)

RememberedMac(s) == IF RememberedSlot(s) >= 0 THEN s.src[RememberedSlot(s)].mac ELSE NoMac

Counted(s, g) == s.handoffs = g.moves /\ g.last = RememberedMac(s)

Marked(s, g) == Recorded(s, g) /\ (Roomy => Counted(s, g))

(* The fields of the history that Marked looks at.                         *)
AsBefore(f, g) ==
  f.heard = g.heard /\ f.lockedAt = g.lockedAt /\ f.last = g.last /\ f.moves = g.moves

(* A method that moves no lock and hears nothing.                          *)
Plain(s, t) ==
  /\ t.handoffs = s.handoffs /\ RememberedSlot(t) = RememberedSlot(s)
  /\ \A i \in Slots :
       /\ t.src[i].mac = s.src[i].mac /\ t.src[i].used = s.src[i].used
       /\ t.src[i].last_ms = s.src[i].last_ms /\ t.src[i].rssi = s.src[i].rssi
       /\ t.src[i].hyst_start \in {s.src[i].hyst_start, 0, Millis}

(* The same sources in the same slots, with the same cool-offs.            *)
SameTable(s, t) ==
  \A j \in Slots : /\ t.src[j].mac = s.src[j].mac /\ t.src[j].used = s.src[j].used
                   /\ t.src[j].blacklist_until = s.src[j].blacklist_until

(* The same, but for a cool-off given to slot i.                           *)
CooledTable(s, i, t) ==
  \A j \in Slots :
    /\ t.src[j].mac = s.src[j].mac /\ t.src[j].used = s.src[j].used
    /\ t.src[j].blacklist_until = IF j = i THEN Plus(Millis, SEL_BLACKLIST_MS)
                                  ELSE s.src[j].blacklist_until

(* The options and the time of the last rate switch.                       *)
SameSettings(s, t) ==
  /\ t.lockTimeoutMs = s.lockTimeoutMs /\ t.selectionEnabled = s.selectionEnabled
  /\ t.lastSwitch = s.lastSwitch

(* A plain method keeps the marks.                                         *)
LEMMA PlainMarked ==
  ASSUME now \in Nat, Millis \in Clock, NEW s \in Selector, NEW t, NEW f, NEW g,
         Marked(s, f), Plain(s, t), AsBefore(f, g)
  PROVE  Marked(t, g)
<1>1. Recorded(t, g)
  <2> SUFFICES ASSUME NEW i \in Slots
               PROVE  HeardThen(t.src[i], g) /\ ChallengedSince(t.src[i], g)
    BY DEF Recorded, Marked, AsBefore
  <2>1. HeardThen(s.src[i], f) /\ ChallengedSince(s.src[i], f) /\ f.lockedAt <= now
    BY DEF Marked, Recorded
  <2>2. HeardThen(t.src[i], g)
    BY <2>1 DEF HeardThen, Plain, AsBefore
  <2>3. ChallengedSince(t.src[i], g)
    BY <2>1 DEF ChallengedSince, Plain, AsBefore, Millis
  <2> QED
    BY <2>2, <2>3
<1>2. RememberedSlot(s) >= 0 => RememberedSlot(s) \in Slots
  BY LockRange
<1>3. RememberedMac(t) = RememberedMac(s)
  BY <1>2 DEF RememberedMac, Plain
<1> QED
  BY <1>1, <1>3 DEF Marked, Counted, Plain, AsBefore

(* What acquire() writes.                                                  *)
LEMMA AcquireFields ==
  ASSUME NEW s \in Selector, NEW i \in Slots
  PROVE  LET u == Acquire(s, i)
         IN  /\ u.locked = i /\ u.lockChanged /\ RememberedSlot(u) = i
             /\ Locked(u) /\ LockedMac(u) = s.src[i].mac
             /\ u.handoffs = IF RememberedSlot(s) \in {-1, i} THEN s.handoffs
                             ELSE (s.handoffs + 1) % CounterMod
             /\ SameSettings(s, u)
             /\ \A j \in Slots :
                  /\ u.src[j].mac = s.src[j].mac /\ u.src[j].used = s.src[j].used
                  /\ u.src[j].last_ms = s.src[j].last_ms /\ u.src[j].rssi = s.src[j].rssi
                  /\ u.src[j].hyst_start = 0
             /\ SameTable(s, u)
<1> DEFINE u == Acquire(s, i)
           src2 == [j \in Slots |-> [s.src[j] EXCEPT !.hyst_start = 0]]
<1>1. /\ u.locked = i /\ u.lockChanged /\ u.src = src2 /\ SameSettings(s, u)
      /\ u.handoffs = IF RememberedSlot(s) \in {-1, i} THEN s.handoffs
                      ELSE (s.handoffs + 1) % CounterMod
  BY DEF Acquire, Selector, SameSettings
<1>2. \A j \in Slots :
        /\ src2[j].mac = s.src[j].mac /\ src2[j].used = s.src[j].used
        /\ src2[j].last_ms = s.src[j].last_ms /\ src2[j].rssi = s.src[j].rssi
        /\ src2[j].hyst_start = 0 /\ src2[j].blacklist_until = s.src[j].blacklist_until
  BY DEF Selector, Source
<1>3. i >= 0
  BY ConstantsAssumption DEF Slots
<1> HIDE DEF u, src2
<1>4. RememberedSlot(u) = i /\ Locked(u) /\ LockedMac(u) = s.src[i].mac
  BY <1>1, <1>2, <1>3 DEF RememberedSlot, Locked, LockedMac
<1>5. SameTable(s, u)
  BY <1>1, <1>2 DEF SameTable
<1> QED
  BY <1>1, <1>2, <1>4, <1>5 DEF u

(* What the history records of an acquisition.                             *)
LEMMA MovedFields ==
  ASSUME NEW g \in History, NEW s
  PROVE  /\ Moved(g, s, TRUE).heard = g.heard
         /\ Moved(g, s, TRUE).lockedAt = now
         /\ Moved(g, s, TRUE).last = LockedMac(s)
         /\ Moved(g, s, TRUE).moves = IF g.last \in {NoMac, LockedMac(s)} THEN g.moves
                                      ELSE (g.moves + 1) % CounterMod
         /\ Moved(g, s, TRUE).cool = g.cool
         /\ Moved(g, s, FALSE) = g
  BY DEF Moved, History

(* An acquisition is recorded as it is counted.                            *)
LEMMA AcquireMarked ==
  ASSUME now \in Nat, Millis \in Clock, NEW s, Sound(s), NEW g \in History, Marked(s, g),
         NEW i \in Slots, s.src[i].used
  PROVE  Marked(Acquire(s, i), Moved(g, Acquire(s, i), TRUE))
<1> DEFINE u == Acquire(s, i)
           f == Moved(g, u, TRUE)
<1>1. s \in Selector /\ Table(s)
  BY DEF Sound
<1>2. /\ u.locked = i /\ RememberedSlot(u) = i /\ LockedMac(u) = s.src[i].mac
      /\ u.handoffs = IF RememberedSlot(s) \in {-1, i} THEN s.handoffs
                      ELSE (s.handoffs + 1) % CounterMod
      /\ \A j \in Slots :
           /\ u.src[j].mac = s.src[j].mac /\ u.src[j].used = s.src[j].used
           /\ u.src[j].last_ms = s.src[j].last_ms /\ u.src[j].rssi = s.src[j].rssi
           /\ u.src[j].hyst_start = 0
  BY <1>1, AcquireFields
<1>3. /\ f.heard = g.heard /\ f.lockedAt = now /\ f.last = LockedMac(u)
      /\ f.moves = IF g.last \in {NoMac, LockedMac(u)} THEN g.moves
                   ELSE (g.moves + 1) % CounterMod
  BY MovedFields
<1>4. \A j \in Slots : HeardThen(s.src[j], g)
  BY DEF Marked, Recorded
<1> HIDE DEF u, f
<1>5. Recorded(u, f)
  <2> SUFFICES ASSUME NEW j \in Slots
               PROVE  HeardThen(u.src[j], f) /\ ChallengedSince(u.src[j], f)
    BY <1>1, <1>3 DEF Recorded
  <2> QED
    BY <1>2, <1>3, <1>4 DEF HeardThen, ChallengedSince
<1>6. ASSUME Roomy PROVE Counted(u, f)
  <2>1. s.handoffs = g.moves /\ g.last = RememberedMac(s)
    BY <1>6 DEF Marked, Counted
  <2>2. i >= 0
    BY ConstantsAssumption DEF Slots
  <2>3. RememberedMac(u) = s.src[i].mac
    BY <1>2, <2>2 DEF RememberedMac
  <2>4. s.src[i].mac \in Macs
    BY <1>4 DEF HeardThen
  <2>5. CASE RememberedSlot(s) >= 0
    <3>1. RememberedSlot(s) \in Slots /\ s.src[RememberedSlot(s)].used
      BY <1>1, <2>5, LockRange DEF Table
    <3>2. g.last = s.src[RememberedSlot(s)].mac /\ g.last \in Macs
      BY <1>4, <2>1, <2>5, <3>1 DEF RememberedMac, HeardThen
    <3>3. g.last = s.src[i].mac <=> RememberedSlot(s) = i
      BY <1>1, <3>1, <3>2 DEF Table
    <3>4. g.last # NoMac /\ RememberedSlot(s) # -1
      BY <2>5, <3>2, ConstantsAssumption
    <3> QED
      BY <1>2, <1>3, <2>1, <2>3, <3>3, <3>4 DEF Counted
  <2>6. CASE ~(RememberedSlot(s) >= 0)
    <3>1. RememberedSlot(s) = -1
      BY <1>1, <2>6, LockRange DEF RememberedSlot
    <3>2. g.last = NoMac
      BY <2>1, <2>6 DEF RememberedMac
    <3> QED
      BY <1>2, <1>3, <2>1, <2>3, <3>1, <3>2 DEF Counted
  <2> QED
    BY <2>5, <2>6
<1> QED
  BY <1>5, <1>6 DEF Marked, u, f

(***************************************************************************)
(* Hearing a packet.                                                       *)
(***************************************************************************)
(* With a slot for every transmitter, one that has none finds a free slot. *)
LEMMA RoomForAll ==
  ASSUME NEW s, Sound(s), NEW m \in Macs, Roomy,
         \A j \in Slots : s.src[j].used => s.src[j].mac \in Macs,
         ~\E j \in Slots : s.src[j].used /\ s.src[j].mac = m
  PROVE  \E j \in 0 .. MaxSources - 1 : ~s.src[j].used
<1> SUFFICES ASSUME \A j \in 0 .. MaxSources - 1 : s.src[j].used
             PROVE  FALSE
  OBVIOUS
<1> DEFINE S == 0 .. MaxSources - 1
           T == Macs \ {m}
           f == [j \in S |-> s.src[j].mac]
<1>1. MaxSources \in Nat /\ MaxSources >= 1 /\ S \subseteq Slots
  BY ConstantsAssumption DEF Slots
<1>2. IsFiniteSet(S) /\ Cardinality(S) = MaxSources
  BY <1>1, FS_Interval
<1>3. IsFiniteSet(T) /\ Cardinality(T) = Cardinality(Macs) - 1
  BY FS_RemoveElement DEF Roomy
<1>4. Cardinality(Macs) \in Nat
  BY FS_CardinalityType DEF Roomy
<1>5. Cardinality(T) < Cardinality(S)
  BY <1>1, <1>2, <1>3, <1>4 DEF Roomy
<1>6. f \in [S -> T]
  BY <1>1
<1>7. PICK x, y \in S : x # y /\ f[x] = f[y]
  <2> HIDE DEF S, T, f
  <2> QED
    BY <1>2, <1>3, <1>5, <1>6, FS_PigeonHole
<1> QED
  BY <1>1, <1>7 DEF Sound, Table

(* The slot findOrAdd() settles on is the transmitter's, or one that was   *)
(* free if there was a free one.                                           *)
LEMMA SlotForFree ==
  ASSUME NEW s, Sound(s), NEW m \in Macs, NEW t \in Clock,
         \E j \in 0 .. MaxSources - 1 : ~s.src[j].used
  PROVE  LET i == SlotFor(s, m, t)
         IN  ~s.src[i].used \/ s.src[i].mac = m
<1> DEFINE known  == {i \in Slots : s.src[i].used /\ s.src[i].mac = m}
           free   == {i \in 0 .. MaxSources - 1 : ~s.src[i].used}
<1>1. free # {} /\ free \in SUBSET Nat /\ known \in SUBSET Nat
  BY ConstantsAssumption DEF Slots
<1>2. FirstOf(free) \in free
  BY <1>1, FirstOfIn
<1>3. known # {} => FirstOf(known) \in known
  BY <1>1, FirstOfIn
<1> QED
  BY <1>1, <1>2, <1>3 DEF SlotFor

(* The packet's slot, found or added and refreshed.                        *)
Hear(s, m, r, mode, rel) ==
  LET i == SlotFor(s, m, Millis) IN Refresh(FindOrAdd(s, i, m, Millis), i, r, mode, rel, Millis)

(* It is heard now; the others, and the lock, are as before.               *)
LEMMA HearFields ==
  ASSUME now \in Nat, Millis \in Clock, NEW s, Sound(s), NEW m \in Macs, NEW r, NEW mode, NEW rel
  PROVE  LET i == SlotFor(s, m, Millis)
             b == Hear(s, m, r, mode, rel)
         IN  /\ i \in Slots
             /\ b.src[i].used /\ b.src[i].mac = m /\ b.src[i].last_ms = Millis
             /\ b.src[i].hyst_start \in {0, s.src[i].hyst_start}
             /\ s.src[i].used /\ s.src[i].mac = m
                  => b.src[i].rssi = IF r # RSSI_UNKNOWN THEN r ELSE s.src[i].rssi
             /\ ~(s.src[i].used /\ s.src[i].mac = m) => b.src[i].rssi = r
             /\ \A j \in Slots \ {i} : b.src[j] = s.src[j]
             /\ b.locked = s.locked /\ b.lockChanged = s.lockChanged
             /\ b.handoffs = s.handoffs /\ SameSettings(s, b)
<1> DEFINE i == SlotFor(s, m, Millis)
           e == IF s.src[i].used /\ s.src[i].mac = m THEN s.src[i] ELSE NewSource(m, Millis)
           a == FindOrAdd(s, i, m, Millis)
           b == Refresh(a, i, r, mode, rel, Millis)
<1>1. i \in Slots /\ s \in Selector
  BY SlotForIn DEF Sound
<1>2. /\ a.src[i] = e /\ \A j \in Slots \ {i} : a.src[j] = s.src[j]
      /\ a.src = [s.src EXCEPT ![i] = e]
      /\ a.locked = s.locked /\ a.lockChanged = s.lockChanged
      /\ a.handoffs = s.handoffs /\ SameSettings(s, a)
  <2>1. CASE s.src[i].used /\ s.src[i].mac = m
    BY <1>1, <2>1 DEF FindOrAdd, SameSettings, Selector
  <2>2. CASE ~(s.src[i].used /\ s.src[i].mac = m)
    BY <1>1, <2>2 DEF FindOrAdd, SameSettings, Selector
  <2> QED
    BY <2>1, <2>2
<1>3. b = [a EXCEPT !.src[i] = Refreshed(a.src[i], r, mode, rel, Millis)]
  BY DEF Refresh
<1>4. /\ b.src = [a.src EXCEPT ![i] = Refreshed(e, r, mode, rel, Millis)]
      /\ b.locked = a.locked /\ b.lockChanged = a.lockChanged
      /\ b.handoffs = a.handoffs /\ SameSettings(a, b)
  <2>1. CASE s.src[i].used /\ s.src[i].mac = m
    BY <1>1, <1>2, <1>3, <2>1 DEF FindOrAdd, SameSettings, Selector
  <2>2. CASE ~(s.src[i].used /\ s.src[i].mac = m)
    BY <1>1, <1>2, <1>3, <2>2 DEF FindOrAdd, SameSettings, Selector
  <2> QED
    BY <2>1, <2>2
<1>5. /\ e.used /\ e.mac = m /\ e.hyst_start \in {0, s.src[i].hyst_start}
      /\ s.src[i].used /\ s.src[i].mac = m => e.rssi = s.src[i].rssi
      /\ ~(s.src[i].used /\ s.src[i].mac = m) => e.rssi = RSSI_UNKNOWN
  BY DEF NewSource
<1>6. LET f == Refreshed(e, r, mode, rel, Millis)
      IN  /\ f.used = e.used /\ f.mac = e.mac /\ f.last_ms = Millis
          /\ f.hyst_start = e.hyst_start
          /\ f.rssi = IF r # RSSI_UNKNOWN THEN r ELSE e.rssi
  <2>1. CASE s.src[i].used /\ s.src[i].mac = m
    BY <1>1, <2>1 DEF Refreshed, Selector, Source
  <2>2. CASE ~(s.src[i].used /\ s.src[i].mac = m)
    BY <2>2 DEF Refreshed, NewSource
  <2> QED
    BY <2>1, <2>2
<1>7. b.src[i] = Refreshed(e, r, mode, rel, Millis) /\ \A j \in Slots \ {i} : b.src[j] = s.src[j]
  BY <1>1, <1>2, <1>4 DEF Selector
<1>8. Hear(s, m, r, mode, rel) = b
  BY DEF Hear
<1> HIDE DEF e, a, b, i
<1>9. /\ b.src[i].used /\ b.src[i].mac = m /\ b.src[i].last_ms = Millis
      /\ b.src[i].hyst_start \in {0, s.src[i].hyst_start}
  BY <1>5, <1>6, <1>7
<1>10. s.src[i].used /\ s.src[i].mac = m
         => b.src[i].rssi = IF r # RSSI_UNKNOWN THEN r ELSE s.src[i].rssi
  BY <1>5, <1>6, <1>7
<1>11. ~(s.src[i].used /\ s.src[i].mac = m) => b.src[i].rssi = r
  BY <1>5, <1>6, <1>7
<1>12. /\ b.locked = s.locked /\ b.lockChanged = s.lockChanged
       /\ b.handoffs = s.handoffs /\ SameSettings(s, b)
  BY <1>2, <1>4 DEF SameSettings
<1>13. i = SlotFor(s, m, Millis)
  BY DEF i
<1> QED
  BY <1>1, <1>7, <1>8, <1>9, <1>10, <1>11, <1>12, <1>13

(* The history marks what was heard.                                       *)
LEMMA HearMarked ==
  ASSUME now \in Nat, Millis \in Clock, NEW s, Sound(s), NEW g \in History, Marked(s, g),
         NEW m \in Macs, NEW r \in Rssis, NEW mode, NEW rel
  PROVE  Marked(Hear(s, m, r, mode, rel), Heard(g, m, rel))
<1> DEFINE i == SlotFor(s, m, Millis)
           b == Hear(s, m, r, mode, rel)
           f == Heard(g, m, rel)
<1>1. /\ i \in Slots
      /\ b.src[i].used /\ b.src[i].mac = m /\ b.src[i].last_ms = Millis
      /\ b.src[i].hyst_start \in {0, s.src[i].hyst_start}
      /\ s.src[i].used /\ s.src[i].mac = m
           => b.src[i].rssi = IF r # RSSI_UNKNOWN THEN r ELSE s.src[i].rssi
      /\ ~(s.src[i].used /\ s.src[i].mac = m) => b.src[i].rssi = r
      /\ \A j \in Slots \ {i} : b.src[j] = s.src[j]
      /\ b.locked = s.locked /\ b.handoffs = s.handoffs
  BY HearFields
<1>2. /\ f.heard = [g.heard EXCEPT ![m] = now] /\ f.lockedAt = g.lockedAt
      /\ f.last = g.last /\ f.moves = g.moves
  BY DEF Heard, History
<1>3. /\ s \in Selector /\ Table(s) /\ g.heard \in [Macs -> Nat \cup {Never}]
  BY DEF Sound, History
<1>4. /\ g.lockedAt <= now
      /\ \A j \in Slots : HeardThen(s.src[j], g) /\ ChallengedSince(s.src[j], g)
  BY DEF Marked, Recorded
<1>5. \/ s.src[i].used /\ s.src[i].mac = m
      \/ ~\E j \in Slots : s.src[j].used /\ s.src[j].mac = m
  BY SlotForSafe
<1>6. NoRssi => r = RSSI_UNKNOWN
  BY DEF NoRssi
<1> HIDE DEF i, b, f
<1>7. ASSUME NEW j \in Slots \ {i}, s.src[j].used PROVE s.src[j].mac # m
  BY <1>1, <1>3, <1>5, <1>7 DEF Table
<1>8. Recorded(b, f)
  <2> SUFFICES ASSUME NEW j \in Slots
               PROVE  HeardThen(b.src[j], f) /\ ChallengedSince(b.src[j], f)
    BY <1>2, <1>4 DEF Recorded
  <2>1. CASE j = i
    <3>1. HeardThen(b.src[i], f)
      BY <1>1, <1>2, <1>3, <1>4, <1>6 DEF HeardThen, Millis
    <3>2. ChallengedSince(b.src[i], f)
      BY <1>1, <1>2, <1>4 DEF ChallengedSince
    <3> QED
      BY <2>1, <3>1, <3>2
  <2>2. CASE j # i
    <3>1. b.src[j] = s.src[j] /\ (s.src[j].used => s.src[j].mac # m)
      BY <1>1, <1>7, <2>2
    <3>2. HeardThen(b.src[j], f)
      BY <1>2, <1>3, <1>4, <3>1 DEF HeardThen
    <3>3. ChallengedSince(b.src[j], f)
      BY <1>2, <1>4, <3>1 DEF ChallengedSince
    <3> QED
      BY <3>2, <3>3
  <2> QED
    BY <2>1, <2>2
<1>9. ASSUME Roomy PROVE Counted(b, f)
  <2>1. s.handoffs = g.moves /\ g.last = RememberedMac(s)
    BY <1>9 DEF Marked, Counted
  <2>2. RememberedSlot(b) = RememberedSlot(s)
    BY <1>1 DEF RememberedSlot
  <2>3. ~s.src[i].used \/ s.src[i].mac = m
    <3>1. CASE s.src[i].used /\ s.src[i].mac = m
      BY <3>1
    <3>2. CASE ~\E j \in Slots : s.src[j].used /\ s.src[j].mac = m
      <4>1. \A j \in Slots : s.src[j].used => s.src[j].mac \in Macs
        BY <1>4 DEF HeardThen
      <4>2. \E j \in 0 .. MaxSources - 1 : ~s.src[j].used
        BY <1>9, <3>2, <4>1, RoomForAll
      <4> QED
        BY <4>2, SlotForFree DEF i
    <3> QED
      BY <1>5, <3>1, <3>2
  <2>4. CASE RememberedSlot(s) >= 0
    <3>1. RememberedSlot(s) \in Slots /\ s.src[RememberedSlot(s)].used
      BY <1>3, <2>4, LockRange DEF Table
    <3>2. b.src[RememberedSlot(s)].mac = s.src[RememberedSlot(s)].mac
      BY <1>1, <2>3, <3>1
    <3> QED
      BY <1>1, <1>2, <2>1, <2>2, <2>4, <3>2 DEF Counted, RememberedMac
  <2>5. CASE ~(RememberedSlot(s) >= 0)
    BY <1>1, <1>2, <2>1, <2>2, <2>5 DEF Counted, RememberedMac
  <2> QED
    BY <2>4, <2>5
<1> QED
  BY <1>8, <1>9 DEF Marked, b, f

(***************************************************************************)
(* The lock's moves.                                                       *)
(***************************************************************************)
(* The lock's source has not been heard for the lock timeout.              *)
Stale(s) == Locked(s) /\ Age(Millis, s.src[s.locked].last_ms) > s.lockTimeoutMs

(* release() drops the lock and remembers its slot.                        *)
LEMMA ReleasedFields ==
  ASSUME NEW s \in Selector, Locked(s)
  PROVE  /\ Plain(s, Released(s)) /\ SameSettings(s, Released(s))
         /\ Released(s).lockChanged = s.lockChanged /\ Released(s).src = s.src
         /\ ~Locked(Released(s))
<1> DEFINE u == Released(s)
<1>1. /\ u.locked = -2 - s.locked /\ u.src = s.src /\ u.handoffs = s.handoffs
      /\ u.lockChanged = s.lockChanged /\ SameSettings(s, u)
  BY DEF Released, Selector, SameSettings
<1>2. RememberedSlot(u) = s.locked /\ RememberedSlot(s) = s.locked /\ ~Locked(u)
  BY <1>1, LockRange DEF RememberedSlot, Locked
<1> HIDE DEF u
<1> QED
  BY <1>1, <1>2 DEF Plain, u

(* The stale-lock release keeps the lock, hands it over or drops it.       *)
LEMMA ReleaseStaleCases ==
  ASSUME NEW s, Sound(s)
  PROVE  \/ ~Stale(s) /\ ReleaseStale(s, Millis) = s
         \/ Stale(s) /\ \E p \in Slots : s.src[p].used /\ ReleaseStale(s, Millis) = Acquire(s, p)
         \/ Stale(s) /\ ReleaseStale(s, Millis) = Released(s)
<1> DEFINE p == PickReLockTarget(s, Millis)
<1>1. p = -1 \/ (p \in Slots /\ s.src[p].used)
  BY PickIn DEF Sound
<1> QED
  BY <1>1 DEF ReleaseStale, Stale

(* What it does is recorded as it is counted.                              *)
LEMMA ReleaseStaleMarked ==
  ASSUME now \in Nat, Millis \in Clock, NEW s, Sound(s), ~s.lockChanged,
         NEW g \in History, Marked(s, g)
  PROVE  LET c == ReleaseStale(s, Millis)
         IN  Marked(c, Moved(g, c, c.lockChanged)) /\ SameSettings(s, c)
<1> DEFINE c == ReleaseStale(s, Millis)
<1>1. s \in Selector
  BY DEF Sound
<1>2. CASE c = s
  BY <1>2, MovedFields DEF SameSettings, Moved
<1>3. ASSUME NEW p \in Slots, s.src[p].used, c = Acquire(s, p)
      PROVE  Marked(c, Moved(g, c, c.lockChanged)) /\ SameSettings(s, c)
  <2>1. Acquire(s, p).lockChanged = TRUE /\ SameSettings(s, Acquire(s, p))
    <3>1. s.lockChanged \in BOOLEAN
      BY <1>1 DEF Selector
    <3> QED
      BY <1>1, AcquireFields DEF Acquire, Selector
  <2>2. Marked(Acquire(s, p), Moved(g, Acquire(s, p), TRUE))
    BY <1>3, AcquireMarked
  <2> QED
    BY <1>3, <2>1, <2>2
<1>4. CASE Locked(s) /\ c = Released(s)
  <2>1. /\ Plain(s, c) /\ SameSettings(s, c) /\ c.lockChanged = s.lockChanged
    BY <1>1, <1>4, ReleasedFields
  <2>2. Moved(g, c, c.lockChanged) = g
    BY <2>1 DEF Moved
  <2>3. Marked(c, g)
    BY <1>1, <2>1, PlainMarked DEF AsBefore
  <2> QED
    BY <2>1, <2>2, <2>3
<1>5. \/ c = s
      \/ \E p \in Slots : s.src[p].used /\ c = Acquire(s, p)
      \/ Locked(s) /\ c = Released(s)
  BY ReleaseStaleCases DEF Stale
<1> HIDE DEF c
<1> QED
  BY <1>2, <1>3, <1>4, <1>5 DEF c

(* A challenge that is begun, continued or dropped moves no lock.          *)
LEMMA HystFields ==
  ASSUME NEW s \in Selector, NEW i \in Slots, NEW c \in {0, Millis, s.src[i].hyst_start}
  PROVE  LET u == [s EXCEPT !.src[i].hyst_start = c]
         IN  /\ Plain(s, u) /\ SameSettings(s, u) /\ u.lockChanged = s.lockChanged
             /\ u.locked = s.locked /\ LockedMac(u) = LockedMac(s) /\ SameTable(s, u)
<1> DEFINE u == [s EXCEPT !.src[i].hyst_start = c]
<1>1. /\ u.locked = s.locked /\ u.lockChanged = s.lockChanged
      /\ u.handoffs = s.handoffs /\ SameSettings(s, u)
  BY DEF Selector, SameSettings
<1>2. \A j \in Slots :
        /\ u.src[j].mac = s.src[j].mac /\ u.src[j].used = s.src[j].used
        /\ u.src[j].last_ms = s.src[j].last_ms /\ u.src[j].rssi = s.src[j].rssi
        /\ u.src[j].hyst_start \in {s.src[j].hyst_start, 0, Millis}
        /\ u.src[j].blacklist_until = s.src[j].blacklist_until
  BY DEF Selector, Source
<1>3. RememberedSlot(u) = RememberedSlot(s)
  BY <1>1 DEF RememberedSlot
<1>4. LockedMac(u) = LockedMac(s)
  BY <1>1, <1>2, LockRange DEF Locked, LockedMac
<1> HIDE DEF u
<1>5. SameTable(s, u)
  BY <1>2 DEF SameTable
<1> QED
  BY <1>1, <1>2, <1>3, <1>4, <1>5 DEF Plain, u

(* admit()'s decision: a lock where there was none, none but a challenge   *)
(* noted, or the challenger's once it has been stronger for the hold.      *)
LEMMA DecideCases ==
  ASSUME NEW s, Sound(s), NEW i \in Slots, s.src[i].used
  PROVE  LET d == Decide(s, i, Millis)
             start == IF s.src[i].hyst_start = 0 THEN Millis ELSE s.src[i].hyst_start
         IN  \/ ~Locked(s) /\ \E p \in Slots : s.src[p].used /\ d = Acquire(s, p)
             \/ Locked(s) /\ d = s
             \/ /\ Locked(s)
                /\ \E c \in {0, Millis, s.src[i].hyst_start} :
                     d = [s EXCEPT !.src[i].hyst_start = c]
             \/ /\ Locked(s) /\ d = Acquire(s, i)
                /\ s.src[i].rssi # RSSI_UNKNOWN /\ Age(Millis, start) >= RSSI_HOLD_MS
<1> DEFINE p == PickReLockTarget(s, Millis)
<1>1. p = -1 \/ (p \in Slots /\ s.src[p].used)
  BY PickIn DEF Sound
<1>2. CASE ~Locked(s)
  BY <1>1, <1>2 DEF Decide
<1>3. CASE Locked(s) /\ s.locked = i
  BY <1>3 DEF Decide
<1>4. CASE Locked(s) /\ s.locked # i
  BY <1>4 DEF Decide, Challenge, Stronger
<1> QED
  BY <1>2, <1>3, <1>4

(* The history of a move depends on the MAC that is locked, and on whether *)
(* it moved.                                                               *)
LEMMA MovedAlike ==
  ASSUME NEW g, NEW s, NEW t, LockedMac(t) = LockedMac(s), t.lockChanged = s.lockChanged
  PROVE  Moved(g, t, t.lockChanged) = Moved(g, s, s.lockChanged)
  BY DEF Moved

(* A decision on a lock that has not moved yet.                            *)
LEMMA DecideMarked ==
  ASSUME now \in Nat, Millis \in Clock, NEW s, Sound(s), ~s.lockChanged,
         NEW g \in History, Marked(s, g), NEW i \in Slots, s.src[i].used
  PROVE  LET d == Decide(s, i, Millis)
         IN  Marked(d, Moved(g, d, d.lockChanged)) /\ SameSettings(s, d)
<1> DEFINE d == Decide(s, i, Millis)
<1>1. s \in Selector /\ s.lockChanged \in BOOLEAN
  BY DEF Sound, Selector
<1>2. ASSUME NEW p \in Slots, s.src[p].used, d = Acquire(s, p)
      PROVE  Marked(d, Moved(g, d, d.lockChanged)) /\ SameSettings(s, d)
  <2>1. Acquire(s, p).lockChanged = TRUE /\ SameSettings(s, Acquire(s, p))
    BY <1>1, AcquireFields DEF Acquire, Selector
  <2>2. Marked(Acquire(s, p), Moved(g, Acquire(s, p), TRUE))
    BY <1>2, AcquireMarked
  <2> QED
    BY <1>2, <2>1, <2>2
<1>3. CASE d = s
  BY <1>3 DEF Moved, SameSettings
<1>4. ASSUME NEW c \in {0, Millis, s.src[i].hyst_start}, d = [s EXCEPT !.src[i].hyst_start = c]
      PROVE  Marked(d, Moved(g, d, d.lockChanged)) /\ SameSettings(s, d)
  <2> DEFINE u == [s EXCEPT !.src[i].hyst_start = c]
  <2>4. Plain(s, u) /\ SameSettings(s, u) /\ u.lockChanged = s.lockChanged
    BY <1>1, HystFields
  <2> HIDE DEF u
  <2>1. Plain(s, d) /\ SameSettings(s, d) /\ d.lockChanged = s.lockChanged
    BY <1>4, <2>4 DEF u
  <2>2. Moved(g, d, d.lockChanged) = g
    BY <2>1 DEF Moved
  <2>3. Marked(d, g)
    BY <1>1, <2>1, PlainMarked DEF AsBefore
  <2> QED
    BY <2>1, <2>2, <2>3
<1>5. \/ \E p \in Slots : s.src[p].used /\ d = Acquire(s, p)
      \/ d = s
      \/ \E c \in {0, Millis, s.src[i].hyst_start} : d = [s EXCEPT !.src[i].hyst_start = c]
  BY DecideCases
<1> HIDE DEF d
<1> QED
  BY <1>2, <1>3, <1>4, <1>5 DEF d

(* A lock that has just moved does not move again: challenges start anew.  *)
LEMMA DecideAfterMove ==
  ASSUME now \in Nat, Millis \in Clock, Paced, NEW s, Sound(s), Locked(s), NEW g, Marked(s, g),
         NEW i \in Slots, s.src[i].used, s.src[i].hyst_start = 0
  PROVE  LET d == Decide(s, i, Millis)
         IN  /\ Marked(d, g) /\ SameSettings(s, d)
             /\ LockedMac(d) = LockedMac(s) /\ d.lockChanged = s.lockChanged
<1> DEFINE d == Decide(s, i, Millis)
<1>1. s \in Selector
  BY DEF Sound
<1>2. Age(Millis, Millis) = 0 /\ ~(Age(Millis, Millis) >= RSSI_HOLD_MS)
  <2>1. Millis \in Int /\ ClockMod \in Nat /\ ClockMod > 1 /\ RSSI_HOLD_MS \in Nat
    BY ConstantsAssumption DEF Clock
  <2>2. (Millis - Millis) % ClockMod = 0
    BY <2>1
  <2> QED
    BY <2>1, <2>2 DEF Age, Paced
<1>3. d = s \/ \E c \in {0, Millis, s.src[i].hyst_start} : d = [s EXCEPT !.src[i].hyst_start = c]
  BY <1>2, DecideCases
<1>4. CASE d = s
  BY <1>4 DEF SameSettings
<1>5. ASSUME NEW c \in {0, Millis, s.src[i].hyst_start}, d = [s EXCEPT !.src[i].hyst_start = c]
      PROVE  /\ Marked(d, g) /\ SameSettings(s, d)
             /\ LockedMac(d) = LockedMac(s) /\ d.lockChanged = s.lockChanged
  <2> DEFINE u == [s EXCEPT !.src[i].hyst_start = c]
  <2>3. /\ Plain(s, u) /\ SameSettings(s, u) /\ u.lockChanged = s.lockChanged
        /\ LockedMac(u) = LockedMac(s)
    BY <1>1, HystFields
  <2> HIDE DEF u
  <2>1. /\ Plain(s, d) /\ SameSettings(s, d) /\ d.lockChanged = s.lockChanged
        /\ LockedMac(d) = LockedMac(s)
    BY <1>5, <2>3 DEF u
  <2>2. Marked(d, g)
    BY <1>1, <2>1, PlainMarked DEF AsBefore
  <2> QED
    BY <2>1, <2>2
<1> HIDE DEF d
<1> QED
  BY <1>3, <1>4, <1>5 DEF d

(***************************************************************************)
(* admit().                                                                *)
(***************************************************************************)
(* Hearing a packet keeps the table sound and the lock.                    *)
LEMMA HearKeeps ==
  ASSUME now \in Nat, Millis \in Clock, NEW s, Sound(s), NEW m \in Macs, NEW r \in RssiRange,
         NEW mode \in Modes, NEW rel \in BOOLEAN, MaxSources >= 2
  PROVE  Keeps(s, Hear(s, m, r, mode, rel)) /\ Sound(Hear(s, m, r, mode, rel))
<1> DEFINE i == SlotFor(s, m, Millis)
           a == FindOrAdd(s, i, m, Millis)
           b == Refresh(a, i, r, mode, rel, Millis)
<1>1. i \in Slots
  BY SlotForIn DEF Sound
<1>2. Keeps(s, a) /\ Sound(a)
  BY FindOrAddKeeps DEF Keeps
<1>3. Follows(a, b) /\ Sound(b)
  BY <1>1, <1>2, RefreshFollows DEF Follows, Keeps
<1>4. Keeps(s, b)
  BY <1>2, <1>3, KeepsTransitive DEF Follows
<1> QED
  BY <1>3, <1>4 DEF Hear

(* The steps of admit().                                                   *)
LEMMA AdmitSteps ==
  ASSUME now \in Nat, Millis \in Clock, NEW s, Sound(s), NEW m \in Macs, NEW r \in RssiRange,
         NEW mode \in Modes, NEW rel \in BOOLEAN, MaxSources >= 2, ~Filtered(s, rel)
  PROVE  LET i == SlotFor(s, m, Millis)
             b == Hear(s, m, r, mode, rel)
             c == ReleaseStale(b, Millis)
             d == Decide(c, i, Millis)
             u == Admit(s, m, r, mode, rel, Millis)
         IN  /\ i \in Slots /\ Sound(b) /\ Sound(c) /\ c.src[i].used /\ Sound(d)
             /\ Plain(d, u) /\ SameSettings(d, u) /\ u.lockChanged = d.lockChanged
             /\ u.locked = d.locked /\ LockedMac(u) = LockedMac(d) /\ SameTable(d, u)
<1> DEFINE i == SlotFor(s, m, Millis)
           b == Hear(s, m, r, mode, rel)
           c == ReleaseStale(b, Millis)
           d == Decide(c, i, Millis)
           u == IF d.locked = i THEN [d EXCEPT !.mode = mode] ELSE d
<1>1. i \in Slots /\ Sound(b) /\ b.src[i].used
  BY HearFields, HearKeeps
<1>2. Follows(b, c) /\ Sound(c)
  BY <1>1, ReleaseStaleFollows DEF Follows, Keeps
<1>3. c.src[i].used
  BY <1>1, <1>2 DEF Follows
<1>4. Sound(d)
  BY <1>1, <1>2, <1>3, DecideFollows DEF Follows, Keeps
<1>5. Admit(s, m, r, mode, rel, Millis) = u
  BY DEF Admit, AdmitAt, Hear
<1> HIDE DEF i, b, c, d
<1>6. /\ u.locked = d.locked /\ u.lockChanged = d.lockChanged /\ u.src = d.src
      /\ u.handoffs = d.handoffs /\ SameSettings(d, u)
  BY <1>4 DEF Sound, Selector, SameSettings
<1> HIDE DEF u
<1>7. Plain(d, u) /\ LockedMac(u) = LockedMac(d) /\ SameTable(d, u)
  BY <1>6 DEF Plain, RememberedSlot, LockedMac, Locked, SameTable
<1> QED
  BY <1>1, <1>2, <1>3, <1>4, <1>5, <1>6, <1>7 DEF i, b, c, d

(* What admit() does is recorded as it is counted.                         *)
LEMMA AdmitMarked ==
  ASSUME now \in Nat, Millis \in Clock, Paced, NEW s, Sound(s), ~s.lockChanged,
         NEW g \in History, Marked(s, g),
         NEW m \in Macs, NEW r \in Rssis, NEW mode \in Modes, NEW rel \in BOOLEAN,
         MaxSources >= 2, ~Filtered(s, rel)
  PROVE  LET u == Admit(s, m, r, mode, rel, Millis)
         IN  Marked(u, Moved(Heard(g, m, rel), u, u.lockChanged)) /\ SameSettings(s, u)
<1> DEFINE i == SlotFor(s, m, Millis)
           b == Hear(s, m, r, mode, rel)
           c == ReleaseStale(b, Millis)
           d == Decide(c, i, Millis)
           u == Admit(s, m, r, mode, rel, Millis)
           f == Heard(g, m, rel)
<1>1. r \in RssiRange
  BY FlowAssumption
<1>2. /\ i \in Slots /\ Sound(b) /\ Sound(c) /\ c.src[i].used /\ Sound(d)
      /\ Plain(d, u) /\ SameSettings(d, u) /\ u.lockChanged = d.lockChanged
      /\ LockedMac(u) = LockedMac(d)
  BY <1>1, AdmitSteps
<1>3. Marked(b, f) /\ f \in History
  BY HearMarked, HeardType
<1>4. ~b.lockChanged /\ SameSettings(s, b)
  BY HearFields
<1> HIDE DEF i, b, u, f
<1>5. Marked(c, Moved(f, c, c.lockChanged)) /\ SameSettings(b, c)
  BY <1>2, <1>3, <1>4, ReleaseStaleMarked
<1>6. Marked(d, Moved(f, d, d.lockChanged)) /\ SameSettings(c, d)
  <2>1. ASSUME NEW p \in Slots, b.src[p].used, c = Acquire(b, p)
        PROVE  Marked(d, Moved(f, d, d.lockChanged)) /\ SameSettings(c, d)
    <3>1. Locked(c) /\ c.src[i].hyst_start = 0
      BY <1>2, <2>1, AcquireFields DEF Sound
    <3> DEFINE g2 == Moved(f, c, c.lockChanged)
    <3>2. Marked(c, g2)
      BY <1>5
    <3> HIDE DEF c, g2
    <3>3. /\ Marked(d, g2) /\ SameSettings(c, d)
          /\ LockedMac(d) = LockedMac(c) /\ d.lockChanged = c.lockChanged
      BY <1>2, <3>1, <3>2, DecideAfterMove
    <3> HIDE DEF d
    <3>4. Moved(f, d, d.lockChanged) = g2
      BY <3>3, MovedAlike DEF g2
    <3> QED
      BY <3>3, <3>4
  <2>2. CASE c = b \/ (Locked(b) /\ c = Released(b))
    <3>1. ~c.lockChanged
      BY <1>2, <1>4, <2>2, ReleasedFields DEF Sound
    <3>2. Marked(c, f)
      BY <1>5, <3>1 DEF Moved
    <3> HIDE DEF c
    <3> QED
      BY <1>2, <1>3, <3>1, <3>2, DecideMarked
  <2>3. \/ \E p \in Slots : b.src[p].used /\ c = Acquire(b, p)
        \/ c = b \/ (Locked(b) /\ c = Released(b))
    BY <1>2, ReleaseStaleCases DEF Stale
  <2> HIDE DEF c
  <2> QED
    BY <2>1, <2>2, <2>3
<1> DEFINE g3 == Moved(f, d, d.lockChanged)
<1> HIDE DEF c, d
<1>7. Moved(f, u, u.lockChanged) = g3
  BY <1>2, MovedAlike
<1>8. Marked(d, g3)
  BY <1>6
<1> HIDE DEF g3
<1>9. Marked(u, g3)
  BY <1>2, <1>8, PlainMarked DEF AsBefore, Sound
<1>10. SameSettings(s, u)
  BY <1>2, <1>4, <1>5, <1>6 DEF SameSettings
<1> QED
  BY <1>7, <1>9, <1>10 DEF u, f

(***************************************************************************)
(* tick().                                                                 *)
(***************************************************************************)
(* Blacklisting a slot and noting the time of the switch move no lock.     *)
LEMMA CoolDownPlain ==
  ASSUME NEW s \in Selector, NEW i \in Slots
  PROVE  LET u == [Blacklist(s, i, Millis) EXCEPT !.lastSwitch = Millis]
         IN  /\ Plain(s, u) /\ u.lastSwitch = Millis /\ u.locked = s.locked
             /\ LockedMac(u) = LockedMac(s) /\ u.lockChanged = s.lockChanged
             /\ u.selectionEnabled = s.selectionEnabled /\ u.lockTimeoutMs = s.lockTimeoutMs
             /\ CooledTable(s, i, u)
<1> DEFINE u == [Blacklist(s, i, Millis) EXCEPT !.lastSwitch = Millis]
<1>1. /\ u.locked = s.locked /\ u.handoffs = s.handoffs /\ u.lastSwitch = Millis
      /\ u.lockChanged = s.lockChanged
      /\ u.selectionEnabled = s.selectionEnabled /\ u.lockTimeoutMs = s.lockTimeoutMs
  BY DEF Blacklist, Selector
<1>2. \A j \in Slots :
        /\ u.src[j].mac = s.src[j].mac /\ u.src[j].used = s.src[j].used
        /\ u.src[j].last_ms = s.src[j].last_ms /\ u.src[j].rssi = s.src[j].rssi
        /\ u.src[j].hyst_start = s.src[j].hyst_start
        /\ u.src[j].blacklist_until = IF j = i THEN Plus(Millis, SEL_BLACKLIST_MS)
                                      ELSE s.src[j].blacklist_until
  BY DEF Blacklist, Selector, Source
<1> HIDE DEF u
<1>3. RememberedSlot(u) = RememberedSlot(s)
  BY <1>1 DEF RememberedSlot
<1>4. LockedMac(u) = LockedMac(s)
  BY <1>1, <1>2, LockRange DEF Locked, LockedMac
<1>5. CooledTable(s, i, u)
  BY <1>2 DEF CooledTable
<1> QED
  BY <1>1, <1>2, <1>3, <1>4, <1>5 DEF Plain, u

(* Starting a rate window moves no lock.                                   *)
LEMMA WindowPlain ==
  ASSUME NEW s \in Selector
  PROVE  LET u == [s EXCEPT !.src = [i \in Slots |-> [s.src[i] EXCEPT !.win_count = 0]],
                            !.winStart = Millis, !.winLost = 0, !.winRecovered = 0]
         IN  /\ Plain(s, u) /\ SameSettings(s, u) /\ u.locked = s.locked
             /\ LockedMac(u) = LockedMac(s) /\ u.lockChanged = s.lockChanged
             /\ SameTable(s, u)
<1> DEFINE src2 == [i \in Slots |-> [s.src[i] EXCEPT !.win_count = 0]]
           u == [s EXCEPT !.src = src2, !.winStart = Millis, !.winLost = 0, !.winRecovered = 0]
<1>1. /\ u.locked = s.locked /\ u.handoffs = s.handoffs /\ SameSettings(s, u)
      /\ u.lockChanged = s.lockChanged /\ u.src = src2
  BY DEF Selector, SameSettings
<1>2. \A j \in Slots :
        /\ src2[j].mac = s.src[j].mac /\ src2[j].used = s.src[j].used
        /\ src2[j].last_ms = s.src[j].last_ms /\ src2[j].rssi = s.src[j].rssi
        /\ src2[j].hyst_start = s.src[j].hyst_start
        /\ src2[j].blacklist_until = s.src[j].blacklist_until
  BY DEF Selector, Source
<1> HIDE DEF u, src2
<1>3. RememberedSlot(u) = RememberedSlot(s)
  BY <1>1 DEF RememberedSlot
<1>4. LockedMac(u) = LockedMac(s)
  BY <1>1, <1>2, LockRange DEF Locked, LockedMac
<1>5. SameTable(s, u)
  BY <1>1, <1>2 DEF SameTable
<1> QED
  BY <1>1, <1>2, <1>3, <1>4, <1>5 DEF Plain, u, src2

(* Two plain methods in a row are one.                                     *)
LEMMA PlainTransitive ==
  ASSUME NEW s, NEW t, NEW u, Plain(s, t), Plain(t, u)
  PROVE  Plain(s, u)
  BY DEF Plain

(* A rate window that closes leaves the lock alone, or hands it over and   *)
(* says when.                                                              *)
LEMMA EvalCases ==
  ASSUME now \in Nat, Millis \in Clock, Paced, NEW s, Sound(s)
  PROVE  LET t == EvalRateSelection(s, Millis)
         IN  /\ t.lockTimeoutMs = s.lockTimeoutMs /\ t.selectionEnabled = s.selectionEnabled
             /\ \/ /\ t.lastSwitch = s.lastSwitch /\ Plain(s, t)
                   /\ LockedMac(t) = LockedMac(s) /\ t.lockChanged = s.lockChanged
                   /\ SameTable(s, t)
                \/ /\ t.lastSwitch # s.lastSwitch /\ Locked(s) /\ s.selectionEnabled
                   /\ CooledTable(s, s.locked, t)
                   /\ \E b \in Slots : /\ s.src[b].used /\ Plain(Acquire(s, b), t)
                                       /\ LockedMac(t) = LockedMac(Acquire(s, b))
                                       /\ b # s.locked /\ ~Blacklisted(s, b, Millis)
<1> DEFINE c == Challengers(s, Millis)
           best == FirstMax(c, [i \in c |-> s.src[i].win_count])
           u == SwitchOnRate(s, Millis)
           t == EvalRateSelection(s, Millis)
<1>1. s \in Selector /\ Sound(u) /\ u \in Selector
  BY SwitchOnRateFollows DEF Follows, Keeps, Sound
<1>2. \/ t = s
      \/ /\ Plain(u, t) /\ SameSettings(u, t) /\ LockedMac(t) = LockedMac(u)
         /\ t.lockChanged = u.lockChanged /\ SameTable(u, t)
  <2>1. CASE Age(Millis, s.winStart) < SEL_WINDOW_MS
    BY <2>1 DEF EvalRateSelection
  <2>2. CASE ~(Age(Millis, s.winStart) < SEL_WINDOW_MS)
    <3>1. t = [u EXCEPT !.src = [i \in Slots |-> [u.src[i] EXCEPT !.win_count = 0]],
                        !.winStart = Millis, !.winLost = 0, !.winRecovered = 0]
      BY <2>2 DEF EvalRateSelection
    <3> HIDE DEF u, t
    <3> QED
      BY <1>1, <3>1, WindowPlain
  <2> QED
    BY <2>1, <2>2
<1>3. CASE t = s
  BY <1>3 DEF Plain, SameTable
<1>4. CASE /\ Plain(u, t) /\ SameSettings(u, t) /\ LockedMac(t) = LockedMac(u)
           /\ t.lockChanged = u.lockChanged /\ SameTable(u, t) /\ u = s
  BY <1>4 DEF SameSettings
<1>5. CASE /\ Plain(u, t) /\ SameSettings(u, t) /\ LockedMac(t) = LockedMac(u)
           /\ SameTable(u, t) /\ u # s
  <2>1. /\ s.selectionEnabled /\ Locked(s) /\ Age(Millis, s.lastSwitch) >= SEL_MIN_SWITCH_MS
        /\ c # {}
        /\ u = [Blacklist(Acquire(s, best), s.locked, Millis) EXCEPT !.lastSwitch = Millis]
    BY <1>5 DEF SwitchOnRate
  <2>2. /\ best \in Slots /\ s.src[best].used /\ s.locked \in Slots
        /\ best # s.locked /\ ~Blacklisted(s, best, Millis)
    BY <1>1, <2>1, ChallengerIn, LockRange
  <2> DEFINE a == Acquire(s, best)
  <2>3. a \in Selector /\ SameSettings(s, a) /\ SameTable(s, a)
    BY <1>1, <2>2, AcquireFollows, AcquireFields DEF Follows, Keeps, Sound
  <2>4. u = [Blacklist(a, s.locked, Millis) EXCEPT !.lastSwitch = Millis]
    BY <2>1
  <2>5. Millis # s.lastSwitch
    <3>1. SEL_MIN_SWITCH_MS \in Nat /\ Millis \in Int /\ ClockMod \in Nat /\ ClockMod > 1
      BY ConstantsAssumption DEF Clock
    <3>2. (Millis - Millis) % ClockMod = 0
      BY <3>1
    <3> QED
      BY <2>1, <3>1, <3>2 DEF Age, Paced
  <2> HIDE DEF u, a, t
  <2>6. /\ Plain(a, u) /\ u.lastSwitch = Millis /\ LockedMac(u) = LockedMac(a)
        /\ u.selectionEnabled = a.selectionEnabled /\ u.lockTimeoutMs = a.lockTimeoutMs
        /\ CooledTable(a, s.locked, u)
    BY <2>2, <2>3, <2>4, CoolDownPlain
  <2>7. Plain(a, t)
    BY <1>5, <2>6, PlainTransitive
  <2>8. t.lastSwitch # s.lastSwitch /\ LockedMac(t) = LockedMac(a)
    BY <1>5, <2>5, <2>6 DEF SameSettings
  <2>9. t.lockTimeoutMs = s.lockTimeoutMs /\ t.selectionEnabled = s.selectionEnabled
    BY <1>5, <2>3, <2>6 DEF SameSettings
  <2>10. CooledTable(s, s.locked, t)
    BY <1>5, <2>2, <2>3, <2>6 DEF SameTable, CooledTable
  <2> QED
    BY <2>1, <2>2, <2>7, <2>8, <2>9, <2>10 DEF a, t
<1> QED
  BY <1>2, <1>3, <1>4, <1>5

(* Consuming the lock change.                                              *)
LEMMA ConsumePlain ==
  ASSUME NEW s \in Selector
  PROVE  LET u == ConsumeLockChanged(s)
         IN  /\ Plain(s, u) /\ SameSettings(s, u) /\ LockedMac(u) = LockedMac(s)
             /\ u.locked = s.locked /\ u.src = s.src /\ ~u.lockChanged
<1> DEFINE u == ConsumeLockChanged(s)
<1>1. /\ u.locked = s.locked /\ u.handoffs = s.handoffs /\ SameSettings(s, u)
      /\ u.src = s.src /\ ~u.lockChanged
  BY DEF ConsumeLockChanged, Selector, SameSettings
<1> HIDE DEF u
<1> QED
  BY <1>1 DEF Plain, RememberedSlot, LockedMac, Locked, u

(* Housekeeping records what tick() does, and a rate switch gives the      *)
(* source that was locked its cool-off.                                    *)
LEMMA HousekeepingMarked ==
  ASSUME now \in Nat, Millis \in Clock, Paced, NEW s, Sound(s), ~s.lockChanged,
         NEW trk, NEW g \in History, Marked(s, g), Housekeeping(s, trk, g)
  PROVE  /\ Marked(sel', h')
         /\ sel'.lockTimeoutMs = s.lockTimeoutMs /\ sel'.selectionEnabled = s.selectionEnabled
         /\ Locked(s) =>
              \/ LockedMac(sel') = LockedMac(s)
              \/ Stale(s)
              \/ /\ s.selectionEnabled /\ sel'.lastSwitch # s.lastSwitch
                 /\ h'.cool[LockedMac(s)] = now + SEL_BLACKLIST_MS
<1> DEFINE r == ReleaseStale(s, Millis)
           t == EvalRateSelection(r, Millis)
           u == ConsumeLockChanged(t)
           g1 == Moved(g, r, r.lockChanged)
           g2 == Cooled(g1, LockedMac(r))
           g3 == Moved(g2, t, TRUE)
<1>1. /\ Sound(r) /\ Sound(t) /\ r \in Selector /\ t \in Selector
      /\ r.lockChanged \in BOOLEAN
  <2>1. Sound(r)
    BY ReleaseStaleFollows DEF Follows, Keeps
  <2>2. Sound(t)
    BY <2>1, EvalRateSelectionFollows DEF Follows, Keeps
  <2> QED
    BY <2>1, <2>2 DEF Sound, Selector
<1>2. /\ sel' = u
      /\ h' = IF t.lastSwitch = s.lastSwitch THEN g1 ELSE g3
  BY DEF Housekeeping, Tick
<1>3. Marked(r, g1) /\ SameSettings(s, r)
  BY ReleaseStaleMarked
<1>4. g1 \in History
  BY <1>1, MovedType
<1>5. /\ g2 \in History /\ AsBefore(g1, g2)
      /\ LockedMac(r) \in Macs => g2.cool[LockedMac(r)] = now + SEL_BLACKLIST_MS
  <2> HIDE DEF g1
  <2>1. g2.cool = [g1.cool EXCEPT ![LockedMac(r)] = now + SEL_BLACKLIST_MS]
    BY <1>4 DEF Cooled, History
  <2>2. g1.cool \in [Macs -> Nat]
    BY <1>4 DEF History
  <2>3. g2 \in History
    BY <1>4, CooledType
  <2>4. AsBefore(g1, g2)
    BY <1>4 DEF Cooled, History, AsBefore
  <2> HIDE DEF g2
  <2> QED
    BY <2>1, <2>2, <2>3, <2>4
<1>6. g3.cool = g2.cool
  BY <1>5, MovedFields
<1>7. Plain(t, u) /\ SameSettings(t, u) /\ LockedMac(u) = LockedMac(t)
  BY <1>1, ConsumePlain
<1>8. Locked(s) /\ ~Stale(s) => r = s
  BY ReleaseStaleCases
<1> HIDE DEF r
<1>9. /\ t.lockTimeoutMs = r.lockTimeoutMs /\ t.selectionEnabled = r.selectionEnabled
      /\ \/ /\ t.lastSwitch = r.lastSwitch /\ Plain(r, t) /\ LockedMac(t) = LockedMac(r)
         \/ /\ t.lastSwitch # r.lastSwitch /\ Locked(r) /\ r.selectionEnabled
            /\ \E b \in Slots : /\ r.src[b].used /\ Plain(Acquire(r, b), t)
                                /\ LockedMac(t) = LockedMac(Acquire(r, b))
  BY <1>1, EvalCases
<1> HIDE DEF t, u, g1
<1>10. sel'.lockTimeoutMs = s.lockTimeoutMs /\ sel'.selectionEnabled = s.selectionEnabled
  BY <1>2, <1>3, <1>7, <1>9 DEF SameSettings
<1>11. CASE t.lastSwitch = r.lastSwitch
  <2>1. Plain(r, t) /\ LockedMac(t) = LockedMac(r) /\ h' = g1
    BY <1>2, <1>3, <1>9, <1>11 DEF SameSettings
  <2>2. Plain(r, u)
    BY <1>7, <2>1, PlainTransitive
  <2>3. Marked(u, g1)
    BY <1>1, <1>3, <2>2, PlainMarked DEF AsBefore
  <2> QED
    BY <1>2, <1>7, <1>8, <1>10, <2>1, <2>3
<1>12. CASE t.lastSwitch # r.lastSwitch
  <2>1. PICK b \in Slots : /\ r.src[b].used /\ Plain(Acquire(r, b), t)
                           /\ LockedMac(t) = LockedMac(Acquire(r, b))
    BY <1>9, <1>12
  <2>2. h' = g3 /\ Locked(r) /\ r.selectionEnabled
    BY <1>2, <1>3, <1>9, <1>12 DEF SameSettings
  <2> DEFINE a == Acquire(r, b)
  <2>3. Marked(r, g2)
    BY <1>1, <1>3, <1>5, PlainMarked DEF Plain
  <2>4. Marked(a, Moved(g2, a, TRUE)) /\ a \in Selector
    BY <1>1, <1>5, <2>1, <2>3, AcquireMarked, AcquireFollows DEF Follows, Keeps, Sound
  <2> HIDE DEF g2
  <2>5. Moved(g2, a, TRUE) = g3
    BY <2>1 DEF Moved
  <2> HIDE DEF a, g3
  <2>6. Plain(a, u)
    BY <1>7, <2>1, PlainTransitive DEF a
  <2>7. Marked(u, g3)
    BY <2>4, <2>5, <2>6, PlainMarked DEF AsBefore
  <2>8. LockedMac(r) \in Macs
    <3>1. r.locked \in Slots /\ r.src[r.locked].used
      BY <1>1, <2>2, LockRange DEF Sound, Table, RememberedSlot, Locked
    <3> QED
      BY <1>3, <2>2, <3>1 DEF LockedMac, Marked, Recorded, HeardThen
  <2>9. h'.cool[LockedMac(r)] = now + SEL_BLACKLIST_MS
    BY <1>5, <1>6, <2>2, <2>8
  <2>10. sel'.lastSwitch # s.lastSwitch
    BY <1>2, <1>3, <1>7, <1>12 DEF SameSettings
  <2> QED
    BY <1>2, <1>3, <1>8, <1>10, <2>2, <2>7, <2>9, <2>10 DEF SameSettings
<1> QED
  BY <1>11, <1>12

(***************************************************************************)
(* What the receiver leaves a source for.                                  *)
(***************************************************************************)
Tally == Marked(sel, h) /\ sel.selectionEnabled \in Selections

(* Why the receiver leaves the source of its lock.                         *)
Cause(m) ==
  \/ Quiet(m)
  \/ Forced
  \/ /\ sel.selectionEnabled /\ sel'.lastSwitch # sel.lastSwitch
     /\ h'.cool[m] = now + SEL_BLACKLIST_MS
  \/ ~NoRssi /\ now - h.lockedAt >= RSSI_HOLD_MS

LeavesForCause == \A m \in Macs : LockedMac(sel) = m /\ LockedMac(sel') # m => Cause(m)

(* What millis() tells of an age is at most the age: a wrap only hides     *)
(* whole turns of it.                                                      *)
LEMMA AgeOfPast ==
  ASSUME now \in Nat, NEW t \in Nat, t <= now
  PROVE  Age(Millis, t % ClockMod) \in 0 .. now - t
<1> DEFINE p == now \div ClockMod
           x == now % ClockMod
           q == t \div ClockMod
           y == t % ClockMod
           d == (x - y) \div ClockMod
           a == (x - y) % ClockMod
<1>1. ClockMod \in Nat /\ ClockMod > 1
  BY ConstantsAssumption
<1>2. /\ now = ClockMod * p + x /\ x \in 0 .. ClockMod - 1 /\ p \in Nat
      /\ t = ClockMod * q + y /\ y \in 0 .. ClockMod - 1 /\ q \in Nat
  BY <1>1
<1>3. x - y \in Int
  BY <1>2
<1>4. x - y = ClockMod * d + a /\ a \in 0 .. ClockMod - 1 /\ d \in Int
  BY <1>1, <1>3
<1>5. Age(Millis, t % ClockMod) = a
  BY DEF Age, Millis
<1> HIDE DEF p, x, q, y, d, a
<1> DEFINE e == p - q
<1>6. e \in Int /\ ClockMod * e = ClockMod * p - ClockMod * q
  BY <1>1, <1>2
<1> HIDE DEF e
<1>7. /\ e <= -1 => ClockMod * e <= -ClockMod
      /\ e >= 1 => ClockMod * e >= ClockMod
      /\ e = 0 => ClockMod * e = 0
  BY <1>1, <1>6
<1>8. /\ d <= -2 => ClockMod * d <= -2 * ClockMod
      /\ d >= 1 => ClockMod * d >= ClockMod
      /\ d = 0 => ClockMod * d = 0
      /\ d = -1 => ClockMod * d = -ClockMod
  BY <1>1, <1>4
<1>9. now - t = ClockMod * e + x - y
  BY <1>1, <1>2, <1>6
<1>10. e >= 0
  BY <1>1, <1>2, <1>6, <1>7, <1>9
<1>11. CASE x >= y
  <2>1. d = 0 /\ a = x - y
    BY <1>1, <1>2, <1>4, <1>8, <1>11
  <2> QED
    BY <1>1, <1>2, <1>4, <1>5, <1>6, <1>7, <1>9, <1>10, <2>1
<1>12. CASE x < y
  <2>1. d = -1 /\ a = x - y + ClockMod
    BY <1>1, <1>2, <1>4, <1>8, <1>12
  <2>2. e >= 1
    BY <1>2, <1>6, <1>7, <1>9, <1>10, <1>12
  <2> QED
    BY <1>1, <1>2, <1>4, <1>5, <1>6, <1>7, <1>9, <2>1, <2>2
<1> QED
  BY <1>2, <1>11, <1>12

(* What has been heard just now is not stale.                              *)
LEMMA AgeOfNow ==
  ASSUME now \in Nat
  PROVE  Age(Millis, Millis) = 0
<1>1. Age(Millis, now % ClockMod) \in 0 .. now - now
  BY AgeOfPast
<1> QED
  BY <1>1 DEF Millis

(* A stale lock's source is quiet.                                         *)
LEMMA StaleIsQuiet ==
  ASSUME now \in Nat, Millis \in Clock, Sound(sel), Tally, Stale(sel)
  PROVE  Quiet(LockedMac(sel))
<1>1. sel.locked \in Slots /\ sel.src[sel.locked].used
  BY LockRange DEF Stale, Sound, Table, RememberedSlot, Locked
<1>2. /\ h.heard[LockedMac(sel)] \in 0 .. now
      /\ h.heard[LockedMac(sel)] % ClockMod = sel.src[sel.locked].last_ms
  BY <1>1 DEF Tally, Marked, Recorded, HeardThen, LockedMac, Stale
<1>3. Age(Millis, sel.src[sel.locked].last_ms) \in 0 .. now - h.heard[LockedMac(sel)]
  BY <1>2, AgeOfPast
<1>4. sel.lockTimeoutMs \in Nat
  BY DEF Sound, Selector
<1> QED
  BY <1>2, <1>3, <1>4 DEF Quiet, Stale

(* admit() leaves a lock that is not stale only for a challenger that has  *)
(* been stronger since the lock was taken or later.                        *)
LEMMA AdmitCause ==
  ASSUME now \in Nat, Millis \in Clock, NEW s, Sound(s), ~s.lockChanged, Locked(s), ~Stale(s),
         NEW g \in History, Marked(s, g),
         NEW m \in Macs, NEW r \in Rssis, NEW mode \in Modes, NEW rel \in BOOLEAN,
         MaxSources >= 2
  PROVE  \/ /\ LockedMac(Admit(s, m, r, mode, rel, Millis)) = LockedMac(s)
            /\ ~Admit(s, m, r, mode, rel, Millis).lockChanged
         \/ ~NoRssi /\ now - g.lockedAt >= RSSI_HOLD_MS
<1> DEFINE i == SlotFor(s, m, Millis)
           b == Hear(s, m, r, mode, rel)
           c == ReleaseStale(b, Millis)
           d == Decide(c, i, Millis)
           u == Admit(s, m, r, mode, rel, Millis)
           f == Heard(g, m, rel)
           start == IF b.src[i].hyst_start = 0 THEN Millis ELSE b.src[i].hyst_start
<1>1. CASE Filtered(s, rel)
  BY <1>1 DEF Admit
<1>2. CASE ~Filtered(s, rel)
  <2>1. r \in RssiRange
    BY FlowAssumption
  <2>2. /\ i \in Slots /\ Sound(b) /\ LockedMac(u) = LockedMac(d)
        /\ u.lockChanged = d.lockChanged
    BY <1>2, <2>1, AdmitSteps
  <2>3. /\ b.locked = s.locked /\ ~b.lockChanged /\ SameSettings(s, b)
        /\ b.src[i].used /\ b.src[i].last_ms = Millis
        /\ \A j \in Slots \ {i} : b.src[j] = s.src[j]
    BY HearFields
  <2>4. Locked(b) /\ LockedMac(b) = LockedMac(s)
    <3>1. Keeps(s, b)
      BY <2>1, HearKeeps
    <3> QED
      BY <2>3, <3>1 DEF Keeps, Locked
  <2>5. Marked(b, f) /\ f.lockedAt = g.lockedAt
    BY HearMarked DEF Heard, History
  <2> HIDE DEF i, b, u, f
  <2>6. ~Stale(b)
    <3>1. s.locked \in Slots /\ s.lockTimeoutMs \in Nat
      BY LockRange DEF Sound, Selector
    <3>2. CASE s.locked = i
      BY <2>3, <3>1, <3>2, AgeOfNow DEF Stale, SameSettings
    <3>3. CASE s.locked # i
      BY <2>3, <3>1, <3>3 DEF Stale, SameSettings, Locked
    <3> QED
      BY <3>2, <3>3
  <2>7. c = b
    BY <2>2, <2>6, ReleaseStaleCases
  <2>8. \/ d = b
        \/ \E x \in {0, Millis, b.src[i].hyst_start} : d = [b EXCEPT !.src[i].hyst_start = x]
        \/ b.src[i].rssi # RSSI_UNKNOWN /\ Age(Millis, start) >= RSSI_HOLD_MS
    BY <2>2, <2>3, <2>4, <2>7, DecideCases
  <2>9. CASE d = b
    BY <2>2, <2>3, <2>4, <2>9 DEF u
  <2>10. ASSUME NEW x \in {0, Millis, b.src[i].hyst_start}, d = [b EXCEPT !.src[i].hyst_start = x]
         PROVE  LockedMac(u) = LockedMac(s) /\ ~u.lockChanged
    <3> DEFINE e == [b EXCEPT !.src[i].hyst_start = x]
    <3>1. LockedMac(e) = LockedMac(b) /\ e.lockChanged = b.lockChanged
      BY <2>2, HystFields DEF Sound
    <3> HIDE DEF e
    <3> QED
      BY <2>2, <2>3, <2>4, <2>10, <3>1 DEF e
  <2>11. CASE b.src[i].rssi # RSSI_UNKNOWN /\ Age(Millis, start) >= RSSI_HOLD_MS
    <3>1. /\ HeardThen(b.src[i], f) /\ ChallengedSince(b.src[i], f) /\ f.lockedAt <= now
      BY <2>2, <2>5 DEF Marked, Recorded
    <3>2. ~NoRssi
      BY <2>3, <2>11, <3>1 DEF HeardThen
    <3>3. now \in Int /\ g.lockedAt \in Int /\ RSSI_HOLD_MS \in Int
      BY ConstantsAssumption DEF History
    <3>4. PICK c0 \in Nat : g.lockedAt <= c0 /\ c0 <= now /\ start = c0 % ClockMod
      BY <2>5, <3>1 DEF ChallengedSince, Millis
    <3> HIDE DEF start
    <3>5. Age(Millis, start) \in 0 .. now - c0
      BY <3>4, AgeOfPast
    <3>6. now - g.lockedAt >= RSSI_HOLD_MS
      BY <2>11, <3>3, <3>4, <3>5
    <3> QED
      BY <3>2, <3>6
  <2> HIDE DEF d
  <2> QED
    BY <2>8, <2>9, <2>10, <2>11 DEF u
<1> QED
  BY <1>1, <1>2

(* Serving the requests: a lock is only dropped when asked to.             *)
LEMMA AfterRequestsPlain ==
  ASSUME Inv
  PROVE  /\ Plain(sel, AfterRequests) /\ SameSettings(sel, AfterRequests)
         /\ ~AfterRequests.lockChanged
         /\ ~Forced => /\ Locked(AfterRequests) <=> Locked(sel)
                       /\ LockedMac(AfterRequests) = LockedMac(sel)
                       /\ Stale(AfterRequests) <=> Stale(sel)
<1> DEFINE s == IF req.relayTest THEN SetRelayTestOnly(sel, req.relayTestOn) ELSE sel
           b == Blacklist(s, s.locked, Millis)
<1>1. /\ sel \in Selector /\ ~sel.lockChanged /\ Sound(sel) /\ req.relayTestOn \in BOOLEAN
      /\ now \in Nat /\ Millis \in Clock
  BY MillisInClock DEF Inv, TypeOK, TableOK, Sound, Requests
<1>2. s \in Selector /\ Sound(s)
  BY <1>1, SettersKeep DEF Follows, Keeps, Sound
<1>3. /\ s.locked = sel.locked /\ s.src = sel.src /\ s.handoffs = sel.handoffs
      /\ s.lockChanged = sel.lockChanged /\ SameSettings(sel, s)
  BY <1>1 DEF SetRelayTestOnly, Selector, SameSettings
<1> HIDE DEF s
<1>4. Plain(sel, s)
  BY <1>3 DEF Plain, RememberedSlot
<1>5. CASE ~Forced
  <2>1. AfterRequests = s
    BY <1>5 DEF AfterRequests, s
  <2> QED
    BY <1>1, <1>3, <1>4, <1>5, <2>1 DEF Locked, LockedMac, Stale, SameSettings
<1>6. CASE Forced
  <2>1. AfterRequests = IF Locked(s) THEN Released(b) ELSE s
    BY <1>6 DEF AfterRequests, ForceRelock, s
  <2>2. CASE Locked(s)
    <3>1. s.locked \in Slots
      BY <1>2, <2>2, LockRange
    <3>2. b \in Selector
      BY <1>1, <1>2, <3>1, BlacklistFollows DEF Follows, Keeps, Sound
    <3>3. /\ b.locked = s.locked /\ b.handoffs = s.handoffs /\ b.lockChanged = s.lockChanged
          /\ SameSettings(s, b)
      BY <1>2 DEF Blacklist, Selector, SameSettings
    <3>4. \A j \in Slots :
            /\ b.src[j].mac = s.src[j].mac /\ b.src[j].used = s.src[j].used
            /\ b.src[j].last_ms = s.src[j].last_ms /\ b.src[j].rssi = s.src[j].rssi
            /\ b.src[j].hyst_start = s.src[j].hyst_start
      BY <1>2 DEF Blacklist, Selector, Source
    <3> HIDE DEF b
    <3>5. Plain(s, b) /\ Locked(b)
      BY <2>2, <3>3, <3>4 DEF Plain, RememberedSlot, Locked
    <3>6. /\ Plain(b, Released(b)) /\ SameSettings(b, Released(b))
          /\ Released(b).lockChanged = b.lockChanged
      BY <3>2, <3>5, ReleasedFields
    <3>7. Plain(sel, Released(b))
      BY <1>4, <3>5, <3>6, PlainTransitive
    <3> QED
      BY <1>1, <1>3, <1>6, <2>1, <2>2, <3>3, <3>6, <3>7 DEF SameSettings
  <2>3. CASE ~Locked(s)
    BY <1>1, <1>3, <1>4, <1>6, <2>1, <2>3
  <2> QED
    BY <2>2, <2>3
<1> QED
  BY <1>5, <1>6

(***************************************************************************)
(* Cool-offs: the table agrees with the history on when each ends, as long *)
(* as no transmitter is evicted and the clock is in its first half.        *)
(***************************************************************************)
(* The first 24 days of millis(), all cool-offs included.                  *)
Brief == StartTime <= Horizon /\ 2 * (Horizon + SEL_BLACKLIST_MS) < ClockMod

(* In them millis() is the time since the boot, and ages are exact.        *)
LEMMA YoungClock ==
  ASSUME now \in Nat, Brief, now <= Horizon
  PROVE  /\ Millis = now /\ now < ClockMod
         /\ \A t \in 0 .. now : Age(Millis, t % ClockMod) = now - t
<1>1. ClockMod \in Nat /\ ClockMod > 1 /\ now < ClockMod
  BY ConstantsAssumption, FlowAssumption DEF Brief
<1>2. \A t \in 0 .. now : t % ClockMod = t
  BY <1>1
<1>3. Millis = now
  BY <1>2 DEF Millis
<1> QED
  BY <1>1, <1>2, <1>3 DEF Age

(* k is live and out of its cool-off; with sel and h, Candidate(k).        *)
Fit(k, s, g) ==
  g.heard[k] # Never /\ now - g.heard[k] < s.lockTimeoutMs /\ g.cool[k] <= now

Listed(k, s) == \E i \in Slots : s.src[i].used /\ s.src[i].mac = k

Cooling(s, g) ==
  /\ now <= Horizon
  /\ \A i \in Slots : s.src[i].used =>
       s.src[i].mac \in Macs /\ s.src[i].blacklist_until = g.cool[s.src[i].mac]
  /\ \A k \in Macs : /\ g.cool[k] <= now + SEL_BLACKLIST_MS
                     /\ Listed(k, s) \/ (g.heard[k] = Never /\ g.cool[k] = 0)

(* A lock taken on a source in its cool-off is one taken for want of       *)
(* another.                                                                *)
LastResort(s, g) ==
  Locked(s) /\ g.acquired /\ g.cool[LockedMac(s)] > now
    => \A k \in Macs \ {LockedMac(s)} : ~Fit(k, s, g)

(* Where the table is the same, so are the cool-offs.                      *)
LEMMA SameCooling ==
  ASSUME NEW s, NEW t, NEW f, NEW g, Cooling(s, f), SameTable(s, t),
         g.heard = f.heard, g.cool = f.cool
  PROVE  Cooling(t, g)
<1>1. \A k \in Macs : Listed(k, s) => Listed(k, t)
  BY DEF Listed, SameTable
<1> QED
  BY <1>1 DEF Cooling, SameTable

(* The remainder of a small negative number.                               *)
LEMMA NegativeMod ==
  ASSUME NEW M \in Nat, NEW d \in 1 .. M - 1
  PROVE  (-d) % M = M - d
<1> DEFINE q == (-d) \div M
           r == (-d) % M
<1>1. -d = M * q + r /\ r \in 0 .. M - 1 /\ q \in Int
  OBVIOUS
<1> HIDE DEF q, r
<1>2. (q >= 0 => M * q >= 0) /\ (q <= -2 => M * q <= -2 * M) /\ (q = -1 => M * q = -M)
  BY <1>1
<1>3. q = -1
  BY <1>1, <1>2
<1>4. r = M - d
  BY <1>1, <1>2, <1>3
<1> QED
  BY <1>4 DEF r

(* The sign test of the code tells a cool-off that is not over.            *)
LEMMA CoolTold ==
  ASSUME now \in Nat, Millis \in Clock, Brief, NEW s, NEW g \in History, Cooling(s, g),
         NEW i \in Slots, s.src[i].used
  PROVE  Blacklisted(s, i, Millis) <=> g.cool[s.src[i].mac] > now
<1> DEFINE c == g.cool[s.src[i].mac]
<1>1. /\ c \in Nat /\ now \in Nat /\ Horizon \in Nat /\ SEL_BLACKLIST_MS \in Nat
      /\ ClockMod \in Nat /\ ClockMod > 1
  BY ConstantsAssumption, FlowAssumption DEF Cooling, History
<1>2. /\ s.src[i].blacklist_until = c /\ c <= now + SEL_BLACKLIST_MS /\ now <= Horizon
      /\ 2 * (Horizon + SEL_BLACKLIST_MS) < ClockMod /\ Millis = now
  BY YoungClock DEF Cooling, Brief
<1> HIDE DEF c
<1>3. CASE c > now
  <2> DEFINE d == c - now
  <2>1. d \in 0 .. ClockMod - 1 /\ 0 < d /\ 2 * d < ClockMod
    BY <1>1, <1>2, <1>3
  <2> HIDE DEF d
  <2>2. d % ClockMod = d
    BY <1>1, <2>1
  <2>3. Age(c, Millis) = d /\ c # 0
    BY <1>1, <1>2, <1>3, <2>2 DEF Age, d
  <2> QED
    BY <1>2, <1>3, <2>1, <2>3 DEF Blacklisted, c
<1>4. CASE c <= now
  <2> DEFINE d == now - c
             e == ClockMod - d
  <2>1. d \in Nat /\ 2 * d < ClockMod
    BY <1>1, <1>2, <1>4
  <2>2. c - now = -d
    BY <1>1
  <2> HIDE DEF d
  <2>3. CASE d = 0
    <3>1. Age(c, Millis) = 0
      BY <1>1, <1>2, <2>2, <2>3 DEF Age
    <3> QED
      BY <1>1, <1>2, <1>4, <3>1 DEF Blacklisted, c
  <2>4. CASE d # 0
    <3>1. d \in 1 .. ClockMod - 1 /\ ~(2 * e < ClockMod)
      BY <1>1, <2>1, <2>4
    <3>2. (-d) % ClockMod = e
      BY <1>1, <3>1, NegativeMod
    <3>3. Age(c, Millis) = e
      BY <1>2, <2>2, <3>2 DEF Age
    <3> QED
      BY <1>1, <1>2, <1>4, <3>1, <3>3 DEF Blacklisted, c
  <2> QED
    BY <2>3, <2>4
<1> QED
  BY <1>1, <1>3, <1>4 DEF c

(* pickReLockTarget() answers a source out of its cool-off, and -1 only    *)
(* where there is no other to lock.                                        *)
LEMMA PickRight ==
  ASSUME now \in Nat, Millis \in Clock, Brief, NEW s \in Selector, NEW f, Marked(s, f),
         NEW g \in History, Cooling(s, g), g.heard = f.heard
  PROVE  LET p == PickReLockTarget(s, Millis)
         IN  \/ /\ p \in Slots /\ s.src[p].used /\ p >= 0
                /\ s.src[p].mac \in Macs /\ g.cool[s.src[p].mac] <= now
             \/ p = -1 /\ \A k \in Macs : ~Fit(k, s, g)
<1> DEFINE p == PickReLockTarget(s, Millis)
           live == {i \in Slots : /\ s.src[i].used
                                  /\ Age(Millis, s.src[i].last_ms) < s.lockTimeoutMs
                                  /\ ~Blacklisted(s, i, Millis)}
<1>1. \/ p = -1 /\ live = {}
      \/ p \in Slots /\ s.src[p].used /\ p \in live
  BY PickIn
<1>2. now \in Int /\ \A k \in Macs : g.cool[k] \in Int
  BY DEF History
<1>3. CASE p \in Slots /\ s.src[p].used /\ p \in live
  <2>1. s.src[p].mac \in Macs /\ ~(g.cool[s.src[p].mac] > now)
    BY <1>3, CoolTold DEF Cooling
  <2>2. p >= 0
    BY <1>3, ConstantsAssumption DEF Slots
  <2> HIDE DEF p
  <2> QED
    BY <1>2, <1>3, <2>1, <2>2 DEF p
<1>4. CASE p = -1 /\ live = {}
  <2> SUFFICES ASSUME NEW k \in Macs, Fit(k, s, g)
               PROVE  FALSE
    BY <1>4
  <2>1. PICK i \in Slots : s.src[i].used /\ s.src[i].mac = k
    BY DEF Fit, Cooling, Listed
  <2>2. g.heard[k] \in 0 .. now /\ g.heard[k] % ClockMod = s.src[i].last_ms
    BY <2>1 DEF Marked, Recorded, HeardThen
  <2>3. Age(Millis, s.src[i].last_ms) = now - g.heard[k]
    BY <2>2, YoungClock DEF Cooling
  <2>4. ~Blacklisted(s, i, Millis)
    BY <1>2, <2>1, CoolTold DEF Fit
  <2>5. i \in live
    BY <2>1, <2>3, <2>4 DEF Fit
  <2> QED
    BY <1>4, <2>5
<1> HIDE DEF p, live
<1> QED
  BY <1>1, <1>3, <1>4 DEF p

(* Taking a lock moves no cool-off, and is a last resort where its source  *)
(* is in one only for want of another.                                     *)
LEMMA AcquireCooling ==
  ASSUME NEW s \in Selector, NEW g \in History, Cooling(s, g), NEW i \in Slots,
         s.src[i].used, now \in Nat /\ Millis \in Clock,
         \/ g.cool[s.src[i].mac] <= now
         \/ \A k \in Macs : ~Fit(k, s, g)
  PROVE  LET u == Acquire(s, i)
             f == Moved(g, u, TRUE)
         IN  Cooling(u, f) /\ LastResort(u, f) /\ u.lockChanged = TRUE
<1> DEFINE u == Acquire(s, i)
           f == Moved(g, u, TRUE)
<1>1. /\ SameTable(s, u) /\ LockedMac(u) = s.src[i].mac /\ u.lockTimeoutMs = s.lockTimeoutMs
  BY AcquireFields DEF SameSettings
<1>2. f.heard = g.heard /\ f.cool = g.cool
  BY MovedFields
<1>3. u.lockChanged = TRUE
  BY DEF Acquire, Selector
<1>4. s.src[i].mac \in Macs /\ g.cool[s.src[i].mac] \in Int /\ now \in Int
  BY DEF Cooling, History
<1> HIDE DEF u, f
<1>5. Cooling(u, f)
  BY <1>1, <1>2, SameCooling
<1>6. LastResort(u, f)
  BY <1>1, <1>2, <1>4 DEF LastResort, Fit
<1> QED
  BY <1>3, <1>5, <1>6 DEF u, f

(* The stale-lock release locks only what is out of its cool-off.          *)
LEMMA ReleaseStaleCooling ==
  ASSUME now \in Nat, Millis \in Clock, Brief, NEW s, Sound(s), ~s.lockChanged,
         NEW g \in History, Marked(s, g), Cooling(s, g), LastResort(s, g)
  PROVE  LET c == ReleaseStale(s, Millis)
             f == Moved(g, c, c.lockChanged)
         IN  Cooling(c, f) /\ LastResort(c, f) /\ (~Locked(c) => ~c.lockChanged)
<1> DEFINE p == PickReLockTarget(s, Millis)
           c == ReleaseStale(s, Millis)
           f == Moved(g, c, c.lockChanged)
<1>1. s \in Selector
  BY DEF Sound
<1>2. c = s \/ (p >= 0 /\ c = Acquire(s, p)) \/ (Locked(s) /\ c = Released(s))
  BY DEF ReleaseStale
<1>3. ASSUME c = s
      PROVE  Cooling(c, f) /\ LastResort(c, f) /\ (~Locked(c) => ~c.lockChanged)
  <2>1. f = g
    BY <1>3 DEF Moved
  <2> QED
    BY <1>3, <2>1
<1>4. ASSUME p >= 0 /\ c = Acquire(s, p)
      PROVE  Cooling(c, f) /\ LastResort(c, f) /\ (~Locked(c) => ~c.lockChanged)
  <2>1. p \in Slots /\ s.src[p].used /\ g.cool[s.src[p].mac] <= now
    BY <1>1, <1>4, PickRight
  <2> HIDE DEF p
  <2> DEFINE u == Acquire(s, p)
  <2>2. /\ Cooling(u, Moved(g, u, TRUE)) /\ LastResort(u, Moved(g, u, TRUE))
        /\ u.lockChanged = TRUE /\ Locked(u)
    BY <1>1, <2>1, AcquireCooling, AcquireFields
  <2> HIDE DEF u
  <2>3. c = u
    BY <1>4 DEF u
  <2> HIDE DEF c
  <2> QED
    BY <2>2, <2>3
<1>5. ASSUME Locked(s) /\ c = Released(s)
      PROVE  Cooling(c, f) /\ LastResort(c, f) /\ (~Locked(c) => ~c.lockChanged)
  <2>1. c.lockChanged = s.lockChanged /\ c.src = s.src /\ ~Locked(c)
    BY <1>1, <1>5, ReleasedFields
  <2> HIDE DEF c
  <2>2. f = g
    BY <2>1 DEF Moved
  <2>3. Cooling(c, f)
    BY <2>1, <2>2, SameCooling DEF SameTable
  <2> QED
    BY <2>1, <2>3 DEF LastResort
<1> HIDE DEF c, f, p
<1> QED
  BY <1>2, <1>3, <1>4, <1>5 DEF c, f

(* admit()'s decision locks a source in its cool-off only as a last        *)
(* resort.                                                                 *)
LEMMA DecideCooling ==
  ASSUME now \in Nat, Millis \in Clock, Brief, NEW s, Sound(s), NEW g \in History, Marked(s, g),
         Cooling(s, g), LastResort(s, g), NEW i \in Slots, s.src[i].used,
         s.src[i].rssi = RSSI_UNKNOWN, ~Locked(s) => ~s.lockChanged
  PROVE  LET d == Decide(s, i, Millis)
         IN  \/ Locked(s) /\ d.lockChanged = s.lockChanged /\ LockedMac(d) = LockedMac(s)
                /\ Cooling(d, g) /\ LastResort(d, g)
             \/ ~Locked(s) /\ d.lockChanged = TRUE
                /\ Cooling(d, Moved(g, d, TRUE)) /\ LastResort(d, Moved(g, d, TRUE))
<1> DEFINE p == PickReLockTarget(s, Millis)
           d == Decide(s, i, Millis)
<1>1. s \in Selector
  BY DEF Sound
<1>2. CASE ~Locked(s)
  <2> DEFINE q == IF p >= 0 THEN p ELSE i
  <2>1. d = Acquire(s, q)
    BY <1>2 DEF Decide
  <2>2. /\ q \in Slots /\ s.src[q].used
        /\ g.cool[s.src[q].mac] <= now \/ \A k \in Macs : ~Fit(k, s, g)
    <3>1. ~(-1 >= 0)
      OBVIOUS
    <3> HIDE DEF p
    <3>2. \/ p \in Slots /\ s.src[p].used /\ p >= 0 /\ g.cool[s.src[p].mac] <= now
          \/ p = -1 /\ \A k \in Macs : ~Fit(k, s, g)
      BY <1>1, PickRight DEF p
    <3> QED
      BY <3>1, <3>2
  <2> HIDE DEF q, d
  <2> DEFINE u == Acquire(s, q)
  <2>3. /\ Cooling(u, Moved(g, u, TRUE)) /\ LastResort(u, Moved(g, u, TRUE))
        /\ u.lockChanged = TRUE
    BY <1>1, <2>2, AcquireCooling
  <2> HIDE DEF u
  <2>4. d = u
    BY <2>1 DEF u
  <2> QED
    BY <1>2, <2>3, <2>4 DEF d
<1>3. CASE Locked(s)
  <2>1. \/ d = s
        \/ \E x \in {0, Millis, s.src[i].hyst_start} : d = [s EXCEPT !.src[i].hyst_start = x]
    BY <1>3, DecideCases
  <2>2. CASE d = s
    BY <1>3, <2>2
  <2>3. ASSUME NEW x \in {0, Millis, s.src[i].hyst_start}, d = [s EXCEPT !.src[i].hyst_start = x]
        PROVE  /\ d.lockChanged = s.lockChanged /\ LockedMac(d) = LockedMac(s)
               /\ Cooling(d, g) /\ LastResort(d, g)
    <3> DEFINE e == [s EXCEPT !.src[i].hyst_start = x]
    <3>1. /\ SameTable(s, e) /\ SameSettings(s, e) /\ e.lockChanged = s.lockChanged
          /\ e.locked = s.locked /\ LockedMac(e) = LockedMac(s)
      BY <1>1, HystFields
    <3> HIDE DEF e
    <3>2. d = e
      BY <2>3 DEF e
    <3> HIDE DEF d
    <3>3. Cooling(d, g)
      BY <3>1, <3>2, SameCooling
    <3>4. LastResort(d, g)
      BY <1>3, <3>1, <3>2 DEF LastResort, Fit, SameSettings
    <3> QED
      BY <3>1, <3>2, <3>3, <3>4
  <2> HIDE DEF d
  <2> QED
    BY <1>3, <2>1, <2>2, <2>3 DEF d
<1> QED
  BY <1>2, <1>3

(* A packet heard adds its transmitter to the table where it was missing,  *)
(* with no cool-off, and evicts nobody.                                    *)
LEMMA HearCooling ==
  ASSUME now \in Nat, Millis \in Clock, Roomy, NEW s, Sound(s), NEW g \in History, Cooling(s, g),
         NEW m \in Macs, NEW r, NEW mode, NEW rel
  PROVE  Cooling(Hear(s, m, r, mode, rel), Heard(g, m, rel))
<1> DEFINE i == SlotFor(s, m, Millis)
           b == Hear(s, m, r, mode, rel)
           f == Heard(g, m, rel)
           held == s.src[i].used /\ s.src[i].mac = m
<1>1. /\ i \in Slots /\ b.src[i].used /\ b.src[i].mac = m
      /\ \A j \in Slots \ {i} : b.src[j] = s.src[j]
  BY HearFields
<1>2. b.src[i].blacklist_until = IF held THEN s.src[i].blacklist_until ELSE 0
  <2>1. s \in Selector
    BY DEF Sound
  <2>2. CASE held
    BY <1>1, <2>1, <2>2 DEF Hear, FindOrAdd, Refresh, Refreshed, Selector, Source
  <2>3. CASE ~held
    BY <1>1, <2>1, <2>3 DEF Hear, FindOrAdd, Refresh, Refreshed, NewSource, Selector
  <2> QED
    BY <2>2, <2>3
<1>3. f.heard = [g.heard EXCEPT ![m] = now] /\ f.cool = g.cool
  BY DEF Heard, History
<1>4. held \/ ~Listed(m, s)
  BY SlotForSafe DEF Sound, Listed
<1>5. ~held => ~s.src[i].used
  <2>1. \A j \in Slots : s.src[j].used => s.src[j].mac \in Macs
    BY DEF Cooling
  <2>2. ~Listed(m, s) => \E j \in 0 .. MaxSources - 1 : ~s.src[j].used
    BY <2>1, RoomForAll DEF Listed
  <2> QED
    BY <1>4, <2>2, SlotForFree
<1>6. ~Listed(m, s) => g.cool[m] = 0
  BY DEF Cooling
<1> HIDE DEF i, b, f
<1>7. ASSUME NEW k \in Macs
      PROVE  /\ f.cool[k] <= now + SEL_BLACKLIST_MS
             /\ Listed(k, b) \/ (f.heard[k] = Never /\ f.cool[k] = 0)
  <2>1. /\ g.cool[k] <= now + SEL_BLACKLIST_MS
        /\ Listed(k, s) \/ (g.heard[k] = Never /\ g.cool[k] = 0)
    BY DEF Cooling
  <2>2. CASE k = m
    BY <1>1, <1>3, <2>1, <2>2 DEF Listed
  <2>3. CASE k # m /\ Listed(k, s)
    <3>1. PICK j \in Slots : s.src[j].used /\ s.src[j].mac = k
      BY <2>3 DEF Listed
    <3>2. j # i
      BY <1>5, <2>3, <3>1
    <3> QED
      BY <1>1, <1>3, <2>1, <3>1, <3>2 DEF Listed
  <2>4. CASE k # m /\ ~Listed(k, s)
    BY <1>3, <2>1, <2>4 DEF History
  <2> QED
    BY <2>2, <2>3, <2>4
<1>8. ASSUME NEW j \in Slots, b.src[j].used
      PROVE  b.src[j].mac \in Macs /\ b.src[j].blacklist_until = f.cool[b.src[j].mac]
  <2>1. CASE j # i
    BY <1>1, <1>3, <1>8, <2>1 DEF Cooling
  <2>2. CASE j = i /\ held
    BY <1>1, <1>2, <1>3, <2>2 DEF Cooling
  <2>3. CASE j = i /\ ~held
    BY <1>1, <1>2, <1>3, <1>4, <1>6, <2>3
  <2> QED
    BY <2>1, <2>2, <2>3
<1> QED
  BY <1>7, <1>8 DEF Cooling, b, f

(* admit() locks a source in its cool-off only as a last resort.           *)
LEMMA AdmitCooling ==
  ASSUME now \in Nat, Millis \in Clock, Brief, Roomy, Paced, NoRssi,
         NEW s, Sound(s), ~s.lockChanged,
         NEW g \in History, Marked(s, g), Cooling(s, g), ~g.acquired,
         NEW m \in Macs, NEW r \in Rssis, NEW mode \in Modes, NEW rel \in BOOLEAN,
         MaxSources >= 2, ~Filtered(s, rel)
  PROVE  LET u == Admit(s, m, r, mode, rel, Millis)
             f == Moved(Heard(g, m, rel), u, u.lockChanged)
         IN  Cooling(u, f) /\ LastResort(u, f)
<1> DEFINE i == SlotFor(s, m, Millis)
           b == Hear(s, m, r, mode, rel)
           c == ReleaseStale(b, Millis)
           d == Decide(c, i, Millis)
           u == Admit(s, m, r, mode, rel, Millis)
           e == Heard(g, m, rel)
           e2 == Moved(e, c, c.lockChanged)
           f == Moved(e, u, u.lockChanged)
<1>1. r \in RssiRange
  BY FlowAssumption
<1>2. /\ i \in Slots /\ Sound(b) /\ Sound(c) /\ c.src[i].used /\ Sound(d)
      /\ SameTable(d, u) /\ SameSettings(d, u) /\ u.lockChanged = d.lockChanged
      /\ u.locked = d.locked /\ LockedMac(u) = LockedMac(d)
  BY <1>1, AdmitSteps
<1>3. /\ Marked(b, e) /\ e \in History /\ Cooling(b, e) /\ ~b.lockChanged
      /\ LastResort(b, e)
  <2>1. ~e.acquired
    BY DEF Heard, History
  <2>2. LastResort(b, e)
    BY <2>1 DEF LastResort
  <2> QED
    BY <2>2, HearMarked, HeardType, HearCooling, HearFields
<1> HIDE DEF i, b, e
<1>4. /\ Marked(c, e2) /\ Cooling(c, e2) /\ LastResort(c, e2)
      /\ ~Locked(c) => ~c.lockChanged
  BY <1>2, <1>3, ReleaseStaleMarked, ReleaseStaleCooling
<1>5. e2 \in History
  BY <1>2, <1>3, MovedType DEF Sound, Selector
<1>6. c.src[i].rssi = RSSI_UNKNOWN
  BY <1>2, <1>4 DEF Marked, Recorded, HeardThen
<1>7. \/ Locked(c) /\ d.lockChanged = c.lockChanged /\ LockedMac(d) = LockedMac(c)
           /\ Cooling(d, e2) /\ LastResort(d, e2)
      \/ ~Locked(c) /\ d.lockChanged = TRUE
           /\ Cooling(d, Moved(e2, d, TRUE)) /\ LastResort(d, Moved(e2, d, TRUE))
  <2> HIDE DEF c, e2
  <2> QED
    BY <1>2, <1>4, <1>5, <1>6, DecideCooling
<1>8. ~Locked(c) => e2 = e
  BY <1>4 DEF Moved
<1> DEFINE f2 == Moved(e, d, d.lockChanged)
<1>9. Cooling(d, f2) /\ LastResort(d, f2)
  <2>1. CASE Locked(c)
    <3>1. f2 = e2
      BY <1>7, <2>1, MovedAlike
    <3> HIDE DEF f2, d, e2
    <3> QED
      BY <1>7, <2>1, <3>1
  <2>2. CASE ~Locked(c)
    <3>1. d.lockChanged = TRUE /\ e2 = e
      BY <1>7, <1>8, <2>2
    <3>2. Cooling(d, Moved(e, d, TRUE)) /\ LastResort(d, Moved(e, d, TRUE))
      <4> HIDE DEF d, e2
      <4> QED
        BY <1>7, <2>2, <3>1
    <3> QED
      BY <3>1, <3>2
  <2> QED
    BY <2>1, <2>2
<1>10. f = f2
  <2> HIDE DEF d, u
  <2> QED
    BY <1>2, MovedAlike
<1> HIDE DEF d, u, f, f2
<1>11. Cooling(u, f)
  BY <1>2, <1>9, <1>10, SameCooling
<1>12. LastResort(u, f)
  BY <1>2, <1>9, <1>10 DEF LastResort, Fit, SameSettings, Locked
<1> QED
  BY <1>11, <1>12 DEF u, f, e

(* A cool-off given is the same in the table and in the history.           *)
LEMMA CoolDownCooling ==
  ASSUME now \in Nat, Millis \in Clock, Brief, NEW s, Sound(s), NEW f \in History, Cooling(s, f),
         NEW i \in Slots, s.src[i].used, NEW t, CooledTable(s, i, t),
         NEW g, g.heard = f.heard,
         g.cool = [f.cool EXCEPT ![s.src[i].mac] = now + SEL_BLACKLIST_MS]
  PROVE  Cooling(t, g)
<1> DEFINE m == s.src[i].mac
           c == now + SEL_BLACKLIST_MS
<1>1. c \in 0 .. ClockMod - 1 /\ ClockMod \in Nat /\ now \in Int
  BY ConstantsAssumption, FlowAssumption DEF Cooling, Brief
<1>2. Plus(Millis, SEL_BLACKLIST_MS) = c
  <2> HIDE DEF c
  <2>1. c % ClockMod = c
    BY <1>1
  <2>2. Millis = now
    BY YoungClock DEF Cooling
  <2> QED
    BY <2>1, <2>2 DEF Plus, c
<1>3. m \in Macs /\ f.cool \in [Macs -> Nat] /\ c \in Int
  BY <1>1 DEF Cooling, History
<1>4. g.cool[m] = c /\ \A k \in Macs \ {m} : g.cool[k] = f.cool[k]
  BY <1>3
<1>5. \A j \in Slots : s.src[j].used /\ s.src[j].mac = m => j = i
  BY DEF Sound, Table
<1>6. \A k \in Macs : Listed(k, s) => Listed(k, t)
  BY DEF Listed, CooledTable
<1>7. Listed(m, s)
  BY DEF Listed
<1> HIDE DEF m, c
<1>8. ASSUME NEW j \in Slots, t.src[j].used
      PROVE  t.src[j].mac \in Macs /\ t.src[j].blacklist_until = g.cool[t.src[j].mac]
  <2>1. s.src[j].used /\ t.src[j].mac = s.src[j].mac
    BY <1>8 DEF CooledTable
  <2>2. s.src[j].mac \in Macs /\ s.src[j].blacklist_until = f.cool[s.src[j].mac]
    BY <2>1 DEF Cooling
  <2>3. CASE j = i
    BY <1>2, <1>3, <1>4, <2>1, <2>3 DEF CooledTable, m
  <2>4. CASE j # i
    BY <1>4, <1>5, <2>1, <2>2, <2>4 DEF CooledTable
  <2> QED
    BY <2>3, <2>4
<1>9. ASSUME NEW k \in Macs
      PROVE  /\ g.cool[k] <= now + SEL_BLACKLIST_MS
             /\ Listed(k, t) \/ (g.heard[k] = Never /\ g.cool[k] = 0)
  <2>1. /\ f.cool[k] <= now + SEL_BLACKLIST_MS
        /\ Listed(k, s) \/ (f.heard[k] = Never /\ f.cool[k] = 0)
    BY DEF Cooling
  <2>2. CASE k = m
    BY <1>3, <1>4, <1>6, <1>7, <2>2 DEF c
  <2>3. CASE k # m
    BY <1>4, <1>6, <2>1, <2>3
  <2> QED
    BY <2>2, <2>3
<1> QED
  BY <1>8, <1>9 DEF Cooling

(* Housekeeping locks nothing in its cool-off: what is a last resort was   *)
(* one before.                                                             *)
LEMMA HousekeepingCooling ==
  ASSUME now \in Nat, Millis \in Clock, Brief, Paced, NEW s, Sound(s), ~s.lockChanged,
         NEW trk, NEW g \in History, Marked(s, g), Cooling(s, g), LastResort(s, g),
         Housekeeping(s, trk, g)
  PROVE  /\ Cooling(sel', h') /\ LastResort(sel', h')
         /\ Locked(s) /\ ~Stale(s) /\ ~g.acquired
              => ~h'.acquired \/ h'.cool[LockedMac(sel')] <= now
<1> DEFINE r == ReleaseStale(s, Millis)
           t == EvalRateSelection(r, Millis)
           u == ConsumeLockChanged(t)
           g1 == Moved(g, r, r.lockChanged)
           g2 == Cooled(g1, LockedMac(r))
           g3 == Moved(g2, t, TRUE)
<1>1. /\ Sound(r) /\ Sound(t) /\ r \in Selector /\ t \in Selector
      /\ r.lockChanged \in BOOLEAN
  <2>1. Sound(r)
    BY ReleaseStaleFollows DEF Follows, Keeps
  <2>2. Sound(t)
    BY <2>1, EvalRateSelectionFollows DEF Follows, Keeps
  <2> QED
    BY <2>1, <2>2 DEF Sound, Selector
<1>2. /\ sel' = u
      /\ h' = IF t.lastSwitch = s.lastSwitch THEN g1 ELSE g3
  BY DEF Housekeeping, Tick
<1>3. Cooling(r, g1) /\ LastResort(r, g1) /\ SameSettings(s, r)
  BY ReleaseStaleCooling, ReleaseStaleMarked
<1>4. g1 \in History
  BY <1>1, MovedType
<1>5. /\ g2 \in History /\ g2.heard = g1.heard
      /\ g2.cool = [g1.cool EXCEPT ![LockedMac(r)] = now + SEL_BLACKLIST_MS]
  <2> HIDE DEF g1
  <2> QED
    BY <1>4, CooledType DEF Cooled, History
<1>6. g3.cool = g2.cool /\ g3.heard = g2.heard
  <2> HIDE DEF g2
  <2> QED
    BY <1>5, MovedFields
<1>7. /\ u.locked = t.locked /\ u.src = t.src /\ LockedMac(u) = LockedMac(t)
      /\ SameSettings(t, u)
  BY <1>1, ConsumePlain
<1>8. Locked(s) /\ ~Stale(s) /\ ~g.acquired => ~g1.acquired
  <2>1. Locked(s) /\ ~Stale(s) => r = s
    BY ReleaseStaleCases
  <2> QED
    BY <2>1 DEF Moved
<1> HIDE DEF r
<1>9. /\ t.lockTimeoutMs = r.lockTimeoutMs
      /\ \/ /\ t.lastSwitch = r.lastSwitch /\ LockedMac(t) = LockedMac(r)
            /\ SameTable(r, t)
         \/ /\ t.lastSwitch # r.lastSwitch /\ Locked(r) /\ CooledTable(r, r.locked, t)
            /\ \E b \in Slots : /\ r.src[b].used /\ Plain(Acquire(r, b), t)
                                /\ LockedMac(t) = LockedMac(Acquire(r, b))
                                /\ b # r.locked /\ ~Blacklisted(r, b, Millis)
  BY <1>1, EvalCases
<1> HIDE DEF t, u, g1, g2, g3
<1>10. CASE t.lastSwitch = r.lastSwitch
  <2>1. SameTable(r, u) /\ h' = g1
    BY <1>2, <1>3, <1>7, <1>9, <1>10 DEF SameTable, SameSettings
  <2>2. Cooling(u, g1)
    BY <1>3, <2>1, SameCooling
  <2>3. LockedMac(u) = LockedMac(r) /\ u.lockTimeoutMs = r.lockTimeoutMs
    BY <1>7, <1>9, <1>10 DEF SameSettings
  <2>4. Locked(u) => Locked(r)
    <3> SUFFICES ASSUME Locked(u) PROVE Locked(r)
      OBVIOUS
    <3>1. t.locked \in Slots /\ t.src[t.locked].used
      BY <1>1, <1>7, LockRange DEF Sound, Table, RememberedSlot, Locked
    <3>2. LockedMac(u) \in Macs
      BY <1>7, <2>2, <3>1 DEF LockedMac, Cooling
    <3> QED
      BY <2>3, <3>2, ConstantsAssumption DEF LockedMac
  <2>5. LastResort(u, g1)
    BY <1>3, <2>3, <2>4 DEF LastResort, Fit
  <2> QED
    BY <1>2, <1>8, <2>1, <2>2, <2>5
<1>11. CASE t.lastSwitch # r.lastSwitch
  <2>1. PICK b \in Slots : /\ r.src[b].used /\ Plain(Acquire(r, b), t)
                           /\ LockedMac(t) = LockedMac(Acquire(r, b))
                           /\ b # r.locked /\ ~Blacklisted(r, b, Millis)
    BY <1>9, <1>11
  <2>2. h' = g3 /\ Locked(r) /\ CooledTable(r, r.locked, t)
    BY <1>2, <1>3, <1>9, <1>11 DEF SameSettings
  <2>3. /\ r.locked \in Slots /\ r.src[r.locked].used
        /\ LockedMac(r) = r.src[r.locked].mac
    BY <1>1, <2>2, LockRange DEF Sound, Table, RememberedSlot, Locked, LockedMac
  <2>4. Cooling(t, g3)
    BY <1>1, <1>3, <1>4, <1>5, <1>6, <2>2, <2>3, CoolDownCooling
  <2>5. Cooling(u, g3)
    BY <1>7, <2>4, SameCooling DEF SameTable
  <2>6. LockedMac(u) = r.src[b].mac /\ r.src[b].mac # LockedMac(r) /\ r.src[b].mac \in Macs
    BY <1>1, <1>3, <1>7, <2>1, <2>3, AcquireFields DEF Sound, Table, Cooling
  <2>7. ~(g1.cool[r.src[b].mac] > now)
    BY <1>3, <1>4, <2>1, CoolTold
  <2>8. g1.cool \in [Macs -> Nat] /\ now \in Int
    BY <1>4 DEF History
  <2>9. g3.cool[LockedMac(u)] <= now
    BY <1>5, <1>6, <2>6, <2>7, <2>8
  <2>10. LastResort(u, g3)
    BY <2>6, <2>8, <2>9, <1>5, <1>6 DEF LastResort
  <2> QED
    BY <1>2, <2>2, <2>5, <2>9, <2>10
<1> QED
  BY <1>10, <1>11

(* Serving the requests gives the source that is forced away its cool-off. *)
LEMMA RequestsCooling ==
  ASSUME Inv, Brief, Cooling(sel, h), NEW g \in History, g.heard = h.heard, g.cool = h.cool
  PROVE  Cooling(AfterRequests, IF Forced /\ Locked(sel) THEN Cooled(g, LockedMac(sel)) ELSE g)
<1> DEFINE s == IF req.relayTest THEN SetRelayTestOnly(sel, req.relayTestOn) ELSE sel
           b == Blacklist(s, s.locked, Millis)
           f == Cooled(g, LockedMac(sel))
<1>1. /\ sel \in Selector /\ Sound(sel) /\ now \in Nat /\ Millis \in Clock /\ h \in History
      /\ req.relayTestOn \in BOOLEAN
  BY MillisInClock DEF Inv, TypeOK, TableOK, Sound, Requests
<1>2. s.locked = sel.locked /\ s.src = sel.src /\ s \in Selector
  <2>1. s \in Selector
    BY <1>1, SettersKeep DEF Follows, Keeps, Sound
  <2> QED
    BY <1>1, <2>1 DEF SetRelayTestOnly, Selector
<1> HIDE DEF s
<1>3. AfterRequests = IF Forced /\ Locked(sel) THEN Released(b) ELSE s
  BY <1>2 DEF AfterRequests, ForceRelock, Locked, s
<1>4. CASE ~(Forced /\ Locked(sel))
  <2>1. SameTable(sel, s)
    BY <1>2 DEF SameTable
  <2>2. Cooling(s, g)
    BY <2>1, SameCooling
  <2> QED
    BY <1>3, <1>4, <2>2
<1>5. CASE Forced /\ Locked(sel)
  <2>1. /\ sel.locked \in Slots /\ sel.src[sel.locked].used
        /\ LockedMac(sel) = sel.src[sel.locked].mac
    BY <1>1, <1>5, LockRange DEF Sound, Table, RememberedSlot, Locked, LockedMac
  <2>2. Released(b).src = b.src
    BY <1>2 DEF Released, Blacklist, Selector
  <2>3. CooledTable(s, sel.locked, b)
    BY <1>2 DEF CooledTable, Blacklist, Selector, Source
  <2>4. CooledTable(sel, sel.locked, Released(b))
    <3> HIDE DEF b
    <3> QED
      BY <1>2, <2>2, <2>3 DEF CooledTable
  <2>5. /\ f.heard = h.heard
        /\ f.cool = [h.cool EXCEPT ![LockedMac(sel)] = now + SEL_BLACKLIST_MS]
    BY DEF Cooled, History
  <2> HIDE DEF b, f
  <2>6. Cooling(Released(b), f)
    BY <1>1, <2>1, <2>4, <2>5, CoolDownCooling
  <2> QED
    BY <1>3, <1>5, <2>6 DEF f
<1> QED
  BY <1>4, <1>5

(***************************************************************************)
(* The steps.                                                              *)
(***************************************************************************)
(* What the cool-offs are proved under: short uptime, a slot for every     *)
(* transmitter, and no challenge by RSSI, which asks for no cool-off.      *)
Coolable == Brief /\ Roomy /\ NoRssi

(* A lock taken in a cool-off is a last resort, and takes no lock's place  *)
(* that is still heard and not forced away.                                *)
HonoursCoolOff ==
  /\ LastResort(sel', h')
  /\ Locked(sel) /\ ~Quiet(LockedMac(sel)) /\ ~Forced
       => ~h'.acquired \/ h'.cool[LockedMac(sel')] <= now

(* What the receive callback does is recorded as it is counted, it leaves  *)
(* a source only for cause and honours the cool-offs.                      *)
LEMMA PacketTally ==
  ASSUME Inv, Tally, Paced, MaxSources >= 2,
         NEW m \in Macs, NEW rssi \in Rssis, NEW mode \in Modes,
         NEW relayed \in RelayFlags, NEW out \in Outcomes,
         Packet(m, rssi, mode, relayed, out)
  PROVE  /\ Marked(sel', h') /\ sel'.selectionEnabled = sel.selectionEnabled
         /\ LeavesForCause
         /\ Coolable /\ Cooling(sel, h) => Cooling(sel', h') /\ HonoursCoolOff
<1> DEFINE s1    == AfterRequests
           s2    == Admit(s1, m, rssi, mode, relayed, Millis)
           take  == Admitted(s1, m, rssi, mode, relayed, Millis)
           trk   == IF Forced \/ s2.lockChanged \/ (take /\ mode # sel.mode)
                      THEN NoMac ELSE track
           good  == take /\ out.ok
           lossy == good /\ trk # NoMac
           s3    == ConsumeLockChanged(s2)
           g0    == [Still EXCEPT !.passed = ~Filtered(s1, relayed)]
           g1    == IF Forced /\ Locked(sel) THEN Cooled(g0, LockedMac(sel)) ELSE g0
           g2    == IF Filtered(s1, relayed) THEN g1 ELSE Heard(g1, m, relayed)
           g3    == Moved(g2, s2, s2.lockChanged)
           g4    == IF good THEN [g3 EXCEPT !.decoded = m, !.after = trk,
                                    !.lost = IF lossy THEN g3.lost + out.lost - out.recovered
                                             ELSE g3.lost]
                    ELSE g3
           s4    == IF lossy THEN NoteLockLoss(s3, out.lost, out.recovered) ELSE s3
           trk2  == IF good THEN m ELSE trk
<1>1. /\ Sound(sel) /\ ~sel.lockChanged /\ now \in Nat /\ Millis \in Clock /\ h \in History
      /\ track \in Macs \cup {NoMac}
      /\ rssi \in RssiRange /\ relayed \in BOOLEAN
      /\ out.ok \in BOOLEAN /\ out.lost \in Nat /\ out.recovered \in Nat
  BY FlowAssumption, MillisInClock DEF Inv, TypeOK, TableOK, Sound
<1>2. /\ Keeps(sel, s1) /\ Sound(s1) /\ (Forced => ~Locked(s1))
      /\ Plain(sel, s1) /\ SameSettings(sel, s1) /\ ~s1.lockChanged
      /\ ~Forced => /\ Locked(s1) <=> Locked(sel)
                    /\ LockedMac(s1) = LockedMac(sel)
                    /\ Stale(s1) <=> Stale(sel)
  BY AfterRequestsKeeps, AfterRequestsPlain DEF Keeps
<1>3. /\ Sound(s2) /\ s2.lockChanged \in BOOLEAN
      /\ ~Filtered(s1, relayed) => Fresh(s2, Millis)
  BY <1>1, <1>2, AdmitKeeps DEF Keeps, Sound, Selector
<1>4. /\ Sound(s3) /\ ~s3.lockChanged /\ Plain(s2, s3) /\ SameSettings(s2, s3)
      /\ LockedMac(s3) = LockedMac(s2) /\ s3.locked = s2.locked /\ s3.src = s2.src
  BY <1>3, ConsumeKeepsLock, ConsumePlain DEF Sound
<1>5. /\ Sound(s4) /\ ~s4.lockChanged /\ s4.locked = s2.locked /\ s4.src = s2.src
      /\ s4.handoffs = s2.handoffs /\ SameSettings(s2, s4)
  <2>1. Sound(NoteLockLoss(s3, out.lost, out.recovered))
    BY <1>1, <1>4, SettersKeep DEF Follows, Keeps
  <2>2. s3.handoffs = s2.handoffs
    BY <1>4 DEF Plain
  <2> HIDE DEF s3, s2
  <2> QED
    BY <1>4, <2>1, <2>2 DEF NoteLockLoss, Sound, Selector, SameSettings
<1>6. Housekeeping(s4, trk2, g4)
  BY DEF Packet
<1>7. g1 \in History /\ AsBefore(h, g1) /\ ~g1.acquired
  <2>1. Filtered(s1, relayed) \in BOOLEAN
    BY <1>1, <1>2 DEF Filtered, Sound, Selector
  <2>2. Still \in History /\ AsBefore(h, Still) /\ ~Still.acquired
    BY <1>1 DEF Still, History, AsBefore
  <2>3. g0 \in History /\ AsBefore(h, g0) /\ ~g0.acquired
    BY <2>1, <2>2 DEF History, AsBefore
  <2> HIDE DEF g0
  <2>4. Cooled(g0, LockedMac(sel)) \in History
    BY <1>1, <2>3, CooledType
  <2>5. /\ AsBefore(h, Cooled(g0, LockedMac(sel)))
        /\ ~Cooled(g0, LockedMac(sel)).acquired
    BY <2>3 DEF Cooled, History, AsBefore
  <2> QED
    BY <2>3, <2>4, <2>5
<1>8. Marked(s1, g1)
  BY <1>1, <1>2, <1>7, PlainMarked DEF Tally, Sound
<1>9. g2 \in History
  <2> HIDE DEF g1
  <2> QED
    BY <1>1, <1>7, HeardType
<1>10. g3 \in History
  <2> HIDE DEF g2, s2
  <2> QED
    BY <1>1, <1>3, <1>9, MovedType DEF Sound
<1>11. Marked(s2, g3) /\ SameSettings(s1, s2)
  <2>1. CASE Filtered(s1, relayed)
    <3>1. s2 = s1
      BY <2>1 DEF Admit
    <3>2. g3 = g1
      BY <1>2, <2>1, <3>1 DEF Moved
    <3> HIDE DEF g3, g1, s1, s2
    <3> QED
      BY <1>8, <3>1, <3>2 DEF SameSettings
  <2>2. CASE ~Filtered(s1, relayed)
    <3> HIDE DEF g1, s1
    <3>1. g2 = Heard(g1, m, relayed)
      BY <2>2
    <3>2. /\ Marked(s2, Moved(Heard(g1, m, relayed), s2, s2.lockChanged))
          /\ SameSettings(s1, s2)
      BY <1>1, <1>2, <1>7, <1>8, <2>2, AdmitMarked
    <3> QED
      BY <3>1, <3>2
  <2> QED
    BY <2>1, <2>2
<1>12. Cooling(sel, h) /\ Brief => Cooling(s1, g1)
  <2>1. g0 \in History /\ g0.heard = h.heard /\ g0.cool = h.cool
    <3>1. /\ Still \in History /\ Still.heard = h.heard /\ Still.cool = h.cool
          /\ Filtered(s1, relayed) \in BOOLEAN
      BY <1>1, <1>2 DEF Still, History, Filtered, Sound, Selector
    <3> QED
      BY <3>1 DEF History
  <2> HIDE DEF g0
  <2> QED
    BY <2>1, RequestsCooling
<1>13. Filtered(s1, relayed) => s2 = s1 /\ g3 = g1
  BY <1>2 DEF Admit, Moved
<1>14. ~s2.lockChanged => g3.acquired = g1.acquired
  <2> HIDE DEF g1, s2
  <2> QED
    BY <1>7 DEF Moved, Heard, History
<1>15. ~Filtered(s1, relayed) => g2 = Heard(g1, m, relayed)
  BY DEF g2
<1> HIDE DEF s1, s2, s3, s4, g0, g1, g2, g3
<1>16. /\ g4 \in History /\ AsBefore(g3, g4)
       /\ g4.acquired = g3.acquired /\ g4.cool = g3.cool
  <2>1. g3.lost + out.lost - out.recovered \in Int /\ g3.lost \in Int
    BY <1>1, <1>10 DEF History
  <2>2. trk \in Macs \cup {NoMac}
    BY <1>1
  <2> HIDE DEF trk, good
  <2> QED
    BY <1>10, <2>1, <2>2 DEF History, AsBefore
<1>17. Plain(s2, s4) /\ LockedMac(s4) = LockedMac(s2)
  BY <1>5 DEF Plain, RememberedSlot, LockedMac, Locked
<1> HIDE DEF g4, trk2
<1>18. Marked(s4, g4)
  BY <1>1, <1>3, <1>11, <1>16, <1>17, PlainMarked DEF Sound
<1>19. /\ Marked(sel', h') /\ sel'.selectionEnabled = s4.selectionEnabled
       /\ Locked(s4) =>
            \/ LockedMac(sel') = LockedMac(s4)
            \/ Stale(s4)
            \/ /\ s4.selectionEnabled /\ sel'.lastSwitch # s4.lastSwitch
               /\ h'.cool[LockedMac(s4)] = now + SEL_BLACKLIST_MS
  BY <1>1, <1>5, <1>6, <1>16, <1>18, HousekeepingMarked
<1>20. s4.selectionEnabled = sel.selectionEnabled /\ s4.lastSwitch = sel.lastSwitch
  BY <1>2, <1>5, <1>11 DEF SameSettings
<1>21. Stale(s4) => Stale(s1)
  <2> SUFFICES ASSUME Stale(s4) PROVE Stale(s1)
    OBVIOUS
  <2>1. /\ s4.locked = s2.locked /\ s4.src = s2.src /\ Locked(s2)
        /\ s4.lockTimeoutMs = s2.lockTimeoutMs
    BY <1>5 DEF SameSettings, Stale, Locked
  <2>2. Age(Millis, s2.src[s2.locked].last_ms) > s2.lockTimeoutMs
    BY <2>1 DEF Stale
  <2>3. Age(Millis, s2.src[s2.locked].last_ms) \in Int /\ s2.lockTimeoutMs \in Int
    BY <1>1, <1>3, <2>1, AgeType DEF Sound
  <2>4. ~Fresh(s2, Millis)
    BY <2>1, <2>2, <2>3 DEF Fresh
  <2>5. s2 = s1
    BY <1>3, <1>13, <2>4
  <2> QED
    BY <2>1, <2>2, <2>5 DEF Stale
<1>22. LeavesForCause
  <2> SUFFICES ASSUME NEW k \in Macs, LockedMac(sel) = k, LockedMac(sel') # k, ~Forced
               PROVE  Cause(k)
    BY DEF LeavesForCause, Cause
  <2>1. Locked(sel) /\ Locked(s1) /\ LockedMac(s1) = k
    BY <1>2, ConstantsAssumption DEF LockedMac
  <2>2. Stale(s1) => Quiet(k)
    BY <1>1, <1>2, StaleIsQuiet
  <2>3. CASE LockedMac(s2) # k
    <3>1. Stale(s1) \/ (~NoRssi /\ now - g1.lockedAt >= RSSI_HOLD_MS)
      BY <1>1, <1>2, <1>7, <1>8, <2>1, <2>3, AdmitCause DEF s2
    <3> QED
      BY <1>7, <2>2, <3>1 DEF Cause, AsBefore
  <2>4. CASE LockedMac(s2) = k
    <3>1. LockedMac(s4) = k /\ Locked(s4)
      BY <1>17, <2>4, ConstantsAssumption DEF LockedMac
    <3> QED
      BY <1>19, <1>20, <1>21, <2>2, <3>1 DEF Cause
  <2> QED
    BY <2>3, <2>4
<1>23. ASSUME Coolable, Cooling(sel, h)
       PROVE  Cooling(sel', h') /\ HonoursCoolOff
  <2>1. Brief /\ Roomy /\ NoRssi /\ Cooling(s1, g1)
    BY <1>12, <1>23 DEF Coolable
  <2>2. Cooling(s2, g3) /\ LastResort(s2, g3)
    <3>1. CASE Filtered(s1, relayed)
      BY <1>7, <1>13, <2>1, <3>1 DEF LastResort
    <3>2. CASE ~Filtered(s1, relayed)
      <4>1. LET f == Moved(Heard(g1, m, relayed), s2, s2.lockChanged)
            IN  Cooling(s2, f) /\ LastResort(s2, f)
        BY <1>1, <1>2, <1>7, <1>8, <2>1, <3>2, AdmitCooling DEF s2
      <4>2. g3 = Moved(Heard(g1, m, relayed), s2, s2.lockChanged)
        BY <1>15, <3>2 DEF g3
      <4> QED
        BY <4>1, <4>2
    <3> QED
      BY <3>1, <3>2
  <2>3. /\ SameTable(s2, s4) /\ s4.lockTimeoutMs = s2.lockTimeoutMs
        /\ Locked(s4) <=> Locked(s2)
    BY <1>5 DEF SameTable, SameSettings, Locked
  <2>4. Cooling(s4, g4)
    BY <1>16, <2>2, <2>3, SameCooling DEF AsBefore
  <2>5. LastResort(s4, g4)
    BY <1>16, <1>17, <2>2, <2>3 DEF LastResort, Fit, AsBefore
  <2>6. /\ Cooling(sel', h') /\ LastResort(sel', h')
        /\ Locked(s4) /\ ~Stale(s4) /\ ~g4.acquired
             => ~h'.acquired \/ h'.cool[LockedMac(sel')] <= now
    BY <1>1, <1>5, <1>6, <1>16, <1>18, <2>1, <2>4, <2>5, HousekeepingCooling
  <2>7. ASSUME Locked(sel), ~Quiet(LockedMac(sel)), ~Forced
        PROVE  ~h'.acquired \/ h'.cool[LockedMac(sel')] <= now
    <3>1. Locked(s1) /\ ~Stale(s1)
      BY <1>1, <1>2, <2>7, StaleIsQuiet
    <3>2. LockedMac(s2) = LockedMac(s1) /\ ~s2.lockChanged
      BY <1>1, <1>2, <1>7, <1>8, <2>1, <3>1, AdmitCause DEF s2
    <3>3. ~g4.acquired
      BY <1>7, <1>16, <1>14, <3>2
    <3>4. Locked(s4)
      <4>1. LockedMac(s1) \in Macs
        <5>1. s1.locked \in Slots /\ s1.src[s1.locked].used
          BY <1>2, <3>1, LockRange DEF Sound, Table, RememberedSlot, Locked
        <5> QED
          BY <2>1, <3>1, <5>1 DEF LockedMac, Cooling
      <4> QED
        BY <1>17, <3>2, <4>1, ConstantsAssumption DEF LockedMac
    <3> QED
      BY <1>21, <2>6, <3>1, <3>3, <3>4
  <2> QED
    BY <2>6, <2>7 DEF HonoursCoolOff
<1> QED
  BY <1>19, <1>20, <1>22, <1>23

(* With no time passing, the marks are those of the next state.            *)
LEMMA TallyAtOnce ==
  ASSUME Marked(sel', h'), sel'.selectionEnabled \in Selections, now' = now
  PROVE  Tally'
<1>1. Recorded(sel, h)'
  BY DEF Marked, Recorded, HeardThen, ChallengedSince
<1>2. Roomy => Counted(sel, h)'
  BY DEF Marked, Counted, RememberedMac, RememberedSlot
<1> QED
  BY <1>1, <1>2 DEF Tally, Marked

(* So does idleTick(), which runs the same housekeeping.                   *)
LEMMA IdleTally ==
  ASSUME Inv, Tally, Paced, Idle
  PROVE  Tally' /\ LeavesForCause
<1>1. now \in Nat /\ Millis \in Clock /\ Sound(sel) /\ ~sel.lockChanged /\ h \in History
  BY MillisInClock DEF Inv, TypeOK, TableOK, Sound
<1>2. Still \in History /\ AsBefore(h, Still)
  BY <1>1 DEF Still, History, AsBefore
<1>3. Housekeeping(sel, track, Still) /\ now' = now
  BY DEF Idle
<1>4. Marked(sel, Still)
  BY <1>1, <1>2, PlainMarked DEF Tally, Sound, Plain
<1>5. /\ Marked(sel', h') /\ sel'.selectionEnabled = sel.selectionEnabled
      /\ Locked(sel) =>
           \/ LockedMac(sel') = LockedMac(sel)
           \/ Stale(sel)
           \/ /\ sel.selectionEnabled /\ sel'.lastSwitch # sel.lastSwitch
              /\ h'.cool[LockedMac(sel)] = now + SEL_BLACKLIST_MS
  BY <1>1, <1>2, <1>3, <1>4, HousekeepingMarked
<1>6. LeavesForCause
  <2> SUFFICES ASSUME NEW k \in Macs, LockedMac(sel) = k, LockedMac(sel') # k
               PROVE  Cause(k)
    BY DEF LeavesForCause
  <2>1. Locked(sel)
    BY ConstantsAssumption DEF LockedMac
  <2>2. Stale(sel) => Quiet(k)
    BY <1>1, StaleIsQuiet
  <2> QED
    BY <1>5, <2>1, <2>2 DEF Cause
<1>7. Tally'
  BY <1>3, <1>5, TallyAtOnce DEF Tally
<1> QED
  BY <1>6, <1>7

(* The setters touch nothing the history looks at.                         *)
LEMMA TuneTally ==
  ASSUME Inv, Tally, NEW t \in Timeouts, NEW e \in Selections, Tune(t, e)
  PROVE  Tally' /\ LeavesForCause
<1>1. now \in Nat /\ Millis \in Clock /\ sel \in Selector /\ h \in History
  BY MillisInClock DEF Inv, TypeOK
<1>2. sel' = SetOptions(sel, t, e) /\ h' = Still /\ now' = now
  BY DEF Tune
<1>3. /\ sel'.src = sel.src /\ sel'.locked = sel.locked /\ sel'.handoffs = sel.handoffs
      /\ sel'.selectionEnabled = e
  BY <1>1, <1>2 DEF SetOptions, Selector
<1>4. AsBefore(h, h')
  BY <1>1, <1>2 DEF Still, History, AsBefore
<1>5. Plain(sel, sel') /\ LockedMac(sel') = LockedMac(sel)
  BY <1>3 DEF Plain, RememberedSlot, LockedMac, Locked
<1>6. Marked(sel', h')
  BY <1>1, <1>4, <1>5, PlainMarked DEF Tally
<1>7. Tally'
  BY <1>2, <1>3, <1>6, TallyAtOnce
<1> QED
  BY <1>5, <1>7 DEF LeavesForCause

(* Time passing, a request raised or nothing at all leave the marks: what  *)
(* has passed stays past.                                                  *)
LEMMA QuietStepTally ==
  ASSUME Inv, Tally, sel' = sel, h' \in {h, Still}, now' >= now, now' \in Nat
  PROVE  Tally' /\ LeavesForCause
<1>1. now \in Nat /\ Millis \in Clock /\ sel \in Selector /\ h \in History
  BY MillisInClock DEF Inv, TypeOK
<1>2. AsBefore(h, h') /\ h' \in History
  BY <1>1 DEF Still, History, AsBefore
<1>3. now \in Int /\ now' \in Int /\ h.lockedAt \in Int
  BY <1>1 DEF History
<1>4. Recorded(sel, h)'
  <2>1. Recorded(sel, h)
    BY DEF Tally, Marked
  <2>2. (h.lockedAt <= now)'
    BY <1>2, <1>3, <2>1 DEF Recorded, AsBefore
  <2>3. ASSUME NEW i \in Slots
        PROVE  HeardThen(sel.src[i], h)' /\ ChallengedSince(sel.src[i], h)'
    <3>1. HeardThen(sel.src[i], h) /\ ChallengedSince(sel.src[i], h)
      BY <2>1 DEF Recorded
    <3>2. HeardThen(sel.src[i], h)'
      BY <1>2, <1>3, <3>1 DEF HeardThen, AsBefore
    <3>3. ChallengedSince(sel.src[i], h)'
      BY <1>2, <1>3, <3>1 DEF ChallengedSince, AsBefore
    <3> QED
      BY <3>2, <3>3
  <2> QED
    BY <2>2, <2>3 DEF Recorded
<1>5. Roomy => Counted(sel, h)'
  BY <1>2 DEF Tally, Marked, Counted, RememberedMac, RememberedSlot, AsBefore
<1>6. Tally'
  BY <1>4, <1>5 DEF Tally, Marked
<1> QED
  BY <1>6 DEF LeavesForCause

(* Every step keeps the tally and leaves a source for cause: one case per  *)
(* action, and the stutter.                                                *)
LEMMA TallyStep ==
  ASSUME MaxSources >= 2, Paced, Inv, Tally, [Next]_vars
  PROVE  Tally' /\ LeavesForCause
<1>1. now \in Nat
  BY DEF Inv, TypeOK
<1>2. now >= now
  BY <1>1
<1>3. ASSUME NEW m \in Macs, NEW r \in Rssis, NEW mode \in Modes,
             NEW rel \in RelayFlags, NEW out \in Outcomes, Packet(m, r, mode, rel, out)
      PROVE  Tally' /\ LeavesForCause
  <2>1. /\ Marked(sel', h') /\ sel'.selectionEnabled = sel.selectionEnabled
        /\ LeavesForCause
    BY <1>3, PacketTally
  <2>2. now' = now
    BY <1>3 DEF Packet
  <2>3. Tally'
    BY <2>1, <2>2, TallyAtOnce DEF Tally
  <2> QED
    BY <2>1, <2>3
<1>4. CASE Idle
  BY <1>4, IdleTally
<1>5. ASSUME NEW t \in Timeouts, NEW e \in Selections, Tune(t, e)
      PROVE  Tally' /\ LeavesForCause
  BY <1>5, TuneTally
<1>6. CASE RequestRelock
  BY <1>1, <1>2, <1>6, QuietStepTally DEF RequestRelock
<1>7. ASSUME NEW on \in RelayRequests, RequestRelayTest(on)
      PROVE  Tally' /\ LeavesForCause
  BY <1>1, <1>2, <1>7, QuietStepTally DEF RequestRelayTest
<1>8. CASE Clockwork
  <2>1. now' \in Nat /\ now' >= now
    BY <1>1, <1>8 DEF Clockwork
  <2> QED
    BY <1>8, <2>1, QuietStepTally DEF Clockwork
<1>9. CASE UNCHANGED vars
  BY <1>1, <1>2, <1>9, QuietStepTally DEF vars
<1> QED
  BY <1>3, <1>4, <1>5, <1>6, <1>7, <1>8, <1>9 DEF Next

(* begin() has heard nothing and counted nothing.                          *)
LEMMA TallyInit ==
  ASSUME Init
  PROVE  Tally
<1> PICK t \in Timeouts, e \in Selections : sel = Begin(t, e)
  BY DEF Init
<1>1. /\ sel.locked = -1 /\ sel.handoffs = 0 /\ sel.selectionEnabled = e
      /\ \A i \in Slots : ~sel.src[i].used /\ sel.src[i].hyst_start = 0
  BY DEF Begin, EmptySource
<1>2. /\ h.lockedAt = now /\ h.moves = 0 /\ h.last = NoMac /\ now \in Int
  BY FlowAssumption DEF Init
<1>3. Recorded(sel, h)
  BY <1>1, <1>2 DEF Recorded, HeardThen, ChallengedSince
<1>4. Counted(sel, h)
  BY <1>1, <1>2 DEF Counted, RememberedMac, RememberedSlot
<1> QED
  BY <1>1, <1>3, <1>4 DEF Tally, Marked

(* idleTick() honours the cool-offs.                                       *)
LEMMA IdleCooling ==
  ASSUME Inv, Tally, Paced, Coolable, Cooling(sel, h), Idle
  PROVE  Cooling(sel', h') /\ HonoursCoolOff
<1>1. now \in Nat /\ Millis \in Clock /\ Sound(sel) /\ ~sel.lockChanged /\ h \in History
  BY MillisInClock DEF Inv, TypeOK, TableOK, Sound
<1>2. /\ Still \in History /\ AsBefore(h, Still) /\ ~Still.acquired
      /\ Still.heard = h.heard /\ Still.cool = h.cool
  BY <1>1 DEF Still, History, AsBefore
<1>3. Housekeeping(sel, track, Still)
  BY DEF Idle
<1>4. Marked(sel, Still)
  BY <1>1, <1>2, PlainMarked DEF Tally, Sound, Plain
<1>5. Cooling(sel, Still)
  BY <1>2, SameCooling DEF SameTable
<1>6. LastResort(sel, Still)
  BY <1>2 DEF LastResort
<1>7. /\ Cooling(sel', h') /\ LastResort(sel', h')
      /\ Locked(sel) /\ ~Stale(sel) /\ ~Still.acquired
           => ~h'.acquired \/ h'.cool[LockedMac(sel')] <= now
  BY <1>1, <1>2, <1>3, <1>4, <1>5, <1>6, HousekeepingCooling DEF Coolable
<1>8. Stale(sel) => Quiet(LockedMac(sel))
  BY <1>1, StaleIsQuiet
<1> QED
  BY <1>2, <1>7, <1>8 DEF HonoursCoolOff

(* So does a step that neither locks nor blacklists.                       *)
LEMMA PlainCooling ==
  ASSUME Inv, Cooling(sel, h), SameTable(sel, sel'), h' \in {h, Still},
         now' \in {now, now + 1}, now' <= Horizon
  PROVE  Cooling(sel, h)' /\ (h' = Still => HonoursCoolOff)
<1>1. h \in History /\ now \in Int /\ SEL_BLACKLIST_MS \in Int
  BY ConstantsAssumption DEF Inv, TypeOK
<1>2. /\ Still \in History /\ ~Still.acquired
      /\ Still.heard = h.heard /\ Still.cool = h.cool
  BY <1>1 DEF Still, History
<1>3. \A i \in Slots : sel'.src[i].used =>
        sel'.src[i].mac \in Macs /\ sel'.src[i].blacklist_until = h'.cool[sel'.src[i].mac]
  BY <1>2 DEF Cooling, SameTable
<1>4. ASSUME NEW k \in Macs
      PROVE  /\ h'.cool[k] <= now' + SEL_BLACKLIST_MS
             /\ Listed(k, sel') \/ (h'.heard[k] = Never /\ h'.cool[k] = 0)
  <2>1. /\ h.cool[k] <= now + SEL_BLACKLIST_MS
        /\ Listed(k, sel) \/ (h.heard[k] = Never /\ h.cool[k] = 0)
    BY DEF Cooling
  <2>2. h.cool[k] \in Int
    BY <1>1 DEF History
  <2>3. Listed(k, sel) => Listed(k, sel')
    BY DEF Listed, SameTable
  <2> QED
    BY <1>1, <1>2, <2>1, <2>2, <2>3
<1>5. Cooling(sel, h)'
  BY <1>3, <1>4 DEF Cooling, Listed
<1>6. h' = Still => HonoursCoolOff
  BY <1>2 DEF HonoursCoolOff, LastResort
<1> QED
  BY <1>5, <1>6

(* With no time passing, the cool-offs are those of the next state.        *)
LEMMA CoolingAtOnce ==
  ASSUME Cooling(sel', h'), now' = now
  PROVE  Cooling(sel, h)'
  BY DEF Cooling, Listed

(* Every step honours the cool-offs and keeps the table true to them.      *)
LEMMA CoolingStep ==
  ASSUME MaxSources >= 2, Paced, Coolable, Inv, Tally, Cooling(sel, h), [Next]_vars
  PROVE  /\ Cooling(sel, h)'
         /\ (HonoursCoolOff /\ now' = now) \/ ~h'.acquired \/ UNCHANGED vars
<1>1. sel \in Selector /\ h \in History /\ now \in Int /\ now <= Horizon /\ Horizon \in Int
  BY FlowAssumption DEF Inv, TypeOK, Cooling
<1>2. ~Still.acquired
  BY <1>1 DEF Still, History
<1>3. ASSUME NEW m \in Macs, NEW r \in Rssis, NEW mode \in Modes,
             NEW rel \in RelayFlags, NEW out \in Outcomes, Packet(m, r, mode, rel, out)
      PROVE  Cooling(sel, h)' /\ HonoursCoolOff /\ now' = now
  <2>1. Cooling(sel', h') /\ HonoursCoolOff
    BY <1>3, PacketTally
  <2>2. now' = now
    BY <1>3 DEF Packet
  <2> QED
    BY <2>1, <2>2, CoolingAtOnce
<1>4. ASSUME Idle
      PROVE  Cooling(sel, h)' /\ HonoursCoolOff /\ now' = now
  <2>1. Cooling(sel', h') /\ HonoursCoolOff
    BY <1>4, IdleCooling
  <2>2. now' = now
    BY <1>4 DEF Idle
  <2> QED
    BY <2>1, <2>2, CoolingAtOnce
<1>5. ASSUME NEW t \in Timeouts, NEW e \in Selections, Tune(t, e)
      PROVE  Cooling(sel, h)' /\ ~h'.acquired
  <2>1. sel' = SetOptions(sel, t, e) /\ h' = Still /\ now' = now
    BY <1>5 DEF Tune
  <2>2. sel'.src = sel.src
    BY <1>1, <2>1 DEF SetOptions, Selector
  <2> QED
    BY <1>1, <1>2, <2>1, <2>2, PlainCooling DEF SameTable
<1>6. ASSUME RequestRelock \/ \E on \in RelayRequests : RequestRelayTest(on)
      PROVE  Cooling(sel, h)' /\ ~h'.acquired
  <2>1. RequestRelock => sel' = sel /\ h' = Still /\ now' = now
    BY DEF RequestRelock
  <2>2. ASSUME NEW on \in RelayRequests, RequestRelayTest(on)
        PROVE  sel' = sel /\ h' = Still /\ now' = now
    BY <2>2 DEF RequestRelayTest
  <2> QED
    BY <1>1, <1>2, <1>6, <2>1, <2>2, PlainCooling DEF SameTable
<1>7. ASSUME Clockwork
      PROVE  Cooling(sel, h)' /\ ~h'.acquired
  <2>1. SameTable(sel, sel') /\ h' = Still /\ now' = now + 1 /\ now' <= Horizon
    BY <1>1, <1>7 DEF Clockwork, SameTable
  <2> QED
    BY <1>1, <1>2, <2>1, PlainCooling
<1>8. ASSUME UNCHANGED vars
      PROVE  Cooling(sel, h)'
  <2>1. SameTable(sel, sel') /\ h' = h /\ now' = now
    BY <1>8 DEF vars, SameTable
  <2> QED
    BY <1>1, <2>1, PlainCooling
<1> QED
  BY <1>3, <1>4, <1>5, <1>6, <1>7, <1>8 DEF Next

(* begin() has no source and no cool-off.                                  *)
LEMMA CoolingInit ==
  ASSUME Init, Brief
  PROVE  Cooling(sel, h)
<1> PICK t \in Timeouts, e \in Selections : sel = Begin(t, e)
  BY DEF Init
<1>1. \A i \in Slots : ~sel.src[i].used
  BY DEF Begin, EmptySource
<1>2. /\ now = StartTime /\ \A k \in Macs : h.heard[k] = Never /\ h.cool[k] = 0
  BY DEF Init
<1>3. now <= Horizon /\ 0 <= now + SEL_BLACKLIST_MS
  BY <1>2, ConstantsAssumption, FlowAssumption DEF Brief
<1> QED
  BY <1>1, <1>2, <1>3 DEF Cooling

(***************************************************************************)
(* What follows for the properties.                                        *)
(***************************************************************************)
(* The tally joins the invariant.                                          *)
LEMMA TallyHolds ==
  ASSUME MaxSources >= 2, Paced
  PROVE  Spec => [](Inv /\ Tally)
<1>1. Init => Inv /\ Tally
  BY InitInv, TallyInit
<1>2. Inv /\ Tally /\ [Next]_vars => (Inv /\ Tally)'
  BY NextInv, TallyStep
<1> QED
  BY <1>1, <1>2, PTL DEF Spec

(* With a slot for every transmitter, handoffs() counts the changes of the *)
(* locked MAC exactly: resuming a source after a silence is none, and none *)
(* is missed, whether tick(), admit() or a forced re-lock makes it.        *)
THEOREM HandoffsCounted ==
  ASSUME MaxSources >= 2, Paced, Roomy
  PROVE  Spec => []HandoffsExact
<1>1. Tally => HandoffsExact
  BY DEF Tally, Marked, Counted, HandoffsExact
<1> QED
  BY <1>1, TallyHolds, PTL

(* In every step, whatever the packets carry: the receiver leaves a source *)
(* because it went quiet, because the application asked, because it lost a *)
(* rate comparison and got its cool-off, or, where packets carry RSSI,     *)
(* because a stronger one outlasted the hold within this very lock.        *)
THEOREM EveryLeaving ==
  ASSUME MaxSources >= 2, Paced
  PROVE  Spec => [][LeavesForCause]_vars
<1>1. Inv /\ Tally /\ [Next]_vars => [LeavesForCause]_vars
  BY TallyStep
<1> QED
  BY <1>1, TallyHolds, PTL DEF Spec

(* Where no packet carries RSSI, a lock is left for one of three causes    *)
(* only: silence, a request, a lost rate comparison.                       *)
THEOREM LeftForCause ==
  ASSUME MaxSources >= 2, Paced, NoRssi
  PROVE  Spec => LockLeftForCause
<1> DEFINE A == \A m \in Macs : LockedMac(sel) = m /\ LockedMac(sel') # m =>
                  \/ Quiet(m)
                  \/ Forced
                  \/ sel.selectionEnabled /\ h'.cool[m] = now + SEL_BLACKLIST_MS
<1>1. LeavesForCause => A
  BY DEF LeavesForCause, Cause
<1>2. Inv /\ Tally /\ [Next]_vars => [A]_vars
  BY <1>1, TallyStep
<1> QED
  BY <1>2, TallyHolds, PTL DEF Spec, LockLeftForCause

(* Without the rate comparison, two switches away from a source that is    *)
(* still heard are at least RSSI_HOLD_MS apart, unless the application     *)
(* forces one: sources of similar strength do not ping-pong.               *)
THEOREM ChallengesSpaced ==
  ASSUME MaxSources >= 2, Paced, Selections = {FALSE}
  PROVE  Spec => HysteresisSpacing
<1> DEFINE A == \A m \in Macs :
                  /\ h'.acquired /\ LockedMac(sel) = m /\ LockedMac(sel') # m
                  /\ ~Quiet(m) /\ ~Forced
                  => now - h.lockedAt >= RSSI_HOLD_MS
<1>1. Tally /\ LeavesForCause => A
  BY DEF Tally, LeavesForCause, Cause
<1>2. Inv /\ Tally /\ [Next]_vars => [A]_vars
  BY <1>1, TallyStep
<1> QED
  BY <1>2, TallyHolds, PTL DEF Spec, HysteresisSpacing

(* In the first 24 days of uptime, with a slot for every transmitter and   *)
(* without RSSI: a source in its cool-off is locked only when no other     *)
(* live source could be, and never in the place of a lock that is still    *)
(* heard and was not forced away.                                          *)
THEOREM CoolOffKept ==
  ASSUME MaxSources >= 2, Paced, Coolable
  PROVE  Spec => CoolOffHonoured
<1> DEFINE A == h'.acquired /\ Locked(sel') /\ h'.cool[LockedMac(sel')] > now
                  => /\ ~\E k \in Macs \ {LockedMac(sel')} : Candidate(k)'
                     /\ Locked(sel) => Quiet(LockedMac(sel)) \/ Forced
<1>1. ASSUME HonoursCoolOff, now' = now, Inv, Inv', Cooling(sel, h)'
      PROVE  A
  <2> SUFFICES ASSUME h'.acquired, Locked(sel'), h'.cool[LockedMac(sel')] > now
               PROVE  /\ \A k \in Macs \ {LockedMac(sel')} : ~Candidate(k)'
                      /\ Locked(sel) => Quiet(LockedMac(sel)) \/ Forced
    OBVIOUS
  <2>1. \A k \in Macs \ {LockedMac(sel')} : ~Fit(k, sel', h')
    BY <1>1 DEF HonoursCoolOff, LastResort
  <2>2. \A k \in Macs \ {LockedMac(sel')} : ~Candidate(k)'
    BY <1>1, <2>1 DEF Fit, Candidate
  <2>3. ~(h'.cool[LockedMac(sel')] <= now)
    <3>1. LockedMac(sel') \in Macs
      <4>1. sel'.locked \in Slots /\ sel'.src[sel'.locked].used
        BY <1>1, LockRange DEF Inv, TypeOK, TableOK, Table, RememberedSlot, Locked
      <4> QED
        BY <1>1, <4>1 DEF Cooling, LockedMac
    <3>2. h'.cool[LockedMac(sel')] \in Int /\ now \in Int
      BY <1>1, <3>1 DEF Inv, TypeOK, History
    <3> QED
      BY <3>2
  <2> QED
    BY <1>1, <2>2, <2>3 DEF HonoursCoolOff
<1>2. Init => Inv /\ Tally /\ Cooling(sel, h)
  BY InitInv, TallyInit, CoolingInit DEF Coolable
<1>3. Inv /\ Tally /\ Cooling(sel, h) /\ [Next]_vars => (Inv /\ Tally /\ Cooling(sel, h))'
  BY NextInv, TallyStep, CoolingStep
<1>4. Inv /\ Tally /\ Cooling(sel, h) /\ [Next]_vars => [A]_vars
  <2> HIDE DEF A
  <2> SUFFICES ASSUME Inv, Tally, Cooling(sel, h), [Next]_vars
               PROVE  [A]_vars
    OBVIOUS
  <2>1. (HonoursCoolOff /\ now' = now) \/ ~h'.acquired \/ UNCHANGED vars
    BY CoolingStep
  <2>2. ~h'.acquired => A
    BY DEF A
  <2> QED
    BY <1>1, <2>1, <2>2, NextInv, CoolingStep
<1> QED
  BY <1>2, <1>3, <1>4, PTL DEF Spec, CoolOffHonoured
=============================================================================
