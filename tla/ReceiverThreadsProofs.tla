----------------------- MODULE ReceiverThreadsProofs -----------------------
(***************************************************************************)
(* What the decoder's two threads may rely on, for any number of           *)
(* transmitters, any timing, calls of any length and idleTick() on either  *)
(* thread: the types and the two requests always; and, as long as          *)
(* onPacket() and idleTick() have not overlapped, that sources are not     *)
(* mixed, that no lock event is lost and that a lock is left only for a    *)
(* cause (LockLeftForCause).                                               *)
(***************************************************************************)
EXTENDS ReceiverThreads, WellFoundedInduction, TLAPS

Wifi == th["wifi"]
Loop == th["loop"]

Call == [pc : Places, lag : 0 .. Lags, m : Sources, l : Locks,
         b : BOOLEAN, take : BOOLEAN, last : BOOLEAN]

(***************************************************************************)
(* Constants and helpers.                                                  *)
(***************************************************************************)
(* The bounds of ages are in order.                                        *)
LEMMA Bounds ==
  /\ Lags \in Nat /\ \A t \in Threads : MaxLag[t] \in 0 .. Lags
  /\ LOCK_TIMEOUT \in Nat /\ SEL_BLACKLIST_MS \in Nat
  /\ Never = LOCK_TIMEOUT + Lags + 1 /\ Wrapped = LOCK_TIMEOUT + Lags + 2
  /\ Count \in Nat \ {0} /\ 0 \in Sources /\ -1 \in Locks
<1>1. MaxLag["wifi"] \in Nat /\ MaxLag["loop"] \in Nat
  BY ThreadsAssumption DEF Threads
<1>2. Lags \in Nat /\ \A t \in Threads : MaxLag[t] \in 0 .. Lags
  BY <1>1 DEF Lags, Threads
<1> QED
  BY <1>2, ThreadsAssumption DEF Never, Wrapped, Sources, Locks

(* A release keeps the slot recoverable; released twice, it is a lock.     *)
LEMMA ReleasedType ==
  ASSUME NEW l \in Locks
  PROVE  EncodeReleased(l) \in Locks /\ (l >= 0 => EncodeReleased(l) < 0)
  BY Bounds DEF EncodeReleased, Locks

(* A lock held is a slot.                                                  *)
LEMMA LockIsSource ==
  ASSUME NEW l \in Locks, l >= 0
  PROVE  l \in Sources
  BY Bounds DEF Locks, Sources

(* A set of slots has a first one.                                         *)
LEMMA FirstSlot ==
  ASSUME NEW T, T \subseteq Sources, T # {}
  PROVE  \E k \in T : \A j \in T : k <= j
<1>1. T \subseteq Nat
  BY Bounds DEF Sources
<1>2. PICK k \in T : \A j \in T : ~(<<j, k>> \in OpToRel(<, Nat))
  BY <1>1, NatLessThanWellFounded, WFMin
<1>3. \A j \in T : k <= j
  <2> TAKE j \in T
  <2>1. j \in Nat /\ k \in Nat
    BY <1>1
  <2>2. ~(j < k)
    BY <1>2, <2>1 DEF OpToRel
  <2> QED
    BY <2>1, <2>2
<1> QED
  BY <1>3

(* pickReLockTarget() returns a slot of the table or none.                 *)
LEMMA TargetType ==
  ASSUME NEW t \in Threads
  PROVE  Target(t) \in Sources \cup {-1} /\ (Target(t) >= 0 => Target(t) \in Sources)
<1>1. CASE Live(t) = {}
  BY <1>1 DEF Target
<1>2. CASE Live(t) # {}
  <2>1. Live(t) \subseteq Sources
    BY DEF Live
  <2>2. \E k \in Live(t) : \A j \in Live(t) : k <= j
    BY <1>2, <2>1, FirstSlot
  <2>3. Target(t) \in Live(t)
    BY <1>2, <2>2 DEF Target
  <2> QED
    BY <2>1, <2>3
<1> QED
  BY <1>1, <1>2

(* A thread at rest is a call.                                             *)
LEMMA RestingType == Resting \in Call
  BY Bounds DEF Resting, Call, Places

(* The forms a step gives a thread keep it a call.                         *)
LEMMA CallType ==
  ASSUME TypeOK, NEW t \in Threads
  PROVE  /\ \A pc \in Places : Go(t, pc) => th' \in [Threads -> Call]
         /\ \A pc \in Places, b \in BOOLEAN : GoWith(t, pc, b) => th' \in [Threads -> Call]
         /\ \A pc \in Places : Start(t, pc) => th' \in [Threads -> Call]
         /\ Tick(t) => th' \in [Threads -> Call]
         /\ Return(t) => th' \in [Threads -> Call]
         /\ NotTaken => th' \in [Threads -> Call]
<1>1. th \in [Threads -> Call]
  BY DEF TypeOK, Call
<1>2. Resting \in Call
  BY RestingType
<1>3. th[t] \in Call /\ Wifi \in Call
  BY <1>1 DEF Threads, Wifi
<1>4. \A pc \in Places, b \in BOOLEAN :
        /\ [th[t] EXCEPT !.pc = pc] \in Call
        /\ [th[t] EXCEPT !.pc = pc, !.b = b] \in Call
        /\ [Resting EXCEPT !.pc = pc] \in Call
  BY <1>2, <1>3 DEF Call
<1>5. /\ [Resting EXCEPT !.pc = "stale", !.last = TRUE, !.lag = th[t].lag] \in Call
      /\ [Resting EXCEPT !.pc = "look", !.lag = Wifi.lag] \in Call
  BY <1>2, <1>3 DEF Call, Places
<1> HIDE DEF Call
<1>6. ASSUME NEW pc \in Places, Go(t, pc) PROVE th' \in [Threads -> Call]
  BY <1>1, <1>4, <1>6 DEF Go
<1>7. ASSUME NEW pc \in Places, NEW b \in BOOLEAN, GoWith(t, pc, b)
      PROVE  th' \in [Threads -> Call]
  <2>1. th' = [th EXCEPT ![t] = [th[t] EXCEPT !.pc = pc, !.b = b]]
    BY <1>1, <1>3, <1>7 DEF GoWith, Call
  <2> QED
    BY <1>1, <1>4, <2>1
<1>8. ASSUME NEW pc \in Places, Start(t, pc) PROVE th' \in [Threads -> Call]
  BY <1>1, <1>4, <1>8 DEF Start
<1>9. Tick(t) => th' \in [Threads -> Call]
  BY <1>1, <1>5 DEF Tick
<1>10. Return(t) => th' \in [Threads -> Call]
  BY <1>1, <1>2 DEF Return
<1>11. NotTaken => th' \in [Threads -> Call]
  BY <1>1, <1>5 DEF NotTaken, Wifi
<1> QED
  BY <1>6, <1>7, <1>8, <1>9, <1>10, <1>11

(***************************************************************************)
(* Type correctness.                                                       *)
(***************************************************************************)
(* A step of the selector's housekeeping keeps the types.                  *)
LEMMA OfSelectorType ==
  ASSUME TypeOK, NEW t \in Threads, OfSelector(t)
  PROVE  TypeOK'
<1>1. CASE Stale(t)
  <2>1. th' \in [Threads -> Call]
    <3>1. /\ th \in [Threads -> Call] /\ th[t] \in Call
          /\ lock \in Locks /\ -1 \in Locks /\ {"stale", "drop", "look", "decide"} \subseteq Places
      BY Bounds DEF TypeOK, Call, Places
    <3>2. \A pc \in Places, l \in Locks : [th[t] EXCEPT !.pc = pc, !.l = l] \in Call
      BY <3>1 DEF Call
    <3>3. \E pc \in Places, l \in Locks : th' = [th EXCEPT ![t] = [th[t] EXCEPT !.pc = pc, !.l = l]]
      BY <1>1, <3>1 DEF Stale, Call
    <3> QED
      BY <3>1, <3>2, <3>3
  <2> QED
    BY <1>1, <2>1 DEF Stale, TypeOK, Call, selector, shared
<1>2. CASE Drop(t)
  <2>1. th' \in [Threads -> Call]
    <3>1. /\ th \in [Threads -> Call] /\ th[t] \in Call
          /\ -1 \in Locks /\ {"look", "decide"} \subseteq Places
      BY Bounds DEF TypeOK, Call, Places
    <3>2. \A pc \in Places, l \in Locks : [th[t] EXCEPT !.pc = pc, !.l = l] \in Call
      BY <3>1 DEF Call
    <3>3. \E pc \in Places, l \in Locks : th' = [th EXCEPT ![t] = [th[t] EXCEPT !.pc = pc, !.l = l]]
      BY <1>2, <3>1 DEF Drop, Call
    <3> QED
      BY <3>1, <3>2, <3>3
  <2>2. PICK l \in {th[t].l, lock} :
          IF Target(t) >= 0 /\ Target(t) # l THEN Acquire(Target(t))
          ELSE lock' = EncodeReleased(l) /\ UNCHANGED changed
    BY <1>2 DEF Drop
  <2>3. l \in Locks /\ changed \in BOOLEAN /\ Sources \subseteq Locks
    <3>1. Sources \subseteq Locks
      BY Bounds DEF Sources, Locks
    <3>2. th[t].l \in Locks /\ lock \in Locks /\ changed \in BOOLEAN
      BY DEF TypeOK
    <3> QED
      BY <3>1, <3>2
  <2>4. lock' \in Locks /\ changed' \in BOOLEAN
    BY <2>2, <2>3, TargetType, ReleasedType DEF Acquire
  <2> QED
    BY <1>2, <2>1, <2>4 DEF Drop, TypeOK, Call, selector, shared
<1>3. CASE Look(t)
  <2>1. changed \in BOOLEAN /\ "clear" \in Places
    BY DEF TypeOK, Places
  <2>2. th' \in [Threads -> Call]
    BY <1>3, <2>1, CallType DEF Look
  <2> QED
    BY <1>3, <2>2 DEF Look, TypeOK, Call, selector, shared
<1>4. CASE Clear(t)
  <2>1. "decode" \in Places /\ FALSE \in BOOLEAN
    BY DEF Places
  <2>2. th' \in [Threads -> Call]
    BY <1>4, <2>1, CallType DEF Clear
  <2>3. dec' \in [follows : Sources \cup {-1}, mode : Nat]
    <3>1. \E k \in Sources \cup {-1} : dec' = [dec EXCEPT !.follows = k]
      BY <1>4 DEF Clear, TypeOK
    <3> QED
      BY <3>1 DEF TypeOK
  <2>4. event' \in [lock : BOOLEAN, mode : BOOLEAN]
    <3>1. th[t].b \in BOOLEAN
      BY DEF TypeOK
    <3> QED
      BY <1>4, <3>1 DEF Clear, TypeOK
  <2> QED
    BY <1>4, <2>2, <2>3, <2>4 DEF Clear, TypeOK, Call, selector, shared
<1> QED
  BY <1>1, <1>2, <1>3, <1>4 DEF OfSelector

(* A step of onPacket() keeps the types.                                   *)
LEMMA OfPacketType ==
  ASSUME TypeOK, OfPacket
  PROVE  TypeOK'
<1> USE DEF selector, shared
<1>1. /\ "wifi" \in Threads /\ th \in [Threads -> Call] /\ Wifi \in Call /\ FALSE \in BOOLEAN
      /\ {"was", "relock", "on", "force", "refresh", "stale", "look"} \subseteq Places
      /\ req.on \in BOOLEAN /\ req.relock \in BOOLEAN /\ relay \in BOOLEAN /\ Wifi.b \in BOOLEAN
      /\ Wifi.m \in Sources /\ Wifi.lag \in 0 .. Lags
  BY DEF TypeOK, Call, Places, Threads, Wifi
<1>2. CASE ConsumeRelayTest
  <2>1. th' \in [Threads -> Call]
    BY <1>1, <1>2, CallType DEF ConsumeRelayTest
  <2> QED
    BY <1>2, <2>1 DEF ConsumeRelayTest, TypeOK, Call
<1>3. CASE SwitchRelayTest
  <2>1. th' \in [Threads -> Call]
    BY <1>1, <1>3, CallType DEF SwitchRelayTest
  <2> QED
    BY <1>1, <1>3, <2>1 DEF SwitchRelayTest, TypeOK, Call
<1>4. CASE RelockForRelayTest
  <2>1. th' \in [Threads -> Call]
    BY <1>1, <1>4, CallType DEF RelockForRelayTest
  <2>2. \E r \in BOOLEAN : req' = [req EXCEPT !.relock = r]
    BY <1>1, <1>4 DEF RelockForRelayTest, Wifi
  <2> QED
    BY <1>4, <2>1, <2>2 DEF RelockForRelayTest, TypeOK, Call
<1>5. CASE ConsumeRelock
  <2>1. th' \in [Threads -> Call]
    BY <1>1, <1>5, CallType DEF ConsumeRelock
  <2> QED
    BY <1>5, <2>1 DEF ConsumeRelock, TypeOK, Call
<1>6. CASE ForceRelock
  <2>1. th' \in [Threads -> Call]
    BY <1>1, <1>6, CallType DEF ForceRelock
  <2>2. lock' \in Locks
    BY <1>6, ReleasedType DEF ForceRelock, TypeOK
  <2>3. cool' \in [Sources -> -Lags .. SEL_BLACKLIST_MS]
    <3>1. SEL_BLACKLIST_MS - Wifi.lag \in -Lags .. SEL_BLACKLIST_MS
      BY <1>1, Bounds
    <3> QED
      BY <1>6, <3>1 DEF ForceRelock, TypeOK, Wifi
  <2>4. /\ dec' \in [follows : Sources \cup {-1}, mode : Nat]
        /\ h' \in [asked : BOOLEAN, splice : BOOLEAN, overlap : BOOLEAN]
    BY <1>6 DEF ForceRelock, TypeOK
  <2> QED
    BY <1>6, <2>1, <2>2, <2>3, <2>4 DEF ForceRelock, TypeOK, Call
<1>7. CASE Refresh
  <2>1. th' \in [Threads -> Call]
    BY <1>1, <1>7, CallType DEF Refresh
  <2>2. heard' \in [Sources -> 0 .. Never]
    <3>1. Wifi.lag \in 0 .. Never
      BY <1>1, Bounds
    <3> QED
      BY <1>1, <1>7, <3>1 DEF Refresh, TypeOK, Wifi
  <2> QED
    BY <1>7, <2>1, <2>2 DEF Refresh, TypeOK, Call
<1>8. CASE Decide
  <2>1. th' \in [Threads -> Call]
    <3>1. [Wifi EXCEPT !.pc = "look", !.take = TRUE] \in Call
      BY <1>1 DEF Call
    <3>2. CASE NotTaken
      BY <1>1, <3>2, CallType
    <3>3. CASE ~NotTaken
      <4>1. th' = [th EXCEPT !["wifi"] = [Wifi EXCEPT !.pc = "look", !.take = TRUE]]
        BY <1>1, <1>8, <3>3 DEF Decide, Wifi, Call
      <4> QED
        BY <1>1, <3>1, <4>1
    <3> QED
      BY <3>2, <3>3
  <2>2. lock' \in Locks /\ changed' \in BOOLEAN
    <3>1. Sources \subseteq Locks
      BY Bounds DEF Sources, Locks
    <3> QED
      BY <1>1, <1>8, <3>1, TargetType DEF Decide, Acquire, TypeOK, Wifi
  <2> QED
    BY <1>8, <2>1, <2>2 DEF Decide, TypeOK, Call
<1>9. CASE Decode
  <2>1. th' \in [Threads -> Call]
    BY <1>1, <1>9, CallType DEF Decode
  <2>2. /\ dec' \in [follows : Sources \cup {-1}, mode : Nat]
        /\ event' \in [lock : BOOLEAN, mode : BOOLEAN]
        /\ h' \in [asked : BOOLEAN, splice : BOOLEAN, overlap : BOOLEAN]
    <3>1. Modes[Wifi.m] \subseteq Nat
      BY <1>1, ThreadsAssumption
    <3>2. CASE UNCHANGED <<dec, event, h>>
      BY <3>2 DEF TypeOK
    <3>3. ASSUME NEW mode \in Modes[Wifi.m],
                 dec' = [follows |-> Wifi.m, mode |-> mode],
                 event' = [event EXCEPT !.mode = @ \/ (mode # dec.mode)],
                 h' = [h EXCEPT !.splice = ~(mode # dec.mode) /\ dec.follows \notin {-1, Wifi.m}]
          PROVE  /\ dec' \in [follows : Sources \cup {-1}, mode : Nat]
                 /\ event' \in [lock : BOOLEAN, mode : BOOLEAN]
                 /\ h' \in [asked : BOOLEAN, splice : BOOLEAN, overlap : BOOLEAN]
      <4>1. dec' \in [follows : Sources \cup {-1}, mode : Nat]
        BY <1>1, <3>1, <3>3
      <4>2. \E b \in BOOLEAN : event' = [event EXCEPT !.mode = b]
        BY <3>3 DEF TypeOK
      <4>3. \E b \in BOOLEAN : h' = [h EXCEPT !.splice = b]
        BY <3>3
      <4> QED
        BY <4>1, <4>2, <4>3 DEF TypeOK
    <3> QED
      BY <1>9, <3>2, <3>3 DEF Decode, Wifi
  <2> QED
    BY <1>9, <2>1, <2>2 DEF Decode, TypeOK, Call
<1> QED
  BY <1>2, <1>3, <1>4, <1>5, <1>6, <1>7, <1>8, <1>9 DEF OfPacket

(* A step of the application's loop keeps the types.                       *)
LEMMA OfLoopType ==
  ASSUME TypeOK, OfLoop
  PROVE  TypeOK'
<1> USE DEF selector, shared
<1>1. /\ "loop" \in Threads /\ th \in [Threads -> Call] /\ Loop.b \in BOOLEAN
      /\ {"locked", "modeEvt", "mac"} \subseteq Places
      /\ LockedMac \in Sources \cup {-1} /\ dec.mode \in Nat
  BY LockIsSource DEF TypeOK, Call, Places, Threads, Loop, LockedMac
<1>2. CASE RaiseRelayTest
  <2>1. th' \in [Threads -> Call]
    BY <1>1, <1>2, CallType DEF RaiseRelayTest
  <2> QED
    BY <1>2, <2>1 DEF RaiseRelayTest, TypeOK, Call
<1>3. CASE TakeLockEvent
  <2>1. th' \in [Threads -> Call]
    BY <1>1, <1>3, CallType DEF TakeLockEvent
  <2> QED
    BY <1>3, <2>1 DEF TakeLockEvent, TypeOK, Call
<1>4. CASE ReadLocked
  <2>1. (lock >= 0) \in BOOLEAN /\ GoWith("loop", "mac", lock >= 0)
    BY <1>4 DEF ReadLocked
  <2>2. th' \in [Threads -> Call]
    BY <1>1, <2>1, CallType
  <2> QED
    BY <1>4, <2>2 DEF ReadLocked, TypeOK, Call
<1>5. CASE LockCallback
  <2>1. th' \in [Threads -> Call]
    BY <1>1, <1>5, CallType DEF LockCallback
  <2>2. \E b \in BOOLEAN, k \in Sources \cup {-1} : view' = [view EXCEPT !.locked = b, !.mac = k]
    BY <1>1, <1>5 DEF LockCallback, Loop
  <2> QED
    BY <1>5, <2>1, <2>2 DEF LockCallback, TypeOK, Call
<1>6. CASE ModeCallback
  <2>1. th' \in [Threads -> Call]
    BY <1>1, <1>6, CallType DEF ModeCallback
  <2>2. \E k \in Nat : view' = [view EXCEPT !.mode = k]
    BY <1>1, <1>6 DEF ModeCallback, TypeOK
  <2>3. h' \in [asked : BOOLEAN, splice : BOOLEAN, overlap : BOOLEAN]
    BY <1>6 DEF ModeCallback, TypeOK
  <2> QED
    BY <1>6, <2>1, <2>2, <2>3 DEF ModeCallback, TypeOK, Call
<1> QED
  BY <1>2, <1>3, <1>4, <1>5, <1>6 DEF OfLoop

(* The passing of time keeps the types.                                    *)
LEMMA TimeType ==
  ASSUME TypeOK, Time
  PROVE  TypeOK'
<1>1. th' \in [Threads -> Call]
  <2> DEFINE Older(t) == [th[t] EXCEPT !.lag = IF UsesNow(t) THEN @ + 1 ELSE @]
  <2>1. ASSUME NEW t \in Threads PROVE Older(t) \in Call
    <3>1. th[t] \in Call /\ th[t].lag \in 0 .. Lags
      BY DEF TypeOK, Call
    <3>2. (IF UsesNow(t) THEN th[t].lag + 1 ELSE th[t].lag) \in 0 .. Lags
      BY <3>1, Bounds DEF Time
    <3> QED
      BY <3>1, <3>2 DEF Call
  <2>2. th' = [t \in Threads |-> Older(t)]
    BY DEF Time
  <2> HIDE DEF Older
  <2> QED
    BY <2>1, <2>2
<1>2. heard' \in [Sources -> 0 .. Never]
  BY Bounds DEF Time, TypeOK
<1>3. cool' \in [Sources -> -Lags .. SEL_BLACKLIST_MS]
  BY Bounds DEF Time, TypeOK
<1> QED
  BY <1>1, <1>2, <1>3 DEF Time, TypeOK, Call, selector, shared

(* Every step keeps the types.                                             *)
LEMMA StepType ==
  ASSUME TypeOK, [Next]_vars
  PROVE  TypeOK'
<1>1. "wifi" \in Threads /\ "loop" \in Threads /\ th \in [Threads -> Call]
  BY DEF TypeOK, Threads, Call
<1>2. ASSUME NEW m \in Sources, OnPacket(m) PROVE TypeOK'
  <2>1. [Resting EXCEPT !.pc = "relay", !.m = m] \in Call
    BY RestingType DEF Call, Places
  <2>2. th' \in [Threads -> Call]
    BY <1>1, <1>2, <2>1 DEF OnPacket
  <2>3. h' \in [asked : BOOLEAN, splice : BOOLEAN, overlap : BOOLEAN]
    BY <1>2 DEF OnPacket, TypeOK
  <2> QED
    BY <1>2, <2>2, <2>3 DEF OnPacket, TypeOK, Call, selector, shared
<1>3. CASE IdleTickOnWifi
  <2>1. th' \in [Threads -> Call]
    BY <1>1, <1>3, CallType DEF IdleTickOnWifi
  <2> QED
    BY <1>3, <2>1 DEF IdleTickOnWifi, TypeOK, Call, selector, shared
<1>4. CASE RequestRelock
  BY <1>4 DEF RequestRelock, TypeOK, selector, shared
<1>5. ASSUME NEW on \in BOOLEAN, SetRelayTestOnly(on) PROVE TypeOK'
  <2>1. th' \in [Threads -> Call]
    <3>1. "flag" \in Places
      BY DEF Places
    <3> QED
      BY <1>1, <1>5, <3>1, CallType DEF SetRelayTestOnly
  <2> QED
    BY <1>5, <2>1 DEF SetRelayTestOnly, TypeOK, Call, selector, shared
<1>6. CASE LoopTick
  <2>1. th' \in [Threads -> Call]
    <3>1. "lockEvt" \in Places
      BY DEF Places
    <3> QED
      BY <1>1, <1>6, <3>1, CallType DEF LoopTick
  <2> QED
    BY <1>6, <2>1 DEF LoopTick, TypeOK, Call, selector, shared
<1>7. CASE UNCHANGED vars
  BY <1>7 DEF vars, TypeOK, selector, shared
<1> QED
  BY <1>2, <1>3, <1>4, <1>5, <1>6, <1>7, OfSelectorType, OfPacketType, OfLoopType, TimeType
     DEF Next

(* The variables keep their types, whoever calls idleTick() and however    *)
(* the two threads interleave.                                             *)
THEOREM TypeCorrect == Spec => []TypeOK
<1>1. Init => TypeOK
  <2> SUFFICES ASSUME Init PROVE TypeOK
    OBVIOUS
  <2>1. th \in [Threads -> Call]
    BY RestingType DEF Init
  <2>2. Never \in 0 .. Never /\ -Lags \in -Lags .. SEL_BLACKLIST_MS
    BY Bounds
  <2>3. heard \in [Sources -> 0 .. Never] /\ cool \in [Sources -> -Lags .. SEL_BLACKLIST_MS]
    BY <2>2 DEF Init
  <2>4. idler \in Threads /\ lock \in Locks
    BY Bounds, ThreadsAssumption DEF Init
  <2> QED
    BY <2>1, <2>3, <2>4 DEF Init, TypeOK, Call
<1>2. TypeOK /\ [Next]_vars => TypeOK'
  BY StepType
<1> QED
  BY <1>1, <1>2, PTL DEF Spec

(***************************************************************************)
(* What the forms of a step do to the calls.                               *)
(***************************************************************************)
(* What a step that only moves on leaves of a call.                        *)
Kept(t) ==
  /\ th'[t].lag = th[t].lag /\ th'[t].m = th[t].m /\ th'[t].l = th[t].l
  /\ th'[t].take = th[t].take /\ th'[t].last = th[t].last

(* Going on changes the place, and perhaps what was read.                  *)
LEMMA GoMoves ==
  ASSUME TypeOK, NEW t \in Threads, NEW pc
  PROVE  /\ Go(t, pc) => /\ th'[t].pc = pc /\ th'[t].b = th[t].b /\ Kept(t)
                         /\ \A u \in Threads \ {t} : th'[u] = th[u]
         /\ \A b \in BOOLEAN : GoWith(t, pc, b) =>
                                       /\ th'[t].pc = pc /\ th'[t].b = b /\ Kept(t)
                                       /\ \A u \in Threads \ {t} : th'[u] = th[u]
         /\ Start(t, pc) => /\ th'[t].pc = pc
                            /\ \A u \in Threads \ {t} : th'[u] = th[u]
<1>1. th \in [Threads -> Call] /\ th[t] \in Call
  BY DEF TypeOK, Call
<1>2. Go(t, pc) => th' = [th EXCEPT ![t] = [th[t] EXCEPT !.pc = pc]]
  BY <1>1 DEF Go
<1>3. \A b \in BOOLEAN :
        GoWith(t, pc, b) => th' = [th EXCEPT ![t] = [th[t] EXCEPT !.pc = pc, !.b = b]]
  BY <1>1 DEF GoWith, Call
<1>4. Start(t, pc) => th' = [th EXCEPT ![t] = [Resting EXCEPT !.pc = pc]]
  BY DEF Start
<1>5. ASSUME Go(t, pc)
      PROVE  /\ th'[t].pc = pc /\ th'[t].b = th[t].b /\ Kept(t)
             /\ \A u \in Threads \ {t} : th'[u] = th[u]
  BY <1>1, <1>2, <1>5 DEF Call, Kept
<1>6. ASSUME NEW b \in BOOLEAN, GoWith(t, pc, b)
      PROVE  /\ th'[t].pc = pc /\ th'[t].b = b /\ Kept(t)
             /\ \A u \in Threads \ {t} : th'[u] = th[u]
  <2> DEFINE c == [th[t] EXCEPT !.pc = pc, !.b = b]
  <2>1. /\ c.pc = pc /\ c.lag = th[t].lag /\ c.m = th[t].m /\ c.l = th[t].l
        /\ c.take = th[t].take /\ c.last = th[t].last
    BY <1>1 DEF Call
  <2>2. c.b = b
    BY <1>1 DEF Call
  <2>3. th' = [th EXCEPT ![t] = c]
    BY <1>3, <1>6
  <2> HIDE DEF c
  <2>4. th'[t] = c /\ \A u \in Threads \ {t} : th'[u] = th[u]
    BY <1>1, <2>3
  <2> QED
    BY <2>1, <2>2, <2>4 DEF Kept
<1>7. ASSUME Start(t, pc)
      PROVE  th'[t].pc = pc /\ \A u \in Threads \ {t} : th'[u] = th[u]
  BY <1>1, <1>4, <1>7 DEF Resting
<1> QED
  BY <1>5, <1>6, <1>7

(* The other forms begin or end a part of a call.                          *)
LEMMA TurnMoves ==
  ASSUME TypeOK, NEW t \in Threads
  PROVE  /\ Tick(t) => /\ th'[t].pc = "stale" /\ th'[t].lag = th[t].lag
                       /\ ~th'[t].take /\ th'[t].last
                       /\ \A u \in Threads \ {t} : th'[u] = th[u]
         /\ Return(t) => /\ th'[t].pc = "idle" /\ th'[t].lag = 0 /\ ~th'[t].take
                         /\ \A u \in Threads \ {t} : th'[u] = th[u]
         /\ NotTaken => /\ Wifi'.pc = "look" /\ Wifi'.lag = Wifi.lag /\ ~Wifi'.take
                        /\ ~Wifi'.last /\ Loop' = Loop
<1>1. th \in [Threads -> Call] /\ th[t] \in Call
  BY DEF TypeOK, Call
<1>2. Tick(t) => th' = [th EXCEPT ![t] = [Resting EXCEPT !.pc = "stale", !.last = TRUE,
                                                        !.lag = th[t].lag]]
  BY DEF Tick
<1>3. Return(t) => th' = [th EXCEPT ![t] = Resting]
  BY DEF Return
<1>4. NotTaken => th' = [th EXCEPT !["wifi"] = [Resting EXCEPT !.pc = "look", !.lag = Wifi.lag]]
  BY DEF NotTaken, Wifi
<1>5. Tick(t) => /\ th'[t].pc = "stale" /\ th'[t].lag = th[t].lag
                 /\ ~th'[t].take /\ th'[t].last
                 /\ \A u \in Threads \ {t} : th'[u] = th[u]
  BY <1>1, <1>2 DEF Resting
<1>6. Return(t) => /\ th'[t].pc = "idle" /\ th'[t].lag = 0 /\ ~th'[t].take
                   /\ \A u \in Threads \ {t} : th'[u] = th[u]
  BY <1>1, <1>3 DEF Resting
<1>7. NotTaken => /\ Wifi'.pc = "look" /\ Wifi'.lag = Wifi.lag /\ ~Wifi'.take
                  /\ ~Wifi'.last /\ Loop' = Loop
  BY <1>1, <1>4 DEF Threads, Resting, Wifi, Loop
<1> QED
  BY <1>5, <1>6, <1>7

(* The clock moves no thread on, and a call's age grows with its lag.      *)
LEMMA TimeMoves ==
  ASSUME TypeOK, Time, NEW t \in Threads
  PROVE  /\ th'[t].pc = th[t].pc /\ th'[t].b = th[t].b /\ th'[t].m = th[t].m
         /\ th'[t].l = th[t].l /\ th'[t].take = th[t].take /\ th'[t].last = th[t].last
         /\ th'[t].lag \in {th[t].lag, th[t].lag + 1} /\ th'[t].lag <= Lags
<1>1. th[t] \in Call /\ th[t].lag \in 0 .. Lags
  BY DEF TypeOK, Call
<1>2. th'[t] = [th[t] EXCEPT !.lag = IF UsesNow(t) THEN th[t].lag + 1 ELSE th[t].lag]
  BY DEF Time
<1>3. (IF UsesNow(t) THEN th[t].lag + 1 ELSE th[t].lag) <= Lags
  BY <1>1, Bounds DEF Time
<1> QED
  BY <1>1, <1>2, <1>3 DEF Call

(* The selector's steps change neither the requests nor the other thread.  *)
LEMMA OfSelectorMoves ==
  ASSUME TypeOK, NEW t \in Threads, OfSelector(t)
  PROVE  /\ th[t].pc \in {"stale", "drop", "look", "clear"}
         /\ th'[t].pc \in {"idle", "drop", "look", "decide", "clear", "decode"}
         /\ \A u \in Threads \ {t} : th'[u] = th[u]
         /\ UNCHANGED <<idler, req, relay, view, h>>
<1>1. th \in [Threads -> Call] /\ th[t] \in Call
  BY DEF TypeOK, Call
<1>2. CASE Stale(t)
  BY <1>1, <1>2 DEF Stale, At, Call, selector, shared
<1>3. CASE Drop(t)
  BY <1>1, <1>3 DEF Drop, At, Call, shared
<1>4. CASE Look(t)
  <2>1. changed \in BOOLEAN /\ GoWith(t, "clear", changed)
    BY <1>4 DEF Look, TypeOK
  <2>2. th'[t].pc = "clear" /\ \A u \in Threads \ {t} : th'[u] = th[u]
    BY <2>1, GoMoves
  <2> QED
    BY <1>4, <2>2 DEF Look, At, selector, shared
<1>5. CASE Clear(t)
  <2>1. FALSE \in BOOLEAN
    OBVIOUS
  <2>2. /\ th'[t].pc \in {"idle", "decode"}
        /\ \A u \in Threads \ {t} : th'[u] = th[u]
    BY <1>5, <2>1, GoMoves, TurnMoves DEF Clear
  <2> QED
    BY <1>5, <2>2 DEF Clear, At
<1> QED
  BY <1>2, <1>3, <1>4, <1>5 DEF OfSelector

(***************************************************************************)
(* The requests.                                                           *)
(***************************************************************************)
(* A step that touches neither the requests nor the places where they are  *)
(* being served.                                                           *)
Aside ==
  /\ UNCHANGED <<req, relay>> /\ h'.asked = h.asked
  /\ th'["loop"].pc = "flag" <=> Loop.pc = "flag"
  /\ th'["wifi"].pc = "was" <=> Wifi.pc = "was"
  /\ th'["wifi"].pc = "force" <=> Wifi.pc = "force"

Requested == RelayTestFollows /\ RelockNotLost

(* Such a step keeps what is said of them.                                 *)
LEMMA AsideKeeps ==
  ASSUME Requested, Aside
  PROVE  Requested'
  BY DEF Requested, Aside, RelayTestFollows, RelockNotLost, At, Wifi, Loop

(* Every step keeps it.                                                    *)
LEMMA StepRequested ==
  ASSUME TypeOK, Requested, [Next]_vars
  PROVE  Requested'
<1> USE DEF selector, shared, At, Wifi, Loop
<1>0. "wifi" \in Threads /\ "loop" \in Threads /\ "wifi" # "loop"
  BY DEF Threads
<1>1. /\ "wifi" \in Threads /\ "loop" \in Threads /\ "wifi" # "loop"
      /\ req \in [relock : BOOLEAN, relayTest : BOOLEAN, on : BOOLEAN]
      /\ h \in [asked : BOOLEAN, splice : BOOLEAN, overlap : BOOLEAN]
  BY DEF TypeOK, Threads
<1>2. ASSUME NEW t \in Threads, OfSelector(t) PROVE Requested'
  <2>1. t = "wifi" \/ t = "loop"
    BY DEF Threads
  <2>2. Aside
    BY <1>1, <1>2, <2>1, OfSelectorMoves DEF Aside
  <2> QED
    BY <2>2, AsideKeeps
<1>3. ASSUME NEW m \in Sources, OnPacket(m) PROVE Requested'
  <2>1. Aside
    <3>1. th \in [Threads -> Call]
      BY DEF TypeOK, Call
    <3> QED
      BY <1>1, <1>3, <3>1 DEF OnPacket, Resting, Aside
  <2> QED
    BY <2>1, AsideKeeps
<1>4. CASE IdleTickOnWifi
  <2>1. Aside
    BY <1>1, <1>4, TurnMoves DEF IdleTickOnWifi, Aside
  <2> QED
    BY <2>1, AsideKeeps
<1>5. CASE ConsumeRelayTest
  <2>1. /\ Loop' = Loop /\ Wifi.pc = "relay"
        /\ Wifi'.pc = IF req.relayTest THEN "was" ELSE "relock"
    BY <1>1, <1>5, GoMoves DEF ConsumeRelayTest
  <2> QED
    BY <1>1, <1>5, <2>1 DEF ConsumeRelayTest, Requested, RelayTestFollows, RelockNotLost
<1>6. CASE SwitchRelayTest
  <2>1. Loop' = Loop /\ Wifi.pc = "was" /\ Wifi'.pc = "on"
    <3>1. relay \in BOOLEAN /\ Wifi.pc = "was"
      BY <1>6 DEF SwitchRelayTest, TypeOK
    <3>2. PICK b \in BOOLEAN : GoWith("wifi", "on", b)
      BY <1>6, <3>1, Zenon DEF SwitchRelayTest
    <3>3. th'["wifi"].pc = "on" /\ \A u \in Threads \ {"wifi"} : th'[u] = th[u]
      BY <1>0, <3>2, GoMoves
    <3> QED
      BY <1>0, <3>1, <3>3
  <2> QED
    BY <1>1, <1>6, <2>1 DEF SwitchRelayTest, Requested, RelayTestFollows, RelockNotLost
<1>7. CASE RelockForRelayTest
  <2>1. Loop' = Loop /\ Wifi.pc = "on" /\ Wifi'.pc = "relock"
    BY <1>1, <1>7, GoMoves DEF RelockForRelayTest
  <2>2. /\ req'.relayTest = req.relayTest /\ req'.on = req.on
        /\ req'.relock = (req.relock \/ (req.on /\ ~Wifi.b))
    BY <1>1, <1>7 DEF RelockForRelayTest
  <2> QED
    BY <1>7, <2>1, <2>2 DEF RelockForRelayTest, Requested, RelayTestFollows, RelockNotLost
<1>8. CASE ConsumeRelock
  <2>1. /\ Loop' = Loop /\ Wifi.pc = "relock"
        /\ Wifi'.pc = IF req.relock THEN "force" ELSE "refresh"
    BY <1>1, <1>8, GoMoves DEF ConsumeRelock
  <2> QED
    BY <1>1, <1>8, <2>1 DEF ConsumeRelock, Requested, RelayTestFollows, RelockNotLost
<1>9. CASE ForceRelock
  <2>1. Loop' = Loop /\ Wifi.pc = "force" /\ Wifi'.pc = "refresh" /\ ~h'.asked
    BY <1>1, <1>9, GoMoves DEF ForceRelock
  <2> QED
    BY <1>9, <2>1 DEF ForceRelock, Requested, RelayTestFollows, RelockNotLost
<1>10. CASE Refresh
  <2>1. Aside
    BY <1>1, <1>10, GoMoves, TurnMoves DEF Refresh, Aside
  <2> QED
    BY <2>1, AsideKeeps
<1>11. CASE Decide
  <2>1. Loop' = Loop /\ Wifi.pc = "decide" /\ Wifi'.pc = "look"
    <3>1. th \in [Threads -> Call]
      BY DEF TypeOK, Call
    <3> QED
      BY <1>1, <1>11, <3>1, TurnMoves DEF Decide, Call
  <2>2. Aside
    BY <1>11, <2>1 DEF Decide, Aside
  <2> QED
    BY <2>2, AsideKeeps
<1>12. CASE Decode
  <2>1. Loop' = Loop /\ Wifi.pc = "decode" /\ Wifi'.pc = "stale"
    BY <1>1, <1>12, TurnMoves DEF Decode
  <2>2. Aside
    BY <1>1, <1>12, <2>1 DEF Decode, Aside
  <2> QED
    BY <2>2, AsideKeeps
<1>13. CASE RequestRelock
  BY <1>1, <1>13 DEF RequestRelock, Requested, RelayTestFollows, RelockNotLost
<1>14. ASSUME NEW on \in BOOLEAN, SetRelayTestOnly(on) PROVE Requested'
  <2>1. Wifi' = Wifi /\ Loop'.pc = "flag"
    BY <1>1, <1>14, GoMoves DEF SetRelayTestOnly
  <2> QED
    BY <1>1, <1>14, <2>1 DEF SetRelayTestOnly, Requested, RelayTestFollows, RelockNotLost
<1>15. CASE LoopTick
  <2>1. Aside
    BY <1>1, <1>15, GoMoves DEF LoopTick, Aside
  <2> QED
    BY <2>1, AsideKeeps
<1>16. CASE RaiseRelayTest
  <2>1. Wifi' = Wifi /\ Loop'.pc = "idle"
    BY <1>1, <1>16, TurnMoves DEF RaiseRelayTest
  <2> QED
    BY <1>1, <1>16, <2>1 DEF RaiseRelayTest, Requested, RelayTestFollows, RelockNotLost
<1>17. CASE TakeLockEvent \/ ReadLocked \/ LockCallback
  <2>1. /\ Wifi' = Wifi /\ Loop.pc \in {"lockEvt", "locked", "mac"}
        /\ Loop'.pc \in {"locked", "modeEvt", "mac"}
    <3>1. (lock >= 0) \in BOOLEAN /\ FALSE \in BOOLEAN
      OBVIOUS
    <3>2. CASE TakeLockEvent
      BY <1>1, <3>2, GoMoves DEF TakeLockEvent
    <3>3. CASE ReadLocked
      <4>1. Loop.pc = "locked"
        BY <3>3 DEF ReadLocked
      <4>2. PICK b \in BOOLEAN : GoWith("loop", "mac", b)
        BY <3>1, <3>3, Zenon DEF ReadLocked
      <4> QED
        BY <1>0, <4>1, <4>2, GoMoves
    <3>4. CASE LockCallback
      BY <1>1, <3>1, <3>4, GoMoves DEF LockCallback
    <3> QED
      BY <1>17, <3>2, <3>3, <3>4
  <2>2. Aside
    BY <1>17, <2>1 DEF TakeLockEvent, ReadLocked, LockCallback, Aside
  <2> QED
    BY <2>2, AsideKeeps
<1>18. CASE ModeCallback
  <2>1. Aside
    BY <1>1, <1>18, TurnMoves DEF ModeCallback, Aside
  <2> QED
    BY <2>1, AsideKeeps
<1>19. CASE Time
  <2>1. Aside
    BY <1>1, <1>19, TimeMoves DEF Time, Aside
  <2> QED
    BY <2>1, AsideKeeps
<1>20. CASE UNCHANGED vars
  <2>1. Aside
    BY <1>20 DEF vars, Aside
  <2> QED
    BY <2>1, AsideKeeps
<1> QED
  BY <1>2, <1>3, <1>4, <1>5, <1>6, <1>7, <1>8, <1>9, <1>10, <1>11, <1>12, <1>13, <1>14, <1>15,
     <1>16, <1>17, <1>18, <1>19, <1>20 DEF Next, OfPacket, OfLoop

(* Whatever the interleaving of the controls with onPacket(), the relay    *)
(* test in force is the last one asked for, and forceRelock() is served.   *)
THEOREM RequestsKept == Spec => [](RelayTestFollows /\ RelockNotLost)
<1>1. Init => Requested
  <2> SUFFICES ASSUME Init PROVE Requested
    OBVIOUS
  <2>1. ~relay /\ relay = req.on /\ ~h.asked
    BY DEF Init
  <2> QED
    BY <2>1 DEF Requested, RelayTestFollows, RelockNotLost
<1>2. TypeOK /\ Requested /\ [Next]_vars => Requested'
  BY StepRequested
<1>3. Requested => RelayTestFollows /\ RelockNotLost
  BY DEF Requested
<1> QED
  BY <1>1, <1>2, <1>3, TypeCorrect, PTL DEF Spec

(* Of the two, forceRelock(): a request is held until the Wi-Fi task is    *)
(* about to serve it, and no switch of the relay test overwrites it.       *)
THEOREM RelockServed == Spec => []RelockNotLost
  BY RequestsKept, PTL

(***************************************************************************)
(* As long as onPacket() and idleTick() have not overlapped: what holds    *)
(* between any two accesses.  Following is inductive as the conjunction of *)
(* its parts.                                                              *)
(***************************************************************************)
(* While the loop is in idleTick() the Wi-Fi task is at rest.              *)
LoopAlone == InTick("loop") => idler = "loop" /\ Loop.last /\ Wifi.pc = "idle"

(* No source was heard after the now of a call of the Wi-Fi task, and a    *)
(* lock about to be dropped is still the one that was found stale, if only *)
(* because it was heard after the now of the loop's tick().                *)
StaleKnown ==
  /\ \A k \in Sources : heard[k] >= Wifi.lag
  /\ \A t \in Threads : At(t, "drop") =>
       lock >= 0 /\ th[t].l = lock /\ (heard[lock] > LOCK_TIMEOUT \/ heard[lock] < th[t].lag)

(* _lockChanged is consumed in the call that sets it.                      *)
ChangePending ==
  /\ changed => Wifi.pc \in {"decide", "look", "clear"} \/ Loop.pc \in {"look", "clear"}
  /\ \A t \in Threads : At(t, "clear") => th[t].b = changed

(* What admit() let through is still from the locked source.               *)
TakenLocked == Wifi.take => Wifi.pc \in {"look", "clear", "decode"} /\ lock = Wifi.m

(* The sequence followed is the locked source's, or will be restarted.     *)
Tracking == lock >= 0 /\ ~changed => dec.follows \in {-1, lock}

(* What the application was told is in force, or an event is on its way.   *)
Told ==
  /\ lock >= 0 /\ ~changed /\ ~event.lock
       => \/ view.locked /\ view.mac = lock
          \/ Loop.pc = "locked"
          \/ Loop.pc = "mac"
  /\ lock >= 0 /\ ~changed /\ Loop.pc = "mac" => Loop.b \/ event.lock

Following == LoopAlone /\ StaleKnown /\ ChangePending /\ TakenLocked /\ Tracking /\ Told /\ NoSplice

(* The types a step of Following reads.                                    *)
LEMMA Fields ==
  ASSUME TypeOK
  PROVE  /\ "wifi" \in Threads /\ "loop" \in Threads /\ "wifi" # "loop"
         /\ th \in [Threads -> Call] /\ Wifi \in Call /\ Loop \in Call
         /\ lock \in Locks /\ lock \in Int /\ changed \in BOOLEAN
         /\ heard \in [Sources -> 0 .. Never] /\ \A k \in Sources : heard[k] \in Nat
         /\ lock >= 0 => lock \in Sources
         /\ Wifi.lag \in Nat /\ Wifi.m \in Sources /\ Sources \subseteq Nat
         /\ {Wifi.b, Wifi.take, Wifi.last, Loop.b} \subseteq BOOLEAN
<1>1. /\ "wifi" \in Threads /\ "loop" \in Threads /\ "wifi" # "loop"
      /\ th \in [Threads -> Call] /\ lock \in Locks /\ changed \in BOOLEAN
      /\ heard \in [Sources -> 0 .. Never]
  BY DEF TypeOK, Threads, Call
<1>2. Wifi \in Call /\ Loop \in Call
  BY <1>1 DEF Wifi, Loop
<1>3. /\ Wifi.lag \in Nat /\ Wifi.m \in Sources
      /\ {Wifi.b, Wifi.take, Wifi.last, Loop.b} \subseteq BOOLEAN
  BY <1>2, Bounds DEF Call
<1>4. lock \in Int /\ (lock >= 0 => lock \in Sources) /\ Sources \subseteq Nat
  BY <1>1, Bounds, LockIsSource DEF Locks, Sources
<1>5. \A k \in Sources : heard[k] \in Nat
  BY <1>1, Bounds
<1> QED
  BY <1>1, <1>2, <1>3, <1>4, <1>5

(* The thread in the selector's part of a call is alone in it.             *)
LEMMA OneInSelector ==
  ASSUME TypeOK, Following, NEW t \in Threads, OfSelector(t)
  PROVE  /\ t = "loop" => Wifi.pc = "idle" /\ idler = "loop" /\ Loop.last /\ ~Wifi.take
         /\ t = "wifi" => ~InTick("loop")
         /\ \A u \in Threads \ {t} : ~At(u, "drop") /\ ~At(u, "clear") /\ th'[u] = th[u]
         /\ ~At(t, "look") /\ ~At(t, "clear") => ~changed /\ ~Wifi.take
         /\ At(t, "look") => (changed => \A u \in Threads \ {t} : ~InTick(u))
         /\ UNCHANGED <<idler, view, h>>
<1>1. /\ th[t].pc \in {"stale", "drop", "look", "clear"}
      /\ \A u \in Threads \ {t} : th'[u] = th[u]
      /\ UNCHANGED <<idler, view, h>>
  BY OfSelectorMoves
<1>2. CASE t = "loop"
  <2>1. InTick("loop") /\ \A u \in Threads \ {t} : u = "wifi"
    BY <1>1, <1>2 DEF InTick, Threads
  <2>2. Wifi.pc = "idle" /\ idler = "loop" /\ Loop.last /\ ~Wifi.take
    BY <2>1 DEF Following, LoopAlone, TakenLocked
  <2> QED
    BY <1>1, <1>2, <2>1, <2>2 DEF Following, ChangePending, InTick, At, Wifi, Loop
<1>3. CASE t = "wifi"
  <2>1. ~InTick("loop") /\ \A u \in Threads \ {t} : u = "loop"
    BY <1>1, <1>3 DEF Following, LoopAlone, Threads, Wifi
  <2> QED
    BY <1>1, <1>3, <2>1 DEF Following, ChangePending, TakenLocked, InTick, At, Wifi, Loop
<1> QED
  BY <1>2, <1>3 DEF Threads

(* What a step of the selector's part leaves as it was: the thread's own   *)
(* call goes on, or ends, and the loop is not delivering an event.         *)
LEMMA SelectorGoesOn ==
  ASSUME TypeOK, Following, NEW t \in Threads, OfSelector(t),
         \/ th'[t].pc = "idle" /\ th'[t].lag = 0 /\ ~th'[t].take
         \/ /\ th'[t].lag = th[t].lag /\ th'[t].take = th[t].take /\ th'[t].m = th[t].m
            /\ th'[t].last = th[t].last
  PROVE  /\ LoopAlone' /\ NoSplice' /\ view' = view
         /\ (\A k \in Sources : heard[k] >= Wifi.lag) /\ Wifi'.lag \in {0, Wifi.lag}
         /\ Wifi'.take => Wifi.take /\ Wifi'.m = Wifi.m
         /\ \/ Loop' = Loop
            \/ Loop.pc \notin {"locked", "mac"} /\ Loop'.pc \notin {"locked", "mac"}
<1>1. /\ th[t].pc \in {"stale", "drop", "look", "clear"}
      /\ th'[t].pc \in {"idle", "drop", "look", "decide", "clear", "decode"}
  BY OfSelectorMoves
<1>2. NoSplice' /\ view' = view
  BY OneInSelector DEF Following, NoSplice
<1>3. \A k \in Sources : heard[k] >= Wifi.lag
  BY DEF Following, StaleKnown
<1>4. CASE t = "loop"
  <2>1. Wifi' = Wifi /\ Wifi.pc = "idle" /\ idler' = "loop" /\ Loop.last
    BY <1>4, OneInSelector DEF Threads, Wifi
  <2>2. Loop' = th'[t] /\ Loop = th[t]
    BY <1>4 DEF Loop
  <2> QED
    BY <1>1, <1>2, <1>3, <2>1, <2>2 DEF LoopAlone, InTick, Loop
<1>5. CASE t = "wifi"
  <2>1. Loop' = Loop /\ ~InTick("loop") /\ Wifi' = th'[t] /\ Wifi = th[t]
    BY <1>5, OneInSelector DEF Threads, Loop, Wifi
  <2> QED
    BY <1>1, <1>2, <1>3, <2>1 DEF LoopAlone, InTick, Loop
<1> QED
  BY <1>4, <1>5 DEF Threads

(* The selector's part of a call, on either thread.                        *)
LEMMA FollowingSelector ==
  ASSUME TypeOK, Following, NEW t \in Threads, OfSelector(t)
  PROVE  Following'
<1>1. /\ \A u \in Threads \ {t} : ~At(u, "drop") /\ ~At(u, "clear") /\ th'[u] = th[u]
      /\ ~At(t, "look") /\ ~At(t, "clear") => ~changed /\ ~Wifi.take
      /\ t = "wifi" \/ t = "loop"
  BY OneInSelector DEF Threads
<1>2. th \in [Threads -> Call] /\ th[t] \in Call /\ th[t].lag \in Nat
  BY Fields DEF Threads, Wifi, Loop, Call
<1>3. CASE Stale(t)
  <2>1. /\ th[t].pc = "stale" /\ UNCHANGED <<lock, changed, heard, dec, event>>
        /\ th'[t].lag = th[t].lag /\ th'[t].take = th[t].take /\ th'[t].m = th[t].m
        /\ th'[t].last = th[t].last /\ th'[t].pc \in {"drop", "look", "decide"}
        /\ th'[t].pc = "drop" => lock >= 0 /\ Elapsed(t, lock) > LOCK_TIMEOUT /\ th'[t].l = lock
    BY <1>2, <1>3 DEF Stale, At, Call, selector, shared
  <2>2. lock >= 0 /\ Elapsed(t, lock) > LOCK_TIMEOUT
          => heard[lock] > LOCK_TIMEOUT \/ heard[lock] < th[t].lag
    BY <1>2, Fields, Bounds DEF Elapsed
  <2>3. ~changed /\ ~Wifi.take
    BY <1>1, <2>1 DEF At
  <2>4. /\ LoopAlone' /\ NoSplice' /\ view' = view
        /\ (\A k \in Sources : heard[k] >= Wifi.lag) /\ Wifi'.lag \in {0, Wifi.lag}
        /\ ~Wifi'.take
        /\ \/ Loop' = Loop
           \/ Loop.pc \notin {"locked", "mac"} /\ Loop'.pc \notin {"locked", "mac"}
    BY <2>1, <2>3, SelectorGoesOn
  <2>5. StaleKnown'
    BY <1>1, <2>1, <2>2, <2>4, Fields DEF StaleKnown, At
  <2>6. ChangePending'
    BY <1>1, <2>1, <2>3 DEF ChangePending, At
  <2>7. TakenLocked' /\ Tracking' /\ Told'
    BY <2>1, <2>4 DEF Following, TakenLocked, Tracking, Told
  <2> QED
    BY <2>4, <2>5, <2>6, <2>7 DEF Following
<1>4. CASE Drop(t)
  <2>1. /\ th[t].pc = "drop" /\ UNCHANGED <<heard, dec, event>>
        /\ th'[t].lag = th[t].lag /\ th'[t].take = th[t].take /\ th'[t].m = th[t].m
        /\ th'[t].last = th[t].last /\ th'[t].pc \in {"look", "decide"}
        /\ th[t].last => th'[t].pc = "look"
    BY <1>2, <1>4 DEF Drop, At, Call, shared
  <2>2. ~changed /\ ~Wifi.take /\ lock >= 0 /\ th[t].l = lock
    BY <1>1, <2>1 DEF At, Following, StaleKnown
  <2>3. changed' = TRUE \/ (lock' < 0 /\ changed' = changed)
    <3>1. EncodeReleased(lock) < 0
      BY <2>2, Fields, ReleasedType
    <3> QED
      BY <1>4, <2>2, <3>1 DEF Drop, Acquire
  <2>4. /\ LoopAlone' /\ NoSplice' /\ view' = view
        /\ (\A k \in Sources : heard[k] >= Wifi.lag) /\ Wifi'.lag \in {0, Wifi.lag}
        /\ ~Wifi'.take
    BY <2>1, <2>2, SelectorGoesOn
  <2>5. StaleKnown'
    BY <1>1, <2>1, <2>4, Fields DEF StaleKnown, At
  <2>6. ChangePending'
    <3>1. t = "loop" => th'[t].pc = "look"
      BY <2>1, OneInSelector DEF Loop
    <3> QED
      BY <1>1, <2>1, <3>1 DEF ChangePending, At, Wifi, Loop
  <2>7. ~(lock' >= 0 /\ ~changed')
    <3>1. lock' \in Int
      <4>1. TypeOK'
        BY OfSelectorType
      <4> QED
        BY <4>1, Bounds DEF TypeOK, Locks
    <3> QED
      BY <2>2, <2>3, <3>1
  <2>8. TakenLocked' /\ Tracking' /\ Told'
    BY <2>4, <2>7 DEF TakenLocked, Tracking, Told
  <2> QED
    BY <2>4, <2>5, <2>6, <2>8 DEF Following
<1>5. CASE Look(t)
  <2>1. PICK b \in BOOLEAN : GoWith(t, "clear", b) /\ b = changed
    <3>1. changed \in BOOLEAN
      BY Fields
    <3> QED
      BY <1>5, <3>1, Zenon DEF Look
  <2>2. th'[t].pc = "clear" /\ th'[t].b = changed /\ Kept(t)
    BY <2>1, GoMoves
  <2>3. UNCHANGED <<lock, changed, heard, dec, event>> /\ th[t].pc = "look"
    BY <1>5 DEF Look, At, selector, shared
  <2>4. /\ LoopAlone' /\ NoSplice' /\ view' = view
        /\ (\A k \in Sources : heard[k] >= Wifi.lag) /\ Wifi'.lag \in {0, Wifi.lag}
        /\ Wifi'.take => Wifi.take /\ Wifi'.m = Wifi.m
        /\ \/ Loop' = Loop
           \/ Loop.pc \notin {"locked", "mac"} /\ Loop'.pc \notin {"locked", "mac"}
    BY <2>2, SelectorGoesOn DEF Kept
  <2>5. StaleKnown'
    BY <1>1, <2>2, <2>3, <2>4, Fields DEF StaleKnown, At
  <2>6. ChangePending'
    BY <1>1, <2>2, <2>3 DEF ChangePending, At, Wifi, Loop
  <2>7. TakenLocked'
    <3>1. Wifi.take => lock = Wifi.m /\ t = "wifi"
      BY <1>1, OneInSelector DEF Following, TakenLocked
    <3> QED
      BY <2>2, <2>3, <2>4, <3>1 DEF TakenLocked, Wifi
  <2>8. Tracking' /\ Told'
    BY <2>3, <2>4 DEF Following, Tracking, Told
  <2> QED
    BY <2>4, <2>5, <2>6, <2>7, <2>8 DEF Following
<1>6. CASE Clear(t)
  <2>1. /\ th[t].pc = "clear" /\ th[t].b = changed
        /\ changed' = FALSE /\ UNCHANGED <<lock, heard>>
        /\ event'.lock = (event.lock \/ changed)
        /\ dec'.follows = (IF changed THEN -1 ELSE dec.follows)
    <3>1. th[t].pc = "clear" /\ th[t].b = changed
      BY <1>6 DEF Clear, At, Following, ChangePending
    <3>2. /\ event \in [lock : BOOLEAN, mode : BOOLEAN]
          /\ dec \in [follows : Sources \cup {-1}, mode : Nat]
      BY DEF TypeOK
    <3>3. event'.lock = (event.lock \/ changed)
      BY <1>6, <3>1, <3>2 DEF Clear
    <3>4. dec'.follows = (IF changed THEN -1 ELSE dec.follows)
      <4>1. CASE changed
        BY <1>6, <3>1, <3>2, <4>1 DEF Clear
      <4>2. CASE ~changed
        BY <1>6, <3>1, <3>2, <4>2 DEF Clear
      <4> QED
        BY <4>1, <4>2
    <3> QED
      BY <1>6, <3>1, <3>3, <3>4 DEF Clear
  <2>2. \/ th'[t].pc = "idle" /\ th'[t].lag = 0 /\ ~th'[t].take
        \/ th'[t].pc = "decode" /\ Kept(t)
    <3>1. FALSE \in BOOLEAN
      OBVIOUS
    <3> QED
      BY <1>6, <3>1, GoMoves, TurnMoves DEF Clear
  <2>3. /\ LoopAlone' /\ NoSplice' /\ view' = view
        /\ (\A k \in Sources : heard[k] >= Wifi.lag) /\ Wifi'.lag \in {0, Wifi.lag}
        /\ Wifi'.take => Wifi.take /\ Wifi'.m = Wifi.m
        /\ \/ Loop' = Loop
           \/ Loop.pc \notin {"locked", "mac"} /\ Loop'.pc \notin {"locked", "mac"}
    BY <2>2, SelectorGoesOn DEF Kept
  <2>4. StaleKnown'
    BY <1>1, <2>1, <2>2, <2>3, Fields DEF StaleKnown, At
  <2>5. ChangePending'
    BY <1>1, <2>1, <2>2 DEF ChangePending, At
  <2>6. TakenLocked'
    <3>1. Wifi.take => lock = Wifi.m /\ t = "wifi"
      BY <1>1, OneInSelector DEF Following, TakenLocked
    <3> QED
      BY <2>1, <2>2, <2>3, <3>1 DEF TakenLocked, Wifi
  <2>7. Tracking' /\ Told'
    BY <2>1, <2>3 DEF Following, Tracking, Told
  <2> QED
    BY <2>3, <2>4, <2>5, <2>6, <2>7 DEF Following
<1> QED
  BY <1>3, <1>4, <1>5, <1>6 DEF OfSelector

(* Nothing the invariant reads moves, but for the Wi-Fi task's place, which *)
(* stays before the lock is looked at.                                     *)
Before ==
  /\ UNCHANGED <<idler, lock, changed, heard, dec, event, view>> /\ h'.splice = h.splice
  /\ Loop' = Loop /\ ~InTick("loop")
  /\ Wifi'.lag \in {0, Wifi.lag} /\ ~Wifi'.take /\ ~changed
  /\ Wifi'.pc \notin {"drop", "clear"}

(* Such a step keeps it.                                                   *)
LEMMA BeforeKeeps ==
  ASSUME TypeOK, Following, Before
  PROVE  Following'
<1>1. LoopAlone' /\ NoSplice'
  BY DEF Before, Following, LoopAlone, NoSplice, InTick, Loop
<1>2. StaleKnown'
  BY Fields DEF Before, Following, StaleKnown, InTick, Threads, At, Wifi, Loop
<1>3. ChangePending' /\ TakenLocked'
  BY DEF Before, Following, ChangePending, TakenLocked, InTick, Threads, At, Wifi, Loop
<1>4. Tracking' /\ Told'
  BY DEF Before, Following, Tracking, Told
<1> QED
  BY <1>1, <1>2, <1>3, <1>4 DEF Following

(* What a step of onPacket() outside the selector's part keeps.            *)
LEMMA PacketKeeps ==
  ASSUME TypeOK, Following, ~InTick("loop"), Loop' = Loop, Wifi'.pc \notin {"drop", "clear"},
         \A k \in Sources : heard'[k] >= Wifi'.lag,
         changed' => Wifi'.pc \in {"decide", "look"}
  PROVE  LoopAlone' /\ StaleKnown' /\ ChangePending'
  BY DEF LoopAlone, StaleKnown, ChangePending, InTick, Threads, At, Wifi, Loop

(* During onPacket() the loop is not in idleTick().                        *)
LEMMA PacketAlone ==
  ASSUME Following, OfPacket
  PROVE  ~InTick("loop") /\ (changed => Wifi.pc \in {"decide", "look", "clear"})
<1>1. Wifi.pc # "idle"
  BY DEF OfPacket, ConsumeRelayTest, SwitchRelayTest, RelockForRelayTest, ConsumeRelock,
         ForceRelock, Refresh, Decide, Decode, At, Wifi
<1> QED
  BY <1>1 DEF Following, LoopAlone, ChangePending, InTick, Loop

(* The rest of onPacket().                                                 *)
LEMMA FollowingPacket ==
  ASSUME TypeOK, Following, OfPacket
  PROVE  Following'
<1> USE DEF selector, shared, At, Wifi, Loop
<1>0. /\ ~InTick("loop") /\ (changed => Wifi.pc \in {"decide", "look", "clear"})
      /\ \A k \in Sources : heard[k] >= Wifi.lag
  BY PacketAlone DEF Following, StaleKnown
<1>1. CASE ConsumeRelayTest
  <2>1. Before
    BY <1>0, <1>1, Fields, GoMoves
       DEF ConsumeRelayTest, Before, Kept, Following, TakenLocked
  <2> QED
    BY <2>1, BeforeKeeps
<1>2. CASE SwitchRelayTest
  <2>1. relay \in BOOLEAN /\ Wifi.pc = "was"
    BY <1>2 DEF SwitchRelayTest, TypeOK
  <2>2. PICK b \in BOOLEAN : GoWith("wifi", "on", b)
    BY <1>2, <2>1, Zenon DEF SwitchRelayTest
  <2>3. Wifi'.pc = "on" /\ Kept("wifi") /\ Loop' = Loop
    BY <2>2, Fields, GoMoves
  <2>4. Before
    BY <1>0, <1>2, <2>1, <2>3
       DEF SwitchRelayTest, Before, Kept, Following, TakenLocked
  <2> QED
    BY <2>4, BeforeKeeps
<1>3. CASE RelockForRelayTest
  <2>1. PICK b \in BOOLEAN : GoWith("wifi", "relock", b)
    BY <1>3 DEF RelockForRelayTest
  <2>2. Wifi'.pc = "relock" /\ Kept("wifi") /\ Loop' = Loop /\ Wifi.pc = "on"
    BY <1>3, <2>1, Fields, GoMoves DEF RelockForRelayTest
  <2>3. Before
    BY <1>0, <1>3, <2>2
       DEF RelockForRelayTest, Before, Kept, Following, TakenLocked
  <2> QED
    BY <2>3, BeforeKeeps
<1>4. CASE ConsumeRelock
  <2>1. Before
    BY <1>0, <1>4, Fields, GoMoves
       DEF ConsumeRelock, Before, Kept, Following, TakenLocked
  <2> QED
    BY <2>1, BeforeKeeps
<1>5. CASE ForceRelock
  <2>1. /\ Wifi.pc = "force" /\ Wifi'.pc = "refresh" /\ Kept("wifi") /\ Loop' = Loop
        /\ UNCHANGED <<idler, changed, heard, event, view>> /\ ~changed /\ ~Wifi.take
    BY <1>0, <1>5, Fields, GoMoves DEF ForceRelock, Following, TakenLocked
  <2>2. lock' < 0
    BY <1>5, Fields, ReleasedType DEF ForceRelock
  <2>3. dec'.mode = dec.mode /\ h'.splice = h.splice
    BY <1>5 DEF ForceRelock, TypeOK
  <2>4. lock' \in Int
    <3>1. TypeOK'
      BY OfPacketType
    <3> QED
      BY <3>1, Bounds DEF TypeOK, Locks
  <2>5. ~(lock' >= 0)
    BY <2>2, <2>4
  <2>6. Tracking' /\ Told'
    BY <2>1, <2>3, <2>5 DEF Following, Tracking, Told
  <2>7. LoopAlone' /\ StaleKnown' /\ ChangePending'
    BY <1>0, <2>1, PacketKeeps DEF Kept
  <2> QED
    BY <2>1, <2>3, <2>6, <2>7 DEF Following, NoSplice, Kept, TakenLocked
<1>6. CASE Refresh
  <2>1. Wifi.pc = "refresh" /\ ~changed /\ ~Wifi.take
    BY <1>0, <1>6 DEF Refresh, Following, TakenLocked
  <2>2. CASE NotTaken /\ UNCHANGED heard
    <3>1. Wifi'.pc = "look" /\ Wifi'.lag = Wifi.lag /\ ~Wifi'.take /\ Loop' = Loop
      BY <2>2, Fields, TurnMoves
    <3>2. Before
      BY <1>0, <1>6, <2>1, <2>2, <3>1 DEF Refresh, Before
    <3> QED
      BY <3>2, BeforeKeeps
  <2>3. CASE Go("wifi", "stale") /\ heard' = [heard EXCEPT ![Wifi.m] = Wifi.lag]
    <3>1. Wifi'.pc = "stale" /\ Kept("wifi") /\ Loop' = Loop
      BY <2>3, Fields, GoMoves
    <3>2. \A k \in Sources : heard'[k] >= Wifi'.lag
      BY <1>0, <2>3, <3>1, Fields DEF Kept
    <3>3. UNCHANGED <<idler, lock, changed, dec, event, view, h>>
      BY <1>6 DEF Refresh
    <3>4. LoopAlone' /\ StaleKnown' /\ ChangePending'
      BY <1>0, <2>1, <3>1, <3>2, <3>3, PacketKeeps
    <3> QED
      BY <2>1, <3>1, <3>3, <3>4 DEF Kept, Following, TakenLocked, Tracking, Told, NoSplice
  <2> QED
    BY <1>6, <2>2, <2>3 DEF Refresh
<1>7. CASE Decide
  <2>1. Wifi.pc = "decide" /\ UNCHANGED <<idler, heard, dec, event, view, h>>
    BY <1>7 DEF Decide
  <2>2. /\ Wifi'.pc = "look" /\ Wifi'.lag = Wifi.lag /\ Loop' = Loop
        /\ Wifi'.take => lock' = Wifi'.m
    <3>1. CASE NotTaken
      BY <3>1, Fields, TurnMoves
    <3>2. CASE /\ lock' = Wifi.m
               /\ th' = [th EXCEPT !["wifi"].pc = "look", !["wifi"].take = TRUE]
      <4>1. th' = [th EXCEPT !["wifi"] = [Wifi EXCEPT !.pc = "look", !.take = TRUE]]
        BY <3>2, Fields DEF Call
      <4>2. Wifi' = [Wifi EXCEPT !.pc = "look", !.take = TRUE] /\ Loop' = Loop
        BY <4>1, Fields
      <4> QED
        BY <3>2, <4>2, Fields DEF Call
    <3> QED
      BY <1>7, <3>1, <3>2 DEF Decide
  <2>3. UNCHANGED <<lock, changed>> \/ changed' = TRUE
    BY <1>7 DEF Decide, Acquire
  <2>4. Tracking' /\ Told'
    BY <2>1, <2>2, <2>3 DEF Following, Tracking, Told
  <2>5. LoopAlone' /\ StaleKnown' /\ ChangePending'
    BY <1>0, <2>1, <2>2, PacketKeeps
  <2> QED
    BY <2>1, <2>2, <2>4, <2>5 DEF Following, NoSplice, TakenLocked
<1>8. CASE Decode
  <2>1. /\ Wifi.pc = "decode" /\ Wifi'.pc = "stale" /\ Wifi'.lag = Wifi.lag /\ ~Wifi'.take
        /\ Loop' = Loop /\ UNCHANGED <<idler, lock, changed, heard, view>> /\ ~changed
    BY <1>0, <1>8, Fields, TurnMoves DEF Decode
  <2>2. CASE UNCHANGED <<dec, event, h>>
    <3>1. Before
      BY <1>0, <2>1, <2>2 DEF Before
    <3> QED
      BY <3>1, BeforeKeeps
  <2>3. CASE Wifi.take /\ ~UNCHANGED <<dec, event, h>>
    <3>1. PICK mode \in Modes[Wifi.m] :
            /\ dec' = [follows |-> Wifi.m, mode |-> mode]
            /\ event' = [event EXCEPT !.mode = @ \/ (mode # dec.mode)]
            /\ h' = [h EXCEPT !.splice = ~(mode # dec.mode) /\ dec.follows \notin {-1, Wifi.m}]
      BY <1>8, <2>3 DEF Decode
    <3>2. lock = Wifi.m /\ lock >= 0
      BY <2>3, Fields DEF Following, TakenLocked
    <3>3. dec.follows \in {-1, Wifi.m}
      BY <2>1, <3>2 DEF Following, Tracking
    <3>4. ~h'.splice
      BY <3>1, <3>3 DEF TypeOK
    <3>5. dec'.follows = lock /\ event'.lock = event.lock
      BY <3>1, <3>2 DEF TypeOK
    <3>6. Tracking' /\ Told' /\ NoSplice'
      BY <2>1, <3>4, <3>5 DEF Following, Tracking, Told, NoSplice
    <3>7. LoopAlone' /\ StaleKnown' /\ ChangePending'
      BY <1>0, <2>1, PacketKeeps
    <3> QED
      BY <2>1, <3>6, <3>7 DEF Following, TakenLocked
  <2> QED
    BY <1>8, <2>2, <2>3 DEF Decode
<1> QED
  BY <1>1, <1>2, <1>3, <1>4, <1>5, <1>6, <1>7, <1>8 DEF OfPacket

(* Nothing of the selector moves, and the loop is not in idleTick().       *)
Outside ==
  /\ UNCHANGED <<idler, lock, changed, heard>> /\ dec' = dec /\ h'.splice = h.splice
  /\ Wifi' = Wifi /\ ~InTick("loop") /\ ~InTick("loop")'

(* Such a step keeps all but what the application is told.                 *)
LEMMA OutsideKeeps ==
  ASSUME Following, Outside, Told'
  PROVE  Following'
<1>1. LoopAlone' /\ StaleKnown' /\ ChangePending'
  BY DEF Outside, Following, LoopAlone, StaleKnown, ChangePending, InTick, Threads, At, Wifi, Loop
<1>2. TakenLocked' /\ Tracking' /\ NoSplice'
  BY DEF Outside, Following, TakenLocked, Tracking, NoSplice
<1> QED
  BY <1>1, <1>2 DEF Following

(* The loop, which may only read, clear its events and raise requests      *)
(* until it begins idleTick() with the Wi-Fi task at rest.                 *)
LEMMA FollowingLoop ==
  ASSUME TypeOK, Following, ~h'.overlap,
         OfLoop \/ RequestRelock \/ LoopTick \/ \E on \in BOOLEAN : SetRelayTestOnly(on)
  PROVE  Following'
<1> USE DEF selector, shared, At, Wifi, Loop
<1>1. /\ UNCHANGED <<idler, lock, changed, heard>> /\ dec' = dec /\ h'.splice = h.splice
  BY DEF OfLoop, RaiseRelayTest, TakeLockEvent, ReadLocked, LockCallback, ModeCallback,
         RequestRelock, LoopTick, SetRelayTestOnly, TypeOK
<1>3. CASE RequestRelock
  <2>1. UNCHANGED <<th, event, view>>
    BY <1>3 DEF RequestRelock
  <2> QED
    BY <1>1, <2>1 DEF Following, LoopAlone, StaleKnown, ChangePending, TakenLocked, Tracking,
                      Told, NoSplice, InTick
<1>4. ASSUME Wifi' = Wifi, Loop.pc \in {"idle", "flag", "lockEvt", "locked", "mac", "modeEvt"},
             Loop'.pc \in {"idle", "flag", "lockEvt", "locked", "mac", "modeEvt"}, Told'
      PROVE  Following'
  <2>1. Outside
    BY <1>1, <1>4 DEF Outside, InTick
  <2> QED
    BY <1>4, <2>1, OutsideKeeps
<1>5. CASE LoopTick \/ RaiseRelayTest \/ \E on \in BOOLEAN : SetRelayTestOnly(on)
  <2>1. /\ Wifi' = Wifi /\ Loop.pc \in {"idle", "flag"} /\ Loop'.pc \in {"idle", "flag", "lockEvt"}
        /\ UNCHANGED view /\ event'.lock = event.lock
    BY <1>5, Fields, GoMoves, TurnMoves DEF LoopTick, RaiseRelayTest, SetRelayTestOnly
  <2>2. Told'
    BY <1>1, <2>1 DEF Following, Told
  <2> QED
    BY <1>4, <2>1, <2>2
<1>6. CASE TakeLockEvent
  <2>1. /\ Wifi' = Wifi /\ Loop.pc = "lockEvt" /\ view' = view
        /\ Loop'.pc = IF event.lock THEN "locked" ELSE "modeEvt"
    BY <1>6, Fields, GoMoves DEF TakeLockEvent, TypeOK
  <2>2. Told'
    BY <1>1, <2>1 DEF Following, Told
  <2> QED
    BY <1>4, <2>1, <2>2
<1>7. CASE ReadLocked
  <2>1. Loop.pc = "locked" /\ UNCHANGED <<event, view>>
    BY <1>7 DEF ReadLocked
  <2>2. PICK b \in BOOLEAN : GoWith("loop", "mac", b) /\ (lock >= 0 => b)
    <3>1. (lock >= 0) \in BOOLEAN
      OBVIOUS
    <3> QED
      BY <1>7, <3>1, Zenon DEF ReadLocked
  <2>3. Wifi' = Wifi /\ Loop'.pc = "mac" /\ Loop'.b = b
    BY <2>2, Fields, GoMoves
  <2>4. Told'
    BY <1>1, <2>1, <2>2, <2>3 DEF Following, Told
  <2> QED
    BY <1>4, <2>1, <2>3, <2>4
<1>8. CASE LockCallback
  <2>1. PICK b \in BOOLEAN : GoWith("loop", "modeEvt", b)
    BY <1>8 DEF LockCallback
  <2>2. Wifi' = Wifi /\ Loop'.pc = "modeEvt" /\ Loop.pc = "mac" /\ event' = event
    BY <1>8, <2>1, Fields, GoMoves DEF LockCallback
  <2>3. lock >= 0 /\ Loop.b => view'.locked /\ view'.mac = lock
    BY <1>8, Fields DEF LockCallback, LockedMac, TypeOK
  <2>4. Told'
    <3>1. lock >= 0 /\ ~changed => Loop.b \/ event.lock
      BY <2>2 DEF Following, Told
    <3> QED
      BY <1>1, <2>2, <2>3, <3>1 DEF Following, Told
  <2> QED
    BY <1>4, <2>2, <2>4
<1>9. CASE ModeCallback
  <2>1. /\ Loop.pc = "modeEvt" /\ view'.locked = view.locked /\ view'.mac = view.mac
        /\ event'.lock = event.lock
    BY <1>9 DEF ModeCallback, TypeOK
  <2>2. CASE idler = "loop"
    <3>1. Wifi' = Wifi /\ Loop'.pc = "stale" /\ Loop'.last
      BY <1>9, <2>2, Fields, TurnMoves DEF ModeCallback
    <3>2. Wifi.pc = "idle"
      BY <1>9, <2>2 DEF ModeCallback, TypeOK
    <3>3. ~changed /\ ~Wifi.take
      BY <2>1, <3>2 DEF Following, ChangePending, TakenLocked
    <3>4. LoopAlone' /\ StaleKnown' /\ ChangePending'
      BY <1>1, <2>1, <2>2, <3>1, <3>2, <3>3
         DEF Following, LoopAlone, StaleKnown, ChangePending, Threads
    <3>5. TakenLocked' /\ Tracking' /\ NoSplice' /\ Told'
      BY <1>1, <2>1, <3>1 DEF Following, TakenLocked, Tracking, NoSplice, Told
    <3> QED
      BY <3>4, <3>5 DEF Following
  <2>3. CASE idler # "loop"
    <3>1. Wifi' = Wifi /\ Loop'.pc = "idle"
      BY <1>9, <2>3, Fields, TurnMoves DEF ModeCallback
    <3>2. Told'
      BY <1>1, <2>1, <3>1 DEF Following, Told
    <3> QED
      BY <1>4, <2>1, <3>1, <3>2
  <2> QED
    BY <2>2, <2>3
<1> QED
  BY <1>3, <1>5, <1>6, <1>7, <1>8, <1>9 DEF OfLoop

(* A call that takes its time.                                             *)
LEMMA FollowingTime ==
  ASSUME TypeOK, Following, Time
  PROVE  Following'
<1>1. /\ UNCHANGED <<idler, lock, changed, view>> /\ dec' = dec /\ event' = event /\ h' = h
      /\ Wifi'.pc = Wifi.pc /\ Wifi'.b = Wifi.b /\ Wifi'.m = Wifi.m /\ Wifi'.l = Wifi.l
      /\ Wifi'.take = Wifi.take /\ Wifi'.lag \in {Wifi.lag, Wifi.lag + 1} /\ Wifi'.lag <= Lags
      /\ Loop'.pc = Loop.pc /\ Loop'.b = Loop.b /\ Loop'.l = Loop.l /\ Loop'.last = Loop.last
      /\ Loop'.lag \in {Loop.lag, Loop.lag + 1}
  BY Fields, TimeMoves DEF Time, shared, Wifi, Loop
<1>2. \A k \in Sources : heard'[k] >= heard[k] /\ heard'[k] >= Wifi'.lag
  <2> TAKE k \in Sources
  <2>1. heard'[k] = IF heard[k] < Never THEN heard[k] + 1 ELSE heard[k]
    BY DEF Time
  <2>2. heard[k] \in Nat /\ heard[k] >= Wifi.lag /\ Wifi.lag \in Nat
    BY Fields DEF Following, StaleKnown
  <2> QED
    BY <1>1, <2>1, <2>2, Bounds
<1>3. StaleKnown'
  <2>1. lock >= 0 =>
          /\ heard'[lock] = (IF heard[lock] < Never THEN heard[lock] + 1 ELSE heard[lock])
          /\ heard[lock] \in Nat
    BY Fields DEF Time
  <2>2. Wifi.pc = "drop" => lock >= 0 /\ Wifi.l = lock /\ heard[lock] > LOCK_TIMEOUT
    BY Fields DEF Following, StaleKnown, At, Wifi, Threads
  <2>3. Loop.pc = "drop" => /\ lock >= 0 /\ Loop.l = lock /\ Loop'.lag = Loop.lag + 1
                            /\ heard[lock] > LOCK_TIMEOUT \/ heard[lock] < Loop.lag
    <3>1. Loop.pc = "drop" => lock >= 0 /\ Loop.l = lock /\ idler = "loop"
                              /\ (heard[lock] > LOCK_TIMEOUT \/ heard[lock] < Loop.lag)
      BY DEF Following, StaleKnown, LoopAlone, InTick, At, Loop, Threads
    <3>2. Loop.pc = "drop" /\ idler = "loop" => Loop'.lag = Loop.lag + 1
      BY Fields DEF Time, UsesNow, Loop, Call
    <3> QED
      BY <3>1, <3>2
  <2>4. Loop.lag \in Nat
    BY Fields, Bounds DEF Call
  <2>5. ASSUME Wifi.pc = "drop" PROVE heard'[lock] > LOCK_TIMEOUT
    BY <2>1, <2>2, <2>5, Bounds
  <2>6. ASSUME Loop.pc = "drop" PROVE heard'[lock] > LOCK_TIMEOUT \/ heard'[lock] < Loop'.lag
    BY <2>1, <2>3, <2>4, <2>6, Bounds
  <2>7. \A t \in Threads : t = "wifi" \/ t = "loop"
    BY DEF Threads
  <2> QED
    BY <1>1, <1>2, <2>2, <2>3, <2>5, <2>6, <2>7 DEF StaleKnown, At, Wifi, Loop
<1>4. ChangePending'
  BY <1>1 DEF Following, ChangePending, Threads, At, Wifi, Loop
<1>5. LoopAlone' /\ TakenLocked' /\ Tracking' /\ Told' /\ NoSplice'
  BY <1>1 DEF Following, LoopAlone, InTick, TakenLocked, Tracking, Told, NoSplice, Loop
<1> QED
  BY <1>3, <1>4, <1>5 DEF Following

(* Every step that is not the start of an overlap keeps it.                *)
LEMMA StepFollowing ==
  ASSUME TypeOK, Following, [Next]_vars, ~h'.overlap
  PROVE  Following'
<1> USE DEF selector, shared, At, Wifi, Loop
<1>1. ASSUME NEW m \in Sources, OnPacket(m) PROVE Following'
  <2>1. Wifi' = [Resting EXCEPT !.pc = "relay", !.m = m] /\ Loop' = Loop /\ Wifi.pc = "idle"
    BY <1>1, Fields DEF OnPacket
  <2>2. Wifi'.pc = "relay" /\ Wifi'.lag = 0 /\ ~Wifi'.take
    BY <2>1 DEF Resting
  <2>3. ~InTick("loop") /\ h'.splice = h.splice
    BY <1>1 DEF OnPacket, TypeOK
  <2>4. ~changed
    BY <2>1, <2>3 DEF Following, ChangePending, InTick
  <2>5. Before
    BY <1>1, <2>1, <2>2, <2>3, <2>4 DEF OnPacket, Before
  <2> QED
    BY <2>5, BeforeKeeps
<1>2. CASE IdleTickOnWifi
  <2>1. Wifi'.pc = "stale" /\ Wifi'.lag = Wifi.lag /\ ~Wifi'.take /\ Loop' = Loop
    BY <1>2, Fields, TurnMoves DEF IdleTickOnWifi
  <2>2. ~InTick("loop") /\ ~changed
    BY <1>2 DEF IdleTickOnWifi, Following, LoopAlone, ChangePending, InTick
  <2>3. Before
    BY <1>2, <2>1, <2>2 DEF IdleTickOnWifi, Before
  <2> QED
    BY <2>3, BeforeKeeps
<1>3. CASE UNCHANGED vars
  BY <1>3 DEF vars, Following, LoopAlone, InTick, StaleKnown, ChangePending, TakenLocked, Tracking,
              Told, NoSplice
<1> QED
  BY <1>1, <1>2, <1>3, FollowingSelector, FollowingPacket, FollowingLoop, FollowingTime DEF Next

(* A lock is left only when it is asked to go, has gone stale or was heard *)
(* after the now of the loop's tick().                                     *)
LEMMA StepKeepsLock ==
  ASSUME TypeOK, Following, [Next]_vars
  PROVE  [lock >= 0 /\ lock' # lock /\ ~h.overlap
            => At("wifi", "force") \/ heard[lock] > LOCK_TIMEOUT \/ heard[lock] < Loop.lag]_vars
<1> SUFFICES ASSUME lock >= 0, lock' # lock
             PROVE  At("wifi", "force") \/ heard[lock] > LOCK_TIMEOUT \/ heard[lock] < Loop.lag
  OBVIOUS
<1> USE DEF selector, shared
<1>1. ASSUME NEW t \in Threads, OfSelector(t)
      PROVE  heard[lock] > LOCK_TIMEOUT \/ heard[lock] < Loop.lag
  <2>1. Drop(t)
    BY <1>1 DEF OfSelector, Stale, Look, Clear
  <2>2. heard[lock] > LOCK_TIMEOUT \/ heard[lock] < th[t].lag
    BY <2>1 DEF Drop, Following, StaleKnown
  <2>3. ~(heard[lock] < Wifi.lag)
    BY Fields DEF Following, StaleKnown
  <2> QED
    BY <2>2, <2>3 DEF Threads, Wifi, Loop
<1>2. OfPacket => At("wifi", "force")
  BY DEF OfPacket, ConsumeRelayTest, SwitchRelayTest, RelockForRelayTest, ConsumeRelock,
         ForceRelock, Refresh, Decide, Decode
<1>3. ~OfLoop /\ ~Time /\ ~UNCHANGED vars
  BY DEF OfLoop, RaiseRelayTest, TakeLockEvent, ReadLocked, LockCallback, ModeCallback, Time, vars
<1>4. /\ ~IdleTickOnWifi /\ ~RequestRelock /\ ~LoopTick /\ \A m \in Sources : ~OnPacket(m)
      /\ \A on \in BOOLEAN : ~SetRelayTestOnly(on)
  BY DEF IdleTickOnWifi, RequestRelock, LoopTick, OnPacket, SetRelayTestOnly
<1> QED
  BY <1>1, <1>2, <1>3, <1>4 DEF Next

(* The mode the application was told is in force, or an event is on its    *)
(* way.                                                                    *)
LEMMA StepModeTold ==
  ASSUME TypeOK, ~event.mode => view.mode = dec.mode, [Next]_vars
  PROVE  ~event'.mode => view'.mode = dec'.mode
<1> USE DEF selector, shared
<1>1. ASSUME NEW t \in Threads, OfSelector(t)
      PROVE  event'.mode = event.mode /\ view' = view /\ dec'.mode = dec.mode
  BY <1>1 DEF OfSelector, Stale, Drop, Look, Clear, TypeOK
<1>2. CASE OfPacket \/ \E m \in Sources : OnPacket(m)
  <2>1. CASE ~UNCHANGED <<dec, event>> /\ Decode
    <3>1. PICK mode \in Modes[th["wifi"].m] :
            /\ dec' = [follows |-> th["wifi"].m, mode |-> mode]
            /\ event' = [event EXCEPT !.mode = @ \/ (mode # dec.mode)]
      BY <2>1 DEF Decode
    <3> QED
      BY <2>1, <3>1 DEF Decode, TypeOK
  <2>2. CASE ForceRelock
    BY <2>2 DEF ForceRelock, TypeOK
  <2>3. CASE UNCHANGED <<dec, event, view>>
    BY <2>3
  <2> QED
    BY <1>2, <2>1, <2>2, <2>3
       DEF OfPacket, OnPacket, ConsumeRelayTest, SwitchRelayTest, RelockForRelayTest,
           ConsumeRelock, Refresh, Decide, Decode
<1>3. CASE OfLoop
  BY <1>3 DEF OfLoop, RaiseRelayTest, TakeLockEvent, ReadLocked, LockCallback, ModeCallback,
              TypeOK
<1>4. CASE \/ IdleTickOnWifi \/ RequestRelock \/ LoopTick \/ Time \/ UNCHANGED vars
           \/ \E on \in BOOLEAN : SetRelayTestOnly(on)
  BY <1>4 DEF IdleTickOnWifi, RequestRelock, LoopTick, Time, SetRelayTestOnly, vars
<1> QED
  BY <1>1, <1>2, <1>3, <1>4 DEF Next

(* With idleTick() on the Wi-Fi task the loop stays out of it.             *)
LEMMA StepAway ==
  ASSUME TypeOK, idler = "wifi", ~InTick("loop"), ~h.overlap, [Next]_vars
  PROVE  idler' = "wifi" /\ ~InTick("loop")' /\ ~h'.overlap
<1> USE DEF selector, shared, InTick, At
<1>1. "wifi" \in Threads /\ "loop" \in Threads /\ th \in [Threads -> Call]
      /\ h \in [asked : BOOLEAN, splice : BOOLEAN, overlap : BOOLEAN]
  BY DEF TypeOK, Threads, Call
<1>2. ASSUME NEW t \in Threads, OfSelector(t)
      PROVE  idler' = "wifi" /\ th'["loop"] = th["loop"] /\ h' = h
  BY <1>1, <1>2, OfSelectorMoves DEF Threads
<1>3. CASE OfPacket
  <2>1. idler' = idler /\ h'.overlap = h.overlap
    BY <1>1, <1>3
       DEF OfPacket, ConsumeRelayTest, SwitchRelayTest, RelockForRelayTest, ConsumeRelock,
           ForceRelock, Refresh, Decide, Decode
  <2>2. th'["loop"] = th["loop"]
    BY <1>1, <1>3
       DEF OfPacket, ConsumeRelayTest, SwitchRelayTest, RelockForRelayTest, ConsumeRelock,
           ForceRelock, Refresh, Decide, Decode, Go, GoWith, NotTaken, Tick
  <2> QED
    BY <2>1, <2>2
<1>4. CASE OfLoop \/ LoopTick \/ \E on \in BOOLEAN : SetRelayTestOnly(on)
  <2>1. idler' = idler /\ h'.overlap = h.overlap
    BY <1>1, <1>4 DEF OfLoop, RaiseRelayTest, TakeLockEvent, ReadLocked, LockCallback,
                      ModeCallback, LoopTick, SetRelayTestOnly
  <2>2. th'["loop"].pc \in {"idle", "flag", "lockEvt", "locked", "mac", "modeEvt"}
    BY <1>1, <1>4 DEF OfLoop, RaiseRelayTest, TakeLockEvent, ReadLocked, LockCallback,
                      ModeCallback, LoopTick, SetRelayTestOnly, Go, GoWith, Start, Return,
                      Resting, Call
  <2> QED
    BY <2>1, <2>2
<1>5. CASE IdleTickOnWifi \/ \E m \in Sources : OnPacket(m)
  BY <1>1, <1>5 DEF IdleTickOnWifi, OnPacket, Tick
<1>6. CASE RequestRelock \/ UNCHANGED vars
  BY <1>1, <1>6 DEF RequestRelock, vars
<1>7. CASE Time
  BY <1>1, <1>7, TimeMoves DEF Time
<1> QED
  BY <1>2, <1>3, <1>4, <1>5, <1>6, <1>7 DEF Next

(* An overlap is not forgotten.                                            *)
LEMMA OverlapStays ==
  ASSUME TypeOK, [Next]_vars, ~h'.overlap
  PROVE  ~h.overlap
  BY DEF TypeOK, Next, OfSelector, OfPacket, OfLoop, Stale, Drop, Look, Clear, OnPacket,
         IdleTickOnWifi, ConsumeRelayTest, SwitchRelayTest, RelockForRelayTest, ConsumeRelock,
         ForceRelock, Refresh, Decide, Decode, RequestRelock, SetRelayTestOnly, RaiseRelayTest,
         LoopTick, TakeLockEvent, ReadLocked, LockCallback, ModeCallback, Time, vars

UpToOverlap == ~h.overlap => Following

(* Following holds up to the first overlap.                                *)
LEMMA AlwaysFollowing == Spec => []UpToOverlap
<1>1. Init => Following
  <2> SUFFICES ASSUME Init PROVE Following
    OBVIOUS
  <2>1. Wifi = Resting /\ Loop = Resting
    BY DEF Init, Wifi, Loop, Threads
  <2>2. /\ Wifi.pc = "idle" /\ Loop.pc = "idle" /\ Wifi.lag = 0 /\ ~Wifi.take
    BY <2>1 DEF Resting
  <2>3. \A k \in Sources : heard[k] >= 0
    BY Bounds DEF Init
  <2>4. LoopAlone /\ StaleKnown /\ ChangePending
    BY <2>2, <2>3 DEF Init, LoopAlone, InTick, StaleKnown, ChangePending, Threads, At, Wifi, Loop
  <2> QED
    BY <2>2, <2>4 DEF Init, Following, TakenLocked, Tracking, Told, NoSplice
<1>2. Init => UpToOverlap
  BY <1>1 DEF UpToOverlap
<1>3. TypeOK /\ UpToOverlap /\ [Next]_vars => UpToOverlap'
  BY StepFollowing, OverlapStays DEF UpToOverlap
<1> QED
  BY <1>2, <1>3, TypeCorrect, PTL DEF Spec

(***************************************************************************)
(* The theorems.                                                           *)
(***************************************************************************)
(* On either thread and however long the calls take, a lock is left for a  *)
(* cause: asked to go, silent, or heard after the now of the loop's tick().*)
THEOREM LockLeft == Spec => LockLeftForCause
<1>1. TypeOK /\ UpToOverlap /\ [Next]_vars
        => [lock >= 0 /\ lock' # lock /\ ~h.overlap
              => \/ At("wifi", "force") \/ heard[lock] > LOCK_TIMEOUT
                 \/ heard[lock] < th["loop"].lag]_vars
  BY StepKeepsLock DEF UpToOverlap, Loop
<1> QED
  BY <1>1, TypeCorrect, AlwaysFollowing, PTL DEF Spec, LockLeftForCause

(* No packet is decoded with the tracking of another source unless         *)
(* onPacket() and idleTick() have overlapped.                              *)
THEOREM SourcesNotMixed == Spec => []SpliceNeedsOverlap
<1>1. UpToOverlap => SpliceNeedsOverlap
  BY DEF UpToOverlap, Following, NoSplice, SpliceNeedsOverlap
<1> QED
  BY <1>1, AlwaysFollowing, PTL

(* The application never misses a change of mode, nor, up to the first     *)
(* overlap, a change of lock.                                              *)
THEOREM EventsNotLost == Spec => []ViewFollows
<1> DEFINE ModeTold == ~event.mode => view.mode = dec.mode
<1>1. Init => ModeTold
  BY DEF Init
<1>2. TypeOK /\ ModeTold /\ [Next]_vars => ModeTold'
  BY StepModeTold
<1>3. TypeOK /\ UpToOverlap /\ ModeTold => ViewFollows
  BY Fields DEF UpToOverlap, Following, ChangePending, Told, ViewFollows, InTick, At, Wifi, Loop
<1> QED
  BY <1>1, <1>2, <1>3, TypeCorrect, AlwaysFollowing, PTL DEF Spec

(* Called where its header asks, idleTick() never overlaps onPacket(), so  *)
(* that the three hold without their condition.                            *)
THEOREM ApartOnWifi ==
  ASSUME Idlers = {"wifi"}
  PROVE  Spec => []~h.overlap
<1> DEFINE Away == idler = "wifi" /\ ~InTick("loop") /\ ~h.overlap
<1>1. Init => Away
  BY DEF Init, InTick, Threads, Resting
<1>2. TypeOK /\ Away /\ [Next]_vars => Away'
  BY StepAway
<1> QED
  BY <1>1, <1>2, TypeCorrect, PTL DEF Spec
=============================================================================
