--------------------------- MODULE SelectorLemmas ---------------------------
(***************************************************************************)
(* What the methods of SourceSelector preserve, for every size of the      *)
(* table and every timing constant.                                        *)
(***************************************************************************)
EXTENDS SelectorOps, WellFoundedInduction, TLAPS

(***************************************************************************)
(* The scans of the source table return a slot of the set they scan.       *)
(***************************************************************************)
(* A set of naturals that is not empty has a least element.                *)
LEMMA NatMin ==
  ASSUME NEW T \in SUBSET Nat, T # {}
  PROVE  \E x \in T : \A y \in T : x <= y
<1>1. PICK x \in T : \A y \in T : ~(<<y, x>> \in OpToRel(<, Nat))
  BY NatLessThanWellFounded, WFMin
<1>2. \A y \in T : ~(y < x)
  BY <1>1 DEF OpToRel
<1> QED
  BY <1>2

(* The first slot of a scan is one of the slots scanned.                   *)
LEMMA FirstOfIn ==
  ASSUME NEW S \in SUBSET Nat, S # {}
  PROVE  FirstOf(S) \in S
  BY NatMin DEF FirstOf

(* So is the first slot with the largest score, if the scores are bounded. *)
LEMMA FirstMaxIn ==
  ASSUME NEW S \in SUBSET Nat, S # {}, NEW f, NEW B \in Int,
         \A i \in S : f[i] \in Int /\ f[i] <= B
  PROVE  FirstMax(S, f) \in S
<1> DEFINE T == {B - f[i] : i \in S}
<1>1. T # {}
  <2>1. PICK i \in S : TRUE
    OBVIOUS
  <2> QED
    BY <2>1
<1>2. T \in SUBSET Nat
  <2> SUFFICES ASSUME NEW i \in S PROVE B - f[i] \in Nat
    OBVIOUS
  <2> QED
    OBVIOUS
<1>3. PICK x \in T : \A y \in T : x <= y
  BY <1>1, <1>2, NatMin
<1> DEFINE U == {i \in S : B - f[i] = x}
<1>4. PICK i \in U : \A j \in U : i <= j
  <2>1. U \in SUBSET Nat /\ U # {}
    BY <1>3
  <2> QED
    BY <2>1, NatMin
<1>5. \A j \in S : f[j] < f[i] \/ (f[j] = f[i] /\ i <= j)
  <2> SUFFICES ASSUME NEW j \in S PROVE f[j] < f[i] \/ (f[j] = f[i] /\ i <= j)
    OBVIOUS
  <2>1. x <= B - f[j] /\ B - f[i] = x /\ i \in S
    BY <1>3, <1>4
  <2>2. CASE f[j] = f[i]
    BY <2>1, <2>2, <1>4
  <2>3. CASE f[j] # f[i]
    BY <2>1, <2>3
  <2> QED
    BY <2>2, <2>3
<1> QED
  BY <1>4, <1>5 DEF FirstMax

(* A difference of two times is a time: clocks wrap.                       *)
LEMMA ClockType ==
  ASSUME NEW t \in Clock, NEW u \in Clock
  PROVE  /\ Age(t, u) \in Clock
         /\ \A d \in Nat : Plus(t, d) \in Clock
  BY ConstantsAssumption DEF Age, Plus, Clock

(* The slot findOrAdd settles on.                                          *)
LEMMA SlotForIn ==
  ASSUME NEW s \in Selector, NEW m \in Macs, NEW t \in Clock
  PROVE  SlotFor(s, m, t) \in Slots
<1> DEFINE known  == {i \in Slots : s.src[i].used /\ s.src[i].mac = m}
           free   == {i \in 0 .. MaxSources - 1 : ~s.src[i].used}
           others == {i \in 0 .. MaxSources - 1 : s.src[i].used /\ i # s.locked}
           age    == [i \in others |-> Age(t, s.src[i].last_ms)]
<1>1. 0 .. MaxSources - 1 \subseteq Slots /\ Slots \subseteq Nat /\ 0 \in Slots
  BY ConstantsAssumption DEF Slots
<1>2. known # {} => FirstOf(known) \in known
  BY <1>1, FirstOfIn
<1>3. free # {} => FirstOf(free) \in free
  BY <1>1, FirstOfIn
<1>4. \A i \in others : age[i] \in Int /\ age[i] <= ClockMod
  <2> SUFFICES ASSUME NEW i \in others PROVE Age(t, s.src[i].last_ms) \in Clock
    BY ConstantsAssumption DEF Clock
  <2>1. s.src[i].last_ms \in Clock
    BY <1>1 DEF Selector, Source
  <2> QED
    BY <2>1, ClockType
<1>5. others # {} => FirstMax(others, age) \in others
  <2>1. others \in SUBSET Nat /\ ClockMod \in Int
    BY <1>1, ConstantsAssumption
  <2> QED
    BY <1>4, <2>1, FirstMaxIn
<1> QED
  BY <1>1, <1>2, <1>3, <1>5 DEF SlotFor

(***************************************************************************)
(* Keeps(s, t): the selector t that a method makes of s is well-formed,    *)
(* and unless it raises lockChanged its lock, if any, is s's lock, on the  *)
(* same MAC.  Methods compose because Keeps is transitive.                 *)
(***************************************************************************)
Sound(s) == s \in Selector /\ Table(s)

Keeps(s, t) ==
  /\ Sound(t)
  /\ s.lockChanged => t.lockChanged
  /\ ~t.lockChanged /\ Locked(t) => Locked(s) /\ LockedMac(t) = LockedMac(s)

Follows(s, t) ==
  /\ Keeps(s, t)
  /\ \A i \in Slots : t.src[i].mac = s.src[i].mac /\ t.src[i].used = s.src[i].used

(* Two calls in a row keep the lock if each of them does.                  *)
LEMMA KeepsTransitive ==
  ASSUME NEW s, NEW t, NEW u, Keeps(s, t), Keeps(t, u)
  PROVE  Keeps(s, u)
  BY DEF Keeps, Sound, Selector

(* Follows composes as Keeps does.                                         *)
LEMMA FollowsTransitive ==
  ASSUME NEW s, NEW t, NEW u, Follows(s, t), Follows(t, u)
  PROVE  Follows(s, u)
  BY KeepsTransitive DEF Follows

(* What _locked may hold, and the slot it stands for.                      *)
LEMMA LockRange ==
  ASSUME NEW s \in Selector
  PROVE  /\ s.locked \in Int
         /\ Locked(s) => s.locked \in Slots
         /\ RememberedSlot(s) >= 0 => RememberedSlot(s) \in Slots
<1>1. s.locked \in -1 - MAX_SOURCES .. MAX_SOURCES - 1 /\ MAX_SOURCES \in Nat
  BY ConstantsAssumption DEF Selector
<1>2. CASE s.locked >= 0
  BY <1>1, <1>2 DEF RememberedSlot, Locked, Slots
<1>3. CASE s.locked <= -2
  BY <1>1, <1>3 DEF RememberedSlot, Locked, Slots
<1>4. CASE s.locked = -1
  BY <1>1, <1>4 DEF RememberedSlot, Locked, Slots
<1> QED
  BY <1>1, <1>2, <1>3, <1>4

(* A method that leaves the MACs, the lock and the flag alone.             *)
LEMMA SameTableFollows ==
  ASSUME NEW s, Sound(s), NEW t \in Selector,
         t.locked = s.locked, t.lockChanged = s.lockChanged,
         \A i \in Slots : t.src[i].mac = s.src[i].mac /\ t.src[i].used = s.src[i].used
  PROVE  Follows(s, t)
<1>1. RememberedSlot(t) = RememberedSlot(s)
  BY DEF RememberedSlot
<1>2. /\ RememberedSlot(s) >= 0 => RememberedSlot(s) \in Slots
      /\ Locked(s) => s.locked \in Slots
  BY LockRange DEF Sound
<1>3. Table(t)
  BY <1>1, <1>2 DEF Sound, Table
<1>4. Locked(t) <=> Locked(s)
  BY DEF Locked
<1> QED
  BY <1>2, <1>3, <1>4 DEF Follows, Keeps, Sound, LockedMac

(* Writing one slot yields a selector.                                     *)
LEMMA WriteSlotType ==
  ASSUME NEW s \in Selector, NEW i \in Slots, NEW r \in Source
  PROVE  [s EXCEPT !.src[i] = r] \in Selector
  BY DEF Selector

(* acquire() on a slot in use.                                             *)
LEMMA AcquireFollows ==
  ASSUME NEW s, Sound(s), NEW i \in Slots, s.src[i].used
  PROVE  /\ Follows(s, Acquire(s, i))
         /\ Acquire(s, i).lockChanged /\ Acquire(s, i).locked = i
<1> DEFINE t == Acquire(s, i)
           src2 == [j \in Slots |-> [s.src[j] EXCEPT !.hyst_start = 0]]
<1>1. src2 \in [Slots -> Source]
  BY ConstantsAssumption DEF Sound, Selector, Source, Clock
<1>2. i \in -1 - MAX_SOURCES .. MAX_SOURCES - 1 /\ i >= 0
  BY ConstantsAssumption DEF Slots
<1>3. (s.handoffs + 1) % CounterMod \in 0 .. CounterMod - 1
  BY ConstantsAssumption DEF Sound, Selector
<1>4. /\ t \in Selector /\ t.locked = i /\ t.lockChanged /\ t.src = src2
  BY <1>1, <1>2, <1>3 DEF Acquire, Sound, Selector
<1>5. \A j \in Slots : src2[j].mac = s.src[j].mac /\ src2[j].used = s.src[j].used
  BY DEF Sound, Selector, Source
<1>6. RememberedSlot(t) = i
  BY <1>2, <1>4 DEF RememberedSlot
<1>7. Table(t)
  BY <1>4, <1>5, <1>6 DEF Table, Sound
<1> QED
  BY <1>4, <1>5, <1>7 DEF Follows, Keeps, Sound

(* Dropping a lock without picking another.                                *)
LEMMA ReleasedFollows ==
  ASSUME NEW s, Sound(s), Locked(s)
  PROVE  Follows(s, Released(s)) /\ ~Locked(Released(s))
<1> DEFINE t == Released(s)
<1>1. /\ t \in Selector /\ t.locked = -2 - s.locked /\ t.src = s.src
      /\ t.lockChanged = s.lockChanged
  BY ConstantsAssumption DEF Released, Sound, Selector, Locked
<1>2. RememberedSlot(t) = s.locked /\ RememberedSlot(s) = s.locked /\ ~Locked(t)
  BY <1>1 DEF RememberedSlot, Locked, Sound, Selector
<1>3. Table(t)
  BY <1>1, <1>2 DEF Table, Sound
<1> QED
  BY <1>1, <1>2, <1>3 DEF Follows, Keeps, Sound

(* pickReLockTarget() answers a live slot out of its cool-off, or -1 where *)
(* there is none.                                                          *)
LEMMA PickIn ==
  ASSUME NEW s \in Selector, NEW t
  PROVE  LET p == PickReLockTarget(s, t)
             live == {i \in Slots : /\ s.src[i].used
                                   /\ Age(t, s.src[i].last_ms) < s.lockTimeoutMs
                                   /\ ~Blacklisted(s, i, t)}
         IN  \/ p = -1 /\ live = {}
             \/ p \in Slots /\ s.src[p].used /\ p \in live
<1> DEFINE live == {i \in Slots : /\ s.src[i].used
                                  /\ Age(t, s.src[i].last_ms) < s.lockTimeoutMs
                                  /\ ~Blacklisted(s, i, t)}
           ranked == {i \in live : s.src[i].rssi # RSSI_UNKNOWN}
           strength == [i \in ranked |-> s.src[i].rssi]
<1>1. live \in SUBSET Nat /\ ranked \in SUBSET Nat
  BY ConstantsAssumption DEF Slots
<1>2. \A i \in ranked : strength[i] \in Int /\ strength[i] <= 127
  BY DEF Selector, Source, RssiRange
<1>3. ranked # {} => FirstMax(ranked, strength) \in ranked
  <2>1. 127 \in Int
    OBVIOUS
  <2> QED
    BY <1>1, <1>2, <2>1, FirstMaxIn
<1>4. live # {} => FirstOf(live) \in live
  BY <1>1, FirstOfIn
<1> QED
  BY <1>3, <1>4 DEF PickReLockTarget

(* A stale lock is handed over, which raises the flag, or merely dropped.  *)
LEMMA ReleaseStaleFollows ==
  ASSUME NEW s, Sound(s), NEW t
  PROVE  Follows(s, ReleaseStale(s, t))
<1> DEFINE p == PickReLockTarget(s, t)
<1>1. p = -1 \/ (p \in Slots /\ s.src[p].used)
  BY PickIn DEF Sound
<1>2. Follows(s, s)
  BY DEF Follows, Keeps
<1>3. p \in Slots /\ s.src[p].used => Follows(s, Acquire(s, p))
  BY AcquireFollows
<1>4. Locked(s) => Follows(s, Released(s))
  BY ReleasedFollows
<1> QED
  BY <1>1, <1>2, <1>3, <1>4 DEF ReleaseStale

(* Writing blacklist_until disturbs neither the table nor the lock.        *)
LEMMA BlacklistFollows ==
  ASSUME NEW s, Sound(s), NEW i \in Slots, NEW t \in Clock
  PROVE  Follows(s, Blacklist(s, i, t))
<1> DEFINE u == Blacklist(s, i, t)
           until == Plus(t, SEL_BLACKLIST_MS)
<1>1. until \in Clock
  BY ClockType, ConstantsAssumption
<1>2. u \in Selector /\ u.locked = s.locked /\ u.lockChanged = s.lockChanged
  BY <1>1 DEF Blacklist, Sound, Selector, Source
<1>3. \A j \in Slots : u.src[j].mac = s.src[j].mac /\ u.src[j].used = s.src[j].used
  BY DEF Blacklist, Sound, Selector, Source
<1> QED
  BY <1>2, <1>3, SameTableFollows

(* forceRelock() leaves no lock and invents none.                          *)
LEMMA ForceRelockFollows ==
  ASSUME NEW s, Sound(s), NEW t \in Clock
  PROVE  Follows(s, ForceRelock(s, t)) /\ ~Locked(ForceRelock(s, t))
<1>1. CASE ~Locked(s)
  BY <1>1 DEF ForceRelock, Follows, Keeps
<1>2. CASE Locked(s)
  <2> DEFINE u == Blacklist(s, s.locked, t)
  <2>1. s.locked \in Slots
    BY <1>2, LockRange DEF Sound
  <2>2. Follows(s, u) /\ Sound(u)
    BY <2>1, BlacklistFollows DEF Follows, Keeps
  <2>3. Locked(u)
    BY <1>2 DEF Blacklist, Locked, Sound, Selector
  <2>4. Follows(u, Released(u)) /\ ~Locked(Released(u))
    BY <2>2, <2>3, ReleasedFollows
  <2>5. Follows(s, Released(u))
    BY <2>2, <2>4, FollowsTransitive
  <2> QED
    BY <1>2, <2>4, <2>5 DEF ForceRelock
<1> QED
  BY <1>1, <1>2

(***************************************************************************)
(* The rate window.                                                        *)
(***************************************************************************)
(* The challenger evalRateSelection() elects is another slot in use, out   *)
(* of its cool-off.                                                        *)
LEMMA ChallengerIn ==
  ASSUME NEW s \in Selector, NEW t, Challengers(s, t) # {}
  PROVE  LET c == Challengers(s, t)
             b == FirstMax(c, [i \in c |-> s.src[i].win_count])
         IN  b \in Slots /\ s.src[b].used /\ b # s.locked /\ ~Blacklisted(s, b, t)
<1> DEFINE c == Challengers(s, t)
           count == [i \in c |-> s.src[i].win_count]
<1>1. c \in SUBSET Nat /\ CountMax \in Int /\ c \subseteq Slots
  BY ConstantsAssumption DEF Challengers, Slots
<1>2. \A i \in c : count[i] \in Int /\ count[i] <= CountMax
  BY <1>1, ConstantsAssumption DEF Selector, Source
<1>3. FirstMax(c, count) \in c
  BY <1>1, <1>2, FirstMaxIn
<1> QED
  BY <1>3 DEF Challengers

(* A rate switch is an acquire() of a slot in use.                         *)
LEMMA SwitchOnRateFollows ==
  ASSUME NEW s, Sound(s), NEW t \in Clock
  PROVE  Follows(s, SwitchOnRate(s, t))
<1> DEFINE c == Challengers(s, t)
           b == FirstMax(c, [i \in c |-> s.src[i].win_count])
           u == Acquire(s, b)
           v == Blacklist(u, s.locked, t)
           w == [v EXCEPT !.lastSwitch = t]
<1>1. Follows(s, s)
  BY DEF Follows, Keeps
<1>2. ASSUME c # {}, Locked(s) PROVE Follows(s, w)
  <2>1. b \in Slots /\ s.src[b].used /\ s.locked \in Slots
    BY <1>2, ChallengerIn, LockRange DEF Sound
  <2>2. Follows(s, u) /\ Sound(u)
    BY <2>1, AcquireFollows DEF Follows, Keeps
  <2>3. Follows(u, v) /\ Sound(v)
    BY <2>1, <2>2, BlacklistFollows DEF Follows, Keeps
  <2>4. /\ w \in Selector /\ w.locked = v.locked /\ w.lockChanged = v.lockChanged
        /\ w.src = v.src
    BY <2>3 DEF Sound, Selector
  <2>5. Follows(v, w)
    BY <2>3, <2>4, SameTableFollows
  <2> QED
    BY <2>2, <2>3, <2>5, FollowsTransitive
<1> QED
  BY <1>1, <1>2 DEF SwitchOnRate

(* So closing a rate window either keeps the lock or raises the flag.      *)
LEMMA EvalRateSelectionFollows ==
  ASSUME NEW s, Sound(s), NEW t \in Clock
  PROVE  Follows(s, EvalRateSelection(s, t))
<1> DEFINE u == SwitchOnRate(s, t)
           src2 == [i \in Slots |-> [u.src[i] EXCEPT !.win_count = 0]]
           v == [u EXCEPT !.src = src2, !.winStart = t, !.winLost = 0, !.winRecovered = 0]
<1>1. Follows(s, s)
  BY DEF Follows, Keeps
<1>2. Follows(s, u) /\ Sound(u)
  BY SwitchOnRateFollows DEF Follows, Keeps
<1>3. src2 \in [Slots -> Source]
  BY <1>2, ConstantsAssumption DEF Sound, Selector, Source
<1>4. /\ v \in Selector /\ v.locked = u.locked /\ v.lockChanged = u.lockChanged
      /\ v.src = src2
  BY <1>2, <1>3 DEF Sound, Selector
<1>5. \A j \in Slots : src2[j].mac = u.src[j].mac /\ src2[j].used = u.src[j].used
  BY <1>2 DEF Sound, Selector, Source
<1>6. Follows(u, v)
  <2>1. \A j \in Slots : v.src[j].mac = u.src[j].mac /\ v.src[j].used = u.src[j].used
    BY <1>4, <1>5
  <2> HIDE DEF u, v
  <2> QED
    BY <1>2, <1>4, <2>1, SameTableFollows
<1>7. Follows(s, v)
  BY <1>2, <1>6, FollowsTransitive
<1> QED
  BY <1>1, <1>7 DEF EvalRateSelection

(* tick(): the stale-lock release, then the rate window.                   *)
LEMMA TickFollows ==
  ASSUME NEW s, Sound(s), NEW t \in Clock
  PROVE  Follows(s, Tick(s, t))
<1>1. Follows(s, ReleaseStale(s, t)) /\ Sound(ReleaseStale(s, t))
  BY ReleaseStaleFollows DEF Follows, Keeps
<1>2. Follows(ReleaseStale(s, t), Tick(s, t))
  BY <1>1, EvalRateSelectionFollows DEF Tick
<1> QED
  BY <1>1, <1>2, FollowsTransitive

(***************************************************************************)
(* admit().                                                                *)
(***************************************************************************)
(* findOrAdd() takes the MAC's own slot; failing that one that no lock     *)
(* holds, provided the table has more than one slot to give.               *)
LEMMA SlotForSafe ==
  ASSUME NEW s, Sound(s), NEW m \in Macs, NEW t \in Clock
  PROVE  LET i == SlotFor(s, m, t)
         IN  \/ s.src[i].used /\ s.src[i].mac = m
             \/ /\ ~\E j \in Slots : s.src[j].used /\ s.src[j].mac = m
                /\ MaxSources >= 2 => i # s.locked
<1> DEFINE known  == {i \in Slots : s.src[i].used /\ s.src[i].mac = m}
           free   == {i \in 0 .. MaxSources - 1 : ~s.src[i].used}
           others == {i \in 0 .. MaxSources - 1 : s.src[i].used /\ i # s.locked}
           age    == [i \in others |-> Age(t, s.src[i].last_ms)]
<1>1. 0 .. MaxSources - 1 \subseteq Slots /\ Slots \subseteq Nat
  BY ConstantsAssumption DEF Slots
<1>2. CASE known # {}
  <2>1. FirstOf(known) \in known
    BY <1>1, <1>2, FirstOfIn
  <2> QED
    BY <1>2, <2>1 DEF SlotFor
<1>3. CASE known = {} /\ free # {}
  <2>1. FirstOf(free) \in free
    BY <1>1, <1>3, FirstOfIn
  <2>2. s.locked \in Slots => s.src[s.locked].used
    BY ConstantsAssumption DEF Sound, Table, RememberedSlot, Slots
  <2> QED
    BY <1>1, <1>3, <2>1, <2>2 DEF SlotFor
<1>4. CASE known = {} /\ free = {} /\ others # {}
  <2>1. \A i \in others : age[i] \in Int /\ age[i] <= ClockMod
    <3> SUFFICES ASSUME NEW i \in others PROVE Age(t, s.src[i].last_ms) \in Clock
      BY ConstantsAssumption DEF Clock
    <3>1. s.src[i].last_ms \in Clock
      BY <1>1 DEF Sound, Selector, Source
    <3> QED
      BY <3>1, ClockType
  <2>2. others \in SUBSET Nat /\ ClockMod \in Int
    BY <1>1, ConstantsAssumption
  <2>3. FirstMax(others, age) \in others
    BY <1>4, <2>1, <2>2, FirstMaxIn
  <2> QED
    BY <1>4, <2>3 DEF SlotFor
<1>5. CASE known = {} /\ free = {} /\ others = {}
  <2>1. \A i \in 0 .. MaxSources - 1 : i = s.locked
    BY <1>5
  <2>2. ~(MaxSources >= 2)
    <3> SUFFICES ASSUME MaxSources >= 2 PROVE FALSE
      OBVIOUS
    <3>1. 0 \in 0 .. MaxSources - 1 /\ 1 \in 0 .. MaxSources - 1
      BY ConstantsAssumption
    <3> QED
      BY <2>1, <3>1
  <2> QED
    BY <1>5, <2>2
<1> QED
  BY <1>2, <1>3, <1>4, <1>5

(* The entry findOrAdd() writes for a MAC it did not know.                 *)
LEMMA FindOrAddKeeps ==
  ASSUME NEW s, Sound(s), NEW m \in Macs, NEW t \in Clock, MaxSources >= 2
  PROVE  LET i == SlotFor(s, m, t)
             u == FindOrAdd(s, i, m, t)
         IN  Keeps(s, u) /\ u.src[i].used /\ u.src[i].mac = m
<1> DEFINE i == SlotFor(s, m, t)
           entry == NewSource(m, t)
           u == [s EXCEPT !.src[i] = entry]
<1>1. i \in Slots
  BY SlotForIn DEF Sound
<1>2. CASE s.src[i].used /\ s.src[i].mac = m
  BY <1>2 DEF FindOrAdd, Keeps
<1>3. CASE ~(s.src[i].used /\ s.src[i].mac = m)
  <2>1. /\ ~\E j \in Slots : s.src[j].used /\ s.src[j].mac = m
        /\ i # s.locked
    BY <1>3, SlotForSafe
  <2>2. entry \in Source /\ entry.mac = m /\ entry.used
    <3>1. 0 \in Clock /\ 0 \in 0 .. CountMax /\ 0 \in Modes /\ -128 \in RssiRange
      BY ConstantsAssumption DEF Clock, RssiRange
    <3> QED
      BY <3>1 DEF NewSource, Source, RSSI_UNKNOWN
  <2>3. u \in Selector
    BY <1>1, <2>2, WriteSlotType DEF Sound
  <2>4. /\ u.locked = s.locked /\ u.lockChanged = s.lockChanged
        /\ u.src = [s.src EXCEPT ![i] = entry] /\ s.src \in [Slots -> Source]
    BY DEF Sound, Selector
  <2>5. \A j \in Slots : u.src[j] = IF j = i THEN entry ELSE s.src[j]
    BY <1>1, <2>4
  <2> HIDE DEF i, u, entry
  <2>6. Table(u)
    <3>1. RememberedSlot(u) = RememberedSlot(s)
      BY <2>4 DEF RememberedSlot
    <3>2. RememberedSlot(s) >= 0 => RememberedSlot(s) \in Slots
      BY LockRange DEF Sound
    <3>3. RememberedSlot(u) >= 0 => u.src[RememberedSlot(u)].used
      BY <2>2, <2>5, <3>1, <3>2 DEF Sound, Table
    <3>4. ASSUME NEW j \in Slots, NEW k \in Slots, u.src[j].used, u.src[k].used,
                 u.src[j].mac = u.src[k].mac
          PROVE  j = k
      BY <2>1, <2>2, <2>5, <3>4 DEF Sound, Table
    <3> QED
      BY <3>3, <3>4 DEF Table
  <2>7. Locked(u) => Locked(s) /\ LockedMac(u) = LockedMac(s)
    BY <2>1, <2>4, <2>5, LockRange DEF Locked, LockedMac, Sound
  <2>8. Keeps(s, u) /\ u.src[i].used /\ u.src[i].mac = m
    BY <1>1, <2>2, <2>3, <2>4, <2>5, <2>6, <2>7 DEF Keeps, Sound
  <2> QED
    BY <1>3, <2>8 DEF FindOrAdd, i, u, entry
<1> QED
  BY <1>2, <1>3

(* Refreshing the heard source changes only its measurements.              *)
LEMMA RefreshFollows ==
  ASSUME NEW s, Sound(s), NEW i \in Slots, NEW r \in RssiRange, NEW mode \in Modes,
         NEW rel \in BOOLEAN, NEW t \in Clock
  PROVE  Follows(s, Refresh(s, i, r, mode, rel, t))
<1> DEFINE e == s.src[i]
           f == Refreshed(e, r, mode, rel, t)
           u == [s EXCEPT !.src[i] = f]
<1>1. e \in Source
  BY DEF Sound, Selector
<1>2. f \in Source /\ f.mac = e.mac /\ f.used = e.used
  <2>1. /\ e.win_count \in 0 .. CountMax
        /\ e.win_count < CountMax => e.win_count + 1 \in 0 .. CountMax
        /\ e.rssi \in RssiRange
    BY <1>1, ConstantsAssumption DEF Source
  <2> HIDE DEF e
  <2> QED
    BY <1>1, <2>1 DEF Source, Refreshed
<1>3. /\ u \in Selector /\ u.locked = s.locked /\ u.lockChanged = s.lockChanged
      /\ u.src = [s.src EXCEPT ![i] = f] /\ s.src \in [Slots -> Source]
  BY <1>2 DEF Sound, Selector
<1>4. \A j \in Slots : u.src[j].mac = s.src[j].mac /\ u.src[j].used = s.src[j].used
  BY <1>2, <1>3
<1>5. Follows(s, u)
  <2> HIDE DEF u
  <2> QED
    BY <1>3, <1>4, SameTableFollows
<1>6. Refresh(s, i, r, mode, rel, t) = u
  BY DEF Refresh
<1> QED
  BY <1>5, <1>6

(* Writing the hysteresis start of one slot.                               *)
LEMMA HystFollows ==
  ASSUME NEW s, Sound(s), NEW i \in Slots, NEW t \in Clock
  PROVE  Follows(s, [s EXCEPT !.src[i].hyst_start = t])
<1> DEFINE u == [s EXCEPT !.src[i].hyst_start = t]
<1>1. u \in Selector /\ u.locked = s.locked /\ u.lockChanged = s.lockChanged
  BY DEF Sound, Selector, Source
<1>2. \A j \in Slots : u.src[j].mac = s.src[j].mac /\ u.src[j].used = s.src[j].used
  BY DEF Sound, Selector, Source
<1> HIDE DEF u
<1>3. Follows(s, u)
  BY <1>1, <1>2, SameTableFollows
<1> QED
  BY <1>3 DEF u

(* admit() decides for a lock: the old one, or an acquired one with the    *)
(* flag raised.                                                            *)
LEMMA DecideFollows ==
  ASSUME NEW s, Sound(s), NEW i \in Slots, s.src[i].used, NEW t \in Clock
  PROVE  /\ Follows(s, Decide(s, i, t))
         /\ Locked(Decide(s, i, t))
<1> DEFINE p == PickReLockTarget(s, t)
           start == IF s.src[i].hyst_start = 0 THEN t ELSE s.src[i].hyst_start
<1>1. CASE ~Locked(s)
  <2>1. p = -1 \/ (p \in Slots /\ s.src[p].used)
    BY PickIn DEF Sound
  <2>2. \A j \in Slots : s.src[j].used => Follows(s, Acquire(s, j)) /\ Locked(Acquire(s, j))
    BY AcquireFollows, ConstantsAssumption DEF Locked, Slots
  <2> QED
    BY <1>1, <2>1, <2>2 DEF Decide
<1>2. CASE Locked(s) /\ s.locked = i
  BY <1>2 DEF Decide, Follows, Keeps
<1>3. CASE Locked(s) /\ s.locked # i
  <2>1. start \in Clock /\ 0 \in Clock
    BY ConstantsAssumption DEF Sound, Selector, Source, Clock
  <2>2. \A c \in Clock : /\ Follows(s, [s EXCEPT !.src[i].hyst_start = c])
                         /\ Locked([s EXCEPT !.src[i].hyst_start = c])
    BY <1>3, HystFollows DEF Locked, Sound, Selector
  <2>3. Follows(s, Acquire(s, i)) /\ Locked(Acquire(s, i))
    BY AcquireFollows, ConstantsAssumption DEF Locked, Slots
  <2> QED
    BY <1>3, <2>1, <2>2, <2>3 DEF Decide, Challenge
<1> QED
  BY <1>1, <1>2, <1>3

(***************************************************************************)
(* After admit() a lock is fresh: heard within the timeout.                *)
(***************************************************************************)
Fresh(s, t) == Locked(s) => Age(t, s.src[s.locked].last_ms) <= s.lockTimeoutMs

(* A lock acquired on a source heard within the timeout is fresh.          *)
LEMMA AcquireFresh ==
  ASSUME NEW s, Sound(s), NEW i \in Slots, NEW t \in Clock,
         Age(t, s.src[i].last_ms) <= s.lockTimeoutMs
  PROVE  Fresh(Acquire(s, i), t)
<1> DEFINE u == Acquire(s, i)
<1>1. u.locked = i /\ u.lockTimeoutMs = s.lockTimeoutMs
  BY DEF Acquire, Sound, Selector
<1>2. u.src[i].last_ms = s.src[i].last_ms
  BY DEF Acquire, Sound, Selector, Source
<1> QED
  BY <1>1, <1>2 DEF Fresh

(* The target pickReLockTarget() returns was heard within the timeout.     *)
LEMMA PickLive ==
  ASSUME NEW s \in Selector, NEW t \in Clock, NEW p, p = PickReLockTarget(s, t), p >= 0
  PROVE  p \in Slots /\ s.src[p].used /\ Age(t, s.src[p].last_ms) <= s.lockTimeoutMs
<1> DEFINE live == {i \in Slots : /\ s.src[i].used
                                  /\ Age(t, s.src[i].last_ms) < s.lockTimeoutMs
                                  /\ ~Blacklisted(s, i, t)}
           ranked == {i \in live : s.src[i].rssi # RSSI_UNKNOWN}
           strength == [i \in ranked |-> s.src[i].rssi]
<1>1. live \in SUBSET Nat /\ ranked \in SUBSET Nat /\ 127 \in Int
  BY ConstantsAssumption DEF Slots
<1>2. \A i \in ranked : strength[i] \in Int /\ strength[i] <= 127
  BY DEF Selector, Source, RssiRange
<1>3. ranked # {} => FirstMax(ranked, strength) \in ranked
  BY <1>1, <1>2, FirstMaxIn
<1>4. live # {} => FirstOf(live) \in live
  BY <1>1, FirstOfIn
<1>5. p \in live
  BY <1>3, <1>4 DEF PickReLockTarget
<1>6. Age(t, s.src[p].last_ms) \in Int /\ s.lockTimeoutMs \in Int
  BY <1>5, ClockType, ConstantsAssumption DEF Selector, Source, Clock
<1> QED
  BY <1>5, <1>6

(* The age of the lock and the timeout it is compared with are integers.   *)
LEMMA AgeType ==
  ASSUME NEW s \in Selector, NEW t \in Clock, Locked(s)
  PROVE  Age(t, s.src[s.locked].last_ms) \in Int /\ s.lockTimeoutMs \in Int
<1>1. s.locked \in Slots
  BY LockRange
<1>2. s.src[s.locked].last_ms \in Clock
  BY <1>1 DEF Selector, Source
<1>3. Age(t, s.src[s.locked].last_ms) \in Int
  BY <1>2, ClockType, ConstantsAssumption DEF Clock
<1> QED
  BY <1>3 DEF Selector

(* After the stale-lock release, a lock that is left is a fresh one.       *)
LEMMA ReleaseStaleFresh ==
  ASSUME NEW s, Sound(s), NEW t \in Clock
  PROVE  Fresh(ReleaseStale(s, t), t)
<1> DEFINE p == PickReLockTarget(s, t)
<1>1. p = -1 \/ (p \in Slots /\ s.src[p].used)
  BY PickIn DEF Sound
<1>2. p >= 0 => Fresh(Acquire(s, p), t)
  BY PickLive, AcquireFresh DEF Sound
<1>3. Locked(s) => ~Locked(Released(s))
  BY ReleasedFollows
<1>4. Locked(s) => Age(t, s.src[s.locked].last_ms) \in Int /\ s.lockTimeoutMs \in Int
  BY AgeType DEF Sound
<1> QED
  BY <1>2, <1>3, <1>4 DEF ReleaseStale, Fresh

(* tick() at the instant of a fresh lock does not release it.              *)
LEMMA TickKeepsFreshLock ==
  ASSUME NEW s, Sound(s), NEW t \in Clock, Fresh(s, t), Locked(s)
  PROVE  Locked(Tick(s, t))
<1>1. Age(t, s.src[s.locked].last_ms) \in Int /\ s.lockTimeoutMs \in Int
  BY AgeType DEF Sound
<1>2. ReleaseStale(s, t) = s
  BY <1>1 DEF ReleaseStale, Fresh
<1> DEFINE c == Challengers(s, t)
           b == FirstMax(c, [i \in c |-> s.src[i].win_count])
           u == SwitchOnRate(s, t)
<1>3. Locked(u)
  <2>1. CASE u = s
    BY <2>1
  <2>2. CASE c # {} /\ u = [Blacklist(Acquire(s, b), s.locked, t) EXCEPT !.lastSwitch = t]
    <3>1. b \in Slots /\ s.src[b].used
      BY <2>2, ChallengerIn DEF Sound
    <3>2. Acquire(s, b) \in Selector /\ Acquire(s, b).locked = b
      BY <3>1, AcquireFollows DEF Follows, Keeps, Sound
    <3>3. u.locked = b
      BY <2>2, <3>2 DEF Blacklist, Selector
    <3> QED
      BY <3>1, <3>3, ConstantsAssumption DEF Locked, Slots
  <2> QED
    BY <2>1, <2>2 DEF SwitchOnRate
<1>4. u \in Selector
  BY SwitchOnRateFollows DEF Follows, Keeps, Sound
<1> HIDE DEF u
<1>5. Locked(EvalRateSelection(s, t))
  BY <1>3, <1>4 DEF EvalRateSelection, Locked, Selector, u
<1> QED
  BY <1>2, <1>5 DEF Tick

(* Releasing or handing over a lock rewrites no time of arrival.           *)
LEMMA ReleaseStaleTimes ==
  ASSUME NEW s, Sound(s), NEW t, NEW i \in Slots
  PROVE  ReleaseStale(s, t).src[i].last_ms = s.src[i].last_ms
  BY DEF ReleaseStale, Acquire, Released, Sound, Selector, Source

(* Deciding at the instant a packet was heard leaves a fresh lock.         *)
LEMMA DecideFresh ==
  ASSUME NEW s, Sound(s), NEW i \in Slots, s.src[i].used, NEW t \in Clock,
         s.src[i].last_ms = t, Fresh(s, t)
  PROVE  Fresh(Decide(s, i, t), t)
<1> DEFINE p == PickReLockTarget(s, t)
           start == IF s.src[i].hyst_start = 0 THEN t ELSE s.src[i].hyst_start
<1>1. Age(t, s.src[i].last_ms) = 0 /\ s.lockTimeoutMs >= 0
  BY ConstantsAssumption DEF Age, Sound, Selector, Clock
<1>2. Fresh(Acquire(s, i), t)
  BY <1>1, AcquireFresh DEF Sound, Selector
<1>3. p >= 0 => Fresh(Acquire(s, p), t)
  BY PickLive, AcquireFresh DEF Sound
<1>4. \A c \in Clock : Fresh([s EXCEPT !.src[i].hyst_start = c], t)
  BY LockRange DEF Fresh, Locked, Sound, Selector, Source
<1>5. start \in Clock /\ 0 \in Clock
  BY ConstantsAssumption DEF Sound, Selector, Source, Clock
<1> QED
  BY <1>2, <1>3, <1>4, <1>5 DEF Decide, Challenge

(* admit(): unless it raises lockChanged a lock stays on its MAC, a packet *)
(* that passes the relay filter leaves a lock, and a packet it returns     *)
(* true for is the locked source's.                                        *)
LEMMA AdmitKeeps ==
  ASSUME NEW s, Sound(s), NEW m \in Macs, NEW r \in RssiRange, NEW mode \in Modes,
         NEW rel \in BOOLEAN, NEW t \in Clock, MaxSources >= 2
  PROVE  LET u == Admit(s, m, r, mode, rel, t)
         IN  /\ Keeps(s, u)
             /\ ~Filtered(s, rel) => Locked(u) /\ Fresh(u, t)
             /\ Admitted(s, m, r, mode, rel, t) => Locked(u) /\ LockedMac(u) = m
<1> DEFINE i == SlotFor(s, m, t)
           a == FindOrAdd(s, i, m, t)
           b == Refresh(a, i, r, mode, rel, t)
           c == ReleaseStale(b, t)
           d == Decide(c, i, t)
           u == IF d.locked = i THEN [d EXCEPT !.mode = mode] ELSE d
<1>1. CASE Filtered(s, rel)
  BY <1>1 DEF Admit, Admitted, Keeps
<1>2. CASE ~Filtered(s, rel)
  <2>1. i \in Slots
    BY SlotForIn DEF Sound
  <2>2. Keeps(s, a) /\ Sound(a) /\ a.src[i].used /\ a.src[i].mac = m
    BY FindOrAddKeeps DEF Keeps
  <2>3. Follows(a, b) /\ Sound(b)
    BY <2>1, <2>2, RefreshFollows DEF Follows, Keeps
  <2>4. Follows(b, c) /\ Sound(c)
    BY <2>3, ReleaseStaleFollows DEF Follows, Keeps
  <2>5. c.src[i].used /\ c.src[i].mac = m
    BY <2>1, <2>2, <2>3, <2>4 DEF Follows
  <2>6. Follows(c, d) /\ Sound(d) /\ Locked(d)
    BY <2>1, <2>4, <2>5, DecideFollows DEF Follows, Keeps
  <2>12. Fresh(d, t)
    <3>1. Fresh(c, t)
      BY <2>3, ReleaseStaleFresh
    <3>2. b.src[i].last_ms = t
      BY <2>1, <2>2 DEF Refresh, Refreshed, Sound, Selector, Source
    <3>3. c.src[i].last_ms = t
      BY <2>1, <2>3, <3>2, ReleaseStaleTimes
    <3> QED
      BY <2>1, <2>4, <2>5, <3>1, <3>3, DecideFresh
  <2> HIDE DEF i, a, b, c, d
  <2>7. /\ u \in Selector /\ u.locked = d.locked /\ u.lockChanged = d.lockChanged
        /\ u.src = d.src
    BY <2>6 DEF Sound, Selector
  <2>13. u.lockTimeoutMs = d.lockTimeoutMs
    BY <2>6 DEF Sound, Selector
  <2> HIDE DEF u
  <2>8. Follows(d, u)
    BY <2>6, <2>7, SameTableFollows
  <2>9. Keeps(s, u)
    BY <2>2, <2>3, <2>4, <2>6, <2>8, KeepsTransitive DEF Follows
  <2>10. Locked(u) /\ (u.locked = i => LockedMac(u) = m) /\ Fresh(u, t)
    BY <2>1, <2>5, <2>6, <2>7, <2>12, <2>13 DEF Locked, LockedMac, Follows, Fresh
  <2>11. Admit(s, m, r, mode, rel, t) = u
    BY <1>2 DEF Admit, AdmitAt, u, d, c, b, a, i
  <2> QED
    BY <2>9, <2>10, <2>11 DEF Admitted, i
<1> QED
  BY <1>1, <1>2

(***************************************************************************)
(* The setters.                                                            *)
(***************************************************************************)
(* Options, relay-test flag and loss counters disturb neither table nor    *)
(* lock.                                                                   *)
LEMMA SettersKeep ==
  ASSUME NEW s, Sound(s)
  PROVE  /\ \A on \in BOOLEAN : Follows(s, SetRelayTestOnly(s, on))
         /\ \A d \in Nat, e \in BOOLEAN : Follows(s, SetOptions(s, d, e))
         /\ \A x, y \in Nat : Follows(s, NoteLockLoss(s, x, y))
<1>1. ASSUME NEW on \in BOOLEAN PROVE Follows(s, SetRelayTestOnly(s, on))
  <2> DEFINE u == SetRelayTestOnly(s, on)
  <2>1. /\ u \in Selector /\ u.locked = s.locked /\ u.lockChanged = s.lockChanged
        /\ u.src = s.src
    BY DEF SetRelayTestOnly, Sound, Selector
  <2> HIDE DEF u
  <2>2. Follows(s, u)
    BY <2>1, SameTableFollows
  <2> QED
    BY <2>2 DEF u
<1>2. ASSUME NEW d \in Nat, NEW e \in BOOLEAN PROVE Follows(s, SetOptions(s, d, e))
  <2> DEFINE u == SetOptions(s, d, e)
  <2>1. /\ u \in Selector /\ u.locked = s.locked /\ u.lockChanged = s.lockChanged
        /\ u.src = s.src
    BY DEF SetOptions, Sound, Selector
  <2> HIDE DEF u
  <2>2. Follows(s, u)
    BY <2>1, SameTableFollows
  <2> QED
    BY <2>2 DEF u
<1>3. ASSUME NEW x \in Nat, NEW y \in Nat PROVE Follows(s, NoteLockLoss(s, x, y))
  <2> DEFINE u == NoteLockLoss(s, x, y)
  <2>1. s.winLost + x \in Nat /\ s.winRecovered + y \in Nat
    BY DEF Sound, Selector
  <2>2. /\ u \in Selector /\ u.locked = s.locked /\ u.lockChanged = s.lockChanged
        /\ u.src = s.src
    BY <2>1 DEF NoteLockLoss, Sound, Selector
  <2> HIDE DEF u
  <2>3. Follows(s, u)
    BY <2>2, SameTableFollows
  <2> QED
    BY <2>3 DEF u
<1> QED
  BY <1>1, <1>2, <1>3

(* Consuming the lock change leaves the lock.                              *)
LEMMA ConsumeKeepsLock ==
  ASSUME NEW s, Sound(s)
  PROVE  LET u == ConsumeLockChanged(s)
         IN  Sound(u) /\ ~u.lockChanged /\ u.locked = s.locked /\ u.src = s.src
<1> DEFINE u == ConsumeLockChanged(s)
<1>1. u \in Selector /\ ~u.lockChanged /\ u.locked = s.locked /\ u.src = s.src
  BY DEF ConsumeLockChanged, Sound, Selector
<1>2. RememberedSlot(u) = RememberedSlot(s)
  BY <1>1 DEF RememberedSlot
<1> QED
  BY <1>1, <1>2 DEF Sound, Table
=============================================================================
