-------------------------- MODULE ReceiverThreads --------------------------
(***************************************************************************)
(* One StreamDecoder between the Wi-Fi task, in onPacket(), and the        *)
(* application's loop, in tick() and in the controls, at the grain of      *)
(* their accesses to what they share: the request flags, the selector's    *)
(* lock and times, the pending events.                                     *)
(*                                                                         *)
(* HapbeatStreamDecoder.h asks for one writer: idleTick() belongs on the   *)
(* thread of onPacket().  HapbeatEspNowRx::tick() calls it on the loop.    *)
(* idler says which of the two a behaviour does.                           *)
(*                                                                         *)
(* Source k holds slot k of the table; no RSSI is known, as on             *)
(* arduino-esp32 2.0.x, and the rate window is left to SourceSelector.tla. *)
(* Times are kept as ages: heard[k] is how long ago last_ms is, and a      *)
(* thread's lag is how old the now it works with has become.               *)
(***************************************************************************)
EXTENDS Integers

CONSTANTS
  Count,         \* transmitters, source k in slot k
  Relayed,       \* those whose packets come with the RELAYED bit
  Modes,         \* the modes each of them may send
  LOCK_TIMEOUT, SEL_BLACKLIST_MS,
  Idlers,        \* {"wifi"}, {"loop"} or both: who calls idleTick()
  MaxLag         \* bound: per thread, how long a call takes

Sources == 0 .. Count - 1
Locks == -1 - Count .. Count - 1
Threads == {"wifi", "loop"}
Lags == IF MaxLag["wifi"] > MaxLag["loop"] THEN MaxLag["wifi"] ELSE MaxLag["loop"]
Never == LOCK_TIMEOUT + Lags + 1  \* a slot not in use, or as good as: whatever the
                                    \* now it is compared with, past the lock timeout
Wrapped == Never + 1                \* a last_ms after now: the uint32_t difference

ASSUME ThreadsAssumption ==
  /\ Count \in Nat \ {0} /\ Relayed \subseteq Sources
  /\ {LOCK_TIMEOUT, SEL_BLACKLIST_MS} \subseteq Nat /\ MaxLag \in [Threads -> Nat]
  /\ Modes \in [Sources -> SUBSET Nat]
  /\ Idlers \subseteq Threads

VARIABLES
  idler,
  lock,     \* _locked: a slot, -1 never locked, -2 - slot released
  changed,  \* _lockChanged
  relay,    \* the selector's _relayTest
  heard,    \* per source, the age of last_ms
  cool,     \* per source, what is left of blacklist_until
  req,      \* _reqRelock, _reqRelayTest, _relayTestOn
  dec,      \* whose packets _expectedSeq follows (-1: ~_seqInit), _mode
  event,    \* _pendingLockEvt, _pendingModeEvt
  th,       \* per thread: where it is, its now, its locals
  view,     \* what the application was told last
  h         \* history: forceRelock() not yet served, the last splice, and
            \* whether onPacket() and idleTick() have ever overlapped

selector == <<lock, changed, relay, heard, cool>>
shared == <<req, dec, event>>
vars == <<idler, selector, shared, th, view, h>>

Places == {"idle", "relay", "was", "on", "relock", "force", "refresh", "stale", "drop", "decide",
           "look", "clear", "decode", "flag", "lockEvt", "locked", "mac",
           "modeEvt"}

(* m: the packet's source; l, b: what was read; take: admit()'s result;    *)
(* last: in tick(), the rest of onPacket() and all of idleTick().          *)
Resting == [pc |-> "idle", lag |-> 0, m |-> 0, l |-> -1, b |-> FALSE, take |-> FALSE,
            last |-> FALSE]

TypeOK ==
  /\ idler \in Threads
  /\ lock \in Locks /\ {changed, relay} \subseteq BOOLEAN
  /\ heard \in [Sources -> 0 .. Never] /\ cool \in [Sources -> -Lags .. SEL_BLACKLIST_MS]
  /\ req \in [relock : BOOLEAN, relayTest : BOOLEAN, on : BOOLEAN]
  /\ dec \in [follows : Sources \cup {-1}, mode : Nat]
  /\ event \in [lock : BOOLEAN, mode : BOOLEAN]
  /\ th \in [Threads -> [pc : Places, lag : 0 .. Lags, m : Sources, l : Locks,
                         b : BOOLEAN, take : BOOLEAN, last : BOOLEAN]]
  /\ view \in [locked : BOOLEAN, mac : Sources \cup {-1}, mode : Nat]
  /\ h \in [asked : BOOLEAN, splice : BOOLEAN, overlap : BOOLEAN]

Init ==
  /\ idler \in Idlers
  /\ lock = -1 /\ changed = FALSE /\ relay = FALSE
  /\ heard = [k \in Sources |-> Never] /\ cool = [k \in Sources |-> -Lags]
  /\ req = [relock |-> FALSE, relayTest |-> FALSE, on |-> FALSE]
  /\ dec = [follows |-> -1, mode |-> 0]
  /\ event = [lock |-> FALSE, mode |-> FALSE]
  /\ th = [t \in Threads |-> Resting]
  /\ view = [locked |-> FALSE, mac |-> -1, mode |-> 0]
  /\ h = [asked |-> FALSE, splice |-> FALSE, overlap |-> FALSE]

At(t, pc) == th[t].pc = pc

(* idleTick() on the loop, or the same part of onPacket() on the Wi-Fi     *)
(* task.                                                                   *)
InTick(t) == th[t].pc \in {"stale", "drop", "look", "clear"}

Go(t, pc) == th' = [th EXCEPT ![t].pc = pc]
GoWith(t, pc, b) == th' = [th EXCEPT ![t].pc = pc, ![t].b = b]
Tick(t) == th' = [th EXCEPT ![t] = [Resting EXCEPT !.pc = "stale", !.last = TRUE,
                                                   !.lag = th[t].lag]]
Start(t, pc) == th' = [th EXCEPT ![t] = [Resting EXCEPT !.pc = pc]]
Return(t) == th' = [th EXCEPT ![t] = Resting]

(***************************************************************************)
(* The selector, as thread t sees it.                                      *)
(***************************************************************************)
Elapsed(t, k) ==
  IF heard[k] >= th[t].lag THEN heard[k] - th[t].lag ELSE Wrapped

(* Mutant: off by one.                                                     *)
EncodeReleasedLow(l) == -3 - l

EncodeReleased(l) == -2 - l

(* pickReLockTarget: with no RSSI, the first live slot not blacklisted.    *)
Live(t) == {k \in Sources : Elapsed(t, k) < LOCK_TIMEOUT /\ cool[k] + th[t].lag <= 0}
Target(t) == IF Live(t) = {} THEN -1 ELSE CHOOSE k \in Live(t) : \A j \in Live(t) : k <= j

Acquire(k) == lock' = k /\ changed' = TRUE

LockedMac == IF lock >= 0 THEN lock ELSE -1

(* Mutant: a lock released at its timeout rather than past it.             *)
StaleEarly(t) ==
  /\ At(t, "stale")
  /\ LET stale == lock >= 0 /\ Elapsed(t, lock) >= LOCK_TIMEOUT
     IN  th' = [th EXCEPT ![t].pc = IF stale THEN "drop"
                                    ELSE IF th[t].last THEN "look" ELSE "decide",
                          ![t].l = IF stale THEN lock ELSE -1]
  /\ UNCHANGED <<idler, selector, shared, view, h>>

(* The release of a stale lock, in admit() and in tick().                  *)
Stale(t) ==
  /\ At(t, "stale")
  /\ LET stale == lock >= 0 /\ Elapsed(t, lock) > LOCK_TIMEOUT
     IN  th' = [th EXCEPT ![t].pc = IF stale THEN "drop"
                                    ELSE IF th[t].last THEN "look" ELSE "decide",
                          ![t].l = IF stale THEN lock ELSE -1]
  /\ UNCHANGED <<idler, selector, shared, view, h>>

(* _locked is a plain int: it is read again, or it is not.                 *)
Drop(t) ==
  /\ At(t, "drop")
  /\ \E l \in {th[t].l, lock} :
       IF Target(t) >= 0 /\ Target(t) # l THEN Acquire(Target(t))
       ELSE lock' = EncodeReleased(l) /\ UNCHANGED changed
  /\ th' = [th EXCEPT ![t].pc = IF th[t].last THEN "look" ELSE "decide", ![t].l = -1]
  /\ UNCHANGED <<idler, relay, heard, cool, shared, view, h>>

(* consumeLockChanged(): read, then clear; and what a change entails.      *)
Look(t) ==
  /\ At(t, "look") /\ GoWith(t, "clear", changed)
  /\ UNCHANGED <<idler, selector, shared, view, h>>

(* Mutant: the sequence tracking goes on.                                  *)
ClearFollowing(t) ==
  /\ At(t, "clear") /\ changed' = FALSE
  /\ event' = [event EXCEPT !.lock = @ \/ th[t].b]
  /\ IF th[t].last THEN Return(t) ELSE GoWith(t, "decode", FALSE)
  /\ UNCHANGED <<idler, lock, relay, heard, cool, req, dec, view, h>>

Clear(t) ==
  /\ At(t, "clear") /\ changed' = FALSE
  /\ dec' = [dec EXCEPT !.follows = IF th[t].b THEN -1 ELSE @]
  /\ event' = [event EXCEPT !.lock = @ \/ th[t].b]
  /\ IF th[t].last THEN Return(t) ELSE GoWith(t, "decode", FALSE)
  /\ UNCHANGED <<idler, lock, relay, heard, cool, req, view, h>>

(***************************************************************************)
(* onPacket() on the Wi-Fi task: the requests, admit(), decoding, tick().  *)
(***************************************************************************)
OnPacket(m) ==
  /\ At("wifi", "idle")
  /\ th' = [th EXCEPT !["wifi"] = [Resting EXCEPT !.pc = "relay", !.m = m]]
  /\ h' = [h EXCEPT !.overlap = @ \/ InTick("loop")]
  /\ UNCHANGED <<idler, selector, shared, view>>

ConsumeRelayTest ==
  /\ At("wifi", "relay")
  /\ req' = [req EXCEPT !.relayTest = FALSE]
  /\ Go("wifi", IF req.relayTest THEN "was" ELSE "relock")
  /\ UNCHANGED <<idler, selector, dec, event, view, h>>

SwitchRelayTest ==
  /\ At("wifi", "was")
  /\ relay' = req.on /\ GoWith("wifi", "on", relay)
  /\ UNCHANGED <<idler, lock, changed, heard, cool, shared, view, h>>

(* Mutants: the flag cleared late; a forceRelock() overwritten.            *)
ClearLate ==
  /\ At("wifi", "on")
  /\ req' = [req EXCEPT !.relock = @ \/ (req.on /\ ~th["wifi"].b), !.relayTest = FALSE]
  /\ GoWith("wifi", "relock", FALSE)
  /\ UNCHANGED <<idler, selector, dec, event, view, h>>

OverwriteRelock ==
  /\ At("wifi", "on")
  /\ req' = [req EXCEPT !.relock = req.on /\ ~th["wifi"].b]
  /\ GoWith("wifi", "relock", FALSE)
  /\ UNCHANGED <<idler, selector, dec, event, view, h>>

RelockForRelayTest ==
  /\ At("wifi", "on")
  /\ req' = [req EXCEPT !.relock = @ \/ (req.on /\ ~th["wifi"].b)]
  /\ GoWith("wifi", "relock", FALSE)
  /\ UNCHANGED <<idler, selector, dec, event, view, h>>

ConsumeRelock ==
  /\ At("wifi", "relock")
  /\ req' = [req EXCEPT !.relock = FALSE]
  /\ Go("wifi", IF req.relock THEN "force" ELSE "refresh")
  /\ UNCHANGED <<idler, selector, dec, event, view, h>>

ForceRelock ==
  /\ At("wifi", "force")
  /\ IF lock >= 0 THEN /\ cool' = [cool EXCEPT ![lock] = SEL_BLACKLIST_MS - th["wifi"].lag]
                       /\ lock' = EncodeReleased(lock)
                  ELSE UNCHANGED <<cool, lock>>
  /\ dec' = [dec EXCEPT !.follows = -1]
  /\ h' = [h EXCEPT !.asked = FALSE]
  /\ Go("wifi", "refresh")
  /\ UNCHANGED <<idler, changed, relay, heard, req, event, view>>

NotTaken == th' = [th EXCEPT !["wifi"] = [Resting EXCEPT !.pc = "look", !.lag = th["wifi"].lag]]

Refresh ==
  /\ At("wifi", "refresh")
  /\ IF relay /\ th["wifi"].m \notin Relayed THEN NotTaken /\ UNCHANGED heard
     ELSE Go("wifi", "stale") /\ heard' = [heard EXCEPT ![th["wifi"].m] = th["wifi"].lag]
  /\ UNCHANGED <<idler, lock, changed, relay, cool, shared, view, h>>

Decide ==
  /\ At("wifi", "decide")
  /\ IF lock >= 0 THEN UNCHANGED <<lock, changed>>
     ELSE Acquire(IF Target("wifi") >= 0 THEN Target("wifi") ELSE th["wifi"].m)
  /\ IF lock' = th["wifi"].m THEN th' = [th EXCEPT !["wifi"].pc = "look", !["wifi"].take = TRUE]
                            ELSE NotTaken
  /\ UNCHANGED <<idler, relay, heard, cool, shared, view, h>>

(* Packets are well formed here: StreamDecoder.tla has those that are not. *)
Decode ==
  /\ At("wifi", "decode") /\ Tick("wifi")
  /\ \/ ~th["wifi"].take /\ UNCHANGED <<dec, event, h>>
     \/ \E mode \in Modes[th["wifi"].m] :
          LET m == th["wifi"].m
              moded == mode # dec.mode
          IN  /\ th["wifi"].take
              /\ dec' = [follows |-> m, mode |-> mode]
              /\ event' = [event EXCEPT !.mode = @ \/ moded]
              /\ h' = [h EXCEPT !.splice = ~moded /\ dec.follows \notin {-1, m}]
  /\ UNCHANGED <<idler, selector, req, view>>

IdleTickOnWifi ==
  /\ idler = "wifi" /\ At("wifi", "idle")
  /\ Tick("wifi")
  /\ UNCHANGED <<idler, selector, shared, view, h>>

(***************************************************************************)
(* The controls, on the loop.                                              *)
(***************************************************************************)
RequestRelock ==
  /\ At("loop", "idle")
  /\ req' = [req EXCEPT !.relock = TRUE] /\ h' = [h EXCEPT !.asked = TRUE]
  /\ UNCHANGED <<idler, selector, dec, event, th, view>>

SetRelayTestOnly(on) ==
  /\ At("loop", "idle")
  /\ req' = [req EXCEPT !.on = on] /\ Start("loop", "flag")
  /\ UNCHANGED <<idler, selector, dec, event, view, h>>

RaiseRelayTest ==
  /\ At("loop", "flag")
  /\ req' = [req EXCEPT !.relayTest = TRUE] /\ Return("loop")
  /\ UNCHANGED <<idler, selector, dec, event, view, h>>

(***************************************************************************)
(* HapbeatEspNowRx::tick(): now, dispatchDeferred(), idleTick(now).  Each  *)
(* flag is cleared before what it announces is read, and the lock and its  *)
(* MAC are two reads.  A callback may take its time.                       *)
(***************************************************************************)
LoopTick ==
  /\ At("loop", "idle") /\ Start("loop", "lockEvt")
  /\ UNCHANGED <<idler, selector, shared, view, h>>

TakeLockEvent ==
  /\ At("loop", "lockEvt")
  /\ event' = [event EXCEPT !.lock = FALSE]
  /\ Go("loop", IF event.lock THEN "locked" ELSE "modeEvt")
  /\ UNCHANGED <<idler, selector, req, dec, view, h>>

ReadLocked ==
  /\ At("loop", "locked") /\ GoWith("loop", "mac", lock >= 0)
  /\ UNCHANGED <<idler, selector, shared, view, h>>

(* Mutant: the flag is cleared once the event has been delivered.          *)
LockCallbackThenClear ==
  /\ At("loop", "mac") /\ Go("loop", "modeEvt")
  /\ view' = [view EXCEPT !.locked = th["loop"].b, !.mac = IF th["loop"].b THEN LockedMac ELSE -1]
  /\ event' = [event EXCEPT !.lock = FALSE]
  /\ UNCHANGED <<idler, selector, req, dec, h>>

LockCallback ==
  /\ At("loop", "mac") /\ GoWith("loop", "modeEvt", FALSE)
  /\ view' = [view EXCEPT !.locked = th["loop"].b, !.mac = IF th["loop"].b THEN LockedMac ELSE -1]
  /\ UNCHANGED <<idler, selector, shared, h>>

ModeCallback ==
  /\ At("loop", "modeEvt")
  /\ event' = [event EXCEPT !.mode = FALSE]
  /\ view' = [view EXCEPT !.mode = IF event.mode THEN dec.mode ELSE @]
  /\ IF idler = "loop" THEN Tick("loop") ELSE Return("loop")
  /\ h' = [h EXCEPT !.overlap = @ \/ (idler = "loop" /\ ~At("wifi", "idle"))]
  /\ UNCHANGED <<idler, selector, req, dec>>

(***************************************************************************)
(* Time.  A call in progress works with the now it began with.             *)
(***************************************************************************)
UsesNow(t) == th[t].pc \notin {"idle", "flag"} /\ (t = "loop" => idler = "loop")

Time ==
  /\ \A t \in Threads : UsesNow(t) => th[t].lag < MaxLag[t]
  /\ th' = [t \in Threads |-> [th[t] EXCEPT !.lag = IF UsesNow(t) THEN @ + 1 ELSE @]]
  /\ heard' = [k \in Sources |-> IF heard[k] < Never THEN heard[k] + 1 ELSE heard[k]]
  /\ cool' = [k \in Sources |-> IF cool[k] > -Lags THEN cool[k] - 1 ELSE cool[k]]
  /\ UNCHANGED <<idler, lock, changed, relay, shared, view, h>>

OfSelector(t) == Stale(t) \/ Drop(t) \/ Look(t) \/ Clear(t)

OfPacket == ConsumeRelayTest \/ SwitchRelayTest \/ RelockForRelayTest \/ ConsumeRelock
            \/ ForceRelock \/ Refresh \/ Decide \/ Decode

OfLoop == RaiseRelayTest \/ TakeLockEvent \/ ReadLocked \/ LockCallback
          \/ ModeCallback

Next ==
  \/ \E t \in Threads : OfSelector(t)
  \/ (\E m \in Sources : OnPacket(m)) \/ IdleTickOnWifi
  \/ OfPacket
  \/ RequestRelock \/ (\E on \in BOOLEAN : SetRelayTestOnly(on)) \/ LoopTick
  \/ OfLoop
  \/ Time

Spec == Init /\ [][Next]_vars

(***************************************************************************)
(* Properties.                                                             *)
(***************************************************************************)
(* However setRelayTestOnly() calls and packets interleave, once the       *)
(* requests are consumed the filter is what was asked for last.            *)
RelayTestFollows ==
  ~req.relayTest /\ ~At("loop", "flag") /\ ~At("wifi", "was") => relay = req.on

(* A forceRelock() is never lost between the flag and its effect.          *)
RelockNotLost == h.asked => req.relock \/ At("wifi", "force")

(* The application ends up with the mode in force and, as long as          *)
(* onPacket() and idleTick() have not overlapped, with the lock: no event  *)
(* raised while another is being delivered is lost.                        *)
ViewFollows ==
  /\ ~event.mode => view.mode = dec.mode
  /\ ~h.overlap /\ At("wifi", "idle") /\ ~InTick("loop") /\ ~event.lock /\ lock >= 0
       => (view.locked /\ view.mac = lock) \/ At("loop", "locked") \/ At("loop", "mac")

(* Whichever thread calls idleTick(), only an overlap of the two calls     *)
(* mixes two sources: apart, a packet is decoded with the tracking         *)
(* restarted or following its own source's.                                *)
SpliceNeedsOverlap == h.splice => h.overlap

(* Apart, a lock is left only when forceRelock() asks for it, when its     *)
(* source has not been heard for the lock timeout, or when it was heard    *)
(* after the now the loop's tick() works with (StaleNow.cfg).              *)
LockLeftForCause ==
  [][lock >= 0 /\ lock' # lock /\ ~h.overlap
       => At("wifi", "force") \/ heard[lock] > LOCK_TIMEOUT \/ heard[lock] < th["loop"].lag]_vars

(* The next two are what HapbeatStreamDecoder.h's threading gives, and the *)
(* loop's idleTick() does not keep: a lock is dropped only when asked for  *)
(* or silent for the lock timeout, and two sources are never mixed.        *)
LiveLockKept ==
  [][lock >= 0 /\ lock' # lock => At("wifi", "force") \/ heard[lock] > LOCK_TIMEOUT]_vars

NoSplice == ~h.splice

(* A lock event that says locked names the source.                         *)
EventNamesSource == view.locked => view.mac # -1
=============================================================================
