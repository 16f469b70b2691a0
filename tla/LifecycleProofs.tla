-------------------------- MODULE LifecycleProofs --------------------------
(***************************************************************************)
(* What begin() and end() leave behind, for any set of receivers, channels *)
(* and audio tasks, any number of attempts and of late STA events.  Two    *)
(* assumptions are not about the size of the system: end() is called on a  *)
(* receiver that runs (~Stray), and the unregistering of the callback      *)
(* waits for one that runs (Blocking).  Each theorem names the ones it     *)
(* needs; StrayEnd.cfg, EndInCallback.cfg and TwoConsumers.cfg show what   *)
(* becomes of the properties without them.                                 *)
(***************************************************************************)
EXTENDS Lifecycle, FiniteSetTheorems, TLAPS

(***************************************************************************)
(* The inductive invariants.                                               *)
(***************************************************************************)
Begins == {"ring", "i2s", "radio"}
Locks == {"tune", "verify"}                 \* of begin() or of setChannel()
Ends == {"unregister", "stop", "wait", "uninstall", "free"}

(* lockChannel works for the channel that channel() returns, and outside   *)
(* it the radio is on that channel unless excused.                         *)
Tuned ==
  /\ app.call \in Locks => radio.channel = app.channel
  /\ app.call \notin Locks /\ radio.started /\ ~excused => hw.channel = radio.channel

(* s_instance is the only receiver that holds anything, and the one every  *)
(* call but setChannel() works for; it is given back when it holds nothing.*)
HolderOnly ==
  \A r \in Receivers : rx[r].started \/ rx[r].ownsRing \/ rx[r].ownsI2s => r = instance

HolderCalls ==
  /\ app.call \in Begins \cup Ends => instance \in Receivers /\ app.rx = instance
  /\ app.call \in Locks =>
       instance \in Receivers /\ app.rx \in Receivers /\ (radio.started \/ app.rx = instance)
  /\ app.call = "idle" /\ instance \in Receivers => rx[instance].started

(* The transport is started while the receiver is, but for the end of      *)
(* end(); begin() finds neither.                                           *)
StartedTogether ==
  /\ radio.started => /\ instance \in Receivers /\ rx[instance].started
                      /\ app.call \in {"idle", "unregister"} \cup Locks
  /\ \A r \in Receivers : rx[r].started =>
       app.call \notin Begins /\ (app.call \in {"idle", "unregister"} \cup Locks => radio.started)

(* ESP-NOW is up, and the callback registered for the holder, from the     *)
(* moment begin() gets that far until end() unregisters; before and after, *)
(* ESP-NOW is as the application had it.                                   *)
RadioUp == radio.started \/ app.call \in Locks

RadioHeld ==
  /\ RadioUp => radio.user = instance /\ hw.callback /\ hw.up /\ (radio.owns <=> ~hw.theirs)
  /\ ~RadioUp => radio.user = NoRx /\ ~hw.callback /\ (hw.up <=> hw.theirs)
  /\ app.call \in Begins /\ app.init => ~hw.theirs

(* The flags of a receiver say what it has, and each call what it has yet  *)
(* to bring up or to take down.                                            *)
SoundHeld ==
  /\ \A r \in Receivers : /\ buffer[r] <=> rx[r].ownsRing
                          /\ i2s[r].running \/ i2s[r].task => rx[r].ownsI2s
  /\ driver <=> \E r \in Receivers : rx[r].ownsI2s

SoundOfCall ==
  /\ app.call = "ring" => ~rx[app.rx].ownsRing
  /\ app.call \in {"ring", "i2s"} => app.out # "own"
  /\ app.call \in {"ring", "i2s", "free"} => ~rx[app.rx].ownsI2s
  /\ app.call = "radio" /\ app.out = "own" => ~rx[app.rx].ownsRing /\ ~rx[app.rx].ownsI2s
  /\ app.call \in {"stop", "wait", "uninstall"} => rx[app.rx].ownsI2s
  /\ app.call \in {"wait", "uninstall"} => ~i2s[app.rx].running
  /\ app.call = "uninstall" => ~i2s[app.rx].task

Held == HolderOnly /\ HolderCalls /\ StartedTogether /\ RadioHeld /\ SoundHeld /\ SoundOfCall

(* A task is gone, or its receiver still counts it, and counts no other;   *)
(* until end() gives up on one.                                            *)
Counted ==
  \A r \in Receivers, k \in Workers : audio[<<r, k>>] # "gone" =>
    i2s[r].task /\ \A j \in Workers : audio[<<r, j>>] # "gone" => j = k
TasksCounted == gaveUp \/ Counted

(* A callback that runs was handed the receiver that is registered.        *)
Receiving == wifi # NoRx => wifi = radio.user

(***************************************************************************)
(* The types, a name to each.                                              *)
(***************************************************************************)
Flags == [started : BOOLEAN, ownsRing : BOOLEAN, ownsI2s : BOOLEAN]
Transport == [user : Receivers \cup {NoRx}, channel : {1, 6, 11}, owns : BOOLEAN,
              started : BOOLEAN]
Sinks == [running : BOOLEAN, task : BOOLEAN]
Points == {"gone", "top", "read", "write"}
Radios == [callback : BOOLEAN, up : BOOLEAN, theirs : BOOLEAN, channel : {1, 6, 11},
           events : 0 .. MaxEvents]
Threads == [call : Calls, rx : Receivers \cup {NoRx}, out : Outputs, channel : Channels \cup {1},
            init : BOOLEAN, tries : 0 .. Tries]

Typed ==
  /\ rx \in [Receivers -> Flags] /\ instance \in Receivers \cup {NoRx} /\ radio \in Transport
  /\ buffer \in [Receivers -> BOOLEAN] /\ i2s \in [Receivers -> Sinks] /\ driver \in BOOLEAN
  /\ audio \in [Receivers \X Workers -> Points] /\ wifi \in Receivers \cup {NoRx}
  /\ hw \in Radios /\ app \in Threads
  /\ wedged \in BOOLEAN /\ gaveUp \in BOOLEAN /\ excused \in BOOLEAN

(* TypeOK with a name to each type of record.                              *)
LEMMA TypedIsTypeOK == TypeOK <=> Typed
  BY DEF TypeOK, Typed, Flags, Transport, Sinks, Points, Radios, Threads

(***************************************************************************)
(* What an assignment to a field changes, and what it leaves.              *)
(***************************************************************************)
(* GoTo changes the call, and nothing else of the thread.                  *)
LEMMA Goes ==
  ASSUME app \in Threads, NEW c \in Calls, GoTo(c)
  PROVE  /\ app' \in Threads /\ app'.call = c /\ app'.rx = app.rx /\ app'.out = app.out
         /\ app'.channel = app.channel /\ app'.init = app.init
<1> DEFINE b == app'
<1>1. b = [app EXCEPT !.call = c]
  BY DEF GoTo
<1> HIDE DEF b
<1>2. b \in Threads /\ b.call = c /\ b.rx = app.rx /\ b.out = app.out
      /\ b.channel = app.channel /\ b.init = app.init
  BY <1>1 DEF Threads
<1> QED
  BY <1>2 DEF b

(* The thread between two calls.                                           *)
LEMMA AtRest == Returned \in Threads /\ Returned.call = "idle"
  BY LifecycleAssumption DEF Returned, Threads, Calls, Outputs

(* The statics begin() stores, of their types.                             *)
LEMMA SetsStatics ==
  ASSUME radio \in Transport, app \in Threads, NEW u \in Receivers \cup {NoRx},
         app.channel \in {1, 6, 11}, Statics(u)
  PROVE  /\ radio' \in Transport /\ radio'.user = u /\ radio'.channel = app.channel
         /\ radio'.owns = app.init /\ radio'.started = radio.started
<1> DEFINE s == radio'
<1>1. s = [radio EXCEPT !.user = u, !.channel = app.channel, !.owns = app.init]
  BY DEF Statics
<1>2. app.init \in BOOLEAN
  BY DEF Threads
<1> HIDE DEF s
<1>3. /\ s \in Transport /\ s.user = u /\ s.channel = app.channel
      /\ s.owns = app.init /\ s.started = radio.started
  BY <1>1, <1>2 DEF Transport
<1> QED
  BY <1>3 DEF s

(***************************************************************************)
(* Every call, task and event.  Known holds of any application, Held of    *)
(* one that ends what runs.                                                *)
(***************************************************************************)
OnReceiver == app.call # "idle" => app.rx \in Receivers
Known == Typed /\ OnReceiver /\ Tuned

(* begin() finds no receiver that holds anything: s_instance is free.      *)
LEMMA BeginStep ==
  ASSUME Known, NEW c \in Receivers, NEW out \in Outputs, NEW ch \in Channels,
         NEW init \in BOOLEAN, init => ~hw.theirs, Begin(c, out, ch, init)
  PROVE  Known' /\ (~Stray /\ Held => Held')
<1> DEFINE a == app'
<1>1. a = [Returned EXCEPT !.call = IF out = "own" THEN "radio" ELSE "ring",
                           !.rx = c, !.out = out, !.channel = ch, !.init = init]
  BY DEF Begin
<1> HIDE DEF a
<1>2. a \in Threads /\ a.call \in {"ring", "radio"} /\ a.rx = c /\ a.out = out /\ a.init = init
      /\ (a.call = "radio" <=> a.out = "own")
  BY <1>1, AtRest DEF Threads, Calls
<1>3. UNCHANGED <<rx, radio, buffer, i2s, driver, audio, wifi, hw, wedged, gaveUp, excused>>
      /\ instance' = c /\ app.call = "idle" /\ ~rx[c].started /\ instance \in {c, NoRx}
  BY DEF Begin, sound, history
<1>4. Known'
  BY <1>2, <1>3 DEF Known, Typed, OnReceiver, Tuned, Locks, a
<1>5. ASSUME Held PROVE Held'
  <2>1. instance = NoRx
    BY <1>3, <1>5 DEF Held, HolderCalls
  <2>2. \A o \in Receivers : ~rx[o].started /\ ~rx[o].ownsRing /\ ~rx[o].ownsI2s
    BY <2>1, <1>5, LifecycleAssumption DEF Held, HolderOnly
  <2>3. ~radio.started
    BY <2>1, <1>5, LifecycleAssumption DEF Held, StartedTogether
  <2>4. HolderOnly' /\ HolderCalls' /\ StartedTogether'
    BY <1>2, <1>3, <2>2, <2>3
       DEF HolderOnly, HolderCalls, StartedTogether, Begins, Ends, Locks, a
  <2>5. RadioHeld'
    BY <1>2, <1>3, <1>5, <2>3 DEF Held, RadioHeld, RadioUp, Locks, Begins, a
  <2>6. SoundHeld' /\ SoundOfCall'
    BY <1>2, <1>3, <1>5, <2>2 DEF Held, SoundHeld, SoundOfCall, a
  <2> QED
    BY <2>4, <2>5, <2>6 DEF Held
<1> QED
  BY <1>4, <1>5

(* The ring allocated, or begin() failed with nothing.                     *)
LEMMA BeginRingStep ==
  ASSUME Known, BeginRing
  PROVE  Known' /\ (~Stray /\ Held => Held')
<1>1. app.call = "ring" /\ app.rx \in Receivers /\ app \in Threads /\ rx \in [Receivers -> Flags]
      /\ buffer \in [Receivers -> BOOLEAN]
  BY DEF BeginRing, Known, OnReceiver, Typed
<1>2. UNCHANGED <<radio, i2s, driver, audio, wifi, hw, wedged, gaveUp, excused>>
  BY DEF BeginRing, sound, history
<1>3. CASE GoTo(IF app.out = "i2s" THEN "i2s" ELSE "radio")
           /\ buffer' = [buffer EXCEPT ![app.rx] = TRUE]
           /\ rx' = [rx EXCEPT ![app.rx].ownsRing = TRUE] /\ UNCHANGED instance
  <2>1. /\ app' \in Threads /\ app'.call \in {"i2s", "radio"} /\ app'.rx = app.rx
        /\ app'.out = app.out /\ app'.init = app.init
        /\ (app'.call = "i2s" <=> app.out = "i2s")
    BY <1>1, <1>3, Goes DEF Calls
  <2>2. /\ rx' \in [Receivers -> Flags] /\ \A o \in Receivers \ {app.rx} : rx'[o] = rx[o]
        /\ rx'[app.rx].ownsRing /\ rx'[app.rx].started = rx[app.rx].started
        /\ rx'[app.rx].ownsI2s = rx[app.rx].ownsI2s
    <3>1. rx' = [rx EXCEPT ![app.rx].ownsRing = TRUE]
      BY <1>3
    <3> QED
      BY <1>1, <3>1 DEF Flags
  <2>3. Known'
    BY <1>1, <1>2, <1>3, <2>1, <2>2 DEF Known, Typed, OnReceiver, Tuned, Locks
  <2>4. ASSUME Held PROVE Held'
    <3>1. HolderOnly' /\ HolderCalls' /\ StartedTogether'
      BY <1>1, <1>2, <1>3, <2>1, <2>2, <2>4
         DEF Held, HolderOnly, HolderCalls, StartedTogether, Begins, Ends, Locks
    <3>2. RadioHeld'
      BY <1>1, <1>2, <1>3, <2>1, <2>4 DEF Held, RadioHeld, RadioUp, Locks, Begins
    <3>3. SoundHeld' /\ SoundOfCall'
      BY <1>1, <1>2, <1>3, <2>1, <2>2, <2>4 DEF Held, SoundHeld, SoundOfCall
    <3> QED
      BY <3>1, <3>2, <3>3 DEF Held
  <2> QED
    BY <2>3, <2>4
<1>4. CASE buffer' = [buffer EXCEPT ![app.rx] = FALSE]
           /\ instance' = NoRx /\ app' = Returned /\ UNCHANGED rx
  <2>1. app' \in Threads /\ app'.call = "idle"
    BY <1>4, AtRest
  <2>3. Known'
    BY <1>1, <1>2, <1>4, <2>1 DEF Known, Typed, OnReceiver, Tuned, Locks
  <2>4. ASSUME Held PROVE Held'
    <3>1. HolderOnly' /\ HolderCalls' /\ StartedTogether'
      BY <1>1, <1>2, <1>4, <2>1, <2>4, LifecycleAssumption
         DEF Held, HolderOnly, HolderCalls, StartedTogether, SoundOfCall, Begins, Ends, Locks
    <3>2. RadioHeld'
      BY <1>1, <1>2, <1>4, <2>1, <2>4 DEF Held, RadioHeld, RadioUp, Locks, Begins, StartedTogether
    <3>3. SoundHeld' /\ SoundOfCall'
      BY <1>1, <1>2, <1>4, <2>1, <2>4 DEF Held, SoundHeld, SoundOfCall
    <3> QED
      BY <3>1, <3>2, <3>3 DEF Held
  <2> QED
    BY <2>3, <2>4
<1> QED
  BY <1>3, <1>4 DEF BeginRing

(* The task that starts is counted, and the only one.                      *)
LEMMA SoundStarts ==
  ASSUME Typed, NEW c \in Receivers, StartSound(c)
  PROVE  /\ i2s' \in [Receivers -> Sinks] /\ audio' \in [Receivers \X Workers -> Points]
         /\ \A o \in Receivers \ {c} : i2s'[o] = i2s[o]
         /\ ~i2s[c].task /\ Counted => Counted'
<1>1. PICK startTask \in BOOLEAN :
        /\ i2s' = [i2s EXCEPT ![c] = [running |-> TRUE, task |-> startTask]]
        /\ IF startTask THEN \E k \in FreeWorkers(c) : audio' = [audio EXCEPT ![<<c, k>>] = "top"]
                        ELSE UNCHANGED audio
  BY DEF StartSound
<1>2. i2s \in [Receivers -> Sinks] /\ audio \in [Receivers \X Workers -> Points]
  BY DEF Typed
<1>3. /\ i2s' \in [Receivers -> Sinks] /\ (i2s'[c].task <=> startTask)
      /\ \A o \in Receivers \ {c} : i2s'[o] = i2s[o]
  BY <1>1, <1>2 DEF Sinks
<1>4. audio' \in [Receivers \X Workers -> Points]
  BY <1>1, <1>2 DEF FreeWorkers, Points
<1>5. ASSUME ~i2s[c].task, Counted PROVE Counted'
  <2>1. CASE ~startTask
    BY <1>1, <1>3, <1>5, <2>1 DEF Counted
  <2>2. CASE startTask
    <3>1. PICK k \in Workers : audio' = [audio EXCEPT ![<<c, k>>] = "top"]
      BY <1>1, <2>2 DEF FreeWorkers
    <3>2. \A j \in Workers : audio[<<c, j>>] = "gone"
      BY <1>5 DEF Counted
    <3>3. \A j \in Workers : audio'[<<c, j>>] # "gone" => j = k
      BY <1>2, <3>1, <3>2
    <3>4. \A o \in Receivers \ {c}, j \in Workers : audio'[<<o, j>>] = audio[<<o, j>>]
      BY <1>2, <3>1
    <3> QED
      BY <1>3, <1>5, <2>2, <3>3, <3>4 DEF Counted
  <2> QED
    BY <2>1, <2>2
<1> QED
  BY <1>3, <1>4, <1>5

(* The driver and the task, or begin() failed and the ring given back.     *)
LEMMA BeginI2sStep ==
  ASSUME Known, BeginI2s
  PROVE  Known' /\ (~Stray /\ Held => Held')
<1>1. app.call = "i2s" /\ app.rx \in Receivers /\ app \in Threads /\ rx \in [Receivers -> Flags]
      /\ buffer \in [Receivers -> BOOLEAN]
  BY DEF BeginI2s, Known, OnReceiver, Typed
<1>2. UNCHANGED <<radio, wifi, hw, wedged, gaveUp, excused>>
  BY DEF BeginI2s, history
<1>3. CASE /\ ~driver /\ ~i2s[app.rx].running
           /\ driver' = TRUE /\ StartSound(app.rx)
           /\ rx' = [rx EXCEPT ![app.rx].ownsI2s = TRUE]
           /\ GoTo("radio") /\ UNCHANGED <<instance, buffer>>
  <2>1. app' \in Threads /\ app'.call = "radio" /\ app'.rx = app.rx
        /\ app'.out = app.out /\ app'.init = app.init
    BY <1>1, <1>3, Goes DEF Calls
  <2>2. /\ rx' \in [Receivers -> Flags] /\ \A o \in Receivers \ {app.rx} : rx'[o] = rx[o]
        /\ rx'[app.rx].ownsI2s /\ rx'[app.rx].started = rx[app.rx].started
        /\ rx'[app.rx].ownsRing = rx[app.rx].ownsRing
    <3>1. rx' = [rx EXCEPT ![app.rx].ownsI2s = TRUE]
      BY <1>3
    <3> QED
      BY <1>1, <3>1 DEF Flags
  <2>3. /\ i2s' \in [Receivers -> Sinks] /\ audio' \in [Receivers \X Workers -> Points]
        /\ \A o \in Receivers \ {app.rx} : i2s'[o] = i2s[o]
    BY <1>1, <1>3, SoundStarts DEF Known
  <2>4. Known'
    BY <1>1, <1>2, <1>3, <2>1, <2>2, <2>3 DEF Known, Typed, OnReceiver, Tuned, Locks
  <2>5. ASSUME Held PROVE Held'
    <3>1. HolderOnly' /\ HolderCalls' /\ StartedTogether'
      BY <1>1, <1>2, <1>3, <2>1, <2>2, <2>5
         DEF Held, HolderOnly, HolderCalls, StartedTogether, Begins, Ends, Locks
    <3>2. RadioHeld'
      BY <1>1, <1>2, <1>3, <2>1, <2>5 DEF Held, RadioHeld, RadioUp, Locks, Begins
    <3>3. SoundHeld' /\ SoundOfCall'
      BY <1>1, <1>2, <1>3, <2>1, <2>2, <2>3, <2>5 DEF Held, SoundHeld, SoundOfCall
    <3> QED
      BY <3>1, <3>2, <3>3 DEF Held
  <2> QED
    BY <2>4, <2>5
<1>4. CASE /\ buffer' = [buffer EXCEPT ![app.rx] = FALSE]
           /\ rx' = [rx EXCEPT ![app.rx].ownsRing = FALSE]
           /\ instance' = NoRx /\ app' = Returned
           /\ UNCHANGED sound
  <2>1. app' \in Threads /\ app'.call = "idle" /\ UNCHANGED <<i2s, driver, audio>>
    BY <1>4, AtRest DEF sound
  <2>2. /\ rx' \in [Receivers -> Flags] /\ \A o \in Receivers \ {app.rx} : rx'[o] = rx[o]
        /\ ~rx'[app.rx].ownsRing /\ rx'[app.rx].started = rx[app.rx].started
        /\ rx'[app.rx].ownsI2s = rx[app.rx].ownsI2s
    <3>1. rx' = [rx EXCEPT ![app.rx].ownsRing = FALSE]
      BY <1>4
    <3> QED
      BY <1>1, <3>1 DEF Flags
  <2>3. Known'
    BY <1>1, <1>2, <1>4, <2>1, <2>2 DEF Known, Typed, OnReceiver, Tuned, Locks
  <2>4. ASSUME Held PROVE Held'
    <3>1. HolderOnly' /\ HolderCalls' /\ StartedTogether'
      BY <1>1, <1>2, <1>4, <2>1, <2>2, <2>4, LifecycleAssumption
         DEF Held, HolderOnly, HolderCalls, StartedTogether, SoundOfCall, Begins, Ends, Locks
    <3>2. RadioHeld'
      BY <1>1, <1>2, <1>4, <2>1, <2>4 DEF Held, RadioHeld, RadioUp, Locks, Begins, StartedTogether
    <3>3. SoundHeld' /\ SoundOfCall'
      BY <1>1, <1>2, <1>4, <2>1, <2>2, <2>4 DEF Held, SoundHeld, SoundOfCall
    <3> QED
      BY <3>1, <3>2, <3>3 DEF Held
  <2> QED
    BY <2>3, <2>4
<1> QED
  BY <1>3, <1>4 DEF BeginI2s

(* The radio not up, nor anything it had brought up: with no output of its *)
(* own begin() returns, otherwise it goes on with end().                   *)
LEMMA BeginRadioFailsStep ==
  ASSUME Known, BeginRadioFails
  PROVE  Known' /\ (~Stray /\ Held => Held')
<1>1. app.call = "radio" /\ app.rx \in Receivers /\ app \in Threads /\ radio \in Transport
      /\ hw \in Radios
  BY DEF BeginRadioFails, Known, OnReceiver, Typed
<1>2. UNCHANGED <<rx, buffer, i2s, driver, audio, wifi, wedged, gaveUp, excused>>
  BY DEF BeginRadioFails, sound, history
<1>3. /\ app' \in Threads
      /\ \/ app.out = "own" /\ instance' = NoRx /\ app'.call = "idle"
         \/ /\ app.out # "own" /\ UNCHANGED instance /\ app'.call = "unregister"
            /\ app'.rx = app.rx
  BY <1>1, Goes, AtRest DEF BeginRadioFails, Calls
<1>4. \/ UNCHANGED <<radio, hw>>
      \/ /\ ~radio.started /\ ~radio'.started /\ radio' \in Transport /\ hw' \in Radios
         /\ radio'.user = NoRx /\ (hw'.up <=> hw.up /\ ~app.init)
         /\ hw'.callback = hw.callback /\ hw'.theirs = hw.theirs
  <2>1. CASE UNCHANGED <<radio, hw>>
    BY <2>1
  <2>2. CASE /\ ~radio.started /\ ChannelValid(app.channel)
             /\ Statics(NoRx) /\ Bring(hw.up /\ ~app.init, hw.callback)
    <3>1. /\ radio' \in Transport /\ radio'.user = NoRx /\ radio'.started = radio.started
      BY <1>1, <2>2, SetsStatics DEF ChannelValid
    <3>2. /\ hw' \in Radios /\ (hw'.up <=> hw.up /\ ~app.init)
          /\ (hw'.callback <=> hw.callback) /\ hw'.theirs = hw.theirs
      <4>1. hw' = [hw EXCEPT !.up = hw.up /\ ~app.init, !.callback = hw.callback]
        BY <2>2 DEF Bring
      <4> QED
        BY <1>1, <4>1 DEF Radios, Threads
    <3> QED
      BY <2>2, <3>1, <3>2, <1>1 DEF Radios
  <2> QED
    BY <2>1, <2>2 DEF BeginRadioFails
<1>5. Known'
  BY <1>1, <1>2, <1>3, <1>4 DEF Known, Typed, OnReceiver, Tuned, Locks
<1>6. ASSUME Held PROVE Held'
  <2>1. HolderOnly' /\ HolderCalls' /\ StartedTogether'
    BY <1>1, <1>2, <1>3, <1>4, <1>6, LifecycleAssumption
       DEF Held, HolderOnly, HolderCalls, StartedTogether, SoundOfCall, Begins, Ends, Locks
  <2>2. RadioHeld'
    BY <1>1, <1>2, <1>3, <1>4, <1>6
       DEF Held, RadioHeld, RadioUp, Locks, Begins, StartedTogether
  <2>3. SoundHeld' /\ SoundOfCall'
    BY <1>1, <1>2, <1>3, <1>4, <1>6 DEF Held, SoundHeld, SoundOfCall
  <2> QED
    BY <2>1, <2>2, <2>3 DEF Held
<1> QED
  BY <1>5, <1>6

(* The radio up, and begin() returned or in lockChannel.                   *)
LEMMA BeginRadioStep ==
  ASSUME Known, NEW connected \in BOOLEAN, BeginRadio(connected)
  PROVE  Known' /\ (~Stray /\ Held => Held')
<1>1. /\ app.call = "radio" /\ app.rx \in Receivers /\ app \in Threads /\ radio \in Transport
      /\ hw \in Radios /\ rx \in [Receivers -> Flags] /\ ~radio.started
      /\ app.channel \in {1, 6, 11} /\ app.init \in BOOLEAN /\ (app.init \/ hw.up)
  BY DEF BeginRadio, Known, OnReceiver, Typed, ChannelValid, Threads
<1>2. UNCHANGED <<instance, buffer, i2s, driver, audio, wifi, wedged, gaveUp>>
  BY DEF BeginRadio, sound
<1>3. /\ hw' \in Radios /\ hw'.up /\ hw'.callback /\ hw'.theirs = hw.theirs
      /\ hw'.channel = hw.channel
  <2>1. hw' = [hw EXCEPT !.up = TRUE, !.callback = TRUE]
    BY DEF BeginRadio, Bring
  <2> QED
    BY <1>1, <2>1 DEF Radios
<1>4. CASE connected
  <2>1. /\ radio' \in Transport /\ radio'.user = app.rx /\ radio'.owns = app.init
        /\ radio'.started /\ radio'.channel = app.channel
    <3>1. radio' = [user |-> app.rx, channel |-> app.channel, owns |-> app.init,
                    started |-> TRUE]
      BY <1>4 DEF BeginRadio
    <3> QED
      BY <1>1, <3>1 DEF Transport
  <2>2. /\ rx' \in [Receivers -> Flags] /\ \A o \in Receivers \ {app.rx} : rx'[o] = rx[o]
        /\ rx'[app.rx].started /\ rx'[app.rx].ownsRing = rx[app.rx].ownsRing
        /\ rx'[app.rx].ownsI2s = rx[app.rx].ownsI2s
    <3>1. rx' = [rx EXCEPT ![app.rx].started = TRUE]
      BY <1>4 DEF BeginRadio
    <3> QED
      BY <1>1, <3>1 DEF Flags
  <2>3. app' \in Threads /\ app'.call = "idle" /\ excused' = TRUE
    BY <1>4, AtRest DEF BeginRadio
  <2>4. Known'
    BY <1>1, <1>2, <1>3, <2>1, <2>2, <2>3 DEF Known, Typed, OnReceiver, Tuned, Locks
  <2>5. ASSUME Held PROVE Held'
    <3>1. HolderOnly' /\ HolderCalls' /\ StartedTogether'
      BY <1>1, <1>2, <2>1, <2>2, <2>3, <2>5
         DEF Held, HolderOnly, HolderCalls, StartedTogether, Begins, Ends, Locks
    <3>2. RadioHeld'
      BY <1>1, <1>2, <1>3, <2>1, <2>3, <2>5
         DEF Held, RadioHeld, RadioUp, HolderCalls, Locks, Begins
    <3>3. SoundHeld' /\ SoundOfCall'
      BY <1>1, <1>2, <2>2, <2>3, <2>5 DEF Held, SoundHeld, SoundOfCall
    <3> QED
      BY <3>1, <3>2, <3>3 DEF Held
  <2> QED
    BY <2>4, <2>5
<1>5. CASE ~connected
  <2>1. /\ radio' \in Transport /\ radio'.user = app.rx /\ radio'.owns = app.init
        /\ radio'.started = radio.started /\ radio'.channel = app.channel
    BY <1>1, <1>5, SetsStatics DEF BeginRadio
  <2>2. /\ app' \in Threads /\ app'.call = "tune" /\ app'.rx = app.rx /\ app'.channel = app.channel
    BY <1>1, <1>5, Goes DEF BeginRadio, Calls
  <2>3. UNCHANGED <<rx, excused>>
    BY <1>5 DEF BeginRadio
  <2>4. Known'
    BY <1>1, <1>2, <1>3, <2>1, <2>2, <2>3 DEF Known, Typed, OnReceiver, Tuned, Locks
  <2>5. ASSUME Held PROVE Held'
    <3>1. HolderOnly' /\ HolderCalls' /\ StartedTogether'
      BY <1>1, <1>2, <2>1, <2>2, <2>3, <2>5
         DEF Held, HolderOnly, HolderCalls, StartedTogether, Begins, Ends, Locks
    <3>2. RadioHeld'
      BY <1>1, <1>2, <1>3, <2>1, <2>2, <2>5
         DEF Held, RadioHeld, RadioUp, HolderCalls, Locks, Begins
    <3>3. SoundHeld' /\ SoundOfCall'
      BY <1>1, <1>2, <2>2, <2>3, <2>5 DEF Held, SoundHeld, SoundOfCall
    <3> QED
      BY <3>1, <3>2, <3>3 DEF Held
  <2> QED
    BY <2>4, <2>5
<1> QED
  BY <1>4, <1>5

(* A channel set, or not.                                                  *)
LEMMA TuneStep ==
  ASSUME Known, Tune
  PROVE  Known' /\ (~Stray /\ Held => Held')
<1>1. /\ app.call = "tune" /\ app.rx \in Receivers /\ app \in Threads /\ radio \in Transport
      /\ hw \in Radios /\ radio.channel = app.channel
  BY DEF Tune, Known, OnReceiver, Typed, Tuned, Locks
<1>2. UNCHANGED <<rx, instance, radio, buffer, i2s, driver, audio, wifi, wedged, gaveUp, excused>>
  BY DEF Tune, sound, history
<1>3. /\ app' \in Threads /\ app'.call = "verify" /\ app'.rx = app.rx /\ app'.channel = app.channel
  BY <1>1, Goes DEF Tune, Calls
<1>4. /\ hw' \in Radios /\ hw'.up = hw.up /\ hw'.callback = hw.callback /\ hw'.theirs = hw.theirs
  <2>1. PICK ch \in {app.channel, hw.channel} : hw' = [hw EXCEPT !.channel = ch]
    BY DEF Tune
  <2>2. ch \in {1, 6, 11}
    BY <1>1 DEF Transport, Radios
  <2> QED
    BY <1>1, <2>1, <2>2 DEF Radios
<1>5. Known'
  BY <1>1, <1>2, <1>3, <1>4 DEF Known, Typed, OnReceiver, Tuned, Locks
<1>6. ASSUME Held PROVE Held'
  BY <1>1, <1>2, <1>3, <1>4, <1>6
     DEF Held, HolderOnly, HolderCalls, StartedTogether, RadioHeld, RadioUp, SoundHeld,
         SoundOfCall, Begins, Ends, Locks
<1> QED
  BY <1>5, <1>6

(* lockChannel over: s_started, and the receiver started if begin() called *)
(* it.                                                                     *)
LEMMA StartedStep ==
  ASSUME Known, app.call = "verify", Started, NEW e \in BOOLEAN, excused' = e,
         e \/ hw.channel = app.channel,
         UNCHANGED <<instance, buffer, sound, wifi, hw, wedged, gaveUp>>
  PROVE  Known' /\ (Held => Held')
<1>1. /\ app.rx \in Receivers /\ radio \in Transport /\ rx \in [Receivers -> Flags]
      /\ radio.channel = app.channel
  BY DEF Known, OnReceiver, Typed, Tuned, Locks
<1>2. UNCHANGED <<instance, buffer, i2s, driver, audio, wifi, hw, wedged, gaveUp>>
  BY DEF sound
<1>3. /\ radio' \in Transport /\ radio'.started /\ radio'.user = radio.user
      /\ radio'.owns = radio.owns /\ radio'.channel = radio.channel
  <2>1. radio' = [radio EXCEPT !.started = TRUE]
    BY DEF Started
  <2> QED
    BY <1>1, <2>1 DEF Transport
<1>4. /\ rx' \in [Receivers -> Flags]
      /\ \A o \in Receivers : /\ rx'[o].ownsRing = rx[o].ownsRing
                              /\ rx'[o].ownsI2s = rx[o].ownsI2s
                              /\ rx'[o].started <=> rx[o].started \/ (o = app.rx /\ ~radio.started)
  <2>1. CASE radio.started
    <3>1. rx' = rx
      BY <2>1 DEF Started
    <3> QED
      BY <1>1, <2>1, <3>1
  <2>2. CASE ~radio.started
    <3>1. rx' = [rx EXCEPT ![app.rx].started = TRUE]
      BY <2>2 DEF Started
    <3> QED
      BY <1>1, <2>2, <3>1 DEF Flags
  <2> QED
    BY <2>1, <2>2
<1>5. app' \in Threads /\ app'.call = "idle"
  BY AtRest DEF Started
<1>6. Known'
  BY <1>1, <1>2, <1>3, <1>4, <1>5 DEF Known, Typed, OnReceiver, Tuned, Locks
<1>7. ASSUME Held PROVE Held'
  <2>1. HolderOnly' /\ HolderCalls' /\ StartedTogether'
    BY <1>1, <1>2, <1>3, <1>4, <1>5, <1>7
       DEF Held, HolderOnly, HolderCalls, StartedTogether, Begins, Ends, Locks
  <2>2. RadioHeld'
    BY <1>1, <1>2, <1>3, <1>5, <1>7 DEF Held, RadioHeld, RadioUp, Locks, Begins
  <2>3. SoundHeld' /\ SoundOfCall'
    BY <1>1, <1>2, <1>4, <1>5, <1>7 DEF Held, SoundHeld, SoundOfCall
  <2> QED
    BY <2>1, <2>2, <2>3 DEF Held
<1> QED
  BY <1>6, <1>7

(* The channel read, and another attempt or none.                          *)
LEMMA VerifyStep ==
  ASSUME Known, Verify
  PROVE  Known' /\ (~Stray /\ Held => Held')
<1>1. /\ app.call = "verify" /\ app.rx \in Receivers /\ app \in Threads
      /\ UNCHANGED <<instance, buffer, sound, wifi, hw, wedged, gaveUp>>
  BY DEF Verify, Known, OnReceiver, Typed
<1>2. CASE Started /\ excused' = TRUE
  BY <1>1, <1>2, StartedStep
<1>4. CASE hw.channel = app.channel /\ Started /\ excused' = FALSE
  BY <1>1, <1>4, StartedStep
<1>3. CASE /\ app.tries + 1 < Tries
           /\ app' = [app EXCEPT !.call = "tune", !.tries = @ + 1]
           /\ UNCHANGED <<rx, radio, excused>>
  <2>1. app' \in Threads /\ app'.call = "tune" /\ app'.rx = app.rx /\ app'.channel = app.channel
    <3>1. app' = [app EXCEPT !.call = "tune", !.tries = app.tries + 1]
      BY <1>3
    <3>2. app.tries + 1 \in 0 .. Tries
      BY <1>1, <1>3, LifecycleAssumption DEF Threads
    <3> QED
      BY <1>1, <3>1, <3>2 DEF Threads, Calls
  <2>2. Known'
    BY <1>1, <1>3, <2>1 DEF Known, Typed, OnReceiver, Tuned, Locks, sound
  <2>3. ASSUME Held PROVE Held'
    BY <1>1, <1>3, <2>1, <2>3
       DEF Held, HolderOnly, HolderCalls, StartedTogether, RadioHeld, RadioUp, SoundHeld,
           SoundOfCall, Begins, Ends, Locks, sound
  <2> QED
    BY <2>2, <2>3
<1> QED
  BY <1>2, <1>3, <1>4 DEF Verify

(* setChannel(), refused or in lockChannel.                                *)
LEMMA SetChannelStep ==
  ASSUME Known, NEW c \in Receivers, NEW ch \in Channels, NEW connected \in BOOLEAN,
         SetChannel(c, ch, connected)
  PROVE  Known' /\ (~Stray /\ Held => Held')
<1>1. /\ app.call = "idle" /\ app \in Threads /\ radio \in Transport
      /\ UNCHANGED <<rx, instance, buffer, i2s, driver, audio, wifi, hw, wedged, gaveUp>>
  BY DEF SetChannel, Known, Typed, sound
<1>2. /\ radio' \in Transport /\ radio'.channel = ch /\ radio'.user = radio.user
      /\ radio'.owns = radio.owns /\ radio'.started = radio.started
  <2>1. radio' = [radio EXCEPT !.channel = ch] /\ ch \in {1, 6, 11}
    BY DEF SetChannel, ChannelValid
  <2> QED
    BY <1>1, <2>1 DEF Transport
<1>3. /\ app' \in Threads /\ excused' \in BOOLEAN
      /\ \/ UNCHANGED app /\ excused' = TRUE
         \/ /\ radio.started /\ app'.call = "tune" /\ app'.rx = c /\ app'.channel = ch
            /\ UNCHANGED excused
  <2>1. CASE UNCHANGED app /\ excused' = TRUE
    BY <1>1, <2>1
  <2>2. CASE /\ radio.started /\ app' = [Returned EXCEPT !.call = "tune", !.rx = c, !.channel = ch]
             /\ UNCHANGED excused
    <3>1. app' = [Returned EXCEPT !.call = "tune", !.rx = c, !.channel = ch]
      BY <2>2
    <3> QED
      BY <2>2, <3>1, AtRest DEF Threads, Calls, Known, Typed
  <2> QED
    BY <2>1, <2>2 DEF SetChannel
<1>4. Known'
  BY <1>1, <1>2, <1>3 DEF Known, Typed, OnReceiver, Tuned, Locks
<1>5. ASSUME Held PROVE Held'
  BY <1>1, <1>2, <1>3, <1>5
     DEF Held, HolderOnly, HolderCalls, StartedTogether, RadioHeld, RadioUp, SoundHeld,
         SoundOfCall, Begins, Ends, Locks
<1> QED
  BY <1>4, <1>5

(* end(): of the receiver that runs, unless it strays.                     *)
LEMMA EndStep ==
  ASSUME Known, NEW c \in Receivers, End(c)
  PROVE  Known' /\ (~Stray /\ Held => Held')
<1>1. /\ app.call = "idle" /\ app \in Threads /\ (Stray \/ rx[c].started)
      /\ UNCHANGED <<rx, instance, radio, buffer, i2s, driver, audio, wifi, hw, wedged, gaveUp,
                     excused>>
  BY DEF End, Known, Typed, sound, history
<1>2. app' \in Threads /\ app'.call = "unregister" /\ app'.rx = c
  <2>1. app' = [Returned EXCEPT !.call = "unregister", !.rx = c]
    BY DEF End
  <2> QED
    BY <2>1, AtRest DEF Threads, Calls
<1>3. Known'
  BY <1>1, <1>2 DEF Known, Typed, OnReceiver, Tuned, Locks
<1>4. ASSUME ~Stray, Held PROVE Held'
  BY <1>1, <1>2, <1>4
     DEF Held, HolderOnly, HolderCalls, StartedTogether, RadioHeld, RadioUp, SoundHeld,
         SoundOfCall, Begins, Ends, Locks
<1> QED
  BY <1>3, <1>4

(* The radio taken down as begin() found it.                               *)
LEMMA UnregisterStep ==
  ASSUME Known, Unregister
  PROVE  Known' /\ (~Stray /\ Held => Held')
<1>1. /\ app.call = "unregister" /\ app.rx \in Receivers /\ app \in Threads
      /\ radio \in Transport /\ hw \in Radios
      /\ UNCHANGED <<rx, instance, buffer, i2s, driver, audio, wifi, wedged, gaveUp, excused>>
  BY DEF Unregister, Known, OnReceiver, Typed, sound, history
<1>2. /\ app' \in Threads /\ app'.rx = app.rx
      /\ app'.call = IF rx[app.rx].ownsI2s THEN "stop" ELSE "free"
  BY <1>1, Goes DEF Unregister, Calls
<1>3. /\ radio' \in Transport /\ hw' \in Radios /\ ~radio'.started /\ hw'.theirs = hw.theirs
      /\ IF radio.started
           THEN radio'.user = NoRx /\ ~hw'.callback /\ (hw'.up <=> hw.up /\ ~radio.owns)
           ELSE UNCHANGED <<radio, hw>>
  <2>1. CASE radio.started
    <3>1. /\ hw' = [hw EXCEPT !.up = hw.up /\ ~radio.owns, !.callback = FALSE]
          /\ radio' = [radio EXCEPT !.user = NoRx, !.started = FALSE]
      BY <2>1 DEF Unregister, Bring
    <3>2. radio' \in Transport /\ radio'.user = NoRx /\ ~radio'.started
      BY <1>1, <3>1 DEF Transport
    <3>3. /\ hw' \in Radios /\ hw'.theirs = hw.theirs /\ ~hw'.callback
          /\ (hw'.up <=> hw.up /\ ~radio.owns)
      BY <1>1, <3>1 DEF Radios, Transport
    <3> QED
      BY <2>1, <3>2, <3>3
  <2>2. CASE ~radio.started
    BY <1>1, <2>2 DEF Unregister
  <2> QED
    BY <2>1, <2>2
<1>4. Known'
  BY <1>1, <1>2, <1>3 DEF Known, Typed, OnReceiver, Tuned, Locks
<1>5. ASSUME Held PROVE Held'
  <2>1. HolderOnly' /\ HolderCalls' /\ StartedTogether'
    BY <1>1, <1>2, <1>3, <1>5
       DEF Held, HolderOnly, HolderCalls, StartedTogether, Begins, Ends, Locks
  <2>2. RadioHeld'
    BY <1>1, <1>2, <1>3, <1>5 DEF Held, RadioHeld, RadioUp, Locks, Begins
  <2>3. SoundHeld' /\ SoundOfCall'
    BY <1>1, <1>2, <1>5 DEF Held, SoundHeld, SoundOfCall
  <2> QED
    BY <2>1, <2>2, <2>3 DEF Held
<1> QED
  BY <1>4, <1>5

(* The task told to stop.                                                  *)
LEMMA StopStep ==
  ASSUME Known, Stop
  PROVE  Known' /\ (~Stray /\ Held => Held')
<1>1. /\ app.call = "stop" /\ app.rx \in Receivers /\ app \in Threads
      /\ i2s \in [Receivers -> Sinks]
      /\ UNCHANGED <<rx, instance, radio, buffer, driver, audio, wifi, hw, wedged, gaveUp, excused>>
  BY DEF Stop, Known, OnReceiver, Typed, history
<1>2. /\ app' \in Threads /\ app'.rx = app.rx
      /\ app'.call = IF i2s[app.rx].task THEN "wait" ELSE "uninstall"
  BY <1>1, Goes DEF Stop, Calls
<1>3. /\ i2s' \in [Receivers -> Sinks] /\ \A o \in Receivers \ {app.rx} : i2s'[o] = i2s[o]
      /\ ~i2s'[app.rx].running /\ i2s'[app.rx].task = i2s[app.rx].task
  <2>1. i2s' = [i2s EXCEPT ![app.rx].running = FALSE]
    BY DEF Stop
  <2> QED
    BY <1>1, <2>1 DEF Sinks
<1>4. Known'
  BY <1>1, <1>2, <1>3 DEF Known, Typed, OnReceiver, Tuned, Locks
<1>5. ASSUME Held PROVE Held'
  <2>1. HolderOnly' /\ HolderCalls' /\ StartedTogether' /\ RadioHeld'
    BY <1>1, <1>2, <1>5
       DEF Held, HolderOnly, HolderCalls, StartedTogether, RadioHeld, RadioUp, Begins, Ends, Locks
  <2>2. SoundHeld' /\ SoundOfCall'
    BY <1>1, <1>2, <1>3, <1>5 DEF Held, SoundHeld, SoundOfCall
  <2> QED
    BY <2>1, <2>2 DEF Held
<1> QED
  BY <1>4, <1>5

(* The task gone, or given up on; not counted either way.                  *)
LEMMA WaitStep ==
  ASSUME Known, Wait
  PROVE  Known' /\ (~Stray /\ Held => Held')
<1>1. /\ app.call = "wait" /\ app.rx \in Receivers /\ app \in Threads
      /\ i2s \in [Receivers -> Sinks] /\ gaveUp' \in BOOLEAN
      /\ UNCHANGED <<rx, instance, radio, buffer, driver, audio, wifi, hw, wedged, excused>>
  BY DEF Wait, Known, OnReceiver, Typed
<1>2. app' \in Threads /\ app'.rx = app.rx /\ app'.call = "uninstall"
  BY <1>1, Goes DEF Wait, Calls
<1>3. /\ i2s' \in [Receivers -> Sinks] /\ \A o \in Receivers \ {app.rx} : i2s'[o] = i2s[o]
      /\ ~i2s'[app.rx].task /\ i2s'[app.rx].running = i2s[app.rx].running
  <2>1. i2s' = [i2s EXCEPT ![app.rx].task = FALSE]
    BY DEF Wait
  <2> QED
    BY <1>1, <2>1 DEF Sinks
<1>4. Known'
  BY <1>1, <1>2, <1>3 DEF Known, Typed, OnReceiver, Tuned, Locks
<1>5. ASSUME Held PROVE Held'
  <2>1. HolderOnly' /\ HolderCalls' /\ StartedTogether' /\ RadioHeld'
    BY <1>1, <1>2, <1>5
       DEF Held, HolderOnly, HolderCalls, StartedTogether, RadioHeld, RadioUp, Begins, Ends, Locks
  <2>2. SoundHeld' /\ SoundOfCall'
    BY <1>1, <1>2, <1>3, <1>5 DEF Held, SoundHeld, SoundOfCall
  <2> QED
    BY <2>1, <2>2 DEF Held
<1> QED
  BY <1>4, <1>5

(* The driver removed.                                                     *)
LEMMA UninstallStep ==
  ASSUME Known, Uninstall
  PROVE  Known' /\ (~Stray /\ Held => Held')
<1>1. /\ app.call = "uninstall" /\ app.rx \in Receivers /\ app \in Threads
      /\ rx \in [Receivers -> Flags] /\ driver' = FALSE
      /\ UNCHANGED <<instance, radio, buffer, i2s, audio, wifi, hw, wedged, gaveUp, excused>>
  BY DEF Uninstall, Known, OnReceiver, Typed, history
<1>2. app' \in Threads /\ app'.rx = app.rx /\ app'.call = "free"
  BY <1>1, Goes DEF Uninstall, Calls
<1>3. /\ rx' \in [Receivers -> Flags] /\ \A o \in Receivers \ {app.rx} : rx'[o] = rx[o]
      /\ ~rx'[app.rx].ownsI2s /\ rx'[app.rx].started = rx[app.rx].started
      /\ rx'[app.rx].ownsRing = rx[app.rx].ownsRing
  <2>1. rx' = [rx EXCEPT ![app.rx].ownsI2s = FALSE]
    BY DEF Uninstall
  <2> QED
    BY <1>1, <2>1 DEF Flags
<1>4. Known'
  BY <1>1, <1>2, <1>3 DEF Known, Typed, OnReceiver, Tuned, Locks
<1>5. ASSUME Held PROVE Held'
  <2>1. HolderOnly' /\ HolderCalls' /\ StartedTogether'
    BY <1>1, <1>2, <1>3, <1>5
       DEF Held, HolderOnly, HolderCalls, StartedTogether, Begins, Ends, Locks
  <2>2. RadioHeld'
    BY <1>1, <1>2, <1>5 DEF Held, RadioHeld, RadioUp, Begins, Locks
  <2>3. SoundHeld' /\ SoundOfCall'
    BY <1>1, <1>2, <1>3, <1>5
       DEF Held, SoundHeld, SoundOfCall, HolderOnly, HolderCalls, Ends
  <2> QED
    BY <2>1, <2>2, <2>3 DEF Held
<1> QED
  BY <1>4, <1>5

(* The ring freed, and s_instance with it: nothing else was held.          *)
LEMMA FreeStep ==
  ASSUME Known, Free
  PROVE  Known' /\ (~Stray /\ Held => Held')
<1>1. /\ app.call = "free" /\ app.rx \in Receivers /\ app \in Threads
      /\ rx \in [Receivers -> Flags] /\ buffer \in [Receivers -> BOOLEAN] /\ instance' = NoRx
      /\ UNCHANGED <<radio, i2s, driver, audio, wifi, hw, wedged, gaveUp, excused>>
  BY DEF Free, Known, OnReceiver, Typed, sound, history
<1>2. app' \in Threads /\ app'.call = "idle"
  BY AtRest DEF Free
<1>3. /\ rx' \in [Receivers -> Flags] /\ \A o \in Receivers \ {app.rx} : rx'[o] = rx[o]
      /\ ~rx'[app.rx].started /\ ~rx'[app.rx].ownsRing /\ ~rx'[app.rx].ownsI2s
  <2>1. rx' = [rx EXCEPT ![app.rx] = [started |-> FALSE, ownsRing |-> FALSE, ownsI2s |-> FALSE]]
    BY DEF Free
  <2> QED
    BY <1>1, <2>1 DEF Flags
<1>4. /\ buffer' \in [Receivers -> BOOLEAN]
      /\ \A o \in Receivers \ {app.rx} : buffer'[o] = buffer[o]
      /\ (buffer'[app.rx] <=> buffer[app.rx] /\ ~rx[app.rx].ownsRing)
  <2>1. buffer' = [buffer EXCEPT ![app.rx] = buffer[app.rx] /\ ~rx[app.rx].ownsRing]
    BY DEF Free
  <2>2. rx[app.rx].ownsRing \in BOOLEAN
    BY <1>1 DEF Flags
  <2> QED
    BY <1>1, <2>1, <2>2
<1>5. Known'
  BY <1>1, <1>2, <1>3, <1>4 DEF Known, Typed, OnReceiver, Tuned, Locks
<1>6. ASSUME Held PROVE Held'
  <2>1. ~radio.started
    BY <1>1, <1>6 DEF Held, StartedTogether, Locks
  <2>2. \A o \in Receivers : ~rx'[o].started /\ ~rx'[o].ownsRing /\ ~rx'[o].ownsI2s
    BY <1>1, <1>3, <1>6 DEF Held, HolderOnly, HolderCalls, Ends
  <2>3. HolderOnly' /\ HolderCalls' /\ StartedTogether'
    BY <1>1, <1>2, <2>1, <2>2, LifecycleAssumption
       DEF HolderOnly, HolderCalls, StartedTogether, Begins, Ends, Locks
  <2>4. RadioHeld'
    BY <1>1, <1>2, <1>6, <2>1 DEF Held, RadioHeld, RadioUp, Locks, Begins
  <2>5. SoundHeld'
    BY <1>1, <1>3, <1>4, <1>6, <2>2
       DEF Held, SoundHeld, SoundOfCall, HolderOnly, HolderCalls, Ends
  <2>6. SoundOfCall'
    BY <1>2 DEF SoundOfCall
  <2> QED
    BY <2>3, <2>4, <2>5, <2>6 DEF Held
<1> QED
  BY <1>5, <1>6

(* The audio task: it clears _task as it goes, and that was the flag of    *)
(* its own.                                                                *)
LEMMA TaskStep ==
  ASSUME Known, NEW t \in Receivers \X Workers, TaskTop(t) \/ TaskRead(t) \/ TaskWrite(t)
  PROVE  /\ Known' /\ (~Stray /\ Held => Held')
         /\ UNCHANGED <<wifi, radio, buffer, driver, gaveUp>> /\ (Counted => Counted')
<1>1. /\ t[1] \in Receivers /\ t[2] \in Workers /\ t = <<t[1], t[2]>>
      /\ i2s \in [Receivers -> Sinks] /\ audio \in [Receivers \X Workers -> Points]
      /\ UNCHANGED <<rx, instance, radio, buffer, driver, wifi, hw, app, wedged, gaveUp, excused>>
  BY DEF TaskTop, TaskRead, TaskWrite, Known, Typed, history
<1>2. \/ UNCHANGED i2s /\ audio[t] # "gone" /\ \E p \in Points : audio' = [audio EXCEPT ![t] = p]
      \/ /\ audio[t] # "gone" /\ audio' = [audio EXCEPT ![t] = "gone"]
         /\ i2s' = [i2s EXCEPT ![t[1]].task = FALSE]
  <2>1. CASE TaskTop(t)
    BY <2>1 DEF TaskTop, Move, Points
  <2>2. CASE TaskRead(t) \/ TaskWrite(t)
    BY <2>2 DEF TaskRead, TaskWrite, Move, Points
  <2> QED
    BY <2>1, <2>2
<1>3. audio' \in [Receivers \X Workers -> Points]
  BY <1>1, <1>2 DEF Points
<1>4. /\ i2s' \in [Receivers -> Sinks] /\ \A o \in Receivers \ {t[1]} : i2s'[o] = i2s[o]
      /\ i2s'[t[1]].running = i2s[t[1]].running /\ (i2s'[t[1]].task => i2s[t[1]].task)
  <2>1. CASE UNCHANGED i2s
    BY <1>1, <2>1
  <2>2. CASE i2s' = [i2s EXCEPT ![t[1]].task = FALSE]
    BY <1>1, <2>2 DEF Sinks
  <2> QED
    BY <1>2, <2>1, <2>2
<1>5. Known'
  BY <1>1, <1>3, <1>4 DEF Known, Typed, OnReceiver, Tuned
<1>6. ASSUME Held PROVE Held'
  <2>1. HolderOnly' /\ HolderCalls' /\ StartedTogether' /\ RadioHeld'
    BY <1>1, <1>6 DEF Held, HolderOnly, HolderCalls, StartedTogether, RadioHeld, RadioUp
  <2>2. SoundHeld' /\ SoundOfCall'
    <3>1. \A o \in Receivers : /\ i2s'[o].running <=> i2s[o].running
                               /\ i2s'[o].task => i2s[o].task
      BY <1>4
    <3>2. app.call # "idle" => app.rx \in Receivers
      BY DEF Known, OnReceiver
    <3> QED
      BY <1>1, <3>1, <3>2, <1>6 DEF Held, SoundHeld, SoundOfCall
  <2> QED
    BY <2>1, <2>2 DEF Held
<1>7. ASSUME Counted PROVE Counted'
  <2>1. CASE UNCHANGED i2s /\ audio[t] # "gone"
             /\ \E p \in Points : audio' = [audio EXCEPT ![t] = p]
    <3>1. \A u \in Receivers \X Workers : audio'[u] # "gone" => audio[u] # "gone"
      BY <1>1, <2>1
    <3> QED
      BY <2>1, <3>1, <1>7 DEF Counted
  <2>2. CASE /\ audio[t] # "gone" /\ audio' = [audio EXCEPT ![t] = "gone"]
             /\ i2s' = [i2s EXCEPT ![t[1]].task = FALSE]
    <3>1. \A u \in Receivers \X Workers : audio'[u] # "gone" => audio[u] # "gone" /\ u # t
      BY <1>1, <2>2
    <3>2. \A j \in Workers : audio[<<t[1], j>>] # "gone" => j = t[2]
      BY <1>1, <1>7, <2>2 DEF Counted
    <3>3. \A j \in Workers : audio'[<<t[1], j>>] = "gone"
      BY <1>1, <3>1, <3>2
    <3>4. ASSUME NEW o \in Receivers, NEW k \in Workers, audio'[<<o, k>>] # "gone"
          PROVE  i2s'[o].task /\ \A j \in Workers : audio'[<<o, j>>] # "gone" => j = k
      <4>1. o # t[1]
        BY <3>3, <3>4
      <4>2. i2s'[o] = i2s[o]
        BY <1>4, <4>1
      <4> QED
        BY <3>1, <3>4, <4>2, <1>7 DEF Counted
    <3> QED
      BY <3>4 DEF Counted
  <2> QED
    BY <1>2, <2>1, <2>2
<1> QED
  BY <1>1, <1>5, <1>6, <1>7

(* Callbacks, STA events and the driver change nothing that is held.       *)
LEMMA EventStep ==
  ASSUME Known, RecvStart \/ RecvEnd \/ StaEvent \/ Wedge
  PROVE  Known' /\ (~Stray /\ Held => Held')
<1>1. /\ radio \in Transport /\ hw \in Radios
      /\ UNCHANGED <<rx, instance, radio, buffer, i2s, driver, audio, app, gaveUp>>
  BY DEF RecvStart, RecvEnd, StaEvent, Wedge, Known, Typed, sound, history
<1>2. wifi' \in Receivers \cup {NoRx} /\ wedged' \in BOOLEAN
  BY DEF RecvStart, RecvEnd, StaEvent, Wedge, Known, Typed, Transport
<1>3. /\ hw' \in Radios /\ hw'.up = hw.up /\ hw'.callback = hw.callback /\ hw'.theirs = hw.theirs
      /\ (excused' = TRUE \/ UNCHANGED <<hw, excused>>)
  <2>1. CASE StaEvent
    <3>1. hw' = [hw EXCEPT !.channel = 1, !.events = hw.events - 1] /\ hw.events > 0
      BY <2>1 DEF StaEvent
    <3>2. hw.events - 1 \in 0 .. MaxEvents
      BY <1>1, <3>1, LifecycleAssumption DEF Radios
    <3> QED
      BY <1>1, <2>1, <3>1, <3>2 DEF Radios, StaEvent
  <2>2. CASE RecvStart \/ RecvEnd \/ Wedge
    BY <1>1, <2>2 DEF RecvStart, RecvEnd, Wedge, history
  <2> QED
    BY <2>1, <2>2
<1>4. Known'
  <2>1. excused' \in BOOLEAN
    BY <1>3 DEF Known, Typed
  <2>2. Typed'
    BY <1>1, <1>2, <1>3, <2>1 DEF Known, Typed
  <2>3. OnReceiver' /\ Tuned'
    BY <1>1, <1>3 DEF Known, OnReceiver, Tuned
  <2> QED
    BY <2>2, <2>3 DEF Known
<1>5. ASSUME Held PROVE Held'
  BY <1>1, <1>3, <1>5
     DEF Held, HolderOnly, HolderCalls, StartedTogether, RadioHeld, RadioUp, SoundHeld,
         SoundOfCall
<1> QED
  BY <1>4, <1>5

(***************************************************************************)
(* The invariants hold at the start, and every step keeps them.            *)
(***************************************************************************)
LEMMA Starts == Init => Known /\ Held /\ Counted /\ Receiving
<1> SUFFICES ASSUME Init PROVE Known /\ Held /\ Counted /\ Receiving
  OBVIOUS
<1>1. PICK theirs \in BOOLEAN :
        hw = [callback |-> FALSE, up |-> theirs, theirs |-> theirs, channel |-> 1,
              events |-> MaxEvents]
  BY DEF Init
<1>2. hw \in Radios /\ ~hw.callback /\ (hw.up <=> hw.theirs)
  BY <1>1, LifecycleAssumption DEF Radios
<1>3. app \in Threads /\ app.call = "idle"
  BY AtRest DEF Init
<1>4. radio \in Transport /\ radio.user = NoRx /\ ~radio.started
  BY DEF Init, Transport
<1>5. /\ rx \in [Receivers -> Flags]
      /\ \A o \in Receivers : ~rx[o].started /\ ~rx[o].ownsRing /\ ~rx[o].ownsI2s
  BY DEF Init, Flags
<1>6. i2s \in [Receivers -> Sinks] /\ \A o \in Receivers : ~i2s[o].running /\ ~i2s[o].task
  BY DEF Init, Sinks
<1>7. /\ instance = NoRx /\ wifi = NoRx /\ buffer = [o \in Receivers |-> FALSE]
      /\ audio = [t \in Receivers \X Workers |-> "gone"]
      /\ driver = FALSE /\ wedged = FALSE /\ gaveUp = FALSE /\ excused = TRUE
  BY DEF Init
<1>8. Known
  <2>1. Typed
    BY <1>2, <1>3, <1>4, <1>5, <1>6, <1>7 DEF Typed, Points
  <2>2. OnReceiver /\ Tuned
    BY <1>3, <1>4 DEF OnReceiver, Tuned, Locks
  <2> QED
    BY <2>1, <2>2 DEF Known
<1>9. Held
  BY <1>2, <1>3, <1>4, <1>5, <1>6, <1>7, LifecycleAssumption
     DEF Held, HolderOnly, HolderCalls, StartedTogether, RadioHeld, RadioUp, SoundHeld,
         SoundOfCall, Begins, Ends, Locks
<1>10. Counted /\ Receiving
  BY <1>7 DEF Counted, Receiving
<1> QED
  BY <1>8, <1>9, <1>10

(* Every step keeps Known, and Held where no end() strays.                 *)
LEMMA KnownStep ==
  ASSUME Known, [Next]_vars
  PROVE  Known' /\ (~Stray /\ Held => Held')
<1>1. CASE AppStep
  BY <1>1, BeginRingStep, BeginI2sStep, BeginRadioFailsStep, BeginRadioStep, TuneStep, VerifyStep,
     UnregisterStep, StopStep, WaitStep, UninstallStep, FreeStep DEF AppStep
<1>2. CASE AudioTask
  BY <1>2, TaskStep DEF AudioTask
<1>3. CASE RecvStart \/ RecvEnd \/ StaEvent \/ Wedge
  BY <1>3, EventStep
<1>4. CASE UNCHANGED vars
  BY <1>4 DEF vars, Known, Typed, OnReceiver, Tuned, Held, HolderOnly, HolderCalls,
              StartedTogether, RadioHeld, RadioUp, SoundHeld, SoundOfCall
<1>5. CASE \E c \in Receivers, out \in Outputs, ch \in Channels, init \in BOOLEAN :
             (init => ~hw.theirs) /\ Begin(c, out, ch, init)
  BY <1>5, BeginStep
<1>6. CASE \E c \in Receivers : End(c)
  BY <1>6, EndStep
<1>7. CASE \E c \in Receivers, ch \in Channels, k \in BOOLEAN : SetChannel(c, ch, k)
  BY <1>7, SetChannelStep
<1> QED
  BY <1>1, <1>2, <1>3, <1>4, <1>5, <1>6, <1>7 DEF Next

(* Only the calls that start a task or stop counting one, and the tasks    *)
(* themselves, touch Counted; end() that gives up says so.                 *)
LEMMA CountedStep ==
  ASSUME Known, Held, [Next]_vars, gaveUp \/ Counted
  PROVE  gaveUp' \/ Counted'
<1>1. SUFFICES ASSUME ~gaveUp', Counted \/ gaveUp PROVE Counted'
  OBVIOUS
<1>2. CASE UNCHANGED <<i2s, audio, gaveUp>>
  BY <1>1, <1>2 DEF Counted
<1>3. CASE BeginI2s
  <2>1. app.rx \in Receivers /\ ~i2s[app.rx].task /\ UNCHANGED gaveUp
    BY <1>3 DEF BeginI2s, Known, OnReceiver, Held, SoundHeld, SoundOfCall, history
  <2>2. CASE StartSound(app.rx)
    BY <1>1, <2>1, <2>2, SoundStarts DEF Known
  <2> QED
    BY <1>1, <1>2, <1>3, <2>1, <2>2 DEF BeginI2s, sound
<1>4. CASE Stop
  <2>1. app.rx \in Receivers /\ i2s \in [Receivers -> Sinks] /\ UNCHANGED <<audio, gaveUp>>
    BY <1>4 DEF Stop, Known, OnReceiver, Typed, history
  <2>2. i2s' = [i2s EXCEPT ![app.rx].running = FALSE]
    BY <1>4 DEF Stop
  <2>3. \A o \in Receivers : i2s'[o].task = i2s[o].task
    BY <2>1, <2>2 DEF Sinks
  <2> QED
    BY <1>1, <2>1, <2>3 DEF Counted
<1>5. CASE Wait
  <2>1. app.rx \in Receivers /\ i2s \in [Receivers -> Sinks] /\ UNCHANGED audio
    BY <1>5 DEF Wait, Known, OnReceiver, Typed
  <2>2. ~gaveUp /\ ~i2s[app.rx].task
    BY <1>1, <1>5 DEF Wait
  <2>3. i2s' = [i2s EXCEPT ![app.rx].task = FALSE]
    BY <1>5 DEF Wait
  <2>4. \A o \in Receivers : i2s'[o].task <=> i2s[o].task
    BY <2>1, <2>2, <2>3 DEF Sinks
  <2> QED
    BY <1>1, <2>1, <2>2, <2>4 DEF Counted
<1>6. CASE AudioTask
  BY <1>1, <1>6, TaskStep DEF AudioTask
<1>7. UNCHANGED <<i2s, audio, gaveUp>> \/ BeginI2s \/ Stop \/ Wait \/ AudioTask
  BY DEF Next, AppStep, vars, sound, history, Begin, End, SetChannel, BeginRing, BeginRadioFails,
         BeginRadio, Tune, Verify, Unregister, Uninstall, Free, RecvStart, RecvEnd, StaEvent, Wedge
<1> QED
  BY <1>2, <1>3, <1>4, <1>5, <1>6, <1>7

(* s_user changes only where no callback runs: before the callback is      *)
(* registered, and after the unregistering that waited for it.             *)
LEMMA ReceivingStep ==
  ASSUME Known, Held, Blocking, Receiving, [Next]_vars
  PROVE  Receiving'
<1>1. CASE UNCHANGED <<wifi, radio>>
  BY <1>1 DEF Receiving
<1>2. CASE wifi = NoRx /\ UNCHANGED wifi
  BY <1>2 DEF Receiving
<1>3. CASE BeginRadioFails \/ \E c \in BOOLEAN : BeginRadio(c)
  <2>1. wifi' = wifi
    BY <1>3 DEF BeginRadioFails, BeginRadio
  <2>2. ~radio.started => wifi = NoRx
    BY <1>3 DEF BeginRadioFails, BeginRadio, Held, RadioHeld, RadioUp, Locks, Receiving
  <2> QED
    BY <1>1, <1>2, <1>3, <2>1, <2>2 DEF BeginRadioFails, BeginRadio
<1>4. CASE Unregister
  BY <1>1, <1>2, <1>4 DEF Unregister
<1>5. CASE \/ Started /\ UNCHANGED wifi
           \/ \E c \in Receivers, ch \in Channels, k \in BOOLEAN : SetChannel(c, ch, k)
  <2>1. radio'.user = radio.user /\ wifi' = wifi
    BY <1>5 DEF Started, SetChannel, Known, Typed, Transport
  <2> QED
    BY <2>1 DEF Receiving
<1>6. CASE RecvStart
  BY <1>6 DEF RecvStart, Receiving
<1>7. CASE RecvEnd
  BY <1>7 DEF RecvEnd, Receiving
<1>8. CASE Verify
  BY <1>1, <1>5, <1>8 DEF Verify
<1>9. UNCHANGED <<wifi, radio>> \/ BeginRadioFails \/ (\E c \in BOOLEAN : BeginRadio(c))
      \/ Unregister \/ Verify \/ RecvStart \/ RecvEnd
      \/ \E c \in Receivers, ch \in Channels, k \in BOOLEAN : SetChannel(c, ch, k)
  BY DEF Next, AppStep, AudioTask, vars, sound, history, Begin, End, BeginRing, BeginI2s, Tune,
         Stop, Wait, Uninstall, Free, TaskTop, TaskRead, TaskWrite, StaEvent, Wedge
<1> QED
  BY <1>1, <1>3, <1>4, <1>5, <1>6, <1>7, <1>8, <1>9

(***************************************************************************)
(* Theorems.                                                               *)
(***************************************************************************)
(* Known holds throughout.                                                 *)
LEMMA AllKnown == Spec => []Known
<1>1. Init => Known
  BY Starts
<1>2. Known /\ [Next]_vars => Known'
  BY KnownStep
<1> QED
  BY <1>1, <1>2, PTL DEF Spec

(* And the rest, where no end() strays.                                    *)
LEMMA AllHeld == ASSUME ~Stray PROVE Spec => [](Known /\ Held /\ TasksCounted)
<1>1. Init => Known /\ Held /\ TasksCounted
  BY Starts DEF TasksCounted
<1>2. Known /\ Held /\ TasksCounted /\ [Next]_vars => (Known /\ Held /\ TasksCounted)'
  BY KnownStep, CountedStep DEF TasksCounted
<1> QED
  BY <1>1, <1>2, PTL DEF Spec

(* And where unregistering waits, a callback runs for the receiver that is *)
(* registered.                                                             *)
LEMMA AllReceiving == ASSUME ~Stray, Blocking PROVE Spec => []Receiving
<1>1. Init => Receiving
  BY Starts
<1>2. Known /\ Held /\ Receiving /\ [Next]_vars => Receiving'
  BY ReceivingStep
<1> QED
  BY <1>1, <1>2, AllHeld, PTL DEF Spec

(* The state stays of its types, whatever the application calls.           *)
THEOREM TypeCorrect == Spec => []TypeOK
<1>1. Known => TypeOK
  BY TypedIsTypeOK DEF Known
<1> QED
  BY <1>1, AllKnown, PTL

(* channel() is the radio's, whatever the application calls: of all that   *)
(* moves either, only what OnChannel excuses leaves them apart.            *)
THEOREM ChannelTrue == Spec => []OnChannel
<1>1. Known => OnChannel
  BY DEF Known, Tuned, OnChannel, Locks
<1> QED
  BY <1>1, AllKnown, PTL

(* While end() is only called on a receiver that runs, one runs at a time  *)
(* and the statics are its own.                                            *)
THEOREM OneAtATime == ASSUME ~Stray PROVE Spec => []OneReceiver
<1>1. Held => OneReceiver
  BY DEF Held, HolderOnly, StartedTogether, RadioHeld, RadioUp, OneReceiver
<1> QED
  BY <1>1, AllHeld, PTL

(* The README's claim, in the middle of any call too: the end() of an idle *)
(* receiver is the only way to two running ones.                           *)
THEOREM NeverTwo == ASSUME ~Stray PROVE Spec => []OneActive
<1>1. Held => OneActive
  BY DEF Held, HolderOnly, OneActive
<1> QED
  BY <1>1, AllHeld, PTL

(* A begin() that failed, at any of its calls, and an end() leave nothing. *)
THEOREM CleanReturn == ASSUME ~Stray PROVE Spec => []NothingLeftBehind
<1>1. ASSUME Known, Held, TasksCounted, app.call = "idle", \A r \in Receivers : ~rx[r].started
      PROVE  /\ instance = NoRx /\ radio.user = NoRx /\ ~radio.started
             /\ ~hw.callback /\ hw.up = hw.theirs
             /\ ~driver
             /\ \A r \in Receivers : ~buffer[r] /\ ~i2s[r].running
             /\ gaveUp \/ \A t \in Receivers \X Workers : audio[t] = "gone"
  <2>1. instance = NoRx
    BY <1>1 DEF Known, Typed, Held, HolderCalls
  <2>2. \A r \in Receivers : ~rx[r].ownsRing /\ ~rx[r].ownsI2s
    BY <1>1, <2>1, LifecycleAssumption DEF Held, HolderOnly
  <2>3. ~radio.started
    BY <1>1 DEF Held, StartedTogether
  <2>4. radio.user = NoRx /\ ~hw.callback /\ (hw.up <=> hw.theirs)
    BY <1>1, <2>3 DEF Held, RadioHeld, RadioUp, Locks
  <2>5. hw.up = hw.theirs
    BY <1>1, <2>4 DEF Known, Typed, Radios
  <2>6. ~driver /\ \A r \in Receivers : ~buffer[r] /\ ~i2s[r].running /\ ~i2s[r].task
    BY <1>1, <2>2 DEF Held, SoundHeld
  <2>7. gaveUp \/ \A r \in Receivers, k \in Workers : audio[<<r, k>>] = "gone"
    BY <1>1, <2>6 DEF TasksCounted, Counted
  <2>8. gaveUp \/ \A t \in Receivers \X Workers : audio[t] = "gone"
    BY <2>7
  <2> QED
    BY <2>1, <2>3, <2>4, <2>5, <2>6, <2>8
<1>2. Known /\ Held /\ TasksCounted => NothingLeftBehind
  BY <1>1 DEF NothingLeftBehind
<1> QED
  BY <1>2, AllHeld, PTL

(* The ring is freed by a begin() that failed before the radio was up, and *)
(* by end() after its unregister: with the callback gone, and with the     *)
(* task gone that the flags no longer count.                               *)
LEMMA Freeing ==
  ASSUME Known, Held, [Next]_vars, NEW r \in Receivers, buffer[r], ~buffer'[r]
  PROVE  ~RadioUp /\ app.rx = r /\ ~i2s[r].task
<1>1. BeginI2s \/ Free \/ BeginRing
  BY DEF Next, AppStep, AudioTask, vars, Begin, End, SetChannel, BeginRadioFails, BeginRadio, Tune,
         Verify, Unregister, Stop, Wait, Uninstall, TaskTop, TaskRead, TaskWrite, RecvStart,
         RecvEnd, StaEvent, Wedge
<1>2. /\ app.rx \in Receivers /\ app.call \in {"ring", "i2s", "free"}
      /\ buffer \in [Receivers -> BOOLEAN]
  BY <1>1 DEF BeginRing, BeginI2s, Free, Known, OnReceiver, Typed
<1>3. app.rx = r
  BY <1>1, <1>2 DEF BeginRing, BeginI2s, Free
<1>4. ~RadioUp
  BY <1>2 DEF Held, StartedTogether, RadioUp, Locks
<1>5. ~i2s[r].task
  BY <1>2, <1>3 DEF Held, SoundHeld, SoundOfCall
<1> QED
  BY <1>3, <1>4, <1>5

(* What is torn down is not in use: no callback is inside onFrame of the   *)
(* receiver whose ring goes, and no task inside pump().                    *)
THEOREM FreedUnused == ASSUME ~Stray, Blocking PROVE Spec => TornDownUnused
<1> DEFINE Unused ==
      /\ \A r \in Receivers : buffer[r] /\ ~buffer'[r] =>
           /\ wifi # r
           /\ gaveUp \/ \A k \in Workers : audio[<<r, k>>] = "gone"
      /\ driver /\ ~driver' => gaveUp \/ \A t \in Receivers \X Workers : audio[t] = "gone"
<1>1. ASSUME Known, Held, TasksCounted, Receiving, [Next]_vars PROVE Unused
  <2>1. ASSUME NEW r \in Receivers, buffer[r], ~buffer'[r]
        PROVE  wifi # r /\ (gaveUp \/ \A k \in Workers : audio[<<r, k>>] = "gone")
    <3>1. ~RadioUp /\ ~i2s[r].task
      BY <1>1, <2>1, Freeing
    <3>2. wifi # r
      BY <1>1, <3>1, LifecycleAssumption DEF Held, RadioHeld, Receiving
    <3> QED
      BY <1>1, <3>1, <3>2 DEF TasksCounted, Counted
  <2>2. ASSUME driver, ~driver'
        PROVE  gaveUp \/ \A t \in Receivers \X Workers : audio[t] = "gone"
    <3>1. Uninstall
      BY <1>1, <2>2 DEF Next, AppStep, AudioTask, vars, sound, Begin, End, SetChannel, BeginRing,
           BeginI2s, BeginRadioFails, BeginRadio, Tune, Verify, Unregister, Stop, Wait, Free,
           TaskTop, TaskRead, TaskWrite, RecvStart, RecvEnd, StaEvent, Wedge
    <3>2. app.call = "uninstall" /\ instance \in Receivers /\ app.rx = instance
      BY <1>1, <3>1 DEF Uninstall, Held, HolderCalls, Ends
    <3>3. \A r \in Receivers : ~i2s[r].task
      BY <1>1, <3>2 DEF Held, HolderOnly, SoundHeld, SoundOfCall
    <3>4. gaveUp \/ \A r \in Receivers, k \in Workers : audio[<<r, k>>] = "gone"
      BY <1>1, <3>3 DEF TasksCounted, Counted
    <3> QED
      BY <3>4
  <2> QED
    BY <2>1, <2>2
<1>2. Known /\ Held /\ TasksCounted /\ Receiving /\ [Next]_vars => [Unused]_vars
  BY <1>1
<1> QED
  BY <1>2, AllHeld, AllReceiving, PTL DEF Spec, TornDownUnused

(* Of tasks that are counted, one reads a ring.                            *)
LEMMA OneReader ==
  ASSUME Counted PROVE OneConsumer
<1> SUFFICES ASSUME NEW r \in Receivers
             PROVE  Cardinality({k \in Workers : audio[<<r, k>>] = "read"}) <= 1
  BY DEF OneConsumer
<1> DEFINE R == {k \in Workers : audio[<<r, k>>] = "read"}
<1>1. R = {} \/ \E k \in Workers : R = {k}
  BY DEF Counted
<1>2. Cardinality(R) = 0 \/ Cardinality(R) = 1
  BY <1>1, FS_EmptySet, FS_Singleton
<1> QED
  BY <1>2

(* With a task that outlives its end(), a second one on the same ring      *)
(* needs an end() that gave up.                                            *)
THEOREM SecondConsumer == ASSUME ~Stray PROVE Spec => [](gaveUp \/ OneConsumer)
<1>1. TasksCounted => gaveUp \/ OneConsumer
  BY OneReader DEF TasksCounted
<1> QED
  BY <1>1, AllHeld, PTL

(* A driver that never sticks leaves each ring one consumer.               *)
THEOREM ConsumerAlone == ASSUME ~Stray, ~MayWedge PROVE Spec => []OneConsumer
<1> DEFINE Waited == ~wedged /\ ~gaveUp
<1>1. Init => Waited
  BY DEF Init
<1>2. ASSUME Waited, [Next]_vars PROVE Waited'
  <2>1. UNCHANGED <<wedged, gaveUp>> \/ Wait \/ Wedge
    BY <1>2 DEF Next, AppStep, AudioTask, vars, history, Begin, End, SetChannel, BeginRing,
       BeginI2s, BeginRadioFails, BeginRadio, Tune, Verify, Unregister, Stop, Uninstall, Free,
       TaskTop, TaskRead, TaskWrite, RecvStart, RecvEnd, StaEvent
  <2>2. CASE Wait
    BY <1>2, <2>2 DEF Wait
  <2>3. CASE Wedge
    BY <2>3 DEF Wedge
  <2> QED
    BY <1>2, <2>1, <2>2, <2>3
<1>3. Waited /\ (gaveUp \/ OneConsumer) => OneConsumer
  OBVIOUS
<1> QED
  BY <1>1, <1>2, <1>3, SecondConsumer, PTL DEF Spec
=============================================================================
