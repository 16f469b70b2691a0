----------------------------- MODULE Lifecycle -----------------------------
(***************************************************************************)
(* HapbeatEspNowRx's begin() and end() with what they bring up and tear    *)
(* down: the statics of EspNowTransport, the I2S driver and the audio task *)
(* of I2sSink, and the buffer of JitterRing.  Three threads meet here: the *)
(* application's (begin, end, setChannel), the Wi-Fi task inside the       *)
(* receive callback, and the audio task inside pump().  Every call that    *)
(* can fail may fail.                                                      *)
(*                                                                         *)
(* ESP-NOW, the Wi-Fi driver and the I2S driver are external: hw, driver,  *)
(* StaEvent and Wedge say what the code has to expect of them.             *)
(***************************************************************************)
EXTENDS Integers, FiniteSets

CONSTANTS
  Receivers, NoRx,  \* HapbeatEspNowRx objects; the null pointer
  Tries,            \* 8: the attempts of lockChannel
  Stray,            \* the application also calls end() on an idle receiver
  Blocking,         \* esp_now_unregister_recv_cb waits for a running callback
  MaxEvents,        \* bound: late STA events that reset the channel
  Channels,         \* the channels asked for
  Workers,          \* bound: the audio tasks one receiver can have at a time
  MayWedge          \* i2s_write may fail to return for longer than end() waits

ASSUME LifecycleAssumption ==
  /\ NoRx \notin Receivers
  /\ Tries \in Nat \ {0} /\ MaxEvents \in Nat
  /\ {Stray, Blocking, MayWedge} \subseteq BOOLEAN

VARIABLES
  rx,        \* per receiver: _started, _ownsRing, _ownsI2s
  instance,  \* s_instance
  radio,     \* EspNowTransport: s_fn with s_user, s_channel, s_ownsWifi, s_started
  buffer,    \* per receiver: JitterRing::_buf is allocated
  i2s,       \* per receiver: I2sSink::_running, _task
  driver,    \* the I2S driver is installed
  audio,     \* the audio tasks, two for a receiver at most
  wifi,      \* the receiver whose onFrame runs on the Wi-Fi task
  hw,        \* the radio: callback registered, ESP-NOW up, channel, STA events
  app,       \* the application's thread: the call it is in, and how far
  wedged,    \* i2s_write does not return
  gaveUp,    \* history: end() stopped waiting for a task
  excused    \* history: lockChannel gave up or was not called, or an event came since

vars == <<rx, instance, radio, buffer, i2s, driver, audio, wifi, hw, app, wedged, gaveUp, excused>>

ChannelValid(ch) == ch \in {1, 6, 11}
Outputs == {"i2s", "pull", "own"}   \* I2S pins given; none; the caller's FrameSink

Calls == {"idle", "ring", "i2s", "radio", "tune", "verify", "unregister", "stop", "wait",
          "uninstall", "free"}

TypeOK ==
  /\ rx \in [Receivers -> [started : BOOLEAN, ownsRing : BOOLEAN, ownsI2s : BOOLEAN]]
  /\ instance \in Receivers \cup {NoRx}
  /\ radio \in [user : Receivers \cup {NoRx}, channel : {1, 6, 11}, owns : BOOLEAN,
                started : BOOLEAN]
  /\ buffer \in [Receivers -> BOOLEAN]
  /\ i2s \in [Receivers -> [running : BOOLEAN, task : BOOLEAN]]
  /\ driver \in BOOLEAN
  /\ audio \in [Receivers \X Workers -> {"gone", "top", "read", "write"}]
  /\ wifi \in Receivers \cup {NoRx}
  /\ hw \in [callback : BOOLEAN, up : BOOLEAN, theirs : BOOLEAN, channel : {1, 6, 11},
             events : 0 .. MaxEvents]
  /\ app \in [call : Calls, rx : Receivers \cup {NoRx}, out : Outputs, channel : Channels \cup {1},
              init : BOOLEAN, tries : 0 .. Tries]
  /\ {wedged, gaveUp, excused} \subseteq BOOLEAN

Returned == [call |-> "idle", rx |-> NoRx, out |-> "own", channel |-> 1, init |-> FALSE,
             tries |-> 0]

Init ==
  /\ rx = [r \in Receivers |-> [started |-> FALSE, ownsRing |-> FALSE, ownsI2s |-> FALSE]]
  /\ instance = NoRx
  /\ radio = [user |-> NoRx, channel |-> 11, owns |-> FALSE, started |-> FALSE]
  /\ buffer = [r \in Receivers |-> FALSE]
  /\ i2s = [r \in Receivers |-> [running |-> FALSE, task |-> FALSE]]
  /\ driver = FALSE
  /\ audio = [t \in Receivers \X Workers |-> "gone"]
  /\ wifi = NoRx
  /\ \E theirs \in BOOLEAN :   \* the application brought ESP-NOW up itself
       hw = [callback |-> FALSE, up |-> theirs, theirs |-> theirs, channel |-> 1,
             events |-> MaxEvents]
  /\ app = Returned
  /\ wedged = FALSE /\ gaveUp = FALSE /\ excused = TRUE

sound == <<i2s, driver, audio>>
history == <<gaveUp, excused>>

GoTo(call) == app' = [app EXCEPT !.call = call]

(***************************************************************************)
(* begin().                                                                *)
(***************************************************************************)
(* Mutant: s_instance is taken from whoever has it.                        *)
BeginAnyway(r, out, ch, init) ==
  /\ app.call = "idle" /\ ~rx[r].started
  /\ instance' = r
  /\ app' = [Returned EXCEPT !.call = IF out = "own" THEN "radio" ELSE "ring",
                             !.rx = r, !.out = out, !.channel = ch, !.init = init]
  /\ UNCHANGED <<rx, radio, buffer, sound, wifi, hw, wedged, history>>

(* The checks, and s_instance taken.                                       *)
Begin(r, out, ch, init) ==
  /\ app.call = "idle" /\ ~rx[r].started /\ instance \in {r, NoRx}
  /\ instance' = r
  /\ app' = [Returned EXCEPT !.call = IF out = "own" THEN "radio" ELSE "ring",
                             !.rx = r, !.out = out, !.channel = ch, !.init = init]
  /\ UNCHANGED <<rx, radio, buffer, sound, wifi, hw, wedged, history>>

BeginRing ==
  /\ app.call = "ring"
  /\ \/ /\ buffer' = [buffer EXCEPT ![app.rx] = TRUE]
        /\ rx' = [rx EXCEPT ![app.rx].ownsRing = TRUE]
        /\ GoTo(IF app.out = "i2s" THEN "i2s" ELSE "radio")
        /\ UNCHANGED instance
     \/ /\ buffer' = [buffer EXCEPT ![app.rx] = FALSE]
        /\ instance' = NoRx /\ app' = Returned /\ UNCHANGED rx
  /\ UNCHANGED <<radio, sound, wifi, hw, wedged, history>>

FreeWorkers(r) == {k \in Workers : audio[<<r, k>>] = "gone"}

(* The task starts at once, unless the application pumps for itself.       *)
StartSound(r) == \E startTask \in BOOLEAN :
  /\ i2s' = [i2s EXCEPT ![r] = [running |-> TRUE, task |-> startTask]]
  /\ IF startTask THEN \E k \in FreeWorkers(r) : audio' = [audio EXCEPT ![<<r, k>>] = "top"]
                  ELSE UNCHANGED audio

(* Mutant: an I2S failure returns with the ring still allocated.           *)
BeginI2sLeaky ==
  /\ app.call = "i2s"
  /\ \/ /\ ~driver /\ ~i2s[app.rx].running
        /\ driver' = TRUE /\ StartSound(app.rx)
        /\ rx' = [rx EXCEPT ![app.rx].ownsI2s = TRUE]
        /\ GoTo("radio") /\ UNCHANGED <<instance, buffer>>
     \/ /\ instance' = NoRx /\ app' = Returned
        /\ UNCHANGED <<rx, buffer, sound>>
  /\ UNCHANGED <<radio, wifi, hw, wedged, history>>

(* Driver, pins and task; whatever of them fails, the driver is removed,   *)
(* and begin() frees the ring.                                             *)
BeginI2s ==
  /\ app.call = "i2s"
  /\ \/ /\ ~driver /\ ~i2s[app.rx].running
        /\ driver' = TRUE /\ StartSound(app.rx)
        /\ rx' = [rx EXCEPT ![app.rx].ownsI2s = TRUE]
        /\ GoTo("radio") /\ UNCHANGED <<instance, buffer>>
     \/ /\ buffer' = [buffer EXCEPT ![app.rx] = FALSE]
        /\ rx' = [rx EXCEPT ![app.rx].ownsRing = FALSE]
        /\ instance' = NoRx /\ app' = Returned
        /\ UNCHANGED sound
  /\ UNCHANGED <<radio, wifi, hw, wedged, history>>

(***************************************************************************)
(* EspNowTransport::begin, over the shared statics.  A failed startCommon  *)
(* goes on with end() when the receiver owns its output.                   *)
(***************************************************************************)
Bring(up, callback) == hw' = [hw EXCEPT !.up = up, !.callback = callback]

Statics(user) ==
  radio' = [radio EXCEPT !.user = user, !.channel = app.channel, !.owns = app.init]

BeginRadioFails ==
  /\ app.call = "radio"
  /\ \/ /\ radio.started \/ ~ChannelValid(app.channel)
        /\ UNCHANGED <<radio, hw>>
     \/ /\ ~radio.started /\ ChannelValid(app.channel)
        /\ Statics(NoRx)
        /\ Bring(hw.up /\ ~app.init, hw.callback)   \* esp_now_deinit after a failed register
  /\ IF app.out = "own" THEN instance' = NoRx /\ app' = Returned
                        ELSE GoTo("unregister") /\ UNCHANGED instance
  /\ UNCHANGED <<rx, buffer, sound, wifi, wedged, history>>

Started ==
  /\ radio' = [radio EXCEPT !.started = TRUE]
  /\ rx' = IF radio.started THEN rx ELSE [rx EXCEPT ![app.rx].started = TRUE]
  /\ app' = Returned

(* An access point the application joined owns the channel: no lockChannel.*)
BeginRadio(connected) ==
  /\ app.call = "radio"
  /\ ~radio.started /\ ChannelValid(app.channel)
  /\ connected => ~app.init
  /\ app.init \/ hw.up
  /\ Bring(TRUE, TRUE)
  /\ IF connected
       THEN /\ radio' = [user |-> app.rx, channel |-> app.channel, owns |-> app.init,
                         started |-> TRUE]
            /\ rx' = [rx EXCEPT ![app.rx].started = TRUE]
            /\ app' = Returned /\ excused' = TRUE
       ELSE Statics(app.rx) /\ GoTo("tune") /\ UNCHANGED <<rx, excused>>
  /\ UNCHANGED <<instance, buffer, sound, wifi, wedged, gaveUp>>

(* lockChannel: set, wait 10 ms, read back.  Neither call need succeed.    *)
Tune ==
  /\ app.call = "tune"
  /\ \E ch \in {app.channel, hw.channel} : hw' = [hw EXCEPT !.channel = ch]
  /\ GoTo("verify")
  /\ UNCHANGED <<rx, instance, radio, buffer, sound, wifi, wedged, history>>

(* Mutant: esp_wifi_set_channel is taken at its word.                      *)
VerifyTrusting ==
  /\ app.call = "verify"
  /\ Started /\ excused' = FALSE
  /\ UNCHANGED <<instance, buffer, sound, wifi, hw, wedged, gaveUp>>

(* Mutant: the attempts are not counted.                                   *)
VerifyEndless ==
  /\ app.call = "verify"
  /\ IF hw.channel = app.channel
       THEN Started /\ excused' = FALSE
       ELSE /\ app' = [app EXCEPT !.call = "tune", !.tries = @ + 1]
            /\ UNCHANGED <<rx, radio, excused>>
  /\ UNCHANGED <<instance, buffer, sound, wifi, hw, wedged, gaveUp>>

Verify ==
  /\ app.call = "verify"
  /\ \/ /\ hw.channel = app.channel
        /\ Started /\ excused' = FALSE
     \/ /\ app.tries + 1 < Tries          \* another channel read, or none
        /\ app' = [app EXCEPT !.call = "tune", !.tries = @ + 1]
        /\ UNCHANGED <<rx, radio, excused>>
     \/ /\ app.tries + 1 = Tries        \* begin() runs anyway, setChannel says so
        /\ Started /\ excused' = TRUE
  /\ UNCHANGED <<instance, buffer, sound, wifi, hw, wedged, gaveUp>>

(* setChannel: refused while an access point holds the channel, and kept   *)
(* in s_channel even then.                                                 *)
SetChannel(r, ch, connected) ==
  /\ app.call = "idle" /\ ChannelValid(ch)
  /\ connected => ~radio.owns
  /\ radio' = [radio EXCEPT !.channel = ch]
  /\ IF radio.started /\ ~connected
       THEN /\ app' = [Returned EXCEPT !.call = "tune", !.rx = r, !.channel = ch]
            /\ UNCHANGED excused
       ELSE excused' = TRUE /\ UNCHANGED app
  /\ UNCHANGED <<rx, instance, buffer, sound, wifi, hw, wedged, gaveUp>>

(***************************************************************************)
(* end(): the radio, the sound, the ring.                                  *)
(***************************************************************************)
End(r) ==
  /\ app.call = "idle" /\ (Stray \/ rx[r].started)
  /\ app' = [Returned EXCEPT !.call = "unregister", !.rx = r]
  /\ UNCHANGED <<rx, instance, radio, buffer, sound, wifi, hw, wedged, history>>

Unregister ==
  /\ app.call = "unregister"
  /\ IF radio.started
       THEN /\ Blocking => wifi = NoRx
            /\ Bring(hw.up /\ ~radio.owns, FALSE)
            /\ radio' = [radio EXCEPT !.user = NoRx, !.started = FALSE]
       ELSE UNCHANGED <<hw, radio>>
  /\ GoTo(IF rx[app.rx].ownsI2s THEN "stop" ELSE "free")
  /\ UNCHANGED <<rx, instance, buffer, sound, wifi, wedged, history>>

Stop ==
  /\ app.call = "stop"
  /\ i2s' = [i2s EXCEPT ![app.rx].running = FALSE]
  /\ GoTo(IF i2s[app.rx].task THEN "wait" ELSE "uninstall")
  /\ UNCHANGED <<rx, instance, radio, buffer, driver, audio, wifi, hw, wedged, history>>

(* Mutant: end() waits for the task however long it takes.                 *)
WaitForever ==
  /\ app.call = "wait" /\ ~i2s[app.rx].task
  /\ GoTo("uninstall")
  /\ UNCHANGED <<rx, instance, radio, buffer, sound, wifi, hw, wedged, history>>

(* Mutant: end() does not wait.                                            *)
WaitNot ==
  /\ app.call = "wait"
  /\ i2s' = [i2s EXCEPT ![app.rx].task = FALSE]
  /\ GoTo("uninstall")
  /\ UNCHANGED <<rx, instance, radio, buffer, driver, audio, wifi, hw, wedged, history>>

(* The task cleared _task, or a second has passed with i2s_write stuck.    *)
Wait ==
  /\ app.call = "wait"
  /\ ~i2s[app.rx].task \/ wedged
  /\ gaveUp' = (gaveUp \/ i2s[app.rx].task)
  /\ i2s' = [i2s EXCEPT ![app.rx].task = FALSE]
  /\ GoTo("uninstall")
  /\ UNCHANGED <<rx, instance, radio, buffer, driver, audio, wifi, hw, wedged, excused>>

Uninstall ==
  /\ app.call = "uninstall"
  /\ driver' = FALSE
  /\ rx' = [rx EXCEPT ![app.rx].ownsI2s = FALSE]
  /\ GoTo("free")
  /\ UNCHANGED <<instance, radio, buffer, i2s, audio, wifi, hw, wedged, history>>

Free ==
  /\ app.call = "free"
  /\ buffer' = [buffer EXCEPT ![app.rx] = @ /\ ~rx[app.rx].ownsRing]
  /\ rx' = [rx EXCEPT ![app.rx] = [started |-> FALSE, ownsRing |-> FALSE, ownsI2s |-> FALSE]]
  /\ instance' = NoRx
  /\ app' = Returned
  /\ UNCHANGED <<radio, sound, wifi, hw, wedged, history>>

(***************************************************************************)
(* The audio task: while _running, pump() reads the ring and writes I2S.   *)
(***************************************************************************)
Move(t, to) == audio' = [audio EXCEPT ![t] = to]

TaskTop(t) ==
  /\ audio[t] = "top"
  /\ IF i2s[t[1]].running THEN Move(t, "read") /\ UNCHANGED i2s
     ELSE Move(t, "gone") /\ i2s' = [i2s EXCEPT ![t[1]].task = FALSE]
  /\ UNCHANGED <<rx, instance, radio, buffer, driver, wifi, hw, app, wedged, history>>

TaskRead(t) ==
  /\ audio[t] = "read" /\ Move(t, "write")
  /\ UNCHANGED <<rx, instance, radio, buffer, i2s, driver, wifi, hw, app, wedged, history>>

TaskWrite(t) ==
  /\ audio[t] = "write" /\ ~wedged /\ Move(t, "top")
  /\ UNCHANGED <<rx, instance, radio, buffer, i2s, driver, wifi, hw, app, wedged, history>>

(***************************************************************************)
(* The Wi-Fi task: recvTrampoline into onFrame and out of it.              *)
(***************************************************************************)
RecvStart ==
  /\ hw.callback /\ wifi = NoRx /\ wifi' = radio.user
  /\ UNCHANGED <<rx, instance, radio, buffer, sound, hw, app, wedged, history>>

RecvEnd ==
  /\ wifi # NoRx /\ wifi' = NoRx
  /\ UNCHANGED <<rx, instance, radio, buffer, sound, hw, app, wedged, history>>

(* The STA's start or disconnect settles late, and the channel is 1 again. *)
StaEvent ==
  /\ hw.events > 0
  /\ hw' = [hw EXCEPT !.channel = 1, !.events = @ - 1]
  /\ excused' = TRUE
  /\ UNCHANGED <<rx, instance, radio, buffer, sound, wifi, app, wedged, gaveUp>>

Wedge ==
  /\ MayWedge /\ wedged' = ~wedged
  /\ wedged \/ \E t \in DOMAIN audio : audio[t] = "write"
  /\ UNCHANGED <<rx, instance, radio, buffer, sound, wifi, hw, app, history>>

AppStep == \/ BeginRing \/ BeginI2s \/ BeginRadioFails \/ (\E c \in BOOLEAN : BeginRadio(c))
           \/ Tune \/ Verify \/ Unregister \/ Stop \/ Wait \/ Uninstall \/ Free

AudioTask == \E t \in Receivers \X Workers : TaskTop(t) \/ TaskRead(t) \/ TaskWrite(t)

Next ==
  \/ \E r \in Receivers, out \in Outputs, ch \in Channels, init \in BOOLEAN :
       (init => ~hw.theirs) /\ Begin(r, out, ch, init)
  \/ \E r \in Receivers : End(r)
  \/ \E r \in Receivers, ch \in Channels, c \in BOOLEAN : SetChannel(r, ch, c)
  \/ AppStep \/ AudioTask \/ RecvStart \/ RecvEnd \/ StaEvent \/ Wedge

(***************************************************************************)
(* The threads run, and a callback returns.  The driver serves a request   *)
(* to unregister between two frames, so the stream cannot hold it off for  *)
(* ever; the wait of end() is by the clock, whatever the driver does.      *)
(* Nothing says that a wedged driver ever recovers.                        *)
(***************************************************************************)
Spec == /\ Init /\ [][Next]_vars
        /\ WF_vars(AppStep) /\ WF_vars(AudioTask) /\ WF_vars(RecvEnd)
        /\ SF_vars(Unregister) /\ SF_vars(Wait)

(***************************************************************************)
(* Properties.                                                             *)
(***************************************************************************)
(* One receiver runs at a time, and the statics every receiver shares      *)
(* (s_instance, s_user, the ESP-NOW callback) are its own.                 *)
OneReceiver ==
  app.call = "idle" => \A r \in Receivers : rx[r].started =>
    /\ instance = r /\ radio.user = r /\ radio.started /\ hw.callback
    /\ \A o \in Receivers \ {r} : ~rx[o].started

(* When begin() has failed or end() has returned, nothing of it is left:   *)
(* no callback, no driver, no task, no buffer, ESP-NOW as the application  *)
(* had it, so that the next begin() can succeed.                           *)
NothingLeftBehind ==
  app.call = "idle" /\ (\A r \in Receivers : ~rx[r].started) =>
    /\ instance = NoRx /\ radio.user = NoRx /\ ~radio.started
    /\ ~hw.callback /\ hw.up = hw.theirs
    /\ ~driver
    /\ \A r \in Receivers : ~buffer[r] /\ ~i2s[r].running
    /\ gaveUp \/ \A t \in Receivers \X Workers : audio[t] = "gone"

(* A ring is freed, and the driver removed, only when no thread is using   *)
(* it: not the Wi-Fi task inside onFrame, not the audio task inside pump() *)
(* (unless end() was made to give up on a wedged driver).                  *)
TornDownUnused == [][
  /\ \A r \in Receivers : buffer[r] /\ ~buffer'[r] =>
       /\ wifi # r
       /\ gaveUp \/ \A k \in Workers : audio[<<r, k>>] = "gone"
  /\ driver /\ ~driver' => gaveUp \/ \A t \in Receivers \X Workers : audio[t] = "gone"]_vars

(* channel() is the channel the radio listens on, unless lockChannel gave  *)
(* up (setChannel then says so, begin() runs anyway), an access point has  *)
(* the channel, or a late STA event has moved the radio since.             *)
OnChannel == app.call = "idle" /\ radio.started /\ ~excused => hw.channel = radio.channel

(* begin(), setChannel() and end() return, a wedged I2S driver included.   *)
CallsReturn == app.call # "idle" ~> app.call = "idle"

(* As README.md and HapbeatEspNowRx.h have it, "exactly one instance can   *)
(* be active at a time": no two receivers are started, whoever calls end().*)
OneActive == \A r, o \in Receivers : rx[r].started /\ rx[o].started => r = o

(* As JitterRing.h has it, a ring has one consumer: not a task that end()  *)
(* gave up on, woken beside the task of the next begin().                  *)
OneConsumer == \A r \in Receivers : Cardinality({k \in Workers : audio[<<r, k>>] = "read"}) <= 1

(* As end() has it, nothing is still writing into the ring while it is     *)
(* being torn down, however esp_now_unregister_recv_cb treats a callback   *)
(* that is running.                                                        *)
NoWriterAtFree == [][\A r \in Receivers : buffer[r] /\ ~buffer'[r] => wifi # r]_vars
=============================================================================
