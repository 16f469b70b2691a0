# Hapbeat ESP-NOW receiver: verification project

TLA+ models, TLC runs and TLAPS proofs for `hapbeat-espnow-rx`, the C++ library
that receives an audio stream over ESP-NOW broadcast and plays it through I2S.
Paths below are relative to the repository; `src/protocol/...` there is
`src/src/protocol/...` in `PROJECT.json`.

## 1. The system

### Threads

| thread | enters through | touches |
|---|---|---|
| Wi-Fi task | `recvTrampoline` → `HapbeatEspNowRx::onFrame` → `StreamDecoder::onPacket` | decoder, selector, fleet gate; writes the ring and its depth |
| Arduino loop | `HapbeatEspNowRx::tick` → `dispatchDeferred`, `idleTick`; controls | request flags, event flags, the volume mailbox; `idleTick` also the selector |
| audio task | `I2sSink::taskEntry` / `pump` → `JitterRing::read` | reads the ring, advances `_r` |

There are no locks. The decoder relies on a single writer
(`HapbeatStreamDecoder.h`, THREADING); the ring on two atomic indices.

### Components

| component | state | operations | hard | correct when |
|---|---|---|---|---|
| `SourceSelector` | table of transmitters (last heard, RSSI, packets in the window, cool-off), lock or remembered slot, loss window | `admit`, `tick`, `forceRelock`, `noteLockLoss`, `setOptions`, `setRelayTestOnly`, `consumeLockChanged` | eviction, three reasons to switch, cool-offs, wrapping times | sources are never mixed, the lock moves for cause, the receiver is never stranded |
| `FleetTune` | last epoch per parameter | `onBeacon` | lost, repeated, overtaken beacons; epochs wrap | never goes back to an older setting, converges to the operator's |
| `StreamDecoder` | mode, expected sequence, fade, requests, pending events, volume mailbox | `onPacket`, `idleTick`, `dispatchDeferred`, controls | gaps, splices, handoffs, mode changes, requests and events across threads, lengths announced by the packet | frames in order and in place, seams faded, loss exact, requests and events not lost, nothing read past the packet |
| `JitterRing` | buffer, `_w`, `_r`, depths, `_priming` | `writeFrames`, `setJitterFrames`, `reprime`, `read` | two tasks, depths changed while reading | a lossy FIFO that plays again after a reprime |
| `HapbeatEspNowRx` | `_started`, ownership flags, `s_instance` | `begin`, `end`, `setChannel`, `tick`, `onFrame` | failure at every step, teardown under two tasks, a `now` that ages | one receiver at a time, nothing used after `end` |
| `EspNowTransport` | the statics `s_fn`, `s_user`, `s_channel`, `s_ownsWifi`, `s_started` | `begin`, `end`, `setChannel`, `recvTrampoline` | one set for all receivers; the channel moves by itself | its owner's callback, the channel reported is the radio's |
| `I2sSink` | `_running`, `_task`, the driver | `begin`, `end`, `taskEntry`, `pump` | a driver that does not return | `end` returns, the driver goes when no task uses it |
| `ImaAdpcm`, `StreamModes` | codec state; a table | one sample, blocks; look-up | announced states outside the table, odd sample counts | the receiver's samples are the transmitter's |
| `OpusBackend` | the decoders and the shape they have | `reset`, `decode`, `conceal`, `release` | shape changes, failed allocation | never decodes with another shape |

A packet goes `onPacket` → requests → `admit` → (lock change: tracking restarts,
fade armed, event raised) → (mode change: depth, reprime, decoder shape, event)
→ recovery of the gap → the packet's frame → `noteLockLoss` → `tick`. A beacon
from the locked source goes `onPacket` → `FleetTune::onBeacon` → ring depth,
selector options, resync gap or the volume mailbox.

`begin` takes `s_instance`, then brings up the ring, the I2S driver with its
task, and the radio; a failure takes down what came before. `end` unregisters
the callback, stops the task and waits for it, removes the driver and frees the
ring.

The behaviours that are hard to test are listed line by line under `hazards`
in `PROJECT.json`.

## 2. Modules

| module | models | state and actions |
|---|---|---|
| `SelectorOps` | every method of `SourceSelector`, as operators on its fields | `Admit`, `Tick`, `ForceRelock`, ... take a selector and return one, in the order the method assigns |
| `SourceSelector` | what `onPacket`, `idleTick` and the controls do to it | `Packet`, `Idle`, `Tune`, `RequestRelock`, `RequestRelayTest`, `Clockwork`; `track` is the source whose sequence the decoder follows |
| `SelectorLemmas`, `SourceSelectorProofs` | proofs about the two above | |
| `ReceiverThreads` | one decoder between the Wi-Fi task and the loop: requests, lock, times and events, one step per access to what they share | Wi-Fi: `OnPacket` to `Decode`, `Stale`, `Drop`, `Look`, `Clear`, `IdleTickOnWifi`; loop: `RequestRelock`, `SetRelayTestOnly`, `RaiseRelayTest`, `LoopTick` to `ModeCallback`; `Time` ages every call's `now` |
| `ReceiverThreadsProofs` | proofs about it | |
| `FleetRegister` | abstract: a versioned register that loses and repeats announcements but never goes back | |
| `FleetTune` | epoch gate, ranges, effect of a beacon, mode switches, mailbox, resending transmitter | `OnBeacon`, `ApplyMode`, `Relock`, `Unlock`, `DispatchRead`, `DispatchClear`, `Reboot`; `Change`, `Correct`, `Resend`, `Lose` are the environment |
| `FleetTuneProofs` | proofs about it, with the refinement of `FleetRegister` | |
| `LossyFifo` | abstract: a bounded queue that may skip its oldest frames | |
| `JitterRing` | the ring, one step for each access to a shared variable, a field named twice being read twice | producer `WriteBegin`, `CopyFrame`, `WriteEnd`, `SetJitterFrames`, `Reprime`, `Store`; consumer `ReadBegin` to `ReadEnd` |
| `JitterRingProofs` | proofs about it, with the refinement of `LossyFifo` | |
| `StreamDecoder` | 0xAA packets: gap classes, recovery, splices, fades, modes, the Opus backend's shape and what it refuses | `Packet` (`Ignored` or `Taken`), `Idle`; `Splice` is the environment |
| `StreamDecoderProofs` | proofs about it | |
| `StreamModes` | codec and channels of the ten modes | |
| `ImaAdpcm` | the ADPCM decoder: tables, a sample, mono and stereo blocks | operators |
| `StreamPacket` | the bytes of a 0xAA packet: header, body, copies, and what is decoded of them | `Parse` is the receiver; `Send`, `Shorten`, `Pass`, `Stray` are the transmitter and the air |
| `StreamPacketProofs` | proofs about it and `ImaAdpcm` | |
| `Lifecycle` | `begin`, `end` and `setChannel` of several receivers with all they bring up, the receive callback and the audio task | application: `Begin`, `BeginRing` to `Verify`, `End`, `Unregister` to `Free`, `SetChannel`; `RecvStart`, `RecvEnd`; `TaskTop`, `TaskRead`, `TaskWrite`; `StaEvent`, `Wedge` are the drivers |
| `LifecycleProofs` | proofs about it | |
| `MC...` | values for constants that a `.cfg` cannot write | |

How they fit together: `SourceSelector` composes the class with its driver on
one thread; `ReceiverThreads` cuts the same flow at its shared accesses and
leaves the table's data out. `StreamDecoder` takes the selector as `LockStep`,
which keeps what `SourceSelector` shows of a call (a lock on a source that was
not locked before the call raises `_lockChanged`; a release may be silent), and
takes a packet as the body and copies that `StreamPacket` finds in it.
`FleetTune` and `JitterRing` implement their abstract specifications.
`Lifecycle` sees a ring as allocated or not, and a stream as calls of `onFrame`.

Abstractions, on purpose:

- `onPacket` is one step in `SourceSelector`, `FleetTune` and `StreamDecoder`:
  the header asks for one thread. What the other threads read or write
  meanwhile is cut into steps in `ReceiverThreads`, `FleetTune` (mailbox) and
  `JitterRing`.
- `ReceiverThreads` knows no RSSI and no rate window, its packets are well
  formed, and source `k` has slot `k`. Times are ages: `heard[k]` is how long
  ago `last_ms` is, and a thread's `lag` how old its `now` has become.
- Samples are left out except in `ImaAdpcm` and `StreamPacket`: elsewhere a
  frame is its number, and concealment a marked place. Gain, the decay of a
  held sample, the ramp's arithmetic and concealed frames in `droppedFrames()`
  are not modelled. `fadeFrames` is at most a packet, `silenceCapFrames` is
  counted in packets. The Opus backend may refuse any frame, copy or
  concealment, and conceals for as long as `outSamples` asks: `len` is 0 for what
  is refused and `ConcealLen` for what is concealed.
- A compiler may read a plain field once where the source names it twice. In
  `JitterRing` that is the behaviour in which no store falls between the two
  steps.
- A transmitter's packets are numbered for ever; the receiver sees the number
  modulo `SeqMod`. Likewise the version of a fleet parameter and `EpochMod`,
  the ring's indices and `WordMod`. `SourceSelector` counts the
  milliseconds since the boot, and hands the code `Millis`, their value modulo
  `ClockMod`.
- In `StreamPacket` bytes beyond a packet, and steps beyond the step table, are
  a parameter: `WithinPacket` says that its value never matters.
- In `Lifecycle` the radio has three channels, each call that can fail may, and
  ESP-NOW may have been brought up by the application.
- Variables marked "history" (`h`, `latched`, `pending`, `torn`, `played`,
  `tail`, `follows`, `blocks`, `gaveUp`, `excused`) are read by properties and by no
  code action's guard.

## 3. Runs

Passing runs:

| run | asks | bounds |
|---|---|---|
| `SelectorFailover` | silences, failovers, evictions and forced re-locks with 3 sources in 2 slots | 4 ms across the wrap of `millis()`, a timeout of 1 and a cool-off of 2: a source can go silent, be evicted, return and leave its cool-off |
| `SelectorRate` | rate switches and cool-offs, with selection switched by beacons and forced re-locks | 5 ms across the wrap, windows of 2 ms, one lost packet, nominal 2 per window, a cool-off of 4; no RSSI, counters up to 2, a slot per source |
| `SelectorRelay` | relay test switched on over relayed and origin packets of ranked signals; handoffs counted, the RSSI challenge spaced | two levels 10 dB apart, hold 2 ms, 6 ms across the wrap, a slot per source |
| `FleetGate` | the gate is the register, under legacy senders, bad values, loss, repetition, reordering | epochs modulo 4, 7 versions: the counter wraps and all distances occur |
| `FleetConverges` | the operator's buffer and volume come into effect | 2 versions, one reboot or lost lock |
| `RingFifo` | the ring is a lossy FIFO until a trim goes to a depth above the fill, every frame accounted for, playback starts again, also for a depth beyond the ring | 4 frames, indices modulo 8, batches of 1 and 3, blocks of 2, two changes between depths of 1, 2 and 3 frames |
| `Decoder` | order, seams, loss, across a sequence wrap, a splice, modes of each body, with and without an Opus backend whose reset may fail and which may refuse anything | 8 packets, sequence modulo 16; gaps of 1 to 4 are loss of which 3 are recovered, 5 and more a splice |
| `Wire` | what is decoded is what was sent: packets cut at every length, with copies, relayed or not, and packets of nobody's | four streams (SOLID of 2 frames, LITE of 3, STEREO, FINE), 5 packets, 0 to 4 copies announced, two coder states at full scale; foreign headers of nine lengths |
| `Threads` | controls and packets at every shared access: no request or event lost; no splice and no live lock lost before `onPacket` and `idleTick` overlap | two sources, one relayed, one of two modes; `idleTick` on either thread, calls that take no time, up to the end of the first overlap |
| `Lifecycle` | two receivers begun and ended with every call failing, a callback and a task in progress, late STA events, a wedged driver | two attempts at the channel, one STA event, a task per receiver, a valid and an invalid channel |

`MACs` are symmetric in the selector runs. Deadlock is checked where the model
goes on for ever (ring, decoder, threads, receivers); the selector's clock, the
fleet's versions and the packets of `Wire` end at a bound, so those runs turn
it off.

Why the bounds are what they are:

- In `Decoder` all numbers lie within half the sequence space, so every gap is
  one the code can classify (a jump of 128 or more is taken for a late packet).
  `RecoverCap` exceeds `MAX_PIGGYBACK` as in the defaults (12 and 3): otherwise
  the first recovered frame of a long gap could follow a hole unfaded. Two
  sources are in `DecoderSources.cfg`, which passes too, with shorter streams.
- `HandoffsExact` needs a slot per source: with three sources in two slots an
  evicted slot refilled by another source is taken for a return. The comment at
  `HapbeatSourceSelector.cpp:164` calls the counter "diagnostics only".
- `CoolOffHonoured` holds where no RSSI is known (`RssiIgnoresCoolOff.cfg`
  below), no eviction forgets a cool-off, and the clock is young
  (`CoolOffReturns.cfg`).
- The clock of the selector runs starts a few milliseconds before `ClockMod`, so
  each has times on both sides of the wrap, a `now` of 0 among them.
- `RingFifo` goes between depths of which each has its maximum below the other's
  target, as most pairs of the shipped modes have: any trim may find its depth
  changed under it. `FifoUntilTorn` holds the ring to the queue up to the first
  that does, and `TornDepth` shows what that one does.
- `Threads` lets either thread call `idleTick`: the header asks for that of
  `onPacket`, and `HapbeatEspNowRx::tick` calls it on the loop. `h.overlap` says
  whether the two calls have ever been in progress at once. `StaleNow`, where
  callbacks take their time, and `LoopSplice.cfg` show what the properties
  except. That calls take no time in `Threads`, and that it goes on (`FirstOverlap`)
  until the first `idleTick` that meets an `onPacket` returns, are bounds for TLC
  only: the proofs of section 5 allow any time and go on for ever.
- In `Decoder` a concealed frame of the Opus mode lasts three, as in SOLID48
  (480 samples asked for, `HapbeatStreamModes.cpp:31`, for frames of 160). Places
  in `PlayedInOrder` are those of packets in the output, not instants: what
  concealment stretches is `ConcealLength.cfg`'s.
- `Lifecycle` ends only receivers that were started, and takes
  `esp_now_unregister_recv_cb` to wait for a running callback; `StrayEnd.cfg`
  and `EndInCallback.cfg` take the other case.

Runs that must end in a violation, each a sentence of the repository that the
code does not keep (quoted under `findings`):

| run | property | what happens |
|---|---|---|
| `TornDepth` | `IndexMovesForward` | a deeper depth stored between the test `fill > _prebuf` and `fill - _prebuf` moves the read index back |
| `StaleNow` | `LiveLockKept` | a packet that comes while `tick` is in a callback is newer than its `now`: the age wraps, and the lock on a source just heard is released |

More configurations reproduce other disagreements between the code and its
comments, kept beside the runs and not in `PROJECT.json`. TLC finds each
property violated in seconds (`CoolOffReturns`: within a minute):

| configuration (module) | property | comment or doc | what happens |
|---|---|---|---|
| `OneSlotSplice` (`MCSourceSelector`) | `NoSplice` | `HapbeatSourceSelector.cpp:125` "evicts the stalest non-locked entry" | with `maxSources = 1` a second transmitter overwrites the locked slot |
| `RelayTestOrigin` (`MCSourceSelector`) | `RelayTestLocksRelayed` | `HapbeatStreamDecoder.cpp:558` "so the filter re-selects a relayed source" | an origin still in the table can be locked again |
| `RateBlame` (`MCSourceSelector`) | `RateSwitchBlamesLock` | `HapbeatSourceSelector.cpp:194` "a lock that is actually dropping packets" | a fresh lock is blamed for the loss of the one before |
| `RateToSilent` (`MCSourceSelector`) | `RateSwitchToLive` | `HapbeatSourceSelector.cpp:195` "a clearly-better same-mode challenger" | a challenger that counted well early in the window and fell silent since takes the lock; the next call releases it |
| `CoolOffUnlocked` (`MCSourceSelector`) | `CoolOffUnlocked` | `README.md:150-153` and `Minimal_LevelMeter.ino:16-18`: packets heard and no lock because the source dropped by `forceRelock` is cooling off | the next packet locks the source again, cool-off or not (`PacketLeavesLock`; the host test `select_force_relock_with_one_source_does_not_deadlock` asserts it) |
| `RssiIgnoresCoolOff` (`MCSourceSelector`) | `CoolOffHonoured` | `docs/wire-format.md:163`, the cool-off of a source switched away from | the RSSI challenge returns to a source in its cool-off |
| `CoolOffReturns` (`MCSourceSelector`) | `CoolOffHonoured` | `docs/wire-format.md:163`, a cool-off of 10 s | `blacklist_until` is never cleared: half a turn of `millis()` (24.8 days) later it reads as in the future again, and a live source is passed over |
| `VolumeMailbox` (`MCFleetTune`) | `VolumeHandedOver` | `HapbeatStreamDecoder.cpp:616` "must be consumed exactly once" | a beacon between the mailbox's read and its clear is dropped until the next resend |
| `TornTrim` (`MCJitterRing`) | `HardTrimForward` | `HapbeatJitterRing.cpp:162-164`, plain flags gate "never the data safety" | the same as `TornDepth` in the hard trim: `_max` read at line 225, a deeper `_target` at line 226 |
| `LostReprime` (`MCJitterRing`) | `NewDepthAdopted` | `HapbeatJitterRing.cpp:152` "adopt the new depth now" | a reprime inside `read`'s gate is overwritten |
| `StaleFrames` (`MCStreamDecoder`) | `PlayedInOrder` | `HapbeatStreamDecoder.cpp:99`: late and repeated packets are "ignored outright" | a late packet is played |
| `OpusResetFails` (`MCStreamDecoder`) | `SilenceCounted` | `HapbeatOpusBackend.h:44` "treats Opus modes as unsupported" | a failed allocation leaves a silent mode, not counted |
| `ConcealLength` (`MCStreamDecoder`) | `ConcealsOneFrame` | `HapbeatStreamDecoder.cpp:310` "synthesize one frame of this mode's duration" | SOLID48 asks for 480 samples, three of its frames: what libopus conceals takes up that much, unless it refuses the length, as the comment expects |
| `SilencePerGap` (`MCStreamDecoder`) | `SilenceCapped` | `docs/wire-format.md:166` caps the silence of a gap | the cap is per lost packet (`HapbeatStreamDecoder.cpp:447`; `test_seq_piggyback.cpp:258` asserts it) |
| `LoopSplice` (`MCReceiverThreads`) | `NoSplice` | `HapbeatStreamDecoder.h`, THREADING | `idleTick` on the loop reads `_lockChanged` unset and clears it after `onPacket` has set it: the new source's packet is decoded with the old one's tracking |
| `TornLockEvent` (`MCReceiverThreads`) | `EventNamesSource` | `HapbeatSourceSelector.h:59` "valid when locked()" | `locked` reported with a zero MAC |
| `StrayEnd` (`Lifecycle`) | `OneActive` | `HapbeatEspNowRx.h:96` "exactly one instance can be active at a time" | `end` of a receiver that was not started clears the other's `s_instance`, and a second one starts |
| `EndInCallback` (`Lifecycle`) | `NoWriterAtFree` | `HapbeatEspNowRx.cpp:116`, on the order of `end` | were the unregistering not to wait, the ring is freed inside `onFrame` |
| `TwoConsumers` (`Lifecycle`) | `OneConsumer` | `HapbeatJitterRing.h:23`, one consumer | a task that `end` gave up on wakes beside that of the next `begin` |

## 4. Fairness

- `FleetTune`: the transmitter resends every parameter every 5 s (weak fairness
  of `Resend`); a beacon sent again and again while the receiver is locked on
  its sender is at last received (strong fairness of `OnBeacon`: the link loses
  beacons, not all of them); packets keep coming, so a lock is regained
  (`Relock`); the loop keeps calling `dispatchDeferred`. Modes may switch for
  ever, so `Converges` says that the value is in effect again and again: a
  mode switch drops the buffer override until the next resend.
- `JitterRing`: the stream keeps coming (`WriteBegin`, then `CopyFrame` and
  `WriteEnd`), `setJitterFrames` returns (`Store`), the audio task runs
  (`Consumer`). The number of depth changes is bounded, as otherwise a
  reprime could always come in time.
- `Lifecycle`: the application's thread and the audio task are scheduled (weak
  fairness of `AppStep` and `AudioTask`) and `onFrame` returns (`RecvEnd`). The
  driver serves the request to unregister between two frames, so a stream
  cannot hold it off for ever (strong fairness of `Unregister`); the wait of
  `end` is by the clock (strong fairness of `Wait`, which may give up). Nothing
  says that a wedged driver recovers.

The other runs check safety only.

## 5. Proofs

All are for every value of the constants that the named assumptions allow.

`SourceSelectorProofs`, under `MaxSources >= 2`: `TypeCorrect`, `TableSound`,
`SingleSource` (`NoSplice`) and `NeverStranded` (`PacketLeavesLock`). The
inductive invariant is the conjunction of the four: `NoSplice` needs the table
(two slots of one MAC would let the tracked source and the lock differ), and
`PacketLeavesLock` needs the types. `SelectorLemmas` states for each method
what it keeps: `Keeps(s, t)` when the table is sound and a lock that moves
raises `lockChanged`. `SlotForSafe` is where two slots are needed: a full table
with one lock still has another slot to evict. `NeverStranded` follows the
packet through `admit` (which locks something live, the packet's own source at
worst) and the closing `tick` (which finds that lock fresh).

The history needs two more invariants. `Tally` ties each slot to what its source
did: heard at `last_ms`, challenging since no earlier than the lock, and, with a
slot for every transmitter, the remembered slot is the MAC locked last and
`handoffs` the number of changes. `Cooling` says that `blacklist_until` in the
table is the end of the cool-off in the history. From `Tally`, `EveryLeaving`
names every reason to leave a source in any step; `LeftForCause`
(`LockLeftForCause`), `ChallengesSpaced` (`HysteresisSpacing`) and
`HandoffsCounted` (`HandoffsExact`) follow, and `CoolOffKept`
(`CoolOffHonoured`) from both. What each assumes:

- `Paced`, all of them: a rate switch is not followed by another, nor a challenge
  taken, within the same millisecond (10 s and 0.4 s in the code); `admit` and
  the closing `tick` would otherwise move the lock twice in one call.
- `Roomy`, the last two: a slot for every transmitter; an eviction miscounts a
  handoff and forgets a cool-off.
- `NoRssi`, `LeftForCause` and `CoolOffKept`: no packet carries a signal
  strength. The challenge is a cause of its own (`EveryLeaving` has it) and
  does not look at cool-offs (`RssiIgnoresCoolOff.cfg`).
- `Selections = {FALSE}`, `ChallengesSpaced`: no rate comparison, which is
  spaced by its own timer.
- `Brief`, `CoolOffKept`: the clock stays below half a turn, less a cool-off
  (`CoolOffReturns.cfg` goes further).

The others hold for any uptime, across every wrap of `millis()`. `AgeOfPast` is
what this rests on: the age that the code computes is never more than the time
that has passed. A source silent for a whole turn may read as just heard, but
none reads as silent, and no hold as over, before it is. `YoungClock` gives
`CoolOffKept`, under `Brief`, that the two are the same.

`FleetTuneProofs`: `TypeCorrect`, `GateSound` (`GateFollowsVersion`),
`DepthAsOverridden` (`DepthFollowsOverride`) and `ReceiverIsRegister`
(`ImplementsRegister`). The inductive invariant adds that
every beacon on the air and every version held is less than half the epochs
behind the one issued, and carries its version modulo `EpochMod`. `EpochOrder`,
from elementary lemmas on `%`, then turns the code's sign test on an 8-bit
difference into the order of versions, so an accepted beacon never goes back.
That distance is an assumption about the transmitter (`Tellable` in `Change`),
built into the model: an operator who changes a value 128 times while a
receiver hears nothing leaves it.

`ReceiverThreadsProofs`: every theorem but the last holds whoever calls
`idleTick` and however long a call takes. `TypeCorrect`, `RequestsKept`
(`RelayTestFollows`) and `RelockServed` (`RelockNotLost`) hold throughout;
`LockLeft` (`LockLeftForCause`), `SourcesNotMixed` (`SpliceNeedsOverlap`) and
`EventsNotLost` (`ViewFollows`) up to the first overlap of `onPacket` and
`idleTick`, which their properties name, as they name a source heard after the
`now` of the loop's `tick`. So these two are all that the loop's `idleTick` can
do wrong, and `StaleNow` and `LoopSplice.cfg` show that both happen.
`ApartOnWifi`: under `Idlers = {"wifi"}`, what the header asks for, the two
never overlap. `Following` is the inductive invariant, up to an overlap: a thread
in the selector's part of a call is alone in it; the lock about to be dropped is
the one found stale; `_lockChanged` is consumed in the call that sets it; what
`admit` took is still the locked source's; the tracking follows the lock or a
restart is pending; and the application has been told, or its event is raised or
being delivered.

`JitterRingProofs`: `TypeCorrect` (`TypeOK`) and `EveryFrameAccounted`
(`Accounted`) need no assumption: their invariant (`Words`) only says what holds
of indices modulo `WordMod`, and every step moves `owed` with them. The rest
needs the indices to mean what they say: `RingInv` has the reader's own index
between the stored one and the writer, the fill that a read goes by among frames
already written, the batch being copied behind the frames not yet given back,
and every frame from the reader to the last one copied in its slot.
`SetJitterFrames` stores its words one after the other, and each trim names a
depth twice: it can pass its test with the old depth and subtract the new one.
Where that lies above the fill, the index moves back over frames already played;
the history variable `torn` records it. `FifoTillTorn` (`FifoUntilTorn`) proves
the refinement of `LossyFifo` for every step up to the first such trim, whatever
depths are asked for: nothing else in a change of depth can break the queue.
`RingIsFifo` (all of `ImplementsFifo`) and `ReadsForward` (`IndexMovesForward`)
assume `[]StoresApart`, that no store of a depth falls between a trim's test and
its subtraction. The code does nothing to ensure that, and `TornDepth` violates
`IndexMovesForward` without it; with a depth changed rarely and the window a few
instructions wide, it is what the code relies on.

`LifecycleProofs`: `TypeCorrect` and `ChannelTrue` (`OnChannel`) hold whatever
the application does. Under `~Stray` (`end` only on a receiver that runs):
`OneAtATime` (`OneReceiver`), `NeverTwo` (`OneActive`, also in the middle of a
call), `CleanReturn` (`NothingLeftBehind`) and `SecondConsumer` (a second task on
a ring needs an `end` that gave up); with `Blocking` as well (unregistering waits
for the callback) `FreedUnused` (`TornDownUnused`); with `~MayWedge` as well
`ConsumerAlone` (`OneConsumer`). `StrayEnd`, `EndInCallback` and `TwoConsumers`
take the other case of each assumption. The invariant has four parts: `Known`
(types, and a channel that is the radio's unless excused), `Held` (for each step
of `begin` and `end`, what is up by then and that the holder of `s_instance` has
it), `TasksCounted` (at most one task that no `end` has given up on) and
`Receiving` (a callback in progress was handed the receiver that is
registered). Any number of receivers, of workers and of tries.

`StreamDecoderProofs`: `TypeCorrect` holds for packets in any order. The others
assume `InOrder` (`MaxLate = 0`; `StaleFrames.cfg` shows a late packet played).
`OrderKept` (`PlayedInOrder`) holds for outages of any length and whatever the
Opus backend refuses, since a refused frame keeps its place and lasts nothing.
`NoClick` (`SeamsFaded`) and `LossCounted` (`LossExact`) are proved of steps that are
`Near`, that is after an outage of less than half a turn of the sequence number
(128 packets): beyond it the difference is taken for a late packet's, whose
frame is played without a fade, and a whole turn is not seen at all. The runs
lose at most `MaxLoss` in a row, and in the code the lock timeout ends most
longer outages first. `NoClick` also assumes `CapsReach`: `RecoverCap` above
`MAX_PIGGYBACK` (12 and 3) and some silence; otherwise the first recovered frame
of a long gap could follow a hole unfaded. A refused concealment within a
stream is such a hole, which the code does not fade over and `SeamsFaded`
excepts; at a seam the fade waits for the first frame that is heard. The
invariant `Tracking` ties
`_expectedSeq` to the packet it follows, that packet to the last one played, and
that to what the output ends with unless a fade is armed; `Behind` keeps all of
them behind the transmitter; `Told` says what the last step did.

`StreamPacketProofs`, under `PacketAssumption` (counts and lengths fit the bytes
that announce them): `SampleInRange` and `OutsideNeverRead` are about one sample
from any announced state. `ReadWithin` is about the parser alone and any sequence
of bytes: every byte that decides something lies behind a length check that the
code has made by then, so neither what follows the packet in memory nor what
follows the step table matters; `ReadsWithinPacket` (`WithinPacket`) applies it
to the link. `TypeCorrect` (`TypeOK`), `PacketsExact` (`WireExact`) and
`WholePartsOnly` (`WholePartsUsed`) follow from `PacketInv`: besides the types,
the packet on the air is the front of one that was written (`OnAir`), of the
newest block and copies of those before it. `FrontMade` is the heart: what the
receiver makes of any such front is the body if it is all there, and the first
copies that are. Its parts are that what is written lies where the reader looks
(`WrittenLaid`, `EntriesLaid`, `Ends`; for Opus, whose entries have lengths of
their own, `OpusFound`), that bytes become states and nibbles again
(`StateWritten`, `NibblesWritten`, `ChannelsWritten`), and that entries are found
without a gap (`NoGaps`), so counting those that fit is taking the first.

The recursive functions in it (a coder's states along a block, the offsets of
Opus entries, the entries written one after the other) are unfolded for every
length by `UpTo`: induction up to a bound, with the set of numbers for which the
claim holds in the place of a predicate.

## 6. Only model-checked

`Converges`, `PlaysAgain` and `CallsReturn`: liveness under fairness is out of
the prover's reach. Every other property of a passing run is stated by a theorem
of section 5, where that names its assumptions; no module uses a recursive
operator. The properties of the last table of section 3, which the code does not
keep, are TLC's alone (`OneActive` and `OneConsumer` are also proved, under
the assumption that those runs drop).
Two joins of section 2 rest on reading the models side by side and are
neither proved nor run: that `LockStep` allows what `SourceSelector` does, and
that `StreamDecoder` takes packets as `StreamPacket` parses them.

## 7. Not modelled

- Gain and volume curves, the decay of held samples, slot packing of the I2S
  frames, the statistics line, `readFrames` (pull output): arithmetic on samples
  or plain reads. `OpusBackend`'s registration: one pointer set at start-up.
- Boards, examples and host tests: no state of the receiver. The radio, libopus,
  I2S DMA and `millis()` are external and modelled by how the code uses them.
- The pace of both clocks at the real sizes: TURBO keeps 64 frames (96 at most)
  against reads of 128, so a healthy fill is trimmed below what a read needs;
  `README.md:79` calls the mode prone to dropouts.
- `setLockTimeoutMs` racing a beacon: it copies the options from the caller's
  thread, although the header says that the controls only set flags.
  `HapbeatEspNowRx` does not offer the call.
- `setChannel` before `begin`, whose channel is overwritten by that of the
  configuration; a receiver destroyed without `end` (there is no destructor).
- A silent lock released by its timeout raises no event: `ViewFollows` speaks
  of locks in force only, as the code does.

## 8. Plan

Done: every part listed in section 2, with proofs about the selector, the fleet
tuning, the threads, the ring, the life cycle, the decoder and the packets.

Next:

1. To prove: that the calls `SourceSelector` makes of the selector are those
   `LockStep` allows in `StreamDecoder`.
2. To model: options changed while streaming, backward splices, a source silent
   for a whole turn of the sequence.
