--------------------------- MODULE StreamDecoder ---------------------------
(***************************************************************************)
(* protocol/HapbeatStreamDecoder on 0xAA packets: sequence tracking, loss  *)
(* recovery, splices, the fade at a seam and mode changes, with the Opus   *)
(* backend of codec/HapbeatOpusBackendImpl.h behind it.                    *)
(*                                                                         *)
(* The selector is reduced to the lock it leaves and whether it raised     *)
(* _lockChanged: LockStep is what SourceSelector.tla shows of it.  A       *)
(* transmitter numbers its packets n = 0, 1, ...; the byte on the wire is  *)
(* n % SeqMod, and a splice (a reboot, a repeater's new upstream) jumps n. *)
(***************************************************************************)
EXTENDS Integers, Sequences, FiniteSets

CONSTANTS
  Macs, NoMac,
  Modes,          \* mode ids, mode 0 among them
  Body, Channels, \* of each mode: "solid", "mono" or "opus"; its Opus channels
  ConcealLen,     \* frames a concealed one of the mode lasts: ModeInfo::outSamples in frames
  SeqMod,         \* 2^8: the width of a sequence number
  ResyncGap,      \* DecoderOptions::resyncGap
  RecoverCap,     \* DecoderOptions::recoverCap
  SilenceCap,     \* DecoderOptions::silenceCapFrames, in packets
  MAX_PIGGYBACK,
  Backends,       \* {TRUE}, {FALSE} or both: an Opus backend is installed
  MayFailReset,   \* OpusBackend::reset may fail to allocate
  MayRefuse,      \* OpusBackend::decode and conceal may return n <= 0
  Splices,        \* jumps a transmitter's numbers may make
  MaxLoss,        \* bound: packets of one source lost in a row
  MaxLate,        \* bound: how far behind a packet may arrive
  MaxSplices,     \* bound: splices
  FirstPacket,    \* the number a transmitter starts at
  LastPacket      \* bound: the last number of a transmitter

ASSUME DecoderAssumption ==
  /\ NoMac \notin Macs /\ 0 \in Modes
  /\ Body \in [Modes -> {"solid", "mono", "opus"}] /\ Body[0] # "opus"
  /\ Channels \in [Modes -> 1 .. 2] /\ ConcealLen \in [Modes -> Nat \ {0}]
  /\ SeqMod \in Nat /\ SeqMod > 1 /\ ResyncGap \in Nat \ {0}
  /\ {RecoverCap, SilenceCap, FirstPacket} \subseteq Nat
  /\ MAX_PIGGYBACK \in 0 .. SeqMod /\ Backends \subseteq BOOLEAN
  /\ MayFailReset \in BOOLEAN /\ MayRefuse \in BOOLEAN
  /\ Splices \subseteq Nat /\ {MaxLoss, MaxLate, MaxSplices, LastPacket} \subseteq Nat

VARIABLES
  tx,        \* per transmitter: the number sent next, the first since a splice
  lock,      \* the locked MAC, NoMac for none
  dec,       \* StreamDecoder's fields
  out,       \* what the last step did: output, counts
  played,    \* history: number of the last packet of each source played
  tail,      \* history: the place the output has reached
  follows,   \* history: the packet behind _expectedSeq
  splices

vars == <<tx, lock, dec, out, played, tail, follows, splices>>

None == -1
Numbers == FirstPacket .. LastPacket

(* One piece of output: packet n's frame or concealment in its place, the  *)
(* frames it lasts (none when the backend refuses it) and its fade.        *)
Item == [n : Int, real : BOOLEAN, len : Nat, faded : BOOLEAN]
Place == [mac : Macs \cup {NoMac}, n : Int]

Quiet == [mac |-> NoMac, fed |-> <<>>, lost |-> 0, recovered |-> 0, resync |-> FALSE,
          since |-> 0, before |-> [mac |-> NoMac, n |-> None], over |-> None, dropped |-> FALSE,
          unsupported |-> FALSE]
Nowhere == [mac |-> NoMac, n |-> None]

TypeOK ==
  /\ tx \in [Macs -> [next : Nat, first : Nat]]
  /\ lock \in Macs \cup {NoMac}
  /\ dec \in [mode : Modes, seqInit : BOOLEAN, expected : 0 .. SeqMod - 1, fade : BOOLEAN,
              opus : BOOLEAN, shape : 0 .. 2]
  /\ out.fed \in Seq(Item)
  /\ Len(out.fed) <= 1 + IF RecoverCap > SilenceCap THEN RecoverCap ELSE SilenceCap
  /\ out.recovered \in 0 .. RecoverCap /\ out.lost \in 0 .. SeqMod \div 2
  /\ played \in [Macs -> Numbers \cup {None}]
  /\ tail \in Place /\ follows \in Place
  /\ splices \in 0 .. MaxSplices

Init ==
  /\ tx = [m \in Macs |-> [next |-> FirstPacket, first |-> FirstPacket]]
  /\ lock = NoMac
  /\ \E o \in Backends :
       dec = [mode |-> 0, seqInit |-> FALSE, expected |-> 0, fade |-> FALSE,
              opus |-> o, shape |-> 0]
  /\ out = Quiet
  /\ played = [m \in Macs |-> None]
  /\ tail = Nowhere /\ follows = Nowhere /\ splices = 0

(***************************************************************************)
(* The decoder's helpers, on dec.                                          *)
(***************************************************************************)
Seq8(n) == n % SeqMod

(* Mutant: the new source does not start from silence.                     *)
RestartUnfaded(d) == [d EXCEPT !.seqInit = FALSE]

(* A lock change: new tracking, and the fade from silence.                 *)
Restart(d) == [d EXCEPT !.seqInit = FALSE, !.fade = TRUE]

(* OpusBackendImpl::reset(): a decoder of the same shape is kept and only  *)
(* loses its history; any other is released before the new one is          *)
(* allocated, and when that fails there is none.                           *)
Reset(shape, channels, allocates) ==
  IF shape = channels \/ allocates THEN channels ELSE 0

(* A new mode shapes the Opus decoder and restarts the tracking.  The      *)
(* result of reset() is not looked at.                                     *)
ApplyMode(d, mode, allocates) ==
  [d EXCEPT !.mode = mode, !.seqInit = FALSE,
            !.shape = IF Body[mode] = "opus" /\ d.opus
                        THEN Reset(d.shape, Channels[mode], allocates) ELSE d.shape]

(* Mutant: a gap of resyncGap is still loss.                               *)
ClassifyGapOffByOne(gap) ==
  IF gap = 0 THEN "in order"
  ELSE IF 2 * gap >= SeqMod THEN "stale"
  ELSE IF gap > ResyncGap THEN "resync" ELSE "loss"

ClassifyGap(gap) ==
  IF gap = 0 THEN "in order"
  ELSE IF 2 * gap >= SeqMod THEN "stale"
  ELSE IF gap >= ResyncGap THEN "resync" ELSE "loss"

Kind(d, n) == IF d.seqInit THEN ClassifyGap((n - d.expected) % SeqMod) ELSE "first"

(* Mutant: copies are taken without comparing their number.                *)
CopyUnmatched(entries, s) == IF entries = <<>> THEN None ELSE entries[1]

(* The copy of packet s among those a packet carries, in its order.        *)
Copy(entries, s) ==
  LET found == {k \in 1 .. Len(entries) : Seq8(entries[k]) = s}
  IN  IF found = {} THEN None ELSE entries[CHOOSE k \in found : \A j \in found : k <= j]

(* Mutant: an outage is concealed packet by packet, whatever its length.   *)
RecoverUncapped(d, n, entries) ==
  [i \in 1 .. (n - d.expected) % SeqMod |->
     [n |-> n - ((n - d.expected) % SeqMod) + i - 1, real |-> FALSE, len |-> 1,
      faded |-> FALSE]]

(* SOLID carries one copy, recovers a single loss with it and bridges any  *)
(* other with capped silence; the other bodies recover the newest          *)
(* RecoverCap packets of a gap, oldest first.                              *)
Recover(d, n, entries) ==
  LET gap   == (n - d.expected) % SeqMod
      cap   == IF Body[d.mode] = "solid" THEN SilenceCap ELSE RecoverCap
      count == IF gap > cap THEN cap ELSE gap
      solid == gap = 1 /\ entries # <<>> /\ Seq8(entries[1]) = d.expected
      place(i) == n - count + i - 1
      copy(i)  == IF Body[d.mode] # "solid" THEN Copy(entries, Seq8(place(i)))
                  ELSE IF solid THEN entries[1] ELSE None
  IN  [i \in 1 .. count |->
         [n |-> IF copy(i) # None THEN copy(i) ELSE place(i),
          real |-> copy(i) # None,
          len |-> IF copy(i) = None /\ Body[d.mode] = "opus" THEN ConcealLen[d.mode] ELSE 1,
          faded |-> FALSE]]

(* What a packet feeds: what is recovered before it, and its own frame.    *)
Pieces(d, n, entries) ==
  Append(IF Kind(d, n) = "loss" THEN Recover(d, n, entries) ELSE <<>>,
         [n |-> n, real |-> TRUE, len |-> 1, faded |-> FALSE])

(* The pieces of those the Opus backend refuses: all without a decoder of  *)
(* the mode's shape, else any it cannot decode or conceal.                 *)
Refusals(d, all) ==
  IF Body[d.mode] # "opus" THEN {{}}
  ELSE IF d.shape # Channels[d.mode] THEN {all}
  ELSE IF MayRefuse THEN SUBSET all ELSE {{}}

(* A refused piece feeds nothing; a refused copy is recovered all the same.*)
Without(items, refused) ==
  [k \in 1 .. Len(items) |-> [items[k] EXCEPT !.len = IF k \in refused THEN 0 ELSE items[k].len]]

(* The fade is spent on the first samples that go through feedWithFade():  *)
(* every real frame does, and Opus concealment; plain silence does not.    *)
Ramped(d, i) == i.len > 0 /\ (i.real \/ Body[d.mode] = "opus")
FadeIn(d, items) ==
  [k \in 1 .. Len(items) |->
     [items[k] EXCEPT !.faded = d.fade /\ Ramped(d, items[k])
                                  /\ \A j \in 1 .. k - 1 : ~Ramped(d, items[j])]]

(* decodeOpusPacket and decodeAdpcmPacket, past their length checks: the   *)
(* tracking moves on whatever the backend refused.                         *)
Decode(d, m, n, entries, refused) ==
  LET kind  == Kind(d, n)
      all   == Pieces(d, n, entries)
      faded == [d EXCEPT !.fade = d.fade \/ kind = "resync"]
      items == Without(all, refused)
  IN  [dec |-> [faded EXCEPT !.seqInit = TRUE, !.expected = Seq8(n + 1),
                             !.fade = /\ faded.fade
                                      /\ \A k \in 1 .. Len(items) : ~Ramped(d, items[k])],
       fed |-> FadeIn(faded, items),
       lost |-> IF kind = "loss" THEN (n - d.expected) % SeqMod ELSE 0,
       recovered |-> Cardinality({i \in 1 .. Len(all) - 1 : all[i].real}),
       resync |-> kind = "resync"]

(* The pieces that are heard.                                              *)
Heard(items) == {k \in 1 .. Len(items) : items[k].len > 0}

(***************************************************************************)
(* onPacket and idleTick.                                                  *)
(***************************************************************************)
(* What a call to the selector may do to the lock: nothing, drop it        *)
(* silently, or acquire one and raise _lockChanged.                        *)
LockStep(from, to, changed) ==
  \/ to = from /\ ~changed
  \/ to = NoMac /\ ~changed
  \/ to # NoMac /\ changed

(* The packets that may arrive next from m.                                *)
Arrivals(m) == {n \in Numbers : n >= tx[m].first /\ n >= tx[m].next - MaxLate
                                /\ n <= tx[m].next + MaxLoss}

(* The copies a packet may carry: so many of the packets before it.        *)
Entries(m, n) ==
  {[i \in 1 .. k |-> n - i] : k \in 0 .. IF n - tx[m].first < MAX_PIGGYBACK
                                          THEN n - tx[m].first ELSE MAX_PIGGYBACK}

Sent(m, n) ==
  tx' = [tx EXCEPT ![m].next = IF n >= tx[m].next THEN n + 1 ELSE tx[m].next]

(* The last call of onPacket and all of idleTick: tick().                  *)
Tick(d, from) ==
  \E to \in Macs \cup {NoMac}, changed \in BOOLEAN :
    /\ LockStep(from, to, changed)
    /\ lock' = to
    /\ dec' = IF changed THEN Restart(d) ELSE d

(* A packet the selector does not take (another source holds the lock, or  *)
(* relay test filters it), with or without a forced re-lock before it.     *)
Ignored(m, n) ==
  \E forced, changed \in BOOLEAN, to \in (Macs \cup {NoMac}) :
    /\ n \in Arrivals(m) /\ Sent(m, n)
    /\ LockStep(IF forced THEN NoMac ELSE lock, to, changed) /\ (changed => to # m)
    /\ out' = Quiet
    /\ UNCHANGED <<played, tail, follows, splices>>
    /\ LET d == IF forced THEN [dec EXCEPT !.seqInit = FALSE] ELSE dec
       IN  Tick(IF changed THEN Restart(d) ELSE d, to)

(* A packet taken: mode change, decoding (ok: its body is well formed) and *)
(* housekeeping.  After a forced re-lock it is only taken with a new lock. *)
(* The output reaches n when something of it is heard, or when the stream  *)
(* goes on from where the output was; a seam not yet heard is remembered.  *)
Taken(m, n, mode, entries, ok) ==
  \E changed \in BOOLEAN, allocates \in {TRUE, ~MayFailReset} :
    /\ LockStep(lock, m, changed)
    /\ Sent(m, n)
    /\ LET d1 == IF changed THEN Restart(dec) ELSE dec
           moded == mode # d1.mode
           d2 == IF moded THEN ApplyMode(d1, mode, allocates) ELSE d1
           unsupported == Body[mode] = "opus" /\ ~d2.opus
           good == ok /\ ~unsupported
           t    == IF moded THEN Nowhere ELSE tail
       IN  \E refused \in Refusals(d2, DOMAIN Pieces(d2, n, entries)) :
             LET res   == Decode(d2, m, n, entries, refused)
                 goes  == d2.seqInit /\ ~res.resync /\ t = follows
             IN  /\ out' = IF ~good
                           THEN [Quiet EXCEPT !.mac = m, !.unsupported = unsupported,
                                              !.dropped = ~ok]
                           ELSE [mac |-> m, fed |-> res.fed, lost |-> res.lost,
                                 recovered |-> res.recovered, resync |-> res.resync,
                                 since |-> IF d2.seqInit THEN n - follows.n ELSE 0,
                                 before |-> t, over |-> played[m],
                                 dropped |-> FALSE, unsupported |-> FALSE]
                 /\ follows' = IF good THEN [mac |-> m, n |-> n] ELSE follows
                 /\ tail' = IF good /\ (Heard(res.fed) # {} \/ goes)
                            THEN [mac |-> m, n |-> n] ELSE t
                 /\ played' = IF good /\ n > played[m] THEN [played EXCEPT ![m] = n] ELSE played
                 /\ UNCHANGED splices
                 /\ Tick(IF good THEN res.dec ELSE d2, m)

Packet(m) ==
  \E n \in Arrivals(m) :
    \/ Ignored(m, n)
    \/ \E mode \in Modes, entries \in Entries(m, n), ok \in BOOLEAN :
         Taken(m, n, mode, entries, ok)

Idle ==
  /\ Tick(dec, lock)
  /\ out' = Quiet
  /\ UNCHANGED <<tx, played, tail, follows, splices>>

Splice(m, jump) ==
  /\ splices < MaxSplices /\ splices' = splices + 1
  /\ tx' = [tx EXCEPT ![m] = [next |-> tx[m].next + jump, first |-> tx[m].next + jump]]
  /\ out' = Quiet
  /\ UNCHANGED <<lock, dec, played, tail, follows>>

Next ==
  \/ \E m \in Macs : Packet(m)
  \/ Idle
  \/ \E m \in Macs, jump \in Splices : Splice(m, jump)

Spec == Init /\ [][Next]_vars

(***************************************************************************)
(* Properties.                                                             *)
(***************************************************************************)
Fed == out.fed

(* Frames of a source are played in the order they were sent and never     *)
(* twice, whichever arrived, were recovered from copies or concealed.  Each*)
(* stands in its own place, also the one the backend refuses: that leaves a*)
(* hole there and moves no other.                                          *)
PlayedInOrder ==
  /\ \A i \in 1 .. Len(Fed) : Fed[i].real => Fed[i].n > out.over
  /\ \A i \in 1 .. Len(Fed) : Fed[i].n = Fed[Len(Fed)].n - Len(Fed) + i

(* No click: a frame that does not follow what was played last (another    *)
(* source, a splice) begins with the fade, unless the ring was reprimed,   *)
(* also when the backend refuses what comes before it.  Within a stream    *)
(* only a refused concealment leaves a hole that is not faded over: then   *)
(* the output stood at the packet before the gap.                          *)
SeamsFaded ==
  \A k \in Heard(Fed) :
    (\A j \in Heard(Fed) : k <= j) /\ Fed[k].real /\ out.before # Nowhere =>
      \/ Fed[k].faded
      \/ out.before = [mac |-> out.mac, n |-> Fed[1].n - 1]
      \/ k > 1 /\ out.since \in 1 .. ResyncGap
               /\ out.before = [mac |-> out.mac, n |-> Fed[Len(Fed)].n - out.since]

(* What the selector is told of the lock's health is exact: every packet   *)
(* missing between two of the source that were decoded is counted once, a  *)
(* splice is not counted, and recovered ones are among the lost.           *)
LossExact ==
  /\ out.recovered <= out.lost
  /\ out.since # 0 =>
       /\ out.since > 0
       /\ out.lost = IF out.since - 1 < ResyncGap THEN out.since - 1 ELSE 0
       /\ out.resync <=> out.since > ResyncGap

(* Silence is bounded for the whole of a gap.                              *)
SilenceCapped ==
  Body[dec.mode] # "opus" => Cardinality({i \in 1 .. Len(Fed) : ~Fed[i].real}) <= SilenceCap

(* A packet of an Opus mode that is not played is counted as unsupported.  *)
SilenceCounted ==
  out.mac # NoMac /\ ~out.dropped /\ Heard(Fed) = {} => out.unsupported

(* Concealment lasts one frame, as the comment on plcFrame says.           *)
ConcealsOneFrame == \A k \in Heard(Fed) : Fed[k].len = 1
=============================================================================
