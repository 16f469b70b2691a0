---------------------------- MODULE StreamPacket ----------------------------
(***************************************************************************)
(* The 0xAA packet: how onPacket() and the two decode functions find the   *)
(* header, the body and the piggyback copies among the bytes of a packet,  *)
(* and what they play of them.  The transmitter is not part of the         *)
(* repository: it is modelled from docs/wire-format.md and the packets the *)
(* host tests build.  It keeps one coder state running through the stream  *)
(* and writes it into every packet; the receiver has none of its own.      *)
(*                                                                         *)
(* Parse is what StreamDecoder.tla calls a packet's body and its entries:  *)
(* which of them is played is decided there.                               *)
(***************************************************************************)
EXTENDS ImaAdpcm, StreamModes, FiniteSets

CONSTANTS
  MAX_FRAMES, MAX_PIGGYBACK,
  StreamsSent,     \* streams a transmitter may send: [mode, frames]
  Payloads,        \* what it may send in a packet of a stream, a set per stream
  FirstStates,     \* coder states, left and right, it may start from
  MaxCopies,       \* bound: copies a packet carries
  MaxPackets,      \* bound: packets of a stream
  Foreign          \* packets of nobody's: sequences of bytes

Byte == 0 .. 255
CoderState == [predictor : Int16, step_index : 0 .. STEP_INDEX_MAX]

Info(s) == modeInfo(s.mode)
IsOpus(s) == Info(s).codec = "opus"
IsMono(s) == Info(s).channels = 1
Channels(s) == 1 .. IF IsMono(s) THEN 1 ELSE 2

(* Counts and lengths fit the bytes that announce them; a payload is an    *)
(* Opus frame, or the nibbles of each channel.                             *)
ASSUME PacketAssumption ==
  /\ MAX_FRAMES \in Byte /\ MaxCopies \in Byte /\ MAX_PIGGYBACK \in Nat /\ MaxPackets \in Nat
  /\ \A s \in StreamsSent :
       /\ s.mode \in 0 .. MODE_COUNT - 1 /\ s.frames \in 1 .. MAX_FRAMES
       /\ \A payload \in Payloads[s] :
            IF IsOpus(s) THEN payload \in Seq(Byte) /\ Len(payload) \in Byte \ {0}
            ELSE payload \in [Channels(s) -> [1 .. s.frames -> Nibble]]
  /\ FirstStates \subseteq [1 .. 2 -> CoderState]
  /\ Foreign \subseteq Seq(Byte)

VARIABLES
  stream,    \* the stream being sent
  coder,     \* the transmitter's coder states, left and right
  blocks,    \* history: what it has sent, the newest first
  seq,       \* the number of the next packet
  air        \* the packet that arrives, and how many copies it was sent with

vars == <<stream, coder, blocks, seq, air>>

PKT_STREAM == 170
RELAYED == 128

(***************************************************************************)
(* The receiver.  Offsets count from 0, as in the code; beyond the end of  *)
(* a packet lies whatever memory holds.                                    *)
(***************************************************************************)
At(p, k, outside) == IF k < Len(p) THEN p[k + 1] ELSE outside

Bytes(p, from, n, outside) == [k \in 1 .. n |-> At(p, from + k - 1, outside)]

(* rd16 and the cast to int16_t.                                           *)
Signed16(lo, hi) == LET u == lo + 256 * hi IN IF u > 32767 THEN u - 65536 ELSE u

StateAt(p, k, outside) ==
  [predictor |-> Signed16(At(p, k, outside), At(p, k + 1, outside)),
   step_index |-> At(p, k + 2, outside)]

(* Mutant: the sample between two is the later one.                        *)
UpsampledLate(m) ==
  [k \in 1 .. 2 * Len(m) |->
     LET i == (k + 1) \div 2
         mid == IF i < Len(m) THEN m[i + 1] ELSE m[i]
     IN  IF k % 2 = 1 THEN <<m[i], m[i]>> ELSE <<mid, mid>>]

(* 8 kHz to 16 kHz: between two samples their mean, and at the end of the  *)
(* block its last sample again.                                            *)
Upsampled(m) ==
  [k \in 1 .. 2 * Len(m) |->
     LET i == (k + 1) \div 2
         mid == IF i < Len(m) THEN (m[i] + m[i + 1]) \div 2 ELSE m[i]
     IN  IF k % 2 = 1 THEN <<m[i], m[i]>> ELSE <<mid, mid>>]

MonoFrames(p, state, data, n, outside) ==
  Upsampled(Block(MonoNibbles(Bytes(p, data, (n + 1) \div 2, outside), n),
                  StateAt(p, state, outside), outside))

StereoFrames(p, state, data, n, outside) ==
  LET bytes == Bytes(p, data, n, outside)
      left  == Block(LeftNibbles(bytes), StateAt(p, state, outside), outside)
      right == Block(RightNibbles(bytes), StateAt(p, state + 3, outside), outside)
  IN  [k \in 1 .. n |-> <<left[k], right[k]>>]

(* Mutants: the last byte of a packet is not counted; none is.             *)
FitsShort(p, end) == end < Len(p)
FitsAlways(p, end) == TRUE

(* What ends there lies within the packet.                                 *)
Fits(p, end) == end <= Len(p)

Nothing == [own |-> <<>>, copies |-> <<>>]
Claimed(p, outside) ==
  IF At(p, 3, outside) < MAX_PIGGYBACK THEN At(p, 3, outside) ELSE MAX_PIGGYBACK

(* Where the entries of an Opus packet start, going by the lengths read.   *)
OpusEntriesAt(p, outside) ==
  LET pos[k \in 1 .. MAX_PIGGYBACK + 1] ==
        IF k = 1 THEN 5 + At(p, 4, outside)
        ELSE pos[k - 1] + 2 + At(p, pos[k - 1] + 1, outside)
  IN  pos

(* decodeOpusPacket: a length of one byte, then entries of their own       *)
(* lengths, up to the first that does not fit.  A frame is what the Opus   *)
(* backend is handed.                                                      *)
ParseOpus(p, outside) ==
  LET own == At(p, 4, outside)
      pos == OpusEntriesAt(p, outside)
      whole == {k \in 1 .. Claimed(p, outside) :
                  \A j \in 1 .. k : Fits(p, pos[j] + 2) /\ Fits(p, pos[j + 1])}
  IN  IF Len(p) < 6 \/ ~Fits(p, 5 + own) THEN Nothing
      ELSE [own |-> <<Bytes(p, 5, own, outside)>>,
            copies |-> [k \in 1 .. Cardinality(whole) |->
                          [seq |-> At(p, pos[k], outside),
                           frame |-> Bytes(p, pos[k] + 2, pos[k + 1] - pos[k] - 2, outside)]]]

(* decodeAdpcmPacket, mono: entries of one size, [seq, state(3), data].    *)
ParseMono(p, outside) ==
  LET n == At(p, 4, outside)
      size == (n + 1) \div 2
      at(k) == 8 + size + (k - 1) * (4 + size)
      whole == {k \in 1 .. Claimed(p, outside) : Fits(p, at(k + 1))}
  IN  IF n \notin 1 .. MAX_FRAMES \/ ~Fits(p, 8 + size) THEN Nothing
      ELSE [own |-> <<MonoFrames(p, 5, 8, n, outside)>>,
            copies |-> [k \in 1 .. Cardinality(whole) |->
                          [seq |-> At(p, at(k), outside),
                           frame |-> MonoFrames(p, at(k) + 1, at(k) + 4, n, outside)]]]

(* decodeAdpcmPacket, stereo: one entry at most, [seq, state(6), data].    *)
ParseStereo(p, outside) ==
  LET n == At(p, 4, outside)
      at == 11 + n
  IN  IF n \notin 1 .. MAX_FRAMES \/ ~Fits(p, 11 + n) THEN Nothing
      ELSE [own |-> <<StereoFrames(p, 5, 11, n, outside)>>,
            copies |-> IF At(p, 3, outside) >= 1 /\ Fits(p, at + 7 + n)
                       THEN <<[seq |-> At(p, at, outside),
                               frame |-> StereoFrames(p, at + 1, at + 7, n, outside)]>>
                       ELSE <<>>]

(* onPacket: the RELAYED bit is masked off before the mode is looked at.   *)
Parse(p, outside) ==
  LET mode == At(p, 1, outside) % RELAYED
  IN  IF Len(p) < 5 \/ At(p, 0, outside) # PKT_STREAM \/ mode >= MODE_COUNT THEN Nothing
      ELSE IF modeInfo(mode).codec = "opus" THEN ParseOpus(p, outside)
      ELSE IF modeInfo(mode).channels = 1 THEN ParseMono(p, outside)
      ELSE ParseStereo(p, outside)

(***************************************************************************)
(* The transmitter.                                                        *)
(***************************************************************************)
Unsigned(x) == IF x < 0 THEN x + 65536 ELSE x
StateBytes(st) ==
  <<Unsigned(st.predictor) % 256, Unsigned(st.predictor) \div 256, st.step_index>>

(* Nibbles, two to a byte; what is left over is padded.                    *)
Packed(nibbles) ==
  [k \in 1 .. (Len(nibbles) + 1) \div 2 |->
     nibbles[2 * k - 1] + 16 * IF 2 * k <= Len(nibbles) THEN nibbles[2 * k] ELSE 15]

(* A block b of stream s: its payload and the coder states before it.      *)
State(s, b) == IF IsMono(s) THEN StateBytes(b.coder[1])
               ELSE StateBytes(b.coder[1]) \o StateBytes(b.coder[2])
Data(s, b) == IF IsOpus(s) THEN b.payload
              ELSE IF IsMono(s) THEN Packed(b.payload[1])
              ELSE [k \in 1 .. s.frames |-> b.payload[1][k] + 16 * b.payload[2][k]]

Body(s, b) == IF IsOpus(s) THEN <<Len(b.payload)>> \o Data(s, b)
              ELSE <<s.frames>> \o State(s, b) \o Data(s, b)
Entry(s, b) == IF IsOpus(s) THEN <<b.seq, Len(b.payload)>> \o Data(s, b)
               ELSE <<b.seq>> \o State(s, b) \o Data(s, b)

(* The first n of a sequence of blocks, as entries one after the other.    *)
Entries(s, bs, n) ==
  LET tail[k \in 0 .. n] == IF k = 0 THEN <<>> ELSE tail[k - 1] \o Entry(s, bs[k])
  IN  tail[n]

Written(s, b, bs, copies, relayed) ==
  <<PKT_STREAM, s.mode + IF relayed THEN RELAYED ELSE 0, b.seq, copies>>
    \o Body(s, b) \o Entries(s, bs, copies)

(* The coder states through a block: what the receiver has to reproduce.   *)
Trace(b, c) == States(b.payload[c], b.coder[c], 0)

Silence == [bytes |-> <<>>, copies |-> 0]

Init ==
  /\ stream \in StreamsSent
  /\ coder \in FirstStates
  /\ blocks = <<>>
  /\ seq = 255
  /\ air = Silence

Send(payload, copies, relayed) ==
  LET b == [seq |-> seq, payload |-> payload, coder |-> coder]
  IN  /\ air = Silence /\ Len(blocks) < MaxPackets /\ copies <= Len(blocks)
      /\ blocks' = <<b>> \o blocks
      /\ coder' = IF IsOpus(stream) THEN coder
                  ELSE [c \in 1 .. 2 |-> IF c \in Channels(stream) THEN Trace(b, c)[stream.frames]
                                         ELSE coder[c]]
      /\ seq' = (seq + 1) % 256
      /\ air' = [bytes |-> Written(stream, b, blocks, copies, relayed), copies |-> copies]
      /\ UNCHANGED stream

(* A packet loses its last byte, or is gone.                               *)
Shorten ==
  /\ blocks # <<>> /\ Len(air.bytes) > 1
  /\ air' = [air EXCEPT !.bytes = SubSeq(air.bytes, 1, Len(air.bytes) - 1)]
  /\ UNCHANGED <<stream, coder, blocks, seq>>

Pass ==
  /\ air # Silence /\ air' = Silence
  /\ UNCHANGED <<stream, coder, blocks, seq>>

(* A packet no transmitter of the fleet has written.                       *)
Stray(bytes) ==
  /\ blocks = <<>> /\ air = Silence
  /\ air' = [bytes |-> bytes, copies |-> 0]
  /\ UNCHANGED <<stream, coder, blocks, seq>>

Next ==
  \/ \E payload \in Payloads[stream], copies \in 0 .. MaxCopies, relayed \in BOOLEAN :
       Send(payload, copies, relayed)
  \/ Shorten \/ Pass
  \/ \E bytes \in Foreign : Stray(bytes)

Spec == Init /\ [][Next]_vars

(***************************************************************************)
(* Properties.                                                             *)
(***************************************************************************)
TypeOK ==
  /\ stream \in StreamsSent
  /\ coder \in [1 .. 2 -> CoderState]
  /\ Len(blocks) <= MaxPackets /\ \A i \in 1 .. Len(blocks) : blocks[i].seq \in Byte
  /\ seq \in Byte
  /\ air.bytes \in Seq(Byte) /\ air.copies \in 0 .. MaxCopies

Fed == Parse(air.bytes, 0)
Samples(b, c) == [k \in 1 .. stream.frames |-> Trace(b, c)[k].predictor]

(* An Opus frame is the transmitter's; ADPCM ones are the samples its      *)
(* coder went through, at 8 kHz with one between each two.                 *)
Reproduces(frame, b) ==
  IF IsOpus(stream) THEN frame = b.payload
  ELSE IF IsMono(stream)
  THEN LET m == Samples(b, 1)
           after(k) == m[IF k < Len(m) THEN k + 1 ELSE k]
       IN  /\ Len(frame) = 2 * Len(m)
           /\ \A k \in 1 .. Len(m) :
                /\ frame[2 * k - 1] = <<m[k], m[k]>>
                /\ m[k] + after(k) - 2 * frame[2 * k][1] \in {0, 1}
                /\ frame[2 * k][2] = frame[2 * k][1]
  ELSE frame = [k \in 1 .. stream.frames |-> <<Samples(b, 1)[k], Samples(b, 2)[k]>>]

(* Wherever a receiver joins and whatever it has missed, what it makes of  *)
(* a packet is what the transmitter's coder, which never stopped, made at  *)
(* that point; and a copy is that of the packet whose number it bears.     *)
WireExact ==
  blocks # <<>> /\ air # Silence =>
    /\ Fed.own # <<>> => Reproduces(Fed.own[1], blocks[1])
    /\ \A k \in 1 .. Len(Fed.copies) :
         /\ Fed.copies[k].seq = blocks[k + 1].seq
         /\ Reproduces(Fed.copies[k].frame, blocks[k + 1])

(* A packet cut short still gives all it holds in whole: its body, and the *)
(* copies up to the cut (one of a stereo ADPCM packet, as sent, at most    *)
(* MAX_PIGGYBACK of the others).                                           *)
WholePartsUsed ==
  blocks # <<>> /\ air # Silence =>
    LET b == blocks[1]
        end(k) == 4 + Len(Body(stream, b)) + Len(Entries(stream, Tail(blocks), k))
        depth == IF IsOpus(stream) \/ IsMono(stream) THEN MAX_PIGGYBACK ELSE 1
    IN  /\ Fed.own # <<>> <=> Len(air.bytes) >= end(0)
        /\ Len(Fed.copies) =
             Cardinality({k \in 1 .. air.copies : k <= depth /\ Len(air.bytes) >= end(k)})

(* Neither a packet's bytes nor the step table are read past their end,    *)
(* whatever the bytes of the packet say: the outcome does not depend on    *)
(* what lies there.                                                        *)
WithinPacket == Parse(air.bytes, 255) = Fed
=============================================================================
