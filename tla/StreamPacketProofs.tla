------------------------- MODULE StreamPacketProofs -------------------------

(***************************************************************************)
(* The ADPCM decoder and the 0xAA packet: no byte beyond the end of a      *)
(* packet and no entry beyond the step table decides what is read, for any *)
(* bytes at all; and what a transmitter has written is read back as it     *)
(* was, however much of its end a packet has lost.                         *)
(*                                                                         *)
(* The recursive functions of the model (a block's states, the offsets of  *)
(* Opus entries, the entries written one after the other) are unfolded by  *)
(* UpTo: induction up to a bound, with a set for the predicate.            *)
(***************************************************************************)
EXTENDS StreamPacket, SequenceTheorems, WellFoundedInduction, FiniteSetTheorems, TLAPS

(* A set of naturals that is not empty has a least element.                *)
LEMMA NatMin ==
  ASSUME NEW T \in SUBSET Nat, T # {}
  PROVE  \E x \in T : \A y \in T : x <= y
<1>1. PICK x \in T : \A y \in T : ~(<<y, x>> \in OpToRel(<, Nat))
  BY NatLessThanWellFounded, WFMin
<1>2. \A y \in T : ~(y < x)
  BY <1>1 DEF OpToRel
<1> QED
  BY <1>2

(* Induction up to a bound, with a set for the predicate.                  *)
LEMMA UpTo ==
  ASSUME NEW n \in Nat, NEW T, 0 \in T, \A k \in 0 .. n - 1 : k \in T => k + 1 \in T
  PROVE  0 .. n \subseteq T
<1> DEFINE U == {k \in 0 .. n : k \notin T}
<1> SUFFICES ASSUME U # {} PROVE FALSE
  OBVIOUS
<1>1. PICK k \in U : \A m \in U : k <= m
  <2>1. U \in SUBSET Nat
    OBVIOUS
  <2> HIDE DEF U
  <2> QED
    BY <2>1, NatMin
<1>2. k - 1 \in 0 .. n - 1 /\ k - 1 \notin U
  BY <1>1
<1>3. k - 1 \in T
  BY <1>2
<1> QED
  BY <1>1, <1>2, <1>3

(* Clipping clips.                                                         *)
LEMMA ClipRange ==
  ASSUME NEW x \in Int, NEW low \in Int, NEW high \in Int, low <= high
  PROVE  Clip(x, low, high) \in low .. high
  BY DEF Clip

(* The step table has 89 steps.                                            *)
LEMMA TableType ==
  /\ \A i \in 1 .. 89 : STEP_TABLE[i] \in Nat
  /\ \A i \in 1 .. 8 : INDEX_TABLE[i] \in Int
<1>1. \A i \in 1 .. 8 : INDEX_TABLE[i] \in Int
  BY DEF INDEX_TABLE
<1>2. \A i \in 1 .. 89 : STEP_TABLE[i] \in Nat
  BY DEF STEP_TABLE
<1> QED
  BY <1>1, <1>2

(* An index that came out of a packet is clamped before it is used.        *)
LEMMA StepInside ==
  ASSUME NEW st, st.step_index \in Int, NEW outside
  PROVE  /\ IndexOf(st) \in 0 .. STEP_INDEX_MAX
         /\ Step(IndexOf(st), outside) = STEP_TABLE[IndexOf(st) + 1]
<1>1. IndexOf(st) \in 0 .. STEP_INDEX_MAX
  <2> DEFINE i == st.step_index
  <2>1. i \in Int
    OBVIOUS
  <2> HIDE DEF i
  <2>2. Clip(i, 0, 88) \in 0 .. 88
    BY <2>1 DEF Clip
  <2> QED
    BY <2>2 DEF IndexOf, STEP_INDEX_MAX, i
<1> QED
  BY <1>1 DEF Step, STEP_INDEX_MAX

(* A sample and the index it leaves are in range.                          *)
THEOREM SampleInRange ==
  ASSUME NEW nibble \in Nibble, NEW st \in [predictor : Int, step_index : Int], NEW outside
  PROVE  DecodeSample(nibble, st, outside)
           \in [predictor : Int16, step_index : 0 .. STEP_INDEX_MAX]
<1>1. /\ IndexOf(st) \in 0 .. 88
      /\ Step(IndexOf(st), outside) = STEP_TABLE[IndexOf(st) + 1]
  BY StepInside DEF STEP_INDEX_MAX
<1>2. STEP_TABLE[IndexOf(st) + 1] \in Nat
  BY <1>1, TableType
<1>3. Difference(nibble, STEP_TABLE[IndexOf(st) + 1]) \in Int
  <2> DEFINE step == STEP_TABLE[IndexOf(st) + 1]
  <2>1. step \in Nat
    BY <1>2
  <2> HIDE DEF step
  <2>2. /\ Bit(nibble, 1) \in 0 .. 1 /\ Bit(nibble, 2) \in 0 .. 1
        /\ Bit(nibble, 4) \in 0 .. 1 /\ Bit(nibble, 8) \in 0 .. 1
    BY DEF Bit, Nibble
  <2>3. step \div 8 \in Int /\ step \div 4 \in Int /\ step \div 2 \in Int
    BY <2>1
  <2>4. /\ Bit(nibble, 1) * (step \div 4) \in Int /\ Bit(nibble, 2) * (step \div 2) \in Int
        /\ Bit(nibble, 4) * step \in Int
    BY <2>1, <2>2, <2>3
  <2>5. Difference(nibble, step) \in Int
    BY <2>3, <2>4 DEF Difference
  <2> QED
    BY <2>5 DEF step
<1>4. Adjustment(nibble) \in Int
  <2>1. (nibble % 8) + 1 \in 1 .. 8
    BY DEF Nibble
  <2> QED
    BY <2>1, TableType DEF Adjustment
<1>5. /\ st.predictor + Difference(nibble, Step(IndexOf(st), outside)) \in Int
      /\ IndexOf(st) + Adjustment(nibble) \in Int
  BY <1>1, <1>3, <1>4
<1> DEFINE sample == Clip(st.predictor + Difference(nibble, Step(IndexOf(st), outside)),
                          INT16_MIN, INT16_MAX)
           index  == Clip(IndexOf(st) + Adjustment(nibble), 0, 88)
<1>6. sample \in Int16
  <2> DEFINE x == st.predictor + Difference(nibble, Step(IndexOf(st), outside))
  <2>1. x \in Int
    BY <1>5
  <2>2. INT16_MIN \in Int /\ INT16_MAX \in Int /\ INT16_MIN <= INT16_MAX
    BY DEF INT16_MIN, INT16_MAX
  <2> HIDE DEF x
  <2>3. Clip(x, INT16_MIN, INT16_MAX) \in Int16
    BY <2>1, <2>2, ClipRange DEF Int16
  <2> QED
    BY <2>3 DEF x
<1>7. index \in 0 .. 88
  <2> DEFINE x == IndexOf(st) + Adjustment(nibble)
  <2>1. x \in Int
    BY <1>5
  <2> HIDE DEF x
  <2>2. Clip(x, 0, 88) \in 0 .. 88
    BY <2>1 DEF Clip
  <2> QED
    BY <2>2 DEF x
<1>8. DecodeSample(nibble, st, outside) = [predictor |-> sample, step_index |-> index]
  BY DEF DecodeSample, STEP_INDEX_MAX
<1> HIDE DEF sample, index
<1> QED
  BY <1>6, <1>7, <1>8 DEF STEP_INDEX_MAX

(* What lies next to the table does not matter, even for an announced      *)
(* index outside it.                                                       *)
THEOREM OutsideNeverRead ==
  ASSUME NEW nibble, NEW st \in [predictor : Int, step_index : Int], NEW x, NEW y
  PROVE  DecodeSample(nibble, st, x) = DecodeSample(nibble, st, y)
<1>1. Step(IndexOf(st), x) = Step(IndexOf(st), y)
  BY StepInside
<1> QED
  BY <1>1 DEF DecodeSample

(* The states of a block follow their recursion.                           *)
LEMMA StatesRecursion ==
  ASSUME NEW nibbles, Len(nibbles) \in Nat, NEW st, NEW outside
  PROVE  States(nibbles, st, outside) =
           [k \in 0 .. Len(nibbles) |->
              IF k = 0 THEN st
              ELSE DecodeSample(nibbles[k], States(nibbles, st, outside)[k - 1], outside)]
<1> DEFINE F(f, n) == [k \in 0 .. n |->
                        IF k = 0 THEN st ELSE DecodeSample(nibbles[k], f[k - 1], outside)]
           T == {n \in Nat : ~\E f : f = F(f, n)}
<1>1. T = {}
  <2> SUFFICES ASSUME T # {} PROVE FALSE
    OBVIOUS
  <2>1. PICK n \in T : \A m \in T : n <= m
    BY NatMin
  <2>2. CASE n = 0
    <3> DEFINE f == [k \in 0 .. 0 |-> st]
    <3>1. f = F(f, 0)
      OBVIOUS
    <3> QED
      BY <2>1, <2>2, <3>1
  <2>3. CASE n # 0
    <3>1. n - 1 \in Nat /\ n - 1 \notin T
      BY <2>1, <2>3
    <3>2. PICK f : f = F(f, n - 1)
      BY <3>1
    <3> DEFINE g == [k \in 0 .. n |->
                      IF k < n THEN f[k] ELSE DecodeSample(nibbles[n], f[n - 1], outside)]
    <3>3. \A k \in 0 .. n : g[k] = F(g, n)[k]
      BY <2>3, <3>1, <3>2
    <3>4. g = F(g, n)
      BY <3>3
    <3> QED
      BY <2>1, <3>4
  <2> QED
    BY <2>2, <2>3
<1>2. \E f : f = F(f, Len(nibbles))
  BY <1>1
<1> QED
  BY <1>2 DEF States

(* A state as a packet may announce it.                                    *)
Announced == [predictor : Int, step_index : Int]

(* From any announced state, every sample of a block is in range.          *)
LEMMA StatesType ==
  ASSUME NEW n \in Nat, NEW nibbles \in [1 .. n -> Nibble], NEW st \in Announced, NEW outside
  PROVE  /\ Len(nibbles) = n
         /\ \A k \in 0 .. n : States(nibbles, st, outside)[k] \in Announced
         /\ \A k \in 1 .. n : States(nibbles, st, outside)[k] \in CoderState
<1>1. Len(nibbles) = n
  OBVIOUS
<1> DEFINE s == States(nibbles, st, outside)
<1>2. s = [k \in 0 .. n |-> IF k = 0 THEN st ELSE DecodeSample(nibbles[k], s[k - 1], outside)]
  BY <1>1, StatesRecursion
<1> HIDE DEF s
<1>3. \A k \in 1 .. n : s[k - 1] \in Announced => s[k] \in CoderState
  <2> SUFFICES ASSUME NEW k \in 1 .. n, s[k - 1] \in Announced PROVE s[k] \in CoderState
    OBVIOUS
  <2>1. nibbles[k] \in Nibble /\ s[k] = DecodeSample(nibbles[k], s[k - 1], outside)
    BY <1>2
  <2> QED
    BY <2>1, SampleInRange DEF Announced, CoderState
<1>4. CoderState \subseteq Announced
  <2>1. Int16 \subseteq Int /\ 0 .. STEP_INDEX_MAX \subseteq Int
    BY DEF Int16, INT16_MIN, INT16_MAX, STEP_INDEX_MAX
  <2> QED
    BY <2>1 DEF CoderState, Announced
<1> DEFINE T == {k \in 0 .. n : s[k] \in Announced}
<1>5. 0 \in T
  BY <1>2
<1>6. \A k \in 0 .. n - 1 : k \in T => k + 1 \in T
  BY <1>3, <1>4
<1>7. 0 .. n \subseteq T
  <2> HIDE DEF T
  <2> QED
    BY <1>5, <1>6, UpTo
<1> QED
  BY <1>1, <1>3, <1>7 DEF s

(* Nothing outside the step table decides a block.                         *)
LEMMA StatesInside ==
  ASSUME NEW n \in Nat, NEW nibbles \in [1 .. n -> Nibble], NEW st \in Announced, NEW x, NEW y
  PROVE  States(nibbles, st, x) = States(nibbles, st, y)
<1> DEFINE s == States(nibbles, st, x)
           t == States(nibbles, st, y)
<1>1. /\ s = [k \in 0 .. n |-> IF k = 0 THEN st ELSE DecodeSample(nibbles[k], s[k - 1], x)]
      /\ t = [k \in 0 .. n |-> IF k = 0 THEN st ELSE DecodeSample(nibbles[k], t[k - 1], y)]
      /\ \A k \in 0 .. n : s[k] \in Announced
  BY StatesType, StatesRecursion
<1> HIDE DEF s, t
<1> DEFINE T == {k \in 0 .. n : s[k] = t[k]}
<1>2. 0 \in T
  BY <1>1
<1>3. ASSUME NEW k \in 0 .. n - 1, k \in T PROVE k + 1 \in T
  <2>1. s[k + 1] = DecodeSample(nibbles[k + 1], s[k], x)
    BY <1>1
  <2>2. t[k + 1] = DecodeSample(nibbles[k + 1], s[k], y)
    BY <1>1, <1>3
  <2>3. s[k] \in [predictor : Int, step_index : Int]
    BY <1>1 DEF Announced
  <2>4. s[k + 1] = t[k + 1]
    BY <2>1, <2>2, <2>3, OutsideNeverRead
  <2> QED
    BY <2>4
<1>4. 0 .. n \subseteq T
  <2> HIDE DEF T
  <2> QED
    BY <1>2, <1>3, UpTo
<1>5. \A k \in 0 .. n : s[k] = t[k]
  BY <1>4
<1>6. DOMAIN s = 0 .. n /\ DOMAIN t = 0 .. n /\ s = [k \in 0 .. n |-> s[k]]
      /\ t = [k \in 0 .. n |-> t[k]]
  BY <1>1
<1> QED
  BY <1>5, <1>6 DEF s, t

(***************************************************************************)
(* What a packet holds is read as it is, whatever lies beyond its end.     *)
(***************************************************************************)
(* A byte is a number.                                                     *)
LEMMA ByteNat == Byte \in SUBSET Nat
  BY DEF Byte

(* The limits are numbers.                                                 *)
LEMMA Limits == MAX_PIGGYBACK \in Nat /\ MAX_FRAMES \in Nat /\ MaxCopies \in Nat
  BY ByteNat, PacketAssumption

(* A byte of the packet.                                                   *)
LEMMA AtInside ==
  ASSUME NEW p \in Seq(Byte), NEW k \in Nat, k < Len(p), NEW x
  PROVE  At(p, k, x) = p[k + 1] /\ At(p, k, x) \in Byte
  BY DEF At

(* A byte, wherever it lies.                                               *)
LEMMA AtType ==
  ASSUME NEW p \in Seq(Byte), NEW k \in Nat, NEW x \in Byte
  PROVE  At(p, k, x) \in Byte
  BY DEF At

(* Bytes of the packet.                                                    *)
LEMMA BytesInside ==
  ASSUME NEW p \in Seq(Byte), NEW from \in Nat, NEW n \in Nat, from + n <= Len(p), NEW x
  PROVE  /\ Bytes(p, from, n, x) = [k \in 1 .. n |-> p[from + k]]
         /\ Bytes(p, from, n, x) \in [1 .. n -> Byte]
<1>1. ASSUME NEW k \in 1 .. n
      PROVE  At(p, from + k - 1, x) = p[from + k] /\ p[from + k] \in Byte
  <2>1. from + k - 1 \in Nat /\ from + k - 1 < Len(p) /\ (from + k - 1) + 1 = from + k
    OBVIOUS
  <2> QED
    BY <2>1, AtInside
<1> QED
  BY <1>1 DEF Bytes

(* A coder state in the packet.                                            *)
LEMMA StateAtInside ==
  ASSUME NEW p \in Seq(Byte), NEW k \in Nat, k + 3 <= Len(p), NEW x
  PROVE  /\ StateAt(p, k, x) = [predictor |-> Signed16(p[k + 1], p[k + 2]),
                                step_index |-> p[k + 3]]
         /\ StateAt(p, k, x) \in Announced
<1>1. /\ At(p, k, x) = p[k + 1] /\ p[k + 1] \in Byte
      /\ At(p, k + 1, x) = p[k + 2] /\ p[k + 2] \in Byte
      /\ At(p, k + 2, x) = p[k + 3] /\ p[k + 3] \in Byte
  <2>1. (k + 1) + 1 = k + 2 /\ (k + 2) + 1 = k + 3
    OBVIOUS
  <2> QED
    BY <2>1, AtInside
<1>2. \A lo, hi \in Byte : Signed16(lo, hi) \in Int
  BY DEF Signed16, Byte
<1>3. StateAt(p, k, x) = [predictor |-> Signed16(p[k + 1], p[k + 2]), step_index |-> p[k + 3]]
  BY <1>1 DEF StateAt
<1>4. Signed16(p[k + 1], p[k + 2]) \in Int /\ p[k + 3] \in Int
  <2>1. Byte \subseteq Int
    BY DEF Byte
  <2> QED
    BY <1>1, <1>2, <2>1
<1> QED
  BY <1>3, <1>4 DEF Announced

(* Bytes hold nibbles.                                                     *)
LEMMA NibblesType ==
  /\ \A n \in Nat : \A bytes \in [1 .. (n + 1) \div 2 -> Byte] :
       MonoNibbles(bytes, n) \in [1 .. n -> Nibble]
  /\ \A n \in Nat : \A bytes \in [1 .. n -> Byte] :
       /\ LeftNibbles(bytes) \in [1 .. n -> Nibble]
       /\ RightNibbles(bytes) \in [1 .. n -> Nibble]
<1>1. \A b \in Byte : b % 16 \in Nibble /\ b \div 16 \in Nibble
  BY DEF Byte, Nibble
<1>2. ASSUME NEW n \in Nat, NEW bytes \in [1 .. (n + 1) \div 2 -> Byte]
      PROVE  MonoNibbles(bytes, n) \in [1 .. n -> Nibble]
  <2>1. \A k \in 1 .. n : (k + 1) \div 2 \in 1 .. (n + 1) \div 2
    OBVIOUS
  <2> QED
    BY <1>1, <2>1 DEF MonoNibbles
<1>3. ASSUME NEW n \in Nat, NEW bytes \in [1 .. n -> Byte]
      PROVE  /\ LeftNibbles(bytes) \in [1 .. n -> Nibble]
             /\ RightNibbles(bytes) \in [1 .. n -> Nibble]
  <2>1. Len(bytes) = n
    OBVIOUS
  <2> QED
    BY <1>1, <2>1 DEF LeftNibbles, RightNibbles
<1> QED
  BY <1>2, <1>3

(* A mono block of the packet.                                             *)
LEMMA MonoInside ==
  ASSUME NEW p \in Seq(Byte), NEW state \in Nat, NEW data \in Nat, NEW n \in Nat,
         state + 3 <= Len(p), data + (n + 1) \div 2 <= Len(p), NEW x, NEW y
  PROVE  MonoFrames(p, state, data, n, x) = MonoFrames(p, state, data, n, y)
<1> DEFINE size == (n + 1) \div 2
           nibbles == MonoNibbles(Bytes(p, data, size, x), n)
<1>1. size \in Nat /\ data + size <= Len(p)
  OBVIOUS
<1>2. /\ Bytes(p, data, size, x) = Bytes(p, data, size, y)
      /\ Bytes(p, data, size, x) \in [1 .. size -> Byte]
  <2> HIDE DEF size
  <2>1. \A z : /\ Bytes(p, data, size, z) = [k \in 1 .. size |-> p[data + k]]
              /\ Bytes(p, data, size, z) \in [1 .. size -> Byte]
    BY <1>1, BytesInside
  <2> QED
    BY <2>1
<1>3. nibbles \in [1 .. n -> Nibble]
  BY <1>2, NibblesType
<1>4. StateAt(p, state, x) = StateAt(p, state, y) /\ StateAt(p, state, x) \in Announced
  BY StateAtInside
<1>5. Block(nibbles, StateAt(p, state, x), x) = Block(nibbles, StateAt(p, state, y), y)
  <2> HIDE DEF nibbles
  <2> QED
    BY <1>3, <1>4, StatesInside DEF Block
<1> QED
  BY <1>2, <1>5 DEF MonoFrames

(* A stereo block of the packet.                                           *)
LEMMA StereoInside ==
  ASSUME NEW p \in Seq(Byte), NEW state \in Nat, NEW data \in Nat, NEW n \in Nat,
         state + 6 <= Len(p), data + n <= Len(p), NEW x, NEW y
  PROVE  StereoFrames(p, state, data, n, x) = StereoFrames(p, state, data, n, y)
<1> DEFINE bytes == Bytes(p, data, n, x)
<1>1. bytes = Bytes(p, data, n, y) /\ bytes \in [1 .. n -> Byte]
  BY BytesInside
<1> HIDE DEF bytes
<1>2. LeftNibbles(bytes) \in [1 .. n -> Nibble] /\ RightNibbles(bytes) \in [1 .. n -> Nibble]
  BY <1>1, NibblesType
<1>3. /\ StateAt(p, state, x) = StateAt(p, state, y)
      /\ StateAt(p, state, x) \in Announced
      /\ StateAt(p, state + 3, x) = StateAt(p, state + 3, y)
      /\ StateAt(p, state + 3, x) \in Announced
  <2>1. state + 3 \in Nat /\ (state + 3) + 3 <= Len(p) /\ state + 3 <= Len(p)
    OBVIOUS
  <2> QED
    BY <2>1, StateAtInside
<1>4. /\ Block(LeftNibbles(bytes), StateAt(p, state, x), x)
           = Block(LeftNibbles(bytes), StateAt(p, state, y), y)
      /\ Block(RightNibbles(bytes), StateAt(p, state + 3, x), x)
           = Block(RightNibbles(bytes), StateAt(p, state + 3, y), y)
  BY <1>2, <1>3, StatesInside DEF Block
<1> QED
  BY <1>1, <1>4 DEF StereoFrames, bytes

(* A set of places without gaps, from the first on, is known by its size.  *)
LEMMA NoGaps ==
  ASSUME NEW n \in Nat, NEW S \in SUBSET (1 .. n), \A k \in S : \A j \in 1 .. k : j \in S
  PROVE  Cardinality(S) \in 0 .. n /\ S = 1 .. Cardinality(S)
<1>1. CASE S = {}
  BY <1>1, FS_EmptySet
<1>2. CASE S # {}
  <2> DEFINE T == {t \in 0 .. n : n - t \in S}
  <2>1. T \in SUBSET Nat /\ T # {}
    <3>1. PICK k \in S : TRUE
      BY <1>2
    <3>2. k \in 1 .. n /\ n - (n - k) = k
      OBVIOUS
    <3>3. n - k \in T
      BY <3>2
    <3>4. T \in SUBSET Nat
      OBVIOUS
    <3> QED
      BY <3>3, <3>4
  <2>2. PICK t \in T : \A u \in T : t <= u
    <3> HIDE DEF T
    <3> QED
      BY <2>1, NatMin
  <2> DEFINE m == n - t
  <2>3. m \in S /\ m \in 1 .. n
    BY <2>2
  <2>4. \A k \in S : k \in 1 .. m
    <3> SUFFICES ASSUME NEW k \in S PROVE k \in 1 .. m
      OBVIOUS
    <3>1. k \in 1 .. n /\ n - (n - k) = k /\ n - k \in 0 .. n
      OBVIOUS
    <3>2. n - k \in T
      BY <3>1
    <3>3. t <= n - k /\ t \in 0 .. n
      BY <2>2, <3>2
    <3> QED
      BY <3>1, <3>3
  <2> HIDE DEF m
  <2>5. S = 1 .. m
    BY <2>3, <2>4
  <2>6. Cardinality(1 .. m) = m
    BY <2>3, FS_Interval
  <2> QED
    BY <2>3, <2>5, <2>6
<1> QED
  BY <1>1, <1>2

(* Products grow with a factor.                                            *)
LEMMA TimesGrow ==
  ASSUME NEW a \in Nat, NEW b \in Nat, a <= b, NEW c \in Nat
  PROVE  a * c \in Nat /\ b * c \in Nat /\ a * c <= b * c
<1> DEFINE d == b - a
<1>1. d \in Nat /\ b = a + d
  OBVIOUS
<1> HIDE DEF d
<1>2. (a + d) * c = a * c + d * c /\ a * c \in Nat /\ d * c \in Nat
  BY <1>1
<1> QED
  BY <1>1, <1>2

(* The lengths a packet announces in its fixed part.                       *)
LEMMA HeaderInside ==
  ASSUME NEW p \in Seq(Byte), Len(p) >= 5, NEW x, NEW y
  PROVE  /\ At(p, 0, x) = p[1] /\ At(p, 0, x) = At(p, 0, y) /\ At(p, 0, x) \in Nat
         /\ At(p, 1, x) = p[2] /\ At(p, 1, x) = At(p, 1, y) /\ At(p, 1, x) \in Nat
         /\ At(p, 3, x) = p[4] /\ At(p, 3, x) = At(p, 3, y) /\ At(p, 3, x) \in Nat
         /\ At(p, 4, x) = p[5] /\ At(p, 4, x) = At(p, 4, y) /\ At(p, 4, x) \in Nat
         /\ Claimed(p, x) = Claimed(p, y) /\ Claimed(p, x) \in 0 .. MAX_PIGGYBACK
         /\ Claimed(p, x) \in Nat
<1>1. /\ At(p, 0, x) = p[1] /\ At(p, 0, y) = p[1] /\ At(p, 0, x) \in Byte
      /\ At(p, 1, x) = p[2] /\ At(p, 1, y) = p[2] /\ At(p, 1, x) \in Byte
      /\ At(p, 3, x) = p[4] /\ At(p, 3, y) = p[4] /\ At(p, 3, x) \in Byte
      /\ At(p, 4, x) = p[5] /\ At(p, 4, y) = p[5] /\ At(p, 4, x) \in Byte
  BY AtInside
<1>2. Claimed(p, x) = Claimed(p, y)
  BY <1>1 DEF Claimed
<1>3. Claimed(p, x) \in 0 .. MAX_PIGGYBACK
  <2>1. At(p, 3, x) \in Nat
    BY <1>1, ByteNat
  <2> QED
    BY <2>1, Limits DEF Claimed
<1>4. Claimed(p, x) \in Nat
  BY <1>3, Limits
<1> QED
  BY <1>1, <1>2, <1>3, <1>4, ByteNat

(* A mono packet.                                                          *)
LEMMA ParseMonoInside ==
  ASSUME NEW p \in Seq(Byte), Len(p) >= 5, NEW x, NEW y
  PROVE  ParseMono(p, x) = ParseMono(p, y)
<1> DEFINE n == At(p, 4, x)
           size == (n + 1) \div 2
           at(k) == 8 + size + (k - 1) * (4 + size)
           whole == {k \in 1 .. Claimed(p, x) : Fits(p, at(k + 1))}
<1>1. n = At(p, 4, y) /\ n \in Nat /\ Claimed(p, x) = Claimed(p, y) /\ Claimed(p, x) \in Nat
  BY HeaderInside
<1>2. size \in Nat /\ Len(p) \in Nat
  BY <1>1
<1>3. CASE n \notin 1 .. MAX_FRAMES \/ ~Fits(p, 8 + size)
  BY <1>1, <1>3 DEF ParseMono
<1>4. CASE n \in 1 .. MAX_FRAMES /\ 8 + size <= Len(p)
  <2>1. MonoFrames(p, 5, 8, n, x) = MonoFrames(p, 5, 8, n, y)
    <3>1. 5 + 3 <= Len(p) /\ 8 + (n + 1) \div 2 <= Len(p)
      BY <1>2, <1>4
    <3> HIDE DEF n, size
    <3> QED
      BY <1>1, <3>1, MonoInside
  <2>2. \A k \in 1 .. Cardinality(whole) :
          /\ At(p, at(k), x) = At(p, at(k), y)
          /\ MonoFrames(p, at(k) + 1, at(k) + 4, n, x) = MonoFrames(p, at(k) + 1, at(k) + 4, n, y)
    <3>1. \A k \in 1 .. Cardinality(whole) : k \in whole
      <4>1. \A k \in whole : \A j \in 1 .. k : j \in whole
        <5> SUFFICES ASSUME NEW k \in whole, NEW j \in 1 .. k
                     PROVE  j \in whole
          OBVIOUS
        <5>1. k \in 1 .. Claimed(p, x) /\ at(k + 1) <= Len(p)
          BY DEF Fits
        <5>2. j \in 1 .. Claimed(p, x) /\ j \in Nat /\ k \in Nat /\ j <= k
          BY <1>1, <5>1
        <5>3. /\ j * (4 + size) \in Nat /\ k * (4 + size) \in Nat
              /\ j * (4 + size) <= k * (4 + size)
          <6> HIDE DEF size
          <6> QED
            BY <1>2, <5>2, TimesGrow
        <5>4. at(j + 1) = 8 + size + j * (4 + size) /\ at(k + 1) = 8 + size + k * (4 + size)
          BY <1>2, <5>2
        <5> HIDE DEF size
        <5>5. at(j + 1) <= Len(p)
          BY <1>2, <5>1, <5>3, <5>4
        <5> QED
          BY <5>2, <5>5 DEF Fits
      <4>2. whole \in SUBSET (1 .. Claimed(p, x))
        OBVIOUS
      <4> HIDE DEF whole
      <4> QED
        BY <1>1, <4>1, <4>2, NoGaps
    <3> SUFFICES ASSUME NEW k \in 1 .. Cardinality(whole)
                 PROVE  /\ At(p, at(k), x) = At(p, at(k), y)
                        /\ MonoFrames(p, at(k) + 1, at(k) + 4, n, x)
                             = MonoFrames(p, at(k) + 1, at(k) + 4, n, y)
      OBVIOUS
    <3>2. k \in 1 .. Claimed(p, x) /\ at(k + 1) <= Len(p)
      BY <3>1 DEF Fits
    <3>3. at(k) \in Nat /\ at(k) + 4 + size = at(k + 1)
      <4> DEFINE c == 4 + size
      <4>1. c \in Nat /\ k - 1 \in Nat
        BY <1>1, <1>2, <3>2
      <4> HIDE DEF c
      <4>2. (k - 1) * c \in Nat /\ ((k + 1) - 1) * c = (k - 1) * c + c
        BY <4>1
      <4>3. at(k) = 8 + size + (k - 1) * c /\ at(k + 1) = 8 + size + ((k + 1) - 1) * c
        BY DEF c
      <4>4. c = 4 + size
        BY DEF c
      <4> HIDE DEF size, at
      <4> QED
        BY <1>2, <4>1, <4>2, <4>3, <4>4
    <3> DEFINE a == at(k)
    <3>4. /\ a \in Nat /\ a + 1 \in Nat /\ a + 4 \in Nat /\ a < Len(p)
          /\ (a + 1) + 3 <= Len(p) /\ (a + 4) + (n + 1) \div 2 <= Len(p)
      <4>1. a \in Nat /\ a + 4 + size <= Len(p)
        BY <3>2, <3>3
      <4> HIDE DEF a
      <4> QED
        BY <1>2, <4>1
    <3> HIDE DEF a, n
    <3>5. At(p, a, x) = At(p, a, y)
      BY <3>4, AtInside
    <3>6. MonoFrames(p, a + 1, a + 4, n, x) = MonoFrames(p, a + 1, a + 4, n, y)
      BY <1>1, <3>4, MonoInside
    <3> QED
      BY <3>5, <3>6 DEF a
  <2>3. whole = {k \in 1 .. Claimed(p, y) : Fits(p, at(k + 1))}
    BY <1>1
  <2> QED
    BY <1>1, <1>4, <2>1, <2>2, <2>3 DEF ParseMono, Fits
<1> QED
  BY <1>2, <1>3, <1>4 DEF Fits

(* A stereo packet.                                                        *)
LEMMA ParseStereoInside ==
  ASSUME NEW p \in Seq(Byte), Len(p) >= 5, NEW x, NEW y
  PROVE  ParseStereo(p, x) = ParseStereo(p, y)
<1> DEFINE n == At(p, 4, x)
           at == 11 + n
<1>1. n = At(p, 4, y) /\ n \in Nat /\ At(p, 3, x) = At(p, 3, y)
  BY HeaderInside
<1>2. CASE n \notin 1 .. MAX_FRAMES \/ ~Fits(p, at)
  BY <1>1, <1>2 DEF ParseStereo
<1>3. CASE n \in 1 .. MAX_FRAMES /\ at <= Len(p)
  <2> HIDE DEF n
  <2>1. StereoFrames(p, 5, 11, n, x) = StereoFrames(p, 5, 11, n, y)
    BY <1>1, <1>3, StereoInside
  <2>2. ASSUME at + 7 + n <= Len(p)
        PROVE  /\ At(p, at, x) = At(p, at, y)
               /\ StereoFrames(p, at + 1, at + 7, n, x) = StereoFrames(p, at + 1, at + 7, n, y)
    <3>1. /\ at \in Nat /\ at < Len(p) /\ at + 1 \in Nat /\ at + 7 \in Nat
          /\ (at + 1) + 6 <= Len(p) /\ (at + 7) + n <= Len(p)
      BY <1>1, <2>2
    <3> HIDE DEF at
    <3>2. At(p, at, x) = At(p, at, y)
      BY <3>1, AtInside
    <3>3. StereoFrames(p, at + 1, at + 7, n, x) = StereoFrames(p, at + 1, at + 7, n, y)
      BY <1>1, <3>1, StereoInside
    <3> QED
      BY <3>2, <3>3
  <2> QED
    BY <1>1, <1>3, <2>1, <2>2 DEF ParseStereo, Fits, n
<1> QED
  BY <1>2, <1>3 DEF Fits

(* The entries of an Opus packet follow their recursion.                   *)
LEMMA EntriesRecursion ==
  ASSUME NEW p, NEW x
  PROVE  OpusEntriesAt(p, x) =
           [k \in 1 .. MAX_PIGGYBACK + 1 |->
              IF k = 1 THEN 5 + At(p, 4, x)
              ELSE OpusEntriesAt(p, x)[k - 1] + 2 + At(p, OpusEntriesAt(p, x)[k - 1] + 1, x)]
<1> DEFINE F(f, n) == [k \in 1 .. n + 1 |-> IF k = 1 THEN 5 + At(p, 4, x)
                                            ELSE f[k - 1] + 2 + At(p, f[k - 1] + 1, x)]
           T == {n \in Nat : \E f : f = F(f, n)}
<1>1. 0 \in T
  <2> DEFINE f == [k \in 1 .. 1 |-> 5 + At(p, 4, x)]
  <2>1. f = F(f, 0)
    OBVIOUS
  <2> QED
    BY <2>1
<1>2. ASSUME NEW n \in 0 .. MAX_PIGGYBACK - 1, n \in T PROVE n + 1 \in T
  <2>1. PICK f : f = F(f, n)
    BY <1>2
  <2>2. n \in Nat
    BY Limits
  <2> DEFINE g == [k \in 1 .. n + 2 |-> IF k < n + 2 THEN f[k]
                                        ELSE f[n + 1] + 2 + At(p, f[n + 1] + 1, x)]
  <2>3. \A k \in 1 .. n + 2 : g[k] = F(g, n + 1)[k]
    BY <2>1, <2>2
  <2>4. g = F(g, n + 1)
    BY <2>2, <2>3
  <2>5. \E e : e = F(e, n + 1)
    BY <2>4
  <2> QED
    BY <2>2, <2>5
<1>3. 0 .. MAX_PIGGYBACK \subseteq T
  <2> HIDE DEF T
  <2> QED
    BY <1>1, <1>2, Limits, UpTo
<1>4. \E f : f = F(f, MAX_PIGGYBACK)
  <2>1. MAX_PIGGYBACK \in T
    <3> HIDE DEF T
    <3> QED
      BY <1>3, Limits
  <2> QED
    BY <2>1
<1> QED
  BY <1>4 DEF OpusEntriesAt

(* They lie one after the other.                                           *)
LEMMA EntriesType ==
  ASSUME NEW p \in Seq(Byte), NEW x \in Byte
  PROVE  \A k \in 1 .. MAX_PIGGYBACK + 1 : OpusEntriesAt(p, x)[k] \in Nat
<1> DEFINE pos == OpusEntriesAt(p, x)
           T == {k \in 0 .. MAX_PIGGYBACK : pos[k + 1] \in Nat}
<1>1. pos = [k \in 1 .. MAX_PIGGYBACK + 1 |->
               IF k = 1 THEN 5 + At(p, 4, x) ELSE pos[k - 1] + 2 + At(p, pos[k - 1] + 1, x)]
  BY EntriesRecursion
<1> HIDE DEF pos
<1>2. \A k \in Nat : At(p, k, x) \in Nat
  BY AtType, ByteNat
<1>3. 0 \in T
  <2>1. pos[1] = 5 + At(p, 4, x) /\ At(p, 4, x) \in Nat
    BY <1>1, <1>2, Limits
  <2> QED
    BY <2>1, Limits
<1>4. ASSUME NEW k \in 0 .. MAX_PIGGYBACK - 1, k \in T PROVE k + 1 \in T
  <2>1. /\ k + 2 \in 1 .. MAX_PIGGYBACK + 1 /\ k + 2 # 1 /\ (k + 2) - 1 = k + 1
        /\ k + 1 \in 0 .. MAX_PIGGYBACK /\ (k + 1) + 1 = k + 2
    BY Limits
  <2>2. pos[k + 2] = pos[k + 1] + 2 + At(p, pos[k + 1] + 1, x)
    BY <1>1, <2>1
  <2>3. pos[k + 1] \in Nat
    BY <1>4
  <2>4. At(p, pos[k + 1] + 1, x) \in Nat
    <3>1. pos[k + 1] + 1 \in Nat
      BY <2>3
    <3> QED
      BY <1>2, <3>1
  <2> QED
    BY <2>1, <2>2, <2>3, <2>4
<1>5. 0 .. MAX_PIGGYBACK \subseteq T
  <2> HIDE DEF T
  <2> QED
    BY <1>3, <1>4, Limits, UpTo
<1> SUFFICES ASSUME NEW k \in 1 .. MAX_PIGGYBACK + 1 PROVE pos[k] \in Nat
  BY DEF pos
<1>6. k - 1 \in 0 .. MAX_PIGGYBACK /\ (k - 1) + 1 = k
  BY Limits
<1>7. k - 1 \in T
  BY <1>5, <1>6
<1> QED
  BY <1>6, <1>7

(* As far as they fit, they lie where they lie.                            *)
LEMMA EntriesInside ==
  ASSUME NEW p \in Seq(Byte), Len(p) >= 5, NEW x \in Byte, NEW y \in Byte,
         NEW k \in 1 .. MAX_PIGGYBACK,
         \A j \in 1 .. k : OpusEntriesAt(p, x)[j] + 2 <= Len(p)
  PROVE  \A j \in 1 .. k + 1 : OpusEntriesAt(p, x)[j] = OpusEntriesAt(p, y)[j]
<1> DEFINE f == OpusEntriesAt(p, x)
           g == OpusEntriesAt(p, y)
           T == {i \in 0 .. k : f[i + 1] = g[i + 1]}
<1>1. /\ f = [i \in 1 .. MAX_PIGGYBACK + 1 |->
                IF i = 1 THEN 5 + At(p, 4, x) ELSE f[i - 1] + 2 + At(p, f[i - 1] + 1, x)]
      /\ g = [i \in 1 .. MAX_PIGGYBACK + 1 |->
                IF i = 1 THEN 5 + At(p, 4, y) ELSE g[i - 1] + 2 + At(p, g[i - 1] + 1, y)]
  BY EntriesRecursion
<1>2. \A i \in 1 .. MAX_PIGGYBACK + 1 : f[i] \in Nat
  BY EntriesType
<1>3. \A j \in 1 .. k : f[j] + 2 <= Len(p)
  OBVIOUS
<1> HIDE DEF f, g
<1>4. 0 \in T
  <2>1. At(p, 4, x) = At(p, 4, y)
    BY HeaderInside
  <2>2. 1 \in 1 .. MAX_PIGGYBACK + 1
    BY Limits
  <2>3. f[1] = g[1]
    BY <1>1, <2>1, <2>2
  <2> QED
    BY <2>3
<1>5. ASSUME NEW i \in 0 .. k - 1, i \in T PROVE i + 1 \in T
  <2>1. /\ i + 2 \in 1 .. MAX_PIGGYBACK + 1 /\ i + 2 # 1 /\ (i + 2) - 1 = i + 1
        /\ i + 1 \in 0 .. k /\ (i + 1) + 1 = i + 2 /\ i + 1 \in 1 .. k
        /\ i + 1 \in 1 .. MAX_PIGGYBACK + 1
    BY Limits
  <2>2. /\ f[i + 2] = f[i + 1] + 2 + At(p, f[i + 1] + 1, x)
        /\ g[i + 2] = g[i + 1] + 2 + At(p, g[i + 1] + 1, y)
    BY <1>1, <2>1
  <2>3. f[i + 1] = g[i + 1]
    BY <1>5
  <2>4. f[i + 1] + 1 \in Nat /\ f[i + 1] + 1 < Len(p)
    BY <1>2, <1>3, <2>1
  <2>5. At(p, f[i + 1] + 1, x) = At(p, f[i + 1] + 1, y)
    BY <2>4, AtInside
  <2> QED
    BY <2>1, <2>2, <2>3, <2>5
<1>6. 0 .. k \subseteq T
  <2> HIDE DEF T
  <2>1. k \in Nat
    OBVIOUS
  <2> QED
    BY <1>4, <1>5, <2>1, UpTo
<1> SUFFICES ASSUME NEW j \in 1 .. k + 1 PROVE f[j] = g[j]
  BY DEF f, g
<1>7. j - 1 \in 0 .. k /\ (j - 1) + 1 = j
  OBVIOUS
<1>8. j - 1 \in T
  BY <1>6, <1>7
<1> QED
  BY <1>7, <1>8

(* The entries of an Opus packet that fit.                                 *)
OpusWhole(p, x) ==
  {k \in 1 .. Claimed(p, x) :
     \A j \in 1 .. k : /\ Fits(p, OpusEntriesAt(p, x)[j] + 2)
                       /\ Fits(p, OpusEntriesAt(p, x)[j + 1])}

(* They are the same ones, whatever lies beyond.                           *)
LEMMA OpusWholeInside ==
  ASSUME NEW p \in Seq(Byte), Len(p) >= 5, NEW x \in Byte, NEW y \in Byte
  PROVE  /\ OpusWhole(p, x) \subseteq OpusWhole(p, y)
         /\ \A k \in OpusWhole(p, x) : \A j \in 1 .. k : j \in OpusWhole(p, x)
         /\ \A k \in OpusWhole(p, x) : \A j \in 1 .. k + 1 :
              OpusEntriesAt(p, x)[j] = OpusEntriesAt(p, y)[j]
<1> DEFINE f == OpusEntriesAt(p, x)
           g == OpusEntriesAt(p, y)
<1>1. Claimed(p, x) = Claimed(p, y) /\ Claimed(p, x) \in 0 .. MAX_PIGGYBACK
  BY HeaderInside
<1>2. ASSUME NEW k \in OpusWhole(p, x)
      PROVE  /\ k \in 1 .. MAX_PIGGYBACK /\ k \in 1 .. Claimed(p, x)
             /\ \A j \in 1 .. k : Fits(p, f[j] + 2) /\ Fits(p, f[j + 1])
  BY <1>1, Limits DEF OpusWhole
<1>3. ASSUME NEW k \in OpusWhole(p, x) PROVE \A j \in 1 .. k + 1 : f[j] = g[j]
  <2>1. k \in 1 .. MAX_PIGGYBACK /\ \A j \in 1 .. k : f[j] + 2 <= Len(p)
    BY <1>2 DEF Fits
  <2> QED
    BY <2>1, EntriesInside
<1> HIDE DEF f, g
<1>4. ASSUME NEW k \in OpusWhole(p, x) PROVE k \in OpusWhole(p, y)
  <2>1. \A j \in 1 .. k : Fits(p, g[j] + 2) /\ Fits(p, g[j + 1])
    <3> SUFFICES ASSUME NEW j \in 1 .. k PROVE Fits(p, g[j] + 2) /\ Fits(p, g[j + 1])
      OBVIOUS
    <3>1. j \in 1 .. k + 1 /\ j + 1 \in 1 .. k + 1
      BY <1>2
    <3> QED
      BY <1>2, <1>3, <3>1
  <2> QED
    BY <1>1, <1>2, <2>1 DEF OpusWhole, g
<1>5. ASSUME NEW k \in OpusWhole(p, x), NEW j \in 1 .. k PROVE j \in OpusWhole(p, x)
  <2>1. j \in 1 .. Claimed(p, x) /\ \A i \in 1 .. j : i \in 1 .. k
    BY <1>1, <1>2, Limits
  <2> QED
    BY <1>2, <2>1 DEF OpusWhole, f
<1> QED
  BY <1>3, <1>4, <1>5 DEF f, g

(* An Opus packet.                                                         *)
LEMMA ParseOpusInside ==
  ASSUME NEW p \in Seq(Byte), Len(p) >= 5, NEW x \in Byte, NEW y \in Byte
  PROVE  ParseOpus(p, x) = ParseOpus(p, y)
<1> DEFINE own == At(p, 4, x)
           f == OpusEntriesAt(p, x)
           g == OpusEntriesAt(p, y)
           whole == OpusWhole(p, x)
<1>1. own = At(p, 4, y) /\ own \in Nat /\ Claimed(p, x) = Claimed(p, y)
      /\ Claimed(p, x) \in 0 .. MAX_PIGGYBACK /\ Claimed(p, x) \in Nat
  BY HeaderInside
<1>2. CASE Len(p) < 6 \/ ~Fits(p, 5 + own)
  BY <1>1, <1>2 DEF ParseOpus
<1>3. CASE Len(p) >= 6 /\ 5 + own <= Len(p)
  <2>1. Bytes(p, 5, own, x) = Bytes(p, 5, own, y)
    <3> HIDE DEF own
    <3>1. \A z : Bytes(p, 5, own, z) = [k \in 1 .. own |-> p[5 + k]]
      BY <1>1, <1>3, BytesInside
    <3> QED
      BY <3>1
  <2>2. whole = OpusWhole(p, y)
    <3>1. OpusWhole(p, x) \subseteq OpusWhole(p, y)
      BY OpusWholeInside
    <3>2. OpusWhole(p, y) \subseteq OpusWhole(p, x)
      BY OpusWholeInside
    <3> QED
      BY <3>1, <3>2
  <2>3. \A k \in 1 .. Cardinality(whole) : k \in whole
    <3>1. whole \in SUBSET (1 .. Claimed(p, x)) /\ \A k \in whole : \A j \in 1 .. k : j \in whole
      BY OpusWholeInside DEF OpusWhole
    <3> HIDE DEF whole
    <3> QED
      BY <1>1, <3>1, NoGaps
  <2>4. ASSUME NEW k \in 1 .. Cardinality(whole)
        PROVE  /\ f[k] = g[k] /\ f[k + 1] = g[k + 1]
               /\ At(p, f[k], x) = At(p, f[k], y)
               /\ Bytes(p, f[k] + 2, f[k + 1] - f[k] - 2, x)
                    = Bytes(p, f[k] + 2, f[k + 1] - f[k] - 2, y)
    <3>1. /\ k \in 1 .. MAX_PIGGYBACK /\ k \in 1 .. k
          /\ k \in 1 .. MAX_PIGGYBACK + 1 /\ k + 1 \in 1 .. MAX_PIGGYBACK + 1
          /\ k \in 1 .. k + 1 /\ k + 1 \in 1 .. k + 1 /\ k + 1 # 1 /\ (k + 1) - 1 = k
      BY <1>1, <2>3, Limits DEF OpusWhole
    <3>2. f[k] = g[k] /\ f[k + 1] = g[k + 1]
      BY <2>3, <3>1, OpusWholeInside
    <3>3. f[k] + 2 <= Len(p) /\ f[k + 1] <= Len(p)
      BY <2>3, <3>1 DEF OpusWhole, Fits
    <3>4. f[k] \in Nat /\ f[k + 1] \in Nat
      BY <3>1, EntriesType
    <3>10. f = [i \in 1 .. MAX_PIGGYBACK + 1 |->
                  IF i = 1 THEN 5 + At(p, 4, x) ELSE f[i - 1] + 2 + At(p, f[i - 1] + 1, x)]
      BY EntriesRecursion
    <3> HIDE DEF f, g, own
    <3>5. f[k + 1] = f[k] + 2 + At(p, f[k] + 1, x)
      BY <3>1, <3>10
    <3>6. At(p, f[k] + 1, x) \in Nat
      <4>1. f[k] + 1 \in Nat
        BY <3>4
      <4> QED
        BY <4>1, AtType, ByteNat
    <3> DEFINE n == f[k + 1] - f[k] - 2
               a == f[k] + 2
    <3>7. n \in Nat /\ a \in Nat /\ a + n <= Len(p)
      BY <3>3, <3>4, <3>5, <3>6
    <3>8. Bytes(p, a, n, x) = Bytes(p, a, n, y)
      <4> HIDE DEF n, a
      <4>1. \A z : Bytes(p, a, n, z) = [i \in 1 .. n |-> p[a + i]]
        BY <3>7, BytesInside
      <4> QED
        BY <4>1
    <3>9. At(p, f[k], x) = At(p, f[k], y)
      <4>1. f[k] < Len(p)
        BY <3>3, <3>4
      <4> QED
        BY <3>4, <4>1, AtInside
    <3> QED
      BY <3>2, <3>8, <3>9
  <2> DEFINE copies(z) == [k \in 1 .. Cardinality(OpusWhole(p, z)) |->
                   [seq |-> At(p, OpusEntriesAt(p, z)[k], z),
                    frame |-> Bytes(p, OpusEntriesAt(p, z)[k] + 2,
                                    OpusEntriesAt(p, z)[k + 1] - OpusEntriesAt(p, z)[k] - 2, z)]]
  <2>5. copies(x) = copies(y)
    <3> HIDE DEF own
    <3> QED
      BY <2>2, <2>4
  <2>6. /\ ParseOpus(p, x) = [own |-> <<Bytes(p, 5, own, x)>>, copies |-> copies(x)]
        /\ ParseOpus(p, y) = [own |-> <<Bytes(p, 5, own, y)>>, copies |-> copies(y)]
    <3>1. ASSUME NEW z, own = At(p, 4, z)
          PROVE  ParseOpus(p, z) = [own |-> <<Bytes(p, 5, own, z)>>, copies |-> copies(z)]
      <4>1. ~(Len(p) < 6 \/ ~Fits(p, 5 + At(p, 4, z)))
        BY <1>3, <3>1 DEF Fits
      <4>2. ParseOpus(p, z) = [own |-> <<Bytes(p, 5, At(p, 4, z), z)>>, copies |-> copies(z)]
        BY <4>1 DEF ParseOpus, OpusWhole
      <4> QED
        BY <3>1, <4>2
    <3> QED
      BY <1>1, <3>1
  <2> QED
    BY <2>1, <2>5, <2>6
<1> QED
  BY <1>1, <1>2, <1>3 DEF Fits

(* No byte beyond a packet, and no step beyond the table, decides what is  *)
(* read of it, whatever its bytes say.                                     *)
THEOREM ReadWithin ==
  ASSUME NEW p \in Seq(Byte), NEW x \in Byte, NEW y \in Byte
  PROVE  Parse(p, x) = Parse(p, y)
<1>1. CASE Len(p) < 5
  BY <1>1 DEF Parse
<1>2. CASE Len(p) >= 5
  <2>1. At(p, 0, x) = At(p, 0, y) /\ At(p, 1, x) = At(p, 1, y)
    BY <1>2, HeaderInside
  <2>2. /\ ParseOpus(p, x) = ParseOpus(p, y) /\ ParseMono(p, x) = ParseMono(p, y)
        /\ ParseStereo(p, x) = ParseStereo(p, y)
    BY <1>2, ParseOpusInside, ParseMonoInside, ParseStereoInside
  <2> QED
    BY <2>1, <2>2 DEF Parse
<1> QED
  BY <1>1, <1>2

(***************************************************************************)
(* What the transmitter writes, and that it is read back as written.       *)
(***************************************************************************)
(* A block that a stream may hold.                                         *)
BlockOf(s) == [seq : Byte, payload : Payloads[s], coder : [1 .. 2 -> CoderState]]

(* What is announced of it fits a byte.                                    *)
LEMMA PayloadType ==
  ASSUME NEW s \in StreamsSent, NEW b \in BlockOf(s)
  PROVE  /\ s.mode \in 0 .. MODE_COUNT - 1 /\ s.frames \in Nat
         /\ s.frames \in 1 .. MAX_FRAMES /\ s.frames \in Byte
         /\ b.seq \in Byte /\ b.coder \in [1 .. 2 -> CoderState]
         /\ b.coder[1] \in CoderState /\ b.coder[2] \in CoderState
         /\ IsOpus(s) => /\ b.payload \in Seq(Byte) /\ Len(b.payload) \in Byte
                         /\ Len(b.payload) \in Nat /\ Len(b.payload) >= 1
         /\ ~IsOpus(s) => b.payload[1] \in [1 .. s.frames -> Nibble]
         /\ ~IsOpus(s) /\ ~IsMono(s) => b.payload[2] \in [1 .. s.frames -> Nibble]
<1>1. b.seq \in Byte /\ b.payload \in Payloads[s] /\ b.coder \in [1 .. 2 -> CoderState]
  BY DEF BlockOf
<1>2. s.frames \in 1 .. MAX_FRAMES /\ s.mode \in 0 .. MODE_COUNT - 1 /\ MAX_FRAMES \in Byte
  BY PacketAssumption
<1>3. s.frames \in Nat /\ s.frames \in Byte
  BY <1>2 DEF Byte
<1>4. IF IsOpus(s) THEN b.payload \in Seq(Byte) /\ Len(b.payload) \in Byte \ {0}
      ELSE b.payload \in [Channels(s) -> [1 .. s.frames -> Nibble]]
  BY <1>1, PacketAssumption
<1>5. Len(b.payload) \in Byte \ {0} => Len(b.payload) \in Nat /\ Len(b.payload) >= 1
  BY DEF Byte
<1>6. 1 \in Channels(s) /\ (~IsMono(s) => 2 \in Channels(s))
  BY DEF Channels
<1> QED
  BY <1>1, <1>2, <1>3, <1>4, <1>5, <1>6

(* A coder state is written in three bytes and read back.                  *)
LEMMA StateWritten ==
  ASSUME NEW st \in CoderState
  PROVE  /\ StateBytes(st) \in Seq(Byte) /\ Len(StateBytes(st)) = 3
         /\ Signed16(StateBytes(st)[1], StateBytes(st)[2]) = st.predictor
         /\ StateBytes(st)[3] = st.step_index
<1> DEFINE u == Unsigned(st.predictor)
<1>1. st.predictor \in Int16 /\ st.step_index \in 0 .. 88
  BY DEF CoderState, STEP_INDEX_MAX
<1>2. ASSUME NEW v \in Int16
      PROVE  /\ Unsigned(v) \in Int /\ 0 <= Unsigned(v) /\ Unsigned(v) <= 65535
             /\ v = IF Unsigned(v) > 32767 THEN Unsigned(v) - 65536 ELSE Unsigned(v)
  <2>1. v \in Int /\ -32768 <= v /\ v <= 32767
    BY DEF Int16, INT16_MIN, INT16_MAX
  <2>2. CASE v < 0
    <3>1. Unsigned(v) = v + 65536
      BY <2>2 DEF Unsigned
    <3>2. /\ v + 65536 \in Int /\ 0 <= v + 65536 /\ v + 65536 <= 65535
          /\ v + 65536 > 32767 /\ (v + 65536) - 65536 = v
      BY <2>1, <2>2
    <3> QED
      BY <3>1, <3>2
  <2>3. CASE ~(v < 0)
    <3>1. Unsigned(v) = v
      BY <2>3 DEF Unsigned
    <3>2. 0 <= v /\ v <= 65535 /\ ~(v > 32767)
      BY <2>1, <2>3
    <3> QED
      BY <2>1, <3>1, <3>2
  <2> QED
    BY <2>2, <2>3
<1>3. /\ u \in Int /\ 0 <= u /\ u <= 65535
      /\ st.predictor = IF u > 32767 THEN u - 65536 ELSE u
  BY <1>1, <1>2
<1> HIDE DEF u
<1>4. u % 256 \in Byte /\ u \div 256 \in Byte /\ st.step_index \in Byte
  BY <1>1, <1>3 DEF Byte
<1>5. (u % 256) + 256 * (u \div 256) = u
  BY <1>3
<1>6. StateBytes(st) = <<u % 256, u \div 256, st.step_index>>
  BY DEF StateBytes, u
<1>7. Signed16(u % 256, u \div 256) = st.predictor
  BY <1>3, <1>5 DEF Signed16
<1> QED
  BY <1>4, <1>6, <1>7

(* Nibbles are packed two to a byte and read back, the pad left alone.     *)
LEMMA NibblesWritten ==
  ASSUME NEW n \in Nat, NEW nibbles \in [1 .. n -> Nibble]
  PROVE  /\ Packed(nibbles) \in [1 .. (n + 1) \div 2 -> Byte]
         /\ Packed(nibbles) \in Seq(Byte) /\ Len(Packed(nibbles)) = (n + 1) \div 2
         /\ MonoNibbles(Packed(nibbles), n) = nibbles
<1> DEFINE size == (n + 1) \div 2
           high(k) == IF 2 * k <= n THEN nibbles[2 * k] ELSE 15
           q == Packed(nibbles)
<1>1. Len(nibbles) = n /\ size \in Nat
  OBVIOUS
<1>2. q = [k \in 1 .. size |-> nibbles[2 * k - 1] + 16 * high(k)]
  BY <1>1 DEF Packed
<1>3. \A i \in 1 .. n : nibbles[i] \in 0 .. 15
  BY DEF Nibble
<1>4. \A k \in 1 .. size : nibbles[2 * k - 1] \in 0 .. 15 /\ high(k) \in 0 .. 15
  BY <1>3
<1>5. \A l, h \in 0 .. 15 : /\ l + 16 * h \in Byte
                            /\ (l + 16 * h) % 16 = l /\ (l + 16 * h) \div 16 = h
  BY DEF Byte
<1>10. \A k \in 1 .. size : /\ q[k] \in Byte
                            /\ q[k] % 16 = nibbles[2 * k - 1] /\ q[k] \div 16 = high(k)
  <2> SUFFICES ASSUME NEW k \in 1 .. size
               PROVE  /\ q[k] \in Byte
                      /\ q[k] % 16 = nibbles[2 * k - 1] /\ q[k] \div 16 = high(k)
    OBVIOUS
  <2> DEFINE lo == nibbles[2 * k - 1]
             hi == high(k)
  <2>1. lo \in 0 .. 15 /\ hi \in 0 .. 15 /\ q[k] = lo + 16 * hi
    BY <1>2, <1>4
  <2> HIDE DEF lo, hi
  <2>2. /\ q[k] \in Byte
        /\ q[k] % 16 = lo /\ q[k] \div 16 = hi
    BY <1>5, <2>1
  <2> QED
    BY <2>2 DEF lo, hi
<1>6. q \in [1 .. size -> Byte]
  <2> HIDE DEF size, high
  <2>1. q = [k \in 1 .. size |-> q[k]]
    BY <1>2
  <2> HIDE DEF q
  <2> QED
    BY <1>10, <2>1
<1>7. \A k \in 1 .. n : MonoNibbles(q, n)[k] = nibbles[k]
  <2> SUFFICES ASSUME NEW k \in 1 .. n PROVE MonoNibbles(q, n)[k] = nibbles[k]
    OBVIOUS
  <2> DEFINE i == (k + 1) \div 2
  <2>1. i \in 1 .. size
    OBVIOUS
  <2>3. q[i] % 16 = nibbles[2 * i - 1] /\ q[i] \div 16 = high(i)
    BY <1>10, <2>1
  <2>4. k % 2 = 1 => 2 * i - 1 = k
    OBVIOUS
  <2>5. k % 2 # 1 => 2 * i = k
    OBVIOUS
  <2>6. MonoNibbles(q, n)[k] = IF k % 2 = 1 THEN q[i] % 16 ELSE q[i] \div 16
    BY DEF MonoNibbles
  <2>7. k % 2 # 1 => high(i) = nibbles[k]
    BY <2>5
  <2> HIDE DEF i, q, high
  <2> QED
    BY <2>3, <2>4, <2>6, <2>7
<1>8. MonoNibbles(q, n) = nibbles
  <2>1. MonoNibbles(q, n) = [k \in 1 .. n |-> MonoNibbles(q, n)[k]]
    BY DEF MonoNibbles
  <2>2. nibbles = [k \in 1 .. n |-> nibbles[k]]
    OBVIOUS
  <2> HIDE DEF q
  <2> QED
    BY <1>7, <2>1, <2>2
<1> HIDE DEF q, size
<1> QED
  BY <1>1, <1>6, <1>8 DEF q, size

(* The channels' nibbles share a byte and are read back.                   *)
LEMMA ChannelsWritten ==
  ASSUME NEW n \in Nat, NEW l \in [1 .. n -> Nibble], NEW r \in [1 .. n -> Nibble]
  PROVE  LET q == [k \in 1 .. n |-> l[k] + 16 * r[k]]
         IN  /\ q \in [1 .. n -> Byte] /\ q \in Seq(Byte) /\ Len(q) = n
             /\ LeftNibbles(q) = l /\ RightNibbles(q) = r
<1> DEFINE q == [k \in 1 .. n |-> l[k] + 16 * r[k]]
<1>1. \A k \in 1 .. n : l[k] \in 0 .. 15 /\ r[k] \in 0 .. 15
  BY DEF Nibble
<1>2. \A x, y \in 0 .. 15 : /\ x + 16 * y \in Byte
                            /\ (x + 16 * y) % 16 = x /\ (x + 16 * y) \div 16 = y
  BY DEF Byte
<1>3. q \in [1 .. n -> Byte]
  BY <1>1, <1>2
<1>4. Len(q) = n
  OBVIOUS
<1>5. \A k \in 1 .. n : q[k] % 16 = l[k] /\ q[k] \div 16 = r[k]
  BY <1>1, <1>2
<1> HIDE DEF q
<1>6. LeftNibbles(q) = [k \in 1 .. n |-> l[k]] /\ RightNibbles(q) = [k \in 1 .. n |-> r[k]]
  BY <1>4, <1>5 DEF LeftNibbles, RightNibbles
<1> QED
  BY <1>3, <1>4, <1>6 DEF q

(* What lies where in three pieces put together.                           *)
LEMMA Glued ==
  ASSUME NEW e \in Byte, NEW a \in Seq(Byte), NEW d \in Seq(Byte)
  PROVE  LET q == <<e>> \o a \o d
         IN  /\ q \in Seq(Byte) /\ Len(q) = 1 + Len(a) + Len(d) /\ q[1] = e
             /\ \A i \in 1 .. Len(a) : q[1 + i] = a[i]
             /\ \A i \in 1 .. Len(d) : q[1 + Len(a) + i] = d[i]
<1> DEFINE f == <<e>> \o a
           q == f \o d
<1>1. <<e>> \in Seq(Byte) /\ Len(<<e>>) = 1 /\ <<e>>[1] = e /\ Len(a) \in Nat /\ Len(d) \in Nat
  OBVIOUS
<1>2. /\ f \in Seq(Byte) /\ Len(f) = 1 + Len(a)
      /\ \A i \in 1 .. 1 + Len(a) : f[i] = IF i <= 1 THEN <<e>>[i] ELSE a[i - 1]
  BY <1>1, ConcatProperties
<1> HIDE DEF f
<1>3. /\ q \in Seq(Byte) /\ Len(q) = Len(f) + Len(d)
      /\ \A i \in 1 .. Len(f) + Len(d) : q[i] = IF i <= Len(f) THEN f[i] ELSE d[i - Len(f)]
  BY <1>2, ConcatProperties
<1> HIDE DEF q
<1>4. q[1] = e
  <2>1. 1 \in 1 .. Len(f) + Len(d) /\ 1 <= Len(f) /\ 1 \in 1 .. 1 + Len(a) /\ 1 <= 1
    BY <1>1, <1>2
  <2> QED
    BY <1>1, <1>2, <1>3, <2>1
<1>5. ASSUME NEW i \in 1 .. Len(a) PROVE q[1 + i] = a[i]
  <2>1. /\ 1 + i \in 1 .. Len(f) + Len(d) /\ 1 + i <= Len(f) /\ 1 + i \in 1 .. 1 + Len(a)
        /\ ~(1 + i <= 1) /\ (1 + i) - 1 = i
    BY <1>1, <1>2
  <2> QED
    BY <1>2, <1>3, <2>1
<1>6. ASSUME NEW i \in 1 .. Len(d) PROVE q[1 + Len(a) + i] = d[i]
  <2>1. /\ 1 + Len(a) + i \in 1 .. Len(f) + Len(d) /\ ~(1 + Len(a) + i <= Len(f))
        /\ (1 + Len(a) + i) - Len(f) = i
    BY <1>1, <1>2
  <2> QED
    BY <1>3, <2>1
<1> QED
  BY <1>2, <1>3, <1>4, <1>5, <1>6 DEF q, f

(* An ADPCM block behind a byte of its own: its length or its number.      *)
Coded(s, b, e) == <<e>> \o State(s, b) \o Data(s, b)

(* The bytes of a mono block's samples.                                    *)
MonoSize(s) == (s.frames + 1) \div 2

(* A mono block: three bytes of state, then the samples.                   *)
LEMMA CodedMono ==
  ASSUME NEW s \in StreamsSent, NEW b \in BlockOf(s), ~IsOpus(s), IsMono(s), NEW e \in Byte
  PROVE  /\ Coded(s, b, e) \in Seq(Byte) /\ Len(Coded(s, b, e)) = 4 + MonoSize(s)
         /\ MonoSize(s) \in Nat /\ Coded(s, b, e)[1] = e
         /\ \A i \in 1 .. 3 : Coded(s, b, e)[1 + i] = StateBytes(b.coder[1])[i]
         /\ \A i \in 1 .. MonoSize(s) : Coded(s, b, e)[4 + i] = Packed(b.payload[1])[i]
<1> DEFINE a == StateBytes(b.coder[1])
           d == Packed(b.payload[1])
<1>1. MonoSize(s) \in Nat
  BY PayloadType DEF MonoSize
<1>2. a \in Seq(Byte) /\ Len(a) = 3
  BY PayloadType, StateWritten
<1>3. d \in Seq(Byte) /\ Len(d) = MonoSize(s)
  BY PayloadType, NibblesWritten DEF MonoSize
<1>4. Coded(s, b, e) = <<e>> \o a \o d
  BY DEF Coded, State, Data
<1> HIDE DEF a, d
<1> DEFINE q == <<e>> \o a \o d
<1>5. /\ q \in Seq(Byte) /\ Len(q) = 1 + Len(a) + Len(d) /\ q[1] = e
      /\ \A i \in 1 .. Len(a) : q[1 + i] = a[i]
      /\ \A i \in 1 .. Len(d) : q[1 + Len(a) + i] = d[i]
  BY <1>2, <1>3, Glued
<1> HIDE DEF q
<1>6. 1 + Len(a) = 4
  BY <1>2
<1>7. Len(q) = 4 + MonoSize(s)
  BY <1>1, <1>3, <1>5, <1>6
<1>8. q = Coded(s, b, e)
  BY <1>4 DEF q
<1> QED
  BY <1>1, <1>2, <1>3, <1>5, <1>6, <1>7, <1>8 DEF a, d

(* The bytes of a stereo block's frames.                                   *)
StereoData(s, b) == [k \in 1 .. s.frames |-> b.payload[1][k] + 16 * b.payload[2][k]]

(* A stereo block: the states of both channels, then the frames.           *)
LEMMA CodedStereo ==
  ASSUME NEW s \in StreamsSent, NEW b \in BlockOf(s), ~IsOpus(s), ~IsMono(s), NEW e \in Byte
  PROVE  /\ Coded(s, b, e) \in Seq(Byte) /\ Len(Coded(s, b, e)) = 7 + s.frames
         /\ s.frames \in Nat /\ Coded(s, b, e)[1] = e
         /\ \A i \in 1 .. 3 : Coded(s, b, e)[1 + i] = StateBytes(b.coder[1])[i]
         /\ \A i \in 1 .. 3 : Coded(s, b, e)[4 + i] = StateBytes(b.coder[2])[i]
         /\ \A i \in 1 .. s.frames : Coded(s, b, e)[7 + i] = StereoData(s, b)[i]
<1> DEFINE u == StateBytes(b.coder[1])
           v == StateBytes(b.coder[2])
           a == u \o v
           d == StereoData(s, b)
<1>1. s.frames \in Nat
  BY PayloadType
<1>2. u \in Seq(Byte) /\ Len(u) = 3 /\ v \in Seq(Byte) /\ Len(v) = 3
  BY PayloadType, StateWritten
<1>3. d \in Seq(Byte) /\ Len(d) = s.frames
  BY PayloadType, ChannelsWritten DEF StereoData
<1>4. Coded(s, b, e) = <<e>> \o a \o d
  BY DEF Coded, State, Data, StereoData
<1> HIDE DEF u, v, d
<1>5. /\ a \in Seq(Byte) /\ Len(a) = Len(u) + Len(v)
      /\ \A i \in 1 .. Len(u) + Len(v) : a[i] = IF i <= Len(u) THEN u[i] ELSE v[i - Len(u)]
  BY <1>2, ConcatProperties
<1> HIDE DEF a
<1> DEFINE q == <<e>> \o a \o d
<1>6. /\ q \in Seq(Byte) /\ Len(q) = 1 + Len(a) + Len(d) /\ q[1] = e
      /\ \A i \in 1 .. Len(a) : q[1 + i] = a[i]
      /\ \A i \in 1 .. Len(d) : q[1 + Len(a) + i] = d[i]
  BY <1>3, <1>5, Glued
<1> HIDE DEF q
<1>7. Len(a) = 6 /\ 1 + Len(a) = 7
  BY <1>2, <1>5
<1>8. Len(q) = 7 + s.frames
  BY <1>1, <1>3, <1>6, <1>7
<1>9. ASSUME NEW i \in 1 .. 3 PROVE q[1 + i] = u[i] /\ q[4 + i] = v[i]
  <2>1. i \in 1 .. 6 /\ i <= Len(u) /\ 3 + i \in 1 .. 6 /\ ~(3 + i <= Len(u))
        /\ (3 + i) - Len(u) = i /\ 1 + (3 + i) = 4 + i
    BY <1>2
  <2>2. a[i] = u[i] /\ a[3 + i] = v[i]
    BY <1>2, <1>5, <2>1
  <2>3. q[1 + i] = a[i] /\ q[1 + (3 + i)] = a[3 + i]
    BY <1>6, <1>7, <2>1
  <2> QED
    BY <2>1, <2>2, <2>3
<1>10. q = Coded(s, b, e)
  BY <1>4 DEF q
<1> QED
  BY <1>1, <1>3, <1>6, <1>7, <1>8, <1>9, <1>10 DEF u, v, d

(* An Opus frame, behind its length or its number and length.              *)
LEMMA CodedOpus ==
  ASSUME NEW s \in StreamsSent, NEW b \in BlockOf(s), IsOpus(s)
  PROVE  LET n == Len(b.payload)
         IN  /\ Body(s, b) \in Seq(Byte) /\ Len(Body(s, b)) = 1 + n /\ Body(s, b)[1] = n
             /\ \A i \in 1 .. n : Body(s, b)[1 + i] = b.payload[i]
             /\ Entry(s, b) \in Seq(Byte) /\ Len(Entry(s, b)) = 2 + n
             /\ Entry(s, b)[1] = b.seq /\ Entry(s, b)[2] = n
             /\ \A i \in 1 .. n : Entry(s, b)[2 + i] = b.payload[i]
<1> DEFINE d == b.payload
           n == Len(d)
<1>1. d \in Seq(Byte) /\ n \in Byte /\ n \in Nat /\ b.seq \in Byte
  BY PayloadType
<1>2. Body(s, b) = <<n>> \o d /\ Entry(s, b) = <<b.seq, n>> \o d
  BY DEF Body, Entry, Data
<1> HIDE DEF d
<1>3. /\ <<n>> \in Seq(Byte) /\ Len(<<n>>) = 1 /\ <<n>>[1] = n
      /\ <<b.seq, n>> \in Seq(Byte) /\ Len(<<b.seq, n>>) = 2
      /\ <<b.seq, n>>[1] = b.seq /\ <<b.seq, n>>[2] = n
  BY <1>1
<1>4. /\ <<n>> \o d \in Seq(Byte) /\ Len(<<n>> \o d) = 1 + n
      /\ \A i \in 1 .. 1 + n : (<<n>> \o d)[i] = IF i <= 1 THEN <<n>>[i] ELSE d[i - 1]
  BY <1>1, <1>3, ConcatProperties
<1>5. /\ <<b.seq, n>> \o d \in Seq(Byte) /\ Len(<<b.seq, n>> \o d) = 2 + n
      /\ \A i \in 1 .. 2 + n : (<<b.seq, n>> \o d)[i] =
           IF i <= 2 THEN <<b.seq, n>>[i] ELSE d[i - 2]
  BY <1>1, <1>3, ConcatProperties
<1> DEFINE q == <<n>> \o d
           r == <<b.seq, n>> \o d
<1>6. q[1] = n /\ \A i \in 1 .. n : q[1 + i] = d[i]
  <2>1. 1 \in 1 .. 1 + n /\ \A i \in 1 .. n : 1 + i \in 1 .. 1 + n /\ ~(1 + i <= 1)
                                            /\ (1 + i) - 1 = i
    BY <1>1
  <2> HIDE DEF q
  <2>2. \A i \in 1 .. 1 + n : q[i] = IF i <= 1 THEN <<n>>[i] ELSE d[i - 1]
    BY <1>4 DEF q
  <2> QED
    BY <1>3, <2>1, <2>2
<1>7. r[1] = b.seq /\ r[2] = n /\ \A i \in 1 .. n : r[2 + i] = d[i]
  <2>1. /\ 1 \in 1 .. 2 + n /\ 2 \in 1 .. 2 + n
        /\ \A i \in 1 .. n : 2 + i \in 1 .. 2 + n /\ ~(2 + i <= 2) /\ (2 + i) - 2 = i
    BY <1>1
  <2> HIDE DEF r
  <2>2. \A i \in 1 .. 2 + n : r[i] = IF i <= 2 THEN <<b.seq, n>>[i] ELSE d[i - 2]
    BY <1>5 DEF r
  <2> QED
    BY <1>3, <2>1, <2>2
<1> HIDE DEF n
<1> QED
  BY <1>2, <1>4, <1>5, <1>6, <1>7 DEF n, d

(* The frames that a block stands for.                                     *)
MonoOf(s, b) == Upsampled([k \in 1 .. s.frames |-> Trace(b, 1)[k].predictor])
StereoOf(s, b) == [k \in 1 .. s.frames |-> <<Trace(b, 1)[k].predictor, Trace(b, 2)[k].predictor>>]

(* A coder state is read where it was written.                             *)
LEMMA StateRead ==
  ASSUME NEW p \in Seq(Byte), NEW o \in Nat, o + 3 <= Len(p), NEW st \in CoderState,
         \A i \in 1 .. 3 : p[o + i] = StateBytes(st)[i]
  PROVE  StateAt(p, o, 0) = st
<1>1. StateAt(p, o, 0) = [predictor |-> Signed16(p[o + 1], p[o + 2]), step_index |-> p[o + 3]]
  BY StateAtInside
<1>2. p[o + 1] = StateBytes(st)[1] /\ p[o + 2] = StateBytes(st)[2] /\ p[o + 3] = StateBytes(st)[3]
  OBVIOUS
<1>3. st = [predictor |-> st.predictor, step_index |-> st.step_index]
  BY DEF CoderState
<1> QED
  BY <1>1, <1>2, <1>3, StateWritten

(* A mono block is read as the coder went through it.                      *)
LEMMA MonoRead ==
  ASSUME NEW s \in StreamsSent, NEW b \in BlockOf(s), ~IsOpus(s), IsMono(s), NEW e \in Byte,
         NEW p \in Seq(Byte), NEW o \in Nat, o + 4 + MonoSize(s) <= Len(p),
         \A i \in 1 .. 4 + MonoSize(s) : p[o + i] = Coded(s, b, e)[i]
  PROVE  MonoFrames(p, o + 1, o + 4, s.frames, 0) = MonoOf(s, b)
<1> DEFINE n == s.frames
           size == MonoSize(s)
           q == Coded(s, b, e)
           nibbles == b.payload[1]
<1>1. n \in Nat /\ size \in Nat /\ nibbles \in [1 .. n -> Nibble] /\ b.coder[1] \in CoderState
  BY PayloadType, CodedMono
<1>2. /\ \A i \in 1 .. 3 : q[1 + i] = StateBytes(b.coder[1])[i]
      /\ \A i \in 1 .. size : q[4 + i] = Packed(nibbles)[i]
  BY CodedMono
<1>3. \A i \in 1 .. 4 + size : p[o + i] = q[i]
  OBVIOUS
<1>4. size = (n + 1) \div 2
  BY DEF MonoSize
<1> HIDE DEF n, size, q, nibbles
<1>5. StateAt(p, o + 1, 0) = b.coder[1]
  <2>1. \A i \in 1 .. 3 : p[(o + 1) + i] = StateBytes(b.coder[1])[i]
    <3> SUFFICES ASSUME NEW i \in 1 .. 3 PROVE p[(o + 1) + i] = StateBytes(b.coder[1])[i]
      OBVIOUS
    <3>1. 1 + i \in 1 .. 4 + size /\ o + (1 + i) = (o + 1) + i
      BY <1>1
    <3> QED
      BY <1>2, <1>3, <3>1
  <2>2. o + 1 \in Nat /\ (o + 1) + 3 <= Len(p)
    BY <1>1 DEF size
  <2> QED
    BY <1>1, <2>1, <2>2, StateRead
<1>6. Bytes(p, o + 4, size, 0) = Packed(nibbles)
  <2> DEFINE a == o + 4
  <2>1. a \in Nat /\ a + size <= Len(p)
    BY <1>1 DEF size
  <2> HIDE DEF a
  <2>2. Bytes(p, a, size, 0) = [i \in 1 .. size |-> p[a + i]]
    BY <1>1, <2>1, BytesInside
  <2>3. ASSUME NEW i \in 1 .. size PROVE p[a + i] = Packed(nibbles)[i]
    <3>1. 4 + i \in 1 .. 4 + size /\ o + (4 + i) = a + i
      BY <1>1 DEF a
    <3> QED
      BY <1>2, <1>3, <3>1
  <2>4. Packed(nibbles) \in [1 .. size -> Byte]
    BY <1>1, <1>4, NibblesWritten
  <2>5. Packed(nibbles) = [i \in 1 .. size |-> Packed(nibbles)[i]]
    BY <2>4
  <2> QED
    BY <2>2, <2>3, <2>5 DEF a
<1>7. MonoNibbles(Packed(nibbles), n) = nibbles /\ Len(nibbles) = n
  BY <1>1, NibblesWritten, StatesType
<1>8. Block(nibbles, b.coder[1], 0) = [k \in 1 .. n |-> Trace(b, 1)[k].predictor]
  BY <1>7 DEF Block, Trace, nibbles
<1>9. MonoFrames(p, o + 1, o + 4, n, 0)
        = Upsampled(Block(MonoNibbles(Bytes(p, o + 4, size, 0), n), StateAt(p, o + 1, 0), 0))
  BY <1>4 DEF MonoFrames
<1> QED
  BY <1>5, <1>6, <1>7, <1>8, <1>9 DEF MonoOf, n

(* A stereo block is.                                                      *)
LEMMA StereoRead ==
  ASSUME NEW s \in StreamsSent, NEW b \in BlockOf(s), ~IsOpus(s), ~IsMono(s), NEW e \in Byte,
         NEW p \in Seq(Byte), NEW o \in Nat, o + 7 + s.frames <= Len(p),
         \A i \in 1 .. 7 + s.frames : p[o + i] = Coded(s, b, e)[i]
  PROVE  StereoFrames(p, o + 1, o + 7, s.frames, 0) = StereoOf(s, b)
<1> DEFINE n == s.frames
           q == Coded(s, b, e)
           l == b.payload[1]
           r == b.payload[2]
           d == StereoData(s, b)
<1>1. /\ n \in Nat /\ l \in [1 .. n -> Nibble] /\ r \in [1 .. n -> Nibble]
      /\ b.coder[1] \in CoderState /\ b.coder[2] \in CoderState
  BY PayloadType
<1>2. /\ \A i \in 1 .. 3 : q[1 + i] = StateBytes(b.coder[1])[i]
      /\ \A i \in 1 .. 3 : q[4 + i] = StateBytes(b.coder[2])[i]
      /\ \A i \in 1 .. n : q[7 + i] = d[i]
  BY CodedStereo
<1>3. \A i \in 1 .. 7 + n : p[o + i] = q[i]
  OBVIOUS
<1>10. d = [k \in 1 .. n |-> l[k] + 16 * r[k]]
  BY DEF StereoData
<1> HIDE DEF n, q, l, r, d
<1>4. /\ d \in [1 .. n -> Byte] /\ LeftNibbles(d) = l /\ RightNibbles(d) = r
  BY <1>1, <1>10, ChannelsWritten
<1>5. StateAt(p, o + 1, 0) = b.coder[1] /\ StateAt(p, (o + 1) + 3, 0) = b.coder[2]
  <2>1. ASSUME NEW i \in 1 .. 3
        PROVE  /\ p[(o + 1) + i] = StateBytes(b.coder[1])[i]
               /\ p[((o + 1) + 3) + i] = StateBytes(b.coder[2])[i]
    <3>1. /\ 1 + i \in 1 .. 7 + n /\ o + (1 + i) = (o + 1) + i
          /\ 4 + i \in 1 .. 7 + n /\ o + (4 + i) = ((o + 1) + 3) + i
      BY <1>1
    <3> QED
      BY <1>2, <1>3, <3>1
  <2>2. /\ o + 1 \in Nat /\ (o + 1) + 3 <= Len(p)
        /\ (o + 1) + 3 \in Nat /\ ((o + 1) + 3) + 3 <= Len(p)
    BY <1>1 DEF n
  <2>3. StateAt(p, o + 1, 0) = b.coder[1]
    BY <1>1, <2>1, <2>2, StateRead
  <2>4. StateAt(p, (o + 1) + 3, 0) = b.coder[2]
    BY <1>1, <2>1, <2>2, StateRead
  <2> QED
    BY <2>3, <2>4
<1>6. Bytes(p, o + 7, n, 0) = d
  <2> DEFINE a == o + 7
  <2>1. a \in Nat /\ a + n <= Len(p)
    BY <1>1 DEF n
  <2> HIDE DEF a
  <2>2. Bytes(p, a, n, 0) = [i \in 1 .. n |-> p[a + i]]
    BY <1>1, <2>1, BytesInside
  <2>3. ASSUME NEW i \in 1 .. n PROVE p[a + i] = d[i]
    <3>1. 7 + i \in 1 .. 7 + n /\ o + (7 + i) = a + i
      BY <1>1 DEF a
    <3> QED
      BY <1>2, <1>3, <3>1
  <2>4. d = [i \in 1 .. n |-> d[i]]
    BY <1>4
  <2> QED
    BY <2>2, <2>3, <2>4 DEF a
<1>7. Len(l) = n /\ Len(r) = n
  BY <1>1
<1>8. /\ Block(l, b.coder[1], 0) = [k \in 1 .. n |-> Trace(b, 1)[k].predictor]
      /\ Block(r, b.coder[2], 0) = [k \in 1 .. n |-> Trace(b, 2)[k].predictor]
  BY <1>7 DEF Block, Trace, l, r
<1>9. StereoFrames(p, o + 1, o + 7, n, 0)
        = [k \in 1 .. n |-> <<Block(l, b.coder[1], 0)[k], Block(r, b.coder[2], 0)[k]>>]
  BY <1>4, <1>5, <1>6 DEF StereoFrames
<1> QED
  BY <1>8, <1>9 DEF StereoOf, n

(* The entries of a packet follow their recursion.                         *)
LEMMA EntriesStep ==
  ASSUME NEW s, NEW bs
  PROVE  /\ Entries(s, bs, 0) = <<>>
         /\ \A n \in Nat : Entries(s, bs, n + 1) = Entries(s, bs, n) \o Entry(s, bs[n + 1])
<1> DEFINE F(f, n) == [k \in 0 .. n |-> IF k = 0 THEN <<>> ELSE f[k - 1] \o Entry(s, bs[k])]
           C(n) == CHOOSE f : f = F(f, n)
<1>1. ASSUME NEW n \in Nat PROVE \E f : f = F(f, n)
  <2> DEFINE T == {m \in 0 .. n : \E f : f = F(f, m)}
  <2>1. 0 \in T
    <3> DEFINE f == [k \in 0 .. 0 |-> <<>>]
    <3>1. f = F(f, 0)
      OBVIOUS
    <3>2. \E e : e = F(e, 0)
      BY <3>1
    <3> QED
      BY <3>2
  <2>2. ASSUME NEW m \in 0 .. n - 1, m \in T PROVE m + 1 \in T
    <3>1. PICK f : f = F(f, m)
      BY <2>2
    <3> DEFINE g == [k \in 0 .. m + 1 |-> IF k < m + 1 THEN f[k]
                                          ELSE f[m] \o Entry(s, bs[m + 1])]
    <3>2. \A k \in 0 .. m + 1 : g[k] = F(g, m + 1)[k]
      <4> SUFFICES ASSUME NEW k \in 0 .. m + 1 PROVE g[k] = F(g, m + 1)[k]
        OBVIOUS
      <4>1. CASE k = 0
        BY <3>1, <4>1
      <4>2. CASE k # 0 /\ k < m + 1
        <5>1. k \in 0 .. m /\ k - 1 \in 0 .. m + 1 /\ k - 1 < m + 1
          BY <4>2
        <5>2. f[k] = f[k - 1] \o Entry(s, bs[k])
          BY <3>1, <4>2, <5>1
        <5> QED
          BY <4>2, <5>1, <5>2
      <4>3. CASE k = m + 1
        <5>1. (m + 1) - 1 = m /\ m \in 0 .. m + 1 /\ m < m + 1 /\ m + 1 # 0 /\ ~(m + 1 < m + 1)
          OBVIOUS
        <5> QED
          BY <4>3, <5>1
      <4> QED
        BY <4>1, <4>2, <4>3
    <3>3. g = F(g, m + 1)
      BY <3>2
    <3>4. \E e : e = F(e, m + 1)
      BY <3>3
    <3>5. m + 1 \in 0 .. n
      OBVIOUS
    <3> HIDE DEF F
    <3> QED
      BY <3>4, <3>5
  <2>3. n \in T
    <3> HIDE DEF T
    <3>1. 0 .. n \subseteq T
      BY <2>1, <2>2, UpTo
    <3> QED
      BY <3>1
  <2> QED
    BY <2>3
<1>2. ASSUME NEW n \in Nat PROVE C(n) = F(C(n), n)
  <2> HIDE DEF F
  <2> QED
    BY <1>1
<1>3. \A n \in Nat : Entries(s, bs, n) = C(n)[n]
  BY DEF Entries
<1> HIDE DEF C
<1>4. ASSUME NEW n \in Nat, NEW k \in 0 .. n PROVE C(n)[k] = C(k)[k]
  <2> DEFINE T == {i \in 0 .. k : C(n)[i] = C(k)[i]}
  <2>1. k \in Nat /\ C(n) = F(C(n), n) /\ C(k) = F(C(k), k)
    <3>1. k \in Nat
      OBVIOUS
    <3> HIDE DEF F
    <3> QED
      BY <1>2, <3>1
  <2>2. 0 \in T
    BY <2>1
  <2>3. ASSUME NEW i \in 0 .. k - 1, i \in T PROVE i + 1 \in T
    <3>1. i + 1 \in 0 .. k /\ i + 1 \in 0 .. n /\ i + 1 # 0 /\ (i + 1) - 1 = i
      OBVIOUS
    <3>2. /\ C(n)[i + 1] = C(n)[i] \o Entry(s, bs[i + 1])
          /\ C(k)[i + 1] = C(k)[i] \o Entry(s, bs[i + 1])
      BY <2>1, <3>1
    <3> QED
      BY <2>3, <3>1, <3>2
  <2>4. k \in T
    <3> HIDE DEF T
    <3>1. 0 .. k \subseteq T
      BY <2>1, <2>2, <2>3, UpTo
    <3> QED
      BY <2>1, <3>1
  <2> QED
    BY <2>4
<1>5. Entries(s, bs, 0) = <<>>
  <2>1. C(0) = F(C(0), 0)
    <3> HIDE DEF F
    <3> QED
      BY <1>2
  <2>2. C(0)[0] = <<>>
    BY <2>1
  <2> QED
    BY <1>3, <2>2
<1>6. ASSUME NEW n \in Nat
      PROVE  Entries(s, bs, n + 1) = Entries(s, bs, n) \o Entry(s, bs[n + 1])
  <2>1. n + 1 \in Nat /\ n + 1 \in 0 .. n + 1 /\ n \in 0 .. n + 1 /\ n + 1 # 0 /\ (n + 1) - 1 = n
    OBVIOUS
  <2>2. C(n + 1)[n + 1] = C(n + 1)[n] \o Entry(s, bs[n + 1])
    BY <1>2, <2>1
  <2>3. C(n + 1)[n] = C(n)[n]
    BY <1>4, <2>1
  <2> QED
    BY <1>3, <2>1, <2>2, <2>3
<1> QED
  BY <1>5, <1>6

(* A body and an entry are bytes.                                          *)
LEMMA BodyType ==
  ASSUME NEW s \in StreamsSent, NEW b \in BlockOf(s)
  PROVE  /\ Body(s, b) \in Seq(Byte) /\ Entry(s, b) \in Seq(Byte)
         /\ Len(Entry(s, b)) \in Nat /\ Len(Body(s, b)) \in Nat
         /\ ~IsOpus(s) => /\ Body(s, b) = Coded(s, b, s.frames)
                          /\ Entry(s, b) = Coded(s, b, b.seq)
<1>1. ~IsOpus(s) => Body(s, b) = Coded(s, b, s.frames) /\ Entry(s, b) = Coded(s, b, b.seq)
  BY DEF Body, Entry, Coded
<1>2. Body(s, b) \in Seq(Byte) /\ Entry(s, b) \in Seq(Byte)
  <2>1. s.frames \in Byte /\ b.seq \in Byte
    BY PayloadType
  <2>2. CASE IsOpus(s)
    BY <2>2, CodedOpus
  <2>3. CASE ~IsOpus(s) /\ IsMono(s)
    BY <1>1, <2>1, <2>3, CodedMono
  <2>4. CASE ~IsOpus(s) /\ ~IsMono(s)
    BY <1>1, <2>1, <2>4, CodedStereo
  <2> QED
    BY <2>2, <2>3, <2>4
<1> QED
  BY <1>1, <1>2, LenProperties

(* Entries lie one behind the other, and more of them leave the first ones *)
(* where they are.                                                         *)
LEMMA EntriesLaid ==
  ASSUME NEW s \in StreamsSent, NEW bs \in Seq(BlockOf(s)), NEW n \in 0 .. Len(bs)
  PROVE  /\ Entries(s, bs, n) \in Seq(Byte) /\ Len(Entries(s, bs, n)) \in Nat
         /\ \A k \in 0 .. n - 1 :
              /\ Len(Entries(s, bs, k)) \in Nat
              /\ Len(Entries(s, bs, k + 1)) = Len(Entries(s, bs, k)) + Len(Entry(s, bs[k + 1]))
              /\ Len(Entries(s, bs, k + 1)) <= Len(Entries(s, bs, n))
              /\ \A i \in 1 .. Len(Entry(s, bs[k + 1])) :
                   Entries(s, bs, n)[Len(Entries(s, bs, k)) + i] = Entry(s, bs[k + 1])[i]
<1> DEFINE E(k) == Entries(s, bs, k)
           e(k) == Entry(s, bs[k])
           Laid(m) == \A k \in 0 .. m - 1 :
                        /\ Len(E(k)) \in Nat
                        /\ Len(E(k + 1)) = Len(E(k)) + Len(e(k + 1))
                        /\ Len(E(k + 1)) <= Len(E(m))
                        /\ \A i \in 1 .. Len(e(k + 1)) : E(m)[Len(E(k)) + i] = e(k + 1)[i]
           T == {m \in 0 .. n : E(m) \in Seq(Byte) /\ Laid(m)}
<1>1. E(0) = <<>> /\ \A k \in Nat : E(k + 1) = E(k) \o e(k + 1)
  BY EntriesStep
<1>2. \A k \in 1 .. n : e(k) \in Seq(Byte) /\ Len(e(k)) \in Nat
  <2>1. \A k \in 1 .. n : bs[k] \in BlockOf(s)
    OBVIOUS
  <2> QED
    BY <2>1, BodyType
<1> HIDE DEF E, e
<1>3. 0 \in T
  <2>1. Laid(0)
    OBVIOUS
  <2>2. E(0) \in Seq(Byte)
    <3>1. <<>> \in Seq(Byte)
      OBVIOUS
    <3>2. E(0) = <<>>
      BY <1>1
    <3> QED
      BY <3>1, <3>2
  <2> HIDE DEF Laid
  <2> QED
    BY <2>1, <2>2
<1>4. ASSUME NEW m \in 0 .. n - 1, m \in T PROVE m + 1 \in T
  <2>1. m \in Nat /\ m + 1 \in 1 .. n /\ m + 1 \in 0 .. n
    OBVIOUS
  <2>2. E(m) \in Seq(Byte) /\ Len(E(m)) \in Nat /\ Laid(m)
    BY <1>4, LenProperties
  <2>3. e(m + 1) \in Seq(Byte) /\ Len(e(m + 1)) \in Nat /\ E(m + 1) = E(m) \o e(m + 1)
    BY <1>1, <1>2, <2>1
  <2>4. /\ E(m + 1) \in Seq(Byte) /\ Len(E(m + 1)) = Len(E(m)) + Len(e(m + 1))
        /\ \A i \in 1 .. Len(E(m)) + Len(e(m + 1)) :
             E(m + 1)[i] = IF i <= Len(E(m)) THEN E(m)[i] ELSE e(m + 1)[i - Len(E(m))]
    <3> DEFINE q == E(m) \o e(m + 1)
    <3>1. /\ q \in Seq(Byte) /\ Len(q) = Len(E(m)) + Len(e(m + 1))
          /\ \A i \in 1 .. Len(E(m)) + Len(e(m + 1)) :
               q[i] = IF i <= Len(E(m)) THEN E(m)[i] ELSE e(m + 1)[i - Len(E(m))]
      <4>1. E(m) \in Seq(Byte) /\ e(m + 1) \in Seq(Byte)
        BY <2>2, <2>3
      <4> QED
        BY <4>1, ConcatProperties
    <3>2. E(m + 1) = q
      BY <2>3
    <3> HIDE DEF q
    <3> QED
      BY <3>1, <3>2
  <2>5. Laid(m + 1)
    <3> SUFFICES ASSUME NEW k \in 0 .. m
                 PROVE  /\ Len(E(k)) \in Nat
                        /\ Len(E(k + 1)) = Len(E(k)) + Len(e(k + 1))
                        /\ Len(E(k + 1)) <= Len(E(m + 1))
                        /\ \A i \in 1 .. Len(e(k + 1)) :
                             E(m + 1)[Len(E(k)) + i] = e(k + 1)[i]
      OBVIOUS
    <3>1. CASE k = m
      <4>1. ASSUME NEW i \in 1 .. Len(e(m + 1)) PROVE E(m + 1)[Len(E(m)) + i] = e(m + 1)[i]
        <5>1. /\ Len(E(m)) + i \in 1 .. Len(E(m)) + Len(e(m + 1))
              /\ ~(Len(E(m)) + i <= Len(E(m))) /\ (Len(E(m)) + i) - Len(E(m)) = i
          BY <2>2, <2>3
        <5> QED
          BY <2>4, <5>1
      <4>2. Len(E(m + 1)) <= Len(E(m + 1))
        BY <2>2, <2>3, <2>4
      <4> QED
        BY <2>2, <2>4, <3>1, <4>1, <4>2
    <3>2. CASE k \in 0 .. m - 1
      <4>1. /\ Len(E(k)) \in Nat /\ Len(E(k + 1)) = Len(E(k)) + Len(e(k + 1))
            /\ Len(E(k + 1)) <= Len(E(m))
            /\ \A i \in 1 .. Len(e(k + 1)) : E(m)[Len(E(k)) + i] = e(k + 1)[i]
        BY <2>2, <3>2
      <4>2. Len(e(k + 1)) \in Nat
        BY <1>2, <3>2
      <4>3. Len(E(k + 1)) <= Len(E(m + 1))
        BY <2>2, <2>3, <2>4, <4>1, <4>2
      <4>4. ASSUME NEW i \in 1 .. Len(e(k + 1)) PROVE E(m + 1)[Len(E(k)) + i] = e(k + 1)[i]
        <5>1. /\ Len(E(k)) + i \in 1 .. Len(E(m)) + Len(e(m + 1))
              /\ Len(E(k)) + i <= Len(E(m))
          BY <2>2, <2>3, <4>1, <4>2
        <5> QED
          BY <2>4, <4>1, <5>1
      <4> QED
        BY <4>1, <4>3, <4>4
    <3> QED
      BY <2>1, <3>1, <3>2
  <2> HIDE DEF Laid
  <2> QED
    BY <2>1, <2>4, <2>5
<1>5. n \in T
  <2> HIDE DEF T
  <2>1. n \in Nat /\ 0 .. n \subseteq T
    BY <1>3, <1>4, UpTo
  <2> QED
    BY <2>1
<1>6. E(n) \in Seq(Byte) /\ Laid(n)
  <2> HIDE DEF Laid
  <2> QED
    BY <1>5
<1> QED
  BY <1>6, LenProperties DEF E, e

(* Where the parts of a packet lie, as it was written.                     *)
LEMMA WrittenLaid ==
  ASSUME NEW s \in StreamsSent, NEW b \in BlockOf(s), NEW bs \in Seq(BlockOf(s)),
         NEW n \in 0 .. Len(bs), n \in Byte, NEW relayed \in BOOLEAN
  PROVE  LET w == Written(s, b, bs, n, relayed)
         IN  /\ w \in Seq(Byte)
             /\ Len(w) = 4 + Len(Body(s, b)) + Len(Entries(s, bs, n))
             /\ w[1] = PKT_STREAM /\ w[2] % RELAYED = s.mode /\ w[3] = b.seq /\ w[4] = n
             /\ \A i \in 1 .. Len(Body(s, b)) : w[4 + i] = Body(s, b)[i]
             /\ \A i \in 1 .. Len(Entries(s, bs, n)) :
                  w[4 + Len(Body(s, b)) + i] = Entries(s, bs, n)[i]
<1> DEFINE mode == s.mode + IF relayed THEN RELAYED ELSE 0
           h == <<PKT_STREAM, mode, b.seq, n>>
           u == Body(s, b)
           v == Entries(s, bs, n)
           f == h \o u
           w == f \o v
<1>1. mode \in Byte /\ mode % RELAYED = s.mode
  <2>1. s.mode \in 0 .. 9
    BY PayloadType DEF MODE_COUNT
  <2>2. \A m \in 0 .. 9 : /\ m \in Byte /\ m + 128 \in Byte
                          /\ m % 128 = m /\ (m + 128) % 128 = m /\ m + 0 = m
    BY DEF Byte
  <2> QED
    BY <2>1, <2>2 DEF RELAYED
<1>2. u \in Seq(Byte) /\ v \in Seq(Byte) /\ b.seq \in Byte
  BY BodyType, EntriesLaid, PayloadType
<1> HIDE DEF mode, u, v
<1>3. /\ h \in Seq(Byte) /\ Len(h) = 4
      /\ h[1] = PKT_STREAM /\ h[2] = mode /\ h[3] = b.seq /\ h[4] = n
  <2>1. PKT_STREAM \in Byte
    BY DEF PKT_STREAM, Byte
  <2> QED
    BY <1>1, <1>2, <2>1
<1>4. Written(s, b, bs, n, relayed) = w
  BY DEF Written, mode, u, v
<1> HIDE DEF h
<1>5. Len(u) \in Nat /\ Len(v) \in Nat
  BY <1>2, LenProperties
<1>6. /\ f \in Seq(Byte) /\ Len(f) = Len(h) + Len(u)
      /\ \A i \in 1 .. Len(h) + Len(u) : f[i] = IF i <= Len(h) THEN h[i] ELSE u[i - Len(h)]
  BY <1>2, <1>3, ConcatProperties
<1> HIDE DEF f
<1>7. /\ w \in Seq(Byte) /\ Len(w) = Len(f) + Len(v)
      /\ \A i \in 1 .. Len(f) + Len(v) : w[i] = IF i <= Len(f) THEN f[i] ELSE v[i - Len(f)]
  <2>1. f \in Seq(Byte) /\ v \in Seq(Byte)
    BY <1>2, <1>6
  <2> QED
    BY <2>1, ConcatProperties
<1> HIDE DEF w
<1>8. ASSUME NEW i \in 1 .. 4 PROVE w[i] = h[i]
  <2>1. i \in 1 .. Len(f) + Len(v) /\ i <= Len(f) /\ i \in 1 .. Len(h) + Len(u) /\ i <= Len(h)
    BY <1>3, <1>5, <1>6
  <2> QED
    BY <1>6, <1>7, <2>1
<1>9. ASSUME NEW i \in 1 .. Len(u) PROVE w[4 + i] = u[i]
  <2>1. /\ 4 + i \in 1 .. Len(f) + Len(v) /\ 4 + i <= Len(f) /\ 4 + i \in 1 .. Len(h) + Len(u)
        /\ ~(4 + i <= Len(h)) /\ (4 + i) - Len(h) = i
    BY <1>3, <1>5, <1>6
  <2> QED
    BY <1>6, <1>7, <2>1
<1>10. ASSUME NEW i \in 1 .. Len(v) PROVE w[4 + Len(u) + i] = v[i]
  <2>1. /\ 4 + Len(u) + i \in 1 .. Len(f) + Len(v) /\ ~(4 + Len(u) + i <= Len(f))
        /\ (4 + Len(u) + i) - Len(f) = i
    BY <1>3, <1>5, <1>6
  <2> QED
    BY <1>7, <2>1
<1>11. Len(w) = 4 + Len(u) + Len(v)
  BY <1>3, <1>5, <1>6, <1>7
<1>12. w[1] = PKT_STREAM /\ w[2] % RELAYED = s.mode /\ w[3] = b.seq /\ w[4] = n
  BY <1>1, <1>3, <1>8
<1> QED
  BY <1>4, <1>7, <1>9, <1>10, <1>11, <1>12 DEF u, v

(***************************************************************************)
(* The invariant: the packet that arrives is the front of one that was     *)
(* written, of the newest block and copies of those before it.             *)
(***************************************************************************)
Sent(relayed) == Written(stream, blocks[1], Tail(blocks), air.copies, relayed)

OnAir ==
  blocks # <<>> /\ air # Silence =>
    /\ air.copies <= Len(blocks) - 1
    /\ \E relayed \in BOOLEAN :
         /\ Len(air.bytes) \in 1 .. Len(Sent(relayed))
         /\ \A i \in 1 .. Len(air.bytes) : air.bytes[i] = Sent(relayed)[i]

PacketInv ==
  /\ stream \in StreamsSent
  /\ coder \in [1 .. 2 -> CoderState]
  /\ blocks \in Seq(BlockOf(stream)) /\ Len(blocks) <= MaxPackets
  /\ seq \in Byte
  /\ air \in [bytes : Seq(Byte), copies : 0 .. MaxCopies]
  /\ OnAir

(* What a coder is left with after a block.                                *)
LEMMA TraceType ==
  ASSUME NEW s \in StreamsSent, NEW b \in BlockOf(s), ~IsOpus(s), NEW c \in Channels(s)
  PROVE  /\ Len(b.payload[c]) = s.frames /\ b.coder[c] \in Announced
         /\ \A k \in 1 .. s.frames : Trace(b, c)[k] \in CoderState
<1>1. s.frames \in Nat /\ b.payload[c] \in [1 .. s.frames -> Nibble]
  <2>1. c = 1 \/ (c = 2 /\ ~IsMono(s))
    BY DEF Channels
  <2> QED
    BY <2>1, PayloadType
<1>2. b.coder[c] \in Announced
  <2>1. c \in 1 .. 2
    BY DEF Channels
  <2>2. CoderState \subseteq Announced
    <3>1. Int16 \subseteq Int /\ 0 .. STEP_INDEX_MAX \subseteq Int
      BY DEF Int16, INT16_MIN, INT16_MAX, STEP_INDEX_MAX
    <3> QED
      BY <3>1 DEF CoderState, Announced
  <2> QED
    BY <2>1, <2>2, PayloadType
<1> QED
  BY <1>1, <1>2, StatesType DEF Trace

(* It holds at first.                                                      *)
LEMMA PacketInvInit == Init => PacketInv
<1> SUFFICES ASSUME Init PROVE PacketInv
  OBVIOUS
<1>1. stream \in StreamsSent /\ coder \in [1 .. 2 -> CoderState]
  BY PacketAssumption DEF Init
<1>2. blocks = <<>> /\ blocks \in Seq(BlockOf(stream)) /\ Len(blocks) <= MaxPackets
  BY PacketAssumption DEF Init
<1>3. seq \in Byte
  BY DEF Init, Byte
<1>4. air \in [bytes : Seq(Byte), copies : 0 .. MaxCopies]
  BY Limits DEF Init, Silence
<1> QED
  BY <1>1, <1>2, <1>3, <1>4 DEF PacketInv, OnAir

(* A packet is sent.                                                       *)
LEMMA PacketInvSend ==
  ASSUME PacketInv, NEW payload \in Payloads[stream], NEW copies \in 0 .. MaxCopies,
         NEW relayed \in BOOLEAN, Send(payload, copies, relayed)
  PROVE  PacketInv'
<1> DEFINE b == [seq |-> seq, payload |-> payload, coder |-> coder]
           q == <<b>> \o blocks
<1>1. /\ stream \in StreamsSent /\ coder \in [1 .. 2 -> CoderState]
      /\ blocks \in Seq(BlockOf(stream)) /\ seq \in Byte
  BY DEF PacketInv
<1>2. b \in BlockOf(stream)
  BY <1>1 DEF BlockOf
<1>3. /\ stream' = stream /\ blocks' = q /\ seq' = (seq + 1) % 256
      /\ copies <= Len(blocks) /\ Len(blocks) < MaxPackets
      /\ air' = [bytes |-> Written(stream, b, blocks, copies, relayed), copies |-> copies]
      /\ coder' = IF IsOpus(stream) THEN coder
                  ELSE [c \in 1 .. 2 |-> IF c \in Channels(stream) THEN Trace(b, c)[stream.frames]
                                         ELSE coder[c]]
  BY DEF Send
<1> HIDE DEF b
<1>4. coder' \in [1 .. 2 -> CoderState]
  <2>1. CASE IsOpus(stream)
    BY <1>1, <1>3, <2>1
  <2>2. CASE ~IsOpus(stream)
    <3>1. stream.frames \in 1 .. stream.frames
      BY <1>1, <1>2, PayloadType
    <3>2. \A c \in Channels(stream) : Trace(b, c)[stream.frames] \in CoderState
      BY <1>1, <1>2, <2>2, <3>1, TraceType
    <3> QED
      BY <1>1, <1>3, <2>2, <3>2
  <2> QED
    BY <2>1, <2>2
<1>5. /\ q \in Seq(BlockOf(stream)) /\ Len(q) = 1 + Len(blocks) /\ q # <<>>
      /\ q[1] = b /\ Tail(q) = blocks
  <2>1. <<b>> \in Seq(BlockOf(stream)) /\ Len(<<b>>) = 1 /\ <<b>>[1] = b
    BY <1>2
  <2>2. Len(blocks) \in Nat
    BY <1>1, LenProperties
  <2>3. /\ q \in Seq(BlockOf(stream)) /\ Len(q) = 1 + Len(blocks)
        /\ \A i \in 1 .. 1 + Len(blocks) : q[i] = IF i <= 1 THEN <<b>>[i] ELSE blocks[i - 1]
    BY <1>1, <2>1, ConcatProperties
  <2> HIDE DEF q
  <2>4. q # <<>> /\ q[1] = b
    <3>1. 1 \in 1 .. 1 + Len(blocks) /\ 1 <= 1
      BY <2>2
    <3>2. q # <<>>
      BY <2>2, <2>3
    <3> QED
      BY <2>1, <2>3, <3>1, <3>2
  <2>5. Tail(q) = blocks
    <3> DEFINE t == Tail(q)
    <3>4. q \in Seq(BlockOf(stream)) /\ q # <<>>
      BY <2>3, <2>4
    <3>5. /\ t \in Seq(BlockOf(stream)) /\ Len(t) = Len(q) - 1
          /\ \A i \in 1 .. Len(t) : t[i] = q[i + 1]
      BY <3>4, HeadTailProperties
    <3> HIDE DEF t
    <3>6. Len(t) = Len(blocks) /\ t = [i \in 1 .. Len(t) |-> t[i]]
      BY <2>2, <2>3, <3>5
    <3>1. t = [i \in 1 .. Len(blocks) |-> q[i + 1]]
      BY <3>5, <3>6
    <3>2. ASSUME NEW i \in 1 .. Len(blocks) PROVE q[i + 1] = blocks[i]
      <4>1. i + 1 \in 1 .. 1 + Len(blocks) /\ ~(i + 1 <= 1) /\ (i + 1) - 1 = i
        BY <2>2
      <4> QED
        BY <2>3, <4>1
    <3>3. blocks = [i \in 1 .. Len(blocks) |-> blocks[i]]
      BY <1>1
    <3> QED
      BY <3>1, <3>2, <3>3 DEF t
  <2> QED
    BY <2>3, <2>4, <2>5
<1> HIDE DEF q
<1>6. blocks' \in Seq(BlockOf(stream')) /\ Len(blocks') <= MaxPackets
  <2>1. Len(blocks) \in Nat /\ MaxPackets \in Nat
    BY <1>1, LenProperties, PacketAssumption
  <2> QED
    BY <1>3, <1>5, <2>1
<1>7. seq' \in Byte
  BY <1>1, <1>3 DEF Byte
<1> DEFINE w == Written(stream, b, blocks, copies, relayed)
<1>8. w \in Seq(Byte) /\ Len(w) \in 1 .. Len(w)
  <2>1. copies \in 0 .. Len(blocks) /\ copies \in Byte /\ Len(blocks) \in Nat
    <3>1. Len(blocks) \in Nat /\ copies \in Nat /\ copies <= MaxCopies /\ MaxCopies \in Byte
      BY <1>1, LenProperties, PacketAssumption, Limits
    <3> QED
      BY <1>3, <3>1 DEF Byte
  <2>2. /\ w \in Seq(Byte)
        /\ Len(w) = 4 + Len(Body(stream, b)) + Len(Entries(stream, blocks, copies))
    BY <1>1, <1>2, <2>1, WrittenLaid
  <2>3. Len(Body(stream, b)) \in Nat /\ Len(Entries(stream, blocks, copies)) \in Nat
    BY <1>1, <1>2, <2>1, BodyType, EntriesLaid
  <2> HIDE DEF w
  <2> QED
    BY <2>2, <2>3
<1>9. air' \in [bytes : Seq(Byte), copies : 0 .. MaxCopies]
  BY <1>3, <1>8
<1>10. OnAir'
  <2>1. Sent(relayed)' = w
    BY <1>3, <1>5 DEF Sent
  <2>2. air'.bytes = w /\ air'.copies = copies
    BY <1>3
  <2>3. air'.copies <= Len(blocks') - 1
    <3>1. Len(blocks) \in Nat
      BY <1>1, LenProperties
    <3> QED
      BY <1>3, <1>5, <2>2, <3>1
  <2> HIDE DEF w
  <2>4. /\ Len(air'.bytes) \in 1 .. Len(Sent(relayed)')
        /\ \A i \in 1 .. Len(air'.bytes) : air'.bytes[i] = Sent(relayed)'[i]
    BY <1>8, <2>1, <2>2
  <2> QED
    BY <2>3, <2>4 DEF OnAir
<1> QED
  BY <1>1, <1>3, <1>4, <1>6, <1>7, <1>9, <1>10 DEF PacketInv

(* And every step keeps it.                                                *)
LEMMA PacketInvNext == PacketInv /\ [Next]_vars => PacketInv'
<1> SUFFICES ASSUME PacketInv, [Next]_vars PROVE PacketInv'
  OBVIOUS
<1>1. ASSUME NEW payload \in Payloads[stream], NEW copies \in 0 .. MaxCopies,
             NEW relayed \in BOOLEAN, Send(payload, copies, relayed)
      PROVE  PacketInv'
  BY <1>1, PacketInvSend
<1>2. CASE Shorten
  <2>1. UNCHANGED <<stream, coder, blocks, seq>>
    BY <1>2 DEF Shorten
  <2> DEFINE p == air.bytes
             q == SubSeq(p, 1, Len(p) - 1)
  <2>2. /\ p \in Seq(Byte) /\ Len(p) > 1 /\ blocks # <<>>
        /\ air \in [bytes : Seq(Byte), copies : 0 .. MaxCopies]
        /\ air' = [air EXCEPT !.bytes = q]
    BY <1>2 DEF Shorten, PacketInv
  <2>3. air'.bytes = q /\ air'.copies = air.copies /\ air # Silence
    <3>1. Len(Silence.bytes) = 0
      BY DEF Silence
    <3> QED
      BY <2>2, <3>1
  <2> HIDE DEF p
  <2>4. /\ q \in Seq(Byte) /\ Len(q) = Len(p) - 1 /\ Len(p) \in Nat
        /\ \A i \in 1 .. Len(p) - 1 : q[i] = p[i]
    <3>1. Len(p) \in Nat
      BY <2>2, LenProperties
    <3> QED
      BY <2>2, <3>1
  <2> HIDE DEF q
  <2>5. air' \in [bytes : Seq(Byte), copies : 0 .. MaxCopies]
    BY <2>2, <2>4
  <2>6. PICK relayed \in BOOLEAN : /\ Len(p) \in 1 .. Len(Sent(relayed))
                                   /\ \A i \in 1 .. Len(p) : p[i] = Sent(relayed)[i]
    BY <2>2, <2>3 DEF PacketInv, OnAir, p
  <2>7. air.copies <= Len(blocks) - 1
    BY <2>2, <2>3 DEF PacketInv, OnAir
  <2>8. Sent(relayed)' = Sent(relayed)
    BY <2>1, <2>3 DEF Sent
  <2> DEFINE w == Sent(relayed)
  <2>9. Len(q) \in 1 .. Len(w) /\ \A i \in 1 .. Len(q) : q[i] = w[i]
    <3> HIDE DEF w
    <3>1. Len(p) \in 1 .. Len(w) /\ \A i \in 1 .. Len(p) : p[i] = w[i]
      BY <2>6 DEF w
    <3>2. \A i \in 1 .. Len(q) : i \in 1 .. Len(p) - 1 /\ i \in 1 .. Len(p)
      BY <2>4
    <3>3. Len(q) \in 1 .. Len(w)
      BY <2>2, <2>4, <3>1
    <3> QED
      BY <2>4, <3>1, <3>2, <3>3
  <2>10. OnAir'
    <3>1. /\ Len(air'.bytes) \in 1 .. Len(Sent(relayed)')
          /\ \A i \in 1 .. Len(air'.bytes) : air'.bytes[i] = Sent(relayed)'[i]
      <4> HIDE DEF w
      <4> QED
        BY <2>3, <2>8, <2>9 DEF w
    <3>2. air'.copies <= Len(blocks') - 1
      BY <2>1, <2>3, <2>7
    <3> QED
      BY <3>1, <3>2 DEF OnAir
  <2> QED
    BY <2>1, <2>5, <2>10 DEF PacketInv
<1>3. CASE Pass
  BY <1>3, Limits DEF Pass, PacketInv, OnAir, Silence
<1>4. ASSUME NEW bytes \in Foreign, Stray(bytes) PROVE PacketInv'
  <2>1. /\ UNCHANGED <<stream, coder, blocks, seq>> /\ blocks = <<>>
        /\ air' = [bytes |-> bytes, copies |-> 0]
    BY <1>4 DEF Stray
  <2>2. bytes \in Seq(Byte) /\ 0 \in 0 .. MaxCopies
    BY PacketAssumption, Limits
  <2>3. OnAir'
    BY <2>1 DEF OnAir
  <2> QED
    BY <2>1, <2>2, <2>3 DEF PacketInv
<1>5. CASE UNCHANGED vars
  <2>1. UNCHANGED <<stream, coder, blocks, seq, air>>
    BY <1>5 DEF vars
  <2>2. \A relayed : Sent(relayed)' = Sent(relayed)
    BY <2>1 DEF Sent
  <2>3. OnAir' = OnAir
    BY <2>1, <2>2 DEF OnAir
  <2> QED
    BY <2>1, <2>3 DEF PacketInv
<1> QED
  BY <1>1, <1>2, <1>3, <1>4, <1>5 DEF Next

(* The stream, the coder's states, the blocks and the packet are what they *)
(* are declared to be.                                                     *)
THEOREM TypeCorrect == Spec => []TypeOK
<1>1. PacketInv => TypeOK
  <2> SUFFICES ASSUME PacketInv PROVE TypeOK
    OBVIOUS
  <2>1. \A i \in 1 .. Len(blocks) : blocks[i].seq \in Byte
    <3>1. \A i \in 1 .. Len(blocks) : blocks[i] \in BlockOf(stream)
      BY DEF PacketInv
    <3> QED
      BY <3>1 DEF BlockOf
  <2> QED
    BY <2>1 DEF PacketInv, TypeOK
<1> QED
  BY <1>1, PacketInvInit, PacketInvNext, PTL DEF Spec

(* Whatever a packet says of itself, what is made of it does not depend on *)
(* what lies beyond its last byte, nor beyond the step table.              *)
THEOREM ReadsWithinPacket == Spec => []WithinPacket
<1>1. PacketInv => WithinPacket
  <2> SUFFICES ASSUME PacketInv PROVE WithinPacket
    OBVIOUS
  <2>1. air.bytes \in Seq(Byte) /\ 255 \in Byte /\ 0 \in Byte
    BY DEF PacketInv, Byte
  <2> QED
    BY <2>1, ReadWithin DEF WithinPacket, Fed
<1> QED
  BY <1>1, PacketInvInit, PacketInvNext, PTL DEF Spec

(***************************************************************************)
(* What the receiver makes of the front of such a packet.                  *)
(***************************************************************************)
(* Where a packet's k-th copy ends, and its body for k = 0.                *)
End(s, b, bs, k) == 4 + Len(Body(s, b)) + Len(Entries(s, bs, k))

(* The front of a packet, part by part.                                    *)
FrontOf(p, s, b, bs, n) ==
  /\ p \in Seq(Byte) /\ Len(p) <= End(s, b, bs, n)
  /\ 1 <= Len(p) => p[1] = PKT_STREAM
  /\ 2 <= Len(p) => p[2] % RELAYED = s.mode
  /\ 4 <= Len(p) => p[4] = n
  /\ \A i \in 1 .. Len(Body(s, b)) : 4 + i <= Len(p) => p[4 + i] = Body(s, b)[i]
  /\ \A k \in 1 .. n : \A i \in 1 .. Len(Entry(s, bs[k])) :
       End(s, b, bs, k - 1) + i <= Len(p) => p[End(s, b, bs, k - 1) + i] = Entry(s, bs[k])[i]

(* Copies follow each other without a gap.                                 *)
LEMMA Ends ==
  ASSUME NEW s \in StreamsSent, NEW b \in BlockOf(s), NEW bs \in Seq(BlockOf(s)),
         NEW n \in 0 .. Len(bs)
  PROVE  /\ End(s, b, bs, 0) = 4 + Len(Body(s, b))
         /\ \A k \in 0 .. n : End(s, b, bs, k) \in Nat /\ End(s, b, bs, k) <= End(s, b, bs, n)
         /\ \A k \in 1 .. n : /\ Len(Entry(s, bs[k])) \in Nat /\ bs[k] \in BlockOf(s)
                              /\ End(s, b, bs, k) = End(s, b, bs, k - 1) + Len(Entry(s, bs[k]))
<1> DEFINE E(k) == Len(Entries(s, bs, k))
           e(k) == Len(Entry(s, bs[k]))
           u == Len(Body(s, b))
           F(k) == End(s, b, bs, k)
<1>1. E(0) = 0
  <2>1. Entries(s, bs, 0) = <<>> /\ Len(<<>>) = 0
    BY EntriesStep
  <2> QED
    BY <2>1
<1>2. u \in Nat
  BY BodyType
<1>3. \A k \in 1 .. n : bs[k] \in BlockOf(s) /\ e(k) \in Nat
  <2>1. \A k \in 1 .. n : bs[k] \in BlockOf(s)
    OBVIOUS
  <2> QED
    BY <2>1, BodyType
<1>4. E(n) \in Nat /\ \A k \in 0 .. n - 1 : /\ E(k) \in Nat /\ E(k + 1) = E(k) + e(k + 1)
                                            /\ E(k + 1) <= E(n)
  BY EntriesLaid
<1>5. \A k : F(k) = 4 + u + E(k)
  BY DEF End
<1> HIDE DEF E, e, u, F
<1>6. \A k \in 0 .. n : E(k) \in Nat /\ E(k) <= E(n)
  <2> SUFFICES ASSUME NEW k \in 0 .. n PROVE E(k) \in Nat /\ E(k) <= E(n)
    OBVIOUS
  <2>1. CASE k = n
    BY <1>4, <2>1
  <2>2. CASE k # n
    <3>1. k \in 0 .. n - 1 /\ k + 1 \in 1 .. n
      BY <2>2
    <3>2. E(k) \in Nat /\ E(k + 1) = E(k) + e(k + 1) /\ E(k + 1) <= E(n) /\ e(k + 1) \in Nat
      BY <1>3, <1>4, <3>1
    <3> QED
      BY <1>4, <3>2
  <2> QED
    BY <2>1, <2>2
<1>7. \A k \in 1 .. n : F(k) = F(k - 1) + e(k)
  <2> SUFFICES ASSUME NEW k \in 1 .. n PROVE F(k) = F(k - 1) + e(k)
    OBVIOUS
  <2>1. k - 1 \in 0 .. n - 1 /\ (k - 1) + 1 = k
    OBVIOUS
  <2>2. E(k) = E(k - 1) + e(k) /\ E(k - 1) \in Nat /\ e(k) \in Nat
    BY <1>3, <1>4, <2>1
  <2> QED
    BY <1>2, <1>5, <2>2
<1>8. \A k \in 0 .. n : F(k) \in Nat /\ F(k) <= F(n)
  BY <1>2, <1>4, <1>5, <1>6
<1>9. F(0) = 4 + u
  BY <1>1, <1>2, <1>5
<1> QED
  BY <1>3, <1>7, <1>8, <1>9 DEF F, e, u

(* The invariant's packets are such fronts.                                *)
LEMMA FrontLaid ==
  ASSUME NEW s \in StreamsSent, NEW b \in BlockOf(s), NEW bs \in Seq(BlockOf(s)),
         NEW n \in 0 .. Len(bs), n \in Byte, NEW relayed \in BOOLEAN, NEW p \in Seq(Byte),
         Len(p) \in 1 .. Len(Written(s, b, bs, n, relayed)),
         \A i \in 1 .. Len(p) : p[i] = Written(s, b, bs, n, relayed)[i]
  PROVE  FrontOf(p, s, b, bs, n)
<1> DEFINE w == Written(s, b, bs, n, relayed)
           u == Len(Body(s, b))
           E(k) == Len(Entries(s, bs, k))
           e(k) == Len(Entry(s, bs[k]))
<1>1. /\ Len(w) = 4 + u + E(n)
      /\ w[1] = PKT_STREAM /\ w[2] % RELAYED = s.mode /\ w[4] = n
      /\ \A i \in 1 .. u : w[4 + i] = Body(s, b)[i]
      /\ \A i \in 1 .. E(n) : w[4 + u + i] = Entries(s, bs, n)[i]
  BY WrittenLaid
<1>2. Len(p) <= Len(w) /\ Len(p) \in Nat /\ \A i \in 1 .. Len(p) : p[i] = w[i]
  BY LenProperties
<1>3. u \in Nat
  BY BodyType
<1>4. E(n) \in Nat /\ \A k \in 0 .. n - 1 : /\ E(k) \in Nat /\ E(k + 1) = E(k) + e(k + 1)
                                            /\ E(k + 1) <= E(n)
                                            /\ \A i \in 1 .. e(k + 1) :
                                                 Entries(s, bs, n)[E(k) + i]
                                                   = Entry(s, bs[k + 1])[i]
  BY EntriesLaid
<1>5. \A k : End(s, b, bs, k) = 4 + u + E(k)
  BY DEF End
<1>6. \A k \in 1 .. n : e(k) \in Nat
  BY Ends
<1> HIDE DEF w, u, E, e
<1>7. /\ 1 <= Len(p) => p[1] = PKT_STREAM
      /\ 2 <= Len(p) => p[2] % RELAYED = s.mode
      /\ 4 <= Len(p) => p[4] = n
  <2>1. /\ 1 <= Len(p) => p[1] = w[1]
        /\ 2 <= Len(p) => p[2] = w[2]
        /\ 4 <= Len(p) => p[4] = w[4]
    BY <1>2
  <2> QED
    BY <1>1, <2>1
<1>8. ASSUME NEW i \in 1 .. u, 4 + i <= Len(p) PROVE p[4 + i] = Body(s, b)[i]
  <2>1. 4 + i \in 1 .. Len(p)
    BY <1>2, <1>3, <1>8
  <2> QED
    BY <1>1, <1>2, <2>1
<1>9. ASSUME NEW k \in 1 .. n, NEW i \in 1 .. e(k), End(s, b, bs, k - 1) + i <= Len(p)
      PROVE  p[End(s, b, bs, k - 1) + i] = Entry(s, bs[k])[i]
  <2>1. k - 1 \in 0 .. n - 1 /\ (k - 1) + 1 = k
    OBVIOUS
  <2>2. /\ E(k - 1) \in Nat /\ E(k) = E(k - 1) + e(k) /\ E(k) <= E(n)
        /\ Entries(s, bs, n)[E(k - 1) + i] = Entry(s, bs[k])[i]
    BY <1>4, <2>1
  <2>3. e(k) \in Nat
    BY <1>6
  <2>4. End(s, b, bs, k - 1) + i = 4 + u + (E(k - 1) + i) /\ E(k - 1) + i \in 1 .. E(n)
    <3> DEFINE c == E(k - 1)
               d == e(k)
               f == End(s, b, bs, k - 1)
    <3>1. f = 4 + u + c /\ c \in Nat /\ d \in Nat /\ c + d <= E(n) /\ i \in 1 .. d
      BY <1>5, <2>2, <2>3
    <3> HIDE DEF c, d, f
    <3>2. f + i = 4 + u + (c + i) /\ c + i \in 1 .. E(n)
      BY <1>3, <1>4, <3>1
    <3> QED
      BY <3>2 DEF c, f
  <2>5. 4 + u + (E(k - 1) + i) \in 1 .. Len(p)
    BY <1>2, <1>3, <1>9, <2>4
  <2> QED
    BY <1>1, <1>2, <2>2, <2>4, <2>5
<1>10. Len(p) <= End(s, b, bs, n)
  BY <1>1, <1>2, <1>5
<1> QED
  BY <1>7, <1>8, <1>9, <1>10 DEF FrontOf, u, e

(* The copies that a front holds in whole, and of those the ones that are  *)
(* taken.                                                                  *)
Depth(s) == IF IsOpus(s) \/ IsMono(s) THEN MAX_PIGGYBACK ELSE 1
Whole(p, s, b, bs, n) == {k \in 1 .. n : k <= Depth(s) /\ Len(p) >= End(s, b, bs, k)}

(* They are the first ones.                                                *)
LEMMA WholeFirst ==
  ASSUME NEW s \in StreamsSent, NEW b \in BlockOf(s), NEW bs \in Seq(BlockOf(s)),
         NEW n \in 0 .. Len(bs), NEW p \in Seq(Byte)
  PROVE  /\ \A k \in 1 .. Cardinality(Whole(p, s, b, bs, n)) : k \in Whole(p, s, b, bs, n)
         /\ \A k \in Whole(p, s, b, bs, n) : \A j \in 1 .. k : j \in Whole(p, s, b, bs, n)
         /\ Cardinality(Whole(p, s, b, bs, n)) \in Nat
<1> DEFINE U == Whole(p, s, b, bs, n)
<1>1. n \in Nat /\ Depth(s) \in Nat /\ Len(p) \in Nat
  BY Limits, LenProperties DEF Depth
<1>2. ASSUME NEW k \in U, NEW j \in 1 .. k PROVE j \in U
  <2>1. k \in 1 .. n /\ k <= Depth(s) /\ Len(p) >= End(s, b, bs, k)
    BY DEF Whole
  <2>2. k \in 0 .. Len(bs) /\ j \in 0 .. k /\ k \in 0 .. k
    BY <2>1
  <2>3. End(s, b, bs, j) \in Nat /\ End(s, b, bs, k) \in Nat /\ End(s, b, bs, j) <= End(s, b, bs, k)
    BY <2>2, Ends
  <2>4. j \in 1 .. n /\ j <= Depth(s)
    BY <1>1, <2>1
  <2>5. Len(p) >= End(s, b, bs, j)
    BY <1>1, <2>1, <2>3
  <2> QED
    BY <2>4, <2>5 DEF Whole
<1>3. U \in SUBSET (1 .. n)
  BY DEF Whole
<1> HIDE DEF U
<1>4. \A k \in 1 .. Cardinality(U) : k \in U
  BY <1>1, <1>2, <1>3, NoGaps
<1>5. Cardinality(U) \in Nat
  <2>1. IsFiniteSet(1 .. n)
    BY <1>1, FS_Interval
  <2>2. IsFiniteSet(U)
    BY <1>3, <2>1, FS_Subset
  <2> QED
    BY <2>2, FS_CardinalityType
<1> QED
  BY <1>2, <1>4, <1>5 DEF U

(* The fixed part of a front.                                              *)
LEMMA FrontHeader ==
  ASSUME NEW s \in StreamsSent, NEW b \in BlockOf(s), NEW bs \in Seq(BlockOf(s)),
         NEW n \in 0 .. Len(bs), NEW p, FrontOf(p, s, b, bs, n), Len(p) >= 5
  PROVE  /\ p \in Seq(Byte) /\ Len(p) \in Nat
         /\ At(p, 0, 0) = PKT_STREAM /\ At(p, 1, 0) % RELAYED = s.mode /\ At(p, 3, 0) = n
         /\ At(p, 4, 0) = IF IsOpus(s) THEN Len(b.payload) ELSE s.frames
         /\ Claimed(p, 0) = IF n < MAX_PIGGYBACK THEN n ELSE MAX_PIGGYBACK
<1>1. p \in Seq(Byte) /\ Len(p) \in Nat
  BY LenProperties DEF FrontOf
<1>2. At(p, 0, 0) = p[1] /\ At(p, 1, 0) = p[2] /\ At(p, 3, 0) = p[4] /\ At(p, 4, 0) = p[5]
  BY <1>1, HeaderInside
<1>3. p[1] = PKT_STREAM /\ p[2] % RELAYED = s.mode /\ p[4] = n
  BY <1>1 DEF FrontOf
<1>4. Len(Body(s, b)) >= 1 /\ Len(Body(s, b)) \in Nat
      /\ Body(s, b)[1] = IF IsOpus(s) THEN Len(b.payload) ELSE s.frames
  <2>1. s.frames \in Nat /\ s.frames \in Byte
    BY PayloadType
  <2>2. CASE IsOpus(s)
    <3>1. Len(b.payload) \in Nat
      BY <2>2, PayloadType
    <3> QED
      BY <2>2, <3>1, CodedOpus, BodyType
  <2>3. CASE ~IsOpus(s) /\ IsMono(s)
    BY <2>1, <2>3, CodedMono, BodyType
  <2>4. CASE ~IsOpus(s) /\ ~IsMono(s)
    BY <2>1, <2>4, CodedStereo, BodyType
  <2> QED
    BY <2>2, <2>3, <2>4
<1>5. p[5] = Body(s, b)[1]
  <2>1. \A i \in 1 .. Len(Body(s, b)) : 4 + i <= Len(p) => p[4 + i] = Body(s, b)[i]
    BY DEF FrontOf
  <2>2. 1 \in 1 .. Len(Body(s, b)) /\ 4 + 1 <= Len(p) /\ 4 + 1 = 5
    BY <1>1, <1>4
  <2> QED
    BY <2>1, <2>2
<1> QED
  BY <1>1, <1>2, <1>3, <1>4, <1>5 DEF Claimed

(* What a block is played as.                                              *)
FrameOf(s, b) == IF IsOpus(s) THEN b.payload ELSE IF IsMono(s) THEN MonoOf(s, b) ELSE StereoOf(s, b)

(* What is made of a front: the body and the first copies, if whole.       *)
Made(p, s, b, bs, n) ==
  [own |-> IF Len(p) >= End(s, b, bs, 0) THEN <<FrameOf(s, b)>> ELSE <<>>,
   copies |-> [k \in 1 .. Cardinality(Whole(p, s, b, bs, n)) |->
                 [seq |-> bs[k].seq, frame |-> FrameOf(s, bs[k])]]]

(* A front cut within its body gives nothing.                              *)
LEMMA CutInBody ==
  ASSUME NEW s \in StreamsSent, NEW b \in BlockOf(s), NEW bs \in Seq(BlockOf(s)),
         NEW n \in 0 .. Len(bs), NEW p \in Seq(Byte), ~(Len(p) >= End(s, b, bs, 0))
  PROVE  Made(p, s, b, bs, n) = Nothing
<1> DEFINE U == Whole(p, s, b, bs, n)
<1>1. U = {}
  <2> SUFFICES ASSUME NEW k \in U PROVE FALSE
    OBVIOUS
  <2>1. k \in 1 .. n /\ Len(p) >= End(s, b, bs, k)
    BY DEF Whole
  <2>2. k \in 0 .. Len(bs) /\ 0 \in 0 .. k
    BY <2>1
  <2>3. /\ End(s, b, bs, 0) \in Nat /\ End(s, b, bs, k) \in Nat
        /\ End(s, b, bs, 0) <= End(s, b, bs, k)
    BY <2>2, Ends
  <2> QED
    BY <2>1, <2>3, LenProperties
<1>2. Cardinality(U) = 0
  BY <1>1, FS_EmptySet
<1> HIDE DEF U
<1>3. \A f : [k \in 1 .. 0 |-> f[k]] = <<>>
  OBVIOUS
<1>4. [k \in 1 .. Cardinality(U) |-> [seq |-> bs[k].seq, frame |-> FrameOf(s, bs[k])]] = <<>>
  BY <1>2
<1> QED
  BY <1>4 DEF Made, Nothing, U

(* An entry of a front is read where the one before it ends.               *)
LEMMA EntryRead ==
  ASSUME NEW s \in StreamsSent, NEW b \in BlockOf(s), NEW bs \in Seq(BlockOf(s)),
         NEW n \in 0 .. Len(bs), NEW p, FrontOf(p, s, b, bs, n), NEW k \in 1 .. n
  PROVE  /\ End(s, b, bs, k - 1) \in Nat /\ End(s, b, bs, k) \in Nat
         /\ End(s, b, bs, k) = End(s, b, bs, k - 1) + Len(Entry(s, bs[k]))
         /\ bs[k] \in BlockOf(s) /\ Len(Entry(s, bs[k])) \in Nat /\ p \in Seq(Byte)
         /\ Len(p) \in Nat
         /\ \A i \in 1 .. Len(Entry(s, bs[k])) :
              End(s, b, bs, k - 1) + i <= Len(p) =>
                p[End(s, b, bs, k - 1) + i] = Entry(s, bs[k])[i]
<1>1. k - 1 \in 0 .. n /\ k \in 0 .. n
  OBVIOUS
<1>2. p \in Seq(Byte) /\ Len(p) \in Nat
  BY LenProperties DEF FrontOf
<1> QED
  BY <1>1, <1>2, Ends DEF FrontOf

(* A mono packet.                                                          *)
LEMMA MonoMade ==
  ASSUME NEW s \in StreamsSent, ~IsOpus(s), IsMono(s),
         NEW b \in BlockOf(s), NEW bs \in Seq(BlockOf(s)), NEW n \in 0 .. Len(bs),
         NEW p, FrontOf(p, s, b, bs, n), Len(p) >= 5
  PROVE  ParseMono(p, 0) = Made(p, s, b, bs, n)
<1> DEFINE m == s.frames
           size == (m + 1) \div 2
           at(k) == 8 + size + (k - 1) * (4 + size)
           F(k) == End(s, b, bs, k)
           U == Whole(p, s, b, bs, n)
           code == {k \in 1 .. Claimed(p, 0) : Fits(p, at(k + 1))}
<1>1. /\ p \in Seq(Byte) /\ Len(p) \in Nat /\ At(p, 4, 0) = m
      /\ Claimed(p, 0) = IF n < MAX_PIGGYBACK THEN n ELSE MAX_PIGGYBACK
  BY FrontHeader
<1>2. m \in Nat /\ m \in Byte /\ m \in 1 .. MAX_FRAMES
  BY PayloadType
<1>3. size = MonoSize(s) /\ size \in Nat
  BY <1>2 DEF MonoSize
<1>4. F(0) = 8 + size
  <2>1. Body(s, b) = Coded(s, b, m)
    BY BodyType
  <2>2. Len(Body(s, b)) = 4 + size
    BY <1>2, <1>3, <2>1, CodedMono
  <2>3. F(0) = 4 + Len(Body(s, b))
    BY Ends
  <2> HIDE DEF size, F
  <2> QED
    BY <1>3, <2>2, <2>3
<1>5. \A k \in 1 .. n : /\ bs[k] \in BlockOf(s) /\ bs[k].seq \in Byte
                        /\ Entry(s, bs[k]) = Coded(s, bs[k], bs[k].seq)
                        /\ Len(Entry(s, bs[k])) = 4 + size
  <2> SUFFICES ASSUME NEW k \in 1 .. n
               PROVE  /\ bs[k] \in BlockOf(s) /\ bs[k].seq \in Byte
                      /\ Entry(s, bs[k]) = Coded(s, bs[k], bs[k].seq)
                      /\ Len(Entry(s, bs[k])) = 4 + size
    OBVIOUS
  <2>1. bs[k] \in BlockOf(s)
    OBVIOUS
  <2>2. bs[k].seq \in Byte /\ Entry(s, bs[k]) = Coded(s, bs[k], bs[k].seq)
    BY <2>1, BodyType, PayloadType
  <2>3. Len(Coded(s, bs[k], bs[k].seq)) = 4 + MonoSize(s)
    BY <2>1, <2>2, CodedMono
  <2> QED
    BY <1>3, <2>1, <2>2, <2>3
<1>6. \A k \in 0 .. n : F(k) = at(k + 1)
  <2> DEFINE T == {k \in 0 .. n : F(k) = 8 + size + k * (4 + size)}
             c == 4 + size
  <2>1. c \in Nat
    BY <1>3
  <2>2. 0 \in T
    <3>1. 0 * (4 + size) = 0
      BY <1>3
    <3> HIDE DEF size, F
    <3> QED
      BY <1>3, <1>4, <3>1
  <2>3. ASSUME NEW k \in 0 .. n - 1, k \in T PROVE k + 1 \in T
    <3>1. k + 1 \in 1 .. n /\ (k + 1) - 1 = k /\ k \in Nat /\ k + 1 \in 0 .. n
      OBVIOUS
    <3>2. F(k + 1) = F(k) + c
      <4>1. F(k + 1) = F((k + 1) - 1) + Len(Entry(s, bs[k + 1]))
        BY <3>1, EntryRead
      <4>2. Len(Entry(s, bs[k + 1])) = c
        BY <1>5, <3>1
      <4> HIDE DEF F, c
      <4> QED
        BY <3>1, <4>1, <4>2
    <3>3. F(k) = 8 + size + k * c
      BY <2>3
    <3> HIDE DEF F, c
    <3>4. (k + 1) * c = k * c + c /\ k * c \in Nat
      BY <2>1, <3>1
    <3> HIDE DEF size
    <3>5. F(k + 1) = 8 + size + (k + 1) * c
      <4> DEFINE x == k * c
                 y == (k + 1) * c
                 f == F(k)
                 g == F(k + 1)
      <4>1. x \in Nat /\ y = x + c /\ f = 8 + size + x /\ g = f + c
        BY <3>2, <3>3, <3>4
      <4> HIDE DEF x, y, f, g
      <4>3. \A i, j, l \in Nat : (8 + i + j) + l = 8 + i + (j + l)
        OBVIOUS
      <4>4. size \in Nat /\ x \in Nat /\ c \in Nat
        BY <1>3, <2>1, <4>1
      <4>2. g = 8 + size + y
        BY <4>1, <4>3, <4>4
      <4> QED
        BY <4>2 DEF g, y
    <3> QED
      BY <3>1, <3>5 DEF c
  <2>4. 0 .. n \subseteq T
    <3> HIDE DEF T
    <3>1. n \in Nat
      OBVIOUS
    <3> QED
      BY <2>2, <2>3, <3>1, UpTo
  <2>5. \A k \in 0 .. n : (k + 1) - 1 = k
    OBVIOUS
  <2> HIDE DEF F, size
  <2> QED
    BY <2>4, <2>5
<1>7. code = U
  <2>1. \A k : k \in 1 .. Claimed(p, 0) <=> k \in 1 .. n /\ k <= Depth(s)
    <3>1. Depth(s) = MAX_PIGGYBACK
      BY DEF Depth
    <3> QED
      BY <1>1, <3>1, Limits
  <2>2. \A k \in 1 .. n : Fits(p, at(k + 1)) <=> Len(p) >= F(k)
    <3> SUFFICES ASSUME NEW k \in 1 .. n PROVE Fits(p, at(k + 1)) <=> Len(p) >= F(k)
      OBVIOUS
    <3>1. F(k) = at(k + 1) /\ F(k) \in Nat
      BY <1>6, EntryRead
    <3> HIDE DEF F, at
    <3> QED
      BY <1>1, <3>1 DEF Fits
  <2> HIDE DEF at
  <2> QED
    BY <2>1, <2>2 DEF Whole
<1>8. ASSUME Len(p) >= F(0) PROVE MonoFrames(p, 5, 8, m, 0) = MonoOf(s, b)
  <2>1. Body(s, b) = Coded(s, b, m) /\ Len(Body(s, b)) = 4 + MonoSize(s)
    BY <1>2, BodyType, CodedMono
  <2>2. 4 + 4 + MonoSize(s) <= Len(p)
    <3> HIDE DEF size, F
    <3> QED
      BY <1>3, <1>4, <1>8
  <2>3. \A i \in 1 .. 4 + MonoSize(s) : p[4 + i] = Coded(s, b, m)[i]
    <3>1. \A i \in 1 .. 4 + MonoSize(s) : 4 + i <= Len(p)
      BY <1>1, <1>3, <2>2
    <3> QED
      BY <2>1, <3>1 DEF FrontOf
  <2>4. MonoFrames(p, 4 + 1, 4 + 4, m, 0) = MonoOf(s, b)
    BY <1>1, <1>2, <2>2, <2>3, MonoRead
  <2>5. 4 + 1 = 5 /\ 4 + 4 = 8
    OBVIOUS
  <2> HIDE DEF m
  <2> QED
    BY <2>4, <2>5
<1>9. ASSUME NEW k \in 1 .. Cardinality(U)
      PROVE  /\ At(p, at(k), 0) = bs[k].seq
             /\ MonoFrames(p, at(k) + 1, at(k) + 4, m, 0) = MonoOf(s, bs[k])
  <2>1. k \in U /\ k \in 1 .. n /\ Len(p) >= F(k)
    <3>1. k \in U
      BY <1>1, WholeFirst
    <3> QED
      BY <3>1 DEF Whole
  <2> DEFINE o == F(k - 1)
             q == Coded(s, bs[k], bs[k].seq)
  <2>2. k - 1 \in 0 .. n /\ (k - 1) + 1 = k
    BY <2>1
  <2>3. at(k) = o
    <3> HIDE DEF at, F
    <3> QED
      BY <1>6, <2>2
  <2>4. /\ o \in Nat /\ F(k) = o + (4 + size) /\ bs[k] \in BlockOf(s) /\ bs[k].seq \in Byte
        /\ \A i \in 1 .. 4 + size : o + i <= Len(p) => p[o + i] = q[i]
    <3>1. /\ o \in Nat /\ F(k) = o + Len(Entry(s, bs[k]))
          /\ \A i \in 1 .. Len(Entry(s, bs[k])) : o + i <= Len(p) => p[o + i] = Entry(s, bs[k])[i]
      BY <2>1, EntryRead
    <3>2. /\ bs[k] \in BlockOf(s) /\ bs[k].seq \in Byte /\ Entry(s, bs[k]) = q
          /\ Len(Entry(s, bs[k])) = 4 + size
      BY <1>5, <2>1
    <3> HIDE DEF o, F, q, size
    <3> QED
      BY <3>1, <3>2
  <2>5. q[1] = bs[k].seq
    BY <2>4, CodedMono
  <2> HIDE DEF o, q, at, F, size
  <2>6. o + 4 + MonoSize(s) <= Len(p) /\ \A i \in 1 .. 4 + size : o + i <= Len(p)
    BY <1>1, <1>3, <2>1, <2>4
  <2>7. \A i \in 1 .. 4 + MonoSize(s) : p[o + i] = q[i]
    BY <1>3, <2>4, <2>6
  <2>8. MonoFrames(p, o + 1, o + 4, m, 0) = MonoOf(s, bs[k])
    BY <1>1, <2>4, <2>6, <2>7, MonoRead DEF q
  <2>9. At(p, o, 0) = bs[k].seq
    <3>1. 1 \in 1 .. 4 + MonoSize(s) /\ o < Len(p)
      <4> DEFINE z == MonoSize(s)
                 l == Len(p)
      <4>1. z \in Nat /\ l \in Nat /\ o \in Nat /\ o + 4 + z <= l
        BY <1>1, <1>3, <2>4, <2>6
      <4> HIDE DEF z, l
      <4>2. 1 \in 1 .. 4 + z /\ o < l
        BY <4>1
      <4> QED
        BY <4>2 DEF z, l
    <3>2. At(p, o, 0) = p[o + 1]
      BY <1>1, <2>4, <3>1, AtInside
    <3> QED
      BY <2>5, <2>7, <3>1, <3>2
  <2> QED
    BY <2>3, <2>8, <2>9
<1>10. CASE ~(Len(p) >= F(0))
  <2>1. ~Fits(p, 8 + size)
    <3> HIDE DEF size, F
    <3> QED
      BY <1>1, <1>3, <1>4, <1>10 DEF Fits
  <2>2. ParseMono(p, 0) = Nothing
    BY <1>1, <2>1 DEF ParseMono
  <2> QED
    BY <1>1, <1>10, <2>2, CutInBody
<1>11. CASE Len(p) >= F(0)
  <2>1. Fits(p, 8 + size) /\ m \in 1 .. MAX_FRAMES
    <3>1. Fits(p, 8 + size)
      <4> HIDE DEF size, F
      <4> QED
        BY <1>1, <1>3, <1>4, <1>11 DEF Fits
    <3> QED
      BY <1>2, <3>1
  <2> DEFINE copies(V) == [k \in 1 .. Cardinality(V) |->
                             [seq |-> At(p, at(k), 0),
                              frame |-> MonoFrames(p, at(k) + 1, at(k) + 4, m, 0)]]
  <2>2. ParseMono(p, 0) = [own |-> <<MonoFrames(p, 5, 8, m, 0)>>, copies |-> copies(code)]
    BY <1>1, <2>1 DEF ParseMono
  <2>3. copies(U) = [k \in 1 .. Cardinality(U) |->
                       [seq |-> bs[k].seq, frame |-> FrameOf(s, bs[k])]]
    <3>1. \A k : FrameOf(s, bs[k]) = MonoOf(s, bs[k])
      BY DEF FrameOf
    <3> HIDE DEF U, at, m
    <3> QED
      BY <1>9, <3>1
  <2>4. FrameOf(s, b) = MonoOf(s, b)
    BY DEF FrameOf
  <2>5. MonoFrames(p, 5, 8, m, 0) = FrameOf(s, b)
    BY <1>8, <1>11, <2>4
  <2> DEFINE W == [k \in 1 .. Cardinality(U) |->
                     [seq |-> bs[k].seq, frame |-> FrameOf(s, bs[k])]]
  <2>6. Made(p, s, b, bs, n) = [own |-> <<FrameOf(s, b)>>, copies |-> W]
    BY <1>11 DEF Made
  <2>7. copies(code) = W
    <3> HIDE DEF W, copies, code, U
    <3> QED
      BY <1>7, <2>3 DEF W
  <2> HIDE DEF copies, W, code, m
  <2> QED
    BY <2>2, <2>5, <2>6, <2>7
<1> QED
  BY <1>10, <1>11

(* A stereo packet.                                                        *)
LEMMA StereoMade ==
  ASSUME NEW s \in StreamsSent, ~IsOpus(s), ~IsMono(s),
         NEW b \in BlockOf(s), NEW bs \in Seq(BlockOf(s)), NEW n \in 0 .. Len(bs),
         NEW p, FrontOf(p, s, b, bs, n), Len(p) >= 5
  PROVE  ParseStereo(p, 0) = Made(p, s, b, bs, n)
<1> DEFINE m == s.frames
           at == 11 + m
           F(k) == End(s, b, bs, k)
           U == Whole(p, s, b, bs, n)
<1>1. p \in Seq(Byte) /\ Len(p) \in Nat /\ At(p, 4, 0) = m /\ At(p, 3, 0) = n
  BY FrontHeader
<1>2. m \in Nat /\ m \in Byte /\ m \in 1 .. MAX_FRAMES /\ n \in Nat
  BY PayloadType
<1>3. Body(s, b) = Coded(s, b, m) /\ Len(Body(s, b)) = 7 + m
  <2>1. Body(s, b) = Coded(s, b, m)
    BY BodyType
  <2> QED
    BY <1>2, <2>1, CodedStereo
<1>4. F(0) = at
  <2>1. F(0) = 4 + Len(Body(s, b))
    BY Ends
  <2> HIDE DEF m, F
  <2> QED
    BY <1>2, <1>3, <2>1
<1>5. ASSUME n >= 1
      PROVE  /\ 1 \in 1 .. n /\ bs[1] \in BlockOf(s) /\ bs[1].seq \in Byte
             /\ Entry(s, bs[1]) = Coded(s, bs[1], bs[1].seq)
             /\ Len(Entry(s, bs[1])) = 7 + m /\ F(1) = at + 7 + m
  <2>1. 1 \in 1 .. n /\ 1 - 1 = 0
    BY <1>2, <1>5
  <2>2. bs[1] \in BlockOf(s) /\ F(1) = F(1 - 1) + Len(Entry(s, bs[1]))
    BY <2>1, EntryRead
  <2>3. bs[1].seq \in Byte /\ Entry(s, bs[1]) = Coded(s, bs[1], bs[1].seq)
    BY <2>2, BodyType, PayloadType
  <2>4. Len(Entry(s, bs[1])) = 7 + m
    BY <2>2, <2>3, CodedStereo
  <2>5. F(1) = at + 7 + m
    <3> HIDE DEF F, m
    <3> QED
      BY <1>2, <1>4, <2>1, <2>2, <2>4
  <2> QED
    BY <2>1, <2>2, <2>3, <2>4, <2>5
<1>6. U = IF n >= 1 /\ Len(p) >= at + 7 + m THEN {1} ELSE {}
  <2>1. Depth(s) = 1
    BY DEF Depth
  <2>2. \A k \in U : k = 1 /\ n >= 1 /\ Len(p) >= F(1)
    BY <1>2, <2>1 DEF Whole
  <2>3. n >= 1 /\ Len(p) >= F(1) => 1 \in U
    <3>1. n >= 1 => 1 \in 1 .. n
      BY <1>2
    <3> QED
      BY <2>1, <3>1 DEF Whole
  <2> HIDE DEF U, F, m, at
  <2> QED
    BY <1>5, <2>2, <2>3
<1>7. ASSUME Len(p) >= F(0) PROVE StereoFrames(p, 5, 11, m, 0) = StereoOf(s, b)
  <2>1. 4 + 7 + m <= Len(p)
    <3> HIDE DEF F, m
    <3> QED
      BY <1>2, <1>4, <1>7
  <2>2. \A i \in 1 .. 7 + m : p[4 + i] = Coded(s, b, m)[i]
    <3>1. \A i \in 1 .. 7 + m : 4 + i <= Len(p)
      BY <1>1, <1>2, <2>1
    <3> QED
      <4> HIDE DEF m
      <4> QED
        BY <1>3, <3>1 DEF FrontOf
  <2>3. StereoFrames(p, 4 + 1, 4 + 7, m, 0) = StereoOf(s, b)
    <3>1. 4 \in Nat /\ m \in Byte
      BY <1>2
    <3> QED
      BY <1>1, <2>1, <2>2, <3>1, StereoRead
  <2>4. 4 + 1 = 5 /\ 4 + 7 = 11
    OBVIOUS
  <2> HIDE DEF m
  <2> QED
    BY <2>3, <2>4
<1>8. ASSUME n >= 1, Len(p) >= at + 7 + m
      PROVE  /\ At(p, at, 0) = bs[1].seq
             /\ StereoFrames(p, at + 1, at + 7, m, 0) = StereoOf(s, bs[1])
  <2>1. /\ 1 \in 1 .. n /\ bs[1] \in BlockOf(s) /\ bs[1].seq \in Byte
        /\ Entry(s, bs[1]) = Coded(s, bs[1], bs[1].seq)
        /\ Len(Entry(s, bs[1])) = 7 + m
    BY <1>5, <1>8
  <2> DEFINE q == Coded(s, bs[1], bs[1].seq)
  <2>2. \A i \in 1 .. 7 + m : at + i <= Len(p) => p[at + i] = q[i]
    <3>1. F(1 - 1) = at
      BY <1>4
    <3>2. \A i \in 1 .. Len(Entry(s, bs[1])) :
            F(1 - 1) + i <= Len(p) => p[F(1 - 1) + i] = Entry(s, bs[1])[i]
      BY <2>1, EntryRead
    <3> HIDE DEF F, at, m
    <3> QED
      BY <2>1, <3>1, <3>2
  <2>3. at \in Nat /\ at + 7 + m <= Len(p) /\ \A i \in 1 .. 7 + m : at + i <= Len(p)
    <3> DEFINE l == Len(p)
    <3>1. l \in Nat /\ at + 7 + m <= l
      BY <1>1, <1>8
    <3> HIDE DEF l, m
    <3>2. at \in Nat /\ \A i \in 1 .. 7 + m : at + i <= l
      BY <1>2, <3>1
    <3> QED
      BY <3>1, <3>2 DEF l
  <2>4. q[1] = bs[1].seq
    BY <2>1, CodedStereo
  <2> HIDE DEF q
  <2>5. \A i \in 1 .. 7 + m : p[at + i] = q[i]
    BY <2>2, <2>3
  <2>6. StereoFrames(p, at + 1, at + 7, m, 0) = StereoOf(s, bs[1])
    <3>1. \A i \in 1 .. 7 + s.frames : p[at + i] = Coded(s, bs[1], bs[1].seq)[i]
      BY <2>5 DEF q
    <3>2. at + 7 + s.frames <= Len(p) /\ at \in Nat
      BY <2>3
    <3> HIDE DEF at
    <3> QED
      BY <1>1, <2>1, <3>1, <3>2, StereoRead
  <2>7. At(p, at, 0) = bs[1].seq
    <3>1. 1 \in 1 .. 7 + m /\ at < Len(p)
      BY <1>1, <1>2, <2>3
    <3> HIDE DEF at, m
    <3>2. At(p, at, 0) = p[at + 1]
      BY <1>1, <2>3, <3>1, AtInside
    <3> QED
      BY <2>4, <2>5, <3>1, <3>2
  <2> QED
    BY <2>6, <2>7
<1>9. CASE ~(Len(p) >= F(0))
  <2>1. ~Fits(p, 11 + m)
    <3> HIDE DEF F, m
    <3> QED
      BY <1>1, <1>2, <1>4, <1>9 DEF Fits
  <2>2. ParseStereo(p, 0) = Nothing
    BY <1>1, <2>1 DEF ParseStereo
  <2> QED
    BY <1>1, <1>9, <2>2, CutInBody
<1>10. CASE Len(p) >= F(0)
  <2>1. Fits(p, 11 + m)
    <3> HIDE DEF F, m
    <3> QED
      BY <1>1, <1>2, <1>4, <1>10 DEF Fits
  <2> DEFINE copies == IF n >= 1 /\ Len(p) >= at + 7 + m
                       THEN <<[seq |-> At(p, at, 0),
                               frame |-> StereoFrames(p, at + 1, at + 7, m, 0)]>>
                       ELSE <<>>
             W == [k \in 1 .. Cardinality(U) |->
                     [seq |-> bs[k].seq, frame |-> FrameOf(s, bs[k])]]
  <2>2. ParseStereo(p, 0) = [own |-> <<StereoFrames(p, 5, 11, m, 0)>>, copies |-> copies]
    <3>1. Fits(p, at + 7 + m) <=> Len(p) >= at + 7 + m
      BY <1>1, <1>2 DEF Fits
    <3> QED
      BY <1>1, <1>2, <2>1, <3>1 DEF ParseStereo
  <2>3. FrameOf(s, b) = StereoOf(s, b) /\ FrameOf(s, bs[1]) = StereoOf(s, bs[1])
    BY DEF FrameOf
  <2>4. Made(p, s, b, bs, n) = [own |-> <<FrameOf(s, b)>>, copies |-> W]
    BY <1>10 DEF Made
  <2>5. copies = W
    <3>1. CASE n >= 1 /\ Len(p) >= at + 7 + m
      <4>1. Cardinality(U) = 1
        <5>1. U = {1}
          BY <1>6, <3>1
        <5> HIDE DEF U
        <5> QED
          BY <5>1, FS_Singleton
      <4>2. W = <<[seq |-> bs[1].seq, frame |-> FrameOf(s, bs[1])]>>
        <5> HIDE DEF U
        <5> QED
          BY <4>1
      <4>3. copies = <<[seq |-> bs[1].seq, frame |-> FrameOf(s, bs[1])]>>
        <5> HIDE DEF at, m
        <5> QED
          BY <1>8, <2>3, <3>1
      <4> QED
        BY <4>2, <4>3
    <3>2. CASE ~(n >= 1 /\ Len(p) >= at + 7 + m)
      <4>1. Cardinality(U) = 0
        <5>1. U = {}
          BY <1>6, <3>2
        <5> HIDE DEF U
        <5> QED
          BY <5>1, FS_EmptySet
      <4>2. W = <<>>
        <5> HIDE DEF U
        <5> QED
          BY <4>1
      <4>3. copies = <<>>
        BY <3>2
      <4> QED
        BY <4>2, <4>3
    <3> QED
      BY <3>1, <3>2
  <2>6. StereoFrames(p, 5, 11, m, 0) = FrameOf(s, b)
    BY <1>7, <1>10, <2>3
  <2> HIDE DEF copies, W, m
  <2> QED
    BY <2>2, <2>4, <2>5, <2>6
<1> QED
  BY <1>9, <1>10

(* The entries of an Opus front lie where they were written.               *)
LEMMA OpusFound ==
  ASSUME NEW s \in StreamsSent, IsOpus(s),
         NEW b \in BlockOf(s), NEW bs \in Seq(BlockOf(s)), NEW n \in 0 .. Len(bs),
         NEW p, FrontOf(p, s, b, bs, n), Len(p) >= 5,
         NEW k \in 0 .. n, k <= MAX_PIGGYBACK,
         \A j \in 1 .. k : \/ OpusEntriesAt(p, 0)[j] + 2 <= Len(p)
                           \/ End(s, b, bs, j) <= Len(p)
  PROVE  \A j \in 1 .. k + 1 : OpusEntriesAt(p, 0)[j] = End(s, b, bs, j - 1)
<1> DEFINE f == OpusEntriesAt(p, 0)
           F(j) == End(s, b, bs, j)
           T == {i \in 0 .. k : f[i + 1] = F(i)}
<1>1. f = [i \in 1 .. MAX_PIGGYBACK + 1 |->
             IF i = 1 THEN 5 + At(p, 4, 0) ELSE f[i - 1] + 2 + At(p, f[i - 1] + 1, 0)]
  BY EntriesRecursion
<1>2. p \in Seq(Byte) /\ Len(p) \in Nat /\ At(p, 4, 0) = Len(b.payload)
  BY FrontHeader
<1>3. \A j \in 1 .. k : f[j] + 2 <= Len(p) \/ F(j) <= Len(p)
  OBVIOUS
<1>4. F(0) = 5 + Len(b.payload)
  <2>1. F(0) = 4 + Len(Body(s, b)) /\ Len(Body(s, b)) = 1 + Len(b.payload)
    BY CodedOpus, Ends
  <2>2. Len(b.payload) \in Nat
    BY PayloadType
  <2> HIDE DEF F
  <2> QED
    BY <2>1, <2>2
<1> HIDE DEF f
<1>5. 0 \in T
  <2>1. 1 \in 1 .. MAX_PIGGYBACK + 1
    BY Limits
  <2>2. f[1] = 5 + At(p, 4, 0)
    BY <1>1, <2>1
  <2> HIDE DEF F
  <2> QED
    BY <1>2, <1>4, <2>2
<1>6. ASSUME NEW i \in 0 .. k - 1, i \in T PROVE i + 1 \in T
  <2>1. /\ i + 2 \in 1 .. MAX_PIGGYBACK + 1 /\ i + 2 # 1 /\ (i + 2) - 1 = i + 1
        /\ i + 1 \in 0 .. k /\ (i + 1) + 1 = i + 2 /\ i + 1 \in 1 .. k
        /\ i + 1 \in 1 .. n /\ (i + 1) - 1 = i
    BY Limits
  <2>2. f[i + 2] = f[i + 1] + 2 + At(p, f[i + 1] + 1, 0)
    BY <1>1, <2>1
  <2> DEFINE o == F(i)
             d == bs[i + 1]
             e == Entry(s, d)
             l == Len(d.payload)
  <2>3. f[i + 1] = o
    BY <1>6
  <2>4. /\ o \in Nat /\ F(i + 1) = o + Len(e) /\ d \in BlockOf(s)
        /\ \A j \in 1 .. Len(e) : o + j <= Len(p) => p[o + j] = e[j]
    <3> DEFINE j == i + 1
    <3>1. j \in 1 .. n /\ j - 1 = i
      BY <2>1
    <3> HIDE DEF j
    <3>2. /\ F(j - 1) \in Nat /\ F(j) = F(j - 1) + Len(Entry(s, bs[j])) /\ bs[j] \in BlockOf(s)
          /\ \A m \in 1 .. Len(Entry(s, bs[j])) :
               F(j - 1) + m <= Len(p) => p[F(j - 1) + m] = Entry(s, bs[j])[m]
      BY <3>1, EntryRead
    <3> HIDE DEF F
    <3> QED
      BY <3>1, <3>2 DEF j
  <2>5. Len(e) = 2 + l /\ e[2] = l /\ l \in Nat
    BY <2>4, CodedOpus, PayloadType
  <2> HIDE DEF e, l, d
  <2>6. o + 2 <= Len(p)
    <3>1. f[i + 1] + 2 <= Len(p) \/ F(i + 1) <= Len(p)
      BY <1>3, <2>1
    <3> HIDE DEF F, o
    <3> QED
      BY <1>2, <2>3, <2>4, <2>5, <3>1
  <2> HIDE DEF o
  <2>7. At(p, o + 1, 0) = l
    <3>1. o + 1 \in Nat /\ o + 1 < Len(p) /\ (o + 1) + 1 = o + 2 /\ 2 \in 1 .. 2 + l
      BY <1>2, <2>4, <2>5, <2>6
    <3>2. At(p, o + 1, 0) = p[(o + 1) + 1]
      BY <1>2, <3>1, AtInside
    <3>3. p[o + 2] = e[2]
      BY <2>4, <2>5, <2>6, <3>1
    <3> QED
      BY <2>5, <3>1, <3>2, <3>3
  <2>8. f[i + 2] = F(i + 1)
    <3> HIDE DEF F
    <3>1. f[i + 2] = o + 2 + l /\ F(i + 1) = o + (2 + l)
      BY <2>2, <2>3, <2>4, <2>5, <2>7
    <3> QED
      BY <2>4, <2>5, <3>1
  <2> QED
    BY <2>1, <2>8
<1>7. 0 .. k \subseteq T
  <2> HIDE DEF T
  <2>1. k \in Nat
    OBVIOUS
  <2> QED
    BY <1>5, <1>6, <2>1, UpTo
<1> SUFFICES ASSUME NEW j \in 1 .. k + 1 PROVE f[j] = F(j - 1)
  BY DEF f
<1>8. j - 1 \in 0 .. k /\ (j - 1) + 1 = j
  OBVIOUS
<1>9. j - 1 \in T
  BY <1>7, <1>8
<1> HIDE DEF F
<1> QED
  BY <1>8, <1>9

(* An Opus packet's entries that fit are the ones it holds in whole.       *)
LEMMA OpusWholeMade ==
  ASSUME NEW s \in StreamsSent, IsOpus(s),
         NEW b \in BlockOf(s), NEW bs \in Seq(BlockOf(s)), NEW n \in 0 .. Len(bs),
         NEW p, FrontOf(p, s, b, bs, n), Len(p) >= 5
  PROVE  /\ OpusWhole(p, 0) = Whole(p, s, b, bs, n)
         /\ \A k \in Whole(p, s, b, bs, n) : /\ OpusEntriesAt(p, 0)[k] = End(s, b, bs, k - 1)
                                             /\ OpusEntriesAt(p, 0)[k + 1] = End(s, b, bs, k)
<1> DEFINE f == OpusEntriesAt(p, 0)
           F(j) == End(s, b, bs, j)
           U == Whole(p, s, b, bs, n)
<1>1. /\ p \in Seq(Byte) /\ Len(p) \in Nat
      /\ Claimed(p, 0) = IF n < MAX_PIGGYBACK THEN n ELSE MAX_PIGGYBACK
  BY FrontHeader
<1>2. \A k : k \in 1 .. Claimed(p, 0) <=> k \in 1 .. n /\ k <= MAX_PIGGYBACK
  BY <1>1, Limits
<1>3. Depth(s) = MAX_PIGGYBACK
  BY DEF Depth
<1>4. ASSUME NEW k \in U
      PROVE  /\ k \in 1 .. n /\ k <= MAX_PIGGYBACK
             /\ \A j \in 1 .. k : j \in 1 .. n /\ F(j) <= Len(p)
             /\ \A j \in 1 .. k + 1 : f[j] = F(j - 1)
  <2>1. k \in 1 .. n /\ k <= MAX_PIGGYBACK
    BY <1>3 DEF Whole
  <2>2. ASSUME NEW j \in 1 .. k PROVE j \in 1 .. n /\ F(j) <= Len(p)
    <3>1. j \in U
      BY <1>1, WholeFirst
    <3>2. j \in 1 .. n /\ Len(p) >= F(j)
      BY <3>1 DEF Whole
    <3>3. F(j) \in Nat
      BY <3>2, EntryRead
    <3> HIDE DEF F
    <3> QED
      BY <1>1, <3>2, <3>3
  <2>3. k \in 0 .. n
    BY <2>1
  <2>4. \A j \in 1 .. k + 1 : f[j] = F(j - 1)
    BY <2>1, <2>2, <2>3, OpusFound
  <2> QED
    BY <2>1, <2>2, <2>4
<1>5. ASSUME NEW k \in U PROVE k \in OpusWhole(p, 0)
  <2>1. ASSUME NEW j \in 1 .. k PROVE Fits(p, f[j] + 2) /\ Fits(p, f[j + 1])
    <3>6. k \in 1 .. n
      BY <1>4
    <3>1. j \in 1 .. k + 1 /\ j + 1 \in 1 .. k + 1 /\ (j + 1) - 1 = j
      BY <3>6
    <3>2. f[j] = F(j - 1) /\ f[j + 1] = F(j) /\ F(j) <= Len(p) /\ j \in 1 .. n
      BY <1>4, <3>1
    <3>3. /\ F(j - 1) \in Nat /\ F(j) = F(j - 1) + Len(Entry(s, bs[j])) /\ bs[j] \in BlockOf(s)
      BY <3>2, EntryRead
    <3>4. /\ Len(Entry(s, bs[j])) = 2 + Len(bs[j].payload) /\ Len(bs[j].payload) \in Nat
      BY <3>3, CodedOpus, PayloadType
    <3> HIDE DEF f, F
    <3>5. F(j - 1) + 2 <= Len(p)
      <4> DEFINE c == F(j - 1)
                 d == Len(bs[j].payload)
                 g == F(j)
      <4>1. c \in Nat /\ d \in Nat /\ g = c + (2 + d) /\ g <= Len(p)
        BY <3>2, <3>3, <3>4
      <4> HIDE DEF c, d, g
      <4>2. c + 2 <= Len(p)
        BY <1>1, <4>1
      <4> QED
        BY <4>2 DEF c
    <3> QED
      BY <3>2, <3>5 DEF Fits
  <2>2. k \in 1 .. Claimed(p, 0)
    BY <1>2, <1>4
  <2> QED
    BY <2>1, <2>2 DEF OpusWhole
<1>6. ASSUME NEW k \in OpusWhole(p, 0) PROVE k \in U
  <2>1. /\ k \in 1 .. Claimed(p, 0)
        /\ \A j \in 1 .. k : f[j] + 2 <= Len(p) /\ f[j + 1] <= Len(p)
    BY DEF OpusWhole, Fits
  <2>2. k \in 1 .. n /\ k <= MAX_PIGGYBACK
    BY <1>2, <2>1
  <2>3. k \in 0 .. n
    BY <2>2
  <2>4. \A j \in 1 .. k + 1 : f[j] = F(j - 1)
    BY <2>1, <2>2, <2>3, OpusFound
  <2>5. k \in 1 .. k /\ k + 1 \in 1 .. k + 1 /\ (k + 1) - 1 = k
    BY <2>2
  <2>6. f[k + 1] = F(k) /\ f[k + 1] <= Len(p) /\ F(k) \in Nat
    <3>1. F(k) \in Nat
      BY <2>2, EntryRead
    <3> HIDE DEF f, F
    <3> QED
      BY <2>1, <2>4, <2>5, <3>1
  <2>7. Len(p) >= F(k)
    <3> HIDE DEF f, F
    <3> QED
      BY <1>1, <2>6
  <2> QED
    BY <1>3, <2>2, <2>7 DEF Whole
<1>7. \A k \in U : f[k] = F(k - 1) /\ f[k + 1] = F(k)
  <2> SUFFICES ASSUME NEW k \in U PROVE f[k] = F(k - 1) /\ f[k + 1] = F(k)
    OBVIOUS
  <2>1. k \in 1 .. n /\ \A j \in 1 .. k + 1 : f[j] = F(j - 1)
    BY <1>4
  <2>2. k \in 1 .. k + 1 /\ k + 1 \in 1 .. k + 1 /\ (k + 1) - 1 = k
    BY <2>1
  <2> HIDE DEF f, F
  <2> QED
    BY <2>1, <2>2
<1> QED
  BY <1>5, <1>6, <1>7

(* An Opus packet.                                                         *)
LEMMA OpusMade ==
  ASSUME NEW s \in StreamsSent, IsOpus(s),
         NEW b \in BlockOf(s), NEW bs \in Seq(BlockOf(s)), NEW n \in 0 .. Len(bs),
         NEW p, FrontOf(p, s, b, bs, n), Len(p) >= 5
  PROVE  ParseOpus(p, 0) = Made(p, s, b, bs, n)
<1> DEFINE own == Len(b.payload)
           f == OpusEntriesAt(p, 0)
           F(j) == End(s, b, bs, j)
           U == Whole(p, s, b, bs, n)
<1>1. p \in Seq(Byte) /\ Len(p) \in Nat /\ At(p, 4, 0) = own
  BY FrontHeader
<1>2. /\ own \in Nat /\ own >= 1 /\ Len(Body(s, b)) = 1 + own
      /\ b.payload = [i \in 1 .. own |-> b.payload[i]]
      /\ \A i \in 1 .. own : Body(s, b)[1 + i] = b.payload[i]
  <2>1. own \in Nat /\ own >= 1 /\ b.payload \in Seq(Byte)
    BY PayloadType
  <2>2. b.payload = [i \in 1 .. own |-> b.payload[i]]
    BY <2>1
  <2> QED
    BY <2>1, <2>2, CodedOpus
<1>3. F(0) = 5 + own
  <2>1. F(0) = 4 + Len(Body(s, b))
    BY Ends
  <2> HIDE DEF F, own
  <2> QED
    BY <1>2, <2>1
<1>4. Len(p) < 6 \/ ~Fits(p, 5 + own) <=> ~(Len(p) >= F(0))
  <2> HIDE DEF F, own
  <2> QED
    BY <1>1, <1>2, <1>3 DEF Fits
<1>5. ASSUME Len(p) >= F(0) PROVE Bytes(p, 5, own, 0) = b.payload
  <2>1. 5 + own <= Len(p)
    <3> HIDE DEF F, own
    <3> QED
      BY <1>1, <1>2, <1>3, <1>5
  <2>2. Bytes(p, 5, own, 0) = [i \in 1 .. own |-> p[5 + i]]
    <3> HIDE DEF own
    <3>1. 5 \in Nat
      OBVIOUS
    <3> QED
      BY <1>1, <1>2, <2>1, <3>1, BytesInside
  <2>3. ASSUME NEW i \in 1 .. own PROVE p[5 + i] = b.payload[i]
    <3>1. /\ 1 + i \in 1 .. 1 + own /\ 4 + (1 + i) = 5 + i /\ 4 + (1 + i) <= Len(p)
      BY <1>1, <1>2, <2>1
    <3>2. p[4 + (1 + i)] = Body(s, b)[1 + i]
      BY <1>2, <3>1 DEF FrontOf
    <3> QED
      BY <1>2, <3>1, <3>2
  <2> HIDE DEF own
  <2> QED
    BY <1>2, <2>2, <2>3
<1>6. ASSUME NEW k \in U
      PROVE  /\ At(p, f[k], 0) = bs[k].seq
             /\ Bytes(p, f[k] + 2, f[k + 1] - f[k] - 2, 0) = bs[k].payload
  <2>1. f[k] = F(k - 1) /\ f[k + 1] = F(k) /\ k \in 1 .. n /\ F(k) <= Len(p)
    <3>1. f[k] = F(k - 1) /\ f[k + 1] = F(k)
      BY OpusWholeMade
    <3>2. k \in 1 .. n /\ Len(p) >= F(k)
      BY DEF Whole
    <3>3. F(k) \in Nat
      BY <3>2, EntryRead
    <3> HIDE DEF f, F
    <3> QED
      BY <1>1, <3>1, <3>2, <3>3
  <2> DEFINE o == F(k - 1)
             d == bs[k]
             e == Entry(s, d)
             l == Len(d.payload)
  <2>2. /\ o \in Nat /\ F(k) = o + Len(e) /\ d \in BlockOf(s)
        /\ \A j \in 1 .. Len(e) : o + j <= Len(p) => p[o + j] = e[j]
    BY <2>1, EntryRead
  <2>3. /\ Len(e) = 2 + l /\ e[1] = d.seq /\ l \in Nat
        /\ \A i \in 1 .. l : e[2 + i] = d.payload[i]
    BY <2>2, CodedOpus, PayloadType
  <2>4. d.payload = [i \in 1 .. l |-> d.payload[i]]
    <3>1. d.payload \in Seq(Byte)
      BY <2>2, PayloadType
    <3> QED
      BY <3>1
  <2>5. f[k] = o /\ f[k + 1] - f[k] - 2 = l /\ o + (2 + l) <= Len(p)
    <3> HIDE DEF F, e, l, d, f, o
    <3>1. F(k) = o + (2 + l)
      BY <2>2, <2>3
    <3>2. f[k] = o
      BY <2>1 DEF o
    <3> QED
      BY <2>1, <2>2, <2>3, <3>1, <3>2
  <2> HIDE DEF o, e, l, d
  <2>6. \A j \in 1 .. 2 + l : p[o + j] = e[j]
    <3>1. \A j \in 1 .. 2 + l : o + j <= Len(p)
      BY <1>1, <2>2, <2>3, <2>5
    <3> QED
      BY <2>2, <2>3, <3>1
  <2>7. At(p, o, 0) = d.seq
    <3>1. 1 \in 1 .. 2 + l /\ o < Len(p)
      BY <1>1, <2>2, <2>3, <2>5
    <3>2. At(p, o, 0) = p[o + 1]
      BY <1>1, <2>2, <3>1, AtInside
    <3> QED
      BY <2>3, <2>6, <3>1, <3>2
  <2>8. Bytes(p, o + 2, l, 0) = d.payload
    <3> DEFINE a == o + 2
    <3>1. a \in Nat /\ a + l <= Len(p)
      BY <1>1, <2>2, <2>3, <2>5
    <3>2. ASSUME NEW i \in 1 .. l PROVE p[a + i] = d.payload[i]
      <4>1. 2 + i \in 1 .. 2 + l /\ o + (2 + i) = a + i
        BY <2>2, <2>3
      <4> QED
        BY <2>3, <2>6, <4>1
    <3> HIDE DEF a
    <3>3. Bytes(p, a, l, 0) = [i \in 1 .. l |-> p[a + i]]
      BY <1>1, <2>3, <3>1, BytesInside
    <3> QED
      BY <2>4, <3>2, <3>3 DEF a
  <2> QED
    BY <2>5, <2>7, <2>8 DEF d
<1>7. CASE ~(Len(p) >= F(0))
  <2>1. ParseOpus(p, 0) = Nothing
    BY <1>1, <1>4, <1>7 DEF ParseOpus
  <2> QED
    BY <1>1, <1>7, <2>1, CutInBody
<1>8. CASE Len(p) >= F(0)
  <2> DEFINE copies(V) == [k \in 1 .. Cardinality(V) |->
                             [seq |-> At(p, f[k], 0),
                              frame |-> Bytes(p, f[k] + 2, f[k + 1] - f[k] - 2, 0)]]
             W == [k \in 1 .. Cardinality(U) |->
                     [seq |-> bs[k].seq, frame |-> FrameOf(s, bs[k])]]
  <2>1. ParseOpus(p, 0) = [own |-> <<Bytes(p, 5, own, 0)>>, copies |-> copies(OpusWhole(p, 0))]
    BY <1>1, <1>4, <1>8 DEF ParseOpus, OpusWhole
  <2>2. Made(p, s, b, bs, n) = [own |-> <<FrameOf(s, b)>>, copies |-> W]
    BY <1>8 DEF Made
  <2>3. \A c : FrameOf(s, c) = c.payload
    BY DEF FrameOf
  <2>4. copies(U) = W
    <3>1. \A k \in 1 .. Cardinality(U) : k \in U
      BY <1>1, WholeFirst
    <3> HIDE DEF U, f
    <3> QED
      BY <1>6, <2>3, <3>1
  <2>5. OpusWhole(p, 0) = U
    BY OpusWholeMade
  <2>6. Bytes(p, 5, own, 0) = FrameOf(s, b)
    BY <1>5, <1>8, <2>3
  <2> HIDE DEF copies, W, U, own
  <2> QED
    BY <2>1, <2>2, <2>4, <2>5, <2>6
<1> QED
  BY <1>7, <1>8

(* What is made of the front of a packet: the body if it is there in       *)
(* whole, and the first of the copies that are.                            *)
LEMMA FrontMade ==
  ASSUME NEW s \in StreamsSent, NEW b \in BlockOf(s), NEW bs \in Seq(BlockOf(s)),
         NEW n \in 0 .. Len(bs), NEW p, FrontOf(p, s, b, bs, n)
  PROVE  Parse(p, 0) = Made(p, s, b, bs, n)
<1>1. p \in Seq(Byte) /\ Len(p) \in Nat
  BY LenProperties DEF FrontOf
<1>2. CASE Len(p) < 5
  <2>1. Parse(p, 0) = Nothing
    BY <1>2 DEF Parse
  <2>2. End(s, b, bs, 0) \in Nat /\ End(s, b, bs, 0) >= 5
    <3> DEFINE u == Len(Body(s, b))
    <3>1. u \in Nat /\ u >= 1
      <4>1. s.frames \in Nat /\ s.frames \in Byte
        BY PayloadType
      <4>2. CASE IsOpus(s)
        <5>1. u = 1 + Len(b.payload) /\ Len(b.payload) \in Nat
          BY <4>2, CodedOpus, PayloadType
        <5> HIDE DEF u
        <5> QED
          BY <5>1
      <4>3. CASE ~IsOpus(s) /\ IsMono(s)
        <5>1. u = 4 + MonoSize(s) /\ MonoSize(s) \in Nat
          BY <4>1, <4>3, BodyType, CodedMono
        <5> HIDE DEF u
        <5> QED
          BY <5>1
      <4>4. CASE ~IsOpus(s) /\ ~IsMono(s)
        <5>1. u = 7 + s.frames /\ s.frames \in Nat
          BY <4>1, <4>4, BodyType, CodedStereo
        <5> HIDE DEF u
        <5> QED
          BY <5>1
      <4> QED
        BY <4>2, <4>3, <4>4
    <3>2. End(s, b, bs, 0) = 4 + u
      BY Ends
    <3> HIDE DEF u
    <3> QED
      BY <3>1, <3>2
  <2>3. ~(Len(p) >= End(s, b, bs, 0))
    BY <1>1, <1>2, <2>2
  <2> QED
    BY <1>1, <2>1, <2>3, CutInBody
<1>3. CASE Len(p) >= 5
  <2>1. At(p, 0, 0) = PKT_STREAM /\ At(p, 1, 0) % RELAYED = s.mode
    BY <1>3, FrontHeader
  <2>2. s.mode \in 0 .. MODE_COUNT - 1
    BY PayloadType
  <2>3. ~(At(p, 1, 0) % RELAYED >= MODE_COUNT)
    BY <2>1, <2>2 DEF MODE_COUNT
  <2>4. Parse(p, 0) = IF IsOpus(s) THEN ParseOpus(p, 0)
                      ELSE IF IsMono(s) THEN ParseMono(p, 0) ELSE ParseStereo(p, 0)
    <3>1. ~(Len(p) < 5)
      BY <1>1, <1>3
    <3> QED
      BY <2>1, <2>3, <3>1 DEF Parse, IsOpus, IsMono, Info
  <2>5. IsOpus(s) => ParseOpus(p, 0) = Made(p, s, b, bs, n)
    BY <1>3, OpusMade
  <2>6. ~IsOpus(s) /\ IsMono(s) => ParseMono(p, 0) = Made(p, s, b, bs, n)
    BY <1>3, MonoMade
  <2>7. ~IsOpus(s) /\ ~IsMono(s) => ParseStereo(p, 0) = Made(p, s, b, bs, n)
    BY <1>3, StereoMade
  <2> QED
    BY <2>4, <2>5, <2>6, <2>7
<1> QED
  BY <1>1, <1>2, <1>3

(* It is what the transmitter's coder went through.                        *)
LEMMA FrameReproduces ==
  ASSUME stream \in StreamsSent, NEW b \in BlockOf(stream)
  PROVE  Reproduces(FrameOf(stream, b), b)
<1>1. CASE IsOpus(stream)
  BY <1>1 DEF Reproduces, FrameOf
<1>2. CASE ~IsOpus(stream) /\ IsMono(stream)
  <2> DEFINE n == stream.frames
             m == Samples(b, 1)
             after(k) == m[IF k < Len(m) THEN k + 1 ELSE k]
             frame == Upsampled(m)
  <2>1. n \in Nat
    BY PayloadType
  <2>2. m = [k \in 1 .. n |-> Trace(b, 1)[k].predictor]
    BY DEF Samples
  <2>3. \A k \in 1 .. n : Trace(b, 1)[k].predictor \in Int
    <3>1. 1 \in Channels(stream)
      BY DEF Channels
    <3>2. \A k \in 1 .. n : Trace(b, 1)[k] \in CoderState
      BY <1>2, <3>1, TraceType
    <3>3. \A st \in CoderState : st.predictor \in Int
      <4>1. Int16 \subseteq Int
        BY DEF Int16, INT16_MIN, INT16_MAX
      <4> QED
        BY <4>1 DEF CoderState
    <3> QED
      BY <3>2, <3>3
  <2>4. FrameOf(stream, b) = frame
    BY <1>2, <2>2 DEF FrameOf, MonoOf
  <2>5. Len(m) = n /\ \A k \in 1 .. n : m[k] \in Int
    <3> HIDE DEF n
    <3> QED
      BY <2>1, <2>2, <2>3
  <2> HIDE DEF m, n
  <2>6. Len(frame) = 2 * Len(m)
    BY <2>1, <2>5 DEF Upsampled
  <2>7. ASSUME NEW k \in 1 .. n
        PROVE  /\ frame[2 * k - 1] = <<m[k], m[k]>>
               /\ m[k] + after(k) - 2 * frame[2 * k][1] \in {0, 1}
               /\ frame[2 * k][2] = frame[2 * k][1]
    <3> DEFINE mid == IF k < n THEN (m[k] + m[k + 1]) \div 2 ELSE m[k]
    <3>1. /\ 2 * k - 1 \in 1 .. 2 * n /\ ((2 * k - 1) + 1) \div 2 = k /\ (2 * k - 1) % 2 = 1
          /\ 2 * k \in 1 .. 2 * n /\ (2 * k + 1) \div 2 = k /\ (2 * k) % 2 = 0
      BY <2>1
    <3>2. frame[2 * k - 1] = <<m[k], m[k]>> /\ frame[2 * k] = <<mid, mid>>
      <4>1. frame = [i \in 1 .. 2 * n |->
                       LET h == (i + 1) \div 2
                           x == IF h < n THEN (m[h] + m[h + 1]) \div 2 ELSE m[h]
                       IN  IF i % 2 = 1 THEN <<m[h], m[h]>> ELSE <<x, x>>]
        BY <2>5 DEF Upsampled
      <4> HIDE DEF frame
      <4> DEFINE i == 2 * k - 1
                 j == 2 * k
      <4>2. i \in 1 .. 2 * n /\ (i + 1) \div 2 = k /\ i % 2 = 1
        BY <3>1
      <4>3. j \in 1 .. 2 * n /\ (j + 1) \div 2 = k /\ ~(j % 2 = 1)
        BY <3>1
      <4> HIDE DEF i, j
      <4>4. frame[i] = <<m[k], m[k]>>
        BY <4>1, <4>2
      <4>5. frame[j] = <<mid, mid>>
        BY <4>1, <4>3
      <4> QED
        BY <4>4, <4>5 DEF i, j
    <3>3. m[k] + after(k) - 2 * mid \in {0, 1}
      <4>1. CASE k < n
        <5>1. k + 1 \in 1 .. n
          BY <2>1, <4>1
        <5>2. m[k] \in Int /\ m[k + 1] \in Int
          BY <2>5, <5>1
        <5>3. \A i, j \in Int : i + j - 2 * ((i + j) \div 2) \in {0, 1}
          OBVIOUS
        <5>4. m[k] + m[k + 1] - 2 * ((m[k] + m[k + 1]) \div 2) \in {0, 1}
          BY <5>2, <5>3
        <5> QED
          BY <2>5, <4>1, <5>4
      <4>2. CASE ~(k < n)
        <5>1. m[k] \in Int
          BY <2>5
        <5>2. \A i \in Int : i + i - 2 * i \in {0, 1}
          OBVIOUS
        <5> QED
          BY <2>5, <4>2, <5>1, <5>2
      <4> QED
        BY <4>1, <4>2
    <3> HIDE DEF mid
    <3>4. frame[2 * k][1] = mid /\ frame[2 * k][2] = mid
      BY <3>2
    <3> QED
      BY <3>2, <3>3, <3>4
  <2> HIDE DEF frame
  <2> QED
    BY <1>2, <2>4, <2>5, <2>6, <2>7 DEF Reproduces, m
<1>3. CASE ~IsOpus(stream) /\ ~IsMono(stream)
  <2>1. FrameOf(stream, b) =
          [k \in 1 .. stream.frames |-> <<Samples(b, 1)[k], Samples(b, 2)[k]>>]
    BY <1>3 DEF FrameOf, StereoOf, Samples
  <2> QED
    BY <1>3, <2>1 DEF Reproduces
<1> QED
  BY <1>1, <1>2, <1>3

(* A packet on the air is such a front, of the newest block and the ones   *)
(* before it.                                                              *)
LEMMA AirMade ==
  ASSUME PacketInv, blocks # <<>>, air # Silence
  PROVE  /\ stream \in StreamsSent /\ blocks[1] \in BlockOf(stream)
         /\ Tail(blocks) \in Seq(BlockOf(stream)) /\ air.copies \in 0 .. Len(Tail(blocks))
         /\ air.bytes \in Seq(Byte)
         /\ \A k \in 1 .. air.copies : Tail(blocks)[k] = blocks[k + 1]
                                       /\ blocks[k + 1] \in BlockOf(stream)
         /\ Fed = Made(air.bytes, stream, blocks[1], Tail(blocks), air.copies)
<1> DEFINE t == Tail(blocks)
           n == air.copies
           p == air.bytes
<1>1. /\ stream \in StreamsSent /\ blocks \in Seq(BlockOf(stream)) /\ p \in Seq(Byte)
      /\ n \in 0 .. MaxCopies /\ n <= Len(blocks) - 1
  BY DEF PacketInv, OnAir
<1>2. PICK relayed \in BOOLEAN :
        /\ Len(p) \in 1 .. Len(Written(stream, blocks[1], t, n, relayed))
        /\ \A i \in 1 .. Len(p) : p[i] = Written(stream, blocks[1], t, n, relayed)[i]
  BY DEF PacketInv, OnAir, Sent
<1>3. /\ Len(blocks) \in Nat /\ t \in Seq(BlockOf(stream)) /\ Len(t) = Len(blocks) - 1
      /\ \A i \in 1 .. Len(t) : t[i] = blocks[i + 1]
  BY <1>1, HeadTailProperties, LenProperties
<1> HIDE DEF t
<1>4. blocks[1] \in BlockOf(stream)
  <2>1. 1 \in 1 .. Len(blocks)
    BY <1>1, <1>3
  <2> QED
    BY <1>1, <2>1
<1> HIDE DEF n, p
<1>5. n \in 0 .. Len(t) /\ n \in Byte
  <2>1. MaxCopies \in Byte
    BY PacketAssumption
  <2>2. n \in Byte
    BY <1>1, <2>1 DEF Byte
  <2> QED
    BY <1>1, <1>3, <2>2, Limits
<1>6. FrontOf(p, stream, blocks[1], t, n)
  BY <1>1, <1>2, <1>3, <1>4, <1>5, FrontLaid
<1>7. Parse(p, 0) = Made(p, stream, blocks[1], t, n)
  BY <1>1, <1>3, <1>4, <1>5, <1>6, FrontMade
<1>8. \A k \in 1 .. n : t[k] = blocks[k + 1] /\ blocks[k + 1] \in BlockOf(stream)
  <2> SUFFICES ASSUME NEW k \in 1 .. n
               PROVE  t[k] = blocks[k + 1] /\ blocks[k + 1] \in BlockOf(stream)
    OBVIOUS
  <2>1. k \in 1 .. Len(t) /\ k + 1 \in 1 .. Len(blocks)
    BY <1>3, <1>5
  <2> QED
    BY <1>1, <1>3, <2>1
<1> QED
  BY <1>1, <1>3, <1>4, <1>5, <1>7, <1>8 DEF t, n, p, Fed

(* Whatever a receiver has missed, what it makes of a packet is what the   *)
(* coder that wrote it went through; a copy is that of its number.         *)
THEOREM PacketsExact == Spec => []WireExact
<1>1. PacketInv => WireExact
  <2> SUFFICES ASSUME PacketInv, blocks # <<>>, air # Silence
               PROVE  /\ Fed.own # <<>> => Reproduces(Fed.own[1], blocks[1])
                      /\ \A k \in 1 .. Len(Fed.copies) :
                           /\ Fed.copies[k].seq = blocks[k + 1].seq
                           /\ Reproduces(Fed.copies[k].frame, blocks[k + 1])
    BY DEF WireExact
  <2> DEFINE b == blocks[1]
             t == Tail(blocks)
             n == air.copies
             p == air.bytes
             U == Whole(p, stream, b, t, n)
  <2>1. /\ stream \in StreamsSent /\ b \in BlockOf(stream) /\ t \in Seq(BlockOf(stream))
        /\ n \in 0 .. Len(t) /\ p \in Seq(Byte)
        /\ \A k \in 1 .. n : t[k] = blocks[k + 1] /\ blocks[k + 1] \in BlockOf(stream)
        /\ Fed = Made(p, stream, b, t, n)
    BY AirMade
  <2>2. /\ Fed.own = IF Len(p) >= End(stream, b, t, 0) THEN <<FrameOf(stream, b)>> ELSE <<>>
        /\ Fed.copies = [k \in 1 .. Cardinality(U) |->
                           [seq |-> t[k].seq, frame |-> FrameOf(stream, t[k])]]
    BY <2>1 DEF Made
  <2>3. /\ Cardinality(U) \in Nat
        /\ \A k \in 1 .. Cardinality(U) : k \in U
    BY <2>1, WholeFirst
  <2>4. \A k \in U : k \in 1 .. n
    BY DEF Whole
  <2> HIDE DEF U
  <2>5. Len(Fed.copies) = Cardinality(U)
    BY <2>2, <2>3
  <2>6. ASSUME NEW k \in 1 .. Len(Fed.copies)
        PROVE  /\ Fed.copies[k].seq = blocks[k + 1].seq
               /\ Reproduces(Fed.copies[k].frame, blocks[k + 1])
    <3>1. k \in 1 .. Cardinality(U) /\ k \in 1 .. n
      BY <2>3, <2>4, <2>5
    <3>2. Fed.copies[k] = [seq |-> t[k].seq, frame |-> FrameOf(stream, t[k])]
      BY <2>2, <3>1
    <3>3. t[k] = blocks[k + 1] /\ blocks[k + 1] \in BlockOf(stream)
      BY <2>1, <3>1
    <3> HIDE DEF t
    <3>4. Reproduces(FrameOf(stream, blocks[k + 1]), blocks[k + 1])
      BY <2>1, <3>3, FrameReproduces
    <3> QED
      BY <3>2, <3>3, <3>4
  <2>7. Fed.own # <<>> => Fed.own[1] = FrameOf(stream, b)
    BY <2>2
  <2>8. Reproduces(FrameOf(stream, b), b)
    BY <2>1, FrameReproduces
  <2> QED
    BY <2>6, <2>7, <2>8
<1> QED
  BY <1>1, PacketInvInit, PacketInvNext, PTL DEF Spec

(* A packet cut short still gives all that it holds in whole, and nothing  *)
(* else.                                                                   *)
THEOREM WholePartsOnly == Spec => []WholePartsUsed
<1>1. PacketInv => WholePartsUsed
  <2> SUFFICES ASSUME PacketInv, blocks # <<>>, air # Silence
               PROVE  WholePartsUsed
    BY DEF WholePartsUsed
  <2> DEFINE b == blocks[1]
             t == Tail(blocks)
             n == air.copies
             p == air.bytes
             U == Whole(p, stream, b, t, n)
  <2>1. /\ stream \in StreamsSent /\ b \in BlockOf(stream) /\ t \in Seq(BlockOf(stream))
        /\ n \in 0 .. Len(t) /\ p \in Seq(Byte)
        /\ Fed = Made(p, stream, b, t, n)
    BY AirMade
  <2>2. /\ Fed.own = IF Len(p) >= End(stream, b, t, 0) THEN <<FrameOf(stream, b)>> ELSE <<>>
        /\ Fed.copies = [k \in 1 .. Cardinality(U) |->
                           [seq |-> t[k].seq, frame |-> FrameOf(stream, t[k])]]
    BY <2>1 DEF Made
  <2>3. Cardinality(U) \in Nat
    BY <2>1, WholeFirst
  <2>4. U = {k \in 1 .. n :
               /\ k <= IF IsOpus(stream) \/ IsMono(stream) THEN MAX_PIGGYBACK ELSE 1
               /\ Len(p) >= 4 + Len(Body(stream, b)) + Len(Entries(stream, t, k))}
    BY DEF Whole, Depth, End
  <2>5. Len(Fed.copies) = Cardinality(U)
    <3> HIDE DEF U
    <3> QED
      BY <2>2, <2>3
  <2>6. Fed.own # <<>> <=> Len(p) >= 4 + Len(Body(stream, b)) + Len(Entries(stream, t, 0))
    BY <2>2 DEF End
  <2> QED
    BY <2>4, <2>5, <2>6 DEF WholePartsUsed
<1> QED
  BY <1>1, PacketInvInit, PacketInvNext, PTL DEF Spec
=============================================================================
