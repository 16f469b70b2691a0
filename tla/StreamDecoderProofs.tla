------------------------ MODULE StreamDecoderProofs ------------------------
(***************************************************************************)
(* What the decoder plays and counts, for any modes, width of the sequence *)
(* number, caps, and any number of transmitters, packets and splices.      *)
(* Packets of a transmitter that arrive do so in the order they were sent  *)
(* (InOrder): StaleFrames.cfg shows what a late one does.  A gap of half a *)
(* turn of the sequence number is taken for a late packet, and whole turns *)
(* are not seen, so the seams and the counts are exact for gaps of less    *)
(* than half a turn; the order needs nothing of the sort.                  *)
(***************************************************************************)
EXTENDS StreamDecoder, WellFoundedInduction, SequenceTheorems, FiniteSetTheorems, TLAPS

InOrder == MaxLate = 0

(* A gap that is not filled whole begins with a concealed packet: the      *)
(* copies a packet carries cannot be the whole of what is recovered.       *)
CapsReach == MAX_PIGGYBACK < RecoverCap /\ SilenceCap >= 1

(***************************************************************************)
(* The inductive invariants.                                               *)
(***************************************************************************)
Transmitters == [next : Nat, first : Nat]
Decoders == [mode : Modes, seqInit : BOOLEAN, expected : 0 .. SeqMod - 1, fade : BOOLEAN,
             opus : BOOLEAN, shape : 0 .. 2]

Typed ==
  /\ tx \in [Macs -> Transmitters] /\ lock \in Macs \cup {NoMac} /\ dec \in Decoders
  /\ played \in [Macs -> Numbers \cup {None}] /\ tail \in Place /\ follows \in Place
  /\ splices \in 0 .. MaxSplices

(* A decoder d that tracks the locked source l expects the number after    *)
(* the packet f it decoded last, and the output has reached t, that packet,*)
(* unless the ring was reprimed or a fade is still to come.  One that does *)
(* not track will fade, or follows nothing.                                *)
Tied(d, l, f, t) ==
  /\ d.seqInit => /\ f.mac \in Macs /\ f.n \in Numbers /\ d.expected = Seq8(f.n + 1)
                  /\ l # NoMac => f.mac = l
                  /\ d.fade \/ t \in {f, Nowhere}
  /\ ~d.seqInit /\ ~d.fade /\ l # NoMac => t = Nowhere

Tracking == Tied(dec, lock, follows, tail)

(* What has been played of a source, and what was decoded of it last, lies *)
(* behind what it sends next.                                              *)
Behind ==
  \A m \in Macs : /\ played[m] < tx[m].next
                  /\ follows.mac = m => played[m] <= follows.n /\ follows.n < tx[m].next

(***************************************************************************)
(* Sequence numbers.                                                       *)
(***************************************************************************)
(* Quotient and remainder.                                                 *)
LEMMA DivMod ==
  ASSUME NEW M \in Nat, M > 0, NEW x \in Int
  PROVE  x = M * (x \div M) + (x % M) /\ x % M \in 0 .. M - 1 /\ x \div M \in Int
  OBVIOUS

(* A multiple of M that is not zero is at least M away from zero.          *)
LEMMA Multiples ==
  ASSUME NEW M \in Nat, M > 0, NEW k \in Int
  PROVE  M * k \in Int /\ (k >= 1 => M * k >= M) /\ (k <= -1 => M * k <= -M) /\ (k = 0 => M * k = 0)
  OBVIOUS

(* Two numbers less than a turn apart differ in their sequence numbers.    *)
LEMMA NumbersDiffer ==
  ASSUME NEW a \in Int, NEW b \in Int, a - b < SeqMod, b - a < SeqMod, Seq8(a) = Seq8(b)
  PROVE  a = b
<1> DEFINE p == a \div SeqMod
           q == b \div SeqMod
           s == a % SeqMod
           t == b % SeqMod
<1>1. SeqMod \in Nat /\ SeqMod > 0
  BY DecoderAssumption
<1>2. a = SeqMod * p + s /\ s \in 0 .. SeqMod - 1 /\ p \in Int
  BY <1>1, DivMod
<1>3. b = SeqMod * q + t /\ t \in 0 .. SeqMod - 1 /\ q \in Int
  BY <1>1, DivMod
<1>4. s = t
  BY DEF Seq8
<1> HIDE DEF p, q, s, t
<1>5. a - b = SeqMod * (p - q) /\ p - q \in Int
  BY <1>1, <1>2, <1>3, <1>4
<1> DEFINE k == p - q
<1>6. k \in Int /\ a - b = SeqMod * k
  BY <1>5
<1> HIDE DEF k
<1>7. (k >= 1 => SeqMod * k >= SeqMod) /\ (k <= -1 => SeqMod * k <= -SeqMod)
      /\ (k = 0 => SeqMod * k = 0)
  BY <1>1, <1>6, Multiples
<1> QED
  BY <1>1, <1>6, <1>7

(* The gap a number finds behind the packet f decoded last is what lies    *)
(* between them, but for whole turns.                                      *)
LEMMA GapBehind ==
  ASSUME NEW f \in Int, NEW n \in Int, f < n, NEW e, e = Seq8(f + 1)
  PROVE  /\ (n - e) % SeqMod \in 0 .. SeqMod - 1 /\ (n - e) % SeqMod <= n - f - 1
         /\ n - f - 1 < SeqMod => (n - e) % SeqMod = n - f - 1
<1> DEFINE x == f + 1
           y == n - e
           q == x \div SeqMod
           p == y \div SeqMod
           s == y % SeqMod
           k == p - q
<1>1. SeqMod \in Nat /\ SeqMod > 0 /\ x \in Int
  BY DecoderAssumption
<1>2. x = SeqMod * q + e /\ e \in 0 .. SeqMod - 1 /\ q \in Int
  BY <1>1, DivMod DEF Seq8
<1>3. y \in Int /\ n - x = (y + e) - x
  BY <1>2
<1>4. y = SeqMod * p + s /\ s \in 0 .. SeqMod - 1 /\ p \in Int
  BY <1>1, <1>3, DivMod
<1> HIDE DEF q, p, s
<1>5. k \in Int /\ SeqMod * k = SeqMod * p - SeqMod * q
  BY <1>1, <1>2, <1>4
<1> HIDE DEF k
<1>6. n - f - 1 = SeqMod * k + s
  BY <1>1, <1>2, <1>4, <1>5
<1>7. (k >= 1 => SeqMod * k >= SeqMod) /\ (k <= -1 => SeqMod * k <= -SeqMod)
      /\ (k = 0 => SeqMod * k = 0) /\ SeqMod * k \in Int
  BY <1>1, <1>5, Multiples
<1>8. s <= n - f - 1 /\ (n - f - 1 < SeqMod => s = n - f - 1)
  BY <1>1, <1>4, <1>5, <1>6, <1>7
<1> QED
  BY <1>4, <1>8 DEF s

(***************************************************************************)
(* What is recovered, and what a packet feeds.                             *)
(***************************************************************************)
(* A set of naturals that is not empty has a least element.                *)
LEMMA NatMin ==
  ASSUME NEW T \in SUBSET Nat, T # {}
  PROVE  \E x \in T : \A y \in T : x <= y
<1>1. PICK x \in T : \A y \in T : ~(<<y, x>> \in OpToRel(<, Nat))
  BY NatLessThanWellFounded, WFMin
<1>2. \A y \in T : ~(y < x)
  BY <1>1 DEF OpToRel
<1> QED
  BY <1>2

(* The copies packet n may carry: of packets before it.                    *)
Copies(n) == {[i \in 1 .. k |-> n - i] : k \in {j \in 0 .. MAX_PIGGYBACK : j <= n}}

(* The i-th copy is of the packet i before.                                *)
LEMMA CopiesOf ==
  ASSUME NEW n \in Nat, NEW entries \in Copies(n)
  PROVE  /\ Len(entries) \in 0 .. MAX_PIGGYBACK /\ Len(entries) <= n
         /\ \A j \in 1 .. Len(entries) : entries[j] = n - j
         /\ (entries = <<>> <=> Len(entries) = 0)
<1>1. PICK k \in {j \in 0 .. MAX_PIGGYBACK : j <= n} : entries = [i \in 1 .. k |-> n - i]
  BY DEF Copies
<1>2. k \in Nat /\ k <= MAX_PIGGYBACK
  BY <1>1, DecoderAssumption
<1>3. Len(entries) = k /\ entries \in Seq(Int)
  BY <1>1, <1>2
<1>4. entries = <<>> <=> Len(entries) = 0
  BY <1>3
<1>5. k \in 0 .. MAX_PIGGYBACK /\ k <= n
  BY <1>1
<1> QED
  BY <1>1, <1>3, <1>4, <1>5

(* A copy that is found is one of those, with the number asked for.        *)
LEMMA CopyFound ==
  ASSUME NEW n \in Nat, NEW entries \in Copies(n), NEW s
  PROVE  \/ Copy(entries, s) = None
         \/ \E j \in 1 .. Len(entries) : Copy(entries, s) = n - j /\ Seq8(n - j) = s
<1> DEFINE found == {k \in 1 .. Len(entries) : Seq8(entries[k]) = s}
<1>1. CASE found = {}
  BY <1>1 DEF Copy
<1>2. CASE found # {}
  <2>1. Len(entries) \in Nat /\ \A j \in 1 .. Len(entries) : entries[j] = n - j
    BY CopiesOf, DecoderAssumption
  <2>2. found \in SUBSET Nat
    BY <2>1
  <2>3. \E k \in found : \A j \in found : k <= j
    BY <1>2, <2>2, NatMin
  <2> DEFINE first == CHOOSE k \in found : \A j \in found : k <= j
  <2>4. first \in found
    BY <2>3
  <2>5. Copy(entries, s) = entries[first]
    BY <1>2 DEF Copy
  <2> HIDE DEF first
  <2> QED
    BY <2>1, <2>4, <2>5
<1> QED
  BY <1>1, <1>2

(* A recovered packet stands in its own place, so far as copies have       *)
(* numbers of their own; what has no copy is concealed there.              *)
Gap(d, n) == (n - d.expected) % SeqMod
Cap(d) == IF Body[d.mode] = "solid" THEN SilenceCap ELSE RecoverCap
Count(d, n) == IF Gap(d, n) > Cap(d) THEN Cap(d) ELSE Gap(d, n)

(* What is filled lies within the gap and within the cap.                  *)
LEMMA GapRange ==
  ASSUME NEW d \in Decoders, NEW n \in Nat
  PROVE  /\ Gap(d, n) \in 0 .. SeqMod - 1 /\ Cap(d) \in Nat
         /\ Count(d, n) \in 0 .. Gap(d, n) /\ Count(d, n) <= Cap(d)
<1>1. SeqMod \in Nat /\ SeqMod > 0 /\ Cap(d) \in Nat
  BY DecoderAssumption DEF Cap
<1>2. d.expected \in Int
  BY <1>1 DEF Decoders
<1>3. (n - d.expected) % SeqMod \in 0 .. SeqMod - 1
  BY <1>1, <1>2, DivMod
<1> QED
  BY <1>1, <1>3 DEF Gap, Count

(* A fill is of that many pieces, each in its own place and none faded     *)
(* yet; a first piece that is a real copy means the whole gap is filled.   *)
LEMMA Recovered ==
  ASSUME NEW d \in Decoders, NEW n \in Nat, NEW entries \in Copies(n)
  PROVE  LET fill == Recover(d, n, entries)
             c == Count(d, n)
         IN  /\ fill \in Seq(Item) /\ Len(fill) = c
             /\ \A i \in 1 .. c : fill[i].n = n - c + i - 1 /\ ~fill[i].faded
             /\ \A i \in 1 .. c : Body[d.mode] = "solid" /\ fill[i].real => c = 1
             /\ CapsReach /\ c >= 1 /\ fill[1].real => c = Gap(d, n)
             /\ c = 0 /\ CapsReach => Gap(d, n) = 0
<1> DEFINE gap == (n - d.expected) % SeqMod
           cap == IF Body[d.mode] = "solid" THEN SilenceCap ELSE RecoverCap
           count == IF gap > cap THEN cap ELSE gap
           solid == gap = 1 /\ entries # <<>> /\ Seq8(entries[1]) = d.expected
           place(i) == n - count + i - 1
           copy(i) == IF Body[d.mode] # "solid" THEN Copy(entries, Seq8(place(i)))
                      ELSE IF solid THEN entries[1] ELSE None
           len(i) == IF copy(i) = None /\ Body[d.mode] = "opus" THEN ConcealLen[d.mode] ELSE 1
           fill == Recover(d, n, entries)
<1>1. fill = [i \in 1 .. count |->
                [n |-> IF copy(i) # None THEN copy(i) ELSE place(i),
                 real |-> copy(i) # None, len |-> len(i), faded |-> FALSE]]
  BY DEF Recover
<1>2. gap = Gap(d, n) /\ cap = Cap(d) /\ count = Count(d, n)
  BY DEF Gap, Cap, Count
<1>3. gap \in 0 .. SeqMod - 1 /\ cap \in Nat /\ count \in 0 .. gap /\ count <= cap
  BY <1>2, GapRange
<1>4. SeqMod \in Nat /\ SeqMod > 0 /\ RecoverCap \in Nat /\ SilenceCap \in Nat
      /\ MAX_PIGGYBACK \in 0 .. SeqMod
  BY DecoderAssumption
<1>5. /\ Len(entries) \in 0 .. MAX_PIGGYBACK /\ Len(entries) <= n
      /\ \A j \in 1 .. Len(entries) : entries[j] = n - j
      /\ (entries = <<>> <=> Len(entries) = 0)
  BY CopiesOf
<1>6. ASSUME NEW i \in 1 .. count, Body[d.mode] # "solid", copy(i) # None
      PROVE  copy(i) = place(i) /\ count - i + 1 <= MAX_PIGGYBACK
  <2>1. copy(i) = Copy(entries, Seq8(place(i)))
    BY <1>6
  <2>2. PICK j \in 1 .. Len(entries) : copy(i) = n - j /\ Seq8(n - j) = Seq8(place(i))
    BY <1>6, <2>1, CopyFound
  <2> HIDE DEF gap, cap, count, copy
  <2>3. n - j \in Int /\ place(i) \in Int /\ (n - j) - place(i) = (count - i + 1) - j
    BY <1>3, <1>5, <2>2, <1>4
  <2>4. (n - j) - place(i) < SeqMod /\ place(i) - (n - j) < SeqMod
    BY <1>3, <1>4, <1>5, <2>2, <2>3
  <2>5. n - j = place(i)
    BY <2>2, <2>3, <2>4, NumbersDiffer
  <2> QED
    BY <2>2, <2>3, <2>5, <1>3, <1>4, <1>5
<1>7. ASSUME NEW i \in 1 .. count, Body[d.mode] = "solid", copy(i) # None
      PROVE  copy(i) = place(i) /\ gap = 1 /\ count = 1
  <2>1. solid /\ copy(i) = entries[1]
    BY <1>7
  <2>2. gap = 1 /\ count = 1 /\ i = 1
    BY <1>3, <2>1
  <2>3. entries[1] = n - 1
    BY <1>4, <1>5, <2>1
  <2> QED
    BY <2>1, <2>2, <2>3
<1>8. \A i \in 1 .. count : /\ fill[i].n = place(i) /\ ~fill[i].faded
                            /\ fill[i] \in Item
                            /\ fill[i].real <=> copy(i) # None
  <2> TAKE i \in 1 .. count
  <2> DEFINE v == IF copy(i) # None THEN copy(i) ELSE place(i)
             b == copy(i) # None
             l == len(i)
  <2>1. v = place(i) /\ b \in BOOLEAN /\ place(i) \in Int
    <3>1. copy(i) # None => copy(i) = place(i)
      BY <1>6, <1>7
    <3> HIDE DEF gap, cap, count, copy
    <3>2. place(i) \in Int
      BY <1>3, <1>4
    <3> QED
      BY <3>1, <3>2
  <2>2. fill[i] = [n |-> v, real |-> b, len |-> l, faded |-> FALSE]
    BY <1>1
  <2>3. l \in Nat
    <3>1. ConcealLen[d.mode] \in Nat
      BY DecoderAssumption DEF Decoders
    <3> HIDE DEF copy
    <3> QED
      BY <3>1
  <2> HIDE DEF v, b, l
  <2>4. fill[i] \in Item /\ fill[i].n = v /\ ~fill[i].faded /\ (fill[i].real <=> b)
    BY <2>1, <2>2, <2>3 DEF Item
  <2> QED
    BY <2>1, <2>4 DEF b
<1>9. DOMAIN fill = 1 .. count /\ count \in Nat
  BY <1>1, <1>3
<1>10. fill \in Seq(Item) /\ Len(fill) = count
  <2>1. fill \in [1 .. count -> Item]
    BY <1>1, <1>8
  <2> QED
    BY <1>9, <2>1
<1>11. CapsReach /\ count >= 1 /\ fill[1].real => count = gap
  <2> SUFFICES ASSUME CapsReach, count >= 1, fill[1].real PROVE count = gap
    OBVIOUS
  <2>1. 1 \in 1 .. count /\ copy(1) # None
    BY <1>3, <1>8
  <2>2. CASE Body[d.mode] = "solid"
    BY <1>7, <2>1, <2>2
  <2>3. CASE Body[d.mode] # "solid"
    <3>1. count <= MAX_PIGGYBACK
      BY <1>3, <1>6, <2>1, <2>3
    <3> QED
      BY <1>3, <1>4, <2>3, <3>1 DEF CapsReach
  <2> QED
    BY <2>2, <2>3
<1>12. count = 0 /\ CapsReach => gap = 0
  BY <1>3, <1>4 DEF CapsReach
<1>13. \A i \in 1 .. count : Body[d.mode] = "solid" /\ fill[i].real => count = 1
  BY <1>7, <1>8
<1> HIDE DEF gap, cap, fill, copy, len
<1> QED
  BY <1>2, <1>8, <1>10, <1>11, <1>12, <1>13 DEF fill

(* Refusals change nothing but what is heard.                              *)
LEMMA Refused ==
  ASSUME NEW items \in Seq(Item), NEW refused
  PROVE  LET left == Without(items, refused)
         IN  /\ left \in Seq(Item) /\ Len(left) = Len(items)
             /\ \A k \in 1 .. Len(items) : left[k].n = items[k].n /\ left[k].real = items[k].real
<1> DEFINE L(k) == IF k \in refused THEN 0 ELSE items[k].len
           left == Without(items, refused)
<1>1. Len(items) \in Nat /\ \A k \in 1 .. Len(items) : items[k] \in Item
  OBVIOUS
<1>2. left = [k \in 1 .. Len(items) |-> [items[k] EXCEPT !.len = L(k)]]
  BY DEF Without
<1>3. \A k \in 1 .. Len(items) : L(k) \in Nat
  BY <1>1 DEF Item
<1> HIDE DEF L, left
<1>4. \A k \in 1 .. Len(items) : /\ left[k] \in Item /\ left[k].n = items[k].n
                                 /\ left[k].real = items[k].real
  <2> TAKE k \in 1 .. Len(items)
  <2>1. left[k] = [items[k] EXCEPT !.len = L(k)]
    BY <1>2
  <2> QED
    BY <1>1, <1>3, <2>1 DEF Item
<1>5. left \in Seq(Item) /\ Len(left) = Len(items)
  <2>1. left \in [1 .. Len(items) -> Item]
    BY <1>2, <1>4
  <2>2. DOMAIN left = 1 .. Len(items)
    BY <1>2
  <2> QED
    BY <1>1, <2>1, <2>2
<1> QED
  BY <1>4, <1>5 DEF left

(* The fade goes to the first frame that is heard, when that is a real one.*)
LEMMA Fades ==
  ASSUME NEW d, d.fade \in BOOLEAN, NEW items \in Seq(Item)
  PROVE  LET fed == FadeIn(d, items)
         IN  /\ fed \in Seq(Item) /\ Len(fed) = Len(items)
             /\ \A k \in 1 .. Len(items) : /\ fed[k].n = items[k].n /\ fed[k].real = items[k].real
                                           /\ fed[k].len = items[k].len
             /\ \A k \in 1 .. Len(items) :
                  items[k].real /\ items[k].len > 0 /\ (\A j \in 1 .. k - 1 : ~(items[j].len > 0))
                    => (fed[k].faded <=> d.fade)
<1> DEFINE F(k) == d.fade /\ Ramped(d, items[k]) /\ \A j \in 1 .. k - 1 : ~Ramped(d, items[j])
           fed == FadeIn(d, items)
<1>1. Len(items) \in Nat /\ \A k \in 1 .. Len(items) : items[k] \in Item
  OBVIOUS
<1>2. fed = [k \in 1 .. Len(items) |-> [items[k] EXCEPT !.faded = F(k)]]
  BY DEF FadeIn
<1>3. \A k \in 1 .. Len(items) : F(k) \in BOOLEAN
  OBVIOUS
<1>4. \A k \in 1 .. Len(items) :
        items[k].real /\ items[k].len > 0 /\ (\A j \in 1 .. k - 1 : ~(items[j].len > 0))
          => (F(k) <=> d.fade)
  BY DEF Ramped
<1> HIDE DEF F
<1>5. \A k \in 1 .. Len(items) : /\ fed[k] \in Item /\ (fed[k].faded <=> F(k))
                                 /\ fed[k].n = items[k].n /\ fed[k].real = items[k].real
                                 /\ fed[k].len = items[k].len
  <2> TAKE k \in 1 .. Len(items)
  <2>1. fed[k] = [items[k] EXCEPT !.faded = F(k)]
    BY <1>2
  <2> QED
    BY <1>1, <1>3, <2>1 DEF Item
<1>6. fed \in Seq(Item) /\ Len(fed) = Len(items)
  <2>1. fed \in [1 .. Len(items) -> Item]
    BY <1>2, <1>5
  <2>2. DOMAIN fed = 1 .. Len(items)
    BY <1>2
  <2> QED
    BY <1>1, <2>1, <2>2
<1> HIDE DEF fed
<1> QED
  BY <1>1, <1>4, <1>5, <1>6 DEF fed

(* The packets recovered in a fill are some of it.                         *)
LEMMA RecoveredOf ==
  ASSUME NEW c \in Nat, NEW S \in SUBSET (1 .. c)
  PROVE  Cardinality(S) \in 0 .. c /\ (S = {} => Cardinality(S) = 0)
<1>1. IsFiniteSet(1 .. c) /\ Cardinality(1 .. c) = c
  BY FS_Interval
<1>2. IsFiniteSet(S) /\ Cardinality(S) <= c
  BY <1>1, FS_Subset
<1>3. Cardinality(S) \in Nat
  BY <1>2, FS_CardinalityType
<1>4. S = {} => Cardinality(S) = 0
  BY FS_EmptySet
<1> QED
  BY <1>2, <1>3, <1>4

(* A packet decoded.                                                       *)
Filled(d, n) == IF Kind(d, n) = "loss" THEN Count(d, n) ELSE 0

(* A packet feeds the fill and itself, each in its own place.              *)
LEMMA Fills ==
  ASSUME NEW d \in Decoders, NEW n \in Nat, NEW entries \in Copies(n)
  PROVE  LET all == Pieces(d, n, entries)
             c == Filled(d, n)
         IN  /\ c \in Nat /\ all \in Seq(Item) /\ Len(all) = c + 1
             /\ \A i \in 1 .. c + 1 : all[i].n = n - c - 1 + i
             /\ CapsReach /\ Kind(d, n) = "loss" /\ all[1].real => c = Gap(d, n)
             /\ \A i \in 1 .. c : all[i].real => (Body[d.mode] = "solid" => c = 1)
<1> DEFINE kind == Kind(d, n)
           fill == IF kind = "loss" THEN Recover(d, n, entries) ELSE <<>>
           own == [n |-> n, real |-> TRUE, len |-> 1, faded |-> FALSE]
           all == Pieces(d, n, entries)
           c == Filled(d, n)
<1>1. Count(d, n) \in Nat /\ Count(d, n) <= Cap(d)
  BY GapRange
<1>2. fill \in Seq(Item) /\ Len(fill) = c /\ \A i \in 1 .. c : fill[i].n = n - c + i - 1
  <2>1. CASE kind = "loss"
    BY <2>1, Recovered DEF Filled
  <2>2. CASE kind # "loss"
    BY <2>2 DEF Filled
  <2> QED
    BY <2>1, <2>2
<1>3. c \in Nat
  BY <1>1 DEF Filled
<1>4. own \in Item /\ own.n = n /\ own.real
  BY DEF Item
<1>5. all = Append(fill, own)
  BY DEF Pieces
<1>6. \A i \in 1 .. c : kind = "loss" /\ fill = Recover(d, n, entries) /\ c = Count(d, n)
  BY DEF Filled
<1>7. \A i \in 1 .. c : fill[i].real => (Body[d.mode] = "solid" => c = 1)
  BY <1>6, Recovered
<1>8. CapsReach /\ kind = "loss" /\ c >= 1 /\ fill[1].real => c = Gap(d, n)
  BY Recovered DEF Filled
<1>9. CapsReach /\ kind = "loss" /\ c = 0 => c = Gap(d, n)
  BY Recovered DEF Filled
<1> HIDE DEF fill, own, c, all, kind
<1>10. /\ all \in Seq(Item) /\ Len(all) = c + 1 /\ all[c + 1] = own
       /\ \A i \in 1 .. c : all[i] = fill[i]
  BY <1>2, <1>4, <1>5, AppendProperties
<1>11. \A i \in 1 .. c + 1 : all[i].n = n - c - 1 + i
  <2> TAKE i \in 1 .. c + 1
  <2>1. CASE i = c + 1
    BY <1>3, <1>4, <1>10, <2>1
  <2>2. CASE i # c + 1
    <3>1. i \in 1 .. c
      BY <1>3, <2>2
    <3>2. all[i].n = n - c + i - 1
      BY <1>2, <1>10, <3>1
    <3> QED
      BY <1>3, <3>1, <3>2
  <2> QED
    BY <2>1, <2>2
<1>12. CapsReach /\ kind = "loss" /\ all[1].real => c = Gap(d, n)
  <2>1. c >= 1 => all[1] = fill[1]
    BY <1>3, <1>10
  <2> QED
    BY <1>3, <1>8, <1>9, <2>1
<1> QED
  BY <1>3, <1>7, <1>10, <1>11, <1>12 DEF all, kind, c

(* What is decoded: the tracking moves to the packet behind, and the       *)
(* output is the fill and the packet itself, of its place each.            *)
Tracks(d, n, res) ==
  LET fed == res.fed
      c == Filled(d, n)
  IN  /\ res.dec \in Decoders /\ res.dec.seqInit /\ res.dec.expected = Seq8(n + 1)
      /\ res.resync \in BOOLEAN /\ (res.resync <=> Kind(d, n) = "resync")
      /\ res.lost = IF Kind(d, n) = "loss" THEN Gap(d, n) ELSE 0
      /\ res.recovered \in 0 .. c /\ (RecoverCap >= 1 => res.recovered <= RecoverCap)
      /\ c \in Nat /\ fed \in Seq(Item) /\ Len(fed) = c + 1
      /\ \A i \in 1 .. c + 1 : fed[i].n = n - c - 1 + i
      /\ CapsReach /\ Kind(d, n) = "loss" /\ fed[1].real => c = Gap(d, n)

(* The fade of d, or of a splice, goes to the first frame that is heard and*)
(* waits while none is.                                                    *)
FadeWaits(d, n, res) ==
  LET fades == d.fade \/ Kind(d, n) = "resync"
  IN  /\ fades /\ Heard(res.fed) = {} => res.dec.fade
      /\ \A k \in Heard(res.fed) :
           (\A j \in Heard(res.fed) : k <= j) /\ res.fed[k].real => (res.fed[k].faded <=> fades)

(* Both hold whatever the backend refuses.                                 *)
LEMMA Decoded ==
  ASSUME NEW d \in Decoders, NEW m, NEW n \in Nat, NEW entries \in Copies(n), NEW refused
  PROVE  /\ Tracks(d, n, Decode(d, m, n, entries, refused))
         /\ FadeWaits(d, n, Decode(d, m, n, entries, refused))
<1> DEFINE kind == Kind(d, n)
           all == Pieces(d, n, entries)
           faded == [d EXCEPT !.fade = d.fade \/ kind = "resync"]
           items == Without(all, refused)
           fed == FadeIn(faded, items)
           S == {i \in 1 .. Len(all) - 1 : all[i].real}
           waits == faded.fade /\ \A k \in 1 .. Len(items) : ~Ramped(d, items[k])
           res == Decode(d, m, n, entries, refused)
           c == Filled(d, n)
           fades == d.fade \/ kind = "resync"
<1>1. res = [dec |-> [faded EXCEPT !.seqInit = TRUE, !.expected = Seq8(n + 1), !.fade = waits],
             fed |-> fed,
             lost |-> IF kind = "loss" THEN (n - d.expected) % SeqMod ELSE 0,
             recovered |-> Cardinality(S), resync |-> kind = "resync"]
  BY DEF Decode
<1>2. faded \in Decoders /\ (faded.fade <=> fades) /\ faded.fade \in BOOLEAN
  BY DEF Decoders
<1>3. /\ c \in Nat /\ all \in Seq(Item) /\ Len(all) = c + 1
      /\ \A i \in 1 .. c + 1 : all[i].n = n - c - 1 + i
      /\ CapsReach /\ kind = "loss" /\ all[1].real => c = Gap(d, n)
      /\ \A i \in 1 .. c : all[i].real => (Body[d.mode] = "solid" => c = 1)
  BY Fills
<1>4. waits \in BOOLEAN
  BY <1>2
<1>5. (\A k \in 1 .. Len(items) : ~(items[k].len > 0))
        => \A k \in 1 .. Len(items) : ~Ramped(d, items[k])
  BY DEF Ramped
<1>6. fades /\ (\A k \in 1 .. Len(items) : ~(items[k].len > 0)) => waits
  BY <1>2, <1>5
<1> HIDE DEF all
<1>7. /\ items \in Seq(Item) /\ Len(items) = c + 1
      /\ \A k \in 1 .. c + 1 : items[k].n = all[k].n /\ items[k].real = all[k].real
  BY <1>3, Refused
<1> HIDE DEF items, faded, waits
<1>8. /\ fed \in Seq(Item) /\ Len(fed) = c + 1
      /\ \A k \in 1 .. c + 1 : /\ fed[k].n = items[k].n /\ fed[k].real = items[k].real
                               /\ fed[k].len = items[k].len
      /\ \A k \in 1 .. c + 1 :
           items[k].real /\ items[k].len > 0 /\ (\A j \in 1 .. k - 1 : ~(items[j].len > 0))
             => (fed[k].faded <=> fades)
  BY <1>2, <1>7, Fades
<1> HIDE DEF fed, c, fades
<1>9. /\ \A i \in 1 .. c + 1 : fed[i].n = n - c - 1 + i
      /\ CapsReach /\ kind = "loss" /\ fed[1].real => c = Gap(d, n)
  <2>1. \A i \in 1 .. c + 1 : fed[i].n = all[i].n /\ fed[i].real = all[i].real
    BY <1>7, <1>8
  <2>2. 1 \in 1 .. c + 1
    BY <1>3
  <2> HIDE DEF kind
  <2> QED
    BY <1>3, <2>1, <2>2
<1>10. Heard(fed) = {k \in 1 .. c + 1 : items[k].len > 0}
  BY <1>8 DEF Heard
<1>11. \A k \in Heard(fed) :
         (\A j \in Heard(fed) : k <= j) /\ fed[k].real => (fed[k].faded <=> fades)
  <2> SUFFICES ASSUME NEW k \in Heard(fed), \A j \in Heard(fed) : k <= j, fed[k].real
               PROVE  fed[k].faded <=> fades
    OBVIOUS
  <2>1. k \in 1 .. c + 1 /\ items[k].len > 0 /\ items[k].real
    BY <1>8, <1>10
  <2>2. \A j \in 1 .. k - 1 : ~(items[j].len > 0)
    BY <1>3, <1>10, <2>1
  <2> QED
    BY <1>8, <2>1, <2>2
<1>12. fades /\ Heard(fed) = {} => waits
  BY <1>6, <1>7, <1>10
<1>13. res.dec \in Decoders /\ res.dec.seqInit /\ res.dec.expected = Seq8(n + 1)
       /\ (res.dec.fade <=> waits)
  <2> DEFINE e == Seq8(n + 1)
  <2>1. e \in 0 .. SeqMod - 1
    BY DivMod, DecoderAssumption DEF Seq8
  <2>2. res.dec = [faded EXCEPT !.seqInit = TRUE, !.expected = e, !.fade = waits]
    BY <1>1
  <2> HIDE DEF e, res
  <2>3. res.dec \in Decoders /\ res.dec.seqInit /\ res.dec.expected = e /\ (res.dec.fade <=> waits)
    BY <1>2, <1>4, <2>1, <2>2 DEF Decoders
  <2> QED
    BY <2>3 DEF e
<1>14. res.recovered \in 0 .. c /\ (RecoverCap >= 1 => res.recovered <= RecoverCap)
  <2>1. S \in SUBSET (1 .. c)
    BY <1>3
  <2>2. res.recovered = Cardinality(S)
    BY <1>1
  <2>3. \A i \in S : Body[d.mode] = "solid" => c = 1
    BY <1>3, <2>1
  <2> HIDE DEF S
  <2>4. Cardinality(S) \in 0 .. c /\ (S = {} => Cardinality(S) = 0)
    BY <1>3, <2>1, RecoveredOf
  <2>5. S # {} => c <= RecoverCap \/ c = 1
    <3>1. Count(d, n) \in Nat /\ Count(d, n) <= Cap(d)
      BY GapRange
    <3> QED
      BY <2>3, <3>1, DecoderAssumption DEF Filled, Cap, c
  <2> QED
    BY <1>3, <2>2, <2>4, <2>5, DecoderAssumption
<1>15. /\ res.resync = (kind = "resync") /\ res.fed = fed
       /\ res.lost = IF kind = "loss" THEN Gap(d, n) ELSE 0
  BY <1>1 DEF Gap
<1>16. res.resync \in BOOLEAN /\ (res.resync <=> kind = "resync")
  BY <1>15, Zenon
<1> HIDE DEF res, kind
<1>17. Tracks(d, n, res)
  BY <1>3, <1>8, <1>9, <1>13, <1>14, <1>15, <1>16 DEF Tracks, kind, c
<1>18. FadeWaits(d, n, res)
  BY <1>11, <1>12, <1>13, <1>15 DEF FadeWaits, kind, fades
<1> QED
  BY <1>17, <1>18 DEF res

(***************************************************************************)
(* What a packet n taken from the locked source m plays and counts, from   *)
(* the invariants: f is the packet decoded last, t what the output ends    *)
(* with, p the last one played.                                            *)
(***************************************************************************)
(* Everything fed lies behind p, each in its own place.                    *)
Ordered(p, fed) ==
  \A i \in 1 .. Len(fed) : fed[i].n > p /\ fed[i].n = fed[Len(fed)].n - Len(fed) + i

(* So it does when the tracking is of a packet no older than p.            *)
LEMMA InPlace ==
  ASSUME NEW d \in Decoders, NEW m, NEW n \in Nat, NEW entries \in Copies(n), NEW refused,
         NEW p \in Int, p < n, d.seqInit => \E f \in p .. n - 1 : d.expected = Seq8(f + 1)
  PROVE  Ordered(p, Decode(d, m, n, entries, refused).fed)
<1> DEFINE c == Filled(d, n)
           fed == Decode(d, m, n, entries, refused).fed
<1>1. Len(fed) = c + 1 /\ \A i \in 1 .. c + 1 : fed[i].n = n - c - 1 + i
  BY Decoded DEF Tracks
<1>2. c \in Nat /\ n - c > p
  <2>1. Count(d, n) \in 0 .. Gap(d, n) /\ Gap(d, n) \in Nat
    BY GapRange, DecoderAssumption
  <2>2. CASE Kind(d, n) = "loss"
    <3>1. PICK f \in p .. n - 1 : d.expected = Seq8(f + 1)
      BY <2>2 DEF Kind
    <3>2. Gap(d, n) <= n - f - 1
      BY <3>1, GapBehind DEF Gap
    <3> QED
      BY <2>1, <2>2, <3>1, <3>2 DEF Filled
  <2>3. CASE Kind(d, n) # "loss"
    BY <2>3 DEF Filled
  <2> QED
    BY <2>2, <2>3
<1> HIDE DEF fed, c
<1>3. fed[Len(fed)].n = n
  BY <1>1, <1>2
<1>4. Ordered(p, fed)
  <2> SUFFICES ASSUME NEW i \in 1 .. Len(fed)
               PROVE  fed[i].n > p /\ fed[i].n = fed[Len(fed)].n - Len(fed) + i
    BY DEF Ordered
  <2>1. fed[i].n = n - c - 1 + i /\ i \in 1 .. c + 1
    BY <1>1
  <2> QED
    BY <1>1, <1>2, <1>3, <2>1
<1> QED
  BY <1>4 DEF fed

(* The kind of a gap of less than half a turn.                             *)
LEMMA Kinds ==
  ASSUME NEW d \in Decoders, NEW n \in Nat, NEW f \in Int, d.seqInit,
         d.expected = Seq8(f + 1), f < n, 2 * (n - f - 1) < SeqMod
  PROVE  /\ Gap(d, n) = n - f - 1
         /\ n - f - 1 = 0 => Kind(d, n) # "loss" /\ Kind(d, n) # "resync"
         /\ n - f - 1 >= ResyncGap => Kind(d, n) # "loss" /\ Kind(d, n) = "resync"
         /\ n - f - 1 > 0 /\ n - f - 1 < ResyncGap => Kind(d, n) = "loss" /\ Kind(d, n) # "resync"
<1>1. SeqMod \in Nat /\ ResyncGap \in Nat /\ ResyncGap >= 1
  BY DecoderAssumption
<1>2. Gap(d, n) = n - f - 1
  BY <1>1, GapBehind DEF Gap
<1>3. Kind(d, n) = ClassifyGap(Gap(d, n))
  BY DEF Kind, Gap
<1>4. n - f - 1 \in Nat
  BY <1>1
<1> DEFINE g == Gap(d, n)
           k == Kind(d, n)
<1>5. g \in Nat /\ 2 * g < SeqMod
  BY <1>2, <1>4
<1>6. k = ClassifyGap(g)
  BY <1>3
<1> HIDE DEF g, k
<1>7. /\ g = 0 => k # "loss" /\ k # "resync"
      /\ g >= ResyncGap => k # "loss" /\ k = "resync"
      /\ g > 0 /\ g < ResyncGap => k = "loss" /\ k # "resync"
  <2>1. ~(2 * g >= SeqMod) /\ (g = 0 => ~(g >= ResyncGap)) /\ (g < ResyncGap <=> ~(g >= ResyncGap))
    BY <1>1, <1>5
  <2>2. k = IF g = 0 THEN "in order"
            ELSE IF 2 * g >= SeqMod THEN "stale"
            ELSE IF g >= ResyncGap THEN "resync" ELSE "loss"
    BY <1>6 DEF ClassifyGap
  <2>3. g > 0 => g # 0
    BY <1>5
  <2> QED
    BY <2>1, <2>2, <2>3, Zenon
<1> QED
  BY <1>2, <1>7 DEF g, k

(* The first frame that is heard fades in, or it follows what is there, or *)
(* the output stands at the packet before the gap.                         *)
LEMMA Seams ==
  ASSUME CapsReach, NEW d \in Decoders, NEW m \in Macs, NEW n \in Nat,
         NEW entries \in Copies(n), NEW refused, NEW f \in Place, NEW t \in Place,
         Tied(d, m, f, t), d.seqInit => f.n < n /\ 2 * (n - f.n - 1) < SeqMod
  PROVE  LET fed == Decode(d, m, n, entries, refused).fed
             since == IF d.seqInit THEN n - f.n ELSE 0
         IN  \A k \in Heard(fed) :
               (\A j \in Heard(fed) : k <= j) /\ fed[k].real /\ t # Nowhere =>
                 \/ fed[k].faded
                 \/ t = [mac |-> m, n |-> fed[1].n - 1]
                 \/ k > 1 /\ since \in 1 .. ResyncGap
                          /\ t = [mac |-> m, n |-> fed[Len(fed)].n - since]
<1> DEFINE c == Filled(d, n)
           fed == Decode(d, m, n, entries, refused).fed
           since == IF d.seqInit THEN n - f.n ELSE 0
<1> SUFFICES ASSUME NEW k \in Heard(fed), \A j \in Heard(fed) : k <= j, fed[k].real,
                    t # Nowhere, ~fed[k].faded
             PROVE  \/ t = [mac |-> m, n |-> fed[1].n - 1]
                    \/ k > 1 /\ since \in 1 .. ResyncGap
                             /\ t = [mac |-> m, n |-> fed[Len(fed)].n - since]
  OBVIOUS
<1>1. /\ c \in Nat /\ Len(fed) = c + 1 /\ \A i \in 1 .. c + 1 : fed[i].n = n - c - 1 + i
      /\ Kind(d, n) = "loss" /\ fed[1].real => c = Gap(d, n)
  BY Decoded DEF Tracks
<1>2. ~d.fade /\ Kind(d, n) # "resync"
  BY Decoded DEF FadeWaits
<1>3. d.seqInit /\ f.mac = m /\ t = f /\ d.expected = Seq8(f.n + 1) /\ f.n \in Int
  BY <1>2, DecoderAssumption DEF Tied, Place, Nowhere
<1>4. /\ Gap(d, n) = n - f.n - 1
      /\ n - f.n - 1 = 0 => Kind(d, n) # "loss" /\ Kind(d, n) # "resync"
      /\ n - f.n - 1 >= ResyncGap => Kind(d, n) # "loss" /\ Kind(d, n) = "resync"
      /\ n - f.n - 1 > 0 /\ n - f.n - 1 < ResyncGap
           => Kind(d, n) = "loss" /\ Kind(d, n) # "resync"
  BY <1>3, Kinds
<1>5. f.n < n /\ since = n - f.n /\ ResyncGap \in Nat
  BY <1>3, DecoderAssumption
<1>6. t = [mac |-> m, n |-> f.n]
  BY <1>3 DEF Place
<1>7. since \in 1 .. ResyncGap
  <2> DEFINE x == n - f.n - 1
  <2>1. x \in Nat /\ ~(x >= ResyncGap)
    BY <1>2, <1>3, <1>4, <1>5
  <2> HIDE DEF since
  <2> QED
    BY <1>3, <1>5, <2>1
<1>8. k \in 1 .. Len(fed)
  BY DEF Heard
<1>9. CASE k > 1
  <2> HIDE DEF fed, c, since
  <2>1. fed[Len(fed)].n - since = f.n
    BY <1>1, <1>3, <1>5
  <2> QED
    BY <1>6, <1>7, <1>9, <2>1
<1>10. CASE k = 1
  <2>1. n - f.n - 1 = c
    <3>1. CASE Kind(d, n) = "loss"
      BY <1>1, <1>4, <1>10, <3>1
    <3>2. CASE Kind(d, n) # "loss"
      <4>1. c = 0
        BY <3>2 DEF Filled
      <4> DEFINE x == n - f.n - 1
      <4>2. x \in Nat /\ ~(x >= ResyncGap) /\ ~(x > 0 /\ x < ResyncGap)
        BY <1>2, <1>3, <1>4, <1>5, <3>2
      <4> HIDE DEF x
      <4>3. x = 0
        BY <1>5, <4>2
      <4> QED
        BY <4>1, <4>3 DEF x
    <3> QED
      BY <3>1, <3>2
  <2> HIDE DEF fed, c, since
  <2>2. fed[1].n - 1 = f.n
    BY <1>1, <1>3, <2>1
  <2> QED
    BY <1>6, <2>2
<1> QED
  BY <1>1, <1>8, <1>9, <1>10

(* What is counted as lost is what lies between.                           *)
LEMMA Counts ==
  ASSUME NEW d \in Decoders, NEW m, NEW n \in Nat, NEW entries \in Copies(n), NEW refused,
         NEW f \in Int
  PROVE  LET res == Decode(d, m, n, entries, refused)
         IN  /\ res.recovered \in Nat /\ res.recovered <= res.lost
             /\ res.lost \in 0 .. SeqMod \div 2
             /\ d.seqInit /\ d.expected = Seq8(f + 1) /\ f < n /\ 2 * (n - f - 1) < SeqMod =>
                  /\ res.lost = IF n - f - 1 < ResyncGap THEN n - f - 1 ELSE 0
                  /\ res.resync <=> n - f > ResyncGap
<1> DEFINE res == Decode(d, m, n, entries, refused)
           c == Filled(d, n)
<1>1. /\ res.resync <=> Kind(d, n) = "resync"
      /\ res.lost = IF Kind(d, n) = "loss" THEN Gap(d, n) ELSE 0
      /\ res.recovered \in 0 .. c
  BY Decoded DEF Tracks
<1>2. /\ Gap(d, n) \in Nat /\ Count(d, n) \in 0 .. Gap(d, n) /\ SeqMod \in Nat
      /\ ResyncGap \in Nat /\ ResyncGap >= 1
  BY GapRange, DecoderAssumption
<1>3. Kind(d, n) = "loss" => 2 * Gap(d, n) < SeqMod
  BY <1>2 DEF Kind, ClassifyGap, Gap
<1>4. ASSUME d.seqInit, d.expected = Seq8(f + 1), f < n, 2 * (n - f - 1) < SeqMod
      PROVE  /\ res.lost = IF n - f - 1 < ResyncGap THEN n - f - 1 ELSE 0
             /\ res.resync <=> n - f > ResyncGap
  <2>1. /\ Gap(d, n) = n - f - 1
        /\ n - f - 1 = 0 => Kind(d, n) # "loss" /\ Kind(d, n) # "resync"
        /\ n - f - 1 >= ResyncGap => Kind(d, n) # "loss" /\ Kind(d, n) = "resync"
        /\ n - f - 1 > 0 /\ n - f - 1 < ResyncGap
             => Kind(d, n) = "loss" /\ Kind(d, n) # "resync"
    BY <1>4, Kinds
  <2>2. n - f - 1 \in Nat /\ ResyncGap \in Nat /\ ResyncGap >= 1
    BY <1>2, <1>4
  <2> HIDE DEF res
  <2>3. CASE n - f - 1 = 0
    BY <1>1, <2>1, <2>2, <2>3
  <2>4. CASE n - f - 1 > 0 /\ n - f - 1 < ResyncGap
    BY <1>1, <2>1, <2>2, <2>4
  <2>5. CASE n - f - 1 >= ResyncGap
    BY <1>1, <2>1, <2>2, <2>5
  <2> QED
    BY <2>2, <2>3, <2>4, <2>5
<1>5. c \in 0 .. IF Kind(d, n) = "loss" THEN Gap(d, n) ELSE 0
  BY <1>2 DEF Filled
<1> HIDE DEF res, c
<1>6. res.recovered \in Nat /\ res.recovered <= res.lost
  BY <1>1, <1>2, <1>5
<1>7. res.lost \in 0 .. SeqMod \div 2
  BY <1>1, <1>2, <1>3
<1> QED
  BY <1>4, <1>6, <1>7 DEF res

(***************************************************************************)
(* What a step leaves.                                                     *)
(***************************************************************************)
(* A lock change keeps the mode and the Opus decoder.                      *)
LEMMA Restarts ==
  ASSUME NEW d \in Decoders
  PROVE  /\ Restart(d) \in Decoders /\ ~Restart(d).seqInit /\ Restart(d).fade
         /\ Restart(d).mode = d.mode /\ Restart(d).shape = d.shape
<1> DEFINE e == Restart(d)
<1>1. e = [d EXCEPT !.seqInit = FALSE, !.fade = TRUE]
  BY DEF Restart
<1> HIDE DEF e
<1>2. e \in Decoders /\ ~e.seqInit /\ e.fade /\ e.mode = d.mode /\ e.shape = d.shape
  BY <1>1 DEF Decoders
<1> QED
  BY <1>2 DEF e

(* A new mode starts without tracking.                                     *)
LEMMA NewMode ==
  ASSUME NEW d \in Decoders, NEW mode \in Modes, NEW allocates \in BOOLEAN
  PROVE  ApplyMode(d, mode, allocates) \in Decoders /\ ~ApplyMode(d, mode, allocates).seqInit
<1> DEFINE shape == IF Body[mode] = "opus" /\ d.opus
                      THEN Reset(d.shape, Channels[mode], allocates) ELSE d.shape
           e == ApplyMode(d, mode, allocates)
<1>1. Channels[mode] \in 0 .. 2 /\ d.shape \in 0 .. 2
  BY DecoderAssumption DEF Decoders
<1>2. shape \in 0 .. 2
  BY <1>1 DEF Reset
<1>3. e = [d EXCEPT !.mode = mode, !.seqInit = FALSE, !.shape = shape]
  BY DEF ApplyMode
<1> HIDE DEF e, shape
<1>4. e \in Decoders /\ ~e.seqInit
  BY <1>2, <1>3 DEF Decoders
<1> QED
  BY <1>4 DEF e

(* A selector call leaves the decoder tied to the lock it leaves.          *)
LEMMA Settles ==
  ASSUME NEW d \in Decoders, NEW from, NEW to \in Macs \cup {NoMac}, NEW changed \in BOOLEAN,
         NEW f, NEW t, LockStep(from, to, changed)
  PROVE  LET e == IF changed THEN Restart(d) ELSE d
         IN  e \in Decoders /\ (Tied(d, from, f, t) => Tied(e, to, f, t))
<1> DEFINE e == IF changed THEN Restart(d) ELSE d
<1>1. CASE changed
  <2>1. /\ e \in Decoders /\ ~e.seqInit /\ e.fade /\ e.mode = d.mode /\ e.shape = d.shape
    BY <1>1, Restarts
  <2> HIDE DEF e
  <2>2. e \in Decoders /\ (Tied(d, from, f, t) => Tied(e, to, f, t))
    BY <2>1 DEF Tied
  <2> QED
    BY <2>2 DEF e
<1>2. CASE ~changed
  <2>1. e = d /\ (to = from \/ to = NoMac)
    BY <1>2 DEF LockStep
  <2>2. Tied(d, from, f, t) => Tied(d, to, f, t)
    BY <2>1 DEF Tied
  <2> QED
    BY <2>1, <2>2
<1> QED
  BY <1>1, <1>2

(* A forced re-lock forgets the tracking.                                  *)
LEMMA Forgets ==
  ASSUME NEW d \in Decoders, NEW l, NEW f, NEW t
  PROVE  LET e == [d EXCEPT !.seqInit = FALSE]
         IN  e \in Decoders /\ (Tied(d, l, f, t) => Tied(e, NoMac, f, t))
<1> DEFINE e == [d EXCEPT !.seqInit = FALSE]
<1>1. e \in Decoders /\ ~e.seqInit /\ e.mode = d.mode /\ e.shape = d.shape
  BY DEF Decoders
<1> HIDE DEF e
<1>2. e \in Decoders /\ (Tied(d, l, f, t) => Tied(e, NoMac, f, t))
  BY <1>1 DEF Tied
<1> QED
  BY <1>2 DEF e

(* Housekeeping after it.                                                  *)
LEMMA Ticks ==
  ASSUME NEW d \in Decoders, NEW from, Tick(d, from), NEW f, NEW t
  PROVE  /\ lock' \in Macs \cup {NoMac} /\ dec' \in Decoders
         /\ Tied(d, from, f, t) => Tied(dec', lock', f, t)
<1>1. PICK to \in Macs \cup {NoMac}, changed \in BOOLEAN :
        /\ LockStep(from, to, changed)
        /\ lock' = to
        /\ dec' = IF changed THEN Restart(d) ELSE d
  BY Zenon DEF Tick
<1> DEFINE e == IF changed THEN Restart(d) ELSE d
<1>2. e \in Decoders /\ (Tied(d, from, f, t) => Tied(e, to, f, t))
  BY <1>1, Settles
<1> HIDE DEF e
<1>3. lock' = to /\ dec' = e
  BY <1>1 DEF e
<1> QED
  BY <1>2, <1>3

(* A packet that arrives is one of the transmitter's, moves it on, and     *)
(* carries copies of packets before it.                                    *)
LEMMA Arrives ==
  ASSUME tx \in [Macs -> Transmitters], NEW m \in Macs, NEW n \in Arrivals(m), Sent(m, n)
  PROVE  /\ n \in Nat /\ n \in Numbers /\ (InOrder => n >= tx[m].next)
         /\ tx' \in [Macs -> Transmitters] /\ tx'[m].next > n
         /\ \A k \in Macs : tx'[k].next >= tx[k].next
         /\ \A entries \in Entries(m, n) : entries \in Copies(n)
<1>1. FirstPacket \in Nat /\ LastPacket \in Nat /\ MAX_PIGGYBACK \in Nat /\ MaxLate \in Nat
  BY DecoderAssumption
<1>2. tx[m] \in Transmitters /\ tx[m].next \in Nat /\ tx[m].first \in Nat
  BY DEF Transmitters
<1>3. n \in Numbers /\ n >= tx[m].first /\ n >= tx[m].next - MaxLate
  BY DEF Arrivals
<1>4. n \in Nat
  BY <1>1, <1>3 DEF Numbers
<1>5. InOrder => n >= tx[m].next
  BY <1>2, <1>3 DEF InOrder
<1> DEFINE next == IF n >= tx[m].next THEN n + 1 ELSE tx[m].next
<1>6. next \in Nat /\ next > n /\ next >= tx[m].next
  BY <1>2, <1>4
<1>7. tx' = [tx EXCEPT ![m] = [tx[m] EXCEPT !.next = next]]
  BY DEF Sent
<1> HIDE DEF next
<1>8. [tx[m] EXCEPT !.next = next] \in Transmitters /\ [tx[m] EXCEPT !.next = next].next = next
  BY <1>2, <1>6 DEF Transmitters
<1>9. tx' \in [Macs -> Transmitters] /\ tx'[m].next > n
  BY <1>6, <1>7, <1>8
<1>10. \A k \in Macs : tx'[k].next >= tx[k].next
  <2> TAKE k \in Macs
  <2>1. tx[k].next \in Nat
    BY DEF Transmitters
  <2> QED
    BY <1>6, <1>7, <1>8, <2>1
<1>11. \A entries \in Entries(m, n) : entries \in Copies(n)
  <2> TAKE entries \in Entries(m, n)
  <2>1. PICK k \in 0 .. IF n - tx[m].first < MAX_PIGGYBACK
                          THEN n - tx[m].first ELSE MAX_PIGGYBACK :
          entries = [i \in 1 .. k |-> n - i]
    BY DEF Entries
  <2>2. k \in 0 .. MAX_PIGGYBACK /\ k <= n
    BY <1>1, <1>2, <1>3, <1>4
  <2> QED
    BY <2>1, <2>2 DEF Copies
<1> QED
  BY <1>3, <1>4, <1>5, <1>9, <1>10, <1>11

(* A packet taken, seen from the decoder d and the end of the output t     *)
(* that the lock change and the mode change before it leave.               *)
Takes(m, n, entries, d, t, good, refused) ==
  LET res == Decode(d, m, n, entries, refused)
      reaches == good /\ (Heard(res.fed) # {} \/ (d.seqInit /\ ~res.resync /\ t = follows))
  IN  /\ good => out' = [mac |-> m, fed |-> res.fed, lost |-> res.lost,
                         recovered |-> res.recovered, resync |-> res.resync,
                         since |-> IF d.seqInit THEN n - follows.n ELSE 0,
                         before |-> t, over |-> played[m],
                         dropped |-> FALSE, unsupported |-> FALSE]
      /\ ~good => \E b, u \in BOOLEAN :
                    out' = [Quiet EXCEPT !.mac = m, !.unsupported = b, !.dropped = u]
      /\ follows' = IF good THEN [mac |-> m, n |-> n] ELSE follows
      /\ tail' = IF reaches THEN [mac |-> m, n |-> n] ELSE t
      /\ played' = IF good /\ n > played[m] THEN [played EXCEPT ![m] = n] ELSE played
      /\ UNCHANGED splices
      /\ Tick(IF good THEN res.dec ELSE d, m)

(* Every packet taken is seen so.                                          *)
LEMMA TakenTakes ==
  ASSUME Typed, NEW m \in Macs, NEW n \in Arrivals(m), NEW mode \in Modes,
         NEW entries \in Entries(m, n), NEW ok \in BOOLEAN, Taken(m, n, mode, entries, ok)
  PROVE  /\ Sent(m, n)
         /\ \E d \in Decoders, t \in {tail, Nowhere}, good \in BOOLEAN : \E refused :
              /\ Tracking => Tied(d, m, follows, t)
              /\ Takes(m, n, entries, d, t, good, refused)
<1>1. PICK changed \in BOOLEAN, allocates \in {TRUE, ~MayFailReset} :
        /\ LockStep(lock, m, changed)
        /\ Sent(m, n)
        /\ LET d1 == IF changed THEN Restart(dec) ELSE dec
               moded == mode # d1.mode
               d2 == IF moded THEN ApplyMode(d1, mode, allocates) ELSE d1
               unsupported == Body[mode] = "opus" /\ ~d2.opus
               good == ok /\ ~unsupported
               t    == IF moded THEN Nowhere ELSE tail
           IN  \E refused \in Refusals(d2, DOMAIN Pieces(d2, n, entries)) :
                 LET res   == Decode(d2, m, n, entries, refused)
                     goes  == d2.seqInit /\ ~res.resync /\ t = follows
                 IN  /\ out' = IF ~good
                               THEN [Quiet EXCEPT !.mac = m, !.unsupported = unsupported,
                                                  !.dropped = ~ok]
                               ELSE [mac |-> m, fed |-> res.fed, lost |-> res.lost,
                                     recovered |-> res.recovered, resync |-> res.resync,
                                     since |-> IF d2.seqInit THEN n - follows.n ELSE 0,
                                     before |-> t, over |-> played[m],
                                     dropped |-> FALSE, unsupported |-> FALSE]
                     /\ follows' = IF good THEN [mac |-> m, n |-> n] ELSE follows
                     /\ tail' = IF good /\ (Heard(res.fed) # {} \/ goes)
                                THEN [mac |-> m, n |-> n] ELSE t
                     /\ played' = IF good /\ n > played[m]
                                  THEN [played EXCEPT ![m] = n] ELSE played
                     /\ UNCHANGED splices
                     /\ Tick(IF good THEN res.dec ELSE d2, m)
  BY Zenon DEF Taken
<1> DEFINE d1 == IF changed THEN Restart(dec) ELSE dec
           moded == mode # d1.mode
           d == IF moded THEN ApplyMode(d1, mode, allocates) ELSE d1
           unsupported == Body[mode] = "opus" /\ ~d.opus
           good == ok /\ ~unsupported
           t == IF moded THEN Nowhere ELSE tail
<1>2. PICK refused \in Refusals(d, DOMAIN Pieces(d, n, entries)) :
        LET res == Decode(d, m, n, entries, refused)
        IN  /\ out' = IF ~good
                      THEN [Quiet EXCEPT !.mac = m, !.unsupported = unsupported, !.dropped = ~ok]
                      ELSE [mac |-> m, fed |-> res.fed, lost |-> res.lost,
                            recovered |-> res.recovered, resync |-> res.resync,
                            since |-> IF d.seqInit THEN n - follows.n ELSE 0,
                            before |-> t, over |-> played[m],
                            dropped |-> FALSE, unsupported |-> FALSE]
            /\ follows' = IF good THEN [mac |-> m, n |-> n] ELSE follows
            /\ tail' = IF good /\ (Heard(res.fed) # {} \/ (d.seqInit /\ ~res.resync /\ t = follows))
                       THEN [mac |-> m, n |-> n] ELSE t
            /\ played' = IF good /\ n > played[m] THEN [played EXCEPT ![m] = n] ELSE played
            /\ UNCHANGED splices
            /\ Tick(IF good THEN res.dec ELSE d, m)
  BY <1>1, Zenon
<1>3. dec \in Decoders /\ tx \in [Macs -> Transmitters] /\ m \in Macs \cup {NoMac}
  BY DEF Typed
<1>4. allocates \in BOOLEAN /\ good \in BOOLEAN /\ unsupported \in BOOLEAN /\ (~ok) \in BOOLEAN
  <2>1. (~MayFailReset) \in BOOLEAN
    OBVIOUS
  <2>2. allocates \in BOOLEAN
    BY <2>1
  <2>3. good \in BOOLEAN
    OBVIOUS
  <2>4. unsupported \in BOOLEAN
    OBVIOUS
  <2> QED
    BY <2>2, <2>3, <2>4
<1>5. d1 \in Decoders /\ (Tracking => Tied(d1, m, follows, tail))
  BY <1>1, <1>3, Settles DEF Tracking
<1> HIDE DEF d1
<1>6. d \in Decoders /\ (Tracking => Tied(d, m, follows, t)) /\ t \in {tail, Nowhere}
  <2>1. CASE moded
    <3>1. d = ApplyMode(d1, mode, allocates) /\ t = Nowhere
      BY <2>1
    <3> HIDE DEF d, t
    <3>2. d \in Decoders /\ ~d.seqInit
      BY <1>4, <1>5, <3>1, NewMode
    <3> QED
      BY <3>1, <3>2 DEF Tied
  <2>2. CASE ~moded
    BY <1>5, <2>2
  <2> QED
    BY <2>1, <2>2
<1> HIDE DEF d, t, good, unsupported
<1>7. Takes(m, n, entries, d, t, good, refused)
  BY <1>2, <1>4, Zenon DEF Takes
<1> QED
  BY <1>1, <1>4, <1>6, <1>7, Zenon

(***************************************************************************)
(* The output.                                                             *)
(***************************************************************************)
OutTyped ==
  /\ out.fed \in Seq(Item)
  /\ Len(out.fed) <= 1 + IF RecoverCap > SilenceCap THEN RecoverCap ELSE SilenceCap
  /\ RecoverCap >= 1 => out.recovered \in 0 .. RecoverCap
  /\ out.lost \in 0 .. SeqMod \div 2

(* Less than half a turn lies between the packet and the one before it.    *)
Near == 2 * (out.since - 1) < SeqMod

Told ==
  /\ PlayedInOrder
  /\ CapsReach /\ Near => SeamsFaded
  /\ Near => LossExact

(* A step that plays nothing has nothing to tell.                          *)
Silent == out.fed = <<>> /\ out.lost = 0 /\ out.recovered = 0 /\ out.since = 0

(* Its output is well typed, in order, without a seam and counts nothing.  *)
LEMMA NothingTold == Silent => OutTyped /\ Told
<1> SUFFICES ASSUME Silent PROVE OutTyped /\ Told
  OBVIOUS
<1>1. out.fed = <<>> /\ out.lost = 0 /\ out.recovered = 0 /\ out.since = 0
  BY DEF Silent
<1>2. RecoverCap \in Nat /\ SilenceCap \in Nat /\ SeqMod \in Nat
  BY DecoderAssumption
<1>3. Len(out.fed) = 0 /\ out.fed \in Seq(Item)
  BY <1>1
<1>4. 0 \in 0 .. SeqMod \div 2
  BY <1>2, DecoderAssumption
<1>5. OutTyped
  BY <1>1, <1>2, <1>3, <1>4 DEF OutTyped
<1>6. PlayedInOrder
  BY <1>3 DEF PlayedInOrder, Fed
<1>7. SeamsFaded
  BY <1>1, <1>3 DEF SeamsFaded, Fed, Heard
<1>8. LossExact
  BY <1>1 DEF LossExact
<1> QED
  BY <1>5, <1>6, <1>7, <1>8 DEF Told

(* Nor does the next, when that plays nothing.                             *)
LEMMA NothingToldNext == Silent' => OutTyped' /\ Told'
BY NothingTold, PTL

(* What a packet that is dropped leaves.                                   *)
LEMMA Dropped ==
  ASSUME NEW q, NEW m, NEW b, NEW u,
         q = Quiet \/ q = [Quiet EXCEPT !.mac = m, !.unsupported = b, !.dropped = u]
  PROVE  q.fed = <<>> /\ q.lost = 0 /\ q.recovered = 0 /\ q.since = 0
<1>1. CASE q = Quiet
  BY <1>1 DEF Quiet
<1>2. CASE q = [Quiet EXCEPT !.mac = m, !.unsupported = b, !.dropped = u]
  <2>1. q = [mac |-> m, fed |-> <<>>, lost |-> 0, recovered |-> 0, resync |-> FALSE,
             since |-> 0, before |-> [mac |-> NoMac, n |-> None], over |-> None,
             dropped |-> u, unsupported |-> b]
    BY <1>2 DEF Quiet
  <2> QED
    BY <2>1
<1> QED
  BY <1>1, <1>2

(* What is fed is no longer than a recovery and the packet itself.         *)
LEMMA TakenOut ==
  ASSUME NEW d \in Decoders, NEW m, NEW n \in Nat, NEW entries \in Copies(n),
         NEW t, NEW good \in BOOLEAN, NEW refused, Takes(m, n, entries, d, t, good, refused)
  PROVE  OutTyped'
<1> DEFINE res == Decode(d, m, n, entries, refused)
           c == Filled(d, n)
<1>1. CASE ~good
  <2>1. PICK b, u \in BOOLEAN :
          out' = [Quiet EXCEPT !.mac = m, !.unsupported = b, !.dropped = u]
    BY <1>1, Zenon DEF Takes
  <2>2. out'.fed = <<>> /\ out'.lost = 0 /\ out'.recovered = 0 /\ out'.since = 0
    BY <2>1, Dropped
  <2> QED
    BY <2>2, NothingToldNext DEF Silent
<1>2. CASE good
  <2>1. out'.fed = res.fed /\ out'.recovered = res.recovered /\ out'.lost = res.lost
    BY <1>2 DEF Takes
  <2>2. /\ res.recovered \in 0 .. c /\ (RecoverCap >= 1 => res.recovered <= RecoverCap)
        /\ res.fed \in Seq(Item) /\ Len(res.fed) = c + 1
    BY Decoded DEF Tracks
  <2>3. res.lost \in 0 .. SeqMod \div 2
    <3> DEFINE f == 0
    <3>1. f \in Int
      OBVIOUS
    <3> HIDE DEF f
    <3> QED
      BY <3>1, Counts
  <2>4. c \in Nat /\ c <= Cap(d)
    BY GapRange, DecoderAssumption DEF Filled
  <2>5. Cap(d) = RecoverCap \/ Cap(d) = SilenceCap
    BY DEF Cap
  <2>6. RecoverCap \in Nat /\ SilenceCap \in Nat
    BY DecoderAssumption
  <2> HIDE DEF res, c
  <2>8. Len(res.fed) <= 1 + IF RecoverCap > SilenceCap THEN RecoverCap ELSE SilenceCap
    BY <2>2, <2>4, <2>5, <2>6
  <2>7. RecoverCap >= 1 => res.recovered \in 0 .. RecoverCap
    BY <2>2, <2>4, <2>6
  <2> QED
    BY <2>1, <2>2, <2>3, <2>7, <2>8 DEF OutTyped
<1> QED
  BY <1>1, <1>2

(* The order, the seams and the counts of a packet taken.                  *)
LEMMA TakenTold ==
  ASSUME Typed, Behind, NEW m \in Macs, NEW d \in Decoders, NEW n \in Nat, n >= tx[m].next,
         NEW entries \in Copies(n), NEW t \in Place, NEW good \in BOOLEAN, NEW refused,
         Tied(d, m, follows, t), Takes(m, n, entries, d, t, good, refused)
  PROVE  Told'
<1> DEFINE res == Decode(d, m, n, entries, refused)
           f == follows.n
           p == played[m]
<1>1. CASE ~good
  <2>1. PICK b, u \in BOOLEAN :
          out' = [Quiet EXCEPT !.mac = m, !.unsupported = b, !.dropped = u]
    BY <1>1, Zenon DEF Takes
  <2>2. out'.fed = <<>> /\ out'.lost = 0 /\ out'.recovered = 0 /\ out'.since = 0
    BY <2>1, Dropped
  <2> QED
    BY <2>2, NothingToldNext DEF Silent
<1>2. CASE good
  <2>1. /\ out'.mac = m /\ out'.fed = res.fed /\ out'.lost = res.lost
        /\ out'.recovered = res.recovered /\ (out'.resync <=> res.resync)
        /\ out'.since = IF d.seqInit THEN n - f ELSE 0
        /\ out'.before = t /\ out'.over = p
    <3>1. out' = [mac |-> m, fed |-> res.fed, lost |-> res.lost,
                  recovered |-> res.recovered, resync |-> res.resync,
                  since |-> IF d.seqInit THEN n - f ELSE 0,
                  before |-> t, over |-> p, dropped |-> FALSE, unsupported |-> FALSE]
      BY <1>2, Zenon DEF Takes
    <3> QED
      BY <3>1
  <2>2. f \in Int /\ follows \in Place /\ p \in Int /\ tx[m].next \in Nat
    BY DecoderAssumption DEF Typed, Place, Numbers, None, Transmitters
  <2>3. p < n
    BY <2>2 DEF Behind
  <2>4. d.seqInit => d.expected = Seq8(f + 1) /\ p <= f /\ f < n
    <3> SUFFICES ASSUME d.seqInit PROVE d.expected = Seq8(f + 1) /\ p <= f /\ f < n
      OBVIOUS
    <3>1. follows.mac = m /\ d.expected = Seq8(f + 1)
      BY DecoderAssumption DEF Tied
    <3>2. p <= f /\ f < tx[m].next
      BY <3>1 DEF Behind
    <3> QED
      BY <2>2, <3>1, <3>2
  <2>5. PlayedInOrder'
    <3>1. Ordered(p, res.fed)
      <4>1. f \in Int /\ p \in Int /\ p < n /\ n \in Nat
        BY <2>2, <2>3
      <4> HIDE DEF f, p
      <4>2. d.seqInit => \E g \in p .. n - 1 : d.expected = Seq8(g + 1)
        BY <2>4, <4>1
      <4> QED
        BY <4>1, <4>2, InPlace
    <3> HIDE DEF res, p
    <3> QED
      BY <2>1, <3>1 DEF PlayedInOrder, Fed, Ordered
  <2>6. Near' /\ d.seqInit => 2 * (n - f - 1) < SeqMod
    BY <2>1, <2>2 DEF Near
  <2>7. CapsReach /\ Near' => SeamsFaded'
    <3> SUFFICES ASSUME CapsReach, Near' PROVE SeamsFaded'
      OBVIOUS
    <3> DEFINE since == IF d.seqInit THEN n - f ELSE 0
               fed == res.fed
    <3>1. \A k \in Heard(fed) :
            (\A j \in Heard(fed) : k <= j) /\ fed[k].real /\ t # Nowhere =>
              \/ fed[k].faded
              \/ t = [mac |-> m, n |-> fed[1].n - 1]
              \/ k > 1 /\ since \in 1 .. ResyncGap
                       /\ t = [mac |-> m, n |-> fed[Len(fed)].n - since]
      BY <2>2, <2>4, <2>6, Seams
    <3>2. Fed' = fed /\ out'.since = since
      BY <2>1 DEF Fed
    <3> HIDE DEF fed, since
    <3> QED
      BY <2>1, <3>1, <3>2, Zenon DEF SeamsFaded, Heard
  <2>8. Near' => LossExact'
    <3> SUFFICES ASSUME Near' PROVE LossExact'
      OBVIOUS
    <3>1. /\ res.recovered \in Nat /\ res.recovered <= res.lost
          /\ d.seqInit /\ d.expected = Seq8(f + 1) /\ f < n /\ 2 * (n - f - 1) < SeqMod =>
               /\ res.lost = IF n - f - 1 < ResyncGap THEN n - f - 1 ELSE 0
               /\ res.resync <=> n - f > ResyncGap
      BY <2>2, Counts
    <3> HIDE DEF res, f
    <3>2. CASE d.seqInit
      <4>1. out'.since = n - f /\ n - f > 0
        BY <2>1, <2>2, <2>4, <3>2
      <4>2. /\ out'.lost = IF n - f - 1 < ResyncGap THEN n - f - 1 ELSE 0
            /\ out'.resync <=> n - f > ResyncGap
        BY <2>1, <2>4, <2>6, <3>1, <3>2
      <4>3. out'.recovered <= out'.lost
        BY <2>1, <3>1
      <4> QED
        BY <4>1, <4>2, <4>3 DEF LossExact
    <3>3. CASE ~d.seqInit
      <4>1. out'.since = 0 /\ out'.recovered <= out'.lost
        BY <2>1, <3>1, <3>3
      <4> QED
        BY <4>1 DEF LossExact
    <3> QED
      BY <3>2, <3>3
  <2> QED
    BY <2>5, <2>7, <2>8 DEF Told
<1> QED
  BY <1>1, <1>2

(***************************************************************************)
(* The actions.                                                            *)
(***************************************************************************)
(* A packet taken keeps the types and the tracking.                        *)
LEMMA TakenTyped ==
  ASSUME Typed, NEW m \in Macs, NEW n \in Nat, n \in Numbers, tx' \in [Macs -> Transmitters],
         NEW entries \in Copies(n), NEW d \in Decoders, NEW t \in {tail, Nowhere},
         NEW good \in BOOLEAN, NEW refused, Takes(m, n, entries, d, t, good, refused)
  PROVE  Typed' /\ (Tied(d, m, follows, t) => Tracking')
<1> DEFINE res == Decode(d, m, n, entries, refused)
           last == res.dec
           e == IF good THEN last ELSE d
           here == [mac |-> m, n |-> n]
           heard == Heard(res.fed) # {}
           goes == d.seqInit /\ ~res.resync /\ t = follows
<1>1. /\ follows' = IF good THEN here ELSE follows
      /\ tail' = IF good /\ (heard \/ goes) THEN here ELSE t
      /\ played' = IF good /\ n > played[m] THEN [played EXCEPT ![m] = n] ELSE played
      /\ splices' = splices
      /\ Tick(e, m)
  BY DEF Takes
<1>2. /\ last \in Decoders /\ last.seqInit /\ last.expected = Seq8(n + 1)
      /\ (d.fade \/ res.resync) /\ ~heard => last.fade
  <2>1. Tracks(d, n, res) /\ FadeWaits(d, n, res)
    BY Decoded
  <2> HIDE DEF res
  <2>2. /\ last \in Decoders /\ last.seqInit /\ last.expected = Seq8(n + 1)
        /\ (res.resync <=> Kind(d, n) = "resync")
    BY <2>1 DEF Tracks
  <2>3. (d.fade \/ Kind(d, n) = "resync") /\ ~heard => last.fade
    BY <2>1 DEF FadeWaits
  <2> QED
    BY <2>2, <2>3
<1>3. m # NoMac
  BY DecoderAssumption
<1>4. here \in Place /\ here.mac = m /\ here.n = n
  BY DEF Place
<1>5. Nowhere \in Place
  BY DEF Place, Nowhere, None
<1> HIDE DEF last, here, heard, res
<1>6. e \in Decoders
  BY <1>2
<1>7. Tied(d, m, follows, t) => Tied(e, m, follows', tail')
  <2> SUFFICES ASSUME Tied(d, m, follows, t) PROVE Tied(e, m, follows', tail')
    OBVIOUS
  <2>1. CASE ~good
    BY <1>1, <2>1
  <2>2. CASE good
    <3>1. e.seqInit /\ e.expected = Seq8(n + 1) /\ follows' = here
      BY <1>1, <1>2, <2>2
    <3>2. e.fade \/ tail' \in {here, Nowhere}
      <4>1. CASE heard \/ goes
        BY <1>1, <2>2, <4>1
      <4>2. CASE ~heard /\ ~goes
        <5>1. d.fade \/ res.resync \/ t = Nowhere
          BY <1>3, <4>2 DEF Tied
        <5> QED
          BY <1>1, <1>2, <2>2, <4>2, <5>1
      <4> QED
        BY <4>1, <4>2
    <3> HIDE DEF e
    <3> QED
      BY <1>4, <3>1, <3>2 DEF Tied
  <2> QED
    BY <2>1, <2>2
<1> HIDE DEF e
<1>8. /\ lock' \in Macs \cup {NoMac} /\ dec' \in Decoders
      /\ Tied(d, m, follows, t) => Tied(dec', lock', follows', tail')
  BY <1>1, <1>6, <1>7, Ticks
<1>9. follows' \in Place /\ tail' \in Place
  BY <1>1, <1>4, <1>5 DEF Typed
<1>10. played' \in [Macs -> Numbers \cup {None}]
  BY <1>1 DEF Typed
<1>11. splices' \in 0 .. MaxSplices
  BY <1>1 DEF Typed
<1> QED
  BY <1>8, <1>9, <1>10, <1>11 DEF Typed, Tracking

(* It moves the transmitter past what is played and decoded of it.         *)
LEMMA TakenBehind ==
  ASSUME Typed, Behind, NEW m \in Macs, NEW n \in Nat, n >= tx[m].next, tx'[m].next > n,
         tx' \in [Macs -> Transmitters], \A k \in Macs : tx'[k].next >= tx[k].next,
         NEW entries, NEW d, NEW t, NEW good \in BOOLEAN, NEW refused,
         Takes(m, n, entries, d, t, good, refused)
  PROVE  Behind'
<1>1. /\ follows' = IF good THEN [mac |-> m, n |-> n] ELSE follows
      /\ played' = IF good /\ n > played[m] THEN [played EXCEPT ![m] = n] ELSE played
  BY DEF Takes
<1> SUFFICES ASSUME NEW k \in Macs
             PROVE  /\ played'[k] < tx'[k].next
                    /\ follows'.mac = k => played'[k] <= follows'.n /\ follows'.n < tx'[k].next
  BY DEF Behind
<1>2. /\ tx[k].next \in Nat /\ tx'[k].next \in Nat /\ tx[m].next \in Nat
      /\ played[k] \in Int /\ follows.n \in Int
  BY DecoderAssumption DEF Typed, Transmitters, Place, Numbers, None
<1>3. /\ played[k] < tx[k].next /\ tx'[k].next >= tx[k].next
      /\ follows.mac = k => played[k] <= follows.n /\ follows.n < tx[k].next
  BY DEF Behind
<1>4. played'[k] = played[k] \/ (k = m /\ played'[k] = n)
  BY <1>1 DEF Typed
<1>5. played'[k] < tx'[k].next
  BY <1>2, <1>3, <1>4
<1>6. ASSUME follows'.mac = k
      PROVE  played'[k] <= follows'.n /\ follows'.n < tx'[k].next
  <2>1. CASE good
    <3>1. follows'.mac = m /\ follows'.n = n
      BY <1>1, <2>1
    <3>2. k = m /\ played[k] < n
      BY <1>2, <1>3, <1>6, <3>1
    <3> QED
      BY <1>2, <1>4, <3>1, <3>2
  <2>2. CASE ~good
    <3>1. follows' = follows /\ played'[k] = played[k]
      BY <1>1, <2>2
    <3> QED
      BY <1>2, <1>3, <1>6, <3>1
  <2> QED
    BY <2>1, <2>2
<1> QED
  BY <1>5, <1>6

(* A packet taken keeps the invariants.                                    *)
LEMMA TakenKeeps ==
  ASSUME Typed, NEW m \in Macs, NEW n \in Arrivals(m), NEW mode \in Modes,
         NEW entries \in Entries(m, n), NEW ok \in BOOLEAN, Taken(m, n, mode, entries, ok)
  PROVE  /\ Typed' /\ OutTyped'
         /\ InOrder /\ Tracking /\ Behind => Tracking' /\ Behind' /\ Told'
<1>0. PICK d \in Decoders, t \in {tail, Nowhere}, good \in BOOLEAN : \E refused :
        /\ Tracking => Tied(d, m, follows, t)
        /\ Takes(m, n, entries, d, t, good, refused)
  BY TakenTakes
<1>1. PICK refused :
        /\ Tracking => Tied(d, m, follows, t)
        /\ Takes(m, n, entries, d, t, good, refused)
  BY <1>0
<1>2. Sent(m, n)
  BY TakenTakes
<1>3. /\ n \in Nat /\ n \in Numbers /\ (InOrder => n >= tx[m].next)
      /\ tx' \in [Macs -> Transmitters] /\ tx'[m].next > n
      /\ \A k \in Macs : tx'[k].next >= tx[k].next
      /\ entries \in Copies(n)
  BY <1>2, Arrives DEF Typed
<1>4. Typed' /\ (Tied(d, m, follows, t) => Tracking')
  BY <1>1, <1>3, TakenTyped
<1>5. OutTyped'
  BY <1>1, <1>3, TakenOut
<1>6. ASSUME InOrder, Tracking, Behind
      PROVE  Tracking' /\ Behind' /\ Told'
  <2>1. t \in Place
    BY <1>1 DEF Typed, Place, Nowhere, None
  <2>2. Tracking'
    BY <1>1, <1>4, <1>6
  <2>3. Behind'
    BY <1>1, <1>3, <1>6, TakenBehind
  <2>4. Told'
    BY <1>1, <1>3, <1>6, <2>1, TakenTold
  <2> QED
    BY <2>2, <2>3, <2>4
<1> QED
  BY <1>4, <1>5, <1>6

(* A step that plays nothing: what it leaves behind is what was there.     *)
LEMMA BehindStays ==
  ASSUME Typed, Behind, tx' \in [Macs -> Transmitters],
         \A k \in Macs : tx'[k].next >= tx[k].next, UNCHANGED <<played, follows>>
  PROVE  Behind'
<1> SUFFICES ASSUME NEW k \in Macs
             PROVE  /\ played[k] < tx'[k].next
                    /\ follows.mac = k => played[k] <= follows.n /\ follows.n < tx'[k].next
  BY DEF Behind
<1>1. /\ tx[k].next \in Nat /\ tx'[k].next \in Nat
      /\ played[k] \in Int /\ follows.n \in Int
  BY DecoderAssumption DEF Typed, Transmitters, Place, Numbers, None
<1>2. /\ played[k] < tx[k].next /\ tx'[k].next >= tx[k].next
      /\ follows.mac = k => played[k] <= follows.n /\ follows.n < tx[k].next
  BY DEF Behind
<1> QED
  BY <1>1, <1>2

(* So does a packet the selector does not take.                            *)
LEMMA IgnoredKeeps ==
  ASSUME Typed, NEW m \in Macs, NEW n, Ignored(m, n)
  PROVE  /\ Typed' /\ OutTyped' /\ Told'
         /\ Tracking => Tracking'
         /\ Behind => Behind'
<1>1. PICK forced, changed \in BOOLEAN, to \in (Macs \cup {NoMac}) :
        /\ n \in Arrivals(m) /\ Sent(m, n)
        /\ LockStep(IF forced THEN NoMac ELSE lock, to, changed) /\ (changed => to # m)
        /\ out' = Quiet
        /\ UNCHANGED <<played, tail, follows, splices>>
        /\ LET d == IF forced THEN [dec EXCEPT !.seqInit = FALSE] ELSE dec
           IN  Tick(IF changed THEN Restart(d) ELSE d, to)
  BY Zenon DEF Ignored
<1> DEFINE from == IF forced THEN NoMac ELSE lock
           forgot == [dec EXCEPT !.seqInit = FALSE]
           d == IF forced THEN forgot ELSE dec
           e == IF changed THEN Restart(d) ELSE d
<1>2. n \in Arrivals(m) /\ Sent(m, n) /\ LockStep(from, to, changed) /\ Tick(e, to)
  BY <1>1
<1>3. out' = Quiet /\ played' = played /\ tail' = tail /\ follows' = follows /\ splices' = splices
  BY <1>1
<1>4. tx' \in [Macs -> Transmitters] /\ \A k \in Macs : tx'[k].next >= tx[k].next
  BY <1>2, Arrives DEF Typed
<1>5. d \in Decoders /\ (Tracking => Tied(d, from, follows, tail))
  <2>1. CASE forced
    <3>1. /\ forgot \in Decoders
          /\ Tied(dec, lock, follows, tail) => Tied(forgot, NoMac, follows, tail)
      BY Forgets DEF Typed
    <3> HIDE DEF forgot
    <3> QED
      BY <2>1, <3>1 DEF Tracking
  <2>2. CASE ~forced
    BY <2>2 DEF Typed, Tracking
  <2> QED
    BY <2>1, <2>2
<1> HIDE DEF d, from
<1>6. e \in Decoders /\ (Tied(d, from, follows, tail) => Tied(e, to, follows, tail))
  BY <1>2, <1>5, Settles
<1> HIDE DEF e
<1>7. /\ lock' \in Macs \cup {NoMac} /\ dec' \in Decoders
      /\ Tied(e, to, follows, tail) => Tied(dec', lock', follows, tail)
  BY <1>2, <1>6, Ticks
<1>8. Typed'
  BY <1>3, <1>4, <1>7 DEF Typed
<1>9. Tracking => Tracking'
  BY <1>3, <1>5, <1>6, <1>7 DEF Tracking
<1>10. Behind => Behind'
  BY <1>3, <1>4, BehindStays
<1>11. OutTyped' /\ Told'
  BY <1>3, Dropped, NothingToldNext DEF Silent
<1> QED
  BY <1>8, <1>9, <1>10, <1>11

(* So does housekeeping alone.                                             *)
LEMMA IdleKeeps ==
  ASSUME Typed, Idle
  PROVE  /\ Typed' /\ OutTyped' /\ Told'
         /\ Tracking => Tracking'
         /\ Behind => Behind'
<1>1. Tick(dec, lock) /\ out' = Quiet /\ tx' = tx /\ played' = played /\ tail' = tail
      /\ follows' = follows /\ splices' = splices
  BY DEF Idle
<1>2. /\ lock' \in Macs \cup {NoMac} /\ dec' \in Decoders
      /\ Tied(dec, lock, follows, tail) => Tied(dec', lock', follows, tail)
  BY <1>1, Ticks DEF Typed
<1>3. Typed'
  BY <1>1, <1>2 DEF Typed
<1>4. Tracking => Tracking'
  BY <1>1, <1>2 DEF Tracking
<1>5. Behind => Behind'
  BY <1>1 DEF Behind
<1>6. OutTyped' /\ Told'
  BY <1>1, Dropped, NothingToldNext DEF Silent
<1> QED
  BY <1>3, <1>4, <1>5, <1>6

(* So does a jump of a transmitter's numbers.                              *)
LEMMA SpliceKeeps ==
  ASSUME Typed, NEW m \in Macs, NEW jump \in Splices, Splice(m, jump)
  PROVE  /\ Typed' /\ OutTyped' /\ Told'
         /\ Tracking => Tracking'
         /\ Behind => Behind'
<1> DEFINE next == tx[m].next + jump
<1>1. /\ splices < MaxSplices /\ splices' = splices + 1 /\ out' = Quiet
      /\ tx' = [tx EXCEPT ![m] = [next |-> next, first |-> next]]
      /\ UNCHANGED <<lock, dec, played, tail, follows>>
  BY DEF Splice
<1>2. jump \in Nat /\ tx[m].next \in Nat /\ next \in Nat /\ next >= tx[m].next
  BY DecoderAssumption DEF Typed, Transmitters
<1> HIDE DEF next
<1>3. tx' \in [Macs -> Transmitters]
  BY <1>1, <1>2 DEF Typed, Transmitters
<1>4. \A k \in Macs : tx'[k].next >= tx[k].next
  <2> TAKE k \in Macs
  <2>1. tx[k].next \in Nat
    BY DEF Typed, Transmitters
  <2> QED
    BY <1>1, <1>2, <2>1 DEF Typed
<1>5. splices' \in 0 .. MaxSplices
  BY <1>1, DecoderAssumption DEF Typed
<1>6. Typed'
  BY <1>1, <1>3, <1>5 DEF Typed
<1>7. Tracking => Tracking'
  BY <1>1 DEF Tracking
<1>8. Behind => Behind'
  BY <1>1, <1>3, <1>4, BehindStays
<1>9. OutTyped' /\ Told'
  BY <1>1, Dropped, NothingToldNext DEF Silent
<1> QED
  BY <1>6, <1>7, <1>8, <1>9

(***************************************************************************)
(* The specification.                                                      *)
(***************************************************************************)
LEMMA InitKeeps ==
  ASSUME Init
  PROVE  Typed /\ OutTyped /\ Told /\ Tracking /\ Behind
<1>1. PICK o \in Backends :
        dec = [mode |-> 0, seqInit |-> FALSE, expected |-> 0, fade |-> FALSE,
               opus |-> o, shape |-> 0]
  BY DEF Init
<1>2. o \in BOOLEAN /\ 0 \in Modes /\ 0 \in 0 .. SeqMod - 1 /\ FirstPacket \in Nat
  BY DecoderAssumption
<1>3. dec \in Decoders /\ ~dec.seqInit
  BY <1>1, <1>2 DEF Decoders
<1>4. /\ tx = [k \in Macs |-> [next |-> FirstPacket, first |-> FirstPacket]]
      /\ lock = NoMac /\ out = Quiet /\ played = [k \in Macs |-> None]
      /\ tail = Nowhere /\ follows = Nowhere /\ splices = 0
  BY DEF Init
<1>5. tx \in [Macs -> Transmitters]
  BY <1>2, <1>4 DEF Transmitters
<1>6. Nowhere \in Place /\ Nowhere.mac = NoMac
  BY DEF Place, Nowhere, None
<1>7. Typed
  BY <1>3, <1>4, <1>5, <1>6, DecoderAssumption DEF Typed
<1>8. Tracking
  BY <1>3, <1>4 DEF Tracking, Tied
<1>9. Behind
  <2> SUFFICES ASSUME NEW k \in Macs
               PROVE  played[k] < tx[k].next /\ follows.mac # k
    BY DEF Behind
  <2>1. played[k] = -1 /\ tx[k].next = FirstPacket
    BY <1>4 DEF None
  <2> QED
    BY <1>2, <1>4, <1>6, <2>1, DecoderAssumption
<1>10. OutTyped /\ Told
  BY <1>4, Dropped, NothingTold DEF Silent
<1> QED
  BY <1>7, <1>8, <1>9, <1>10

(* Every step keeps them.                                                  *)
LEMMA NextKeeps ==
  ASSUME Typed, OutTyped, [Next]_vars
  PROVE  /\ Typed' /\ OutTyped'
         /\ InOrder /\ Told /\ Tracking /\ Behind => Told' /\ Tracking' /\ Behind'
<1>1. CASE UNCHANGED vars
  BY <1>1 DEF vars, Typed, OutTyped, Tracking, Behind, Told, Near, PlayedInOrder, SeamsFaded,
              LossExact, Fed, Heard
<1>2. CASE Idle
  BY <1>2, IdleKeeps
<1>3. ASSUME NEW m \in Macs, NEW jump \in Splices, Splice(m, jump)
      PROVE  /\ Typed' /\ OutTyped' /\ Told' /\ (Tracking => Tracking') /\ (Behind => Behind')
  BY <1>3, SpliceKeeps
<1>4. ASSUME NEW m \in Macs, NEW n \in Arrivals(m), Ignored(m, n)
      PROVE  /\ Typed' /\ OutTyped' /\ Told' /\ (Tracking => Tracking') /\ (Behind => Behind')
  BY <1>4, IgnoredKeeps
<1>5. ASSUME NEW m \in Macs, NEW n \in Arrivals(m), NEW mode \in Modes,
             NEW entries \in Entries(m, n), NEW ok \in BOOLEAN, Taken(m, n, mode, entries, ok)
      PROVE  /\ Typed' /\ OutTyped'
             /\ InOrder /\ Tracking /\ Behind => Tracking' /\ Behind' /\ Told'
  BY <1>5, TakenKeeps
<1> QED
  BY <1>1, <1>2, <1>3, <1>4, <1>5 DEF Next, Packet

(* The decoder's state, and what it feeds and counts in a step, keep their *)
(* types, for packets in any order: at most a recovery and the packet, no  *)
(* more recovered than the cap, no more lost than half a turn.  A cap of 0 *)
(* would still let SOLID recover one.                                      *)
THEOREM TypeCorrect ==
  ASSUME RecoverCap >= 1
  PROVE  Spec => []TypeOK
<1>1. Init => Typed /\ OutTyped
  BY InitKeeps
<1>2. Typed /\ OutTyped /\ [Next]_vars => Typed' /\ OutTyped'
  BY NextKeeps
<1>3. Typed /\ OutTyped => TypeOK
  BY DEF Typed, OutTyped, TypeOK, Transmitters, Decoders
<1> QED
  BY <1>1, <1>2, <1>3, PTL DEF Spec

(* The invariant of a stream whose packets arrive in order.                *)
LEMMA Streamed ==
  ASSUME InOrder
  PROVE  Spec => []Told
<1> DEFINE Inv == Typed /\ OutTyped /\ Told /\ Tracking /\ Behind
<1>1. Init => Inv
  BY InitKeeps
<1>2. Inv /\ [Next]_vars => Inv'
  BY NextKeeps
<1>3. Inv => Told
  OBVIOUS
<1> HIDE DEF Inv
<1> QED
  BY <1>1, <1>2, <1>3, PTL DEF Spec

(* Frames of a source are played in the order they were sent and never     *)
(* twice, each in its own place, whatever is lost, recovered, concealed,   *)
(* spliced or refused by the Opus backend, across locks, modes and outages *)
(* of any length.                                                          *)
THEOREM OrderKept ==
  ASSUME InOrder
  PROVE  Spec => []PlayedInOrder
<1>1. Told => PlayedInOrder
  BY DEF Told
<1> QED
  BY <1>1, Streamed, PTL

(* A real frame that does not follow what was played last begins with the  *)
(* fade, unless the ring was reprimed, while outages are shorter than half *)
(* a turn of the sequence number.  The fade waits out what the backend     *)
(* refuses; only the hole of a refused recovery within a stream has none.  *)
THEOREM NoClick ==
  ASSUME InOrder, CapsReach
  PROVE  Spec => [](Near => SeamsFaded)
<1>1. Told => (Near => SeamsFaded)
  BY DEF Told
<1> QED
  BY <1>1, Streamed, PTL

(* Every packet missing between two that were decoded is counted once, and *)
(* a splice is not, while outages are shorter than half a turn.            *)
THEOREM LossCounted ==
  ASSUME InOrder
  PROVE  Spec => [](Near => LossExact)
<1>1. Told => (Near => LossExact)
  BY DEF Told
<1> QED
  BY <1>1, Streamed, PTL
=============================================================================
