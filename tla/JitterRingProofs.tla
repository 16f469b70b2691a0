-------------------------- MODULE JitterRingProofs --------------------------
(***************************************************************************)
(* For every size of the ring, width of the indices, sequence of batches   *)
(* and blocks, and every depth asked for: the state stays typed and every  *)
(* frame is accounted for, and the ring is a lossy FIFO up to the moment a *)
(* trim reads a depth above the fill it takes down.  That moment needs a   *)
(* store of a depth between the trim's test and its difference: while the  *)
(* stores stay out of that gap (StoresApart), the ring is a lossy FIFO.    *)
(***************************************************************************)
EXTENDS JitterRing, SequenceTheorems, TLAPS

(***************************************************************************)
(* The inductive invariants.                                               *)
(***************************************************************************)
Writing == [batch : Index, copied : Index, todo : SUBSET Fields, geom : Geometry]
Reads == [pc : Calls, r : Index, fill : Index, left : Nat, drift : -1 .. 1,
          dead : Nat, late : BOOLEAN]

(* Before it fills the block, a call's own index is the one stored.        *)
Words ==
  /\ TypeOK
  /\ cons.pc \in Calls \ {"idle", "fill"} => cons.r = r

(* Frames between the reader, or the index it last stored, and the writer. *)
Ahead == Minus(w, Reading)
Stored == Minus(w, r)

(* The reader's own index, ahead of the one it has stored while it fills a *)
(* block, never passes the writer.                                         *)
ReaderLeads == Ahead <= Stored

(* The fill a call goes by is of frames already written.                   *)
FillWritten == cons.pc # "idle" => cons.fill <= Ahead

(* The batch being copied fits behind the frames not yet given back.       *)
BatchFits == prod.copied <= prod.batch /\ Stored + prod.batch <= Capacity

(* Each frame from the reader to the last one copied is in its slot.       *)
FramesInPlace ==
  \A k \in 0 .. Ahead + prod.copied - 1 : buf[Slot(Plus(Reading, k))] = Plus(Reading, k)

RingInv == ReaderLeads /\ FillWritten /\ BatchFits /\ FramesInPlace

(* No store of a depth falls between a test and the difference made on the *)
(* strength of it.                                                         *)
StoresApart ==
  /\ cons.pc = "drop" => "prebuf" \notin prod.todo
  /\ cons.pc = "cut" => prod.todo \cap {"target", "max"} = {}

(* What is no longer to be stored has been, and a depth's target is within *)
(* its maximum; a trim found the fill above the depth it tested, and what  *)
(* is to be stored has not changed since.                                  *)
DepthsStored ==
  /\ \A f \in {"prebuf", "target", "max"} \ prod.todo : geom[f] = prod.geom[f]
  /\ prod.geom.target <= prod.geom.max
  /\ cons.pc = "drop" => geom.prebuf <= cons.fill
  /\ cons.pc = "cut" => geom.target <= cons.fill

(***************************************************************************)
(* Indices that wrap, and their slots.                                     *)
(***************************************************************************)
(* Quotient and remainder.                                                 *)
LEMMA DivMod ==
  ASSUME NEW M \in Nat, M > 0, NEW x \in Int
  PROVE  x = M * (x \div M) + (x % M) /\ x % M \in 0 .. M - 1 /\ x \div M \in Int
  OBVIOUS

(* A multiple of M that is not zero is at least M away from zero, and one  *)
(* that is not M at least twice as far.                                    *)
LEMMA Multiples ==
  ASSUME NEW M \in Nat, M > 0, NEW k \in Int
  PROVE  /\ M * k \in Int
         /\ (k >= 1 => M * k >= M) /\ (k >= 2 => M * k >= 2 * M)
         /\ (k <= -1 => M * k <= -M) /\ (k <= -2 => M * k <= -2 * M)
         /\ (k = 0 => M * k = 0) /\ (k = 1 => M * k = M) /\ (k = -1 => M * k = -M)
  OBVIOUS

(* The remainder of a number that wraps at most once.                      *)
LEMMA WrapsOnce ==
  ASSUME NEW M \in Nat, M > 0, NEW x \in Int, -M <= x, x < 2 * M
  PROVE  x % M = IF x < 0 THEN x + M ELSE IF x < M THEN x ELSE x - M
<1> DEFINE q == x \div M
           s == x % M
<1>1. x = M * q + s /\ s \in 0 .. M - 1 /\ q \in Int
  BY DivMod
<1> HIDE DEF q, s
<1>2. /\ (q >= 1 => M * q >= M) /\ (q >= 2 => M * q >= 2 * M) /\ (q <= -1 => M * q <= -M)
      /\ (q <= -2 => M * q <= -2 * M) /\ (q = 0 => M * q = 0) /\ (q = 1 => M * q = M)
      /\ (q = -1 => M * q = -M) /\ M * q \in Int
  BY <1>1, Multiples
<1>3. q \in {-1, 0, 1}
  BY <1>1, <1>2
<1>4. s = IF x < 0 THEN x + M ELSE IF x < M THEN x ELSE x - M
  BY <1>1, <1>2, <1>3
<1> QED
  BY <1>4 DEF s

(* Moving an index by less than a turn.                                    *)
LEMMA Moved ==
  ASSUME NEW i \in Index, NEW n \in Int, -WordMod <= n, n <= WordMod
  PROVE  /\ Plus(i, n) \in Index
         /\ Plus(i, n) = IF i + n < 0 THEN i + n + WordMod
                         ELSE IF i + n < WordMod THEN i + n ELSE i + n - WordMod
<1> DEFINE x == i + n
<1>1. WordMod \in Nat /\ WordMod > 0
  BY RingAssumption
<1>2. x \in Int /\ -WordMod <= x /\ x < 2 * WordMod
  BY <1>1 DEF Index
<1> HIDE DEF x
<1>3. x % WordMod = IF x < 0 THEN x + WordMod ELSE IF x < WordMod THEN x ELSE x - WordMod
  BY <1>1, <1>2, WrapsOnce
<1>4. x % WordMod \in 0 .. WordMod - 1
  BY <1>1, <1>2, <1>3
<1> QED
  BY <1>1, <1>2, <1>3, <1>4 DEF Plus, Index, x

(* The distance between two indices, and of a fill to a target.            *)
LEMMA Apart ==
  ASSUME NEW i \in Index, NEW j \in Index
  PROVE  /\ Minus(i, j) \in Index
         /\ Minus(i, j) = IF i >= j THEN i - j ELSE i - j + WordMod
<1> DEFINE x == i - j
<1>1. WordMod \in Nat /\ WordMod > 0
  BY RingAssumption
<1>2. x \in Int /\ -WordMod <= x /\ x < WordMod
  BY <1>1 DEF Index
<1> HIDE DEF x
<1>3. x % WordMod = IF x < 0 THEN x + WordMod ELSE IF x < WordMod THEN x ELSE x - WordMod
  BY <1>1, <1>2, WrapsOnce
<1>4. x % WordMod \in 0 .. WordMod - 1
  BY <1>1, <1>2, <1>3
<1> QED
  BY <1>1, <1>2, <1>3, <1>4 DEF Minus, Index, x

(* Moving forward by a distance.                                           *)
LEMMA MovedOn ==
  ASSUME NEW i \in Index, NEW n \in Index
  PROVE  /\ Plus(i, n) \in Index
         /\ Plus(i, n) = IF i + n < WordMod THEN i + n ELSE i + n - WordMod
<1>1. n \in Int /\ -WordMod <= n /\ n <= WordMod /\ i + n >= 0
  BY RingAssumption DEF Index
<1> QED
  BY <1>1, Moved

(* Moving twice is moving by the sum.                                      *)
LEMMA MovedTwice ==
  ASSUME NEW i \in Index, NEW n \in Index, NEW k \in Index, n + k \in Index
  PROVE  Plus(Plus(i, n), k) = Plus(i, n + k)
<1> DEFINE a == Plus(i, n)
           b == Plus(a, k)
           c == Plus(i, n + k)
<1>1. a \in Index /\ a = IF i + n < WordMod THEN i + n ELSE i + n - WordMod
  BY MovedOn
<1>2. b \in Index /\ b = IF a + k < WordMod THEN a + k ELSE a + k - WordMod
  BY <1>1, MovedOn
<1>3. c \in Index /\ c = IF i + (n + k) < WordMod THEN i + (n + k) ELSE i + (n + k) - WordMod
  BY MovedOn
<1> HIDE DEF a, b, c
<1>4. b = c
  BY <1>1, <1>2, <1>3, RingAssumption DEF Index
<1> QED
  BY <1>4 DEF a, b, c

(* An index lies as far behind another as their distance says.             *)
LEMMA MovedApart ==
  ASSUME NEW i \in Index, NEW j \in Index
  PROVE  Plus(j, Minus(i, j)) = i
<1> DEFINE d == Minus(i, j)
           a == Plus(j, d)
<1>1. d \in Index /\ d = IF i >= j THEN i - j ELSE i - j + WordMod
  BY Apart
<1>2. a \in Index /\ a = IF j + d < WordMod THEN j + d ELSE j + d - WordMod
  BY <1>1, MovedOn
<1> HIDE DEF d, a
<1>3. a = i
  BY <1>1, <1>2, RingAssumption DEF Index
<1> QED
  BY <1>3 DEF a, d

(* Moving the index behind brings it nearer by as much, and moving the one *)
(* ahead takes it as much further.                                         *)
LEMMA Nearer ==
  ASSUME NEW i \in Index, NEW j \in Index, NEW n \in 0 .. Minus(i, j)
  PROVE  Minus(i, Plus(j, n)) = Minus(i, j) - n
<1> DEFINE d == Minus(i, j)
           a == Plus(j, n)
           e == Minus(i, a)
<1>1. d \in Index /\ d = IF i >= j THEN i - j ELSE i - j + WordMod
  BY Apart
<1>2. n \in Index
  BY <1>1, RingAssumption DEF Index
<1>3. a \in Index /\ a = IF j + n < WordMod THEN j + n ELSE j + n - WordMod
  BY <1>2, MovedOn
<1>4. e \in Index /\ e = IF i >= a THEN i - a ELSE i - a + WordMod
  BY <1>3, Apart
<1>5. n <= d /\ n \in Nat
  OBVIOUS
<1> HIDE DEF d, a, e
<1>6. e = d - n
  BY <1>1, <1>3, <1>4, <1>5, RingAssumption DEF Index
<1> QED
  BY <1>6 DEF a, d, e

(* Moving the index ahead.                                                 *)
LEMMA Further ==
  ASSUME NEW i \in Index, NEW j \in Index, NEW n \in Nat, Minus(i, j) + n < WordMod
  PROVE  Minus(Plus(i, n), j) = Minus(i, j) + n
<1> DEFINE d == Minus(i, j)
           a == Plus(i, n)
           e == Minus(a, j)
<1>1. d \in Index /\ d = IF i >= j THEN i - j ELSE i - j + WordMod
  BY Apart
<1>2. n \in Index /\ d + n < WordMod
  BY <1>1, RingAssumption DEF Index
<1>3. a \in Index /\ a = IF i + n < WordMod THEN i + n ELSE i + n - WordMod
  BY <1>2, MovedOn
<1>4. e \in Index /\ e = IF a >= j THEN a - j ELSE a - j + WordMod
  BY <1>3, Apart
<1> HIDE DEF d, a, e
<1>5. e = d + n
  BY <1>1, <1>2, <1>3, <1>4, RingAssumption DEF Index
<1> QED
  BY <1>5 DEF a, d, e

(* Frames less than a ring apart lie in different slots: the width of the  *)
(* indices is a multiple of the ring.                                      *)
LEMMA SlotsApart ==
  ASSUME NEW i \in Index, NEW j \in 0 .. Capacity - 1, NEW k \in 0 .. Capacity - 1, j # k
  PROVE  Slot(Plus(i, j)) # Slot(Plus(i, k))
<1> DEFINE C == Capacity
           T == WordMod \div C
           a == Plus(i, j)
           b == Plus(i, k)
           qa == a \div C
           qb == b \div C
<1>1. C \in Nat /\ C > 0 /\ WordMod \in Nat /\ C < WordMod /\ WordMod % C = 0
  BY RingAssumption
<1>2. WordMod = C * T /\ T \in Int
  BY <1>1, DivMod
<1>0. j \in Index /\ k \in Index
  BY <1>1 DEF Index
<1>3. a \in Index /\ b \in Index /\ a \in Int /\ b \in Int
  <2>1. a \in Index /\ b \in Index
    BY <1>0, MovedOn
  <2> QED
    BY <2>1, <1>1 DEF Index
<1>4. PICK e \in {-1, 0, 1} : a - b = (j - k) + e * WordMod
  <2>1. a = IF i + j < WordMod THEN i + j ELSE i + j - WordMod
    BY <1>0, MovedOn
  <2>2. b = IF i + k < WordMod THEN i + k ELSE i + k - WordMod
    BY <1>0, MovedOn
  <2>3. (a - b = (j - k) + 0) \/ (a - b = (j - k) + WordMod) \/ (a - b = (j - k) - WordMod)
    BY <1>1, <2>1, <2>2 DEF Index
  <2> QED
    BY <1>1, <2>3
<1> SUFFICES ASSUME a % C = b % C PROVE FALSE
  BY DEF Slot
<1>5. a - b = C * (qa - qb) /\ qa \in Int /\ qb \in Int
  <2>1. a = C * qa + (a % C) /\ b = C * qb + (b % C) /\ qa \in Int /\ qb \in Int
    BY <1>1, <1>3, DivMod
  <2>2. a % C \in Int /\ b % C \in Int
    BY <1>1, <1>3, DivMod
  <2> HIDE DEF qa, qb
  <2> QED
    BY <1>1, <1>3, <2>1, <2>2
<1> HIDE DEF T, a, b, qa, qb, C
<1>6. j - k = C * (qa - qb - e * T)
  BY <1>1, <1>2, <1>3, <1>4, <1>5
<1>7. -C < j - k /\ j - k < C /\ j - k # 0
  BY <1>1 DEF C
<1>8. qa - qb - e * T \in Int
  BY <1>2, <1>4, <1>5
<1> QED
  BY <1>1, <1>6, <1>7, <1>8, Multiples

(***************************************************************************)
(* Words: types of the state whatever the geometry.                        *)
(***************************************************************************)
(* Constants, and the smallest indices.                                    *)
LEMMA Constants ==
  /\ Capacity \in Nat /\ 1 < Capacity /\ WordMod \in Nat /\ Capacity < WordMod
  /\ 0 \in Index /\ 1 \in Index /\ \A x \in Index : x \in Nat /\ x < WordMod
  /\ \A x \in Nat : x <= Capacity => x \in Index
  BY RingAssumption DEF Index

(* A depth is clamped to the ring.                                         *)
LEMMA ClampedTyped ==
  ASSUME NEW d \in Depths \cup {FirstDepth}
  PROVE  Clamped(d) \in Geometry /\ Clamped(d).target <= Clamped(d).max
<1>1. d \in Nat /\ d \div 2 \in Nat /\ d + d \div 2 \in Nat /\ Capacity - 1 \in Nat
  BY RingAssumption
<1> DEFINE m == IF d + d \div 2 <= d THEN d + 1 ELSE d + d \div 2
<1>2. m \in Nat /\ d <= m
  BY <1>1
<1>3. \A x \in Nat : Least(x, Capacity - 1) \in 0 .. Capacity - 1
  BY <1>1 DEF Least
<1> HIDE DEF m
<1>4. Clamped(d) = [prebuf |-> Least(d, Capacity - 1), target |-> Least(d, Capacity - 1),
                    max |-> Least(m, Capacity - 1)]
  BY DEF Clamped, m
<1>5. Least(d, Capacity - 1) <= Least(m, Capacity - 1)
  BY <1>1, <1>2 DEF Least
<1>6. Clamped(d) \in Geometry
  BY <1>1, <1>2, <1>3, <1>4 DEF Geometry
<1> QED
  BY <1>4, <1>5, <1>6

(* The slot of an index is in the ring.                                    *)
LEMMA SlotTyped ==
  ASSUME NEW i \in Index
  PROVE  Slot(i) \in 0 .. Capacity - 1
<1>1. i \in Int /\ Capacity \in Nat /\ Capacity > 0
  BY Constants
<1>2. i % Capacity \in 0 .. Capacity - 1
  BY <1>1
<1> QED
  BY <1>2 DEF Slot

(* The reader's record outside a call.                                     *)
LEMMA IdleTyped ==
  Idle \in Reads
  BY Constants DEF Idle, Reads, Calls

(* The fields of a typed state.                                            *)
LEMMA WordFields ==
  ASSUME Words
  PROVE  /\ w \in Index /\ r \in Index /\ owed \in Index /\ held \in Index
         /\ buf \in [0 .. Capacity - 1 -> Index]
         /\ prod \in Writing /\ cons \in Reads /\ geom \in Geometry
         /\ priming \in BOOLEAN /\ pending \in BOOLEAN /\ torn \in BOOLEAN
         /\ cons.r \in Index /\ cons.fill \in Index /\ cons.left \in Nat
         /\ cons.fill \in Nat /\ cons.dead \in Nat /\ cons.pc \in Calls
         /\ prod.batch \in Index /\ prod.copied \in Index
         /\ prod.batch \in Nat /\ prod.copied \in Nat
         /\ prod.todo \in SUBSET Fields /\ prod.geom \in Geometry
         /\ geom.prebuf \in Nat /\ geom.target \in Nat /\ geom.max \in Nat
         /\ geom.prebuf \in Index /\ geom.target \in Index
         /\ Ahead \in Index /\ Stored \in Index /\ Reading \in Index
         /\ Minus(w, cons.r) \in Index
<1>1. /\ w \in Index /\ r \in Index /\ owed \in Index /\ held \in Index
      /\ buf \in [0 .. Capacity - 1 -> Index]
      /\ prod \in Writing /\ cons \in Reads /\ geom \in Geometry
      /\ priming \in BOOLEAN /\ pending \in BOOLEAN /\ torn \in BOOLEAN
  BY DEF Words, TypeOK, Writing, Reads
<1>2. /\ cons.r \in Index /\ cons.fill \in Index /\ cons.left \in Nat
      /\ cons.dead \in Nat /\ cons.pc \in Calls
      /\ prod.batch \in Index /\ prod.copied \in Index
      /\ prod.todo \in SUBSET Fields /\ prod.geom \in Geometry
  BY <1>1 DEF Writing, Reads
<1>3. /\ geom.prebuf \in Nat /\ geom.target \in Nat /\ geom.max \in Nat
      /\ geom.prebuf < Capacity /\ geom.target < Capacity /\ geom.max < Capacity
  BY <1>1, RingAssumption DEF Geometry
<1>4. geom.prebuf \in Index /\ geom.target \in Index
  BY <1>3, Constants
<1>5. Reading \in Index
  BY <1>1, <1>2 DEF Reading
<1>6. Ahead \in Index /\ Stored \in Index /\ Minus(w, cons.r) \in Index
  BY <1>1, <1>2, <1>5, Apart DEF Ahead, Stored
<1>7. cons.fill \in Nat /\ prod.batch \in Nat /\ prod.copied \in Nat
  BY <1>2, Constants
<1> QED
  BY <1>1, <1>2, <1>3, <1>4, <1>5, <1>6, <1>7

(* What a batch may hold: no more than there was room for.                 *)
LEMMA BatchCut ==
  ASSUME Words, NEW n \in Batches
  PROVE  Least(n, Minus(Capacity, Minus(w, r))) \in Index
<1>1. n \in Nat
  BY RingAssumption
<1>2. Capacity \in Index /\ Minus(w, r) \in Index
  BY WordFields, Constants DEF Stored
<1>3. Minus(Capacity, Minus(w, r)) \in Index
  BY <1>2, Apart
<1> QED
  BY <1>1, <1>3, RingAssumption DEF Least, Index

(* The producer's steps keep Words.                                        *)
LEMMA ProducerWords ==
  ASSUME Words, Producer
  PROVE  Words'
<1>0. /\ prod \in Writing /\ changes \in 0 .. MaxChanges /\ MaxChanges \in Nat
      /\ torn' = torn /\ UNCHANGED <<r, held, cons>>
      /\ (cons.pc \in Calls \ {"idle", "fill"} => cons.r = r)
  BY RingAssumption, WordFields
     DEF Producer, WriteBegin, CopyFrame, WriteEnd, SetJitterFrames, Reprime, Store, reader,
         Words, TypeOK
<1>1. ASSUME prod' \in Writing, buf' \in [0 .. Capacity - 1 -> Index], w' \in Index,
             owed' \in Index, geom' \in Geometry, priming' \in BOOLEAN,
             pending' \in BOOLEAN, changes' \in 0 .. MaxChanges
      PROVE  Words'
  BY <1>0, <1>1, WordFields DEF Words, TypeOK, Writing, Reads
<1>2. ASSUME NEW n \in Batches, WriteBegin(n) PROVE Words'
  <2> DEFINE fits == Least(n, Minus(Capacity, Minus(w, r)))
  <2>1. fits \in Index
    BY BatchCut
  <2>2. prod' = [prod EXCEPT !.batch = fits, !.copied = 0] /\ owed' = Plus(owed, fits)
        /\ UNCHANGED <<buf, w, geom, priming, pending, changes>>
    BY <1>2 DEF WriteBegin
  <2> HIDE DEF fits
  <2>3. Plus(owed, fits) \in Index
    BY <2>1, WordFields, MovedOn
  <2>4. prod' \in Writing
    BY <1>0, <2>1, <2>2, Constants DEF Writing
  <2> QED
    BY <1>0, <1>1, <2>2, <2>3, <2>4, WordFields
<1>3. CASE CopyFrame
  <2>0. prod.copied < prod.batch /\ prod.copied \in Nat /\ prod.batch \in Index
    BY <1>3, WordFields DEF CopyFrame
  <2>1. prod.copied + 1 \in Index
    BY <2>0, RingAssumption DEF Index
  <2>2. Plus(w, prod.copied) \in Index /\ Slot(Plus(w, prod.copied)) \in 0 .. Capacity - 1
    BY WordFields, MovedOn, SlotTyped
  <2>3. prod' = [prod EXCEPT !.copied = prod.copied + 1]
        /\ buf' = [buf EXCEPT ![Slot(Plus(w, prod.copied))] = Plus(w, prod.copied)]
        /\ UNCHANGED <<w, geom, priming, pending, owed, changes>>
    BY <1>3 DEF CopyFrame
  <2>4. prod' \in Writing
    BY <1>0, <2>1, <2>3 DEF Writing
  <2>5. buf' \in [0 .. Capacity - 1 -> Index]
    BY <2>2, <2>3, WordFields
  <2> QED
    BY <1>0, <1>1, <2>3, <2>4, <2>5, WordFields
<1>4. CASE WriteEnd
  <2>1. Plus(w, prod.batch) \in Index
    BY WordFields, MovedOn
  <2>2. prod' = [prod EXCEPT !.batch = 0, !.copied = 0] /\ w' = Plus(w, prod.batch)
        /\ UNCHANGED <<buf, geom, priming, pending, owed, changes>>
    BY <1>4 DEF WriteEnd
  <2>3. prod' \in Writing
    BY <1>0, <2>2, Constants DEF Writing
  <2> QED
    BY <1>0, <1>1, <2>1, <2>2, <2>3, WordFields
<1>5. ASSUME NEW d \in Depths, SetJitterFrames(d) PROVE Words'
  <2>1. Clamped(d) \in Geometry /\ Fields \in SUBSET Fields
    BY ClampedTyped
  <2>2. prod' = [prod EXCEPT !.todo = Fields, !.geom = Clamped(d)] /\ changes < MaxChanges
        /\ changes' = changes + 1 /\ UNCHANGED <<buf, w, geom, priming, pending, owed>>
    BY <1>5 DEF SetJitterFrames
  <2>3. prod' \in Writing
    BY <1>0, <2>1, <2>2 DEF Writing
  <2>4. changes' \in 0 .. MaxChanges
    BY <1>0, <2>2
  <2> QED
    BY <1>1, <2>2, <2>3, <2>4, WordFields
<1>6. CASE Reprime
  <2>1. {"priming"} \in SUBSET Fields
    BY DEF Fields
  <2>2. prod' = [prod EXCEPT !.todo = {"priming"}] /\ changes < MaxChanges
        /\ changes' = changes + 1 /\ UNCHANGED <<buf, w, geom, priming, pending, owed>>
    BY <1>6 DEF Reprime
  <2>3. prod' \in Writing
    BY <1>0, <2>1, <2>2 DEF Writing
  <2>4. changes' \in 0 .. MaxChanges
    BY <1>0, <2>2
  <2> QED
    BY <1>1, <2>2, <2>3, <2>4, WordFields
<1>7. ASSUME NEW f \in Fields, Store(f) PROVE Words'
  <2>1. geom' \in Geometry /\ priming' \in BOOLEAN /\ pending' \in BOOLEAN
    BY <1>7, WordFields DEF Store, Geometry, Fields
  <2>2. prod' = [prod EXCEPT !.todo = prod.todo \ {f}] /\ prod.todo \ {f} \in SUBSET Fields
        /\ UNCHANGED <<buf, w, owed, changes>>
    BY <1>7, WordFields DEF Store
  <2>3. prod' \in Writing
    BY <1>0, <2>2 DEF Writing
  <2> QED
    BY <1>0, <1>1, <2>1, <2>2, <2>3, WordFields
<1> QED
  BY <1>2, <1>3, <1>4, <1>5, <1>6, <1>7 DEF Producer

(***************************************************************************)
(* What each step of read() does to the call's record.                     *)
(***************************************************************************)
(* The loads at the start of a block.                                      *)
LEMMA Begun ==
  ASSUME Words, NEW n \in Blocks, ReadBegin(n)
  PROVE  /\ cons.pc = "idle" /\ cons' \in Reads
         /\ cons'.pc = "gate" /\ cons'.r = r /\ cons'.fill = Stored
         /\ UNCHANGED <<buf, w, r, geom, priming, held, prod, owed, pending, changes, torn>>
<1>1. n \in Nat /\ r \in Index /\ Stored \in Index /\ pending \in BOOLEAN /\ Idle \in Reads
  BY RingAssumption, WordFields, IdleTyped
<1>2. cons' = [Idle EXCEPT !.pc = "gate", !.r = r, !.fill = Stored, !.left = n,
                           !.late = pending]
  BY DEF ReadBegin, Stored
<1> HIDE DEF Stored, Idle
<1>3. cons' \in Reads /\ cons'.pc = "gate" /\ cons'.r = r /\ cons'.fill = Stored
  BY <1>1, <1>2 DEF Reads, Calls
<1> QED
  BY <1>3 DEF ReadBegin, writer

(* The steps that look at a plain variable, or store _priming.             *)
Looks == Gate \/ Prime \/ Open \/ Above \/ Trim \/ Drift \/ Low

(* Where the call stands and what it goes by are left alone, or the call   *)
(* returns.                                                                *)
LEMMA Looked ==
  ASSUME Words, Looks
  PROVE  /\ cons.pc \in Calls \ {"idle", "fill"} /\ cons' \in Reads
         /\ \/ cons' = Idle
            \/ cons'.r = cons.r /\ cons'.fill = cons.fill /\ cons'.pc # "idle"
         /\ cons'.pc = "drop" => Above /\ geom.prebuf < cons.fill
         /\ cons'.pc = "cut" => Trim /\ geom.max < cons.fill
         /\ priming' \in BOOLEAN /\ pending' \in BOOLEAN
         /\ UNCHANGED <<buf, w, r, geom, held, prod, owed, changes, torn>>
<1>1. /\ cons \in Reads /\ Idle \in Reads /\ Idle.pc = "idle" /\ priming \in BOOLEAN
      /\ pending \in BOOLEAN /\ cons.fill \in Nat /\ geom.prebuf \in Nat /\ geom.max \in Nat
      /\ geom.target \in Nat
  BY WordFields, IdleTyped DEF Idle
<1>2. ASSUME NEW next \in Calls, cons' = [cons EXCEPT !.pc = next]
      PROVE  cons' \in Reads /\ cons'.r = cons.r /\ cons'.fill = cons.fill /\ cons'.pc = next
  BY <1>1, <1>2 DEF Reads
<1>3. CASE Gate
  <2> DEFINE next == IF priming THEN "prime" ELSE "trim"
  <2>1. next \in Calls /\ next \in {"prime", "trim"}
    BY DEF Calls
  <2>2. cons.pc = "gate" /\ cons' = [cons EXCEPT !.pc = next]
    BY <1>3 DEF Gate, Step
  <2> HIDE DEF next
  <2>3. cons' \in Reads /\ cons'.r = cons.r /\ cons'.fill = cons.fill /\ cons'.pc = next
    BY <1>2, <2>1, <2>2
  <2> QED
    BY <1>1, <1>3, <2>1, <2>2, <2>3 DEF Gate, Step, writer, Calls
<1>4. CASE Prime
  <2>1. CASE cons.fill >= geom.prebuf
    <3>1. cons' = [cons EXCEPT !.pc = "open", !.late = FALSE]
      BY <1>4, <2>1 DEF Prime
    <3>2. cons' \in Reads /\ cons'.r = cons.r /\ cons'.fill = cons.fill /\ cons'.pc = "open"
      BY <1>1, <3>1 DEF Reads, Calls
    <3> QED
      BY <1>1, <1>4, <3>2 DEF Prime, writer, Calls
  <2>2. CASE ~(cons.fill >= geom.prebuf)
    <3>1. cons' = Idle
      BY <1>4, <2>2 DEF Prime
    <3>2. cons' \in Reads /\ cons'.pc = "idle"
      BY <1>1, <3>1
    <3> QED
      BY <1>1, <1>4, <3>1, <3>2 DEF Prime, writer, Calls
  <2> QED
    BY <2>1, <2>2
<1>5. CASE Open
  <2>1. cons.pc = "open" /\ cons' = [cons EXCEPT !.pc = "above"] /\ "above" \in Calls
    BY <1>5 DEF Open, Step, Calls
  <2>2. cons' \in Reads /\ cons'.r = cons.r /\ cons'.fill = cons.fill /\ cons'.pc = "above"
    BY <1>2, <2>1
  <2> QED
    BY <1>1, <1>5, <2>1, <2>2 DEF Open, Step, writer, Calls
<1>6. CASE Above
  <2> DEFINE next == IF cons.fill > geom.prebuf THEN "drop" ELSE "trim"
  <2>1. next \in Calls /\ next \in {"drop", "trim"} /\ (next = "drop" => geom.prebuf < cons.fill)
    BY <1>1 DEF Calls
  <2>2. cons.pc = "above" /\ cons' = [cons EXCEPT !.pc = next]
    BY <1>6 DEF Above, Step
  <2> HIDE DEF next
  <2>3. cons' \in Reads /\ cons'.r = cons.r /\ cons'.fill = cons.fill /\ cons'.pc = next
    BY <1>2, <2>1, <2>2
  <2>4. UNCHANGED <<buf, w, r, geom, priming, held, prod, owed, pending, changes, torn>>
    BY <1>6 DEF Above, Step, writer
  <2> QED
    BY <1>1, <1>6, <2>1, <2>2, <2>3, <2>4 DEF Calls
<1>7. CASE Trim
  <2> DEFINE next == IF cons.fill > geom.max THEN "cut" ELSE "drift"
  <2>1. next \in Calls /\ next \in {"cut", "drift"} /\ (next = "cut" => geom.max < cons.fill)
    BY <1>1 DEF Calls
  <2>2. cons.pc = "trim" /\ cons' = [cons EXCEPT !.pc = next]
    BY <1>7 DEF Trim, Step
  <2> HIDE DEF next
  <2>3. cons' \in Reads /\ cons'.r = cons.r /\ cons'.fill = cons.fill /\ cons'.pc = next
    BY <1>2, <2>1, <2>2
  <2>4. UNCHANGED <<buf, w, r, geom, priming, held, prod, owed, pending, changes, torn>>
    BY <1>7 DEF Trim, Step, writer
  <2> QED
    BY <1>1, <1>7, <2>1, <2>2, <2>3, <2>4 DEF Calls
<1>8. CASE Drift
  <2> DEFINE dead == geom.target \div 4 + DEADBAND
  <2>1. dead \in Nat
    <3>1. geom.target \div 4 \in Nat /\ DEADBAND \in Nat
      BY <1>1, RingAssumption
    <3> QED
      BY <3>1
  <2>2. cons.pc = "drift" /\ cons' = [cons EXCEPT !.pc = "high", !.dead = dead]
    BY <1>8 DEF Drift
  <2> HIDE DEF dead
  <2>3. cons' \in Reads /\ cons'.r = cons.r /\ cons'.fill = cons.fill /\ cons'.pc = "high"
    BY <1>1, <2>1, <2>2 DEF Reads, Calls
  <2> QED
    BY <1>1, <1>8, <2>2, <2>3 DEF Drift, writer, Calls
<1>9. CASE Low
  <2> DEFINE d == IF cons.fill > 0 /\ Plus(cons.fill, cons.dead) < geom.target THEN -1 ELSE 0
  <2>1. d \in -1 .. 1
    OBVIOUS
  <2>2. cons.pc = "low" /\ cons' = [cons EXCEPT !.pc = "fill", !.drift = d]
    BY <1>9 DEF Low
  <2> HIDE DEF d
  <2>3. cons' \in Reads /\ cons'.r = cons.r /\ cons'.fill = cons.fill /\ cons'.pc = "fill"
    BY <1>1, <2>1, <2>2 DEF Reads, Calls
  <2> QED
    BY <1>1, <1>9, <2>2, <2>3 DEF Low, writer, Calls
<1> QED
  BY <1>3, <1>4, <1>5, <1>6, <1>7, <1>8, <1>9 DEF Looks

(* The two trims: unless torn, they go over frames of the fill.            *)
LEMMA TakenDown ==
  ASSUME Words, Drop \/ Cut
  PROVE  /\ cons.pc \in {"drop", "cut"} /\ cons' \in Reads
         /\ cons'.pc \in {"trim", "drift"}
         /\ \E n \in Index :
              /\ cons'.r = Plus(cons.r, n) /\ r' = Plus(cons.r, n) /\ owed' = Minus(owed, n)
              /\ ~torn' => n <= cons.fill /\ cons'.fill = cons.fill - n
         /\ torn' = (torn \/ IF cons.pc = "drop" THEN geom.prebuf > cons.fill
                                                 ELSE geom.target > cons.fill)
         /\ UNCHANGED <<buf, w, geom, priming, held, prod, pending, changes>>
<1>1. /\ cons \in Reads /\ cons.r \in Index /\ cons.fill \in Index /\ cons.fill \in Nat
      /\ geom.prebuf \in Index /\ geom.target \in Index
      /\ geom.prebuf \in Nat /\ geom.target \in Nat
  BY WordFields
<1>2. ASSUME NEW depth \in Index, depth \in Nat, NEW next \in {"trim", "drift"},
             TrimTo(depth, next)
      PROVE  /\ cons' \in Reads /\ cons'.pc = next
             /\ \E n \in Index :
                  /\ cons'.r = Plus(cons.r, n) /\ r' = Plus(cons.r, n)
                  /\ owed' = Minus(owed, n)
                  /\ ~torn' => n <= cons.fill /\ cons'.fill = cons.fill - n
             /\ torn' = (torn \/ depth > cons.fill)
             /\ UNCHANGED <<buf, w, geom, priming, held, prod, pending, changes>>
  <2> DEFINE n == Minus(cons.fill, depth)
  <2>1. n \in Index /\ n = IF cons.fill >= depth THEN cons.fill - depth
                           ELSE cons.fill - depth + WordMod
    BY <1>1, Apart
  <2>2. cons' = [cons EXCEPT !.pc = next, !.r = Plus(cons.r, n), !.fill = depth]
        /\ r' = Plus(cons.r, n) /\ owed' = Minus(owed, n)
    BY <1>2 DEF TrimTo, Discard
  <2>3. torn' = (torn \/ depth > cons.fill)
        /\ UNCHANGED <<buf, w, geom, priming, held, prod, pending, changes>>
    BY <1>2 DEF TrimTo, writer
  <2> HIDE DEF n
  <2>4. Plus(cons.r, n) \in Index /\ next \in Calls
    BY <1>1, <2>1, MovedOn DEF Calls
  <2>5. cons' \in Reads /\ cons'.pc = next /\ cons'.r = Plus(cons.r, n) /\ cons'.fill = depth
    BY <1>1, <2>2, <2>4 DEF Reads
  <2>6. ~torn' => n <= cons.fill /\ depth = cons.fill - n
    <3> SUFFICES ASSUME ~torn' PROVE n <= cons.fill /\ depth = cons.fill - n
      OBVIOUS
    <3>1. ~(depth > cons.fill)
      BY <2>3
    <3>2. cons.fill >= depth
      BY <1>1, <1>2, <3>1
    <3> QED
      BY <1>1, <1>2, <2>1, <3>2
  <2> QED
    BY <2>1, <2>2, <2>3, <2>5, <2>6
<1>3. CASE Drop
  <2>1. cons.pc = "drop" /\ TrimTo(geom.prebuf, "trim")
    BY <1>3 DEF Drop
  <2> QED
    BY <1>1, <1>2, <2>1
<1>4. CASE Cut
  <2>1. cons.pc = "cut" /\ TrimTo(geom.target, "drift")
    BY <1>4 DEF Cut
  <2> QED
    BY <1>1, <1>2, <2>1
<1> QED
  BY <1>3, <1>4

(* The drift correction drops one frame or none.                           *)
LEMMA Nudged ==
  ASSUME Words, High
  PROVE  /\ cons.pc = "high" /\ cons' \in Reads
         /\ \/ /\ 1 <= cons.fill
               /\ cons'.r = Plus(cons.r, 1) /\ cons'.fill = cons.fill - 1
               /\ r' = Plus(cons.r, 1) /\ owed' = Minus(owed, 1) /\ cons'.pc = "fill"
            \/ /\ cons'.r = cons.r /\ cons'.fill = cons.fill /\ cons'.pc = "low"
               /\ UNCHANGED <<r, owed>>
         /\ UNCHANGED <<buf, w, geom, priming, held, prod, pending, changes, torn>>
<1>1. /\ cons \in Reads /\ cons.r \in Index /\ cons.fill \in Index /\ cons.fill \in Nat
      /\ geom.target \in Nat /\ cons.dead \in Nat /\ WordMod \in Nat /\ WordMod > 0
  BY WordFields, RingAssumption
<1>2. Plus(geom.target, cons.dead) \in Nat
  <2>1. geom.target + cons.dead \in Int
    BY <1>1
  <2>2. (geom.target + cons.dead) % WordMod \in 0 .. WordMod - 1
    BY <1>1, <2>1, DivMod
  <2> QED
    BY <1>1, <2>2 DEF Plus
<1>3. CASE cons.fill > Plus(geom.target, cons.dead)
  <2>1. 1 <= cons.fill
    BY <1>1, <1>2, <1>3
  <2>2. Plus(cons.r, 1) \in Index /\ cons.fill - 1 \in Index /\ 1 \in -1 .. 1
    <3>1. cons.fill - 1 \in Index
      BY <1>1, <2>1, RingAssumption DEF Index
    <3> QED
      BY <1>1, <3>1, Constants, MovedOn
  <2>3. /\ cons' = [cons EXCEPT !.pc = "fill", !.drift = 1,
                                !.r = Plus(cons.r, 1), !.fill = cons.fill - 1]
        /\ r' = Plus(cons.r, 1) /\ owed' = Minus(owed, 1)
    BY <1>3 DEF High, Discard
  <2>4. cons' \in Reads /\ cons'.pc = "fill" /\ cons'.r = Plus(cons.r, 1)
        /\ cons'.fill = cons.fill - 1
    BY <1>1, <2>2, <2>3 DEF Reads, Calls
  <2> QED
    BY <2>1, <2>3, <2>4 DEF High, writer
<1>4. CASE ~(cons.fill > Plus(geom.target, cons.dead))
  <2>1. cons' = [cons EXCEPT !.pc = "low"] /\ UNCHANGED <<r, owed>>
    BY <1>4 DEF High
  <2>2. cons' \in Reads /\ cons'.pc = "low" /\ cons'.r = cons.r /\ cons'.fill = cons.fill
    BY <1>1, <2>1 DEF Reads, Calls
  <2> QED
    BY <2>1, <2>2 DEF High, writer
<1> QED
  BY <1>3, <1>4

(* A frame of the block is sourced, or the last one held is repeated.      *)
LEMMA Filled ==
  ASSUME Words, FillFrame
  PROVE  /\ cons.pc = "fill" /\ cons' \in Reads /\ cons'.pc = "fill"
         /\ \/ /\ cons'.r = cons.r /\ cons'.fill = cons.fill
               /\ UNCHANGED <<held, owed>>
            \/ LET fill == IF cons.fill = 0 THEN Minus(w, cons.r) ELSE cons.fill
               IN  /\ fill \in Index /\ 1 <= fill
                   /\ cons'.r = Plus(cons.r, 1) /\ cons'.fill = fill - 1
                   /\ owed' = Minus(owed, 1) /\ held' = buf[Slot(cons.r)]
         /\ UNCHANGED <<buf, w, r, geom, priming, prod, pending, changes, torn>>
<1> DEFINE fill == IF cons.fill = 0 THEN Minus(w, cons.r) ELSE cons.fill
<1>1. /\ cons \in Reads /\ cons.r \in Index /\ cons.left \in Nat
      /\ fill \in Index /\ fill \in Nat
  BY WordFields, Constants
<1>2. /\ cons.pc = "fill" /\ cons.left > 0
      /\ IF Repeats \/ fill = 0
         THEN /\ cons' = [cons EXCEPT !.left = cons.left - 1]
              /\ UNCHANGED <<held, owed>>
         ELSE /\ held' = buf[Slot(cons.r)]
              /\ owed' = Minus(owed, 1)
              /\ cons' = [cons EXCEPT !.left = cons.left - 1, !.fill = fill - 1,
                                      !.r = Plus(cons.r, 1)]
      /\ UNCHANGED <<buf, w, r, geom, priming, prod, pending, changes, torn>>
  BY DEF FillFrame, writer
<1> HIDE DEF fill
<1>3. cons.left - 1 \in Nat
  BY <1>1, <1>2
<1>4. CASE Repeats \/ fill = 0
  <2>1. cons' \in Reads /\ cons'.pc = "fill" /\ cons'.r = cons.r /\ cons'.fill = cons.fill
    BY <1>1, <1>2, <1>3, <1>4 DEF Reads
  <2> QED
    BY <1>2, <1>4, <2>1
<1>5. CASE ~(Repeats \/ fill = 0)
  <2>1. 1 <= fill /\ fill - 1 \in Index /\ Plus(cons.r, 1) \in Index
    <3>1. 1 <= fill
      BY <1>1, <1>5
    <3>2. fill - 1 \in Index
      BY <1>1, <3>1, RingAssumption DEF Index
    <3> QED
      BY <1>1, <3>1, <3>2, Constants, MovedOn
  <2>2. cons' \in Reads /\ cons'.pc = "fill" /\ cons'.r = Plus(cons.r, 1)
        /\ cons'.fill = fill - 1
    BY <1>1, <1>2, <1>3, <1>5, <2>1 DEF Reads
  <2> QED
    BY <1>1, <1>2, <1>5, <2>1, <2>2 DEF fill
<1> QED
  BY <1>4, <1>5

(* The end of a block.                                                     *)
LEMMA Ended ==
  ASSUME Words, ReadEnd
  PROVE  /\ cons.pc = "fill" /\ cons' = Idle /\ r' = cons.r
         /\ UNCHANGED <<buf, w, geom, priming, held, prod, owed, pending, changes, torn>>
  BY DEF ReadEnd, writer

(* The reader's steps, by what they do.                                    *)
LEMMA ConsumerSteps ==
  ASSUME Consumer
  PROVE  \/ \E n \in Blocks : ReadBegin(n)
         \/ Looks \/ (Drop \/ Cut) \/ High \/ FillFrame \/ ReadEnd
  BY DEF Consumer, Looks

(* The reader's steps keep Words.                                          *)
LEMMA ConsumerWords ==
  ASSUME Words, Consumer
  PROVE  Words'
<1>0. /\ w \in Index /\ r \in Index /\ owed \in Index /\ cons.r \in Index /\ 1 \in Index
      /\ buf \in [0 .. Capacity - 1 -> Index] /\ held \in Index /\ Idle \in Reads
      /\ Idle.pc = "idle" /\ prod \in Writing /\ geom \in Geometry
      /\ priming \in BOOLEAN /\ pending \in BOOLEAN /\ torn \in BOOLEAN
      /\ changes \in 0 .. MaxChanges
  BY WordFields, Constants, IdleTyped DEF Words, TypeOK, Idle
<1>1. \A n \in Index : Plus(cons.r, n) \in Index /\ Minus(owed, n) \in Index
  BY <1>0, MovedOn, Apart
<1>2. /\ (cons.pc \in Calls \ {"idle", "fill"} => cons.r = r)
      /\ "trim" \in Calls /\ "drift" \in Calls
  BY DEF Words, Calls
<1> DEFINE Flags == priming' \in BOOLEAN /\ pending' \in BOOLEAN /\ torn' \in BOOLEAN
           Kept == /\ r' \in Index /\ held' \in Index /\ owed' \in Index /\ cons' \in Reads
                   /\ (cons'.pc \in Calls \ {"idle", "fill"} => cons'.r = r')
                   /\ UNCHANGED <<buf, w, geom, prod, changes>>
<1> SUFFICES Flags /\ Kept
  <2>1. ASSUME Kept, Flags PROVE Words'
    <3>1. buf' = buf /\ w' = w /\ geom' = geom /\ prod' = prod /\ changes' = changes
      BY <2>1
    <3> QED
      BY <1>0, <2>1, <3>1 DEF Words, TypeOK, Reads, Writing
  <2> QED
    BY <2>1
<1>3. ASSUME NEW n \in Blocks, ReadBegin(n) PROVE Flags /\ Kept
  <2>1. Flags
    BY <1>0, <1>3, Begun
  <2>2. Kept
    BY <1>0, <1>3, Begun
  <2> QED
    BY <2>1, <2>2
<1>4. CASE Looks
  <2>1. Flags
    BY <1>0, <1>4, Looked
  <2>2. UNCHANGED <<buf, w, r, geom, held, prod, owed, changes>> /\ cons' \in Reads
    BY <1>4, Looked
  <2>3. cons'.pc \in Calls \ {"idle", "fill"} => cons'.r = r'
    <3>1. cons.r = r
      BY <1>2, <1>4, Looked
    <3>2. CASE cons' = Idle
      BY <1>0, <3>2
    <3>3. CASE cons'.r = cons.r
      BY <2>2, <3>1, <3>3
    <3> QED
      BY <1>4, <3>2, <3>3, Looked
  <2> QED
    BY <1>0, <2>1, <2>2, <2>3
<1>5. CASE Drop \/ Cut
  <2>1. torn' \in BOOLEAN
    BY <1>5, TakenDown
  <2>2. Flags
    BY <1>0, <1>5, <2>1, TakenDown
  <2>3. PICK n \in Index :
             cons'.r = Plus(cons.r, n) /\ r' = Plus(cons.r, n) /\ owed' = Minus(owed, n)
    BY <1>5, TakenDown
  <2>4. UNCHANGED <<buf, w, geom, held, prod, changes>> /\ cons' \in Reads
    BY <1>5, TakenDown
  <2> QED
    BY <1>0, <1>1, <2>2, <2>3, <2>4
<1>6. CASE High
  <2>1. Flags
    BY <1>0, <1>6, Nudged
  <2>2. cons.r = r
    BY <1>2, <1>6, Nudged DEF Calls
  <2>3. UNCHANGED <<buf, w, geom, held, prod, changes>> /\ cons' \in Reads
    BY <1>6, Nudged
  <2>4. \/ cons'.r = Plus(cons.r, 1) /\ r' = Plus(cons.r, 1) /\ owed' = Minus(owed, 1)
        \/ cons'.r = cons.r /\ UNCHANGED <<r, owed>>
    BY <1>6, Nudged
  <2> QED
    BY <1>0, <1>1, <2>1, <2>2, <2>3, <2>4
<1>7. CASE FillFrame
  <2>1. Flags
    BY <1>0, <1>7, Filled
  <2>2. buf[Slot(cons.r)] \in Index
    BY <1>0, SlotTyped
  <2>3. UNCHANGED <<buf, w, r, geom, prod, changes>> /\ cons' \in Reads /\ cons'.pc = "fill"
    BY <1>7, Filled
  <2>4. \/ UNCHANGED <<held, owed>>
        \/ held' = buf[Slot(cons.r)] /\ owed' = Minus(owed, 1)
    BY <1>7, Filled
  <2> QED
    BY <1>0, <1>1, <2>1, <2>2, <2>3, <2>4
<1>8. CASE ReadEnd
  <2>1. Flags
    BY <1>0, <1>8, Ended
  <2>2. Kept
    BY <1>0, <1>8, Ended
  <2> QED
    BY <2>1, <2>2
<1> QED
  BY <1>3, <1>4, <1>5, <1>6, <1>7, <1>8, ConsumerSteps

(* Words holds throughout.                                                 *)
LEMMA WordsHold == Spec => []Words
<1>1. ASSUME Init PROVE Words
  <2>1. Clamped(FirstDepth) \in Geometry /\ {} \in SUBSET Fields
    BY ClampedTyped
  <2>2. prod = [batch |-> 0, copied |-> 0, todo |-> {}, geom |-> Clamped(FirstDepth)]
        /\ geom = Clamped(FirstDepth)
    BY <1>1 DEF Init
  <2>3. prod \in Writing /\ geom \in Geometry
    BY <2>1, <2>2, Constants DEF Writing
  <2>4. cons \in Reads /\ cons.pc = "idle"
    BY <1>1, IdleTyped DEF Init, Idle
  <2>5. /\ w \in Index /\ r \in Index /\ owed \in Index /\ held \in Index
        /\ buf \in [0 .. Capacity - 1 -> Index]
    BY <1>1, Constants DEF Init
  <2>6. priming \in BOOLEAN /\ pending \in BOOLEAN /\ torn \in BOOLEAN
    BY <1>1 DEF Init
  <2>7. changes \in 0 .. MaxChanges
    <3>1. changes = 0 /\ MaxChanges \in Nat
      BY <1>1, RingAssumption DEF Init
    <3> QED
      BY <3>1
  <2> QED
    BY <2>3, <2>4, <2>5, <2>6, <2>7 DEF Words, TypeOK, Writing, Reads
<1>2. ASSUME Words, UNCHANGED vars PROVE Words'
  BY <1>2 DEF Words, TypeOK, vars
<1>3. Words /\ [Next]_vars => Words'
  BY <1>2, ProducerWords, ConsumerWords DEF Next
<1> QED
  BY <1>1, <1>3, PTL DEF Spec, Safety

(* The state stays typed whatever depths are asked for, torn or not: every *)
(* index and fill within its word, every depth within the ring.            *)
THEOREM TypeCorrect == Spec => []TypeOK
<1>1. Words => TypeOK
  BY DEF Words
<1> QED
  BY <1>1, WordsHold, PTL

(***************************************************************************)
(* Every frame is accounted for.                                           *)
(***************************************************************************)
(* A frame less ahead of the reader is a frame less owed.                  *)
LEMMA LessOwed ==
  ASSUME NEW i \in Index, NEW j \in Index, NEW n \in Index, NEW b \in Index
  PROVE  Minus(Plus(Minus(i, j), b), n) = Plus(Minus(i, Plus(j, n)), b)
<1> DEFINE d == Minus(i, j)
           o == Plus(d, b)
           a == Plus(j, n)
           e == Minus(i, a)
           x == Minus(o, n)
           y == Plus(e, b)
<1>1. b \in Int /\ -WordMod <= b /\ b <= WordMod
  BY RingAssumption DEF Index
<1>2. d \in Index /\ d = IF i >= j THEN i - j ELSE i - j + WordMod
  BY Apart
<1>3. o \in Index /\ o = IF d + b < 0 THEN d + b + WordMod
                         ELSE IF d + b < WordMod THEN d + b ELSE d + b - WordMod
  BY <1>1, <1>2, Moved
<1>4. a \in Index /\ a = IF j + n < WordMod THEN j + n ELSE j + n - WordMod
  BY MovedOn
<1>5. e \in Index /\ e = IF i >= a THEN i - a ELSE i - a + WordMod
  BY <1>4, Apart
<1>6. x \in Index /\ x = IF o >= n THEN o - n ELSE o - n + WordMod
  BY <1>3, Apart
<1>7. y \in Index /\ y = IF e + b < 0 THEN e + b + WordMod
                         ELSE IF e + b < WordMod THEN e + b ELSE e + b - WordMod
  BY <1>1, <1>5, Moved
<1> HIDE DEF d, o, a, e, x, y
<1>8. x = y
  BY <1>1, <1>2, <1>3, <1>4, <1>5, <1>6, <1>7, RingAssumption DEF Index
<1> QED
  BY <1>8 DEF d, o, a, e, x, y

(* A batch is owed from its start, and ahead of the reader from its end.   *)
LEMMA BatchOwed ==
  ASSUME NEW i \in Index, NEW j \in Index, NEW n \in Index
  PROVE  Minus(Plus(i, n), j) = Plus(Minus(i, j), n) /\ Plus(i, 0) = i
<1> DEFINE d == Minus(i, j)
           a == Plus(i, n)
           x == Minus(a, j)
           y == Plus(d, n)
<1>1. d \in Index /\ d = IF i >= j THEN i - j ELSE i - j + WordMod
  BY Apart
<1>2. a \in Index /\ a = IF i + n < WordMod THEN i + n ELSE i + n - WordMod
  BY MovedOn
<1>3. x \in Index /\ x = IF a >= j THEN a - j ELSE a - j + WordMod
  BY <1>2, Apart
<1>4. y \in Index /\ y = IF d + n < WordMod THEN d + n ELSE d + n - WordMod
  BY <1>1, MovedOn
<1>5. Plus(i, 0) = IF i + 0 < WordMod THEN i + 0 ELSE i + 0 - WordMod
  BY Constants, MovedOn
<1> HIDE DEF d, a, x, y
<1>6. x = y
  BY <1>1, <1>2, <1>3, <1>4, RingAssumption DEF Index
<1>7. Plus(i, 0) = i
  BY <1>5, RingAssumption DEF Index
<1> QED
  BY <1>6, <1>7 DEF d, a, x, y

(* How far the reader moves in a step, and what it stores.                 *)
LEMMA ReaderMoves ==
  ASSUME Words, Consumer
  PROVE  /\ \/ Reading' = Reading /\ owed' = owed
            \/ \E n \in Index : Reading' = Plus(Reading, n) /\ owed' = Minus(owed, n)
         /\ UNCHANGED <<buf, w, geom, prod>>
<1>1. /\ cons.pc = "idle" => Reading = r
      /\ cons.pc # "idle" => Reading = cons.r
      /\ cons'.pc = "idle" => Reading' = r'
      /\ cons'.pc # "idle" => Reading' = cons'.r
      /\ Idle.pc = "idle" /\ 1 \in Index
  BY Constants DEF Reading, Idle
<1>2. ASSUME NEW n \in Blocks, ReadBegin(n)
      PROVE  Reading' = Reading /\ owed' = owed /\ UNCHANGED <<buf, w, geom, prod>>
  BY <1>1, <1>2, Begun
<1>3. CASE Looks
  <2>1. cons.r = r /\ Reading = r /\ owed' = owed /\ UNCHANGED <<buf, w, geom, prod, r>>
    BY <1>1, <1>3, Looked DEF Words
  <2>2. CASE cons' = Idle
    BY <1>1, <2>1, <2>2
  <2>3. CASE cons'.r = cons.r
    BY <1>1, <2>1, <2>3
  <2> QED
    BY <1>3, <2>1, <2>2, <2>3, Looked
<1>4. CASE Drop \/ Cut
  BY <1>1, <1>4, TakenDown
<1>5. CASE High
  BY <1>1, <1>5, Nudged
<1>6. CASE FillFrame
  BY <1>1, <1>6, Filled
<1>7. CASE ReadEnd
  BY <1>1, <1>7, Ended
<1> QED
  BY <1>2, <1>3, <1>4, <1>5, <1>6, <1>7, ConsumerSteps

(* Accounted is kept by every step.                                        *)
LEMMA StepAccounted ==
  ASSUME Words, Accounted, [Next]_vars
  PROVE  Accounted'
<1>1. /\ owed = Plus(Ahead, prod.batch) /\ Ahead = Minus(w, Reading)
      /\ w \in Index /\ Reading \in Index /\ Ahead \in Index
      /\ prod.batch \in Index /\ prod \in Writing
  BY WordFields DEF Accounted, Ahead
<1>2. CASE Consumer
  <2>1. /\ \/ Reading' = Reading /\ owed' = owed
           \/ \E n \in Index : Reading' = Plus(Reading, n) /\ owed' = Minus(owed, n)
        /\ UNCHANGED <<w, prod>>
    BY <1>2, ReaderMoves
  <2>2. ASSUME NEW n \in Index, Reading' = Plus(Reading, n), owed' = Minus(owed, n)
        PROVE  owed' = Plus(Minus(w, Reading'), prod.batch)
    <3>1. Minus(Plus(Minus(w, Reading), prod.batch), n)
            = Plus(Minus(w, Plus(Reading, n)), prod.batch)
      BY <1>1, LessOwed
    <3> QED
      BY <1>1, <2>2, <3>1
  <2>3. owed' = Plus(Minus(w, Reading'), prod.batch)
    BY <1>1, <2>1, <2>2
  <2> QED
    BY <2>1, <2>3 DEF Accounted
<1>3. ASSUME NEW n \in Batches, WriteBegin(n) PROVE Accounted'
  <2> DEFINE fits == Least(n, Minus(Capacity, Minus(w, r)))
  <2>1. prod.batch = 0 /\ owed' = Plus(owed, fits) /\ UNCHANGED <<w, Reading>>
    BY <1>3 DEF WriteBegin, ProducerIdle, reader, Reading
  <2>2. prod' = [prod EXCEPT !.batch = fits, !.copied = 0] /\ prod \in Writing
    BY <1>1, <1>3 DEF WriteBegin
  <2> HIDE DEF fits
  <2>3. prod'.batch = fits
    BY <2>2 DEF Writing
  <2>4. Plus(Ahead, 0) = Ahead
    BY <1>1, Constants, BatchOwed
  <2> QED
    BY <1>1, <2>1, <2>3, <2>4 DEF Accounted
<1>4. CASE WriteEnd
  <2>1. prod.batch \in Index /\ w' = Plus(w, prod.batch) /\ UNCHANGED <<Reading, owed>>
    BY <1>1, <1>4 DEF WriteEnd, reader, Reading
  <2>2. prod' = [prod EXCEPT !.batch = 0, !.copied = 0] /\ prod \in Writing
    BY <1>1, <1>4 DEF WriteEnd
  <2>3. prod'.batch = 0
    BY <2>2 DEF Writing
  <2>4. Minus(Plus(w, prod.batch), Reading) = Plus(Ahead, prod.batch)
    BY <1>1, <2>1, BatchOwed
  <2>5. w' \in Index
    BY <1>1, <2>1, MovedOn
  <2>6. Plus(Minus(w', Reading), 0) = Minus(w', Reading)
    BY <1>1, <2>5, Apart, Constants, BatchOwed
  <2> QED
    BY <1>1, <2>1, <2>3, <2>4, <2>6 DEF Accounted
<1>5. ASSUME UNCHANGED <<w, r, cons, owed>>, prod'.batch = prod.batch PROVE Accounted'
  BY <1>5 DEF Accounted, Reading
<1>6. CASE CopyFrame
  <2>1. prod' = [prod EXCEPT !.copied = prod.copied + 1] /\ prod \in Writing
    BY <1>1, <1>6 DEF CopyFrame
  <2>2. prod'.batch = prod.batch
    BY <2>1 DEF Writing
  <2> QED
    BY <1>5, <1>6, <2>2 DEF CopyFrame, reader
<1>7. ASSUME NEW d \in Depths, SetJitterFrames(d) PROVE Accounted'
  <2>1. prod' = [prod EXCEPT !.todo = Fields, !.geom = Clamped(d)] /\ prod \in Writing
    BY <1>1, <1>7 DEF SetJitterFrames
  <2>2. prod'.batch = prod.batch
    BY <2>1 DEF Writing
  <2> QED
    BY <1>5, <1>7, <2>2 DEF SetJitterFrames, reader
<1>8. CASE Reprime
  <2>1. prod' = [prod EXCEPT !.todo = {"priming"}] /\ prod \in Writing
    BY <1>1, <1>8 DEF Reprime
  <2>2. prod'.batch = prod.batch
    BY <2>1 DEF Writing
  <2> QED
    BY <1>5, <1>8, <2>2 DEF Reprime, reader
<1>9. ASSUME NEW f \in Fields, Store(f) PROVE Accounted'
  <2>1. prod' = [prod EXCEPT !.todo = prod.todo \ {f}] /\ prod \in Writing
    BY <1>1, <1>9 DEF Store
  <2>2. prod'.batch = prod.batch
    BY <2>1 DEF Writing
  <2> QED
    BY <1>5, <1>9, <2>2 DEF Store, reader
<1>10. CASE UNCHANGED vars
  BY <1>5, <1>10 DEF vars
<1> QED
  BY <1>2, <1>3, <1>4, <1>6, <1>7, <1>8, <1>9, <1>10 DEF Next, Producer

(* Every frame offered is played, still in the ring or counted as dropped, *)
(* whatever depths are asked for and however their stores reach the reader.*)
THEOREM EveryFrameAccounted == Spec => []Accounted
<1>1. ASSUME Init PROVE Accounted
  <2>1. prod.batch = 0 /\ w = 0 /\ Reading = 0 /\ owed = 0
    BY <1>1 DEF Init, Reading, Idle
  <2>2. Minus(0, 0) = 0 /\ Plus(0, 0) = 0
    <3>1. Minus(0, 0) = 0
      <4>1. Minus(0, 0) = 0 - 0
        BY Constants, Apart
      <4> QED
        BY <4>1
    <3> QED
      BY <3>1, Constants, BatchOwed
  <2> QED
    BY <2>1, <2>2 DEF Accounted
<1>2. Words /\ Accounted /\ [Next]_vars => Accounted'
  BY StepAccounted
<1> QED
  BY <1>1, <1>2, WordsHold, PTL DEF Spec, Safety

(***************************************************************************)
(* RingInv is inductive until a trim is torn.                              *)
(***************************************************************************)
(* The quantities RingInv compares.                                        *)
LEMMA RingNumbers ==
  ASSUME Words, RingInv
  PROVE  /\ Ahead \in Nat /\ Stored \in Nat /\ prod.batch \in Nat /\ prod.copied \in Nat
         /\ Ahead <= Stored /\ Stored + prod.batch <= Capacity /\ prod.copied <= prod.batch
         /\ Ahead \in Index /\ Stored \in Index /\ Reading \in Index /\ w \in Index
         /\ cons.fill \in Nat /\ (cons.pc # "idle" => cons.fill <= Ahead)
         /\ Capacity \in Nat /\ Capacity < WordMod /\ WordMod \in Nat
<1>1. /\ Ahead \in Index /\ Stored \in Index /\ Reading \in Index /\ w \in Index
      /\ cons.fill \in Nat /\ prod.batch \in Nat /\ prod.copied \in Nat
  BY WordFields
<1>2. /\ Ahead \in Nat /\ Stored \in Nat
      /\ Capacity \in Nat /\ Capacity < WordMod /\ WordMod \in Nat
  BY <1>1, Constants
<1>3. /\ Ahead <= Stored /\ Stored + prod.batch <= Capacity /\ prod.copied <= prod.batch
      /\ (cons.pc # "idle" => cons.fill <= Ahead)
  BY DEF RingInv, ReaderLeads, BatchFits, FillWritten
<1> QED
  BY <1>1, <1>2, <1>3

(* A step of read() goes over some of the frames ahead, plays the first or *)
(* none, and stores where it stands or nothing.                            *)
LEMMA ReaderStep ==
  ASSUME Words, RingInv, ~torn', Consumer
  PROVE  \E n \in 0 .. Ahead :
           /\ Reading' = Plus(Reading, n)
           /\ cons'.pc # "idle" => cons'.fill <= Ahead - n
           /\ r' = r \/ r' = Reading'
           /\ held' = held \/ (n = 1 /\ held' = buf[Slot(Reading)])
           /\ UNCHANGED <<buf, w, prod>>
<1>1. /\ cons.pc = "idle" => Reading = r
      /\ cons.pc # "idle" => Reading = cons.r
      /\ cons'.pc = "idle" => Reading' = r'
      /\ cons'.pc # "idle" => Reading' = cons'.r
      /\ Idle.pc = "idle"
  BY DEF Reading, Idle
<1>2. /\ Ahead \in Nat /\ Stored \in Nat /\ Ahead <= Stored /\ 0 \in 0 .. Ahead
      /\ cons.fill \in Nat /\ (cons.pc # "idle" => cons.fill <= Ahead)
      /\ Plus(Reading, 0) = Reading /\ \A x \in Index : x \in Nat
  BY RingNumbers, WordFields, BatchOwed, Constants
<1> DEFINE Goes(n) == /\ Reading' = Plus(Reading, n)
                      /\ cons'.pc # "idle" => cons'.fill <= Ahead - n
                      /\ r' = r \/ r' = Reading'
                      /\ held' = held \/ (n = 1 /\ held' = buf[Slot(Reading)])
                      /\ UNCHANGED <<buf, w, prod>>
<1>4. ASSUME NEW b \in Blocks, ReadBegin(b) PROVE Goes(0)
  <2>1. /\ Reading = r /\ Reading' = r /\ cons'.fill = Stored /\ Stored = Ahead
        /\ UNCHANGED <<buf, w, r, held, prod>>
    BY <1>1, <1>4, Begun DEF Ahead, Stored
  <2> QED
    BY <1>2, <2>1
<1>5. CASE Looks
  <2>1. cons.r = r /\ Reading = r /\ cons.pc # "idle" /\ UNCHANGED <<buf, w, r, held, prod>>
    BY <1>1, <1>5, Looked DEF Words
  <2>2. ASSUME cons' = Idle PROVE Goes(0)
    BY <1>1, <1>2, <2>1, <2>2
  <2>3. ASSUME cons'.r = cons.r, cons'.fill = cons.fill PROVE Goes(0)
    BY <1>1, <1>2, <2>1, <2>3
  <2> HIDE DEF Goes
  <2>4. Goes(0)
    BY <1>5, <2>2, <2>3, Looked
  <2> USE DEF Goes
  <2> QED
    BY <1>2, <2>4
<1>6. CASE Drop \/ Cut
  <2>1. PICK n \in Index :
             /\ cons'.r = Plus(cons.r, n) /\ r' = Plus(cons.r, n)
             /\ n <= cons.fill /\ cons'.fill = cons.fill - n
    BY <1>6, TakenDown
  <2>2. /\ cons.pc # "idle" /\ cons'.pc # "idle" /\ UNCHANGED <<buf, w, held, prod>>
    BY <1>6, TakenDown
  <2>3. Reading = cons.r /\ Reading' = cons'.r /\ cons.fill <= Ahead
    BY <1>1, <1>2, <2>2
  <2>4. n \in 0 .. Ahead /\ cons'.fill <= Ahead - n
    BY <1>2, <2>1, <2>3
  <2>5. Goes(n)
    BY <2>1, <2>2, <2>3, <2>4
  <2> QED
    BY <2>4, <2>5
<1>9. CASE High
  <2>1. /\ cons.pc # "idle" /\ cons'.pc # "idle" /\ UNCHANGED <<buf, w, held, prod>>
    BY <1>9, Nudged
  <2>2. Reading = cons.r /\ Reading' = cons'.r /\ cons.fill <= Ahead
    BY <1>1, <1>2, <2>1
  <2>3. CASE 1 <= cons.fill /\ cons'.r = Plus(cons.r, 1) /\ cons'.fill = cons.fill - 1
             /\ r' = Plus(cons.r, 1)
    <3>1. 1 \in 0 .. Ahead /\ cons'.fill <= Ahead - 1
      BY <1>2, <2>2, <2>3
    <3>2. Goes(1)
      BY <2>1, <2>2, <2>3, <3>1
    <3> QED
      BY <3>1, <3>2
  <2>4. CASE cons'.r = cons.r /\ cons'.fill = cons.fill /\ UNCHANGED r
    <3>1. Goes(0)
      BY <1>2, <2>1, <2>2, <2>4
    <3> QED
      BY <1>2, <3>1
  <2> QED
    BY <1>9, <2>3, <2>4, Nudged
<1>10. CASE FillFrame
  <2>1. cons.pc = "fill" /\ cons'.pc = "fill" /\ UNCHANGED <<buf, w, r, prod>>
    BY <1>10, Filled
  <2>2. Reading = cons.r /\ Reading' = cons'.r /\ cons.fill <= Ahead /\ Ahead = Minus(w, cons.r)
    BY <1>1, <1>2, <2>1 DEF Ahead
  <2>3. CASE cons'.r = cons.r /\ cons'.fill = cons.fill /\ UNCHANGED held
    <3>1. Goes(0)
      BY <1>2, <2>1, <2>2, <2>3
    <3> QED
      BY <1>2, <3>1
  <2> DEFINE fill == IF cons.fill = 0 THEN Minus(w, cons.r) ELSE cons.fill
  <2>4. CASE /\ fill \in Index /\ 1 <= fill
             /\ cons'.r = Plus(cons.r, 1) /\ cons'.fill = fill - 1
             /\ held' = buf[Slot(cons.r)]
    <3>1. fill <= Ahead
      BY <1>2, <2>2
    <3> HIDE DEF fill
    <3>2. 1 \in 0 .. Ahead /\ cons'.fill <= Ahead - 1
      BY <1>2, <2>4, <3>1
    <3>3. Goes(1)
      BY <2>1, <2>2, <2>4, <3>2
    <3> QED
      BY <3>2, <3>3
  <2> QED
    BY <1>10, <2>3, <2>4, Filled
<1>11. CASE ReadEnd
  <2>1. cons.pc = "fill" /\ cons' = Idle /\ r' = cons.r /\ UNCHANGED <<buf, w, held, prod>>
    BY <1>11, Ended
  <2>2. Goes(0)
    BY <1>1, <1>2, <2>1
  <2> QED
    BY <1>2, <2>2
<1> QED
  BY <1>2, <1>4, <1>5, <1>6, <1>9, <1>10, <1>11, ConsumerSteps

(* The reader keeps RingInv.                                               *)
LEMMA ConsumerRing ==
  ASSUME Words, RingInv, ~torn', Consumer
  PROVE  RingInv'
<1>1. PICK n \in 0 .. Ahead :
           /\ Reading' = Plus(Reading, n)
           /\ cons'.pc # "idle" => cons'.fill <= Ahead - n
           /\ r' = r \/ r' = Reading'
           /\ held' = held \/ (n = 1 /\ held' = buf[Slot(Reading)])
           /\ UNCHANGED <<buf, w, prod>>
  BY ReaderStep
<1>2. /\ Ahead \in Nat /\ Stored \in Nat /\ prod.batch \in Nat /\ prod.copied \in Nat
      /\ Ahead <= Stored /\ Stored + prod.batch <= Capacity /\ prod.copied <= prod.batch
      /\ Reading \in Index /\ w \in Index /\ Capacity \in Nat /\ Capacity < WordMod
      /\ n \in Nat /\ n <= Ahead
  BY RingNumbers
<1>3. Ahead' = Ahead - n
  <2>1. Minus(w, Plus(Reading, n)) = Minus(w, Reading) - n
    BY <1>1, <1>2, Nearer DEF Ahead
  <2> QED
    BY <1>1, <2>1 DEF Ahead
<1>4. Stored' = Stored \/ Stored' = Ahead'
  BY <1>1 DEF Stored, Ahead
<1>5. Stored' <= Stored /\ Ahead' <= Stored'
  BY <1>2, <1>3, <1>4
<1>6. ReaderLeads' /\ FillWritten'
  BY <1>1, <1>3, <1>5 DEF ReaderLeads, FillWritten
<1>7. BatchFits'
  <2>1. Stored' \in Nat
    BY <1>2, <1>3, <1>4
  <2>2. Stored' + prod.batch <= Capacity /\ prod.copied <= prod.batch
    BY <1>2, <1>5, <2>1
  <2> QED
    BY <1>1, <1>2, <2>2 DEF BatchFits
<1>9. FramesInPlace'
  <2> SUFFICES ASSUME NEW k \in 0 .. Ahead' + prod'.copied - 1
               PROVE  buf'[Slot(Plus(Reading', k))] = Plus(Reading', k)
    BY DEF FramesInPlace
  <2>1. k \in Nat /\ n + k \in 0 .. Ahead + prod.copied - 1 /\ n + k <= Capacity
    BY <1>1, <1>2, <1>3
  <2>2. n \in Index /\ k \in Index /\ n + k \in Index
    BY <1>2, <2>1, Constants
  <2>3. Plus(Reading', k) = Plus(Reading, n + k)
    BY <1>1, <1>2, <2>2, MovedTwice
  <2> QED
    BY <1>1, <2>1, <2>3 DEF FramesInPlace, RingInv
<1> QED
  BY <1>6, <1>7, <1>9 DEF RingInv

(* A batch begins: it is cut to what fits.                                 *)
LEMMA BatchBegun ==
  ASSUME Words, RingInv, NEW n \in Batches, WriteBegin(n)
  PROVE  RingInv'
<1> DEFINE fits == Least(n, Minus(Capacity, Minus(w, r)))
<1>1. /\ Ahead \in Nat /\ Stored \in Nat /\ prod.batch \in Nat /\ prod.copied \in Nat
      /\ Ahead <= Stored /\ Stored + prod.batch <= Capacity /\ prod.copied <= prod.batch
      /\ Capacity \in Nat
  BY RingNumbers
<1>2. n \in Nat /\ fits \in Nat /\ Stored + fits <= Capacity
  <2>1. Minus(w, r) = Stored /\ n \in Nat
    BY RingAssumption DEF Stored
  <2>2. Minus(Capacity, Stored) = Capacity - Stored
    <3>1. Capacity \in Index /\ Stored \in Index
      BY <1>1, Constants, WordFields
    <3>2. Minus(Capacity, Stored) = IF Capacity >= Stored THEN Capacity - Stored
                                    ELSE Capacity - Stored + WordMod
      BY <3>1, Apart
    <3> QED
      BY <1>1, <3>2
  <2> QED
    BY <1>1, <2>1, <2>2 DEF Least
<1>3. prod' = [prod EXCEPT !.batch = fits, !.copied = 0] /\ prod \in Writing
  BY WordFields DEF WriteBegin
<1> HIDE DEF fits
<1>4. prod'.batch = fits /\ prod'.copied = 0
  BY <1>3 DEF Writing
<1>5. prod.copied = 0 /\ UNCHANGED <<buf, w, r, cons, held>>
  BY <1>1 DEF WriteBegin, ProducerIdle, reader
<1>6. UNCHANGED <<Ahead, Stored, Reading>>
  BY <1>5 DEF Ahead, Stored, Reading
<1>7. BatchFits'
  BY <1>1, <1>2, <1>4, <1>6 DEF BatchFits
<1> QED
  BY <1>4, <1>5, <1>6, <1>7
     DEF RingInv, ReaderLeads, FillWritten, FramesInPlace

(* A frame is copied into the slot behind those that are in place.         *)
LEMMA FrameCopied ==
  ASSUME Words, RingInv, CopyFrame
  PROVE  RingInv'
<1>1. /\ Ahead \in Nat /\ Stored \in Nat /\ prod.batch \in Nat /\ prod.copied \in Nat
      /\ Ahead <= Stored /\ Stored + prod.batch <= Capacity /\ prod.copied <= prod.batch
      /\ Ahead \in Index /\ Reading \in Index /\ w \in Index
      /\ Capacity \in Nat /\ Capacity < WordMod
  BY RingNumbers
<1>2. prod.copied < prod.batch
  BY DEF CopyFrame
<1>3. prod' = [prod EXCEPT !.copied = prod.copied + 1] /\ prod \in Writing
  BY WordFields DEF CopyFrame
<1>4. prod'.batch = prod.batch /\ prod'.copied = prod.copied + 1
  BY <1>3 DEF Writing
<1>5. UNCHANGED <<w, r, cons, held>>
  BY DEF CopyFrame, reader
<1>6. UNCHANGED <<Ahead, Stored, Reading>>
  BY <1>5 DEF Ahead, Stored, Reading
<1> DEFINE last == Ahead + prod.copied
<1>7. last \in 0 .. Capacity - 1 /\ last \in Index /\ prod.copied \in Index
  <2>1. last \in Nat /\ last < Capacity /\ prod.copied <= Capacity
    BY <1>1, <1>2
  <2> QED
    BY <1>1, <2>1, Constants
<1>8. Plus(w, prod.copied) = Plus(Reading, last)
  <2>1. w = Plus(Reading, Ahead)
    BY <1>1, MovedApart DEF Ahead
  <2> QED
    BY <1>1, <1>7, <2>1, MovedTwice
<1>9. buf' = [buf EXCEPT ![Slot(Plus(Reading, last))] = Plus(Reading, last)]
  BY <1>8 DEF CopyFrame
<1> HIDE DEF last
<1>10. Plus(Reading, last) \in Index /\ Slot(Plus(Reading, last)) \in 0 .. Capacity - 1
  BY <1>1, <1>7, MovedOn, SlotTyped
<1>11. buf \in [0 .. Capacity - 1 -> Index]
  BY WordFields
<1>12. BatchFits'
  <2>1. prod.copied + 1 <= prod.batch
    BY <1>1, <1>2
  <2> QED
    BY <1>1, <1>4, <1>6, <2>1 DEF BatchFits
<1>13. FramesInPlace'
  <2> SUFFICES ASSUME NEW k \in 0 .. Ahead + prod.copied
               PROVE  buf'[Slot(Plus(Reading, k))] = Plus(Reading, k)
    <3>1. Ahead' + prod'.copied - 1 = Ahead + prod.copied
      BY <1>1, <1>4, <1>6
    <3> QED
      BY <1>6, <3>1 DEF FramesInPlace
  <2>1. CASE k = last
    BY <1>9, <1>10, <1>11, <2>1
  <2>2. CASE k # last
    <3>1. k \in 0 .. Capacity - 1 /\ k \in 0 .. Ahead + prod.copied - 1
      BY <1>1, <1>7, <2>2 DEF last
    <3>2. Slot(Plus(Reading, k)) # Slot(Plus(Reading, last))
      BY <1>1, <1>7, <2>2, <3>1, SlotsApart
    <3>3. buf[Slot(Plus(Reading, k))] = Plus(Reading, k)
      BY <3>1 DEF FramesInPlace, RingInv
    <3>4. k \in Index
      BY <3>1, <1>1, Constants
    <3>5. Slot(Plus(Reading, k)) \in 0 .. Capacity - 1
      BY <1>1, <3>4, MovedOn, SlotTyped
    <3> QED
      BY <1>9, <1>11, <3>2, <3>3, <3>5
  <2> QED
    BY <2>1, <2>2
<1> QED
  BY <1>5, <1>6, <1>12, <1>13 DEF RingInv, ReaderLeads, FillWritten

(* The batch is published.                                                 *)
LEMMA BatchEnded ==
  ASSUME Words, RingInv, WriteEnd
  PROVE  /\ RingInv'
         /\ Reading' = Reading /\ Ahead' = Ahead + prod.batch /\ held' = held
         /\ w' = Plus(w, prod.batch)
<1>1. /\ Ahead \in Nat /\ Stored \in Nat /\ prod.batch \in Nat /\ prod.copied \in Nat
      /\ Ahead <= Stored /\ Stored + prod.batch <= Capacity /\ prod.copied <= prod.batch
      /\ Reading \in Index /\ w \in Index /\ cons.fill \in Nat
      /\ Capacity \in Nat /\ Capacity < WordMod /\ WordMod \in Nat
      /\ r \in Index /\ (cons.pc # "idle" => cons.fill <= Ahead)
  BY RingNumbers, WordFields
<1>2. /\ prod.copied = prod.batch /\ w' = Plus(w, prod.batch)
      /\ UNCHANGED <<buf, r, cons, held>>
  BY DEF WriteEnd, reader
<1>3. prod' = [prod EXCEPT !.batch = 0, !.copied = 0] /\ prod \in Writing
  BY WordFields DEF WriteEnd
<1>4. prod'.batch = 0 /\ prod'.copied = 0
  BY <1>3 DEF Writing
<1>5. Reading' = Reading
  BY <1>2 DEF Reading
<1>6. Ahead' = Ahead + prod.batch
  <2>1. Minus(w, Reading) + prod.batch < WordMod
    BY <1>1 DEF Ahead
  <2>2. Minus(Plus(w, prod.batch), Reading) = Minus(w, Reading) + prod.batch
    BY <1>1, <2>1, Further
  <2> QED
    BY <1>2, <1>5, <2>2 DEF Ahead
<1>7. Stored' = Stored + prod.batch
  <2>1. Minus(w, r) + prod.batch < WordMod
    BY <1>1 DEF Stored
  <2>2. Minus(Plus(w, prod.batch), r) = Minus(w, r) + prod.batch
    BY <1>1, <2>1, Further
  <2> QED
    BY <1>2, <2>2 DEF Stored
<1>8. ReaderLeads' /\ FillWritten' /\ BatchFits'
  BY <1>1, <1>2, <1>4, <1>6, <1>7 DEF ReaderLeads, FillWritten, BatchFits
<1>9. Ahead' + prod'.copied - 1 = Ahead + prod.copied - 1
  BY <1>1, <1>2, <1>4, <1>6
<1>10. FramesInPlace'
  BY <1>2, <1>5, <1>9 DEF FramesInPlace, RingInv
<1> QED
  BY <1>2, <1>5, <1>6, <1>8, <1>10 DEF RingInv

(* Depths, their stores and steps that change nothing leave the ring.      *)
LEMMA DepthsApart ==
  ASSUME Words, RingInv,
         \/ \E d \in Depths : SetJitterFrames(d)
         \/ Reprime
         \/ \E f \in Fields : Store(f)
         \/ UNCHANGED vars
  PROVE  RingInv' /\ UNCHANGED <<w, Reading, held>>
<1> DEFINE Kept == /\ UNCHANGED <<buf, w, r, cons, held>>
                   /\ prod'.batch = prod.batch /\ prod'.copied = prod.copied
<1>1. Kept
  <2>0. prod \in Writing
    BY WordFields
  <2>1. ASSUME NEW d \in Depths, SetJitterFrames(d) PROVE Kept
    <3>1. prod' = [prod EXCEPT !.todo = Fields, !.geom = Clamped(d)]
      BY <2>1 DEF SetJitterFrames
    <3>2. prod'.batch = prod.batch /\ prod'.copied = prod.copied
      BY <2>0, <3>1 DEF Writing
    <3> QED
      BY <2>1, <3>2 DEF SetJitterFrames, reader
  <2>2. ASSUME Reprime PROVE Kept
    <3>1. prod' = [prod EXCEPT !.todo = {"priming"}]
      BY <2>2 DEF Reprime
    <3>2. prod'.batch = prod.batch /\ prod'.copied = prod.copied
      BY <2>0, <3>1 DEF Writing
    <3> QED
      BY <2>2, <3>2 DEF Reprime, reader
  <2>3. ASSUME NEW f \in Fields, Store(f) PROVE Kept
    <3>1. prod' = [prod EXCEPT !.todo = prod.todo \ {f}]
      BY <2>3 DEF Store
    <3>2. prod'.batch = prod.batch /\ prod'.copied = prod.copied
      BY <2>0, <3>1 DEF Writing
    <3> QED
      BY <2>3, <3>2 DEF Store, reader
  <2>4. ASSUME UNCHANGED vars PROVE Kept
    BY <2>4 DEF vars
  <2> QED
    BY <2>1, <2>2, <2>3, <2>4
<1>2. UNCHANGED <<Ahead, Stored, Reading>>
  BY <1>1 DEF Ahead, Stored, Reading
<1>4. ReaderLeads' /\ FillWritten' /\ BatchFits' /\ FramesInPlace'
  BY <1>1, <1>2 DEF RingInv, ReaderLeads, FillWritten, BatchFits, FramesInPlace
<1> QED
  BY <1>1, <1>2, <1>4 DEF RingInv

(* RingInv holds in a new ring.                                            *)
LEMMA InitRing ==
  ASSUME Init
  PROVE  RingInv /\ w = 0 /\ Ahead = 0 /\ held = 0
<1>1. /\ w = 0 /\ r = 0 /\ Reading = 0 /\ held = 0 /\ cons.pc = "idle"
      /\ prod.batch = 0 /\ prod.copied = 0 /\ buf = [i \in 0 .. Capacity - 1 |-> 0]
  BY DEF Init, Reading, Idle
<1>2. Minus(0, 0) = 0
  <2>1. Minus(0, 0) = 0 - 0
    BY Constants, Apart
  <2> QED
    BY <2>1
<1>3. Ahead = 0 /\ Stored = 0
  BY <1>1, <1>2 DEF Ahead, Stored
<1>5. ReaderLeads /\ FillWritten /\ BatchFits
  BY <1>1, <1>3, Constants DEF ReaderLeads, FillWritten, BatchFits
<1>6. Ahead + prod.copied - 1 = -1
  BY <1>1, <1>3
<1>7. FramesInPlace
  <2>1. 0 .. -1 = {}
    OBVIOUS
  <2> QED
    BY <1>6, <2>1 DEF FramesInPlace
<1> QED
  BY <1>1, <1>3, <1>5, <1>7 DEF RingInv

(* The inductive step.                                                     *)
LEMMA StepRing ==
  ASSUME Words, RingInv, ~torn', [Next]_vars
  PROVE  RingInv'
<1>1. CASE Producer
  BY <1>1, BatchBegun, FrameCopied, BatchEnded, DepthsApart DEF Producer
<1>2. CASE UNCHANGED vars
  BY <1>2, DepthsApart
<1> QED
  BY <1>1, <1>2, ConsumerRing DEF Next

(***************************************************************************)
(* The queue of LossyFifo that the indices stand for.                      *)
(***************************************************************************)
Queue(i, n) == [k \in 1 .. n |-> Plus(i, k - 1)]

(* It is a queue of n frames.                                              *)
LEMMA QueueTyped ==
  ASSUME NEW i \in Index, NEW n \in Nat, n <= Capacity
  PROVE  Queue(i, n) \in Seq(Index) /\ Len(Queue(i, n)) = n
<1>1. ASSUME NEW k \in 1 .. n PROVE Plus(i, k - 1) \in Index
  <2>1. k - 1 \in Nat /\ k - 1 <= Capacity
    BY Constants
  <2> QED
    BY <2>1, Constants, MovedOn
<1>2. Queue(i, n) \in [1 .. n -> Index]
  BY <1>1 DEF Queue
<1>3. Queue(i, n) \in Seq(Index)
  BY <1>2, SeqDef
<1>4. DOMAIN Queue(i, n) = 1 .. n /\ DOMAIN Queue(i, n) = 1 .. Len(Queue(i, n))
  BY <1>2, <1>3, LenProperties
<1> DEFINE m == Len(Queue(i, n))
<1>5. m \in Nat /\ 1 .. m = 1 .. n
  BY <1>3, <1>4, LenProperties
<1> HIDE DEF m
<1>6. (m \in 1 .. m \/ m = 0) /\ (n \in 1 .. n \/ n = 0)
  BY <1>5
<1>7. (m \in 1 .. n \/ m = 0) /\ (n \in 1 .. m \/ n = 0)
  BY <1>5, <1>6
<1>8. m = n
  BY <1>5, <1>7
<1> QED
  BY <1>3, <1>8 DEF m

(* Without its first k frames it is the queue from k frames on.            *)
LEMMA QueueSkips ==
  ASSUME NEW i \in Index, NEW n \in Nat, n <= Capacity, NEW k \in 0 .. n
  PROVE  SubSeq(Queue(i, n), k + 1, n) = Queue(Plus(i, k), n - k)
<1>1. /\ Queue(i, n) \in Seq(Index) /\ Len(Queue(i, n)) = n
      /\ k \in Nat /\ k <= n /\ n - k \in Nat /\ k \in Index /\ Plus(i, k) \in Index
  <2>1. k \in Nat /\ k <= n /\ n - k \in Nat /\ k <= Capacity
    BY Constants
  <2>2. k \in Index
    BY <2>1, Constants
  <2>3. Queue(i, n) \in Seq(Index) /\ Len(Queue(i, n)) = n
    BY QueueTyped
  <2> QED
    BY <2>1, <2>2, <2>3, MovedOn
<1>2. SubSeq(Queue(i, n), k + 1, n) = [j \in 1 .. n - k |-> Queue(i, n)[j + k]]
  <2>1. n - (k + 1) + 1 = n - k /\ \A j \in 1 .. n - k : j + (k + 1) - 1 = j + k
    BY <1>1
  <2>2. SubSeq(Queue(i, n), k + 1, n)
          = [j \in 1 .. n - (k + 1) + 1 |-> Queue(i, n)[j + (k + 1) - 1]]
    BY <1>1
  <2> QED
    BY <2>1, <2>2
<1>3. ASSUME NEW j \in 1 .. n - k
      PROVE  Queue(i, n)[j + k] = Plus(Plus(i, k), j - 1)
  <2>1. j + k \in 1 .. n /\ j - 1 \in Nat /\ k + (j - 1) = j + k - 1 /\ j - 1 <= Capacity
        /\ k + (j - 1) \in Nat /\ k + (j - 1) <= Capacity
    BY <1>1, Constants
  <2>2. j - 1 \in Index /\ k + (j - 1) \in Index
    BY <2>1, Constants
  <2>3. Plus(Plus(i, k), j - 1) = Plus(i, k + (j - 1))
    BY <1>1, <2>2, MovedTwice
  <2> QED
    BY <2>1, <2>3 DEF Queue
<1> QED
  BY <1>2, <1>3 DEF Queue

(* Its head is the frame the reader stands at, the rest the queue after it.*)
LEMMA QueuePlays ==
  ASSUME NEW i \in Index, NEW n \in Nat, n <= Capacity, 1 <= n
  PROVE  /\ Queue(i, n) # <<>> /\ Head(Queue(i, n)) = i
         /\ Tail(Queue(i, n)) = Queue(Plus(i, 1), n - 1)
<1>1. Queue(i, n) \in Seq(Index) /\ Len(Queue(i, n)) = n
  BY QueueTyped
<1>2. Queue(i, n)[1] = i
  <2>1. 1 \in 1 .. n /\ 1 - 1 = 0
    OBVIOUS
  <2>2. Queue(i, n)[1] = Plus(i, 0)
    BY <2>1 DEF Queue
  <2> QED
    BY <2>2, Constants, BatchOwed
<1>3. Queue(i, n) # <<>> /\ Head(Queue(i, n)) = Queue(i, n)[1]
  BY <1>1
<1>4. Tail(Queue(i, n)) = SubSeq(Queue(i, n), 2, n)
  BY <1>1, <1>3, TailIsSubSeq
<1>5. SubSeq(Queue(i, n), 1 + 1, n) = Queue(Plus(i, 1), n - 1)
  <2>1. 1 \in 0 .. n
    OBVIOUS
  <2> QED
    BY <2>1, QueueSkips
<1> QED
  BY <1>2, <1>3, <1>4, <1>5

(* Frames appended behind it make the longer queue.                        *)
LEMMA QueueGrows ==
  ASSUME NEW i \in Index, NEW n \in Nat, NEW b \in Nat, n + b <= Capacity
  PROVE  Queue(i, n) \o Queue(Plus(i, n), b) = Queue(i, n + b)
<1> DEFINE s == Queue(i, n)
           t == Queue(Plus(i, n), b)
           u == Queue(i, n + b)
<1>1. n <= Capacity /\ b <= Capacity /\ n + b \in Nat
  BY Constants
<1>2. n \in Index /\ Plus(i, n) \in Index
  BY <1>1, Constants, MovedOn
<1>3. /\ s \in Seq(Index) /\ Len(s) = n /\ t \in Seq(Index) /\ Len(t) = b
      /\ u \in Seq(Index) /\ Len(u) = n + b
  BY <1>1, <1>2, QueueTyped
<1>4. ASSUME NEW k \in 1 .. n + b
      PROVE  u[k] = IF k <= n THEN s[k] ELSE t[k - n]
  <2>1. u[k] = Plus(i, k - 1)
    BY DEF Queue
  <2>2. CASE k <= n
    <3>1. k \in 1 .. n
      BY <2>2
    <3> QED
      BY <2>1, <2>2, <3>1 DEF Queue
  <2>3. CASE ~(k <= n)
    <3>1. /\ k - n \in 1 .. b /\ (k - n) - 1 \in Nat /\ (k - n) - 1 <= Capacity
          /\ n + ((k - n) - 1) = k - 1 /\ k - 1 \in Nat /\ k - 1 <= Capacity
      BY <1>1, <2>3, Constants
    <3>2. (k - n) - 1 \in Index /\ n + ((k - n) - 1) \in Index
      BY <3>1, Constants
    <3>3. t[k - n] = Plus(Plus(i, n), (k - n) - 1)
      BY <3>1 DEF Queue
    <3>4. Plus(Plus(i, n), (k - n) - 1) = Plus(i, n + ((k - n) - 1))
      BY <1>2, <3>2, MovedTwice
    <3> QED
      BY <2>1, <2>3, <3>1, <3>3, <3>4
  <2> QED
    BY <2>2, <2>3
<1> HIDE DEF s, t, u
<1>5. /\ s \o t \in Seq(Index) /\ Len(s \o t) = n + b
      /\ \A k \in 1 .. n + b : (s \o t)[k] = IF k <= n THEN s[k] ELSE t[k - n]
  BY <1>3, ConcatProperties
<1>6. \A k \in 1 .. Len(s \o t) : (s \o t)[k] = u[k]
  BY <1>4, <1>5
<1>7. s \o t = u
  BY <1>3, <1>5, <1>6, SeqEqual
<1> QED
  BY <1>7 DEF s, t, u

(* Every step of the ring is a step of the lossy queue or none.            *)
LEMMA FifoStep ==
  ASSUME Words, RingInv, ~torn', [Next]_vars
  PROVE  [Fifo!Next]_(Fifo!vars)
<1> DEFINE q == Queue(Reading, Ahead)
<1>1. /\ q = [i \in 1 .. Minus(w, Reading) |-> Plus(Reading, i - 1)]
      /\ q' = [i \in 1 .. Minus(w', Reading') |-> Plus(Reading', i - 1)]
  BY DEF Queue, Ahead
<1>2. /\ Ahead \in Nat /\ Stored \in Nat /\ prod.batch \in Nat
      /\ Ahead <= Stored /\ Stored + prod.batch <= Capacity
      /\ Reading \in Index /\ w \in Index /\ Capacity \in Nat
  BY RingNumbers
<1>3. Ahead <= Capacity /\ Ahead + prod.batch <= Capacity /\ prod.batch <= Capacity - Ahead
  BY <1>2
<1>4. q \in Seq(Index) /\ Len(q) = Ahead
  BY <1>2, <1>3, QueueTyped
<1> HIDE DEF q
<1>5. CASE WriteEnd
  <2> DEFINE b == prod.batch
  <2>1. /\ Reading' = Reading /\ Ahead' = Ahead + b /\ held' = held /\ w' = Plus(w, b)
    BY <1>5, BatchEnded
  <2>2. b \in 0 .. Capacity - Len(q)
    BY <1>2, <1>3, <1>4
  <2>3. w = Plus(Reading, Ahead)
    BY <1>2, MovedApart DEF Ahead
  <2>4. q \o Queue(w, b) = Queue(Reading, Ahead + b)
    BY <1>2, <1>3, <2>3, QueueGrows DEF q
  <2>5. Queue(w, b) = [i \in 1 .. b |-> (w + i - 1) % WordMod]
    <3>1. ASSUME NEW i \in 1 .. b PROVE Plus(w, i - 1) = (w + i - 1) % WordMod
      <4>1. w + (i - 1) = w + i - 1
        BY <1>2, Constants
      <4> QED
        BY <4>1 DEF Plus
    <3> QED
      BY <3>1 DEF Queue
  <2>6. q' = q \o [i \in 1 .. b |-> (w + i - 1) % WordMod]
    BY <2>1, <2>4, <2>5 DEF q
  <2>7. w' = (w + b) % WordMod
    BY <2>1 DEF Plus
  <2> HIDE DEF b
  <2>8. Fifo!Accept
    BY <1>1, <2>1, <2>2, <2>6, <2>7 DEF Fifo!Accept
  <2> QED
    BY <2>8 DEF Fifo!Next
<1>6. CASE Consumer
  <2>1. PICK n \in 0 .. Ahead :
             /\ Reading' = Plus(Reading, n)
             /\ held' = held \/ (n = 1 /\ held' = buf[Slot(Reading)])
             /\ w' = w
    BY <1>6, ReaderStep
  <2>2. Ahead' = Ahead - n
    <3>1. Minus(w, Plus(Reading, n)) = Minus(w, Reading) - n
      BY <1>2, <2>1, Nearer DEF Ahead
    <3> QED
      BY <2>1, <3>1 DEF Ahead
  <2>3. q' = SubSeq(q, n + 1, Ahead)
    BY <1>2, <1>3, <2>1, <2>2, QueueSkips DEF q
  <2>4. CASE held' = held
    <3>1. Fifo!Skip
      BY <1>1, <1>4, <2>1, <2>3, <2>4 DEF Fifo!Skip
    <3> QED
      BY <3>1 DEF Fifo!Next
  <2>5. CASE n = 1 /\ held' = buf[Slot(Reading)]
    <3>1. 1 <= Ahead
      BY <2>1, <2>5
    <3>2. q # <<>> /\ Head(q) = Reading /\ Tail(q) = Queue(Plus(Reading, 1), Ahead - 1)
      BY <1>2, <1>3, <3>1, QueuePlays DEF q
    <3>3. buf[Slot(Reading)] = Reading
      <4>1. 0 \in 0 .. Ahead + prod.copied - 1 /\ Plus(Reading, 0) = Reading
        BY <1>2, <3>1, RingNumbers, Constants, BatchOwed
      <4> QED
        BY <4>1 DEF FramesInPlace, RingInv
    <3>4. q' = Tail(q)
      BY <2>1, <2>2, <2>5, <3>2 DEF q
    <3>5. Fifo!Play
      BY <1>1, <2>1, <2>5, <3>2, <3>3, <3>4 DEF Fifo!Play
    <3> QED
      BY <3>5 DEF Fifo!Next
  <2> QED
    BY <2>1, <2>4, <2>5
<1>7. ASSUME UNCHANGED <<w, Reading, held>>
      PROVE  UNCHANGED Fifo!vars
  BY <1>7 DEF Fifo!vars
<1>8. ASSUME NEW n \in Batches, WriteBegin(n) PROVE UNCHANGED <<w, Reading, held>>
  BY <1>8 DEF WriteBegin, reader, Reading
<1>9. CASE CopyFrame
  BY <1>7, <1>9 DEF CopyFrame, reader, Reading
<1>10. ASSUME \/ \E d \in Depths : SetJitterFrames(d)
              \/ Reprime
              \/ \E f \in Fields : Store(f)
              \/ UNCHANGED vars
       PROVE  UNCHANGED <<w, Reading, held>>
  BY <1>10, DepthsApart
<1> QED
  BY <1>5, <1>6, <1>7, <1>8, <1>9, <1>10 DEF Next, Producer

(***************************************************************************)
(* The theorems.                                                           *)
(***************************************************************************)
(* A trim once torn is never forgotten.                                    *)
LEMMA TornStays ==
  ASSUME Words, [Next]_vars, torn
  PROVE  torn'
<1>1. CASE Producer
  BY <1>1 DEF Producer, WriteBegin, CopyFrame, WriteEnd, SetJitterFrames, Reprime, Store
<1>2. ASSUME NEW n \in Blocks, ReadBegin(n) PROVE torn'
  BY <1>2, Begun
<1>3. CASE Looks
  BY <1>3, Looked
<1>4. CASE Drop \/ Cut
  BY <1>4, TakenDown
<1>5. CASE High
  BY <1>5, Nudged
<1>6. CASE FillFrame
  BY <1>6, Filled
<1>7. CASE ReadEnd
  BY <1>7, Ended
<1>8. CASE UNCHANGED vars
  BY <1>8 DEF vars
<1> QED
  BY <1>1, <1>2, <1>3, <1>4, <1>5, <1>6, <1>7, <1>8, ConsumerSteps DEF Next

(* RingInv holds until a trim is torn.                                     *)
LEMMA RingHolds == Spec => [](torn \/ RingInv)
<1>1. Init => RingInv
  BY InitRing
<1>2. Words /\ (torn \/ RingInv) /\ [Next]_vars => (torn \/ RingInv)'
  BY StepRing, TornStays
<1> QED
  BY <1>1, <1>2, WordsHold, PTL DEF Spec, Safety

(* The ring starts as the empty queue.                                     *)
LEMMA StartsEmpty == Init => Fifo!Init
<1> SUFFICES ASSUME Init PROVE Fifo!Init
  OBVIOUS
<1>1. w = 0 /\ Ahead = 0 /\ held = 0
  BY InitRing
<1>2. [i \in 1 .. Minus(w, Reading) |-> Plus(Reading, i - 1)] = <<>>
  <2>1. Minus(w, Reading) = 0 /\ 1 .. 0 = {}
    BY <1>1 DEF Ahead
  <2>2. [i \in 1 .. 0 |-> Plus(Reading, i - 1)] = <<>>
    BY <2>1
  <2> QED
    BY <2>1, <2>2
<1> QED
  BY <1>1, <1>2 DEF Fifo!Init

(* Every step but those from the tear on is one of the lossy queue.        *)
LEMMA FifoSteps ==
  Words /\ (torn \/ RingInv) /\ [Next]_vars => [~torn' => Fifo!Next]_(Fifo!vars)
  BY FifoStep, TornStays

(* Whatever depths are asked for, however their stores reach the reader:   *)
(* frames are played in order, none twice and none that is being           *)
(* overwritten, up to the moment a trim reads a depth above the fill that  *)
(* its test found above the depth.                                         *)
THEOREM FifoTillTorn == Spec => FifoUntilTorn
  BY StartsEmpty, FifoSteps, WordsHold, RingHolds, PTL DEF Spec, Safety, FifoUntilTorn

(***************************************************************************)
(* Stores that stay out of the gap tear nothing.                           *)
(***************************************************************************)
(* DepthsStored is kept while they do.                                     *)
LEMMA StepDepthsStored ==
  ASSUME Words, DepthsStored, StoresApart, [Next]_vars
  PROVE  DepthsStored' \/ ~StoresApart'
<1> SUFFICES ASSUME StoresApart' PROVE DepthsStored'
  OBVIOUS
<1>0. /\ prod \in Writing /\ geom \in Geometry /\ cons.fill \in Nat
      /\ geom.prebuf \in Nat /\ geom.target \in Nat /\ geom.max \in Nat
      /\ prod.geom.target \in Nat /\ prod.geom.max \in Nat /\ "prebuf" # "target"
  BY WordFields, RingAssumption DEF Geometry
<1>1. ASSUME UNCHANGED <<geom, cons>>, prod'.geom = prod.geom, prod'.todo = prod.todo
      PROVE  DepthsStored'
  BY <1>1 DEF DepthsStored
<1>2. CASE Consumer
  <2>1. UNCHANGED <<geom, prod>>
    BY <1>2, ReaderMoves
  <2>2. cons'.pc = "drop" => geom.prebuf <= cons'.fill
    <3>1. ASSUME NEW n \in Blocks, ReadBegin(n) PROVE cons'.pc # "drop"
      BY <3>1, Begun
    <3>2. CASE Looks
      <4>1. CASE cons' = Idle
        BY <4>1 DEF Idle
      <4>2. CASE cons'.fill = cons.fill
        BY <1>0, <3>2, <4>2, Looked
      <4> QED
        BY <3>2, <4>1, <4>2, Looked
    <3>3. CASE Drop \/ Cut
      BY <3>3, TakenDown
    <3>4. CASE High
      BY <3>4, Nudged
    <3>5. CASE FillFrame
      BY <3>5, Filled
    <3>6. CASE ReadEnd
      BY <3>6, Ended DEF Idle
    <3> QED
      BY <1>2, <3>1, <3>2, <3>3, <3>4, <3>5, <3>6, ConsumerSteps
  <2>3. cons'.pc = "cut" => geom.target <= cons'.fill
    <3>1. ASSUME NEW n \in Blocks, ReadBegin(n) PROVE cons'.pc # "cut"
      BY <3>1, Begun
    <3>2. CASE Looks
      <4>1. CASE cons' = Idle
        BY <4>1 DEF Idle
      <4>2. CASE cons'.fill = cons.fill
        <5> SUFFICES ASSUME cons'.pc = "cut" PROVE geom.target <= cons'.fill
          OBVIOUS
        <5>1. geom.max < cons.fill
          BY <3>2, Looked
        <5>2. "target" \notin prod.todo /\ "max" \notin prod.todo
          BY <2>1 DEF StoresApart
        <5>3. geom.target = prod.geom.target /\ geom.max = prod.geom.max
              /\ prod.geom.target <= prod.geom.max
          BY <5>2 DEF DepthsStored
        <5> QED
          BY <1>0, <4>2, <5>1, <5>3
      <4> QED
        BY <3>2, <4>1, <4>2, Looked
    <3>3. CASE Drop \/ Cut
      BY <3>3, TakenDown
    <3>4. CASE High
      BY <3>4, Nudged
    <3>5. CASE FillFrame
      BY <3>5, Filled
    <3>6. CASE ReadEnd
      BY <3>6, Ended DEF Idle
    <3> QED
      BY <1>2, <3>1, <3>2, <3>3, <3>4, <3>5, <3>6, ConsumerSteps
  <2> QED
    BY <2>1, <2>2, <2>3 DEF DepthsStored
<1>3. ASSUME NEW n \in Batches, WriteBegin(n) PROVE DepthsStored'
  <2> DEFINE fits == Least(n, Minus(Capacity, Minus(w, r)))
  <2>1. prod' = [prod EXCEPT !.batch = fits, !.copied = 0]
    BY <1>3 DEF WriteBegin
  <2> HIDE DEF fits
  <2>2. prod'.geom = prod.geom /\ prod'.todo = prod.todo
    BY <1>0, <2>1 DEF Writing
  <2> QED
    BY <1>1, <1>3, <2>2 DEF WriteBegin, reader
<1>4. CASE CopyFrame
  <2>1. prod' = [prod EXCEPT !.copied = prod.copied + 1]
    BY <1>4 DEF CopyFrame
  <2>2. prod'.geom = prod.geom /\ prod'.todo = prod.todo
    BY <1>0, <2>1 DEF Writing
  <2> QED
    BY <1>1, <1>4, <2>2 DEF CopyFrame, reader
<1>5. CASE WriteEnd
  <2>1. prod' = [prod EXCEPT !.batch = 0, !.copied = 0]
    BY <1>5 DEF WriteEnd
  <2>2. prod'.geom = prod.geom /\ prod'.todo = prod.todo
    BY <1>0, <2>1 DEF Writing
  <2> QED
    BY <1>1, <1>5, <2>2 DEF WriteEnd, reader
<1>6. ASSUME NEW d \in Depths, SetJitterFrames(d) PROVE DepthsStored'
  <2>1. prod' = [prod EXCEPT !.todo = Fields, !.geom = Clamped(d)] /\ UNCHANGED <<geom, cons>>
    BY <1>6 DEF SetJitterFrames, reader
  <2>2. prod'.geom = Clamped(d) /\ prod'.todo = Fields
    BY <1>0, <2>1 DEF Writing
  <2>3. Clamped(d).target <= Clamped(d).max
    BY ClampedTyped
  <2> QED
    BY <2>1, <2>2, <2>3 DEF DepthsStored, Fields
<1>7. CASE Reprime
  <2>1. prod' = [prod EXCEPT !.todo = {"priming"}] /\ UNCHANGED <<geom, cons>>
        /\ prod.todo = {}
    BY <1>7 DEF Reprime, reader, ProducerIdle
  <2>2. prod'.geom = prod.geom /\ prod'.todo = {"priming"}
    BY <1>0, <2>1 DEF Writing
  <2> QED
    BY <2>1, <2>2 DEF DepthsStored
<1>8. ASSUME NEW f \in Fields, Store(f) PROVE DepthsStored'
  <2>1. prod' = [prod EXCEPT !.todo = prod.todo \ {f}] /\ UNCHANGED cons /\ f \in prod.todo
        /\ geom' = IF f = "priming" THEN geom ELSE [geom EXCEPT ![f] = prod.geom[f]]
    BY <1>8 DEF Store, reader
  <2>2. prod'.geom = prod.geom /\ prod'.todo = prod.todo \ {f}
    BY <1>0, <2>1 DEF Writing
  <2>3. \A g \in {"prebuf", "target", "max"} : geom'[g] = IF g = f THEN prod.geom[g] ELSE geom[g]
    BY <1>0, <2>1 DEF Geometry, Fields
  <2>4. \A g \in {"prebuf", "target", "max"} \ prod'.todo : geom'[g] = prod'.geom[g]
    BY <2>2, <2>3 DEF DepthsStored
  <2>5. cons.pc = "drop" => geom'.prebuf = geom.prebuf
    BY <2>1, <2>3 DEF StoresApart
  <2>6. cons.pc = "cut" => geom'.target = geom.target
    BY <2>1, <2>3 DEF StoresApart
  <2> QED
    BY <2>1, <2>2, <2>4, <2>5, <2>6 DEF DepthsStored
<1>9. CASE UNCHANGED vars
  BY <1>1, <1>9 DEF vars
<1> QED
  BY <1>2, <1>3, <1>4, <1>5, <1>6, <1>7, <1>8, <1>9 DEF Next, Producer

(* While they do, no step tears a trim.                                    *)
LEMMA NotTorn ==
  ASSUME Words, DepthsStored, [Next]_vars, ~torn
  PROVE  ~torn'
<1>1. CASE Producer
  BY <1>1 DEF Producer, WriteBegin, CopyFrame, WriteEnd, SetJitterFrames, Reprime, Store
<1>2. ASSUME NEW n \in Blocks, ReadBegin(n) PROVE ~torn'
  BY <1>2, Begun
<1>3. CASE Looks
  BY <1>3, Looked
<1>4. CASE Drop \/ Cut
  <2>1. geom.prebuf \in Nat /\ geom.target \in Nat /\ cons.fill \in Nat
        /\ cons.pc \in {"drop", "cut"}
    BY <1>4, WordFields, TakenDown
  <2>2. CASE cons.pc = "drop"
    <3>1. ~(geom.prebuf > cons.fill)
      BY <2>1, <2>2 DEF DepthsStored
    <3>2. torn' = (torn \/ geom.prebuf > cons.fill)
      BY <1>4, <2>2, TakenDown
    <3> QED
      BY <3>1, <3>2
  <2>3. CASE cons.pc = "cut"
    <3>1. ~(geom.target > cons.fill)
      BY <2>1, <2>3 DEF DepthsStored
    <3>2. torn' = (torn \/ geom.target > cons.fill)
      BY <1>4, <2>3, TakenDown
    <3> QED
      BY <3>1, <3>2
  <2> QED
    BY <2>1, <2>2, <2>3
<1>5. CASE High
  BY <1>5, Nudged
<1>6. CASE FillFrame
  BY <1>6, Filled
<1>7. CASE ReadEnd
  BY <1>7, Ended
<1>8. CASE UNCHANGED vars
  BY <1>8 DEF vars
<1> QED
  BY <1>1, <1>2, <1>3, <1>4, <1>5, <1>6, <1>7, <1>8, ConsumerSteps DEF Next

(* So nothing is ever torn.                                                *)
LEMMA NeverTorn == Spec /\ []StoresApart => []~torn
<1>1. ASSUME Init PROVE DepthsStored /\ ~torn
  <2>1. geom = Clamped(FirstDepth) /\ prod.geom = geom /\ cons.pc = "idle" /\ ~torn
    BY <1>1 DEF Init, Idle
  <2>2. Clamped(FirstDepth).target <= Clamped(FirstDepth).max
    BY ClampedTyped
  <2> QED
    BY <2>1, <2>2 DEF DepthsStored
<1>2. Words /\ DepthsStored /\ StoresApart /\ [Next]_vars => DepthsStored' \/ ~StoresApart'
  BY StepDepthsStored
<1>3. Words /\ DepthsStored /\ ~torn /\ [Next]_vars => ~torn'
  BY NotTorn
<1> QED
  BY <1>1, <1>2, <1>3, WordsHold, PTL DEF Spec, Safety

(* The ring is a lossy FIFO, for all depths, while no store of a depth     *)
(* falls between the reader's test of a depth and the difference it makes. *)
THEOREM RingIsFifo == Spec /\ []StoresApart => ImplementsFifo
<1>1. Words /\ (torn \/ RingInv) /\ ~torn' /\ [Next]_vars => [Fifo!Next]_(Fifo!vars)
  BY FifoSteps
<1> QED
  BY <1>1, StartsEmpty, NeverTorn, WordsHold, RingHolds, PTL
     DEF Spec, Safety, ImplementsFifo, Fifo!Spec

(* Then the read index never moves back, nor past the writer.              *)
THEOREM ReadsForward == Spec /\ []StoresApart => IndexMovesForward
<1>1. ASSUME Words, RingInv, ~torn', [Next]_vars
      PROVE  Forward
  <2>1. Reading \in Index /\ Ahead \in Nat /\ Ahead \in Index /\ Ahead = Minus(w, Reading)
        /\ WordMod \in Nat
    BY <1>1, RingNumbers DEF Ahead
  <2>2. \A n \in 0 .. Ahead : Minus(Plus(Reading, n), Reading) = n
    <3>1. Minus(Reading, Reading) = 0
      <4>1. Minus(Reading, Reading) = Reading - Reading
        BY <2>1, Apart
      <4> QED
        BY <2>1, <4>1, Constants
    <3> SUFFICES ASSUME NEW n \in 0 .. Ahead PROVE Minus(Plus(Reading, n), Reading) = n
      OBVIOUS
    <3>2. n \in Nat /\ 0 + n < WordMod /\ 0 + n = n
      BY <2>1, Constants
    <3> QED
      BY <2>1, <3>1, <3>2, Further
  <2>3. CASE Consumer
    <3>1. PICK n \in 0 .. Ahead : Reading' = Plus(Reading, n)
      BY <1>1, <2>3, ReaderStep
    <3> QED
      BY <2>1, <2>2, <3>1 DEF Forward
  <2>4. CASE Reading' = Reading
    <3>1. 0 \in 0 .. Ahead /\ Plus(Reading, 0) = Reading
      BY <2>1, Constants, BatchOwed
    <3> QED
      BY <2>1, <2>2, <2>4, <3>1 DEF Forward
  <2>5. ASSUME NEW n \in Batches, WriteBegin(n) PROVE Reading' = Reading
    BY <2>5 DEF WriteBegin, reader, Reading
  <2>6. CASE CopyFrame \/ WriteEnd
    BY <2>4, <2>6 DEF CopyFrame, WriteEnd, reader, Reading
  <2>7. CASE \/ \E d \in Depths : SetJitterFrames(d)
             \/ Reprime
             \/ \E f \in Fields : Store(f)
             \/ UNCHANGED vars
    BY <1>1, <2>4, <2>7, DepthsApart
  <2> QED
    BY <1>1, <2>3, <2>4, <2>5, <2>6, <2>7 DEF Next, Producer, Forward
<1>2. Words /\ (torn \/ RingInv) /\ ~torn /\ ~torn' /\ [Next]_vars => [Forward]_vars
  BY <1>1
<1> QED
  BY <1>2, RingHolds, WordsHold, NeverTorn, PTL DEF Spec, Safety, IndexMovesForward
=============================================================================
