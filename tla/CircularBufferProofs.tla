------------------------ MODULE CircularBufferProofs ------------------------
(***************************************************************************)
(* Proofs about CircularBuffer for every capacity and every number of      *)
(* bytes: the safety properties the model checker verifies for a ring of   *)
(* four cells, and that the ring implements ByteFifo.                      *)
(*                                                                         *)
(* The argument avoids remainders: a position never exceeds twice the      *)
(* capacity before it is masked, so x % Capacity is one of x, x - Capacity *)
(* and x + Capacity (lemma ModWrap) and everything else is linear.         *)
(***************************************************************************)
EXTENDS CircularBuffer, Sequences, TLAPS

Used    == wTotal - rTotal
Wrap(x) == IF x < Capacity THEN x ELSE x - Capacity

(* The segments of v are the n cells of the ring from b on. *)
Covers(v, b, n) ==
    /\ v.base = b
    /\ v.first + v.second = n
    /\ v.base + v.first <= Capacity
    /\ v.second > 0 => v.base + v.first = Capacity

(* Before the memory is there nothing has happened. *)
Startup ==
    /\ allocated <=> maxSize # 0 /\ pPc # "resize"
    /\ ~allocated => /\ wTotal = 0 /\ pOff = 0 /\ pPc \in {"idle", "resize"}
                     /\ cPc \in {"idle", "clear"}
    /\ maxSize = 0 => pPc = "idle"

(* The positions are as far apart as the histories say, and what the       *)
(* producer has claimed fits.                                              *)
Positions ==
    /\ 0 <= Used /\ Used < Capacity
    /\ writePos = Wrap(readPos + Used)
    /\ Used + pOff + pLen < Capacity
    /\ pPc \notin {"push", "copy"} => pLen = 0
    /\ pPc \in {"space", "fill", "resize"} => pOff = 0
    /\ pPc = "space" => Used + 1 < Capacity

ProducerCells ==
    /\ pPc = "copy" => Covers(pVec, Wrap(writePos + pOff), pLen)
    /\ pPc = "fill" => /\ Covers(pVec, writePos, Total(pVec))
                       /\ Total(pVec) > 0 /\ Used + Total(pVec) < Capacity

ConsumerCells ==
    /\ cPc = "datum" => Used > 0 /\ cLen > 0
    /\ cPc = "peek"  => 0 < cLen /\ cLen <= Used
    /\ cPc = "use"   => /\ Covers(cVec, readPos, Total(cVec))
                        /\ Total(cVec) <= Used
    /\ cPc = "clear" => \E k \in 0 .. Used : cLen = Wrap(readPos + k)

(* Every byte published or copied is in its cell. *)
Bytes == \A i \in 0 .. Used + pOff - 1 : cell[Wrap(readPos + i)] = rTotal + i

(* The inductive invariant. *)
Inv == TypeOK /\ Startup /\ Positions /\ ProducerCells /\ ConsumerCells /\ Bytes

-----------------------------------------------------------------------------
(* Division with remainder, as the prover knows it. *)
LEMMA DivMod ==
    ASSUME NEW c \in Nat \ {0}, NEW a \in Int
    PROVE  /\ a \div c \in Int /\ (a % c) \in Int
           /\ a = c * (a \div c) + (a % c)
           /\ 0 <= (a % c) /\ (a % c) < c
  BY SMT

(* The remainder of a number within one capacity of the ring's positions. *)
LEMMA ModWrap ==
    ASSUME NEW c \in Nat \ {0}, NEW a \in Int, -c < a, a < 2 * c
    PROVE  a % c = IF a < 0 THEN a + c ELSE IF a < c THEN a ELSE a - c
<1> DEFINE q == a \div c
           r == a % c
<1>1. q \in Int /\ r \in Int /\ a = c * q + r /\ 0 <= r /\ r < c
  BY DivMod
<1> HIDE DEF q, r
<1>2. c * q \in Int
  BY <1>1
<1>3. ~(q >= 2)
  <2> SUFFICES ASSUME q >= 2 PROVE FALSE
    OBVIOUS
  <2>1. c * q >= 2 * c
    BY <1>1, SMT
  <2> QED
    BY <2>1, <1>1, <1>2
<1>4. ~(q <= -2)
  <2> SUFFICES ASSUME q <= -2 PROVE FALSE
    OBVIOUS
  <2>1. c * q <= -2 * c
    BY <1>1, SMT
  <2> QED
    BY <2>1, <1>1, <1>2
<1>5. q = -1 \/ q = 0 \/ q = 1
  BY <1>1, <1>3, <1>4
<1>6. c * q = -c \/ c * q = 0 \/ c * q = c
  BY <1>5
<1>7. r = IF a < 0 THEN a + c ELSE IF a < c THEN a ELSE a - c
  BY <1>1, <1>2, <1>6
<1> QED
  BY <1>7 DEF r

(* Masking a position that ran at most once past the end wraps it. *)
LEMMA MaskIsWrap ==
    ASSUME maxSize = Capacity, NEW x \in Int, 0 <= x, x < 2 * Capacity
    PROVE  Mask(x) = Wrap(x) /\ Wrap(x) \in Cells
<1>1. Capacity \in Nat \ {0}
  BY CapacityAssumption
<1>2. x % Capacity = IF x < 0 THEN x + Capacity
                     ELSE IF x < Capacity THEN x ELSE x - Capacity
  <2>1. -Capacity < x
    BY <1>1
  <2> QED
    BY <1>1, <2>1, ModWrap
<1>3. Mask(x) = x % Capacity
  BY <1>1 DEF Mask
<1>4. x % Capacity = Wrap(x)
  BY <1>1, <1>2 DEF Wrap
<1>5. Wrap(x) \in Cells
  BY <1>1 DEF Wrap, Cells
<1> QED
  BY <1>3, <1>4, <1>5

(* The two positions determine the number of unreleased bytes. *)
LEMMA SizeIsUsed ==
    ASSUME TypeOK, Startup, Positions
    PROVE  SizeForRead = Used
<1>1. Capacity \in Nat \ {0}
  BY CapacityAssumption
<1>2. /\ maxSize \in {0, Capacity} /\ wTotal \in Nat /\ rTotal \in Nat
      /\ readPos \in Int /\ 0 <= readPos /\ readPos < Capacity
      /\ writePos \in Int /\ 0 <= writePos /\ writePos < Capacity
  BY <1>1 DEF TypeOK, Cells
<1>3. CASE maxSize = 0
  BY <1>1, <1>2, <1>3 DEF Startup, Positions, SizeForRead, Mask, Used, Wrap
<1>4. CASE maxSize = Capacity
  <2>1. (writePos - readPos) % Capacity =
           IF writePos - readPos < 0 THEN writePos - readPos + Capacity
           ELSE IF writePos - readPos < Capacity THEN writePos - readPos
           ELSE writePos - readPos - Capacity
    <3>1. /\ writePos - readPos \in Int /\ -Capacity < writePos - readPos
          /\ writePos - readPos < 2 * Capacity
      BY <1>1, <1>2
    <3> QED
      BY <1>1, <3>1, ModWrap
  <2> QED
    BY <1>1, <1>2, <1>4, <2>1 DEF Positions, SizeForRead, Mask, Used, Wrap
<1> QED
  BY <1>2, <1>3, <1>4

(* Writing k bytes into segments that cover at least k cells puts them     *)
(* there in order and leaves the rest of the ring alone.                   *)
LEMMA WrittenCells ==
    ASSUME TypeOK,
           NEW v \in Vec, NEW k \in Nat, NEW s \in Nat,
           k <= Total(v), Covers(v, v.base, Total(v)), Total(v) < Capacity
    PROVE  /\ Written(v, k, s) \in [Cells -> Nat \cup {Empty}]
           /\ \A i \in Int : 0 <= i /\ i < k =>
                 Written(v, k, s)[Wrap(v.base + i)] = s + i
           /\ \A i \in Int : k <= i /\ i < Capacity =>
                 Written(v, k, s)[Wrap(v.base + i)] = cell[Wrap(v.base + i)]
<1> DEFINE b == v.base
           f == v.first
           W == Written(v, k, s)
<1>1. Capacity \in Nat \ {0}
  BY CapacityAssumption
<1>2. /\ b \in Nat /\ b < Capacity
      /\ f \in Nat /\ b + f <= Capacity
      /\ k > f => b + f = Capacity
      /\ k < Capacity
  BY <1>1 DEF Vec, Cells, Covers, Total
<1>3. cell \in [Cells -> Nat \cup {Empty}]
  BY DEF TypeOK
<1>4. /\ W = [c \in Cells |-> W[c]]
      /\ \A c \in Cells :
            W[c] = IF b <= c /\ c < b + Least(k, f) THEN s + (c - b)
                   ELSE IF c < k - f THEN s + f + c
                   ELSE cell[c]
  BY DEF Written
<1> HIDE DEF b, f, W
<1>5. W \in [Cells -> Nat \cup {Empty}]
  <2> SUFFICES ASSUME NEW c \in Cells PROVE W[c] \in Nat \cup {Empty}
    BY <1>4
  <2>1. c \in Nat
    BY <1>1 DEF Cells
  <2> QED
    BY <1>1, <1>2, <1>3, <1>4, <2>1 DEF Least
<1>6. ASSUME NEW i \in Int, 0 <= i, i < Capacity
      PROVE  /\ Wrap(b + i) \in Cells
             /\ b + i < Capacity  => Wrap(b + i) = b + i
             /\ b + i >= Capacity => Wrap(b + i) = b + i - Capacity
  BY <1>1, <1>2, <1>6 DEF Wrap, Cells
<1>7. ASSUME NEW i \in Int, 0 <= i, i < k
      PROVE  W[Wrap(b + i)] = s + i
  <2>1. CASE i < f
    BY <1>1, <1>2, <1>4, <1>6, <1>7, <2>1 DEF Least
  <2>2. CASE i >= f
    BY <1>1, <1>2, <1>4, <1>6, <1>7, <2>2 DEF Least
  <2> QED
    BY <1>2, <2>1, <2>2
<1>8. ASSUME NEW i \in Int, k <= i, i < Capacity
      PROVE  W[Wrap(b + i)] = cell[Wrap(b + i)]
  BY <1>1, <1>2, <1>4, <1>6, <1>8 DEF Least
<1> QED
  BY <1>5, <1>7, <1>8 DEF b, W

-----------------------------------------------------------------------------
LEMMA InitInv == Init => Inv
<1> SUFFICES ASSUME Init PROVE Inv
  OBVIOUS
<1>1. Capacity \in Nat \ {0}
  BY CapacityAssumption
<1>2. TypeOK
  BY <1>1 DEF Init, TypeOK, Cells, NoVec, Segments, Vec
<1>3. Startup /\ ProducerCells /\ ConsumerCells
  BY <1>1 DEF Init, Startup, ProducerCells, ConsumerCells
<1>4. Positions /\ Bytes
  BY <1>1 DEF Init, Positions, Bytes, Used, Wrap
<1> QED
  BY <1>2, <1>3, <1>4 DEF Inv

(* What the invariant says of the numbers, for the steps below. *)
LEMMA Numbers ==
    ASSUME Inv
    PROVE  /\ Capacity \in Nat \ {0}
           /\ readPos \in Nat /\ readPos < Capacity
           /\ writePos \in Nat /\ writePos < Capacity
           /\ pLen \in Nat /\ pOff \in Nat /\ cLen \in Nat
           /\ wTotal \in Nat /\ rTotal \in Nat
           /\ Used \in Nat /\ Used + pOff + pLen < Capacity
           /\ writePos = Wrap(readPos + Used)
           /\ SizeForRead = Used
           /\ pVec.base \in Nat /\ pVec.first \in Nat /\ pVec.second \in Nat
           /\ cVec.base \in Nat /\ cVec.first \in Nat /\ cVec.second \in Nat
<1>1. TypeOK /\ Startup /\ Positions
  BY DEF Inv
<1>2. Capacity \in Nat \ {0}
  BY CapacityAssumption
<1>3. SizeForRead = Used
  BY <1>1, SizeIsUsed
<1>4. /\ pVec.base \in Nat /\ pVec.first \in Nat /\ pVec.second \in Nat
      /\ cVec.base \in Nat /\ cVec.first \in Nat /\ cVec.second \in Nat
  BY <1>1, <1>2 DEF TypeOK, Vec, Cells
<1> QED
  BY <1>1, <1>2, <1>3, <1>4 DEF TypeOK, Positions, Used, Cells

-----------------------------------------------------------------------------
(* Producer steps. *)
LEMMA InitCapacityInv == Inv /\ InitCapacity => Inv'
<1> SUFFICES ASSUME Inv, InitCapacity PROVE Inv'
  OBVIOUS
<1> USE DEF InitCapacity, ring, producer, consumer
<1>1. TypeOK'
  BY CapacityAssumption DEF Inv, TypeOK
<1>2. Startup' /\ ProducerCells' /\ ConsumerCells'
  BY CapacityAssumption
     DEF Inv, Startup, ProducerCells, ConsumerCells, Covers, Used, Wrap, Total
<1>3. Positions' /\ Bytes'
  BY DEF Inv, Startup, Positions, Bytes, Used, Wrap
<1> QED
  BY <1>1, <1>2, <1>3 DEF Inv

LEMMA ResizeInv == Inv /\ Resize => Inv'
<1> SUFFICES ASSUME Inv, Resize PROVE Inv'
  OBVIOUS
<1> USE DEF Resize, ring, producer, consumer
<1>1. TypeOK'
  BY DEF Inv, TypeOK
<1>2. Startup' /\ ProducerCells' /\ ConsumerCells'
  BY CapacityAssumption
     DEF Inv, TypeOK, Startup, ProducerCells, ConsumerCells, Covers, Used, Wrap, Total
<1>3. Positions' /\ Bytes'
  BY DEF Inv, Startup, Positions, Bytes, Used, Wrap
<1> QED
  BY <1>1, <1>2, <1>3 DEF Inv

LEMMA PushCheckInv ==
    ASSUME Inv, NEW n \in 1..MaxPiece, PushCheck(n)
    PROVE  Inv'
<1> USE DEF PushCheck, ring, consumer
<1>1. n \in Nat /\ n > 0
  BY BoundsAssumption
<1>2. TypeOK'
  BY <1>1 DEF Inv, TypeOK
<1>3. CASE ~Fits(n)
  <2>1. Startup' /\ ProducerCells' /\ ConsumerCells'
    BY <1>3 DEF Inv, Startup, ProducerCells, ConsumerCells, Covers, Used, Wrap, Total
  <2>2. Positions'
    BY <1>3, Numbers DEF Inv, Positions, Used, Wrap
  <2>3. Bytes'
    BY <1>3, Numbers DEF Inv, Bytes, Used, Wrap
  <2> QED
    BY <1>2, <2>1, <2>2, <2>3 DEF Inv
<1>4. CASE Fits(n)
  <2>1. maxSize = Capacity /\ pOff + n + 1 <= Capacity - Used
    BY <1>1, <1>4, Numbers DEF Inv, TypeOK, SizeForWrite, Fits
  <2>2. Startup' /\ ProducerCells' /\ ConsumerCells'
    <3>1. allocated
      BY <2>1, Numbers DEF Inv, Startup
    <3> QED
      BY <1>4, <2>1, <3>1, Numbers
         DEF Inv, Startup, ProducerCells, ConsumerCells, Covers, Used, Wrap, Total
  <2>3. Positions'
    BY <1>1, <1>4, <2>1, Numbers DEF Inv, Positions, Used, Wrap
  <2>4. Bytes'
    BY <1>4 DEF Inv, Bytes, Used, Wrap
  <2> QED
    BY <1>2, <2>2, <2>3, <2>4 DEF Inv
<1> QED
  BY <1>3, <1>4

LEMMA PushLayoutInv == Inv /\ PushLayout => Inv'
<1> SUFFICES ASSUME Inv, PushLayout PROVE Inv'
  OBVIOUS
<1> USE DEF PushLayout, ring, consumer
<1>1. maxSize = Capacity /\ allocated
  BY DEF Inv, TypeOK, Startup
<1>2. Mask(writePos + pOff) = Wrap(writePos + pOff) /\ Wrap(writePos + pOff) \in Cells
  BY <1>1, Numbers, MaskIsWrap
<1>3. pVec' \in Vec /\ Covers(pVec', Wrap(writePos + pOff), pLen)
  BY <1>1, <1>2, Numbers DEF PushVec, PushPos, Segments, Vec, Cells, Covers, Wrap
<1>4. TypeOK'
  BY <1>3 DEF Inv, TypeOK
<1>5. Startup' /\ ProducerCells' /\ ConsumerCells'
  BY <1>3 DEF Inv, Startup, ProducerCells, ConsumerCells, Covers, Used, Wrap, Total
<1>6. Positions' /\ Bytes'
  BY DEF Inv, Positions, Bytes, Used, Wrap
<1> QED
  BY <1>4, <1>5, <1>6 DEF Inv

LEMMA PushCopyInv == Inv /\ PushCopy => Inv'
<1> SUFFICES ASSUME Inv, PushCopy PROVE Inv'
  OBVIOUS
<1> USE DEF PushCopy, consumer
<1> DEFINE b == Wrap(writePos + pOff)
<1>1. Covers(pVec, b, pLen) /\ Total(pVec) = pLen /\ pVec \in Vec /\ pVec.base = b
  BY DEF Inv, TypeOK, ProducerCells, Covers, Total
<1>2. /\ cell' \in [Cells -> Nat \cup {Empty}]
      /\ \A i \in Int : 0 <= i /\ i < pLen => cell'[Wrap(b + i)] = wTotal + pOff + i
      /\ \A i \in Int : pLen <= i /\ i < Capacity => cell'[Wrap(b + i)] = cell[Wrap(b + i)]
  <2>1. wTotal + pOff \in Nat /\ pLen <= Total(pVec) /\ Total(pVec) < Capacity
    BY <1>1, Numbers
  <2> QED
    BY <1>1, <2>1, Numbers, WrittenCells DEF Inv
<1>3. TypeOK'
  <2>1. cell' \in [Cells -> Nat \cup {Empty}]
    BY <1>2
  <2>2. NoVec \in Vec
    BY Numbers DEF NoVec, Segments, Vec, Cells
  <2> QED
    BY <2>1, <2>2, Numbers DEF Inv, TypeOK
<1>4. Startup' /\ ProducerCells' /\ ConsumerCells'
  BY DEF Inv, Startup, ProducerCells, ConsumerCells, Covers, Used, Wrap, Total
<1>5. Positions'
  BY Numbers DEF Inv, Positions, Used, Wrap
<1>6. Bytes'
  <2> SUFFICES ASSUME NEW i \in 0 .. Used + pOff + pLen - 1
               PROVE  cell'[Wrap(readPos + i)] = rTotal + i
    BY Numbers DEF Bytes, Used, Wrap
  <2>1. CASE i < Used + pOff
    <3>1. cell[Wrap(readPos + i)] = rTotal + i
      BY <2>1, Numbers DEF Inv, Bytes
    <3> DEFINE j == i - Used - pOff + Capacity
    <3>2. j \in Int /\ pLen <= j /\ j < Capacity
      BY <2>1, Numbers
    <3>3. Wrap(readPos + i) = Wrap(b + j)
      BY <2>1, Numbers DEF Wrap
    <3> QED
      BY <1>2, <3>1, <3>2, <3>3
  <2>2. CASE ~(i < Used + pOff)
    <3> DEFINE j == i - Used - pOff
    <3>1. j \in Int /\ 0 <= j /\ j < pLen
      BY <2>2, Numbers
    <3>2. Wrap(readPos + i) = Wrap(b + j)
      BY <2>2, Numbers DEF Wrap
    <3>3. wTotal + pOff + j = rTotal + i
      BY Numbers DEF Used
    <3> QED
      BY <1>2, <3>1, <3>2, <3>3
  <2> QED
    BY <2>1, <2>2
<1> QED
  BY <1>3, <1>4, <1>5, <1>6 DEF Inv

LEMMA SpaceCheckInv == Inv /\ SpaceCheck => Inv'
<1> SUFFICES ASSUME Inv, SpaceCheck PROVE Inv'
  OBVIOUS
<1> USE DEF SpaceCheck, ring, consumer
<1>1. maxSize = Capacity /\ Used + 1 < Capacity
  BY Numbers DEF Inv, TypeOK, SizeForWrite, HasSpace
<1>2. TypeOK'
  BY DEF Inv, TypeOK
<1>3. Startup' /\ ProducerCells' /\ ConsumerCells'
  BY <1>1 DEF Inv, Startup, ProducerCells, ConsumerCells, Covers, Used, Wrap, Total
<1>4. Positions' /\ Bytes'
  BY <1>1, Numbers DEF Inv, Positions, Bytes, Used, Wrap
<1> QED
  BY <1>2, <1>3, <1>4 DEF Inv

LEMMA SpaceLayoutInv == Inv /\ SpaceLayout => Inv'
<1> SUFFICES ASSUME Inv, SpaceLayout PROVE Inv'
  OBVIOUS
<1> USE DEF SpaceLayout, ring, consumer
<1>1. maxSize = Capacity /\ Used + 1 < Capacity
  BY Numbers DEF Inv, TypeOK, Startup, Positions
<1>2. /\ pVec' \in Vec /\ Covers(pVec', writePos, Total(pVec'))
      /\ Total(pVec') = Capacity - 1 - Used
  BY <1>1, Numbers DEF SpaceVec, Segments, Vec, Cells, Covers, Wrap, Total
<1>3. TypeOK'
  BY <1>2 DEF Inv, TypeOK
<1>4. Startup' /\ ProducerCells' /\ ConsumerCells'
  BY <1>1, <1>2, Numbers
     DEF Inv, Startup, ProducerCells, ConsumerCells, Covers, Used, Wrap, Total
<1>5. Positions' /\ Bytes'
  BY DEF Inv, Positions, Bytes, Used, Wrap
<1> QED
  BY <1>3, <1>4, <1>5 DEF Inv

LEMMA FillInv ==
    ASSUME Inv, NEW k \in 0..Capacity, Fill(k)
    PROVE  Inv'
<1> USE DEF Fill, consumer
<1>1. /\ Covers(pVec, pVec.base, Total(pVec)) /\ pVec \in Vec /\ pVec.base = writePos
      /\ Used + Total(pVec) < Capacity /\ k \in Nat /\ k <= Total(pVec)
      /\ pOff = 0 /\ pLen = 0
  BY Numbers DEF Inv, TypeOK, ProducerCells, Positions, Covers, Total
<1>2. /\ cell' \in [Cells -> Nat \cup {Empty}]
      /\ \A i \in Int : 0 <= i /\ i < k => cell'[Wrap(writePos + i)] = wTotal + i
      /\ \A i \in Int : k <= i /\ i < Capacity =>
            cell'[Wrap(writePos + i)] = cell[Wrap(writePos + i)]
  <2>1. Total(pVec) < Capacity
    BY <1>1, Numbers DEF Total
  <2> QED
    BY <1>1, <2>1, Numbers, WrittenCells DEF Inv
<1>3. TypeOK'
  <2>1. NoVec \in Vec
    BY Numbers DEF NoVec, Segments, Vec, Cells
  <2> QED
    BY <1>1, <1>2, <2>1, Numbers DEF Inv, TypeOK
<1>4. Startup' /\ ProducerCells' /\ ConsumerCells'
  BY DEF Inv, Startup, ProducerCells, ConsumerCells, Covers, Used, Wrap, Total
<1>5. Positions'
  BY <1>1, Numbers DEF Inv, Positions, Used, Wrap, Total
<1>6. Bytes'
  <2> SUFFICES ASSUME NEW i \in 0 .. Used + k - 1
               PROVE  cell'[Wrap(readPos + i)] = rTotal + i
    BY Numbers DEF Bytes, Used, Wrap
  <2>1. CASE i < Used
    <3>1. cell[Wrap(readPos + i)] = rTotal + i
      BY <1>1, <2>1, Numbers DEF Inv, Bytes
    <3> DEFINE j == i - Used + Capacity
    <3>2. j \in Int /\ k <= j /\ j < Capacity
      BY <1>1, <2>1, Numbers DEF Total
    <3>3. Wrap(readPos + i) = Wrap(writePos + j)
      BY <2>1, Numbers DEF Wrap
    <3> QED
      BY <1>2, <3>1, <3>2, <3>3
  <2>2. CASE ~(i < Used)
    <3> DEFINE j == i - Used
    <3>1. j \in Int /\ 0 <= j /\ j < k
      BY <2>2, Numbers
    <3>2. Wrap(readPos + i) = Wrap(writePos + j)
      BY <1>1, <2>2, Numbers DEF Wrap, Total
    <3>3. wTotal + j = rTotal + i
      BY Numbers DEF Used
    <3> QED
      BY <1>2, <3>1, <3>2, <3>3
  <2> QED
    BY <2>1, <2>2
<1> QED
  BY <1>3, <1>4, <1>5, <1>6 DEF Inv

LEMMA AdjustWritePtrInv == Inv /\ AdjustWritePtr => Inv'
<1> SUFFICES ASSUME Inv, AdjustWritePtr PROVE Inv'
  OBVIOUS
<1> USE DEF AdjustWritePtr, consumer
<1>1. maxSize = Capacity /\ allocated
  BY Numbers DEF Inv, TypeOK, Startup
<1>2. writePos' = Wrap(writePos + pOff) /\ writePos' \in Cells
  BY <1>1, Numbers, MaskIsWrap
<1>3. Used' = Used + pOff /\ pLen = 0
  BY Numbers DEF Inv, Positions, Used
<1>4. TypeOK'
  BY <1>2, Numbers DEF Inv, TypeOK
<1>5. Startup' /\ ProducerCells'
  BY <1>1 DEF Inv, Startup, ProducerCells
<1>6. ConsumerCells'
  BY <1>3, Numbers DEF Inv, ConsumerCells, Covers, Wrap, Total
<1>7. Positions'
  BY <1>2, <1>3, Numbers DEF Inv, Positions, Wrap
<1>8. Bytes'
  BY <1>3, Numbers DEF Inv, Bytes, Wrap
<1> QED
  BY <1>4, <1>5, <1>6, <1>7, <1>8 DEF Inv

-----------------------------------------------------------------------------
(* Consumer steps. *)
LEMMA DatumCheckInv ==
    ASSUME Inv, NEW m \in 1..MaxPiece, DatumCheck(m)
    PROVE  Inv'
<1> USE DEF DatumCheck, ring, producer
<1>1. m \in Nat /\ m > 0
  BY BoundsAssumption
<1>2. Used > 0 /\ allocated
  BY Numbers DEF Inv, Startup, Used, HasDatum
<1>3. TypeOK'
  BY <1>1 DEF Inv, TypeOK
<1>4. Startup' /\ ProducerCells' /\ ConsumerCells'
  BY <1>1, <1>2 DEF Inv, Startup, ProducerCells, ConsumerCells, Covers, Used, Wrap, Total
<1>5. Positions' /\ Bytes'
  BY DEF Inv, Positions, Bytes, Used, Wrap
<1> QED
  BY <1>3, <1>4, <1>5 DEF Inv

LEMMA DatumLayoutInv == Inv /\ DatumLayout => Inv'
<1> SUFFICES ASSUME Inv, DatumLayout PROVE Inv'
  OBVIOUS
<1> USE DEF DatumLayout, ring, producer
<1>1. maxSize = Capacity /\ Used > 0 /\ cLen > 0
  BY DEF Inv, TypeOK, Startup, ConsumerCells
<1>2. /\ cVec' \in Vec /\ Covers(cVec', readPos, Total(cVec'))
      /\ Total(cVec') = Least(cLen, Used)
  BY <1>1, Numbers DEF DatumVec, Least, Segments, Vec, Cells, Covers, Wrap, Total
<1>3. TypeOK'
  BY <1>2 DEF Inv, TypeOK
<1>4. Startup' /\ ProducerCells' /\ ConsumerCells'
  BY <1>1, <1>2, Numbers
     DEF Inv, Startup, ProducerCells, ConsumerCells, Covers, Used, Wrap, Total, Least
<1>5. Positions' /\ Bytes'
  BY DEF Inv, Positions, Bytes, Used, Wrap
<1> QED
  BY <1>3, <1>4, <1>5 DEF Inv

LEMMA PeekCheckInv ==
    ASSUME Inv, NEW n \in 1..MaxPiece, PeekCheck(n)
    PROVE  Inv'
<1> USE DEF PeekCheck, ring, producer
<1>1. n \in Nat /\ n > 0
  BY BoundsAssumption
<1>2. n <= Used /\ allocated
  BY <1>1, Numbers DEF Inv, Startup, Used
<1>3. TypeOK'
  BY <1>1 DEF Inv, TypeOK
<1>4. Startup' /\ ProducerCells' /\ ConsumerCells'
  BY <1>1, <1>2 DEF Inv, Startup, ProducerCells, ConsumerCells, Covers, Used, Wrap, Total
<1>5. Positions' /\ Bytes'
  BY DEF Inv, Positions, Bytes, Used, Wrap
<1> QED
  BY <1>3, <1>4, <1>5 DEF Inv

LEMMA PeekLayoutInv == Inv /\ PeekLayout => Inv'
<1> SUFFICES ASSUME Inv, PeekLayout PROVE Inv'
  OBVIOUS
<1> USE DEF PeekLayout, ring, producer
<1>1. maxSize = Capacity /\ cLen > 0 /\ cLen <= Used
  BY DEF Inv, TypeOK, Startup, ConsumerCells
<1>2. cVec' \in Vec /\ Covers(cVec', readPos, Total(cVec')) /\ Total(cVec') = cLen
  BY <1>1, Numbers DEF PeekVec, Segments, Vec, Cells, Covers, Wrap, Total
<1>3. TypeOK'
  BY <1>2 DEF Inv, TypeOK
<1>4. Startup' /\ ProducerCells' /\ ConsumerCells'
  BY <1>1, <1>2, Numbers
     DEF Inv, Startup, ProducerCells, ConsumerCells, Covers, Used, Wrap, Total
<1>5. Positions' /\ Bytes'
  BY DEF Inv, Positions, Bytes, Used, Wrap
<1> QED
  BY <1>3, <1>4, <1>5 DEF Inv

(* Both ways of releasing bytes move m_readPos over k of them. *)
LEMMA Release ==
    ASSUME Inv, NEW k \in Nat, k <= Used,
           readPos' = Wrap(readPos + k), rTotal' = rTotal + k,
           cPc' = "idle", cLen' = 0, cVec' \in Vec,
           UNCHANGED <<maxSize, allocated, writePos, cell, producer, wTotal>>
    PROVE  Inv'
<1> USE DEF producer
<1>1. Used' = Used - k /\ readPos' \in Cells
  BY Numbers DEF Used, Wrap, Cells
<1>2. TypeOK'
  BY <1>1, Numbers DEF Inv, TypeOK
<1>3. Startup' /\ ConsumerCells'
  BY DEF Inv, Startup, ConsumerCells
<1>4. ProducerCells'
  BY <1>1, Numbers DEF Inv, ProducerCells, Covers, Wrap, Total
<1>5. Positions'
  BY <1>1, Numbers DEF Inv, Positions, Wrap
<1>6. Bytes'
  <2> SUFFICES ASSUME NEW i \in 0 .. Used - k + pOff - 1
               PROVE  cell[Wrap(readPos' + i)] = rTotal + k + i
    BY <1>1 DEF Bytes, Wrap
  <2>1. cell[Wrap(readPos + (k + i))] = rTotal + (k + i)
    BY Numbers DEF Inv, Bytes
  <2>2. Wrap(readPos' + i) = Wrap(readPos + (k + i))
    BY Numbers DEF Wrap
  <2> QED
    BY <2>1, <2>2, Numbers
<1> QED
  BY <1>2, <1>3, <1>4, <1>5, <1>6 DEF Inv

LEMMA AdjustReadPtrInv ==
    ASSUME Inv, NEW k \in 0..Capacity, AdjustReadPtr(k)
    PROVE  Inv'
<1> USE DEF AdjustReadPtr
<1>1. maxSize = Capacity /\ k \in Nat /\ k <= Used
  BY Numbers DEF Inv, TypeOK, Startup, ConsumerCells, Total
<1>2. readPos' = Wrap(readPos + k)
  BY <1>1, Numbers, MaskIsWrap
<1>3. cVec' \in Vec
  BY Numbers DEF NoVec, Segments, Vec, Cells
<1> QED
  BY <1>1, <1>2, <1>3, Release

LEMMA ClearLoadInv == Inv /\ ClearLoad => Inv'
<1> SUFFICES ASSUME Inv, ClearLoad PROVE Inv'
  OBVIOUS
<1> USE DEF ClearLoad, ring, producer
<1>1. TypeOK'
  BY Numbers DEF Inv, TypeOK
<1>2. Startup' /\ ProducerCells'
  BY DEF Inv, Startup, ProducerCells, Covers, Used, Wrap, Total
<1>3. ConsumerCells'
  BY Numbers DEF ConsumerCells, Used, Wrap
<1>4. Positions' /\ Bytes'
  BY DEF Inv, Positions, Bytes, Used, Wrap
<1> QED
  BY <1>1, <1>2, <1>3, <1>4 DEF Inv

(* The distance Clear moves m_readPos is some number of published bytes. *)
LEMMA ClearDistance ==
    ASSUME Inv, ClearStore
    PROVE  \E k \in 0 .. Used : Mask(cLen - readPos) = k /\ cLen = Wrap(readPos + k)
<1> USE DEF ClearStore
<1>1. PICK k \in 0 .. Used : cLen = Wrap(readPos + k)
  BY DEF Inv, ConsumerCells
<1>2. k \in Nat /\ k <= Used
  BY Numbers
<1>3. Mask(cLen - readPos) = k
  <2>1. CASE maxSize = 0
    BY <1>1, <1>2, <2>1, Numbers DEF Inv, Startup, Used, Mask, Wrap
  <2>2. CASE maxSize = Capacity
    <3> DEFINE x == cLen - readPos
    <3>1. x \in Int /\ -Capacity < x /\ x < 2 * Capacity
      BY <1>1, <1>2, Numbers DEF Wrap
    <3>2. x % Capacity = IF x < 0 THEN x + Capacity
                         ELSE IF x < Capacity THEN x ELSE x - Capacity
      BY <3>1, Numbers, ModWrap
    <3>3. (x < 0 => x + Capacity = k) /\ (x >= 0 => x = k)
      BY <1>1, <1>2, Numbers DEF Wrap
    <3>4. x % Capacity = k
      BY <1>2, <3>1, <3>2, <3>3, Numbers
    <3> QED
      BY <2>2, <3>4, Numbers DEF Mask
  <2> QED
    BY <2>1, <2>2 DEF Inv, TypeOK
<1> QED
  BY <1>1, <1>3

LEMMA ClearStoreInv == Inv /\ ClearStore => Inv'
<1> SUFFICES ASSUME Inv, ClearStore PROVE Inv'
  OBVIOUS
<1>1. PICK k \in 0 .. Used : Mask(cLen - readPos) = k /\ cLen = Wrap(readPos + k)
  BY ClearDistance
<1>2. k \in Nat /\ k <= Used
  BY Numbers
<1>3. cVec' \in Vec
  BY DEF ClearStore, Inv, TypeOK
<1> QED
  BY <1>1, <1>2, <1>3, Release DEF ClearStore

-----------------------------------------------------------------------------
LEMMA NextInv == Inv /\ [Next]_vars => Inv'
<1> SUFFICES ASSUME Inv, [Next]_vars PROVE Inv'
  OBVIOUS
<1>1. ASSUME Producer PROVE Inv'
  BY <1>1, InitCapacityInv, ResizeInv, PushCheckInv, PushLayoutInv, PushCopyInv,
     SpaceCheckInv, SpaceLayoutInv, FillInv, AdjustWritePtrInv DEF Producer
<1>2. ASSUME Consumer PROVE Inv'
  BY <1>2, DatumCheckInv, PeekCheckInv, DatumLayoutInv, PeekLayoutInv,
     AdjustReadPtrInv, ClearLoadInv, ClearStoreInv DEF Consumer
<1>3. ASSUME UNCHANGED vars PROVE Inv'
  BY <1>3 DEF vars, ring, producer, consumer, Inv, TypeOK, Startup, Positions,
              ProducerCells, ConsumerCells, Bytes, Covers, Used, Wrap, Total
<1> QED
  BY <1>1, <1>2, <1>3 DEF Next

(* The inductive invariant holds in every reachable state. *)
THEOREM Invariance == Spec => []Inv
  BY InitInv, NextInv, PTL DEF Spec

(* The variables of the ring keep their types: in particular both          *)
(* positions stay inside m_buffer, whatever the two threads interleave.    *)
THEOREM TypeCorrect == Spec => []TypeOK
<1>1. Inv => TypeOK
  BY DEF Inv
<1> QED
  BY <1>1, Invariance, PTL

(* Masking a position within the unreleased bytes. *)
LEMMA UnreleasedPosition ==
    ASSUME Inv, NEW i \in Int, 0 <= i, i < Used + pOff
    PROVE  Mask(readPos + i) = Wrap(readPos + i)
<1>1. maxSize = Capacity
  BY Numbers DEF Inv, TypeOK, Startup, Used
<1>2. readPos + i \in Int /\ 0 <= readPos + i /\ readPos + i < 2 * Capacity
  BY Numbers
<1> QED
  BY <1>1, <1>2, MaskIsWrap

(* The cells of segments that cover n cells from b on, one by one. *)
LEMMA CoveredCell ==
    ASSUME NEW v \in Vec, NEW i \in 0 .. Total(v) - 1, Covers(v, v.base, Total(v))
    PROVE  CellOf(v, i) = Wrap(v.base + i)
<1>1. /\ Capacity \in Nat \ {0} /\ v.base \in Nat /\ v.base < Capacity
      /\ v.first \in Nat /\ v.second \in Nat
  BY CapacityAssumption DEF Vec, Cells
<1>2. /\ i \in Int /\ 0 <= i /\ i < v.first + v.second
  BY <1>1 DEF Total
<1>3. CASE i < v.first
  BY <1>1, <1>2, <1>3 DEF Covers, CellOf, Wrap
<1>4. CASE ~(i < v.first)
  BY <1>1, <1>2, <1>4 DEF Covers, CellOf, Wrap
<1> QED
  BY <1>3, <1>4

(* The distance of the two positions is the number of unreleased bytes,    *)
(* and one cell always stays free.                                         *)
THEOREM SizeIsExact == Spec => []SizeExact
<1>1. Inv => SizeExact
  BY Numbers DEF SizeExact, Used
<1> QED
  BY <1>1, Invariance, PTL

(* What the producer is about to write is disjoint from every unreleased   *)
(* byte, for every interleaving with the consumer.                         *)
THEOREM NeverOverwrites == Spec => []NoOverwrite
<1>1. Inv => NoOverwrite
  <2> SUFFICES ASSUME Inv, pPc \in {"copy", "fill"},
                      NEW i \in 0 .. Total(pVec) - 1,
                      NEW j \in 0 .. SizeForRead + pOff - 1,
                      CellOf(pVec, i) = Mask(readPos + j)
               PROVE  FALSE
    BY DEF NoOverwrite, CellsOf, Unreleased
  <2>1. /\ pVec \in Vec /\ Covers(pVec, pVec.base, Total(pVec))
        /\ pVec.base = Wrap(writePos + pOff)
        /\ Used + pOff + Total(pVec) < Capacity
    BY Numbers DEF Inv, TypeOK, Positions, ProducerCells, Covers, Total, Wrap
  <2>2. CellOf(pVec, i) = Wrap(pVec.base + i)
    BY <2>1, CoveredCell
  <2>3. /\ i \in Int /\ 0 <= i /\ i < Total(pVec)
        /\ j \in Int /\ 0 <= j /\ j < Used + pOff
    BY Numbers DEF Total
  <2>4. Mask(readPos + j) = Wrap(readPos + j)
    BY <2>3, UnreleasedPosition
  <2>5. Total(pVec) \in Nat
    BY Numbers DEF Total
  <2>6. Wrap(pVec.base + i) # Wrap(readPos + j)
    BY <2>1, <2>3, <2>5, Numbers DEF Wrap
  <2> QED
    BY <2>2, <2>4, <2>6
<1> QED
  BY <1>1, Invariance, PTL

(* The bytes the consumer is given are the next ones of the stream and     *)
(* stay so until it releases them.                                         *)
THEOREM ReadsInOrder == Spec => []DatumInOrder
<1>1. Inv => DatumInOrder
  <2> SUFFICES ASSUME Inv, cPc = "use", NEW i \in 0 .. Total(cVec) - 1
               PROVE  cell[CellOf(cVec, i)] = rTotal + i
    BY DEF DatumInOrder
  <2>1. /\ cVec \in Vec /\ cVec.base = readPos /\ Total(cVec) <= Used
        /\ Covers(cVec, cVec.base, Total(cVec))
    BY DEF Inv, TypeOK, ConsumerCells, Covers
  <2>2. CellOf(cVec, i) = Wrap(readPos + i)
    BY <2>1, CoveredCell
  <2>3. i \in 0 .. Used + pOff - 1
    BY <2>1, Numbers DEF Total
  <2> QED
    BY <2>2, <2>3 DEF Inv, Bytes
<1> QED
  BY <1>1, Invariance, PTL

(* No access before the memory is there, no empty readv, and none of the   *)
(* asserts of Buffer.h fails.                                              *)
THEOREM AccessesAreSafe == Spec => []AccessesSafe
<1>1. Inv => AllocatedBeforeUse /\ SpaceNeverEmpty
  BY DEF Inv, Startup, ProducerCells, AllocatedBeforeUse, SpaceNeverEmpty
<1>2. Inv => AssertsHold
  <2> SUFFICES ASSUME Inv PROVE AssertsHold
    OBVIOUS
  <2>1. ASSUME pPc = "push"
        PROVE  IF readPos > PushPos THEN readPos - PushPos > pLen
                                    ELSE maxSize - PushPos + readPos >= 1 + pLen
    <3>1. maxSize = Capacity
      BY <2>1 DEF Inv, TypeOK, Startup
    <3>2. Mask(writePos + pOff) = Wrap(writePos + pOff)
      BY <3>1, Numbers, MaskIsWrap
    <3> QED
      BY <3>1, <3>2, Numbers DEF Wrap, PushPos
  <2>2. pPc = "space" /\ readPos > writePos => readPos - writePos - 1 > 0
    BY Numbers DEF Inv, Positions, Wrap
  <2>3. cPc = "datum" => readPos # writePos
    BY Numbers DEF Inv, ConsumerCells, Wrap
  <2>4. ASSUME cPc = "peek"
        PROVE  IF readPos < writePos
               THEN writePos - readPos >= cLen
               ELSE readPos > writePos /\ maxSize - readPos + writePos >= cLen
    <3>1. maxSize = Capacity /\ 0 < cLen /\ cLen <= Used
      BY <2>4 DEF Inv, TypeOK, Startup, ConsumerCells
    <3> QED
      BY <3>1, Numbers DEF Wrap
  <2> QED
    BY <2>1, <2>2, <2>3, <2>4 DEF AssertsHold
<1> QED
  BY <1>1, <1>2, Invariance, PTL DEF AccessesSafe

(* GetDatum and GetSpace offer all there is, also across the end of the    *)
(* memory.                                                                 *)
THEOREM LayoutIsComplete == Spec => LayoutComplete
<1>1. Inv /\ [Next]_vars =>
        [/\ DatumLayout => Total(cVec') = Least(cLen, wTotal - rTotal)
         /\ SpaceLayout => Total(pVec') = Capacity - 1 - (wTotal - rTotal)]_vars
  <2> SUFFICES ASSUME Inv
               PROVE  /\ DatumLayout => Total(cVec') = Least(cLen, wTotal - rTotal)
                      /\ SpaceLayout => Total(pVec') = Capacity - 1 - (wTotal - rTotal)
    OBVIOUS
  <2>1. ASSUME DatumLayout PROVE Total(cVec') = Least(cLen, wTotal - rTotal)
    <3>1. maxSize = Capacity /\ Used > 0 /\ cLen > 0
      BY <2>1 DEF DatumLayout, Inv, TypeOK, Startup, ConsumerCells
    <3> QED
      BY <2>1, <3>1, Numbers DEF DatumLayout, DatumVec, Least, Segments, Wrap, Total, Used
  <2>2. ASSUME SpaceLayout PROVE Total(pVec') = Capacity - 1 - (wTotal - rTotal)
    <3>1. maxSize = Capacity /\ Used + 1 < Capacity
      BY <2>2, Numbers DEF SpaceLayout, Inv, TypeOK, Startup, Positions
    <3> QED
      BY <2>2, <3>1, Numbers DEF SpaceLayout, SpaceVec, Segments, Wrap, Total, Used
  <2> QED
    BY <2>1, <2>2
<1> QED
  BY <1>1, Invariance, PTL DEF Spec, LayoutComplete

-----------------------------------------------------------------------------
(* The queue the ring implements holds n consecutive bytes of the stream.  *)
Stream(a, n) == [i \in 1..n |-> a + i - 1]

LEMMA StreamAppend ==
    ASSUME NEW a \in Nat, NEW n \in Nat, NEW m \in Nat
    PROVE  Stream(a, n) \o Stream(a + n, m) = Stream(a, n + m)
<1>1. /\ Stream(a, n) \in Seq(Int) /\ Len(Stream(a, n)) = n
      /\ Stream(a + n, m) \in Seq(Int) /\ Len(Stream(a + n, m)) = m
  BY DEF Stream
<1> QED
  BY <1>1 DEF Stream

LEMMA StreamDrop ==
    ASSUME NEW a \in Nat, NEW n \in Nat, NEW k \in 0..n
    PROVE  SubSeq(Stream(a, n), k + 1, Len(Stream(a, n))) = Stream(a + k, n - k)
<1>1. Stream(a, n) \in Seq(Int) /\ Len(Stream(a, n)) = n
  BY DEF Stream
<1> QED
  BY <1>1 DEF Stream

LEMMA ContentIsStream ==
    ASSUME Inv
    PROVE  Content = Stream(rTotal, Used)
<1>1. ASSUME NEW i \in 1..Used
      PROVE  cell[Mask(readPos + i - 1)] = rTotal + i - 1
  <2>1. i - 1 \in 0 .. Used + pOff - 1
    BY Numbers
  <2>2. Mask(readPos + (i - 1)) = Wrap(readPos + (i - 1))
    BY <2>1, Numbers, UnreleasedPosition
  <2>3. cell[Wrap(readPos + (i - 1))] = rTotal + (i - 1)
    BY <2>1 DEF Inv, Bytes
  <2>4. readPos + i - 1 = readPos + (i - 1) /\ rTotal + i - 1 = rTotal + (i - 1)
    BY <2>1, Numbers
  <2> QED
    BY <2>2, <2>3, <2>4
<1> QED
  BY <1>1, Numbers DEF Content, Stream

(* CircularBuffer implements ByteFifo: whatever the two threads do, no     *)
(* byte is lost, repeated, reordered or invented, and no step other than   *)
(* AdjustWritePtr, AdjustReadPtr and Clear changes the queue.              *)
THEOREM Refinement == Spec => ImplementsFifo
<1>1. Init => Fifo!Init
  <2> SUFFICES ASSUME Init PROVE Fifo!Init
    OBVIOUS
  <2>1. wTotal = 0 /\ Used = 0
    BY DEF Init, Used
  <2>2. Content = Stream(rTotal, 0)
    BY <2>1, InitInv, ContentIsStream
  <2> QED
    BY <2>1, <2>2 DEF Fifo!Init, Stream
<1>2. Inv /\ Inv' /\ [Next]_vars => [Fifo!Next]_(Fifo!vars)
  <2> SUFFICES ASSUME Inv, Inv', [Next]_vars PROVE [Fifo!Next]_(Fifo!vars)
    OBVIOUS
  <2>1. Content = Stream(rTotal, Used)
    BY ContentIsStream
  <2>2. Content' = Stream(rTotal', Used')
    <3>1. (Content = Stream(rTotal, Used))'
      BY ContentIsStream, PTL
    <3> QED
      BY <3>1 DEF Stream
  <2>3. ASSUME UNCHANGED <<wTotal, rTotal>> PROVE UNCHANGED Fifo!vars
    <3>1. Used' = Used
      BY <2>3 DEF Used
    <3> QED
      BY <2>1, <2>2, <2>3, <3>1 DEF Fifo!vars
  <2>4. ASSUME AdjustWritePtr PROVE Fifo!Next
    <3>1. pOff \in 1 .. Capacity - 1 /\ Used + pOff <= Capacity - 1
      BY <2>4, Numbers DEF AdjustWritePtr
    <3>2. Used' = Used + pOff /\ rTotal' = rTotal /\ rTotal + Used = wTotal
      BY <2>4, Numbers DEF AdjustWritePtr, Used
    <3>3. Content' = Content \o Stream(wTotal, pOff)
      <4>1. Stream(rTotal, Used) \o Stream(rTotal + Used, pOff) = Stream(rTotal, Used + pOff)
        <5>1. rTotal \in Nat /\ Used \in Nat /\ pOff \in Nat
          BY Numbers
        <5> QED
          BY <5>1, StreamAppend
      <4>2. Content' = Stream(rTotal, Used + pOff)
        BY <2>2, <3>2
      <4> QED
        BY <2>1, <3>2, <4>1, <4>2
    <3>4. Len(Content) = Used
      BY <2>1, Numbers DEF Stream
    <3> QED
      BY <2>4, <3>1, <3>3, <3>4, Numbers DEF AdjustWritePtr, Fifo!Next, Fifo!Put, Stream
  <2>5. ASSUME NEW k \in 0..Used, rTotal' = rTotal + k, wTotal' = wTotal
        PROVE  [Fifo!Next]_(Fifo!vars)
    <3>1. Used' = Used - k
      BY <2>5, Numbers DEF Used
    <3>2. Content' = SubSeq(Content, k + 1, Len(Content)) /\ Len(Content) = Used
      <4>1. SubSeq(Stream(rTotal, Used), k + 1, Len(Stream(rTotal, Used)))
              = Stream(rTotal + k, Used - k)
        <5>1. rTotal \in Nat /\ Used \in Nat /\ k \in 0 .. Used
          BY <2>5, Numbers
        <5> QED
          BY ONLY <5>1, StreamDrop
      <4>2. Content' = Stream(rTotal + k, Used - k)
        BY <2>2, <2>5, <3>1
      <4>3. Len(Content) = Used
        BY <2>1, Numbers DEF Stream
      <4> QED
        BY <2>1, <4>1, <4>2, <4>3
    <3>3. CASE k = 0
      <4>1. UNCHANGED <<wTotal, rTotal>>
        BY <2>5, <3>3, Numbers
      <4> QED
        BY <2>3, <4>1
    <3>4. CASE k # 0
      <4>1. k \in 1 .. Capacity - 1
        BY <2>5, <3>4, Numbers
      <4>2. k <= Len(Content)
        BY <2>5, <3>2, Numbers
      <4>3. Fifo!Take(k)
        BY <2>5, <3>2, <4>2 DEF Fifo!Take
      <4> QED
        BY <4>1, <4>3 DEF Fifo!Next
    <3> QED
      BY <3>3, <3>4
  <2>6. ASSUME NEW k \in 0..Capacity, AdjustReadPtr(k)
        PROVE  [Fifo!Next]_(Fifo!vars)
    <3>1. k \in 0..Used
      BY <2>6, Numbers DEF AdjustReadPtr, Inv, ConsumerCells, Total
    <3> QED
      BY <2>5, <2>6, <3>1 DEF AdjustReadPtr
  <2>7. ASSUME ClearStore PROVE [Fifo!Next]_(Fifo!vars)
    <3>1. PICK k \in 0..Used : Mask(cLen - readPos) = k
      BY <2>7, ClearDistance
    <3> QED
      BY <2>5, <2>7, <3>1 DEF ClearStore
  <2>8. ASSUME Producer, ~AdjustWritePtr PROVE UNCHANGED <<wTotal, rTotal>>
    BY <2>8 DEF Producer, InitCapacity, Resize, PushCheck, PushLayout, PushCopy,
                SpaceCheck, SpaceLayout, Fill
  <2>9. ASSUME Consumer, ~ClearStore, ~(\E k \in 0..Capacity : AdjustReadPtr(k))
        PROVE  UNCHANGED <<wTotal, rTotal>>
    BY <2>9 DEF Consumer, DatumCheck, PeekCheck, DatumLayout, PeekLayout, ClearLoad
  <2>10. ASSUME UNCHANGED vars PROVE UNCHANGED <<wTotal, rTotal>>
    BY <2>10 DEF vars
  <2> QED
    BY <2>3, <2>4, <2>6, <2>7, <2>8, <2>9, <2>10 DEF Next
<1> QED
  BY <1>1, <1>2, Invariance, PTL DEF Spec, ImplementsFifo, Fifo!Spec
=============================================================================
