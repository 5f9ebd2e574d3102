--------------------------- MODULE CircularBuffer ---------------------------
(***************************************************************************)
(* CircularBuffer<BUFFER> of src/base/Buffer.h, shared without a lock by   *)
(* one producer thread and one consumer thread.  A TCP connection has two  *)
(* of them: m_recvBuf (network thread in, logic thread out) and m_sendBuf  *)
(* (logic thread in, network thread out); a Logger has one.                *)
(*                                                                         *)
(* m_readPos and m_writePos are volatile, each written by one side with    *)
(* AtomicSet (a full barrier) and read by the other side.  An operation    *)
(* that reads the other side's position twice (once in SizeForRead or      *)
(* SizeForWrite, once to lay out the bytes) is two actions here, because   *)
(* the other side may move in between.  memcpy, readv and writev touch the *)
(* cells of pVec or cVec at any time while the pc is "copy", "fill" or     *)
(* "use"; NoOverwrite and DatumInOrder hold through that whole interval, so  *)
(* the copy itself can be one step.                                        *)
(*                                                                         *)
(* A byte is the number it has in the stream of all published bytes.       *)
(***************************************************************************)
EXTENDS Integers

CONSTANTS Capacity,   \* what RoundUp2Power made of the requested size: a power of 2
          MaxPiece,   \* bound: bytes of one PushDataAt, GetDatum or PeekDataAt
          MaxBytes    \* bound: bytes published in a behaviour

ASSUME CapacityAssumption == Capacity \in Nat \ {0}
ASSUME BoundsAssumption   == MaxPiece \in Nat /\ MaxBytes \in Nat

VARIABLES maxSize,    \* m_maxSize: 0 until InitCapacity
          allocated,  \* m_buffer has Capacity cells
          readPos,    \* m_readPos
          writePos,   \* m_writePos
          cell,       \* the contents of m_buffer
          pPc,        \* what the producer is doing
          pLen,       \* bytes of its current piece
          pOff,       \* bytes already copied behind writePos and not yet published
          pVec,       \* the cells it may write
          cPc,        \* what the consumer is doing
          cLen,       \* bytes it asked for, or the position Clear has read
          cVec,       \* the cells it may read
          wTotal,     \* history: bytes published
          rTotal      \* history: bytes released by the consumer

ring     == <<maxSize, allocated, readPos, writePos, cell>>
producer == <<pPc, pLen, pOff, pVec>>
consumer == <<cPc, cLen, cVec>>
vars     == <<ring, producer, consumer, wTotal, rTotal>>

Empty == -1           \* the content of a cell never written
Cells == 0 .. Capacity - 1

-----------------------------------------------------------------------------
(* Mutant of Mask: a position is used without wrapping it. *)
MaskForgotten(x) == x

(* x & (m_maxSize - 1): the remainder by a power of 2 for negative x too.  *)
(* With m_maxSize = 0 the mask is -1 and changes nothing.                  *)
Mask(x) == IF maxSize = 0 THEN x ELSE x % maxSize

SizeForRead  == Mask(writePos - readPos)
SizeForWrite == maxSize - SizeForRead

(* The tests PushDataAt, GetSpace and GetDatum begin with. *)
Fits(n)  == pOff + n + 1 <= SizeForWrite

HasSpace == SizeForWrite > 1

HasDatum == SizeForRead > 0

(* Mutant of PushPos: PushDataAt ignores its offset. *)
PushPosWithoutOffset == writePos

(* Where PushDataAt copies to, behind the bytes copied before. *)
PushPos == Mask(writePos + pOff)

Least(a, b) == IF a <= b THEN a ELSE b

(* A BufferSequence: `first` cells from `base` on, then `second` cells     *)
(* from the start of m_buffer.                                             *)
Vec == [base : Cells, first : 0..Capacity, second : 0..Capacity]
Segments(b, f, s) == [base |-> b, first |-> f, second |-> s]
NoVec      == Segments(0, 0, 0)
Total(v)   == v.first + v.second
CellOf(v, i) == IF i < v.first THEN v.base + i ELSE i - v.first
CellsOf(v) == {CellOf(v, i) : i \in 0 .. Total(v) - 1}

(* The cells PushDataAt copies n bytes to. *)
PushVec(n) ==
    IF readPos > PushPos \/ maxSize - PushPos >= n + 1
    THEN Segments(PushPos, n, 0)
    ELSE Segments(PushPos, maxSize - PushPos, n - (maxSize - PushPos))

(* The cells GetSpace hands to readv. *)
SpaceVec ==
    IF readPos > writePos
    THEN Segments(writePos, readPos - writePos - 1, 0)
    ELSE Segments(writePos,
                  maxSize - writePos - (IF readPos = 0 THEN 1 ELSE 0),
                  IF readPos > 1 THEN readPos - 1 ELSE 0)

(* Mutant of DatumVec: one segment, up to the end of the memory. *)
DatumVecToTheEnd(m) == Segments(readPos, Least(m, maxSize - readPos), 0)

(* The cells GetDatum returns when asked for at most m bytes. *)
DatumVec(m) ==
    IF readPos < writePos
    THEN Segments(readPos, Least(m, writePos - readPos), 0)
    ELSE LET f == Least(m, maxSize - readPos)
         IN  Segments(readPos, f, Least(m - f, writePos))

(* The cells PeekDataAt copies n bytes from. *)
PeekVec(n) ==
    IF readPos < writePos \/ maxSize - readPos >= n
    THEN Segments(readPos, n, 0)
    ELSE Segments(readPos, maxSize - readPos, n - (maxSize - readPos))

(* Mutant of Written: the second memcpy starts at the first byte again. *)
WrittenFromTheStart(v, k, b) ==
    [c \in Cells |->
        IF v.base <= c /\ c < v.base + Least(k, v.first) THEN b + (c - v.base)
        ELSE IF c < k - v.first THEN b + c
        ELSE cell[c]]

(* The contents of m_buffer once k bytes, numbered from b on, are in the   *)
(* first k cells of v.                                                     *)
Written(v, k, b) ==
    [c \in Cells |->
        IF v.base <= c /\ c < v.base + Least(k, v.first) THEN b + (c - v.base)
        ELSE IF c < k - v.first THEN b + v.first + c
        ELSE cell[c]]

-----------------------------------------------------------------------------
(* A Buffer member starts without memory, a Logger's buffer with it. *)
Init ==
    /\ maxSize \in {0, Capacity}
    /\ allocated = (maxSize = Capacity)
    /\ readPos = 0 /\ writePos = 0
    /\ cell = [c \in Cells |-> Empty]
    /\ pPc = "idle" /\ pLen = 0 /\ pOff = 0 /\ pVec = NoVec
    /\ cPc = "idle" /\ cLen = 0 /\ cVec = NoVec
    /\ wTotal = 0 /\ rTotal = 0

(* Mutant of InitCapacity: m_buffer is never resized. *)
InitCapacityWithoutResize ==
    /\ pPc = "idle" /\ pOff = 0 /\ maxSize = 0
    /\ maxSize' = Capacity
    /\ UNCHANGED <<allocated, readPos, writePos, cell, producer, consumer, wTotal, rTotal>>

(* InitCapacity sets m_maxSize first and resizes m_buffer after, while the *)
(* consumer may already be looking at the buffer.                          *)
InitCapacity ==
    /\ pPc = "idle" /\ pOff = 0 /\ maxSize = 0
    /\ maxSize' = Capacity
    /\ pPc' = "resize"
    /\ UNCHANGED <<allocated, readPos, writePos, cell, pLen, pOff, pVec,
                   consumer, wTotal, rTotal>>

Resize ==
    /\ pPc = "resize"
    /\ allocated' = TRUE
    /\ pPc' = "idle"
    /\ UNCHANGED <<maxSize, readPos, writePos, cell, pLen, pOff, pVec,
                   consumer, wTotal, rTotal>>

(* PushDataAt(data, n, pOff): the test on SizeForWrite.  Refused, the      *)
(* bytes copied so far stay unpublished (Logger::Flush gives the record    *)
(* up).                                                                    *)
PushCheck(n) ==
    /\ pPc = "idle"
    /\ wTotal + pOff + n <= MaxBytes
    /\ IF Fits(n)
       THEN pPc' = "push" /\ pLen' = n /\ pOff' = pOff
       ELSE pPc' = pPc /\ pLen' = pLen /\ pOff' = 0
    /\ UNCHANGED <<ring, pVec, consumer, wTotal, rTotal>>

(* The second read of m_readPos lays the bytes out. *)
PushLayout ==
    /\ pPc = "push"
    /\ pVec' = PushVec(pLen)
    /\ pPc' = "copy"
    /\ UNCHANGED <<ring, pLen, pOff, consumer, wTotal, rTotal>>

PushCopy ==
    /\ pPc = "copy"
    /\ cell' = Written(pVec, pLen, wTotal + pOff)
    /\ pOff' = pOff + pLen
    /\ pLen' = 0 /\ pVec' = NoVec
    /\ pPc' = "idle"
    /\ UNCHANGED <<maxSize, allocated, readPos, writePos, consumer, wTotal, rTotal>>

(* GetSpace, both of its reads of m_readPos, and readv, which stores k     *)
(* bytes or fails.                                                         *)
SpaceCheck ==
    /\ pPc = "idle" /\ pOff = 0 /\ maxSize > 0
    /\ HasSpace
    /\ pPc' = "space"
    /\ UNCHANGED <<ring, pLen, pOff, pVec, consumer, wTotal, rTotal>>

SpaceLayout ==
    /\ pPc = "space"
    /\ pVec' = SpaceVec
    /\ pPc' = "fill"
    /\ UNCHANGED <<ring, pLen, pOff, consumer, wTotal, rTotal>>

Fill(k) ==
    /\ pPc = "fill"
    /\ k <= Total(pVec) /\ wTotal + k <= MaxBytes
    /\ cell' = Written(pVec, k, wTotal)
    /\ pOff' = k
    /\ pVec' = NoVec
    /\ pPc' = IF k > 0 THEN "publish" ELSE "idle"
    /\ UNCHANGED <<maxSize, allocated, readPos, writePos, pLen, consumer, wTotal, rTotal>>

(* AdjustWritePtr publishes everything copied since the last call. *)
AdjustWritePtr ==
    /\ pPc \in {"idle", "publish"} /\ pOff > 0
    /\ writePos' = Mask(writePos + pOff)
    /\ wTotal' = wTotal + pOff
    /\ pOff' = 0
    /\ pPc' = "idle"
    /\ UNCHANGED <<maxSize, allocated, readPos, cell, pLen, pVec, consumer, rTotal>>

-----------------------------------------------------------------------------
(* GetDatum(m): the test on SizeForRead, then the second read of           *)
(* m_writePos.                                                             *)
DatumCheck(m) ==
    /\ cPc = "idle"
    /\ HasDatum
    /\ cPc' = "datum" /\ cLen' = m
    /\ UNCHANGED <<ring, cVec, producer, wTotal, rTotal>>

DatumLayout ==
    /\ cPc = "datum"
    /\ cVec' = DatumVec(cLen)
    /\ cPc' = "use"
    /\ UNCHANGED <<ring, cLen, producer, wTotal, rTotal>>

(* PeekDataAt(n), in the same two reads. *)
PeekCheck(n) ==
    /\ cPc = "idle"
    /\ n <= SizeForRead
    /\ cPc' = "peek" /\ cLen' = n
    /\ UNCHANGED <<ring, cVec, producer, wTotal, rTotal>>

PeekLayout ==
    /\ cPc = "peek"
    /\ cVec' = PeekVec(cLen)
    /\ cPc' = "use"
    /\ UNCHANGED <<ring, cLen, producer, wTotal, rTotal>>

(* The consumer is done with the bytes and releases the first k of them.   *)
AdjustReadPtr(k) ==
    /\ cPc = "use"
    /\ k <= Total(cVec)
    /\ readPos' = Mask(readPos + k)
    /\ rTotal' = rTotal + k
    /\ cPc' = "idle" /\ cLen' = 0 /\ cVec' = NoVec
    /\ UNCHANGED <<maxSize, allocated, writePos, cell, producer, wTotal>>

(* Clear: read m_writePos, then store it in m_readPos. *)
ClearLoad ==
    /\ cPc = "idle"
    /\ cPc' = "clear" /\ cLen' = writePos
    /\ UNCHANGED <<ring, cVec, producer, wTotal, rTotal>>

ClearStore ==
    /\ cPc = "clear"
    /\ readPos' = cLen
    /\ rTotal' = rTotal + Mask(cLen - readPos)
    /\ cPc' = "idle" /\ cLen' = 0
    /\ UNCHANGED <<maxSize, allocated, writePos, cell, cVec, producer, wTotal>>

-----------------------------------------------------------------------------
Producer ==
    \/ InitCapacity \/ Resize
    \/ \E n \in 1..MaxPiece : PushCheck(n)
    \/ PushLayout \/ PushCopy
    \/ SpaceCheck \/ SpaceLayout
    \/ \E k \in 0..Capacity : Fill(k)
    \/ AdjustWritePtr

Consumer ==
    \/ \E m \in 1..MaxPiece : DatumCheck(m) \/ PeekCheck(m)
    \/ DatumLayout \/ PeekLayout
    \/ \E k \in 0..Capacity : AdjustReadPtr(k)
    \/ ClearLoad \/ ClearStore

Next == Producer \/ Consumer

Spec == Init /\ [][Next]_vars

-----------------------------------------------------------------------------
(* The variables keep their types. *)
TypeOK ==
    /\ maxSize \in {0, Capacity} /\ allocated \in BOOLEAN
    /\ readPos \in Cells /\ writePos \in Cells
    /\ cell \in [Cells -> Nat \cup {Empty}]
    /\ pPc \in {"idle", "resize", "push", "copy", "space", "fill", "publish"}
    /\ pLen \in Nat /\ pOff \in Nat /\ pVec \in Vec
    /\ cPc \in {"idle", "datum", "peek", "use", "clear"}
    /\ cLen \in Nat /\ cVec \in Vec
    /\ wTotal \in Nat /\ rTotal \in Nat

(* SizeForRead, computed from two positions that wrap, is the number of    *)
(* bytes published and not released, and the bytes copied ahead of         *)
(* m_writePos leave the one cell free that tells full from empty.          *)
SizeExact ==
    /\ SizeForRead = wTotal - rTotal
    /\ pOff > 0 => SizeForRead + pOff < Capacity

(* The cells of the bytes that are not released, published or only copied. *)
Unreleased == {Mask(readPos + i) : i \in 0 .. SizeForRead + pOff - 1}

(* PushDataAt and readv never write over a byte the consumer still needs   *)
(* or the producer has just copied, wherever the consumer is by then.      *)
NoOverwrite ==
    pPc \in {"copy", "fill"} => CellsOf(pVec) \cap Unreleased = {}

(* For as long as the consumer uses the cells of GetDatum or PeekDataAt    *)
(* they hold the next bytes of the stream, in order.                       *)
DatumInOrder ==
    cPc = "use" =>
        \A i \in 0 .. Total(cVec) - 1 : cell[CellOf(cVec, i)] = rTotal + i

(* No thread touches m_buffer between m_maxSize = ... and the end of the   *)
(* resize in InitCapacity.                                                 *)
AllocatedBeforeUse ==
    pPc \in {"copy", "fill"} \/ cPc = "use" => allocated

(* GetSpace leaves readv at least one byte to fill: with none readv would  *)
(* return 0, which Recv reports as the end of the connection.              *)
SpaceNeverEmpty == pPc = "fill" => Total(pVec) > 0

(* The asserts of PushDataAt, GetSpace, GetDatum and PeekDataAt, at the    *)
(* moment each evaluates them.                                             *)
AssertsHold ==
    /\ pPc = "push" =>
          IF readPos > PushPos THEN readPos - PushPos > pLen
                               ELSE maxSize - PushPos + readPos >= 1 + pLen
    /\ pPc = "space" /\ readPos > writePos => readPos - writePos - 1 > 0
    /\ cPc = "datum" => readPos # writePos
    /\ cPc = "peek" =>
          IF readPos < writePos THEN writePos - readPos >= cLen
                                ELSE /\ readPos > writePos
                                     /\ maxSize - readPos + writePos >= cLen

(* No access of the ring goes astray: the memory is there, readv gets a    *)
(* byte at least, and the asserts of Buffer.h hold.                        *)
AccessesSafe == AllocatedBeforeUse /\ SpaceNeverEmpty /\ AssertsHold

(* GetDatum offers every published byte up to the number asked for, and    *)
(* GetSpace every free cell but one, also when they wrap.  DoMsgParse      *)
(* asserts the first for a packet's body.                                  *)
LayoutComplete ==
    [][/\ DatumLayout => Total(cVec') = Least(cLen, wTotal - rTotal)
       /\ SpaceLayout => Total(pVec') = Capacity - 1 - (wTotal - rTotal)]_vars

(* The buffer implements the byte queue: what lies between the positions   *)
(* is the queue.                                                           *)
Content == [i \in 1 .. SizeForRead |-> cell[Mask(readPos + i - 1)]]
Fifo == INSTANCE ByteFifo WITH Bound <- Capacity - 1, fifo <- Content, accepted <- wTotal
ImplementsFifo == Fifo!Spec
=============================================================================
