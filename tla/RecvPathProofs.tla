--------------------------- MODULE RecvPathProofs ---------------------------
(***************************************************************************)
(* Proofs about RecvPath for a ring, heads and bodies of any size and any  *)
(* number of packets: DoMsgParse keeps in step with the stream.            *)
(***************************************************************************)
EXTENDS RecvPath, SequenceTheorems, TLAPS

EndAt(j)    == frames[j].start + HeadLen + Greatest(frames[j].len, 0)
Boundary(p) == p = sent \/ \E k \in 1 .. Len(frames) : frames[k].start = p

(* The packets the peer sent lie one behind the other in the stream. *)
Stream ==
    /\ \A j \in 1 .. Len(frames) : EndAt(j) <= sent /\ Boundary(EndAt(j))
    /\ \A j, k \in 1 .. Len(frames) : j < k => EndAt(j) <= frames[k].start
    /\ Boundary(0)

(* What is in the ring; it is allocated before anything is stored. *)
Ring ==
    /\ SizeForRead < Capacity
    /\ received > 0 => capacity = Capacity

(* With no body pending DoMsgParse stands at the end of a packet, else     *)
(* just behind the head it has read.                                       *)
Standing ==
    /\ bodyLen = 0 => Boundary(consumed)
    /\ bodyLen # 0 => \E j \in 1 .. Len(frames) :
          frames[j].len = bodyLen /\ frames[j].start + HeadLen = consumed

(* What the tests DoMsgParse has made still say. *)
Tested ==
    /\ IF lPc = "head" THEN seen \in 1 .. SizeForRead ELSE seen = 0
    /\ lPc = "body" => bodyLen > 0 /\ 3 * bodyLen <= 2 * Capacity /\ bodyLen <= SizeForRead
    /\ lPc \in {"idle", "loop"} /\ ~invalid => bodyLen < Capacity \/ 3 * bodyLen >= IntLimit

(* What was handled lies before what is yet to be parsed. *)
Handled ==
    /\ \A i \in 1 .. Len(handled) :
          /\ handled[i].start < consumed
          /\ \E j \in 1 .. Len(frames) :
                handled[i] = BodyOf(frames[j]) /\ frames[j].len > 0 /\ Acceptable(frames[j])
    /\ \A i \in 1 .. Len(handled) - 1 : handled[i].start < handled[i + 1].start
    /\ \A j \in 1 .. Len(frames) :
          frames[j].len > 0 /\ EndOf(frames[j]) <= consumed =>
              \E i \in 1 .. Len(handled) : handled[i] = BodyOf(frames[j])

(* The inductive invariant. *)
Inv == TypeOK /\ Stream /\ Ring /\ Standing /\ Tested /\ Handled

-----------------------------------------------------------------------------
Frame == [start : Nat, len : Lengths]
Body  == [start : Nat, len : Nat]

(* The integers among the constants. *)
LEMMA Constants ==
  /\ Capacity \in Nat /\ HeadLen \in Nat /\ HeadLen > 0 /\ HeadLen + 1 < Capacity
  /\ IntLimit \in Nat /\ 3 * Capacity <= IntLimit
  /\ \A n \in Lengths : n \in Int /\ n < IntLimit
  BY RecvAssumption

(* What every action may assume of the variables. *)
LEMMA Parts ==
  ASSUME TypeOK
  PROVE  /\ received \in Nat /\ consumed \in Nat /\ sent \in Nat /\ seen \in Nat
         /\ consumed <= received /\ received <= sent /\ bodyLen \in Int
         /\ frames \in Seq(Frame) /\ handled \in Seq(Body)
         /\ Len(frames) \in Nat /\ Len(handled) \in Nat
         /\ \A j \in 1 .. Len(frames) :
               /\ frames[j] \in Frame /\ frames[j].start \in Nat
               /\ frames[j].len \in Lengths /\ frames[j].len \in Int
         /\ \A i \in 1 .. Len(handled) : handled[i] \in Body /\ handled[i].start \in Nat
<1>1. frames \in Seq(Frame) /\ handled \in Seq(Body)
  BY DEF TypeOK, Frame, Body
<1>2. /\ Len(frames) \in Nat /\ \A j \in 1 .. Len(frames) : frames[j] \in Frame
      /\ Len(handled) \in Nat /\ \A i \in 1 .. Len(handled) : handled[i] \in Body
  BY <1>1, ElementOfSeq
<1>3. \A f \in Frame : f.start \in Nat /\ f.len \in Lengths /\ f.len \in Int
  BY Constants DEF Frame
<1>4. \A b \in Body : b.start \in Nat
  BY DEF Body
<1>5. /\ received \in Nat /\ consumed \in Nat /\ sent \in Nat /\ seen \in Nat
      /\ consumed <= received /\ received <= sent /\ bodyLen \in Int
  BY Constants DEF TypeOK
<1> QED
  BY <1>1, <1>2, <1>3, <1>4, <1>5

(* The product does not wrap for a length that fits into the ring, nor for *)
(* one that could be accepted.                                             *)
LEMMA Int32Exact ==
  ASSUME NEW n \in Nat, 3 * n < IntLimit
  PROVE  Int32(3 * n) = 3 * n
<1> DEFINE x == 3 * n
<1>1. x + IntLimit \in 0 .. 2 * IntLimit - 1 /\ IntLimit \in Nat \ {0} /\ x \in Nat
  BY Constants
<1> HIDE DEF x
<1>2. (x + IntLimit) % (2 * IntLimit) = x + IntLimit
  <2> DEFINE a == x + IntLimit
             b == 2 * IntLimit
  <2>1. a \in Nat /\ b \in Nat \ {0} /\ a < b
    BY <1>1
  <2> HIDE DEF a, b
  <2>2. a % b = a
    BY <2>1
  <2> QED
    BY <2>2 DEF a, b
<1> QED
  BY <1>1, <1>2 DEF Int32, x

LEMMA InitInv == Init => Inv
<1> SUFFICES ASSUME Init PROVE Inv
  OBVIOUS
<1>1. /\ frames \in Seq(Frame) /\ handled \in Seq(Body)
      /\ Len(frames) = 0 /\ Len(handled) = 0
  BY EmptySeq DEF Init
<1>2. {invalid, logicRef, fin, reset, refused} \subseteq BOOLEAN
  BY DEF Init
<1>3. TypeOK
  BY <1>1, <1>2 DEF Init, TypeOK, Frame, Body
<1>4. Stream /\ Ring /\ Standing /\ Tested /\ Handled
  BY <1>1, Constants DEF Init, Stream, Boundary, Ring, SizeForRead, Standing, Tested, Handled
<1> QED
  BY <1>3, <1>4 DEF Inv

(* The stream and what was handled, as long as the peer is silent and the  *)
(* parser stands still.                                                    *)
LEMMA SameStream ==
  ASSUME UNCHANGED <<frames, sent>>
  PROVE  /\ Stream' <=> Stream
         /\ consumed' = consumed /\ bodyLen' = bodyLen => (Standing' <=> Standing)
         /\ consumed' = consumed /\ handled' = handled => (Handled' <=> Handled)
  BY DEF Stream, EndAt, Boundary, Standing, Handled, EndOf, BodyOf, Acceptable

-----------------------------------------------------------------------------
(* The network thread and the peer's end. *)
LEMMA NetCheckInv == ASSUME Inv, NetCheck PROVE Inv'
<1> USE DEF Inv, NetCheck, logic, peer
<1>1. TypeOK' /\ Ring' /\ Tested'
  BY DEF TypeOK, Ring, Tested, SizeForRead
<1> QED
  BY <1>1, SameStream

LEMMA RecvNothingInv == ASSUME Inv, RecvNothing PROVE Inv'
<1> USE DEF Inv, RecvNothing, logic, peer
<1>1. TypeOK' /\ Ring' /\ Tested'
  BY DEF TypeOK, Ring, Tested, SizeForRead
<1> QED
  BY <1>1, SameStream

LEMMA RecvBytesInv ==
  ASSUME Inv, NEW k \in 1 .. Capacity - 1, RecvBytes(k)
  PROVE  Inv'
<1> USE DEF Inv, RecvBytes, logic, peer
<1>1. /\ received' = received + k /\ k \in Nat
      /\ k <= Capacity - 1 - (received - consumed) /\ k <= sent - received
  <2>1. /\ received' = received + k
        /\ k <= Least(Capacity - 1 - (received - consumed), sent - received)
    BY DEF Room, SizeForRead
  <2>2. received \in Nat /\ consumed \in Nat /\ sent \in Nat
    BY Parts
  <2> QED
    BY ONLY <2>1, <2>2, k \in 1 .. Capacity - 1, Constants DEF Least
<1>6. /\ received \in Nat /\ consumed \in Nat /\ Capacity \in Nat /\ bodyLen \in Int
      /\ UNCHANGED <<consumed, seen, lPc, bodyLen>> /\ capacity' = Capacity
      /\ invalid' \/ invalid' = invalid
  BY Constants, Parts DEF TypeOK
<1>2. {invalid', logicRef', fin', reset', refused'} \subseteq BOOLEAN
  BY DEF TypeOK
<1>3. TypeOK'
  <2>1. received' \in Nat /\ sent' = sent /\ consumed' <= received' /\ received' <= sent'
    <3>1. \A r, c, s, j \in Nat : c <= r /\ j <= s - r => /\ r + j \in Nat /\ c <= r + j
                                                        /\ r + j <= s
      OBVIOUS
    <3>2. consumed <= received /\ sent \in Nat /\ sent' = sent
      BY Parts
    <3> QED
      BY ONLY <1>1, <1>6, <3>1, <3>2
  <2>2. {received', consumed', sent', seen'} \subseteq Nat
    BY <1>6, <2>1, Parts DEF TypeOK
  <2> QED
    BY <1>2, <1>6, <2>1, <2>2 DEF TypeOK
<1>4. Ring'
  BY ONLY <1>1, <1>6 DEF Ring, SizeForRead
<1>5. Tested'
  <2>1. Tested
    OBVIOUS
  <2>2. SizeForRead \in Int /\ SizeForRead' \in Int /\ SizeForRead <= SizeForRead'
    BY ONLY <1>1, <1>6 DEF SizeForRead
  <2>3. IF lPc' = "head" THEN seen' \in 1 .. SizeForRead' ELSE seen' = 0
    BY ONLY <1>6, <2>1, <2>2 DEF Tested
  <2> QED
    BY ONLY <1>6, <2>1, <2>2, <2>3 DEF Tested
<1> QED
  BY <1>3, <1>4, <1>5, SameStream

LEMMA RecvEndsInv == ASSUME Inv, RecvEnds PROVE Inv'
<1> USE DEF Inv, RecvEnds, logic, peer
<1>1. {invalid', logicRef', fin', reset', refused'} \subseteq BOOLEAN
  BY DEF TypeOK
<1>2. TypeOK' /\ Ring' /\ Tested'
  BY <1>1 DEF TypeOK, Ring, Tested, SizeForRead
<1> QED
  BY <1>2, SameStream

LEMMA PeerClosesInv == ASSUME Inv, PeerCloses PROVE Inv'
<1> USE DEF Inv, PeerCloses, logic, net
<1>1. TypeOK' /\ Ring' /\ Tested'
  BY DEF TypeOK, Ring, Tested, SizeForRead
<1> QED
  BY <1>1, SameStream

LEMMA PeerResetsInv == ASSUME Inv, PeerResets PROVE Inv'
<1> USE DEF Inv, PeerResets, logic, net
<1>1. TypeOK' /\ Ring' /\ Tested'
  BY DEF TypeOK, Ring, Tested, SizeForRead
<1> QED
  BY <1>1, SameStream

(* A new packet begins where the stream ended. *)
LEMMA PeerSendsInv ==
  ASSUME Inv, NEW n \in Lengths, PeerSends(n)
  PROVE  Inv'
<1> USE DEF Inv
<1> DEFINE f == [start |-> sent, len |-> n]
           g == Greatest(n, 0)
           L == Len(frames)
<1>1. /\ frames' = Append(frames, f) /\ sent' = sent + HeadLen + g
      /\ UNCHANGED <<fin, reset, logic, net, invalid>>
      /\ f \in Frame /\ f.start = sent /\ f.len = n
      /\ n \in Int /\ g \in Nat /\ n <= g /\ sent \in Nat /\ L \in Nat
  BY Parts, Constants DEF PeerSends, Frame, Greatest
<1> HIDE DEF f, g
<1>2. /\ frames' \in Seq(Frame) /\ Len(frames') = L + 1
      /\ \A j \in 1 .. L : frames'[j] = frames[j]
      /\ frames'[L + 1] = f
  BY <1>1, Parts, AppendProperties
<1>3. sent' \in Nat /\ sent < sent'
  BY <1>1, Constants
<1>4. TypeOK'
  BY <1>1, <1>2, <1>3, Parts DEF TypeOK, Frame, logic, net
<1>5. \A p \in Nat : Boundary(p) => Boundary(p)'
  <2> SUFFICES ASSUME NEW p \in Nat, Boundary(p) PROVE Boundary(p)'
    OBVIOUS
  <2>1. CASE p = sent
    BY <1>1, <1>2, <2>1, L + 1 \in 1 .. Len(frames') DEF Boundary
  <2>2. CASE \E k \in 1 .. L : frames[k].start = p
    <3>1. PICK k \in 1 .. L : frames[k].start = p
      BY <2>2
    <3>2. k \in 1 .. Len(frames') /\ frames'[k].start = p
      BY <1>1, <1>2, <3>1
    <3> QED
      BY <3>2 DEF Boundary
  <2> QED
    BY <2>1, <2>2 DEF Boundary
<1>6. /\ \A j \in 1 .. L : EndAt(j)' = EndAt(j) /\ EndAt(j) \in Nat
      /\ \A j \in 1 .. Len(frames') : j = L + 1 => EndAt(j)' = sent'
  <2>1. ASSUME NEW j \in 1 .. L
        PROVE  EndAt(j)' = EndAt(j) /\ EndAt(j) \in Nat
    <3>1. frames'[j] = frames[j] /\ frames[j].start \in Nat /\ frames[j].len \in Int
      BY <1>2, Parts
    <3>2. Greatest(frames[j].len, 0) \in Nat
      BY <3>1 DEF Greatest
    <3>3. \A a, b, c \in Nat : a + b + c \in Nat
      OBVIOUS
    <3>4. EndAt(j) \in Nat
      BY <3>1, <3>2, <3>3, Constants DEF EndAt
    <3> QED
      BY <3>1, <3>4 DEF EndAt
  <2>2. ASSUME NEW j \in 1 .. Len(frames'), j = L + 1
        PROVE  EndAt(j)' = sent'
    <3>1. frames'[j].start = sent /\ frames'[j].len = n
      BY <1>1, <1>2, <2>2
    <3>2. EndAt(j)' = frames'[j].start + HeadLen + Greatest(frames'[j].len, 0)
      BY DEF EndAt
    <3> QED
      BY <1>1, <3>1, <3>2 DEF g
  <2> QED
    BY <2>1, <2>2
<1>7. Stream'
  <2>1. \A j \in 1 .. Len(frames') : j \in 1 .. L \/ j = L + 1
    BY <1>1, <1>2
  <2>2. ASSUME NEW j \in 1 .. Len(frames')
        PROVE  EndAt(j)' <= sent' /\ Boundary(EndAt(j))'
    <3>1. CASE j \in 1 .. L
      <4>1. EndAt(j)' = EndAt(j) /\ EndAt(j) \in Nat /\ EndAt(j) <= sent /\ Boundary(EndAt(j))
        BY <1>6, <3>1 DEF Stream
      <4>2. Boundary(EndAt(j))'
        <5> DEFINE e == EndAt(j)
        <5>1. e' = e
          BY <4>1
        <5>2. e = sent \/ \E k \in 1 .. L : frames[k].start = e
          BY <4>1 DEF Boundary
        <5> HIDE DEF e
        <5>3. e = sent' \/ \E k \in 1 .. Len(frames') : frames'[k].start = e
          <6>1. CASE e = sent
            BY <1>1, <1>2, <6>1, L + 1 \in 1 .. Len(frames')
          <6>2. CASE \E k \in 1 .. L : frames[k].start = e
            BY <1>1, <1>2, <6>2, \A k \in 1 .. L : k \in 1 .. Len(frames')
          <6> QED
            BY <5>2, <6>1, <6>2
        <5> QED
          BY <5>1, <5>3 DEF Boundary, e
      <4> QED
        BY <1>1, <1>3, <4>1, <4>2
    <3>2. CASE j = L + 1
      <4>1. EndAt(j)' = sent'
        BY <1>6, <3>2
      <4> QED
        BY <1>3, <4>1 DEF Boundary
    <3> QED
      BY <2>1, <3>1, <3>2
  <2>3. ASSUME NEW j \in 1 .. Len(frames'), NEW k \in 1 .. Len(frames'), j < k
        PROVE  EndAt(j)' <= frames'[k].start
    <3>1. j \in 1 .. L
      BY <1>1, <1>2, <2>3
    <3>2. CASE k = L + 1
      BY <1>1, <1>2, <1>6, <3>1, <3>2 DEF Stream
    <3>3. CASE k \in 1 .. L
      BY <1>2, <1>6, <2>3, <3>1, <3>3 DEF Stream
    <3> QED
      BY <2>1, <3>2, <3>3
  <2>4. Boundary(0)'
    BY <1>5 DEF Stream
  <2> QED
    BY <2>2, <2>3, <2>4 DEF Stream
<1>8. Ring' /\ Tested'
  BY <1>1 DEF Ring, Tested, SizeForRead, logic, net
<1>9. Standing'
  <2>1. consumed' = consumed /\ bodyLen' = bodyLen /\ consumed \in Nat
    BY <1>1, Parts DEF logic
  <2>2. bodyLen = 0 => Boundary(consumed)'
    <3>1. bodyLen = 0 => \/ consumed = sent \/ \E k \in 1 .. L : frames[k].start = consumed
      BY DEF Standing, Boundary
    <3>2. bodyLen = 0 => \E k \in 1 .. Len(frames') : frames'[k].start = consumed
      BY <1>1, <1>2, <3>1, L + 1 \in 1 .. Len(frames'), \A k \in 1 .. L : k \in 1 .. Len(frames')
    <3> QED
      BY <2>1, <3>2 DEF Boundary
  <2>3. bodyLen # 0 => \E j \in 1 .. Len(frames') :
           frames'[j].len = bodyLen /\ frames'[j].start + HeadLen = consumed
    BY <1>1, <1>2, \A k \in 1 .. L : k \in 1 .. Len(frames') DEF Standing
  <2> QED
    BY <2>1, <2>2, <2>3 DEF Standing
<1>10. Handled'
  <2>1. consumed' = consumed /\ handled' = handled
    BY <1>1 DEF logic
  <2>2. ASSUME NEW i \in 1 .. Len(handled)
        PROVE  \E j \in 1 .. Len(frames') :
                  (handled[i] = BodyOf(frames'[j]) /\ frames'[j].len > 0
                   /\ Acceptable(frames'[j]))
    <3>1. PICK j \in 1 .. L :
             handled[i] = BodyOf(frames[j]) /\ frames[j].len > 0 /\ Acceptable(frames[j])
      BY DEF Handled
    <3>2. j \in 1 .. Len(frames') /\ frames'[j] = frames[j]
      BY <1>1, <1>2
    <3> QED
      BY <3>1, <3>2
  <2>3. ASSUME NEW j \in 1 .. Len(frames'), frames'[j].len > 0, EndOf(frames'[j]) <= consumed
        PROVE  \E i \in 1 .. Len(handled) : handled[i] = BodyOf(frames'[j])
    <3>1. j # L + 1
      <4>1. j = L + 1 => EndOf(frames'[j]) = sent + HeadLen + n
        BY <1>1, <1>2 DEF EndOf
      <4>2. j = L + 1 => n > 0
        BY <1>1, <1>2, <2>3
      <4>3. consumed \in Nat /\ consumed <= sent
        BY Parts
      <4> QED
        BY ONLY <1>1, <2>3, <4>1, <4>2, <4>3, Constants
    <3>2. j \in 1 .. L /\ frames'[j] = frames[j]
      BY <1>1, <1>2, <3>1
    <3> QED
      BY <2>3, <3>2 DEF Handled
  <2> QED
    BY <2>1, <2>2, <2>3 DEF Handled
<1> QED
  BY <1>4, <1>7, <1>8, <1>9, <1>10

-----------------------------------------------------------------------------
(* The logic thread. *)
LEMMA VisitInv == ASSUME Inv, Visit PROVE Inv'
<1> USE DEF Inv, Visit, net, peer
<1>1. {invalid', logicRef', fin', reset', refused'} \subseteq BOOLEAN
  BY DEF TypeOK
<1>2. TypeOK' /\ Ring' /\ Tested'
  BY <1>1 DEF TypeOK, Ring, Tested, SizeForRead
<1> QED
  BY <1>2, SameStream

LEMMA LoopEndsInv == ASSUME Inv, LoopEnds PROVE Inv'
<1> USE DEF Inv, LoopEnds, net, peer
<1>1. TypeOK' /\ Ring' /\ Tested'
  BY DEF TypeOK, Ring, Tested, SizeForRead
<1> QED
  BY <1>1, SameStream

LEMMA LoopDatumInv == ASSUME Inv, LoopDatum PROVE Inv'
<1> USE DEF Inv, LoopDatum, net, peer
<1>1. SizeForRead \in Nat /\ SizeForRead' = SizeForRead
  BY Parts DEF SizeForRead
<1>2. TypeOK'
  BY <1>1 DEF TypeOK
<1>3. Ring' /\ Tested'
  BY <1>1 DEF Ring, Tested
<1> QED
  BY <1>2, <1>3, SameStream

LEMMA RefuseInv == ASSUME Inv, Refuse PROVE Inv'
<1> USE DEF Inv, Refuse, net, peer
<1>1. {invalid', logicRef', fin', reset', refused'} \subseteq BOOLEAN
  BY DEF TypeOK
<1>2. TypeOK' /\ Ring' /\ Tested'
  BY <1>1 DEF TypeOK, Ring, Tested, SizeForRead
<1> QED
  BY <1>2, SameStream

(* A length that passed the test fits into the ring, or its triple is      *)
(* above the largest integer.                                              *)
LEMMA TestedLength ==
  ASSUME Inv, ~TooBig(bodyLen), bodyLen # 0
  PROVE  /\ bodyLen \in Nat /\ capacity = Capacity
         /\ 3 * bodyLen < IntLimit => 3 * bodyLen <= 2 * Capacity /\ bodyLen < Capacity
<1>1. bodyLen \in Nat /\ ~ (Int32(3 * bodyLen) > 2 * capacity)
  BY Parts DEF Inv, TooBig
<1>2. capacity = Capacity
  <2>1. PICK j \in 1 .. Len(frames) : frames[j].start + HeadLen = consumed
    BY DEF Inv, Standing
  <2>2. received > 0
    <3>1. \A a, h, c, r \in Nat : a + h = c /\ h > 0 /\ c <= r => r > 0
      OBVIOUS
    <3>2. /\ frames[j].start \in Nat /\ consumed \in Nat /\ received \in Nat
          /\ consumed <= received
      BY Parts DEF Inv
    <3> QED
      BY ONLY <2>1, <3>1, <3>2, Constants
  <2> QED
    BY <2>2 DEF Inv, Ring
<1>3. ASSUME 3 * bodyLen < IntLimit
      PROVE  3 * bodyLen <= 2 * Capacity /\ bodyLen < Capacity
  <2>1. Int32(3 * bodyLen) = 3 * bodyLen
    BY <1>1, <1>3, Int32Exact
  <2> QED
    BY <1>1, <1>2, <2>1, Constants
<1> QED
  BY <1>1, <1>2, <1>3

LEMMA ParseLaterInv == ASSUME Inv, ParseLater PROVE Inv'
<1> USE DEF Inv, ParseLater, net, peer
<1>1. bodyLen < Capacity \/ 3 * bodyLen >= IntLimit
  <2>1. CASE bodyLen = 0
    BY <2>1, Constants
  <2>2. CASE bodyLen # 0
    BY <2>2, TestedLength, Constants
  <2> QED
    BY <2>1, <2>2
<1>2. TypeOK' /\ Ring'
  BY DEF TypeOK, Ring, SizeForRead
<1>3. Tested'
  BY <1>1 DEF Tested
<1> QED
  BY <1>2, <1>3, SameStream

LEMMA ParseBodyInv == ASSUME Inv, ParseBody PROVE Inv'
<1> USE DEF Inv, ParseBody, net, peer
<1>1. bodyLen \in Nat /\ bodyLen # 0 /\ bodyLen <= SizeForRead /\ 3 * bodyLen <= 2 * Capacity
  <2>1. bodyLen \in Nat /\ bodyLen # 0
    BY TestedLength
  <2>2. bodyLen <= SizeForRead /\ SizeForRead < Capacity /\ SizeForRead \in Int
    BY <2>1, Parts DEF BodyHere, Ring, SizeForRead
  <2>3. 3 * bodyLen < IntLimit
    BY <2>1, <2>2, Constants
  <2> QED
    BY <2>1, <2>2, <2>3, TestedLength
<1>2. TypeOK' /\ Ring' /\ SizeForRead' = SizeForRead
  BY DEF TypeOK, Ring, SizeForRead
<1>3. Tested'
  BY <1>1, <1>2 DEF Tested
<1> QED
  BY <1>2, <1>3, SameStream

(* Two packets that begin at one place are one. *)
LEMMA SamePacket ==
  ASSUME Inv, NEW j \in 1 .. Len(frames), NEW k \in 1 .. Len(frames)
  PROVE  /\ frames[j].start = frames[k].start => j = k
         /\ EndAt(j) <= frames[k].start \/ EndAt(k) <= frames[j].start \/ j = k
         /\ EndAt(j) \in Nat /\ frames[j].start + HeadLen <= EndAt(j)
         /\ frames[j].len > 0 => EndAt(j) = EndOf(frames[j])
<1>1. ASSUME NEW i \in 1 .. Len(frames)
      PROVE  /\ EndAt(i) \in Nat /\ frames[i].start + HeadLen <= EndAt(i)
             /\ frames[i].start < EndAt(i) /\ frames[i].start \in Nat
             /\ frames[i].len > 0 => EndAt(i) = EndOf(frames[i])
  <2>1. frames[i].start \in Nat /\ frames[i].len \in Int
    BY Parts DEF Inv
  <2>2. /\ Greatest(frames[i].len, 0) \in Nat
        /\ frames[i].len > 0 => Greatest(frames[i].len, 0) = frames[i].len
    BY <2>1 DEF Greatest
  <2>3. \A a, b, c \in Nat :
           a + b + c \in Nat /\ a + b <= a + b + c /\ (b > 0 => a < a + b + c)
    OBVIOUS
  <2> QED
    BY <2>1, <2>2, <2>3, Constants DEF EndAt, EndOf
<1>2. EndAt(j) <= frames[k].start \/ EndAt(k) <= frames[j].start \/ j = k
  BY DEF Inv, Stream
<1> QED
  BY <1>1, <1>2

LEMMA ParseHeadInv == ASSUME Inv, ParseHead PROVE Inv'
<1>1. CASE bodyLen = 0 /\ HeadHere(seen)
  <2>1. /\ bodyLen' = LengthAt(consumed) /\ consumed' = consumed + HeadLen
        /\ lPc' = "check" /\ seen' = 0 /\ lPc = "head"
        /\ UNCHANGED <<logicRef, refused, handled, net, peer, invalid>>
    BY <1>1 DEF ParseHead, HeadTaken
  <2>2. HeadLen <= SizeForRead /\ consumed' <= received /\ consumed' \in Nat
    BY <1>1, <2>1, Parts, Constants DEF Inv, Tested, HeadHere, SizeForRead
  <2>3. PICK c \in 1 .. Len(frames) : frames[c].start = consumed
    BY <1>1, <2>1, <2>2, Parts, Constants DEF Inv, Standing, Boundary
  <2>4. bodyLen' = frames[c].len /\ bodyLen' \in Lengths
    <3> DEFINE d == CHOOSE i \in 1 .. Len(frames) : frames[i].start = consumed
    <3>1. d \in 1 .. Len(frames) /\ frames[d].start = consumed
      BY <2>3
    <3>2. bodyLen' = frames[d].len
      BY <2>1, <2>3 DEF LengthAt
    <3> HIDE DEF d
    <3>3. d = c
      BY <2>3, <3>1, SamePacket
    <3> QED
      BY <3>2, <3>3, Parts DEF Inv
  <2>5. TypeOK'
    BY <2>1, <2>2, <2>4, Parts DEF Inv, TypeOK, net, peer
  <2>6. Ring' /\ Tested'
    <3>1. /\ received \in Nat /\ consumed \in Nat /\ received' = received
          /\ capacity' = capacity /\ Ring
      BY <2>1, Parts DEF Inv, net
    <3>2. SizeForRead \in Int /\ SizeForRead' <= SizeForRead /\ SizeForRead' \in Int
      BY ONLY <2>1, <3>1, Constants DEF SizeForRead
    <3>3. Ring'
      BY ONLY <3>1, <3>2, Constants DEF Ring
    <3> QED
      BY <2>1, <3>3 DEF Tested
  <2>7. Stream'
    BY <2>1, SameStream DEF Inv, peer
  <2>8. Standing'
    <3>1. CASE bodyLen' # 0
      BY <2>1, <2>3, <2>4, <3>1 DEF Standing, peer
    <3>2. CASE bodyLen' = 0
      <4>1. EndAt(c) = consumed' /\ Boundary(EndAt(c))
        <5>1. frames[c].len = 0 /\ Greatest(frames[c].len, 0) = 0
          BY <2>4, <3>2 DEF Greatest
        <5>2. EndAt(c) = consumed'
          BY <2>1, <2>3, <5>1, Parts, Constants DEF Inv, EndAt
        <5> QED
          BY <5>2 DEF Inv, Stream
      <4> QED
        BY <2>1, <3>2, <4>1 DEF Standing, Boundary, peer
    <3> QED
      BY <3>1, <3>2
  <2>9. Handled'
    <3>1. \A j \in 1 .. Len(frames) :
             frames[j].len > 0 /\ EndOf(frames[j]) <= consumed' => EndOf(frames[j]) <= consumed
      <4> SUFFICES ASSUME NEW j \in 1 .. Len(frames), frames[j].len > 0,
                          EndOf(frames[j]) <= consumed'
                   PROVE  EndOf(frames[j]) <= consumed
        OBVIOUS
      <4>1. /\ EndOf(frames[j]) = frames[j].start + HeadLen + frames[j].len
            /\ frames[j].start \in Nat /\ frames[j].len \in Int /\ consumed \in Nat
            /\ consumed' = consumed + HeadLen /\ HeadLen \in Nat
        BY <2>1, Parts, Constants DEF Inv, EndOf
      <4>2. j # c
        BY <2>3, <4>1
      <4>3. EndAt(c) \in Nat /\ frames[c].start + HeadLen <= EndAt(c)
            /\ (EndAt(c) <= frames[j].start \/ EndAt(j) <= frames[c].start \/ j = c)
            /\ EndAt(j) = EndOf(frames[j])
        BY SamePacket
      <4>4. ~ (EndAt(c) <= frames[j].start)
        <5>1. \A a, b, e, n, x \in Int, h \in Nat :
                 /\ a = b + h + n /\ n > 0 /\ a <= x + h /\ x + h <= e => ~ (e <= b)
          OBVIOUS
        <5> QED
          BY ONLY <2>3, <4>1, <4>3, <5>1, frames[j].len > 0, EndOf(frames[j]) <= consumed'
      <4> QED
        BY <2>3, <4>2, <4>3, <4>4
    <3>2. \A i \in 1 .. Len(handled) : handled[i].start < consumed => handled[i].start < consumed'
      <4>1. \A a, b, h \in Nat : a < b => a < b + h
        OBVIOUS
      <4>2. consumed \in Nat /\ \A i \in 1 .. Len(handled) : handled[i].start \in Nat
        BY Parts DEF Inv
      <4> QED
        BY ONLY <2>1, <4>1, <4>2, Constants
    <3> QED
      BY <2>1, <3>1, <3>2 DEF Inv, Handled, peer
  <2> QED
    BY <2>5, <2>6, <2>7, <2>8, <2>9 DEF Inv
<1>2. CASE ~ (bodyLen = 0 /\ HeadHere(seen))
  <2>1. /\ UNCHANGED <<bodyLen, consumed, logicRef, refused, handled, net, peer, invalid>>
        /\ lPc' = "check" /\ seen' = 0
    BY <1>2 DEF ParseHead
  <2>2. TypeOK' /\ Ring' /\ Tested'
    BY <2>1 DEF Inv, TypeOK, Ring, Tested, SizeForRead, net, peer
  <2> QED
    BY <2>1, <2>2, SameStream DEF Inv, peer
<1> QED
  BY <1>1, <1>2

LEMMA HandlePacketInv == ASSUME Inv, HandlePacket PROVE Inv'
<1> DEFINE b == [start |-> consumed, len |-> bodyLen]
           H == Len(handled)
<1>1. /\ bodyLen \in Nat /\ bodyLen > 0 /\ 3 * bodyLen <= 2 * Capacity
      /\ bodyLen <= received - consumed /\ Least(bodyLen, SizeForRead) = bodyLen
  BY Parts DEF HandlePacket, Inv, Tested, SizeForRead, Least
<1>2. /\ handled' = Append(handled, b) /\ consumed' = consumed + bodyLen
      /\ bodyLen' = 0 /\ lPc' = "loop" /\ lPc = "body"
      /\ UNCHANGED <<seen, logicRef, refused, net, peer, invalid>>
  BY <1>1 DEF HandlePacket
<1>3. /\ b \in Body /\ b.start = consumed /\ H \in Nat
      /\ consumed \in Nat /\ consumed' \in Nat /\ consumed < consumed' /\ consumed' <= received
  BY <1>1, <1>2, Parts DEF Inv, Body
<1>4. /\ handled' \in Seq(Body) /\ Len(handled') = H + 1
      /\ \A i \in 1 .. H : handled'[i] = handled[i]
      /\ handled'[H + 1] = b
  <2> HIDE DEF b
  <2> QED
    BY <1>2, <1>3, Parts, AppendProperties DEF Inv
<1>5. PICK c \in 1 .. Len(frames) :
         frames[c].len = bodyLen /\ frames[c].start + HeadLen = consumed
  BY <1>1 DEF Inv, Standing
<1>6. b = BodyOf(frames[c]) /\ frames[c].len > 0 /\ Acceptable(frames[c])
  BY <1>1, <1>5 DEF BodyOf, Acceptable
<1>7. EndAt(c) = consumed' /\ EndOf(frames[c]) = consumed'
  <2>1. Greatest(frames[c].len, 0) = bodyLen
    BY <1>1, <1>5 DEF Greatest
  <2> QED
    BY <1>2, <1>5, <2>1 DEF EndAt, EndOf
<1> HIDE DEF b
<1>8. TypeOK'
  BY <1>2, <1>3, <1>4, Parts DEF Inv, TypeOK, Body, net, peer
<1>9. Ring'
  <2>1. /\ received' = received /\ capacity' = capacity /\ received \in Nat
        /\ received - consumed < Capacity /\ (received > 0 => capacity = Capacity)
        /\ Capacity \in Nat
    BY <1>2, Parts, Constants DEF Inv, Ring, SizeForRead, net
  <2>2. consumed \in Nat /\ consumed' \in Nat /\ consumed < consumed'
    BY <1>3
  <2>3. received' - consumed' < Capacity
    <3>1. \A x, y, z, w \in Nat : x - y < z /\ y < w => x - w < z
      OBVIOUS
    <3> QED
      BY ONLY <2>1, <2>2, <3>1
  <2> QED
    BY ONLY <2>1, <2>3 DEF Ring, SizeForRead
<1>10. Tested'
  BY <1>2, Constants DEF Inv, Tested
<1>11. Stream'
  BY <1>2, SameStream DEF Inv, peer
<1>12. Standing'
  BY <1>2, <1>7 DEF Inv, Stream, Standing, Boundary, peer
<1>13. Handled'
  <2>1. \A i \in 1 .. Len(handled') : i \in 1 .. H \/ i = H + 1
    BY <1>3, <1>4
  <2>2. ASSUME NEW i \in 1 .. Len(handled')
        PROVE  /\ handled'[i].start < consumed'
               /\ \E j \in 1 .. Len(frames) :
                     handled'[i] = BodyOf(frames[j]) /\ frames[j].len > 0 /\ Acceptable(frames[j])
    <3>1. CASE i \in 1 .. H
      <4>1. handled'[i] = handled[i] /\ handled[i].start < consumed /\ handled[i].start \in Nat
        BY <1>4, <3>1, Parts DEF Inv, Handled
      <4> QED
        BY <1>3, <3>1, <4>1 DEF Inv, Handled
    <3>2. CASE i = H + 1
      BY <1>3, <1>4, <1>6, <3>2
    <3> QED
      BY <2>1, <3>1, <3>2
  <2>3. ASSUME NEW i \in 1 .. Len(handled') - 1
        PROVE  handled'[i].start < handled'[i + 1].start
    <3>1. i \in 1 .. H /\ handled'[i] = handled[i]
      BY <1>3, <1>4
    <3>2. CASE i = H
      BY <1>3, <1>4, <3>1, <3>2 DEF Inv, Handled
    <3>3. CASE i # H
      <4>1. i \in 1 .. H - 1 /\ i + 1 \in 1 .. H
        BY <1>3, <3>1, <3>3
      <4> QED
        BY <1>4, <3>1, <4>1 DEF Inv, Handled
    <3> QED
      BY <3>2, <3>3
  <2>4. ASSUME NEW j \in 1 .. Len(frames), frames[j].len > 0, EndOf(frames[j]) <= consumed'
        PROVE  \E i \in 1 .. Len(handled') : handled'[i] = BodyOf(frames[j])
    <3>1. CASE j = c
      BY <1>3, <1>4, <1>6, <3>1, H + 1 \in 1 .. Len(handled')
    <3>2. CASE j # c
      <4>1. EndAt(j) = EndOf(frames[j]) /\ EndAt(j) \in Nat /\ frames[j].start < EndAt(j)
            /\ frames[j].start \in Nat
        <5>1. /\ EndAt(j) = EndOf(frames[j]) /\ EndAt(j) \in Nat
              /\ frames[j].start + HeadLen <= EndAt(j) /\ frames[j].start \in Nat
          BY <2>4, SamePacket, Parts DEF Inv
        <5>2. \A a, h, e \in Nat : h > 0 /\ a + h <= e => a < e
          OBVIOUS
        <5> QED
          BY ONLY <5>1, <5>2, Constants
      <4>2. EndAt(j) <= frames[c].start
        BY <1>3, <1>7, <2>4, <3>2, <4>1, SamePacket
      <4>3. EndOf(frames[j]) <= consumed
        <5>1. frames[c].start \in Nat
          BY Parts DEF Inv
        <5>2. \A e, a, h \in Nat : e <= a => e <= a + h
          OBVIOUS
        <5> QED
          BY ONLY <1>5, <4>1, <4>2, <5>1, <5>2, Constants
      <4>4. PICK i \in 1 .. H : handled[i] = BodyOf(frames[j])
        BY <2>4, <4>3 DEF Inv, Handled
      <4> QED
        BY <1>3, <1>4, <4>4, i \in 1 .. Len(handled')
    <3> QED
      BY <3>1, <3>2
  <2> QED
    BY <1>2, <2>2, <2>3, <2>4 DEF Handled, peer
<1> QED
  BY <1>8, <1>9, <1>10, <1>11, <1>12, <1>13 DEF Inv

-----------------------------------------------------------------------------
(* Every step preserves the invariant. *)
LEMMA NextInv == Inv /\ [Next]_vars => Inv'
<1> SUFFICES ASSUME Inv, [Next]_vars PROVE Inv'
  OBVIOUS
<1>1. CASE UNCHANGED vars
  <2>1. TypeOK' /\ Ring' /\ Tested'
    BY <1>1 DEF Inv, vars, logic, net, peer, TypeOK, Ring, Tested, SizeForRead
  <2> QED
    BY <1>1, <2>1, SameStream DEF Inv, vars, logic, net, peer
<1>2. CASE NetStep
  BY <1>2, NetCheckInv, RecvNothingInv, RecvEndsInv, RecvBytesInv DEF NetStep
<1>3. CASE LogicStep
  BY <1>3, VisitInv, LoopEndsInv, LoopDatumInv, ParseHeadInv, RefuseInv, ParseLaterInv,
     ParseBodyInv, HandlePacketInv DEF LogicStep
<1> QED
  BY <1>1, <1>2, <1>3, PeerSendsInv, PeerClosesInv, PeerResetsInv DEF Next

(* The inductive invariant holds in every state. *)
THEOREM Invariance == Spec => []Inv
<1> QED
  BY InitInv, NextInv, PTL DEF Spec

(* The variables keep their types: DoMsgParse never releases more bytes    *)
(* from m_recvBuf than Recv has stored in it.                              *)
THEOREM TypeCorrect == Spec => []TypeOK
<1> QED
  BY Invariance, PTL DEF Inv

(* The assert of DoMsgParse holds, and _HandlePacket gets the bodies the   *)
(* peer sent, whole, in order, once each and none left out, however Recv   *)
(* was handed the stream in pieces.                                        *)
THEOREM InStep == Spec => []BodiesInOrder
<1>1. Inv => BodiesInOrder
  <2> SUFFICES ASSUME Inv PROVE BodiesInOrder
    OBVIOUS
  <2>1. StandsAtHead
    <3>1. CASE bodyLen = 0
      BY <3>1 DEF Inv, Standing, Boundary, StandsAtHead
    <3>2. CASE bodyLen # 0
      <4>1. PICK j \in 1 .. Len(frames) :
               frames[j].len = bodyLen /\ frames[j].start + HeadLen = consumed
        BY <3>2 DEF Inv, Standing
      <4>2. frames[j].start = consumed - HeadLen
        <5>1. frames[j].start \in Nat
          BY Parts DEF Inv
        <5>2. \A a, h \in Nat : a = (a + h) - h
          OBVIOUS
        <5> QED
          BY ONLY <4>1, <5>1, <5>2, Constants
      <4> QED
        BY <3>2, <4>1, <4>2 DEF StandsAtHead
    <3> QED
      BY <3>1, <3>2
  <2>2. BodyIsWhole /\ WaitsForWhatFits
    BY Parts DEF Inv, Tested, BodyIsWhole, WaitsForWhatFits, SizeForRead
  <2>3. \A j \in 1 .. Len(frames) : Parsed(j) => EndOf(frames[j]) <= consumed
    <3> TAKE j \in 1 .. Len(frames)
    <3>1. EndOf(frames[j]) \in Int /\ consumed \in Int
      <4>1. frames[j].start \in Int /\ frames[j].len \in Int /\ consumed \in Int
        BY Parts DEF Inv
      <4>2. \A a, b, c \in Int : a + b + c \in Int
        OBVIOUS
      <4> QED
        BY <4>1, <4>2, Constants DEF EndOf
    <3> QED
      BY <3>1 DEF Parsed
  <2> QED
    BY <2>1, <2>2, <2>3 DEF Inv, Handled, BodiesInOrder
<1> QED
  BY <1>1, Invariance, PTL

-----------------------------------------------------------------------------
(* n bytes of the stream, from the one with number a. *)
Segment(a, n) == [i \in 1 .. n |-> a + i - 1]

(* The ring receives at its end, *)
LEMMA Longer ==
  ASSUME NEW a \in Nat, NEW n \in Nat, NEW m \in Nat
  PROVE  Segment(a, n + m) = Segment(a, n) \o Segment(a + n, m)
<1>1. /\ Segment(a, n) \in Seq(Int) /\ Len(Segment(a, n)) = n
      /\ Segment(a + n, m) \in Seq(Int) /\ Len(Segment(a + n, m)) = m
  BY DEF Segment
<1> QED
  BY <1>1 DEF Segment

(* and releases at its front. *)
LEMMA Shorter ==
  ASSUME NEW a \in Nat, NEW n \in Nat, NEW k \in 0 .. n
  PROVE  Segment(a + k, n - k) = SubSeq(Segment(a, n), k + 1, Len(Segment(a, n)))
<1>1. Segment(a, n) \in Seq(Int) /\ Len(Segment(a, n)) = n
  BY DEF Segment
<1> QED
  BY <1>1 DEF Segment

(* m_recvBuf is used as the queue that CircularBuffer implements: what     *)
(* Recv stores fits, what DoMsgParse releases is there, and nothing else   *)
(* touches it, for a ring, heads and bodies of any size.                   *)
THEOREM ReceivesFifo == Spec => RingIsFifo
<1>1. Init => RingFifo!Init
  BY DEF Init, RingFifo!Init, Held, SizeForRead
<1>2. Inv /\ Inv' /\ [Next]_vars => [RingFifo!Next]_(RingFifo!vars)
  <2> SUFFICES ASSUME Inv, Inv', [Next]_vars
               PROVE  [RingFifo!Next]_(RingFifo!vars)
    OBVIOUS
  <2>1. /\ received \in Nat /\ consumed \in Nat /\ consumed <= received
        /\ SizeForRead \in Nat /\ SizeForRead < Capacity /\ bodyLen \in Int
    BY Parts DEF Inv, Ring, SizeForRead
  <2>2. received' \in Nat /\ consumed' \in Nat /\ consumed' <= received'
    BY Parts DEF Inv, TypeOK
  <2>3. Held = Segment(consumed, SizeForRead) /\ Len(Held) = SizeForRead
    BY <2>1 DEF Held, Segment
  <2>4. Held' = Segment(consumed', SizeForRead')
    BY DEF Held, Segment
  <2>5. ASSUME UNCHANGED <<received, consumed>> PROVE UNCHANGED RingFifo!vars
    BY <2>5 DEF RingFifo!vars, Held, SizeForRead
  <2>6. ASSUME NEW k \in 1 .. Capacity - 1, RecvBytes(k) PROVE RingFifo!Next
    <3>1. /\ k <= Capacity - 1 - SizeForRead
          /\ received' = received + k /\ consumed' = consumed
      BY <2>1, <2>6, Parts, Constants DEF RecvBytes, logic, Least, Room, Inv
    <3>2. SizeForRead' = SizeForRead + k /\ consumed + SizeForRead = received
      BY <2>1, <3>1 DEF SizeForRead
    <3>3. Segment(consumed, SizeForRead + k)
            = Segment(consumed, SizeForRead) \o Segment(consumed + SizeForRead, k)
      <4>1. k \in Nat
        BY Constants
      <4> QED
        BY ONLY <2>1, <4>1, Longer
    <3>4. Held' = Held \o Segment(received, k)
      BY <2>3, <2>4, <3>1, <3>2, <3>3
    <3>5. SizeForRead + k <= Capacity - 1
      BY <2>1, <3>1, Constants
    <3> QED
      BY <2>3, <3>1, <3>4, <3>5 DEF RingFifo!Next, RingFifo!Put, Segment
  <2>7. ASSUME NEW k \in 1 .. SizeForRead, consumed' = consumed + k, received' = received
        PROVE  RingFifo!Next
    <3>1. SizeForRead' = SizeForRead - k /\ k \in 0 .. SizeForRead
      BY <2>1, <2>7 DEF SizeForRead
    <3>2. Segment(consumed + k, SizeForRead - k)
            = SubSeq(Segment(consumed, SizeForRead), k + 1, Len(Segment(consumed, SizeForRead)))
      BY <2>1, <3>1, Shorter
    <3>3. Held' = SubSeq(Held, k + 1, Len(Held))
      BY <2>3, <2>4, <2>7, <3>1, <3>2
    <3>4. k \in 1 .. Capacity - 1 /\ k <= Len(Held)
      BY <2>1, <2>3, Constants
    <3>5. RingFifo!Take(k)
      BY <2>7, <3>3, <3>4 DEF RingFifo!Take
    <3> QED
      BY <3>4, <3>5 DEF RingFifo!Next
  <2>8. CASE UNCHANGED vars
    BY <2>5, <2>8 DEF vars, logic, net
  <2>9. CASE NetStep
    BY <2>5, <2>6, <2>9 DEF NetStep, NetCheck, RecvNothing, RecvEnds, logic
  <2>10. CASE ParseHead
    <3>1. CASE bodyLen = 0 /\ HeadHere(seen)
      <4>1. HeadLen \in 1 .. SizeForRead
        BY <2>1, <2>10, <3>1, Constants DEF ParseHead, HeadHere, Inv, Tested
      <4> QED
        BY <2>7, <2>10, <3>1, <4>1 DEF ParseHead, HeadTaken, net
    <3>2. CASE ~(bodyLen = 0 /\ HeadHere(seen))
      BY <2>5, <2>10, <3>2 DEF ParseHead, net
    <3> QED
      BY <3>1, <3>2
  <2>11. CASE HandlePacket
    <3>1. bodyLen \in 1 .. SizeForRead
      BY <2>1, <2>11 DEF HandlePacket, Inv, Tested
    <3> QED
      BY <2>7, <2>11, <3>1 DEF HandlePacket, net
  <2>12. CASE Visit \/ LoopEnds \/ LoopDatum \/ Refuse \/ ParseLater \/ ParseBody
    BY <2>5, <2>12 DEF Visit, LoopEnds, LoopDatum, Refuse, ParseLater, ParseBody, net
  <2>13. CASE (\E n \in Lengths : PeerSends(n)) \/ PeerCloses \/ PeerResets
    BY <2>5, <2>13 DEF PeerSends, PeerCloses, PeerResets, logic, net
  <2> QED
    BY <2>8, <2>9, <2>10, <2>11, <2>12, <2>13 DEF Next, LogicStep
<1> QED
  BY <1>1, <1>2, Invariance, PTL DEF Spec, RingIsFifo, RingFifo!Spec
=============================================================================
