--------------------------- MODULE SendPathProofs ---------------------------
(***************************************************************************)
(* Proofs about SendPath for a ring, a kernel buffer and packets of any    *)
(* size, and any number of packets: the stream of bytes stays in order     *)
(* between the thread that sends packets and the one that writes them out. *)
(***************************************************************************)
EXTENDS SendPath, SequenceTheorems, TLAPS

(* Where the i-th packet of the backlog begins in the stream; behind the   *)
(* last one, where the next accepted packet will.                          *)
Place(i) == IF i <= Len(sendList) THEN sendList[i].start ELSE accepted

(* The stream, by wire, ring and backlog. *)
Stream ==
    /\ \A i \in 1 .. Len(wire) : wire[i] = i - 1
    /\ \A i \in 1 .. Len(sendBuf) : sendBuf[i] = Len(wire) + i - 1
    /\ Place(1) = Len(wire) + Len(sendBuf)
    /\ \A i \in 1 .. Len(sendList) : Place(i + 1) = Place(i) + sendList[i].len

(* The network thread writes what GetDatum returned a while ago: the ring  *)
(* has only grown since.                                                   *)
Datum ==
    /\ nPc \in {"send", "write"} => datum \in 1 .. Len(sendBuf)
    /\ nPc \notin {"send", "write"} => datum = 0

(* The destructor runs when nobody else is inside. *)
Refs ==
    /\ netRef <=> nPc # "gone"
    /\ lPc = "push" => logicRef /\ packet \in Sizes
    /\ dPc # "live" => ~netRef /\ ~logicRef
    /\ IF dPc = "sync" THEN offset < Len(sendBuf) ELSE offset = 0

(* Nothing is stored before the ring is allocated. *)
Allocated == capacity = 0 => sendBuf = <<>> /\ sendList = <<>>

(* The inductive invariant. *)
Inv == TypeOK /\ (dPc = "live" => Stream) /\ Datum /\ Refs /\ Allocated

-----------------------------------------------------------------------------
(* PushData: the ring grows at its end. *)
LEMMA Pushed ==
  ASSUME NEW s \in Seq(Nat), NEW start \in Nat, NEW n \in Nat
  PROVE  /\ s \o Bytes(start, n) \in Seq(Nat)
         /\ Len(s \o Bytes(start, n)) = Len(s) + n
         /\ \A i \in 1 .. Len(s) : (s \o Bytes(start, n))[i] = s[i]
         /\ \A i \in Len(s) + 1 .. Len(s) + n :
               (s \o Bytes(start, n))[i] = start + (i - Len(s)) - 1
<1> DEFINE b == Bytes(start, n)
<1>1. b \in Seq(Nat) /\ Len(b) = n /\ \A i \in 1 .. n : b[i] = start + i - 1
  BY DEF Bytes
<1> HIDE DEF b
<1>2. Len(s) \in Nat
  OBVIOUS
<1>3. /\ s \o b \in Seq(Nat) /\ Len(s \o b) = Len(s) + n
      /\ \A i \in 1 .. Len(s) + n : (s \o b)[i] = IF i <= Len(s) THEN s[i] ELSE b[i - Len(s)]
  BY <1>1, ConcatProperties
<1>4. \A i \in 1 .. Len(s) : (s \o b)[i] = s[i]
  BY <1>2, <1>3
<1>5. \A i \in Len(s) + 1 .. Len(s) + n : (s \o b)[i] = start + (i - Len(s)) - 1
  BY <1>1, <1>2, <1>3
<1> QED
  BY <1>3, <1>4, <1>5 DEF b

(* _Send and AdjustReadPtr: k bytes go from the front of the ring to the   *)
(* end of the wire.                                                        *)
LEMMA Moved ==
  ASSUME NEW w \in Seq(Nat), NEW s \in Seq(Nat), NEW k \in 0 .. Len(s)
  PROVE  /\ w \o SubSeq(s, 1, k) \in Seq(Nat)
         /\ Len(w \o SubSeq(s, 1, k)) = Len(w) + k
         /\ \A i \in 1 .. Len(w) : (w \o SubSeq(s, 1, k))[i] = w[i]
         /\ \A i \in Len(w) + 1 .. Len(w) + k : (w \o SubSeq(s, 1, k))[i] = s[i - Len(w)]
         /\ Drop(s, k) \in Seq(Nat)
         /\ Len(Drop(s, k)) = Len(s) - k
         /\ \A i \in 1 .. Len(s) - k : Drop(s, k)[i] = s[k + i]
<1>1. Len(s) \in Nat /\ Len(w) \in Nat /\ \A i \in 1 .. Len(s) : s[i] \in Nat
  BY ElementOfSeq
<1> DEFINE a == SubSeq(s, 1, k)
           d == SubSeq(s, k + 1, Len(s))
<1>2. a \in Seq(Nat) /\ Len(a) = k /\ \A i \in 1 .. k : a[i] = s[i]
  BY <1>1, SubSeqProperties
<1>3. d \in Seq(Nat) /\ Len(d) = Len(s) - k /\ \A i \in 1 .. Len(s) - k : d[i] = s[k + i]
  BY <1>1, SubSeqProperties
<1> HIDE DEF a, d
<1>4. /\ w \o a \in Seq(Nat) /\ Len(w \o a) = Len(w) + k
      /\ \A i \in 1 .. Len(w) + k : (w \o a)[i] = IF i <= Len(w) THEN w[i] ELSE a[i - Len(w)]
  BY <1>2, ConcatProperties
<1>5. ASSUME NEW i \in Len(w) + 1 .. Len(w) + k
      PROVE  (w \o a)[i] = s[i - Len(w)]
  <2>1. i \in 1 .. Len(w) + k /\ ~ (i <= Len(w)) /\ i - Len(w) \in 1 .. k
    BY ONLY <1>1, k \in 0 .. Len(s), i \in Len(w) + 1 .. Len(w) + k
  <2>2. (w \o a)[i] = a[i - Len(w)]
    BY ONLY <1>4, <2>1
  <2> QED
    BY ONLY <1>2, <2>1, <2>2
<1>6. \A i \in 1 .. Len(w) : (w \o a)[i] = w[i]
  BY <1>1, <1>4
<1> QED
  BY <1>3, <1>4, <1>5, <1>6 DEF a, d, Drop

(* The messages of the backlog. *)
Msgs == [start : Nat, len : Nat]

LEMMA InitInv == Init => Inv
<1> SUFFICES ASSUME Init PROVE Inv
  OBVIOUS
<1>1. /\ sendBuf \in Seq(Nat) /\ wire \in Seq(Nat) /\ sendList \in Seq([start : Nat, len : Nat])
      /\ Len(sendBuf) = 0 /\ Len(wire) = 0 /\ Len(sendList) = 0
  BY EmptySeq DEF Init
<1>2. TypeOK
  <2>1. {shouldEpollOut, epollOut, invalid, netRef, logicRef, stopped, reset,
         aborted} \subseteq BOOLEAN
    BY DEF Init
  <2> QED
    BY <1>1, <2>1, SendAssumption DEF Init, TypeOK
<1> QED
  BY <1>1, <1>2 DEF Init, Inv, Stream, Place, Datum, Refs, Allocated

-----------------------------------------------------------------------------
(* What every action on the stream may assume of its parts. *)
LEMMA Parts ==
  ASSUME TypeOK
  PROVE  /\ wire \in Seq(Nat) /\ sendBuf \in Seq(Nat) /\ sendList \in Seq(Msgs)
         /\ Len(wire) \in Nat /\ Len(sendBuf) \in Nat /\ Len(sendList) \in Nat
         /\ \A i \in 1 .. Len(sendList) : sendList[i] \in Msgs /\ sendList[i].start \in Nat
                                          /\ sendList[i].len \in Nat
         /\ sendList = <<>> <=> Len(sendList) = 0
         /\ sendBuf = <<>> <=> Len(sendBuf) = 0
<1>1. wire \in Seq(Nat) /\ sendBuf \in Seq(Nat) /\ sendList \in Seq(Msgs)
  BY DEF TypeOK, Msgs
<1>2. \A i \in 1 .. Len(sendList) : sendList[i] \in Msgs
  BY <1>1, ElementOfSeq
<1>3. \A m \in Msgs : m.start \in Nat /\ m.len \in Nat
  BY DEF Msgs
<1>4. sendList = <<>> <=> Len(sendList) = 0
  BY <1>1, EmptySeq
<1>5. sendBuf = <<>> <=> Len(sendBuf) = 0
  BY <1>1, EmptySeq
<1> QED
  BY <1>1, <1>2, <1>3, <1>4, <1>5

(* A step that leaves wire, ring and backlog alone leaves the stream. *)
LEMMA SameStream ==
  ASSUME UNCHANGED <<wire, sendBuf, sendList, accepted>>
  PROVE  Stream' <=> Stream
  BY DEF Stream, Place

LEMMA SendPacketInv ==
  ASSUME Inv, NEW n \in Sizes, SendPacket(n)
  PROVE  Inv'
<1> USE DEF Inv, SendPacket, logic, net, destroy, world
<1>1. TypeOK'
  BY SendAssumption DEF TypeOK
<1>2. dPc' = "live" => Stream'
  BY SameStream
<1> QED
  BY <1>1, <1>2 DEF TypeOK, Datum, Refs, Allocated

LEMMA FlushFrontInv ==
  ASSUME Inv, FlushFront
  PROVE  Inv'
<1> USE DEF Inv
<1> DEFINE st == Front.start
           n  == Front.len
<1>1. /\ st \in Nat /\ n \in Nat /\ Len(sendList) > 0
      /\ Front = sendList[1] /\ n + 1 <= capacity - Len(sendBuf)
  BY Parts DEF FlushFront, Front, Fits
<1>2. /\ sendBuf' = sendBuf \o Bytes(st, n) /\ sendList' = Tail(sendList)
      /\ garbled' = garbled \/ garbled' = garbled \cup (st .. st + n - 1)
      /\ aborted' \in BOOLEAN
      /\ UNCHANGED <<lPc, packet, calls, accepted, capacity, net, destroy, world,
                     invalid, logicRef, stopped, wire>>
      /\ lPc = "push"
  BY DEF FlushFront
<1> HIDE DEF st, n
<1>3. /\ sendBuf' \in Seq(Nat) /\ Len(sendBuf') = Len(sendBuf) + n
      /\ \A i \in 1 .. Len(sendBuf) : sendBuf'[i] = sendBuf[i]
      /\ \A i \in Len(sendBuf) + 1 .. Len(sendBuf) + n :
            sendBuf'[i] = st + (i - Len(sendBuf)) - 1
  <2>1. sendBuf \in Seq(Nat) /\ sendBuf' = sendBuf \o Bytes(st, n) /\ st \in Nat /\ n \in Nat
    BY <1>1, <1>2, Parts
  <2> QED
    BY ONLY <2>1, Pushed
<1>4. /\ sendList' \in Seq(Msgs) /\ Len(sendList') = Len(sendList) - 1
      /\ \A i \in 1 .. Len(sendList') : sendList'[i] = sendList[i + 1]
  BY <1>1, <1>2, Parts, HeadTailProperties
<1>5. TypeOK'
  <2>1. capacity = Capacity /\ Len(sendBuf') < Capacity
    BY <1>1, <1>3, SendAssumption, Parts DEF TypeOK
  <2>2. garbled' \subseteq Nat
    <3>1. garbled \subseteq Nat /\ (st .. st + n - 1) \subseteq Nat
      <4>1. \A a, b \in Nat : (a .. a + b - 1) \subseteq Nat
        OBVIOUS
      <4> QED
        BY <1>1, <4>1 DEF TypeOK
    <3> QED
      BY <1>2, <3>1
  <2> QED
    BY <1>2, <1>3, <1>4, <2>1, <2>2 DEF TypeOK, net, destroy, world, Msgs
<1>6. ASSUME Stream PROVE Stream'
  <2>1. st = Len(wire) + Len(sendBuf)
    BY <1>1, <1>6 DEF Stream, Place, st
  <2>2. \A i \in 1 .. Len(sendBuf') : sendBuf'[i] = Len(wire) + i - 1
    <3>1. /\ \A i \in 1 .. Len(sendBuf) : sendBuf[i] = Len(wire) + i - 1
          /\ Len(wire) \in Nat /\ Len(sendBuf) \in Nat
      BY <1>6, Parts DEF Stream
    <3> TAKE i \in 1 .. Len(sendBuf')
    <3>2. CASE i \in 1 .. Len(sendBuf)
      BY <1>3, <3>1, <3>2
    <3>3. CASE i \in Len(sendBuf) + 1 .. Len(sendBuf) + n
      <4>1. sendBuf'[i] = st + (i - Len(sendBuf)) - 1
        BY <1>3, <3>3
      <4> QED
        BY <2>1, <3>1, <3>3, <4>1
    <3> QED
      BY <1>1, <1>3, <3>1, <3>2, <3>3
  <2>3. \A i \in 1 .. Len(sendList') + 1 : Place(i)' = Place(i + 1)
    BY <1>2, <1>4, Parts DEF Place
  <2>4. Place(2) = st + n
    BY <1>1, <1>6, Parts DEF Stream, Place, st, n
  <2>5. Place(1)' = Len(wire') + Len(sendBuf')
    BY <1>1, <1>2, <1>3, <1>4, <2>1, <2>3, <2>4, Parts
  <2>6. \A i \in 1 .. Len(sendList') : Place(i + 1)' = Place(i)' + sendList'[i].len
    <3> TAKE i \in 1 .. Len(sendList')
    <3>1. i + 1 \in 1 .. Len(sendList) /\ i \in 1 .. Len(sendList') + 1
          /\ i + 1 \in 1 .. Len(sendList') + 1
      BY <1>4, Parts
    <3>2. Place(i + 1 + 1) = Place(i + 1) + sendList[i + 1].len
      BY <1>6, <3>1 DEF Stream
    <3> QED
      BY <1>4, <2>3, <3>1, <3>2
  <2> QED
    BY <1>2, <1>6, <2>2, <2>5, <2>6 DEF Stream
<1>7. Datum' /\ Refs' /\ Allocated'
  BY <1>1, <1>2, <1>3, <1>4, Parts, SendAssumption DEF Datum, Refs, Allocated, TypeOK, net, destroy
<1> QED
  BY <1>2, <1>5, <1>6, <1>7 DEF destroy

LEMMA PushPacketInv ==
  ASSUME Inv, PushPacket
  PROVE  Inv'
<1> USE DEF Inv
<1>1. /\ packet \in Nat \ {0} /\ sendList = <<>> /\ lPc = "push"
      /\ lPc' = "idle" /\ packet' = 0 /\ capacity' = Capacity
      /\ UNCHANGED <<calls, garbled, sendList, net, destroy, world, invalid,
                     logicRef, stopped, aborted, wire>>
  BY SendAssumption DEF PushPacket, NoBacklog, Refs
<1>2. CASE UNCHANGED <<sendBuf, accepted>>
  <2>1. TypeOK'
    BY <1>1, <1>2, SendAssumption DEF TypeOK, net, destroy, world
  <2>2. dPc' = "live" => Stream'
    BY <1>1, <1>2, SameStream DEF destroy
  <2> QED
    BY <1>1, <1>2, <2>1, <2>2, SendAssumption DEF Datum, Refs, Allocated, net, destroy
<1>3. CASE /\ sendBuf' = sendBuf \o Bytes(accepted, packet)
           /\ accepted' = accepted + packet
           /\ Fits(packet) \/ (packet + 1 <= Capacity /\ capacity = 0)
  <2>1. /\ sendBuf' \in Seq(Nat) /\ Len(sendBuf') = Len(sendBuf) + packet
        /\ \A i \in 1 .. Len(sendBuf) : sendBuf'[i] = sendBuf[i]
        /\ \A i \in Len(sendBuf) + 1 .. Len(sendBuf) + packet :
              sendBuf'[i] = accepted + (i - Len(sendBuf)) - 1
    <3>1. /\ sendBuf \in Seq(Nat) /\ accepted \in Nat /\ packet \in Nat
          /\ sendBuf' = sendBuf \o Bytes(accepted, packet)
      BY <1>1, <1>3 DEF TypeOK
    <3> QED
      BY ONLY <3>1, Pushed
  <2>2. Len(sendBuf') < Capacity
    BY <1>1, <1>3, <2>1, Parts, SendAssumption DEF Fits, Allocated, TypeOK
  <2>3. TypeOK'
    BY <1>1, <1>3, <2>1, <2>2, SendAssumption DEF TypeOK, net, destroy, world
  <2>4. ASSUME Stream PROVE Stream'
    <3>1. accepted = Len(wire) + Len(sendBuf) /\ accepted \in Nat
      BY <1>1, <2>4, Parts DEF Stream, Place, TypeOK
    <3>2. \A i \in 1 .. Len(sendBuf') : sendBuf'[i] = Len(wire) + i - 1
      <4>1. /\ \A i \in 1 .. Len(sendBuf) : sendBuf[i] = Len(wire) + i - 1
            /\ Len(wire) \in Nat /\ Len(sendBuf) \in Nat /\ packet \in Nat
        BY <1>1, <2>4, Parts DEF Stream
      <4> TAKE i \in 1 .. Len(sendBuf')
      <4>2. CASE i \in 1 .. Len(sendBuf)
        BY <2>1, <4>1, <4>2
      <4>3. CASE i \in Len(sendBuf) + 1 .. Len(sendBuf) + packet
        <5>1. sendBuf'[i] = accepted + (i - Len(sendBuf)) - 1
          BY <2>1, <4>3
        <5> QED
          BY <3>1, <4>1, <4>3, <5>1
      <4> QED
        BY <2>1, <4>1, <4>2, <4>3
    <3> QED
      BY <1>1, <1>3, <2>1, <2>4, <3>1, <3>2, Parts DEF Stream, Place
  <2>5. Datum' /\ Refs' /\ Allocated'
    BY <1>1, <2>1, Parts, SendAssumption DEF Datum, Refs, Allocated, TypeOK, net, destroy
  <2> QED
    BY <1>1, <2>3, <2>4, <2>5 DEF destroy
<1> QED
  <2>1. IF Fits(packet) \/ packet + 1 <= Capacity
        THEN sendBuf' = sendBuf \o Bytes(accepted, packet) /\ accepted' = accepted + packet
        ELSE UNCHANGED <<sendBuf, accepted>>
    BY DEF PushPacket
  <2>2. Fits(packet) \/ capacity = 0
    BY DEF PushPacket
  <2> QED
    BY <1>2, <1>3, <2>1, <2>2

LEMMA QueuePacketInv ==
  ASSUME Inv, QueuePacket
  PROVE  Inv'
<1> USE DEF Inv
<1> DEFINE m == [start |-> accepted, len |-> packet]
<1>1. /\ packet \in Nat \ {0} /\ accepted \in Nat /\ lPc = "push"
      /\ sendList' = Append(sendList, m) /\ accepted' = accepted + packet
      /\ lPc' = "idle" /\ packet' = 0
      /\ sendList = <<>> => capacity > 0
      /\ UNCHANGED <<capacity, calls, garbled, net, destroy, world, sendBuf,
                     invalid, logicRef, stopped, aborted, wire>>
  BY SendAssumption DEF QueuePacket, MustQueue, Refs, TypeOK
<1>2. m \in Msgs /\ m.start = accepted /\ m.len = packet
  BY <1>1 DEF Msgs
<1> HIDE DEF m
<1>3. /\ sendList' \in Seq(Msgs) /\ Len(sendList') = Len(sendList) + 1
      /\ \A i \in 1 .. Len(sendList) : sendList'[i] = sendList[i]
      /\ sendList'[Len(sendList) + 1] = m
  BY <1>1, <1>2, AppendProperties, Parts
<1>4. TypeOK'
  BY <1>1, <1>3, SendAssumption DEF TypeOK, net, destroy, world, Msgs
<1>5. ASSUME Stream PROVE Stream'
  <2>1. \A i \in 1 .. Len(sendList) + 1 : Place(i)' = Place(i)
    BY <1>1, <1>2, <1>3, Parts DEF Place
  <2>2. \A i \in 1 .. Len(sendList') : Place(i + 1)' = Place(i)' + sendList'[i].len
    <3> TAKE i \in 1 .. Len(sendList')
    <3>1. CASE i = Len(sendList) + 1
      <4>1. Place(i)' = accepted /\ Place(i + 1)' = accepted + packet
        BY <1>1, <1>2, <1>3, <3>1, Parts DEF Place
      <4> QED
        BY <1>2, <1>3, <3>1, <4>1
    <3>2. CASE i \in 1 .. Len(sendList)
      <4>1. Place(i)' = Place(i) /\ Place(i + 1)' = Place(i + 1)
        BY <2>1, <3>2, Parts
      <4> QED
        BY <1>3, <1>5, <3>2, <4>1 DEF Stream
    <3> QED
      BY <1>3, <3>1, <3>2, Parts
  <2>3. Place(1)' = Len(wire') + Len(sendBuf')
    BY <1>1, <1>5, <2>1, Parts DEF Stream
  <2> QED
    BY <1>1, <1>5, <2>2, <2>3 DEF Stream
<1>6. Datum' /\ Refs' /\ Allocated'
  BY <1>1, Parts DEF Datum, Refs, Allocated, net, destroy
<1> QED
  BY <1>1, <1>4, <1>5, <1>6 DEF destroy

(* SendPacket, the logic thread's other calls and the peer's leave the     *)
(* stream alone.                                                           *)
LEMMA LogicErrorInv == ASSUME Inv, LogicError PROVE Inv'
<1> USE DEF Inv, LogicError, logic, net, destroy, world
<1>1. TypeOK' /\ (dPc' = "live" => Stream')
  BY SameStream DEF TypeOK
<1> QED
  BY <1>1 DEF Datum, Refs, Allocated

LEMMA LogicReleaseInv == ASSUME Inv, LogicRelease PROVE Inv'
<1> USE DEF Inv, LogicRelease, logic, net, destroy, world
<1>1. TypeOK' /\ (dPc' = "live" => Stream')
  BY SameStream DEF TypeOK
<1> QED
  BY <1>1 DEF Datum, Refs, Allocated

LEMMA StopInv == ASSUME Inv, Stop PROVE Inv'
<1> USE DEF Inv, Stop, logic, net, destroy, world
<1>1. TypeOK' /\ (dPc' = "live" => Stream')
  BY SameStream DEF TypeOK
<1> QED
  BY <1>1 DEF Datum, Refs, Allocated

LEMMA PeerReadsInv == ASSUME Inv, PeerReads PROVE Inv'
<1> USE DEF Inv, PeerReads, logic, net, destroy, world
<1>1. TypeOK' /\ (dPc' = "live" => Stream')
  BY SameStream, SendAssumption DEF TypeOK
<1> QED
  BY <1>1 DEF Datum, Refs, Allocated

LEMMA PeerResetsInv == ASSUME Inv, PeerResets PROVE Inv'
<1> USE DEF Inv, PeerResets, logic, net, destroy, world
<1>1. TypeOK' /\ (dPc' = "live" => Stream')
  BY SameStream DEF TypeOK
<1> QED
  BY <1>1 DEF Datum, Refs, Allocated

-----------------------------------------------------------------------------
(* The network thread. *)
LEMMA NetExitInv == ASSUME Inv, NetExit PROVE Inv'
<1> USE DEF Inv, NetExit, Remove, logic, net, destroy, world
<1>1. {shouldEpollOut', epollOut', invalid', netRef', logicRef', stopped', reset', aborted'}
         \subseteq BOOLEAN
  BY DEF TypeOK
<1>2. TypeOK' /\ (dPc' = "live" => Stream')
  BY <1>1, SameStream, SendAssumption DEF TypeOK
<1> QED
  BY <1>2 DEF Datum, Refs, Allocated

LEMMA SendNothingInv == ASSUME Inv, SendNothing PROVE Inv'
<1> USE DEF Inv, SendNothing, logic, net, destroy, world
<1>1. TypeOK' /\ (dPc' = "live" => Stream')
  BY SameStream DEF TypeOK
<1> QED
  BY <1>1 DEF Datum, Refs, Allocated

LEMMA SendDatumInv == ASSUME Inv, SendDatum PROVE Inv'
<1> USE DEF Inv, SendDatum, logic, net, destroy, world
<1>1. Len(sendBuf) \in 1 .. Capacity - 1
  BY Parts, SendAssumption DEF TypeOK
<1>2. TypeOK' /\ (dPc' = "live" => Stream')
  BY <1>1, SameStream DEF TypeOK
<1> QED
  BY <1>1, <1>2 DEF Datum, Refs, Allocated

LEMMA WriteErrorInv == ASSUME Inv, WriteError PROVE Inv'
<1> USE DEF Inv, WriteError, logic, net, destroy, world
<1>1. TypeOK' /\ (dPc' = "live" => Stream')
  BY SameStream, SendAssumption DEF TypeOK
<1> QED
  BY <1>1 DEF Datum, Refs, Allocated

LEMMA NetCheckInv == ASSUME Inv, NetCheck PROVE Inv'
<1> USE DEF Inv, NetCheck, Remove, logic, net, destroy, world
<1>1. {shouldEpollOut', epollOut', invalid', netRef', logicRef', stopped', reset', aborted'}
         \subseteq BOOLEAN
  BY DEF TypeOK
<1>2. TypeOK' /\ (dPc' = "live" => Stream')
  BY <1>1, SameStream, SendAssumption DEF TypeOK
<1> QED
  BY <1>2 DEF Datum, Refs, Allocated

LEMMA PollNothingInv == ASSUME Inv, PollNothing PROVE Inv'
<1> USE DEF Inv, PollNothing, logic, net, destroy, world
<1>1. TypeOK' /\ (dPc' = "live" => Stream')
  BY SameStream DEF TypeOK
<1> QED
  BY <1>1 DEF Datum, Refs, Allocated

LEMMA PollEventInv == ASSUME Inv, PollEvent PROVE Inv'
<1> USE DEF Inv, PollEvent, logic, net, destroy, world
<1>1. /\ UNCHANGED <<netRef, logic, destroy, world, sendBuf, logicRef, stopped, aborted, wire>>
      /\ nPc = "poll" /\ nPc' \in {"top", "write"}
      /\ {invalid', shouldEpollOut', epollOut'} \subseteq BOOLEAN
  BY DEF TypeOK
<1>2. IF nPc' = "write" THEN datum' \in 1 .. Len(sendBuf) ELSE datum' = 0
  BY Parts DEF Datum
<1>3. TypeOK' /\ (dPc' = "live" => Stream')
  BY <1>1, <1>2, SameStream, Parts, SendAssumption DEF TypeOK
<1> QED
  BY <1>1, <1>2, <1>3 DEF Datum, Refs, Allocated

(* The kernel takes k bytes from the front of the ring. *)
LEMMA TakenStream ==
  ASSUME Inv, NEW k \in 0 .. Len(sendBuf),
         wire' = wire \o SubSeq(sendBuf, 1, k), sendBuf' = Drop(sendBuf, k),
         UNCHANGED <<sendList, accepted>>
  PROVE  /\ wire' \in Seq(Nat) /\ sendBuf' \in Seq(Nat) /\ Len(sendBuf') < Capacity
         /\ sendBuf = <<>> => sendBuf' = <<>>
         /\ Stream => Stream'
<1>1. /\ wire \in Seq(Nat) /\ sendBuf \in Seq(Nat) /\ Len(wire) \in Nat /\ Len(sendBuf) \in Nat
      /\ Len(sendBuf) < Capacity
  BY Parts DEF Inv, TypeOK
<1>2. /\ wire' \in Seq(Nat) /\ sendBuf' \in Seq(Nat)
      /\ Len(wire') = Len(wire) + k /\ Len(sendBuf') = Len(sendBuf) - k
      /\ \A i \in 1 .. Len(wire) : wire'[i] = wire[i]
      /\ \A i \in Len(wire) + 1 .. Len(wire) + k : wire'[i] = sendBuf[i - Len(wire)]
      /\ \A i \in 1 .. Len(sendBuf) - k : sendBuf'[i] = sendBuf[k + i]
  <2> DEFINE w == wire \o SubSeq(sendBuf, 1, k)
             d == Drop(sendBuf, k)
  <2>1. wire' = w /\ sendBuf' = d
    OBVIOUS
  <2>2. /\ w \in Seq(Nat) /\ Len(w) = Len(wire) + k /\ d \in Seq(Nat) /\ Len(d) = Len(sendBuf) - k
        /\ \A i \in 1 .. Len(wire) : w[i] = wire[i]
        /\ \A i \in Len(wire) + 1 .. Len(wire) + k : w[i] = sendBuf[i - Len(wire)]
        /\ \A i \in 1 .. Len(sendBuf) - k : d[i] = sendBuf[k + i]
    <3>1. wire \in Seq(Nat) /\ sendBuf \in Seq(Nat) /\ k \in 0 .. Len(sendBuf)
      BY <1>1
    <3>2. w \in Seq(Nat) /\ Len(w) = Len(wire) + k
      BY ONLY <3>1, Moved
    <3>3. \A i \in 1 .. Len(wire) : w[i] = wire[i]
      BY ONLY <3>1, Moved
    <3>4. \A i \in Len(wire) + 1 .. Len(wire) + k : w[i] = sendBuf[i - Len(wire)]
      BY ONLY <3>1, Moved
    <3>5. d \in Seq(Nat) /\ Len(d) = Len(sendBuf) - k
      BY ONLY <3>1, Moved
    <3>6. \A i \in 1 .. Len(sendBuf) - k : d[i] = sendBuf[k + i]
      BY ONLY <3>1, Moved
    <3> QED
      BY <3>2, <3>3, <3>4, <3>5, <3>6
  <2> HIDE DEF w, d
  <2> QED
    BY ONLY <2>1, <2>2, Zenon
<1>3. Len(sendBuf') < Capacity /\ (sendBuf = <<>> => sendBuf' = <<>>)
  BY <1>1, <1>2, EmptySeq, SendAssumption
<1>4. ASSUME Stream PROVE Stream'
  <2>1. \A i \in 1 .. Len(wire') : wire'[i] = i - 1
    <3> TAKE i \in 1 .. Len(wire')
    <3>1. CASE i \in 1 .. Len(wire)
      BY <1>2, <1>4, <3>1 DEF Stream
    <3>2. CASE i \in Len(wire) + 1 .. Len(wire) + k
      <4>1. wire'[i] = sendBuf[i - Len(wire)] /\ i - Len(wire) \in 1 .. Len(sendBuf)
        <5>1. i - Len(wire) \in 1 .. k
          BY ONLY <1>1, <3>2, k \in 0 .. Len(sendBuf)
        <5>2. i - Len(wire) \in 1 .. Len(sendBuf)
          BY ONLY <1>1, <5>1, k \in 0 .. Len(sendBuf)
        <5> QED
          BY ONLY <1>2, <3>2, <5>2
      <4> QED
        BY <1>1, <1>4, <3>2, <4>1 DEF Stream
    <3> QED
      BY <1>1, <1>2, <3>1, <3>2
  <2>2. \A i \in 1 .. Len(sendBuf') : sendBuf'[i] = Len(wire') + i - 1
    <3> TAKE i \in 1 .. Len(sendBuf')
    <3>1. sendBuf'[i] = sendBuf[k + i] /\ k + i \in 1 .. Len(sendBuf)
      <4>1. /\ Len(sendBuf') = Len(sendBuf) - k /\ k \in Int /\ Len(sendBuf) \in Int
            /\ 0 <= k /\ i \in Int /\ 1 <= i /\ i <= Len(sendBuf')
        BY ONLY <1>1, <1>2, k \in 0 .. Len(sendBuf), i \in 1 .. Len(sendBuf')
      <4>2. i \in 1 .. Len(sendBuf) - k /\ k + i \in 1 .. Len(sendBuf)
        BY ONLY <4>1
      <4>3. \A j \in 1 .. Len(sendBuf) - k : sendBuf'[j] = sendBuf[k + j]
        BY ONLY <1>2
      <4> QED
        BY ONLY <4>2, <4>3
    <3>2. sendBuf[k + i] = Len(wire) + (k + i) - 1
      BY <1>4, <3>1 DEF Stream
    <3>3. Len(wire') = Len(wire) + k /\ Len(wire) \in Int /\ k \in Int /\ i \in Int
      BY ONLY <1>1, <1>2, k \in 0 .. Len(sendBuf), i \in 1 .. Len(sendBuf')
    <3> QED
      BY ONLY <3>1, <3>2, <3>3
  <2>3. Place(1)' = Len(wire') + Len(sendBuf')
    BY <1>1, <1>2, <1>4 DEF Stream, Place
  <2> QED
    BY <1>4, <2>1, <2>2, <2>3 DEF Stream, Place
<1> QED
  BY <1>2, <1>3, <1>4

LEMMA SendBytesInv ==
  ASSUME Inv, NEW k \in 0 .. KernelRoom, SendBytes(k)
  PROVE  Inv'
<1>1. /\ wire' = wire \o SubSeq(sendBuf, 1, k) /\ sendBuf' = Drop(sendBuf, k)
      /\ UNCHANGED <<sendList, accepted>>
  BY DEF SendBytes, Taken, logic
<1>2. k \in 0 .. Len(sendBuf) /\ dPc = "live" /\ nPc # "gone"
  BY Parts, SendAssumption DEF SendBytes, Taken, Inv, Datum, Refs, TypeOK
<1>3. kernel' \in 0 .. KernelRoom
  <2>1. kernel \in 0 .. KernelRoom /\ kernel' = kernel + k /\ kernel + k <= KernelRoom
    BY DEF SendBytes, Taken, Inv, TypeOK
  <2> QED
    BY ONLY <2>1, k \in 0 .. KernelRoom, SendAssumption
<1>4. {shouldEpollOut', epollOut', invalid', netRef', logicRef', stopped', reset', aborted'}
         \subseteq BOOLEAN
  BY DEF SendBytes, logic, destroy, ShortWrite, MaskAfterSend, Inv, TypeOK
<1>5. /\ wire' \in Seq(Nat) /\ sendBuf' \in Seq(Nat) /\ Len(sendBuf') < Capacity /\ Stream'
  BY <1>1, <1>2, TakenStream DEF Inv
<1>6. TypeOK'
  BY <1>1, <1>2, <1>3, <1>4, <1>5, SendAssumption DEF SendBytes, Inv, TypeOK, logic, destroy
<1> QED
  BY <1>1, <1>2, <1>5, <1>6, TakenStream DEF SendBytes, Inv, Datum, Refs, Allocated, logic, destroy

LEMMA WriteBytesInv ==
  ASSUME Inv, NEW k \in 0 .. KernelRoom, WriteBytes(k)
  PROVE  Inv'
<1>1. /\ wire' = wire \o SubSeq(sendBuf, 1, k) /\ sendBuf' = Drop(sendBuf, k)
      /\ UNCHANGED <<sendList, accepted>>
  BY DEF WriteBytes, Taken, logic
<1>2. k \in 0 .. Len(sendBuf) /\ dPc = "live" /\ nPc # "gone"
  BY Parts, SendAssumption DEF WriteBytes, Taken, Inv, Datum, Refs, TypeOK
<1>3. kernel' \in 0 .. KernelRoom
  <2>1. kernel \in 0 .. KernelRoom /\ kernel' = kernel + k /\ kernel + k <= KernelRoom
    BY DEF WriteBytes, Taken, Inv, TypeOK
  <2> QED
    BY ONLY <2>1, k \in 0 .. KernelRoom, SendAssumption
<1>4. {shouldEpollOut', epollOut', invalid', netRef', logicRef', stopped', reset', aborted'}
         \subseteq BOOLEAN
  BY DEF WriteBytes, logic, destroy, ShortWrite, MaskAfterWrite, Inv, TypeOK
<1>5. /\ wire' \in Seq(Nat) /\ sendBuf' \in Seq(Nat) /\ Len(sendBuf') < Capacity /\ Stream'
  BY <1>1, <1>2, TakenStream DEF Inv
<1>6. TypeOK'
  BY <1>1, <1>2, <1>3, <1>4, <1>5, SendAssumption DEF WriteBytes, Inv, TypeOK, logic, destroy
<1> QED
  BY <1>1, <1>2, <1>5, <1>6, TakenStream DEF WriteBytes, Inv, Datum, Refs, Allocated, logic, destroy

-----------------------------------------------------------------------------
(* The destructor. *)
LEMMA DestroyInv == ASSUME Inv, Destroy PROVE Inv'
<1> USE DEF Inv, Destroy, FreeBacklog, logic, net, world
<1>1. TypeOK'
  BY DEF TypeOK
<1>2. dPc' # "live" /\ (sendBuf = <<>> => dPc' = "closed") /\ (sendBuf # <<>> => dPc' = "sync")
  OBVIOUS
<1>3. Refs'
  BY <1>2, Parts DEF Refs
<1> QED
  BY <1>1, <1>2, <1>3 DEF Datum, Allocated

LEMMA SyncErrorInv == ASSUME Inv, SyncError PROVE Inv'
<1> USE DEF Inv, SyncError, FreeBacklog, logic, net, world
<1>1. {shouldEpollOut', epollOut', invalid', netRef', logicRef', stopped', reset', aborted'}
         \subseteq BOOLEAN
  BY DEF TypeOK
<1>2. TypeOK'
  BY <1>1, EmptySeq, SendAssumption DEF TypeOK
<1> QED
  BY <1>2 DEF Datum, Refs, Allocated

LEMMA SyncBytesInv ==
  ASSUME Inv, NEW k \in 1 .. KernelRoom, SyncBytes(k)
  PROVE  Inv'
<1>1. /\ dPc = "sync" /\ k <= Len(sendBuf) /\ nPc = "gone" /\ ~logicRef
      /\ wire' = wire \o SubSeq(sendBuf, 1, k)
      /\ UNCHANGED <<logic, net, reset, invalid, logicRef, stopped>>
  BY DEF SyncBytes, Taken, Inv, Refs
<1>2. wire' \in Seq(Nat)
  <2>1. k \in 0 .. Len(sendBuf)
    BY <1>1, Parts DEF Inv
  <2> QED
    BY <1>1, <2>1, Moved, Parts DEF Inv
<1>3. kernel' \in 0 .. KernelRoom
  BY SendAssumption DEF SyncBytes, Taken, Inv, TypeOK
<1>4. \/ dPc' = "closed" /\ offset' = 0 /\ sendBuf' = <<>> /\ aborted' \in BOOLEAN
      \/ /\ offset + k < Len(sendBuf) /\ offset' = offset + k
         /\ UNCHANGED <<dPc, sendBuf, aborted>>
  <2>1. offset \in Nat /\ Len(sendBuf) \in Nat
    BY Parts DEF Inv, TypeOK
  <2>2. CASE SyncDone(k)
    BY <2>2 DEF SyncBytes, FreeBacklog
  <2>3. CASE ~SyncDone(k)
    BY <2>1, <2>3 DEF SyncBytes, SyncDone
  <2> QED
    BY <2>2, <2>3
<1>5. {shouldEpollOut', epollOut', invalid', netRef', logicRef', stopped', reset', aborted'}
         \subseteq BOOLEAN
  BY <1>1, <1>4 DEF Inv, TypeOK, logic, net
<1>6. offset' \in 0 .. Capacity
  <2>1. offset \in 0 .. Capacity /\ Len(sendBuf) \in Nat /\ Len(sendBuf) < Capacity /\ k \in Nat
    BY Parts DEF Inv, TypeOK
  <2> QED
    BY <1>4, <2>1, SendAssumption
<1>7. sendBuf' \in Seq(Nat) /\ Len(sendBuf') < Capacity /\ dPc' \in {"live", "sync", "closed"}
  <2>1. <<>> \in Seq(Nat) /\ Len(<<>>) < Capacity
    BY EmptySeq, SendAssumption
  <2> QED
    BY <1>4, <2>1 DEF Inv, TypeOK
<1>8. TypeOK'
  BY <1>1, <1>2, <1>3, <1>5, <1>6, <1>7, SendAssumption DEF Inv, TypeOK, logic, net
<1> QED
  BY <1>1, <1>4, <1>8 DEF Inv, Datum, Refs, Allocated, logic, net

-----------------------------------------------------------------------------
(* Every step preserves the invariant. *)
LEMMA NextInv == Inv /\ [Next]_vars => Inv'
<1> SUFFICES ASSUME Inv, [Next]_vars PROVE Inv'
  OBVIOUS
<1>1. CASE UNCHANGED vars
  BY <1>1, SameStream
     DEF Inv, vars, logic, net, destroy, world, TypeOK, Datum, Refs, Allocated
<1>2. CASE LogicPush
  BY <1>2, FlushFrontInv, PushPacketInv, QueuePacketInv DEF LogicPush
<1>3. CASE LogicCall
  BY <1>3, SendPacketInv, LogicErrorInv, StopInv DEF LogicCall
<1>4. CASE NetStep
  BY <1>4, NetExitInv, SendNothingInv, SendDatumInv, WriteErrorInv, SendBytesInv,
     WriteBytesInv, NetCheckInv, PollNothingInv, PollEventInv DEF NetStep
<1>5. CASE DestroyStep
  BY <1>5, DestroyInv, SyncErrorInv, SyncBytesInv DEF DestroyStep
<1> QED
  BY <1>1, <1>2, <1>3, <1>4, <1>5, LogicReleaseInv, PeerReadsInv, PeerResetsInv DEF Next

(* The inductive invariant holds in every state. *)
THEOREM Invariance == Spec => []Inv
<1> QED
  BY InitInv, NextInv, PTL DEF Spec

(* The variables keep their types: the ring, for example, never holds more *)
(* than Capacity - 1 bytes, whatever is pushed while the network thread    *)
(* reads.                                                                  *)
THEOREM TypeCorrect == Spec => []TypeOK
<1> QED
  BY Invariance, PTL DEF Inv

(* Until the destructor runs, the wire, m_sendBuf and m_sendList together  *)
(* are the packets SendPacket accepted, in that order, whatever the kernel *)
(* takes and however the two threads interleave.                           *)
THEOREM NothingOvertakes == Spec => []StreamInOrder
<1>1. Inv => StreamInOrder
  <2> SUFFICES ASSUME Inv, dPc = "live"
               PROVE  LET out  == wire \o sendBuf
                          next == [i \in 1 .. Len(sendList) + 1 |->
                                      IF i <= Len(sendList) THEN sendList[i].start
                                      ELSE accepted]
                      IN  /\ out = Bytes(0, Len(out))
                          /\ next[1] = Len(out)
                          /\ \A i \in 1 .. Len(sendList) :
                                next[i + 1] = next[i] + sendList[i].len
    BY DEF StreamInOrder
  <2> DEFINE out  == wire \o sendBuf
             next == [i \in 1 .. Len(sendList) + 1 |->
                         IF i <= Len(sendList) THEN sendList[i].start ELSE accepted]
  <2>1. /\ wire \in Seq(Nat) /\ sendBuf \in Seq(Nat)
        /\ Len(wire) \in Nat /\ Len(sendBuf) \in Nat /\ Len(sendList) \in Nat
        /\ Stream
    BY Parts DEF Inv
  <2>2. /\ out \in Seq(Nat) /\ Len(out) = Len(wire) + Len(sendBuf)
        /\ \A i \in 1 .. Len(out) : out[i] = i - 1
    <3>1. /\ out \in Seq(Nat) /\ Len(out) = Len(wire) + Len(sendBuf)
          /\ \A i \in 1 .. Len(wire) + Len(sendBuf) :
                out[i] = IF i <= Len(wire) THEN wire[i] ELSE sendBuf[i - Len(wire)]
      BY <2>1, ConcatProperties
    <3> HIDE DEF out
    <3>2. ASSUME NEW i \in 1 .. Len(out)
          PROVE  out[i] = i - 1
      <4>1. CASE i <= Len(wire)
        <5>1. i \in 1 .. Len(wire) /\ out[i] = wire[i]
          BY <2>1, <3>1, <4>1
        <5> QED
          BY <2>1, <5>1 DEF Stream
      <4>2. CASE i > Len(wire)
        <5>1. i - Len(wire) \in 1 .. Len(sendBuf) /\ out[i] = sendBuf[i - Len(wire)]
          <6>1. i \in 1 .. Len(wire) + Len(sendBuf) /\ ~ (i <= Len(wire))
            BY <2>1, <3>1, <4>2
          <6>2. out[i] = sendBuf[i - Len(wire)]
            BY ONLY <3>1, <6>1
          <6>3. i - Len(wire) \in 1 .. Len(sendBuf)
            BY ONLY <2>1, <6>1
          <6> QED
            BY ONLY <6>2, <6>3
        <5> QED
          BY <2>1, <5>1 DEF Stream
      <4> QED
        BY <2>1, <3>1, <4>1, <4>2
    <3> QED
      BY <3>1, <3>2
  <2>3. \A i \in 1 .. Len(sendList) + 1 : next[i] = Place(i)
    BY <2>1 DEF Place
  <2> HIDE DEF out, next
  <2>4. out = Bytes(0, Len(out))
    <3>1. /\ Bytes(0, Len(out)) \in Seq(Nat) /\ Len(Bytes(0, Len(out))) = Len(out)
          /\ \A i \in 1 .. Len(out) : Bytes(0, Len(out))[i] = i - 1
      BY <2>1, <2>2 DEF Bytes
    <3> QED
      BY <2>2, <3>1, SeqEqual
  <2>5. next[1] = Len(out)
    <3>1. next[1] = Place(1)
      BY ONLY <2>1, <2>3, 1 \in 1 .. Len(sendList) + 1
    <3>2. Place(1) = Len(wire) + Len(sendBuf)
      BY <2>1 DEF Stream
    <3> QED
      BY ONLY <2>2, <3>1, <3>2
  <2>6. \A i \in 1 .. Len(sendList) : next[i + 1] = next[i] + sendList[i].len
    <3> TAKE i \in 1 .. Len(sendList)
    <3>1. next[i] = Place(i) /\ next[i + 1] = Place(i + 1)
      BY <2>1, <2>3
    <3> QED
      BY <2>1, <3>1 DEF Stream
  <2> QED
    BY <2>4, <2>5, <2>6 DEF out, next
<1> QED
  BY <1>1, Invariance, PTL

-----------------------------------------------------------------------------
(* Where the next byte of the ring comes from: the backlog, or the next    *)
(* packet.                                                                 *)
LEMMA RingedIsPlace == Inv => Ringed = Place(1)
  BY Parts DEF Inv, Ringed, Place, Front

(* A step that stores n bytes, the next of the stream, in the ring. *)
LEMMA RingPuts ==
  ASSUME Inv, NEW n \in Nat, n + 1 <= Capacity - Len(sendBuf),
         sendBuf' = sendBuf \o Bytes(Ringed, n), Ringed' = Ringed + n
  PROVE  [RingFifo!Next]_(RingFifo!vars)
<1>1. sendBuf \in Seq(Nat) /\ Len(sendBuf) \in Nat /\ Capacity \in Nat /\ Ringed \in Nat
  BY Parts, SendAssumption DEF Inv, TypeOK, Ringed, Front
<1>2. CASE n = 0
  <2>1. Bytes(Ringed, 0) = <<>>
    BY DEF Bytes
  <2>2. sendBuf' = sendBuf /\ Ringed' = Ringed
    <3>1. sendBuf \o <<>> = sendBuf
      BY <1>1
    <3> QED
      BY <1>1, <1>2, <2>1, <3>1
  <2> QED
    BY <2>2 DEF RingFifo!vars
<1>3. CASE n # 0
  <2>1. n \in 1 .. Capacity - 1 /\ Len(sendBuf) + n <= Capacity - 1
    BY <1>1, <1>3
  <2> QED
    BY <2>1 DEF RingFifo!Next, RingFifo!Put, Bytes
<1> QED
  BY <1>2, <1>3

(* A step that removes the k oldest bytes from the ring. *)
LEMMA RingTakes ==
  ASSUME Inv, NEW k \in 0 .. Len(sendBuf), sendBuf' = Drop(sendBuf, k), Ringed' = Ringed
  PROVE  [RingFifo!Next]_(RingFifo!vars)
<1>1. sendBuf \in Seq(Nat) /\ Len(sendBuf) \in Nat /\ Len(sendBuf) < Capacity /\ Capacity \in Nat
  BY Parts, SendAssumption DEF Inv, TypeOK
<1>2. CASE k = 0
  <2>1. sendBuf' = sendBuf
    BY <1>1, <1>2 DEF Drop
  <2> QED
    BY <2>1 DEF RingFifo!vars
<1>3. CASE k # 0
  <2>1. k \in 1 .. Capacity - 1 /\ k <= Len(sendBuf)
    BY <1>1, <1>3
  <2> QED
    BY <2>1 DEF RingFifo!Next, RingFifo!Take, Drop
<1> QED
  BY <1>2, <1>3

(* m_sendBuf is used as the queue that CircularBuffer implements: no       *)
(* packet and no message of the backlog is stored that does not fit, no    *)
(* byte is released that is not there, what is stored is the next of the   *)
(* stream although it waited in the backlog, and nothing else touches the  *)
(* ring, for a ring, packets and a kernel buffer of any size.              *)
THEOREM SendsFifo == Spec => RingIsFifo
<1>1. Init => RingFifo!Init
  BY DEF Init, RingFifo!Init, Ringed
<1>2. Inv /\ Inv' /\ [Next]_vars => [RingFifo!Next]_(RingFifo!vars)
  <2> SUFFICES ASSUME Inv, Inv', [Next]_vars
               PROVE  [RingFifo!Next]_(RingFifo!vars)
    OBVIOUS
  <2>1. ASSUME UNCHANGED <<sendList, accepted>> PROVE Ringed' = Ringed
    BY <2>1 DEF Ringed, Front
  <2>2. ASSUME UNCHANGED <<sendBuf, sendList, accepted>> PROVE UNCHANGED RingFifo!vars
    BY <2>1, <2>2 DEF RingFifo!vars
  <2>3. ASSUME NEW k \in 0 .. Len(sendBuf), sendBuf' = Drop(sendBuf, k),
               UNCHANGED <<sendList, accepted>>
        PROVE  [RingFifo!Next]_(RingFifo!vars)
    BY <2>1, <2>3, RingTakes
  <2>4. CASE FlushFront
    <3>1. dPc = "live" /\ dPc' = "live"
      BY <2>4 DEF FlushFront, Inv, Refs, destroy
    <3>2. /\ sendList # <<>> /\ Len(sendList) > 0 /\ Front = sendList[1] /\ Ringed = Front.start
          /\ Front.len \in Nat /\ Front.start \in Nat
      BY <2>4, Parts DEF FlushFront, Inv, Front, Ringed
    <3>3. Place(1 + 1) = Place(1) + sendList[1].len
      <4>1. Stream /\ 1 \in 1 .. Len(sendList)
        BY <3>1, <3>2, Parts DEF Inv
      <4> QED
        BY ONLY <4>1 DEF Stream
    <3>4. Ringed' = Ringed + Front.len
      <4>1. Ringed' = Place(1)'
        <5>1. (Ringed = Place(1))'
          BY RingedIsPlace, PTL
        <5> QED
          BY <5>1
      <4>2. Place(1)' = Place(2)
        <5>1. /\ sendList' = Tail(sendList) /\ accepted' = accepted
              /\ sendList \in Seq(Msgs) /\ Len(sendList) \in Nat
          BY <2>4, Parts DEF FlushFront, Inv
        <5>2. /\ Len(sendList') = Len(sendList) - 1
              /\ \A i \in 1 .. Len(sendList') : sendList'[i] = sendList[i + 1]
          BY <3>2, <5>1, HeadTailProperties
        <5> QED
          BY <3>2, <5>1, <5>2 DEF Place
      <4> QED
        BY <3>2, <3>3, <4>1, <4>2, RingedIsPlace
    <3>5. Front.len + 1 <= Capacity - Len(sendBuf)
      <4>1. /\ Front.len + 1 <= capacity - Len(sendBuf) /\ Len(sendBuf) \in Nat
            /\ capacity \in {0, Capacity}
        BY <2>4, Parts DEF FlushFront, Fits, Inv, TypeOK
      <4> QED
        BY ONLY <3>2, <4>1, SendAssumption
    <3>6. sendBuf' = sendBuf \o Bytes(Ringed, Front.len)
      BY <2>4, <3>2 DEF FlushFront
    <3> QED
      BY <3>2, <3>4, <3>5, <3>6, RingPuts
  <2>5. CASE PushPacket
    <3>1. /\ sendList = <<>> /\ sendList' = <<>> /\ packet \in Nat
          /\ Ringed = accepted /\ Ringed' = accepted'
      <4>1. sendList = <<>> /\ sendList' = <<>>
        BY <2>5 DEF PushPacket, NoBacklog
      <4>2. packet \in Nat
        BY SendAssumption DEF Inv, TypeOK
      <4> QED
        BY <4>1, <4>2 DEF Ringed
    <3>2. CASE Fits(packet) \/ packet + 1 <= Capacity
      <4>1. packet + 1 <= Capacity - Len(sendBuf)
        <5>1. /\ Len(sendBuf) \in Nat /\ capacity \in {0, Capacity}
              /\ capacity = 0 => Len(sendBuf) = 0
          BY Parts DEF Inv, TypeOK, Allocated
        <5>2. \/ packet + 1 <= capacity - Len(sendBuf)
              \/ packet + 1 <= Capacity /\ capacity = 0
          BY <2>5, <3>2 DEF PushPacket, Fits
        <5> QED
          BY ONLY <3>1, <5>1, <5>2, SendAssumption
      <4>2. sendBuf' = sendBuf \o Bytes(Ringed, packet) /\ Ringed' = Ringed + packet
        BY <2>5, <3>1, <3>2 DEF PushPacket
      <4> QED
        BY <3>1, <4>1, <4>2, RingPuts
    <3>3. CASE ~(Fits(packet) \/ packet + 1 <= Capacity)
      <4>1. UNCHANGED <<sendBuf, accepted>>
        BY <2>5, <3>3 DEF PushPacket
      <4> QED
        BY <2>2, <3>1, <4>1
    <3> QED
      BY <3>2, <3>3
  <2>6. CASE QueuePacket
    <3> DEFINE m == [start |-> accepted, len |-> packet]
    <3>1. sendList' = Append(sendList, m) /\ sendBuf' = sendBuf /\ sendList \in Seq(Msgs)
      BY <2>6, Parts DEF QueuePacket, Inv
    <3>2. m \in Msgs /\ m.start = accepted
      BY SendAssumption DEF Inv, TypeOK, Msgs
    <3> HIDE DEF m
    <3>3. sendList' # <<>> /\ Head(sendList') = IF sendList = <<>> THEN m ELSE Head(sendList)
      BY <3>1, <3>2, AppendProperties, EmptySeq
    <3>4. Ringed' = Ringed
      BY <3>2, <3>3 DEF Ringed, Front
    <3> QED
      BY <3>1, <3>4 DEF RingFifo!vars
  <2>7. ASSUME NEW k \in 0 .. KernelRoom, SendBytes(k) \/ WriteBytes(k)
        PROVE  [RingFifo!Next]_(RingFifo!vars)
    <3>1. k \in 0 .. Len(sendBuf)
      BY <2>7, Parts, SendAssumption DEF SendBytes, WriteBytes, Taken, Inv, Datum
    <3> QED
      BY <2>3, <2>7, <3>1 DEF SendBytes, WriteBytes, logic
  <2>8. CASE NetStep
    BY <2>2, <2>7, <2>8 DEF NetStep, NetExit, SendNothing, SendDatum, WriteError, NetCheck,
       PollNothing, PollEvent, logic
  <2>9. ASSUME sendBuf' = <<>>, UNCHANGED <<sendList, accepted>>
        PROVE  [RingFifo!Next]_(RingFifo!vars)
    <3>1. Len(sendBuf) \in 0 .. Len(sendBuf) /\ Drop(sendBuf, Len(sendBuf)) = <<>>
      BY Parts DEF Inv, Drop
    <3> QED
      BY <2>3, <2>9, <3>1
  <2>10. ASSUME NEW k \in 1 .. KernelRoom, SyncBytes(k)
         PROVE  [RingFifo!Next]_(RingFifo!vars)
    BY <2>2, <2>9, <2>10 DEF SyncBytes, logic
  <2>11. CASE DestroyStep
    BY <2>2, <2>9, <2>10, <2>11 DEF DestroyStep, Destroy, SyncError, logic
  <2>12. CASE LogicCall \/ LogicRelease \/ PeerReads \/ PeerResets
    BY <2>2, <2>12 DEF LogicCall, SendPacket, LogicError, Stop, LogicRelease, PeerReads,
       PeerResets, logic
  <2>13. CASE UNCHANGED vars
    BY <2>2, <2>13 DEF vars, logic
  <2> QED
    BY <2>4, <2>5, <2>6, <2>8, <2>11, <2>12, <2>13 DEF Next, LogicPush
<1> QED
  BY <1>1, <1>2, Invariance, PTL DEF Spec, RingIsFifo, RingFifo!Spec
=============================================================================
