------------------------------ MODULE RecvPath ------------------------------
(***************************************************************************)
(* The incoming half of one StreamSocket (src/base/StreamSocket.cc, Linux  *)
(* build) with the packet format of src/pingpong: a head of HeadLen bytes  *)
(* that holds the length of the body, then the body.                       *)
(*                                                                         *)
(* The network thread moves bytes from the kernel into m_recvBuf (Recv);   *)
(* the logic thread takes packets out of it (DoMsgParse), called from      *)
(* TaskManager::DoMsgParse, which also removes an invalid connection.      *)
(*                                                                         *)
(* m_recvBuf is the byte queue CircularBuffer implements (theorem          *)
(* Refinement of CircularBufferProofs): it holds the bytes of the stream   *)
(* from `consumed` up to `received`, so two counters are all of its state. *)
(***************************************************************************)
EXTENDS Integers, Sequences

CONSTANTS Capacity,    \* of m_recvBuf once it is allocated
          HeadLen,     \* sizeof(BODY_LENGTH_T)
          Lengths,     \* the body lengths a peer may announce
          IntLimit,    \* 2^(w-1) for an int of w bits: from -IntLimit to IntLimit - 1
          MaxFrames    \* bound: packets the peer sends

ASSUME RecvAssumption ==
    /\ Capacity \in Nat /\ HeadLen \in Nat \ {0} /\ HeadLen + 1 < Capacity
    /\ IntLimit \in Nat /\ 3 * Capacity <= IntLimit
    /\ Lengths \subseteq -IntLimit .. IntLimit - 1 /\ MaxFrames \in Nat

VARIABLES
    capacity,   \* m_recvBuf.Capacity(): 0 until the first Recv
    received,   \* bytes ever stored in m_recvBuf
    consumed,   \* bytes ever released from m_recvBuf
    bodyLen,    \* m_bodyLen
    lPc, seen,  \* the logic thread in DoMsgParse, what GetDatum returned
    invalid,    \* m_invalid
    nPc,        \* the network thread in Run
    logicRef,   \* TaskManager holds the socket
    frames,     \* external: what the peer sent, [start, len] each
    sent,       \* external: how many bytes that is
    fin, reset, \* external: the peer has closed, or reset, the connection
    refused,    \* history: DoMsgParse has called OnError
    handled     \* history: the bodies given to _HandlePacket, [start, len]

logic == <<lPc, seen, bodyLen, consumed, logicRef, refused, handled>>
net   == <<capacity, received, nPc>>
peer  == <<frames, sent, fin, reset>>
vars  == <<logic, net, peer, invalid>>

SizeForRead == received - consumed
Least(a, b) == IF a <= b THEN a ELSE b
Greatest(a, b) == IF a <= b THEN b ELSE a

(* The value an int has after an operation whose exact result is x. *)
Int32(x) == ((x + IntLimit) % (2 * IntLimit)) - IntLimit

(* _HandleHead of ClientTask and ServerTask reads the length at the front  *)
(* of the buffer; between two heads there is no length to read.            *)
LengthAt(p) ==
    IF \E i \in 1 .. Len(frames) : frames[i].start = p
    THEN frames[CHOOSE i \in 1 .. Len(frames) : frames[i].start = p].len
    ELSE 1

(* Mutant of HeadHere: a head that has only begun to arrive is read. *)
HeadHereInPart(n) == n > 0

HeadHere(n) == n >= HeadLen

(* The bytes AdjustReadPtr releases for a head. *)
HeadTaken == HeadLen

(* The "defensive code" of DoMsgParse, in int arithmetic. *)
TooBig(n) == n < 0 \/ Int32(3 * n) > 2 * capacity

Init ==
    /\ capacity = 0 /\ received = 0 /\ consumed = 0 /\ bodyLen = 0
    /\ lPc = "idle" /\ seen = 0
    /\ nPc = "top" /\ invalid = FALSE /\ logicRef = TRUE
    /\ frames = <<>> /\ sent = 0 /\ fin = FALSE /\ reset = FALSE
    /\ refused = FALSE /\ handled = <<>>

-----------------------------------------------------------------------------
(* The network thread: its rounds of NetThread::Run for this socket.       *)

(* The loop over m_tasks: an invalid socket is taken out of it and epoll. *)
NetCheck ==
    /\ nPc = "top"
    /\ nPc' = IF invalid THEN "gone" ELSE "poll"
    /\ UNCHANGED <<capacity, received, logic, peer, invalid>>

(* The room GetSpace hands to readv; the first call allocates the ring. *)
Room == Capacity - 1 - SizeForRead

Readable == sent > received \/ fin \/ reset

(* epoll_wait times out, or Recv finds the ring full: no error either way. *)
RecvNothing ==
    /\ nPc = "poll" /\ ~reset
    /\ ~Readable \/ Room = 0
    /\ nPc' = "top"
    /\ UNCHANGED <<capacity, received, logic, peer, invalid>>

(* Recv stores k bytes.  After EPOLLERR, which sets the socket invalid,    *)
(* OnReadable is called all the same.                                      *)
RecvBytes(k) ==
    /\ nPc = "poll"
    /\ k <= Least(Room, sent - received)
    /\ capacity' = Capacity
    /\ received' = received + k
    /\ invalid' = (invalid \/ reset)
    /\ nPc' = "top"
    /\ UNCHANGED <<logic, peer>>

(* EPOLLERR, or readv returns 0 at the end of the stream, or fails:        *)
(* OnError.                                                                *)
RecvEnds ==
    /\ nPc = "poll"
    /\ reset \/ (fin /\ received = sent /\ Room > 0)
    /\ capacity' = Capacity
    /\ invalid' = TRUE
    /\ nPc' = "top"
    /\ UNCHANGED <<received, logic, peer>>

-----------------------------------------------------------------------------
(* The logic thread.                                                       *)

(* TaskManager::DoMsgParse comes to this connection. *)
Visit ==
    /\ lPc = "idle" /\ logicRef
    /\ IF invalid THEN logicRef' = FALSE /\ lPc' = lPc
                  ELSE lPc' = "loop" /\ logicRef' = logicRef
    /\ UNCHANGED <<seen, bodyLen, consumed, refused, handled, net, peer, invalid>>

(* The test of the loop, IsEmpty. *)
LoopEnds ==
    /\ lPc = "loop" /\ SizeForRead = 0
    /\ lPc' = "idle"
    /\ UNCHANGED <<seen, bodyLen, consumed, logicRef, refused, handled, net, peer, invalid>>

(* GetDatum. *)
LoopDatum ==
    /\ lPc = "loop" /\ SizeForRead > 0
    /\ seen' = SizeForRead /\ lPc' = "head"
    /\ UNCHANGED <<bodyLen, consumed, logicRef, refused, handled, net, peer, invalid>>

(* With no body pending _HandleHead looks for a head and the ring releases *)
(* what it took: HeadLen bytes, or none while the head is not all there.   *)
ParseHead ==
    /\ lPc = "head"
    /\ IF bodyLen = 0 /\ HeadHere(seen)
       THEN bodyLen' = LengthAt(consumed) /\ consumed' = consumed + HeadTaken
       ELSE UNCHANGED <<bodyLen, consumed>>
    /\ lPc' = "check" /\ seen' = 0
    /\ UNCHANGED <<logicRef, refused, handled, net, peer, invalid>>

(* The announced length is refused: OnError. *)
Refuse ==
    /\ lPc = "check" /\ TooBig(bodyLen)
    /\ invalid' = TRUE /\ refused' = TRUE
    /\ lPc' = "idle"
    /\ UNCHANGED <<seen, bodyLen, consumed, logicRef, handled, net, peer>>

(* Mutant of BodyHere: the head still counts as part of the body. *)
BodyHereWithHead == SizeForRead + HeadLen >= bodyLen

(* Mutant of BodyHere: it waits for one byte more. *)
BodyHereAndMore == SizeForRead > bodyLen

BodyHere == SizeForRead >= bodyLen

(* No body announced, or not all of it received: the call returns. *)
ParseLater ==
    /\ lPc = "check" /\ ~TooBig(bodyLen)
    /\ bodyLen = 0 \/ ~BodyHere
    /\ lPc' = "idle"
    /\ UNCHANGED <<seen, bodyLen, consumed, logicRef, refused, handled, net, peer, invalid>>

ParseBody ==
    /\ lPc = "check" /\ ~TooBig(bodyLen)
    /\ bodyLen # 0 /\ BodyHere
    /\ lPc' = "body"
    /\ UNCHANGED <<seen, bodyLen, consumed, logicRef, refused, handled, net, peer, invalid>>

(* _HandlePacket gets the bodyLen bytes GetDatum returned, which are then  *)
(* released.                                                               *)
HandlePacket ==
    /\ lPc = "body"
    /\ handled' = Append(handled, [start |-> consumed, len |-> Least(bodyLen, SizeForRead)])
    /\ consumed' = consumed + bodyLen
    /\ bodyLen' = 0
    /\ lPc' = "loop"
    /\ UNCHANGED <<seen, logicRef, refused, net, peer, invalid>>

-----------------------------------------------------------------------------
(* External: the peer sends a packet, closes, or resets.                   *)
PeerSends(n) ==
    /\ Len(frames) < MaxFrames /\ ~fin /\ ~reset
    /\ frames' = Append(frames, [start |-> sent, len |-> n])
    /\ sent' = sent + HeadLen + Greatest(n, 0)
    /\ UNCHANGED <<fin, reset, logic, net, invalid>>

PeerCloses ==
    /\ ~fin /\ ~reset
    /\ fin' = TRUE
    /\ UNCHANGED <<frames, sent, reset, logic, net, invalid>>

PeerResets ==
    /\ ~reset
    /\ reset' = TRUE
    /\ UNCHANGED <<frames, sent, fin, logic, net, invalid>>

-----------------------------------------------------------------------------
NetStep ==
    \/ NetCheck \/ RecvNothing \/ RecvEnds
    \/ \E k \in 1 .. Capacity - 1 : RecvBytes(k)
LogicStep ==
    \/ Visit \/ LoopEnds \/ LoopDatum \/ ParseHead
    \/ Refuse \/ ParseLater \/ ParseBody \/ HandlePacket

Next ==
    \/ NetStep \/ LogicStep
    \/ (\E n \in Lengths : PeerSends(n)) \/ PeerCloses \/ PeerResets

(* Both threads loop for ever. *)
Spec == Init /\ [][Next]_vars /\ WF_vars(NetStep) /\ WF_vars(LogicStep)

-----------------------------------------------------------------------------
(* The variables keep their types. *)
TypeOK ==
    /\ capacity \in {0, Capacity}
    /\ {received, consumed, sent, seen} \subseteq Nat
    /\ consumed <= received /\ received <= sent
    /\ nPc \in {"top", "poll", "gone"}
    /\ bodyLen \in Lengths \cup {0}
    /\ lPc \in {"idle", "loop", "head", "check", "body"}
    /\ {invalid, logicRef, fin, reset, refused} \subseteq BOOLEAN
    /\ frames \in Seq([start : Nat, len : Lengths])
    /\ handled \in Seq([start : Nat, len : Nat])

(* The network thread that receives and the logic thread that parses use   *)
(* m_recvBuf as the queue its class promises: Recv stores no more than     *)
(* there is room for, DoMsgParse releases a head or a body only when all   *)
(* of it is there, and no other step touches the ring.                     *)
Held       == [i \in 1 .. SizeForRead |-> consumed + i - 1]
RingFifo   == INSTANCE ByteFifo WITH Bound <- Capacity - 1, fifo <- Held,
                                     accepted <- received
RingIsFifo == RingFifo!Spec

EndOf(f)  == f.start + HeadLen + f.len
Parsed(i) == i <= Len(frames) /\ consumed >= EndOf(frames[i])

(* A packet the receiver accepts, and what it hands to _HandlePacket of it *)
(* unless the body is empty.                                               *)
Acceptable(f) == f.len >= 0 /\ 3 * f.len <= 2 * Capacity
BodyOf(f)     == [start |-> f.start + HeadLen, len |-> f.len]

(* Between two calls DoMsgParse stands at a head, or just behind the head  *)
(* of the body it waits for.                                               *)
StandsAtHead ==
    lPc = "idle" =>
        LET p == IF bodyLen = 0 THEN consumed ELSE consumed - HeadLen
        IN  \/ p = sent
            \/ \E i \in 1 .. Len(frames) :
                  /\ frames[i].start = p
                  /\ bodyLen \in {0, frames[i].len}

(* The assert of DoMsgParse: GetDatum has returned the whole body. *)
BodyIsWhole == lPc = "body" => SizeForRead >= bodyLen

(* DoMsgParse does not go on to wait for a body the ring can never hold,   *)
(* unless the test of its length overflowed.                               *)
WaitsForWhatFits ==
    lPc = "idle" /\ ~invalid =>
        bodyLen < Capacity \/ 3 * bodyLen >= IntLimit

(* DoMsgParse keeps in step with the stream: what it has handed to         *)
(* _HandlePacket are bodies the peer sent, whole, acceptable, in order and *)
(* once each, and none was passed over, however the stream was cut up on   *)
(* the way.                                                                *)
BodiesInOrder ==
    /\ StandsAtHead /\ BodyIsWhole /\ WaitsForWhatFits
    /\ \A i \in 1 .. Len(handled) : \E j \in 1 .. Len(frames) :
          handled[i] = BodyOf(frames[j]) /\ frames[j].len > 0 /\ Acceptable(frames[j])
    /\ \A i \in 1 .. Len(handled) - 1 : handled[i].start < handled[i + 1].start
    /\ \A j \in 1 .. Len(frames) :
          frames[j].len > 0 /\ Parsed(j) =>
              \E i \in 1 .. Len(handled) : handled[i] = BodyOf(frames[j])

(* A packet that may be accepted is handled once it was sent after         *)
(* acceptable packets only, unless the connection is given up: the ring    *)
(* always has room for the rest of the body it waits for.                  *)
HandledInTheEnd ==
    \A i \in 1 .. MaxFrames :
        /\ Len(frames) >= i
        /\ \A j \in 1 .. i : Acceptable(frames[j])
        ~> invalid \/ Parsed(i)

=============================================================================
