------------------------------ MODULE SendPath ------------------------------
(***************************************************************************)
(* The outgoing half of one StreamSocket (src/base/StreamSocket.cc, Linux  *)
(* build), with the part of NetThread::Run (src/base/NetThreadPool.cc)     *)
(* that drives it.                                                         *)
(*                                                                         *)
(* The logic thread calls SendPacket, which fills m_sendBuf and, when that *)
(* is full, the backlog m_sendList.  The network thread empties m_sendBuf: *)
(* at the top of its loop with Send, and with OnWritable when epoll        *)
(* reports room in the kernel's buffer.  The thread that drops the last    *)
(* reference runs the destructor, which sends what is left (_FinalSync).   *)
(*                                                                         *)
(* m_sendBuf is the byte queue CircularBuffer implements (theorem          *)
(* Refinement of CircularBufferProofs), so PushData, GetDatum and          *)
(* AdjustReadPtr are single steps.  A byte is the number it has in the     *)
(* stream of all bytes of packets that were not dropped.                   *)
(***************************************************************************)
EXTENDS Integers, Sequences

CONSTANTS Capacity,     \* of m_sendBuf once it is allocated
          KernelRoom,   \* bytes the kernel buffers for the peer
          Sizes,        \* the lengths of packets
          MaxPackets    \* bound: calls of SendPacket

ASSUME SendAssumption ==
    /\ Capacity \in Nat \ {0} /\ KernelRoom \in Nat \ {0}
    /\ Sizes \subseteq Nat \ {0} /\ MaxPackets \in Nat

VARIABLES
    capacity,        \* m_sendBuf.Capacity(): 0 until the first packet
    sendBuf,         \* m_sendBuf: the numbers of its bytes
    sendList,        \* m_sendList: the backlog, [start, len] each
    lPc, packet,     \* the logic thread in SendPacket, the length it sends
    nPc, datum,      \* the network thread, the length GetDatum returned
    shouldEpollOut,  \* m_bShouldEpollOut
    epollOut,        \* EPOLLOUT is in the event mask of the socket
    invalid,         \* m_invalid
    netRef, logicRef,\* the references of NetThread::m_tasks and TaskManager
    stopped,         \* the server shuts down: IsAlive() is false
    dPc, offset,     \* the destructor; what _SendFully counts
    kernel,          \* external: bytes in the kernel's buffer
    reset,           \* external: the peer has reset the connection
    aborted,         \* the allocator has stopped the process
    calls,           \* history: calls of SendPacket so far
    accepted,        \* history: bytes of the packets not dropped
    wire,            \* history: the bytes the kernel took, in order
    garbled          \* history: bytes read back from freed memory

logic   == <<lPc, packet, calls, accepted, garbled, capacity, sendList>>
net     == <<nPc, datum, shouldEpollOut, epollOut, netRef>>
destroy == <<dPc, offset>>
world   == <<kernel, reset>>
vars    == <<logic, net, destroy, world, sendBuf, invalid, logicRef, stopped,
             aborted, wire>>

Bytes(start, len) == [i \in 1..len |-> start + i - 1]
Drop(s, k)        == SubSeq(s, k + 1, Len(s))
Front             == Head(sendList)

(* Mutant of Fits: the free cell of the ring is forgotten. *)
FitsAnyway(n) == n <= capacity

(* PushData(data, n) succeeds. *)
Fits(n) == n + 1 <= capacity - Len(sendBuf)

(* Mutant of NoBacklog: a new packet goes straight to the ring. *)
NoBacklogNeeded == TRUE

NoBacklog == sendList = <<>>

Init ==
    /\ capacity = 0 /\ sendBuf = <<>> /\ sendList = <<>>
    /\ lPc = "idle" /\ packet = 0
    /\ nPc = "top" /\ datum = 0
    /\ shouldEpollOut = FALSE /\ epollOut = FALSE
    /\ invalid = FALSE /\ netRef = TRUE /\ logicRef = TRUE /\ stopped = FALSE
    /\ dPc = "live" /\ offset = 0
    /\ kernel = 0 /\ reset = FALSE /\ aborted = FALSE
    /\ calls = 0 /\ accepted = 0 /\ wire = <<>> /\ garbled = {}

-----------------------------------------------------------------------------
(* The logic thread: SendPacket(data, n). *)
SendPacket(n) ==
    /\ lPc = "idle" /\ logicRef /\ ~stopped /\ calls < MaxPackets
    /\ lPc' = "push" /\ packet' = n
    /\ calls' = calls + 1
    /\ UNCHANGED <<capacity, sendList, accepted, garbled, net, destroy, world,
                   sendBuf, invalid, logicRef, stopped, aborted, wire>>

(* The loop over the backlog.  Msg has no copy constructor: push_back(tmp) *)
(* copied the pointer and the destructor of tmp freed the memory, so the   *)
(* bytes pushed are whatever is there now, and pop_front frees the memory  *)
(* a second time.                                                          *)
FlushFront ==
    /\ lPc = "push" /\ sendList # <<>> /\ Fits(Front.len)
    /\ sendBuf' = sendBuf \o Bytes(Front.start, Front.len)
    /\ sendList' = Tail(sendList)
    /\ \E lost \in {{}, Front.start .. Front.start + Front.len - 1} :
          garbled' = garbled \cup lost
    /\ aborted' \in BOOLEAN
    /\ UNCHANGED <<lPc, packet, calls, accepted, capacity, net, destroy, world,
                   invalid, logicRef, stopped, wire>>

(* The packet goes into the ring; the first one allocates it, and is       *)
(* dropped when it is too big even for the empty ring.                     *)
PushPacket ==
    /\ lPc = "push" /\ NoBacklog
    /\ Fits(packet) \/ capacity = 0
    /\ capacity' = Capacity
    /\ IF Fits(packet) \/ packet + 1 <= Capacity
       THEN /\ sendBuf' = sendBuf \o Bytes(accepted, packet)
            /\ accepted' = accepted + packet
       ELSE UNCHANGED <<sendBuf, accepted>>
    /\ lPc' = "idle" /\ packet' = 0
    /\ UNCHANGED <<calls, garbled, sendList, net, destroy, world, invalid,
                   logicRef, stopped, aborted, wire>>

(* The backlog's head, or with no backlog the packet, does not fit. *)
MustQueue ==
    IF sendList # <<>> THEN ~Fits(Front.len) ELSE capacity > 0 /\ ~Fits(packet)

(* The packet goes to the end of the backlog. *)
QueuePacket ==
    /\ lPc = "push" /\ MustQueue
    /\ sendList' = Append(sendList, [start |-> accepted, len |-> packet])
    /\ accepted' = accepted + packet
    /\ lPc' = "idle" /\ packet' = 0
    /\ UNCHANGED <<capacity, calls, garbled, net, destroy, world, sendBuf,
                   invalid, logicRef, stopped, aborted, wire>>

(* DoMsgParse finds an invalid head and calls OnError. *)
LogicError ==
    /\ lPc = "idle" /\ logicRef /\ ~stopped /\ ~invalid
    /\ invalid' = TRUE
    /\ UNCHANGED <<logic, net, destroy, world, sendBuf, logicRef, stopped, aborted, wire>>

(* TaskManager::DoMsgParse removes an invalid connection;                  *)
(* Server::_Recycle clears the rest once the network threads have ended.   *)
LogicRelease ==
    /\ lPc = "idle" /\ logicRef
    /\ IF stopped THEN ~netRef ELSE invalid
    /\ logicRef' = FALSE
    /\ UNCHANGED <<logic, net, destroy, world, sendBuf, invalid, stopped, aborted, wire>>

(* The main loop ends; the same thread then stops the network threads. *)
Stop ==
    /\ ~stopped /\ lPc = "idle"
    /\ stopped' = TRUE
    /\ UNCHANGED <<logic, net, destroy, world, sendBuf, invalid, logicRef, aborted, wire>>

-----------------------------------------------------------------------------
(* The network thread: one round of NetThread::Run for this socket.        *)

Remove == netRef' = FALSE /\ nPc' = "gone" /\ datum' = 0

(* IsAlive() is false: _OnExit takes the socket out of epoll and m_tasks.  *)
NetExit ==
    /\ nPc = "top" /\ stopped
    /\ Remove
    /\ UNCHANGED <<shouldEpollOut, epollOut, logic, destroy, world, sendBuf,
                   invalid, logicRef, stopped, aborted, wire>>

(* Send has nothing to do: the socket is invalid, m_bShouldEpollOut is set *)
(* (the rest goes out when epoll reports room), or the ring is empty.      *)
SendNothing ==
    /\ nPc = "top" /\ ~stopped
    /\ invalid \/ shouldEpollOut \/ sendBuf = <<>>
    /\ nPc' = "check"
    /\ UNCHANGED <<datum, shouldEpollOut, epollOut, netRef, logic, destroy, world,
                   sendBuf, invalid, logicRef, stopped, aborted, wire>>

(* Send: GetDatum. *)
SendDatum ==
    /\ nPc = "top" /\ ~stopped
    /\ ~invalid /\ ~shouldEpollOut /\ sendBuf # <<>>
    /\ datum' = Len(sendBuf) /\ nPc' = "send"
    /\ UNCHANGED <<shouldEpollOut, epollOut, netRef, logic, destroy, world, sendBuf,
                   invalid, logicRef, stopped, aborted, wire>>

(* The kernel takes the first k of the n bytes of s; none only when it is  *)
(* full (EAGAIN).                                                          *)
Taken(n, k) ==
    /\ ~reset /\ k <= n /\ kernel + k <= KernelRoom
    /\ k = 0 => kernel = KernelRoom
    /\ kernel' = kernel + k
    /\ wire' = wire \o SubSeq(sendBuf, 1, k)

(* _Send: less than all of the datum was taken. *)
ShortWrite(k) == k < datum

(* Mutant of MaskAfterSend: the flag is set and ModSocket is not called. *)
MaskAfterSendKept(k) == epollOut

(* Send adds EPOLLOUT to the mask after a short write. *)
MaskAfterSend(k) == ShortWrite(k) \/ epollOut

(* Send: _Send took k bytes. *)
SendBytes(k) ==
    /\ nPc = "send" /\ Taken(datum, k)
    /\ sendBuf' = Drop(sendBuf, k)
    /\ shouldEpollOut' = ShortWrite(k)
    /\ epollOut' = MaskAfterSend(k)
    /\ nPc' = "check" /\ datum' = 0
    /\ UNCHANGED <<netRef, logic, destroy, reset, invalid, logicRef, stopped, aborted>>

(* OnWritable drops EPOLLOUT from the mask when it has sent all it saw. *)
MaskAfterWrite(k) == ShortWrite(k) /\ epollOut

(* OnWritable: _Send took k bytes. *)
WriteBytes(k) ==
    /\ nPc = "write" /\ Taken(datum, k)
    /\ sendBuf' = Drop(sendBuf, k)
    /\ shouldEpollOut' = ShortWrite(k)
    /\ epollOut' = MaskAfterWrite(k)
    /\ nPc' = "top" /\ datum' = 0
    /\ UNCHANGED <<netRef, logic, destroy, reset, invalid, logicRef, stopped, aborted>>

(* writev fails: Send and OnWritable return false, the caller OnErrors. *)
WriteError ==
    /\ nPc \in {"send", "write"} /\ reset
    /\ invalid' = TRUE
    /\ nPc' = (IF nPc = "send" THEN "check" ELSE "top") /\ datum' = 0
    /\ UNCHANGED <<shouldEpollOut, epollOut, netRef, logic, destroy, world, sendBuf,
                   logicRef, stopped, aborted, wire>>

(* The end of the socket's turn: an invalid one is removed. *)
NetCheck ==
    /\ nPc = "check"
    /\ IF invalid THEN Remove
       ELSE nPc' = "poll" /\ UNCHANGED <<netRef, datum>>
    /\ UNCHANGED <<shouldEpollOut, epollOut, logic, destroy, world, sendBuf,
                   invalid, logicRef, stopped, aborted, wire>>

Writable == epollOut /\ (kernel < KernelRoom \/ reset)

(* epoll_wait times out. *)
PollNothing ==
    /\ nPc = "poll" /\ ~reset /\ ~Writable
    /\ nPc' = "top"
    /\ UNCHANGED <<datum, shouldEpollOut, epollOut, netRef, logic, destroy, world,
                   sendBuf, invalid, logicRef, stopped, aborted, wire>>

(* epoll_wait reports events: EPOLLERR or EPOLLHUP first, then EPOLLOUT,   *)
(* for which OnWritable takes what GetDatum returns.                       *)
PollEvent ==
    /\ nPc = "poll" /\ (reset \/ Writable)
    /\ invalid' = (invalid \/ reset)
    /\ IF Writable /\ sendBuf # <<>>
       THEN nPc' = "write" /\ datum' = Len(sendBuf) /\ UNCHANGED <<shouldEpollOut, epollOut>>
       ELSE /\ nPc' = "top" /\ UNCHANGED datum
            /\ shouldEpollOut' = (shouldEpollOut /\ ~Writable)
            /\ epollOut' = (epollOut /\ ~Writable)
    /\ UNCHANGED <<netRef, logic, destroy, world, sendBuf, logicRef, stopped,
                   aborted, wire>>

-----------------------------------------------------------------------------
(* The destructor, in the thread that dropped the last reference.          *)

(* The list's nodes free the messages again. *)
FreeBacklog == aborted' \in (IF sendList = <<>> THEN {FALSE} ELSE BOOLEAN)

(* _FinalSync: GetDatum. *)
Destroy ==
    /\ ~netRef /\ ~logicRef /\ dPc = "live"
    /\ IF sendBuf = <<>>
       THEN dPc' = "closed" /\ FreeBacklog
       ELSE dPc' = "sync" /\ UNCHANGED aborted
    /\ UNCHANGED <<offset, logic, net, world, sendBuf, invalid, logicRef, stopped, wire>>

SyncDone(k) == offset + k >= Len(sendBuf)

(* _SendFully hands all of the datum to writev in every round and only     *)
(* adds up what was taken; with EAGAIN it tries again at once.  Clear      *)
(* empties the ring at the end.                                            *)
SyncBytes(k) ==
    /\ dPc = "sync" /\ k > 0 /\ Taken(Len(sendBuf), k)
    /\ IF SyncDone(k)
       THEN dPc' = "closed" /\ offset' = 0 /\ sendBuf' = <<>> /\ FreeBacklog
       ELSE offset' = offset + k /\ UNCHANGED <<dPc, sendBuf, aborted>>
    /\ UNCHANGED <<logic, net, reset, invalid, logicRef, stopped>>

(* Mutant of SyncError: the loop does not look at the result -1. *)
SyncErrorRetried ==
    /\ dPc = "sync" /\ reset
    /\ UNCHANGED vars

SyncError ==
    /\ dPc = "sync" /\ reset
    /\ dPc' = "closed" /\ offset' = 0 /\ sendBuf' = <<>> /\ FreeBacklog
    /\ UNCHANGED <<logic, net, world, invalid, logicRef, stopped, wire>>

-----------------------------------------------------------------------------
(* External: the peer reads, or resets the connection.                     *)
PeerReads ==
    /\ kernel > 0 /\ ~reset
    /\ kernel' = kernel - 1
    /\ UNCHANGED <<reset, logic, net, destroy, sendBuf, invalid, logicRef, stopped,
                   aborted, wire>>

PeerResets ==
    /\ ~reset /\ dPc # "closed"
    /\ reset' = TRUE
    /\ UNCHANGED <<kernel, logic, net, destroy, sendBuf, invalid, logicRef, stopped,
                   aborted, wire>>

-----------------------------------------------------------------------------
LogicPush == FlushFront \/ PushPacket \/ QueuePacket
LogicCall == (\E n \in Sizes : SendPacket(n)) \/ LogicError \/ Stop
NetStep ==
    \/ NetExit \/ SendNothing \/ SendDatum \/ WriteError
    \/ \E k \in 0..KernelRoom : SendBytes(k) \/ WriteBytes(k)
    \/ NetCheck \/ PollNothing \/ PollEvent
DestroyStep == Destroy \/ SyncError \/ \E k \in 1..KernelRoom : SyncBytes(k)

Next ==
    /\ ~aborted
    /\ LogicPush \/ LogicCall \/ LogicRelease \/ NetStep \/ DestroyStep
       \/ PeerReads \/ PeerResets

(* Every thread is scheduled, the destructor's included; the server        *)
(* releases what it may release; a peer that has not reset reads.          *)
Fairness ==
    /\ WF_vars(~aborted /\ LogicPush)
    /\ WF_vars(~aborted /\ LogicRelease)
    /\ WF_vars(~aborted /\ NetStep)
    /\ WF_vars(~aborted /\ DestroyStep)
    /\ WF_vars(~aborted /\ PeerReads)

Spec == Init /\ [][Next]_vars /\ Fairness

-----------------------------------------------------------------------------
(* The variables keep their types. *)
TypeOK ==
    /\ capacity \in {0, Capacity}
    /\ sendBuf \in Seq(Nat) /\ Len(sendBuf) < Capacity
    /\ sendList \in Seq([start : Nat, len : Nat])
    /\ lPc \in {"idle", "push"} /\ packet \in Sizes \cup {0}
    /\ nPc \in {"top", "send", "check", "poll", "write", "gone"}
    /\ datum \in 0 .. Capacity - 1
    /\ {shouldEpollOut, epollOut, invalid, netRef, logicRef, stopped, reset,
        aborted} \subseteq BOOLEAN
    /\ dPc \in {"live", "sync", "closed"} /\ offset \in 0 .. Capacity
    /\ kernel \in 0..KernelRoom /\ calls \in 0..MaxPackets
    /\ accepted \in Nat /\ wire \in Seq(Nat) /\ garbled \subseteq Nat

(* The logic thread that pushes, the network thread that sends what it saw *)
(* a while ago and the destructor use m_sendBuf as the queue its class     *)
(* promises: they never store more than it holds, release only what is     *)
(* there, and store the bytes of the stream one after the other, whether   *)
(* they come from a packet or from the backlog.                            *)
Ringed     == IF sendList = <<>> THEN accepted ELSE Front.start
RingFifo   == INSTANCE ByteFifo WITH Bound <- Capacity - 1, fifo <- sendBuf,
                                     accepted <- Ringed
RingIsFifo == RingFifo!Spec

(* Until the destructor runs, the wire, the ring and the backlog together  *)
(* are the stream of accepted packets, in the order they were accepted:    *)
(* no packet overtakes one that waits in the backlog, and no byte is lost  *)
(* or sent twice, wherever the two threads are.                            *)
StreamInOrder ==
    dPc = "live" =>
        LET out  == wire \o sendBuf
            next == [i \in 1 .. Len(sendList) + 1 |->
                        IF i <= Len(sendList) THEN sendList[i].start ELSE accepted]
        IN  /\ out = Bytes(0, Len(out))
            /\ next[1] = Len(out)
            /\ \A i \in 1 .. Len(sendList) :
                  next[i + 1] = next[i] + sendList[i].len

(* What is in the ring reaches the wire, unless the connection breaks or   *)
(* the server stops, also when the kernel takes only part of it.           *)
BufferedIsSent ==
    \A i \in 1 .. MaxPackets * (Capacity - 1) :
        Len(wire \o sendBuf) >= i ~> Len(wire) >= i \/ invalid \/ stopped \/ aborted

(* The destructor's busy loop ends when the peer reads or resets. *)
FinalSyncEnds == dPc = "sync" ~> dPc = "closed"

-----------------------------------------------------------------------------
(* StreamSocket.cc:423, "drop too big packet whatever": no packet that can *)
(* never fit into the ring waits in the backlog and holds up the others.   *)
TooBigIsDropped == \A i \in 1 .. Len(sendList) : sendList[i].len < Capacity

(* StreamSocket.h:48, "Send data": what is put into the ring is the data   *)
(* the caller passed.                                                      *)
SendsTheData == garbled = {}

(* StreamSocket.h:18, "Abstraction for a TCP connection": the peer gets    *)
(* the bytes of the stream once each and in order.                         *)
PeerGetsStream == wire = Bytes(0, Len(wire))
=============================================================================
