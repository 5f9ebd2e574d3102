------------------------------ MODULE Messages ------------------------------
(***************************************************************************)
(* What an application sends through TaskManager (src/base): a message is  *)
(* put together in a StackBuffer with operator<< (Buffer.h), given to one  *)
(* connection or to all while the network threads mark connections         *)
(* invalid and DoMsgParse goes through the same map, and taken apart with  *)
(* operator>> by the receiver.                                             *)
(*                                                                         *)
(* A buffer is a sequence of bytes, each <<value, index, width>>: a byte   *)
(* of a number, from the lowest on.  A StackBuffer starts empty and is     *)
(* read from its start, so it never wraps.                                 *)
(***************************************************************************)
EXTENDS Naturals, Sequences, FiniteSets, SequencesExt

CONSTANTS Conns,       \* connections, by their id in the map
          Fields,      \* what messages are made of: see Field
          MaxFields,   \* bound: fields of a message
          N,           \* of StackBuffer<N>: the size of its array
          Room,        \* m_maxSize of StackBuffer<N>: N rounded up to a power of 2
          Short,       \* sizeof(unsigned short)
          ShortLimit,  \* 2 ^ 16
          Word,        \* sizeof(int)
          Long,        \* sizeof(size_t) and sizeof(long long)
          None

(* A number is a long long; an "int" or a "long" is one that the           *)
(* application turns to network order on its way.  The items of the others *)
(* are bytes; "list" stands for vector and list, "set" for set, multiset   *)
(* and map, whose entries are two items each.                              *)
Numbers == {"number", "int", "long"}
Kinds   == Numbers \cup {"array", "text", "list", "set"}
Field == [kind : Kinds, items : Seq(Nat)]

ASSUME MessagesAssumption ==
    /\ Conns \subseteq Nat \ {0} /\ IsFiniteSet(Conns)
    /\ Fields \subseteq Field /\ MaxFields \in Nat
    /\ \A f \in Fields : f.kind \in Numbers => Len(f.items) = 1
    /\ {Short, Word, Long, ShortLimit, N, Room} \subseteq Nat \ {0}
    /\ Room \in {2 ^ k : k \in 0 .. N} /\ N <= Room /\ Room < 2 * N
    /\ Long = 2 * Word /\ Room > 2 * Short
    /\ None \notin Nat

-----------------------------------------------------------------------------
(* Writing. *)

Number(v, width) == [i \in 1 .. width |-> <<v, i, width>>]
Chars(items)     == [i \in 1 .. Len(items) |-> <<items[i], 1, 1>>]

(* htonl and ntohl, on a host whose lowest byte comes first. *)
htonl(word) == Reverse(word)

(* Of a long long, each half is swapped, and the halves change places.     *)
(* Net2Host is the same.                                                   *)
Host2Net(bytes) ==
    IF Len(bytes) = Long
    THEN htonl(SubSeq(bytes, Word + 1, Long)) \o htonl(SubSeq(bytes, 1, Word))
    ELSE htonl(bytes)

(* PushData: what does not fit is left out.  The test is against the size  *)
(* that was rounded up; see InArray.                                       *)
Fits(buf, n)     == Len(buf) + n + 1 <= Room
Push(buf, bytes) == IF Fits(buf, Len(bytes)) THEN buf \o bytes ELSE buf

(* Mutant of Width: a set's count is read as a list's. *)
WidthOfShort(kind) == IF kind = "array" THEN Word ELSE Short

(* The width in which the number of items is read ... *)
Width(kind) ==
    CASE kind = "array"            -> Word
      [] kind \in {"text", "list"} -> Short
      [] kind = "set"              -> Long

(* ... and the count that is written, as wide as the writer's cast. *)
Count(f) ==
    CASE f.kind = "array"            -> Number(Len(f.items), Word)
      [] f.kind \in {"text", "list"} -> Number(Len(f.items) % ShortLimit, Short)
      [] f.kind = "set"              -> Number(Len(f.items), Long)

(* Item by item: the first ones, as many as fit. *)
PushEach(buf, items) ==
    buf \o SubSeq(Chars(items), 1, IF Fits(buf, Len(items)) THEN Len(items)
                                   ELSE Room - 1 - Len(buf))

(* A text goes in whole or not at all: the write position moves back over  *)
(* the count, even if that did not fit either.                             *)
PutText(buf, f) ==
    LET counted == Push(buf, Count(f))
    IN  IF f.items = <<>> \/ Fits(counted, Len(f.items))
        THEN counted \o Chars(f.items)
        ELSE SubSeq(counted, 1, Len(counted) - Short)

(* operator<<.  A number is copied as it lies in memory.  Of an empty      *)
(* container not even the count is written.                                *)
Put(buf, f) ==
    CASE f.kind = "number"         -> Push(buf, Number(f.items[1], Long))
      [] f.kind = "text"           -> PutText(buf, f)
      [] f.kind = "array"          -> PushEach(Push(buf, Count(f)), f.items)
      [] f.kind \in {"list", "set"} ->
            IF f.items = <<>> THEN buf ELSE PushEach(Push(buf, Count(f)), f.items)

(* The application writes a field: a number that any host should be able   *)
(* to read goes through Host2Net before operator<< gets it.                *)
NumberWidth(kind) == IF kind = "int" THEN Word ELSE Long

WriteField(buf, f) ==
    IF f.kind \in {"int", "long"}
    THEN Push(buf, Host2Net(Number(f.items[1], NumberWidth(f.kind))))
    ELSE Put(buf, f)

(* The buffer after each field. *)
Written(message) ==
    LET buf[i \in 0 .. Len(message)] ==
            IF i = 0 THEN <<>> ELSE WriteField(buf[i - 1], message[i])
    IN  buf[Len(message)]

(* No byte is written behind the array, which is smaller than m_maxSize    *)
(* unless N is a power of 2: not even of the count of a text that is taken *)
(* back.                                                                   *)
InArray(message) ==
    \A i \in 1 .. Len(message) :
        LET buf == Written(SubSeq(message, 1, i - 1))
        IN  /\ Len(WriteField(buf, message[i])) <= N
            /\ message[i].kind = "text" => Len(Push(buf, Count(message[i]))) <= N

-----------------------------------------------------------------------------
(* Reading.  PeekData fails if there is too little, and then the variable  *)
(* keeps what it had: nothing anybody wrote.                               *)

Value(bytes) ==
    IF bytes = Number(bytes[1][1], Len(bytes)) THEN bytes[1][1] ELSE None

(* What is read as a number of `width` bytes, which the reader turns to its *)
(* own order if it is in network order, and what is left.                  *)
ReadNumber(rest, width, order) ==
    LET bytes == SubSeq(rest, 1, width)
    IN  IF Len(rest) < width
        THEN [value |-> None, rest |-> rest]
        ELSE [value |-> Value(IF order = "net" THEN Host2Net(bytes) ELSE bytes),
              rest  |-> SubSeq(rest, width + 1, Len(rest))]

(* Items of one byte each. *)
ReadEach(rest, n) ==
    [items |-> [i \in 1 .. n |-> IF i <= Len(rest) THEN Value(<<rest[i]>>) ELSE None],
     rest  |-> SubSeq(rest, n + 1, Len(rest))]

(* operator>> of a field of this kind.  A text whose count is missing is   *)
(* empty; with another count nobody wrote there is no telling what is read. *)
Get(rest, kind) ==
    IF kind = "number"
    THEN LET r == ReadNumber(rest, Long, "host")
         IN  [items |-> <<r.value>>, rest |-> r.rest]
    ELSE LET count == ReadNumber(rest, Width(kind), "host")
         IN  IF count.value # None THEN ReadEach(count.rest, count.value)
             ELSE IF kind = "text" /\ count.rest = rest
                  THEN [items |-> <<>>, rest |-> rest]
                  ELSE [items |-> <<None>>, rest |-> <<>>]

(* The application reads a field: Net2Host after operator>>. *)
ReadField(rest, kind) ==
    IF kind \in {"int", "long"}
    THEN LET r == ReadNumber(rest, NumberWidth(kind), "net")
         IN  [items |-> <<r.value>>, rest |-> r.rest]
    ELSE Get(rest, kind)

(* The receiver knows the kinds of the fields and their order. *)
ReadBack(bytes, message) ==
    LET Then(r, f, g) == [fields |-> Append(r.fields, [f EXCEPT !.items = g.items]),
                          rest   |-> g.rest]
        read[i \in 0 .. Len(message)] ==
            IF i = 0 THEN [fields |-> <<>>, rest |-> bytes]
            ELSE Then(read[i - 1], message[i], ReadField(read[i - 1].rest, message[i].kind))
    IN  read[Len(message)]

-----------------------------------------------------------------------------
(* The logic thread's TaskManager. *)

(* A call of Broadcast, BroadcastExceptID or SendToID. *)
Call == [kind : {"all", "except", "one"},
         id : Conns,                \* for the last two
         it : Conns \cup {None},    \* the iterator
         to : Conns \cup {None},    \* found valid, or not looked at: sent to next
         done : BOOLEAN]

ASSUME NoneIsNoCall == None \notin Call

VARIABLES
    waiting,  \* m_newTasks
    entries,  \* the map: the ids in it
    invalid,  \* m_invalid, by connection
    gone,     \* removed from the map
    pc, it,   \* the logic thread in DoMsgParse: idle, round, handler; the iterator
    call,     \* the call to send that is under way, or None
    message,  \* what it sends
    inbox     \* by connection, the packets the call has sent to it

vars == <<waiting, entries, invalid, gone, pc, it, call, message, inbox>>

(* The iterator behind id in a map of these ids, from 0 the first. *)
After(ids, id) ==
    LET later == {d \in ids : d > id}
    IN  IF later = {} THEN None ELSE CHOOSE d \in later : \A e \in later : d <= e

Nothing == [c \in Conns |-> <<>>]

Init ==
    /\ waiting = {} /\ entries = {} /\ gone = {}
    /\ invalid = [c \in Conns |-> FALSE]
    /\ pc = "idle" /\ it = None
    /\ call = None /\ message = <<>> /\ inbox = Nothing

(* A network thread: AddTask of a new connection; any error. *)
AddTask(c) ==
    /\ c \notin waiting \cup entries \cup gone
    /\ waiting' = waiting \cup {c}
    /\ UNCHANGED <<entries, invalid, gone, pc, it, call, message, inbox>>

Invalidate(c) ==
    /\ c \in waiting \cup entries /\ ~invalid[c]
    /\ invalid' = [invalid EXCEPT ![c] = TRUE]
    /\ UNCHANGED <<waiting, entries, gone, pc, it, call, message, inbox>>

(* DoMsgParse takes the new connections, unless TryLock fails. *)
StartRound(taken) ==
    /\ pc = "idle" /\ call = None
    /\ taken \in {{}, waiting}
    /\ entries' = entries \cup taken /\ waiting' = waiting \ taken
    /\ pc' = "round" /\ it' = After(entries', 0)
    /\ UNCHANGED <<invalid, gone, call, message, inbox>>

(* ExecEveryEntry moves on before DoCmd::Exec removes the connection, or   *)
(* lets it parse.                                                          *)
Visit ==
    /\ pc = "round" /\ it # None
    /\ it' = After(entries, it)
    /\ IF invalid[it]
       THEN /\ entries' = entries \ {it} /\ gone' = gone \cup {it}
            /\ UNCHANGED pc
       ELSE pc' = "handler" /\ UNCHANGED <<entries, gone>>
    /\ UNCHANGED <<waiting, invalid, call, message, inbox>>

(* The handlers of the connection return, or the round is over. *)
GoOn ==
    /\ call = None
    /\ \/ pc = "handler" /\ pc' = "round"
       \/ pc = "round" /\ it = None /\ pc' = "idle"
    /\ UNCHANGED <<waiting, entries, invalid, gone, it, call, message, inbox>>

-----------------------------------------------------------------------------
(* Broadcast, BroadcastExceptID and SendToID, from a handler or from the   *)
(* main loop.  An application that has written behind the array of its     *)
(* StackBuffer is not followed any further.                                *)

Send(kind, id, m) ==
    /\ call = None /\ pc \in {"idle", "handler"}
    /\ InArray(m)
    /\ call' = [kind |-> kind, id |-> id, it |-> After(entries, 0), to |-> None,
                done |-> FALSE]
    /\ message' = m
    /\ UNCHANGED <<waiting, entries, invalid, gone, pc, it, inbox>>

Calling(kind) == call # None /\ call.kind = kind /\ ~call.done /\ call.to = None

(* Mutant of ExecAll: the end is tested after the iterator has moved on. *)
ExecAllButLast ==
    /\ Calling("all")
    /\ call' = IF call.it = None \/ invalid[call.it] \/ After(entries, call.it) = None
               THEN [call EXCEPT !.done = TRUE]
               ELSE [call EXCEPT !.it = After(entries, call.it), !.to = call.it]
    /\ UNCHANGED <<waiting, entries, invalid, gone, pc, it, message, inbox>>

(* Broadcast stops at a connection that is invalid. *)
ExecAll ==
    /\ Calling("all")
    /\ call' = IF call.it = None \/ invalid[call.it]
               THEN [call EXCEPT !.done = TRUE]
               ELSE [call EXCEPT !.it = After(entries, call.it), !.to = call.it]
    /\ UNCHANGED <<waiting, entries, invalid, gone, pc, it, message, inbox>>

(* BroadcastExceptID leaves out one. *)
ExecExcept ==
    /\ Calling("except")
    /\ call' = IF call.it = None
               THEN [call EXCEPT !.done = TRUE]
               ELSE [call EXCEPT !.it = After(entries, call.it),
                                 !.to = IF call.it = call.id THEN None ELSE call.it]
    /\ UNCHANGED <<waiting, entries, invalid, gone, pc, it, message, inbox>>

(* SendToID looks the connection up. *)
Find ==
    /\ Calling("one")
    /\ call' = IF call.it = None \/ call.id \notin entries \/ invalid[call.id]
               THEN [call EXCEPT !.done = TRUE]
               ELSE [call EXCEPT !.it = None, !.to = call.id]
    /\ UNCHANGED <<waiting, entries, invalid, gone, pc, it, message, inbox>>

(* SendPacket, which returns true whatever it does (SendPath has what);    *)
(* nothing at all for an empty buffer.                                     *)
SendPacket ==
    /\ call # None /\ call.to # None
    /\ inbox' = IF Written(message) = <<>> THEN inbox
                ELSE [inbox EXCEPT ![call.to] = Append(@, Written(message))]
    /\ call' = [call EXCEPT !.to = None]
    /\ UNCHANGED <<waiting, entries, invalid, gone, pc, it, message>>

Return ==
    /\ call # None /\ call.done
    /\ call' = None /\ message' = <<>> /\ inbox' = Nothing
    /\ UNCHANGED <<waiting, entries, invalid, gone, pc, it>>

MessagesOf(n) == UNION {[1 .. k -> Fields] : k \in 0 .. n}

Next ==
    \/ \E c \in Conns : AddTask(c) \/ Invalidate(c)
    \/ \E taken \in SUBSET Conns : StartRound(taken)
    \/ Visit \/ GoOn
    \/ \E kind \in {"all", "except", "one"}, id \in Conns, m \in MessagesOf(MaxFields) :
          (kind = "all" => \A d \in Conns : id <= d) /\ Send(kind, id, m)
    \/ ExecAll \/ ExecExcept \/ Find \/ SendPacket \/ Return

Spec == Init /\ [][Next]_vars

-----------------------------------------------------------------------------
(* A message that operator<< and operator>> carry: it fits into the        *)
(* StackBuffer, has no empty list or set, and no text or list longer than  *)
(* an unsigned short can tell.                                             *)
Bytes(f) == IF f.kind \in Numbers THEN NumberWidth(f.kind)
            ELSE Width(f.kind) + Len(f.items)
Size(m)  == LET size[i \in 0 .. Len(m)] ==
                    IF i = 0 THEN 0 ELSE size[i - 1] + Bytes(m[i])
            IN  size[Len(m)]
Carried(m) ==
    /\ Size(m) < Room
    /\ \A i \in 1 .. Len(m) :
          /\ m[i].kind \in {"list", "set"} => m[i].items # <<>>
          /\ m[i].kind \in {"text", "list"} => Len(m[i].items) < ShortLimit

(* Whoever gets a message that is carried reads back what was written,     *)
(* field by field, and nothing is left over; a number that comes first is  *)
(* on the way in network order if the application asked for that, and as   *)
(* it lay in memory otherwise.                                             *)
ReadsBack ==
    \A c \in Conns :
        inbox[c] # <<>> /\ Carried(message) =>
            /\ ReadBack(Head(inbox[c]), message) = [fields |-> message, rest |-> <<>>]
            /\ message[1].kind \in Numbers =>
                  LET width == NumberWidth(message[1].kind)
                      host  == Number(message[1].items[1], width)
                  IN  SubSeq(Head(inbox[c]), 1, width) =
                         IF message[1].kind = "number" THEN host ELSE Reverse(host)

(* A call sends to each connection once at most, and to nobody it should   *)
(* not.  When it is done every one it should reach has the message:        *)
(* BroadcastExceptID reaches all but one, SendToID a connection that is    *)
(* valid, Broadcast those in front of the first that is invalid.           *)
Delivered ==
    call # None =>
        LET sent  == Written(message)
            got   == {c \in Conns : inbox[c] # <<>>}
            valid == {c \in entries : \A d \in entries : d <= c => ~invalid[d]}
        IN  /\ got \subseteq CASE call.kind = "all"    -> entries
                               [] call.kind = "except" -> entries \ {call.id}
                               [] call.kind = "one"    -> entries \cap {call.id}
            /\ \A c \in got : inbox[c] = <<sent>>
            /\ call.done /\ sent # <<>> =>
                  CASE call.kind = "all"    -> valid \subseteq got
                    [] call.kind = "except" -> entries \ {call.id} \subseteq got
                    [] call.kind = "one"    ->
                          call.id \in entries /\ ~invalid[call.id] => call.id \in got
=============================================================================
