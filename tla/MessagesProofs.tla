--------------------------- MODULE MessagesProofs ---------------------------
(***************************************************************************)
(* Proofs about Messages for any connections, any widths and any fields:   *)
(* who gets what TaskManager sends, and that the receiver reads back what  *)
(* was written.                                                            *)
(***************************************************************************)
EXTENDS Messages, WellFoundedInduction, SequenceTheorems, TLAPS

(* The collections of DoMsgParse, and what a call has sent so far. *)
Types ==
    /\ waiting \subseteq Conns /\ entries \subseteq Conns
    /\ invalid \in [Conns -> BOOLEAN]
    /\ call \in Call \cup {None} /\ DOMAIN inbox = Conns
    /\ call = None => inbox = Nothing
    /\ message \in Seq(Fields)

Got  == {c \in Conns : inbox[c] # <<>>}
Once == \A c \in Got : inbox[c] = <<Written(message)>> /\ Written(message) # <<>>

(* Nobody goes through the map while a call does, but it may be called by  *)
(* a handler DoMsgParse runs.                                              *)
Undisturbed ==
    call # None =>
        /\ pc \in {"idle", "handler"}
        /\ call.it \in entries \cup {None} /\ call.to \in entries \cup {None}
        /\ call.done => call.to = None
        /\ call.to \notin Got

(* The connections the iterator has left behind, but for the one that is   *)
(* sent to next.                                                           *)
Passed == {c \in entries : call.it = None \/ c < call.it} \ {call.to}

(* Broadcast and BroadcastExceptID have served those they have passed ...  *)
Broadcasting ==
    /\ call # None /\ call.kind = "all" =>
          /\ Got \subseteq Passed
          /\ call.to # None /\ call.it # None => call.to < call.it
          /\ Written(message) # <<>> => Passed \subseteq Got
          /\ call.done /\ call.it # None => invalid[call.it]
    /\ call # None /\ call.kind = "except" =>
          /\ Got \subseteq Passed \ {call.id} /\ call.to # call.id
          /\ call.to # None /\ call.it # None => call.to < call.it
          /\ Written(message) # <<>> => Passed \ {call.id} \subseteq Got
          /\ call.done => call.it = None

(* ... and SendToID the one it has found. *)
Finding ==
    call # None /\ call.kind = "one" =>
        LET reachable == call.id \in entries /\ ~invalid[call.id]
        IN  /\ Got \subseteq {call.id} \cap entries /\ call.to \in {call.id, None}
            /\ Got # {} \/ call.to # None => call.it = None
            /\ call.it = None /\ reachable /\ Written(message) # <<>> =>
                  call.to = call.id \/ call.id \in Got
            /\ call.done /\ reachable => call.it = None

(* The inductive invariant. *)
Inv == Types /\ Once /\ Undisturbed /\ Broadcasting /\ Finding

-----------------------------------------------------------------------------
(* The iterator behind id: the least of the map's ids above it. *)
LEMMA AfterIsNext ==
  ASSUME NEW ids \in SUBSET Conns, NEW id \in Nat
  PROVE  \/ After(ids, id) = None /\ \A c \in ids : c <= id
         \/ /\ After(ids, id) \in ids /\ id < After(ids, id)
            /\ \A c \in ids : c <= id \/ After(ids, id) <= c
<1> DEFINE later == {d \in ids : d > id}
<1>1. ids \subseteq Nat
  BY MessagesAssumption
<1>2. CASE later = {}
  <2>1. \A c \in ids : c <= id
    BY <1>1, <1>2
  <2> QED
    BY <1>2, <2>1 DEF After
<1>3. CASE later # {}
  <2>1. later \in SUBSET Nat
    BY <1>1
  <2>2. PICK d \in later : \A e \in later : ~ (<<e, d>> \in OpToRel(<, Nat))
    BY <1>3, <2>1, WFMin, NatLessThanWellFounded, Zenon
  <2>3. \A e \in later : ~ (e < d)
    BY <2>1, <2>2 DEF OpToRel
  <2>4. \A e \in later : d <= e
    BY <2>1, <2>3
  <2>5. After(ids, id) \in later /\ \A e \in later : After(ids, id) <= e
    BY <1>3, <2>4 DEF After
  <2> QED
    BY <1>1, <2>5
<1> QED
  BY <1>2, <1>3

(* Moving on leaves behind what was before, and where the iterator was. *)
LEMMA MoveOn ==
  ASSUME NEW ids \in SUBSET Conns, NEW i \in ids
  PROVE  /\ After(ids, i) \in ids \cup {None}
         /\ After(ids, i) # None => i < After(ids, i)
         /\ \A c \in ids : After(ids, i) = None \/ c < After(ids, i) <=> c < i \/ c = i
<1>1. ids \subseteq Nat /\ None \notin ids
  BY MessagesAssumption
<1>2. CASE After(ids, i) = None /\ \A c \in ids : c <= i
  BY <1>1, <1>2
<1>3. CASE /\ After(ids, i) \in ids /\ i < After(ids, i)
           /\ \A c \in ids : c <= i \/ After(ids, i) <= c
  <2>1. After(ids, i) # None
    BY <1>1, <1>3
  <2>2. ASSUME NEW c \in ids PROVE c < After(ids, i) <=> c < i \/ c = i
    <3>1. \A a, x, y \in Nat : x < a /\ (y <= x \/ a <= y) => (y < a <=> y < x \/ y = x)
      OBVIOUS
    <3> QED
      BY <1>1, <1>3, <3>1
  <2> QED
    BY <1>3, <2>1, <2>2
<1> QED
  BY <1>1, <1>2, <1>3, AfterIsNext

(* Before the first nothing has been left behind. *)
LEMMA Begins ==
  ASSUME NEW ids \in SUBSET Conns
  PROVE  /\ After(ids, 0) \in ids \cup {None}
         /\ After(ids, 0) = None => ids = {}
         /\ \A c \in ids : ~ (After(ids, 0) = None \/ c < After(ids, 0))
<1>1. ids \subseteq Nat \ {0} /\ None \notin ids
  BY MessagesAssumption
<1>2. \A c \in ids : ~ (c <= 0)
  BY <1>1
<1>3. CASE After(ids, 0) = None /\ \A c \in ids : c <= 0
  BY <1>2, <1>3
<1>4. CASE /\ After(ids, 0) \in ids
           /\ \A c \in ids : c <= 0 \/ After(ids, 0) <= c
  <2>1. \A a, c \in Nat : a <= c => ~ (c < a)
    OBVIOUS
  <2> QED
    BY <1>1, <1>2, <1>4, <2>1
<1> QED
  BY <1>3, <1>4, AfterIsNext

LEMMA InitInv == Init => Inv
<1> SUFFICES ASSUME Init PROVE Inv
  OBVIOUS
<1>1. Types
  BY DEF Init, Types, Nothing
<1>2. Once
  BY DEF Init, Once, Got, Nothing
<1> QED
  BY <1>1, <1>2 DEF Init, Inv, Undisturbed, Broadcasting, Finding

-----------------------------------------------------------------------------
(* What goes on besides a call: it sees the same map, and connections only *)
(* become invalid.                                                         *)
LEMMA BesidesInv ==
  ASSUME Inv, waiting' \subseteq Conns, entries' \subseteq Conns,
         invalid' \in [Conns -> BOOLEAN], \A c \in Conns : invalid[c] => invalid'[c],
         UNCHANGED <<call, message, inbox>>,
         call # None => entries' = entries /\ pc' \in {"idle", "handler"}
  PROVE  Inv'
<1>1. Got' = Got /\ (Passed' = Passed \/ call = None)
  BY DEF Got, Passed
<1>2. Types'
  BY DEF Inv, Types
<1>3. Once'
  BY <1>1 DEF Inv, Once
<1>4. Undisturbed'
  BY <1>1 DEF Inv, Undisturbed
<1>5. call # None => call.id \in Conns /\ (call.it # None => call.it \in Conns)
  BY DEF Inv, Types, Call
<1>6. Broadcasting'
  <2>1. CASE call = None
    BY <2>1 DEF Broadcasting
  <2>2. CASE call # None
    <3>1. Got' = Got /\ Passed' = Passed /\ call' = call /\ message' = message
      BY <1>1, <2>2
    <3>2. call.it # None /\ invalid[call.it] => invalid'[call.it]
      <4>1. call.it # None => call.it \in Conns
        BY <1>5, <2>2
      <4> QED
        BY <4>1, Zenon
    <3> QED
      BY <3>1, <3>2 DEF Inv, Broadcasting
  <2> QED
    BY <2>1, <2>2
<1>7. Finding'
  BY <1>1, <1>5 DEF Inv, Finding
<1> QED
  BY <1>2, <1>3, <1>4, <1>6, <1>7 DEF Inv

LEMMA ParseInv ==
  ASSUME Inv,
         \/ \E c \in Conns : AddTask(c) \/ Invalidate(c)
         \/ \E taken \in SUBSET Conns : StartRound(taken)
         \/ Visit \/ GoOn
  PROVE  Inv'
<1>1. CASE \E c \in Conns : AddTask(c)
  BY <1>1, BesidesInv DEF AddTask, Inv, Types, Undisturbed
<1>2. ASSUME NEW c \in Conns, Invalidate(c)
      PROVE  Inv'
  <2>1. invalid' \in [Conns -> BOOLEAN] /\ \A d \in Conns : invalid[d] => invalid'[d]
    BY <1>2 DEF Invalidate, Inv, Types
  <2> QED
    BY <1>2, <2>1, BesidesInv DEF Invalidate, Inv, Types, Undisturbed
<1>3. CASE \E taken \in SUBSET Conns : StartRound(taken)
  BY <1>3, BesidesInv DEF StartRound, Inv, Types
<1>4. CASE Visit
  <2>1. call = None
    BY <1>4 DEF Visit, Inv, Undisturbed
  <2> QED
    BY <1>4, <2>1, BesidesInv DEF Visit, Inv, Types
<1>5. CASE GoOn
  BY <1>5, BesidesInv DEF GoOn, Inv, Types
<1> QED
  BY <1>1, <1>2, <1>3, <1>4, <1>5

-----------------------------------------------------------------------------
(* The calls. *)

LEMMA SendInv ==
  ASSUME Inv, NEW kind \in {"all", "except", "one"}, NEW id \in Conns,
         NEW m \in Seq(Fields), Send(kind, id, m)
  PROVE  Inv'
<1>1. /\ call = None /\ pc \in {"idle", "handler"}
      /\ call' = [kind |-> kind, id |-> id, it |-> After(entries, 0), to |-> None,
                  done |-> FALSE]
      /\ message' = m /\ UNCHANGED <<waiting, entries, invalid, gone, pc, it, inbox>>
  BY DEF Send
<1>2. entries \subseteq Conns /\ inbox = Nothing /\ DOMAIN inbox = Conns
  BY <1>1 DEF Inv, Types
<1>3. /\ After(entries, 0) \in entries \cup {None}
      /\ After(entries, 0) = None => entries = {}
      /\ \A c \in entries : ~ (After(entries, 0) = None \/ c < After(entries, 0))
  BY <1>2, Begins
<1>4. /\ call' \in Call /\ call' # None
      /\ call'.kind = kind /\ call'.id = id /\ call'.it = After(entries, 0)
      /\ call'.to = None /\ call'.done = FALSE
  <2>1. /\ call'.kind = kind /\ call'.id = id /\ call'.it = After(entries, 0)
        /\ call'.to = None /\ call'.done = FALSE
    BY <1>1
  <2>2. After(entries, 0) \in Conns \cup {None}
    BY <1>2, <1>3
  <2>3. call' \in Call
    BY <1>1, <2>2 DEF Call
  <2> QED
    BY <2>1, <2>3, NoneIsNoCall
<1>5. Got' = {} /\ Passed' = {}
  BY <1>1, <1>2, <1>3, <1>4 DEF Got, Nothing, Passed
<1>6. Types' /\ Once'
  BY <1>1, <1>4, <1>5 DEF Inv, Types, Once
<1>7. Undisturbed'
  BY <1>1, <1>3, <1>4, <1>5 DEF Undisturbed
<1>8. Broadcasting'
  BY <1>2, <1>4, <1>5, MessagesAssumption DEF Broadcasting
<1>9. Finding'
  BY <1>1, <1>3, <1>4, <1>5 DEF Finding
<1> QED
  BY <1>6, <1>7, <1>8, <1>9 DEF Inv

(* A step of a call that sends nothing yet: it is done, or moves on. *)
LEMMA IteratorMoves ==
  ASSUME Inv, call # None, ~call.done, call.to = None, call.it # None,
         call' = [call EXCEPT !.it = After(entries, call.it), !.to = call'.to],
         call'.to \in {call.it, None}, entries' = entries
  PROVE  /\ call' \in Call /\ call' # None
         /\ call'.kind = call.kind /\ call'.id = call.id /\ call'.done = FALSE
         /\ call'.it \in entries \cup {None} /\ call.it \in entries
         /\ call'.it # None => call.it < call'.it
         /\ call.it \notin Passed
         /\ Passed' = (Passed \cup {call.it}) \ {call'.to}
<1>1. /\ call \in Call /\ call.it \in entries /\ entries \subseteq Conns
  BY DEF Inv, Types, Undisturbed
<1>2. /\ call'.kind = call.kind /\ call'.id = call.id /\ call'.done = FALSE
      /\ call'.it = After(entries, call.it)
  BY <1>1 DEF Call
<1>3. /\ call'.it \in entries \cup {None}
      /\ call'.it # None => call.it < call'.it
      /\ \A c \in entries : call'.it = None \/ c < call'.it <=> c < call.it \/ c = call.it
  BY <1>1, <1>2, MoveOn
<1>4. call' \in Call
  BY <1>1, <1>2, <1>3 DEF Call
<1>5. entries \subseteq Nat /\ None \notin entries
  BY <1>1, MessagesAssumption
<1>6. Passed = {c \in entries : c < call.it}
  BY <1>5 DEF Passed
<1>7. Passed' = {c \in entries : c < call.it \/ c = call.it} \ {call'.to}
  BY <1>3 DEF Passed
<1>8. ~ (call.it < call.it)
  BY <1>1, <1>5
<1> QED
  BY <1>1, <1>2, <1>3, <1>4, <1>6, <1>7, <1>8, NoneIsNoCall

LEMMA DoneKeeps ==
  ASSUME Inv, call # None, call.to = None, call' = [call EXCEPT !.done = TRUE],
         UNCHANGED <<waiting, entries, invalid, pc, message, inbox>>,
         call.kind = "all" /\ call.it # None => invalid[call.it],
         call.kind = "except" => call.it = None,
         call.kind = "one" => call.it = None \/ call.id \notin entries \/ invalid[call.id]
  PROVE  Inv'
<1>1. call \in Call
  BY DEF Inv, Types
<1>2. /\ call' \in Call /\ call' # None /\ call'.kind = call.kind /\ call'.id = call.id
      /\ call'.it = call.it /\ call'.to = None /\ call'.done = TRUE
  BY <1>1, NoneIsNoCall DEF Call
<1>3. Got' = Got /\ Passed' = Passed
  BY <1>2 DEF Got, Passed
<1>4. Types' /\ Once' /\ Undisturbed'
  BY <1>2, <1>3 DEF Inv, Types, Once, Undisturbed
<1>5. Broadcasting'
  BY <1>2, <1>3 DEF Inv, Broadcasting
<1>6. Finding'
  BY <1>2, <1>3 DEF Inv, Finding
<1> QED
  BY <1>4, <1>5, <1>6 DEF Inv

LEMMA ExecAllInv ==
  ASSUME Inv, ExecAll
  PROVE  Inv'
<1>1. /\ call # None /\ call.kind = "all" /\ ~call.done /\ call.to = None
      /\ UNCHANGED <<waiting, entries, invalid, gone, pc, it, message, inbox>>
  BY DEF ExecAll, Calling
<1>2. CASE call.it = None \/ invalid[call.it]
  BY <1>1, <1>2, DoneKeeps DEF ExecAll
<1>3. CASE ~ (call.it = None \/ invalid[call.it])
  <2>1. call \in Call /\ call.it # None
        /\ call' = [call EXCEPT !.it = After(entries, call.it), !.to = call.it]
    BY <1>1, <1>3 DEF ExecAll, Inv, Types
  <2>2. call'.to = call.it
    BY <2>1 DEF Call
  <2>3. /\ call' \in Call /\ call' # None
        /\ call'.kind = call.kind /\ call'.id = call.id /\ call'.done = FALSE
        /\ call'.it \in entries \cup {None} /\ call.it \in entries
        /\ call'.it # None => call.it < call'.it
        /\ call.it \notin Passed
        /\ Passed' = (Passed \cup {call.it}) \ {call'.to}
    BY <1>1, <2>1, <2>2, IteratorMoves
  <2>4. Got' = Got /\ Passed' = Passed
    BY <1>1, <2>2, <2>3 DEF Got
  <2>5. Types' /\ Once'
    BY <1>1, <2>3, <2>4 DEF Inv, Types, Once
  <2>6. call.it \notin Got
    BY <1>1, <2>3 DEF Inv, Broadcasting
  <2>7. Undisturbed'
    BY <1>1, <2>2, <2>3, <2>4, <2>6 DEF Inv, Undisturbed
  <2>8. Broadcasting' /\ Finding'
    BY <1>1, <2>2, <2>3, <2>4 DEF Inv, Broadcasting, Finding
  <2> QED
    BY <2>5, <2>7, <2>8 DEF Inv
<1> QED
  BY <1>2, <1>3

LEMMA ExecExceptInv ==
  ASSUME Inv, ExecExcept
  PROVE  Inv'
<1>1. /\ call # None /\ call.kind = "except" /\ ~call.done /\ call.to = None
      /\ UNCHANGED <<waiting, entries, invalid, gone, pc, it, message, inbox>>
  BY DEF ExecExcept, Calling
<1>2. CASE call.it = None
  BY <1>1, <1>2, DoneKeeps DEF ExecExcept
<1>3. CASE call.it # None
  <2>1. call \in Call
        /\ call' = [call EXCEPT !.it = After(entries, call.it),
                                !.to = IF call.it = call.id THEN None ELSE call.it]
    BY <1>1, <1>3 DEF ExecExcept, Inv, Types
  <2>2. call'.to = IF call.it = call.id THEN None ELSE call.it
    BY <2>1 DEF Call
  <2>3. /\ call' \in Call /\ call' # None
        /\ call'.kind = call.kind /\ call'.id = call.id /\ call'.done = FALSE
        /\ call'.it \in entries \cup {None} /\ call.it \in entries
        /\ call'.it # None => call.it < call'.it
        /\ call.it \notin Passed
        /\ Passed' = (Passed \cup {call.it}) \ {call'.to}
    BY <1>1, <1>3, <2>1, <2>2, IteratorMoves
  <2>4. Got' = Got /\ Passed' \ {call.id} = Passed \ {call.id}
    <3>1. None \notin Passed
      BY MessagesAssumption DEF Passed, Inv, Types
    <3> QED
      BY <1>1, <2>2, <2>3, <3>1 DEF Got
  <2>5. Types' /\ Once'
    BY <1>1, <2>3, <2>4 DEF Inv, Types, Once
  <2>6. call.it \notin Got /\ None \notin Got /\ call.id # None
    BY <1>1, <2>1, <2>3, MessagesAssumption DEF Inv, Broadcasting, Got, Call
  <2>7. Undisturbed'
    BY <1>1, <2>2, <2>3, <2>4, <2>6 DEF Inv, Undisturbed
  <2>8. Broadcasting' /\ Finding'
    BY <1>1, <2>2, <2>3, <2>4, <2>6 DEF Inv, Broadcasting, Finding
  <2> QED
    BY <2>5, <2>7, <2>8 DEF Inv
<1> QED
  BY <1>2, <1>3

LEMMA FindInv ==
  ASSUME Inv, Find
  PROVE  Inv'
<1>1. /\ call # None /\ call.kind = "one" /\ ~call.done /\ call.to = None
      /\ UNCHANGED <<waiting, entries, invalid, gone, pc, it, message, inbox>>
  BY DEF Find, Calling
<1> DEFINE Fails == call.it = None \/ call.id \notin entries \/ invalid[call.id]
<1>2. CASE Fails
  BY <1>1, <1>2, DoneKeeps DEF Find
<1>3. CASE ~Fails
  <2>1. /\ call \in Call /\ call.it # None /\ call.id \in entries
        /\ call' = [call EXCEPT !.it = None, !.to = call.id]
    BY <1>1, <1>3 DEF Find, Inv, Types
  <2>2. /\ call' \in Call /\ call'.kind = "one" /\ call'.id = call.id
        /\ call'.it = None /\ call'.to = call.id /\ call'.done = FALSE
    BY <1>1, <2>1 DEF Call
  <2>3. Got' = Got /\ Got = {}
    BY <1>1, <2>1 DEF Inv, Finding, Got
  <2>4. Types' /\ Once' /\ Undisturbed' /\ Broadcasting'
    BY <1>1, <2>1, <2>2, <2>3, NoneIsNoCall
       DEF Inv, Types, Once, Undisturbed, Broadcasting
  <2>5. Finding'
    BY <1>1, <2>1, <2>2, <2>3 DEF Finding
  <2> QED
    BY <2>4, <2>5 DEF Inv
<1> QED
  BY <1>2, <1>3

(* SendPacket reaches a connection that has nothing of the call yet, and   *)
(* reaches none with an empty buffer.                                      *)
LEMMA SendPacketInv ==
  ASSUME Inv, SendPacket
  PROVE  Inv'
<1>1. /\ call # None /\ call.to # None /\ call' = [call EXCEPT !.to = None]
      /\ inbox' = IF Written(message) = <<>> THEN inbox
                  ELSE [inbox EXCEPT ![call.to] = Append(@, Written(message))]
      /\ UNCHANGED <<waiting, entries, invalid, gone, pc, it, message>>
  BY DEF SendPacket
<1>2. /\ call \in Call /\ call.to \in entries /\ call.to \in Conns /\ ~call.done
      /\ inbox[call.to] = <<>> /\ DOMAIN inbox = Conns /\ entries \subseteq Nat
      /\ None \notin entries
  BY <1>1, MessagesAssumption DEF Inv, Types, Undisturbed, Got
<1>3. /\ call' \in Call /\ call' # None /\ call'.kind = call.kind /\ call'.id = call.id
      /\ call'.it = call.it /\ call'.to = None /\ call'.done = FALSE
  BY <1>1, <1>2, NoneIsNoCall DEF Call
<1>4. Written(message) = <<>> => inbox' = inbox /\ Got' = Got
  BY <1>1 DEF Got
<1>5. ASSUME Written(message) # <<>>
      PROVE  /\ DOMAIN inbox' = Conns /\ inbox'[call.to] = <<Written(message)>>
             /\ \A c \in Conns \ {call.to} : inbox'[c] = inbox[c]
             /\ Got' = Got \cup {call.to}
  <2>1. /\ DOMAIN inbox' = Conns /\ inbox'[call.to] = Append(<<>>, Written(message))
        /\ \A c \in Conns \ {call.to} : inbox'[c] = inbox[c]
    BY <1>1, <1>2, <1>5
  <2>2. Append(<<>>, Written(message)) = <<Written(message)>>
    OBVIOUS
  <2>3. <<Written(message)>> # <<>>
    OBVIOUS
  <2> QED
    BY <1>2, <2>1, <2>2, <2>3 DEF Got
<1>6. Types'
  BY <1>1, <1>3, <1>4, <1>5 DEF Inv, Types
<1>7. Once'
  BY <1>1, <1>4, <1>5 DEF Inv, Once, Got
<1>8. Undisturbed'
  <2>1. None \notin Got'
    BY MessagesAssumption DEF Got
  <2> QED
    BY <1>1, <1>3, <2>1 DEF Inv, Undisturbed
<1>9. ASSUME call.kind \in {"all", "except"}
      PROVE  Passed' = Passed \cup {call.to}
  <2>1. call.it # None => call.to < call.it
    BY <1>1, <1>9 DEF Inv, Broadcasting
  <2>2. Passed' = {c \in entries : call.it = None \/ c < call.it}
    BY <1>1, <1>2, <1>3 DEF Passed
  <2> QED
    BY <1>2, <2>1, <2>2 DEF Passed
<1>10. Broadcasting'
  <2>1. /\ Got \subseteq Got' /\ Got' \subseteq Got \cup {call.to}
        /\ Written(message) # <<>> => Got' = Got \cup {call.to}
        /\ message' = message /\ invalid' = invalid
    BY <1>1, <1>4, <1>5
  <2>2. CASE call.kind = "all"
    <3>1. Passed' = Passed \cup {call.to}
      BY <1>9, <2>2
    <3>2. Got' \subseteq Passed' /\ (Written(message) # <<>> => Passed' \subseteq Got')
      BY <1>1, <2>1, <2>2, <3>1 DEF Inv, Broadcasting
    <3> QED
      BY <1>2, <1>3, <2>1, <2>2, <3>2 DEF Broadcasting
  <2>3. CASE call.kind = "except"
    <3>1. Passed' = Passed \cup {call.to} /\ call.to # call.id /\ call.id # None
      BY <1>1, <1>2, <1>9, <2>3, MessagesAssumption DEF Inv, Broadcasting, Call
    <3>2. Got' \subseteq Passed' \ {call.id}
      BY <1>1, <2>1, <2>3, <3>1 DEF Inv, Broadcasting
    <3>3. Written(message) # <<>> => Passed' \ {call.id} \subseteq Got'
      BY <1>1, <2>1, <2>3, <3>1 DEF Inv, Broadcasting
    <3> QED
      BY <1>2, <1>3, <2>1, <2>3, <3>1, <3>2, <3>3 DEF Broadcasting
  <2>4. CASE call.kind \notin {"all", "except"}
    BY <1>3, <2>4 DEF Broadcasting
  <2> QED
    BY <2>2, <2>3, <2>4
<1>11. Finding'
  BY <1>1, <1>2, <1>3, <1>4, <1>5 DEF Inv, Finding
<1> QED
  BY <1>6, <1>7, <1>8, <1>10, <1>11 DEF Inv

LEMMA ReturnInv ==
  ASSUME Inv, Return
  PROVE  Inv'
<1>1. Types' /\ Got' = {}
  BY DEF Return, Inv, Types, Nothing, Got
<1> QED
  BY <1>1 DEF Return, Inv, Once, Undisturbed, Broadcasting, Finding

-----------------------------------------------------------------------------
LEMMA NextInv == Inv /\ [Next]_vars => Inv'
<1> SUFFICES ASSUME Inv, [Next]_vars PROVE Inv'
  OBVIOUS
<1>1. CASE UNCHANGED vars
  BY <1>1, BesidesInv DEF vars, Inv, Types, Undisturbed
<1>2. CASE \/ \E c \in Conns : AddTask(c) \/ Invalidate(c)
           \/ \E taken \in SUBSET Conns : StartRound(taken)
           \/ Visit \/ GoOn
  BY <1>2, ParseInv
<1>3. ASSUME NEW kind \in {"all", "except", "one"}, NEW id \in Conns,
             NEW m \in MessagesOf(MaxFields), Send(kind, id, m)
      PROVE  Inv'
  <2>1. m \in Seq(Fields)
    BY MessagesAssumption DEF MessagesOf
  <2> QED
    BY <1>3, <2>1, SendInv
<1>4. CASE ExecAll \/ ExecExcept \/ Find \/ SendPacket \/ Return
  BY <1>4, ExecAllInv, ExecExceptInv, FindInv, SendPacketInv, ReturnInv
<1> QED
  BY <1>1, <1>2, <1>3, <1>4 DEF Next

(* The inductive invariant holds in every state. *)
THEOREM Invariance == Spec => []Inv
<1> QED
  BY InitInv, NextInv, PTL DEF Spec

(* A call of Broadcast, BroadcastExceptID or SendToID sends to nobody      *)
(* twice and to nobody it should not, and has sent to everybody it should  *)
(* when it is done, whatever connections become invalid meanwhile.         *)
THEOREM ReachesThoseItShould == Spec => []Delivered
<1>1. Inv => Delivered
  <2> SUFFICES ASSUME Inv, call # None PROVE Delivered
    BY DEF Delivered
  <2> DEFINE valid == {c \in entries : \A d \in entries : d <= c => ~invalid[d]}
  <2>1. /\ call \in Call /\ call.kind \in {"all", "except", "one"}
        /\ entries \subseteq Nat /\ Passed \subseteq entries /\ None \notin entries
    BY MessagesAssumption DEF Inv, Types, Call, Passed
  <2>2. call.done => call.to = None /\ call.it \in entries \cup {None}
    BY DEF Inv, Undisturbed
  <2>3. CASE call.kind = "all"
    <3>1. call.done => valid \subseteq Passed
      <4> SUFFICES ASSUME call.done, NEW c \in entries, c \in valid, call.it # None
                   PROVE  c < call.it
        BY <2>1, <2>2 DEF Passed
      <4>1. invalid[call.it] /\ call.it \in entries
        BY <2>2, <2>3 DEF Inv, Broadcasting
      <4>2. ~ (call.it <= c)
        BY <4>1
      <4>3. \A a, x \in Nat : ~ (a <= x) => x < a
        OBVIOUS
      <4> QED
        BY <2>1, <4>1, <4>2, <4>3
    <3> QED
      BY <2>1, <2>3, <3>1 DEF Inv, Once, Broadcasting, Got, Delivered
  <2>4. CASE call.kind = "except"
    <3>1. call.done => Passed = entries
      BY <2>1, <2>2, <2>4 DEF Inv, Broadcasting, Passed
    <3> QED
      BY <2>1, <2>4, <3>1 DEF Inv, Once, Broadcasting, Got, Delivered
  <2>5. CASE call.kind = "one"
    BY <2>2, <2>1, <2>5, MessagesAssumption DEF Inv, Once, Finding, Got, Delivered, Types, Call
  <2> QED
    BY <2>1, <2>3, <2>4, <2>5
<1> QED
  BY <1>1, Invariance, PTL
-----------------------------------------------------------------------------
(* Induction, over a set instead of a predicate. *)
LEMMA Induction ==
  ASSUME NEW S, 0 \in S, \A n \in Nat : n \in S => n + 1 \in S
  PROVE  Nat \subseteq S
<1> DEFINE bad == Nat \ S
<1> SUFFICES ASSUME bad # {} PROVE FALSE
  OBVIOUS
<1>1. bad \in SUBSET Nat
  OBVIOUS
<1>2. PICK n \in bad : \A k \in bad : ~ (<<k, n>> \in OpToRel(<, Nat))
  BY <1>1, WFMin, NatLessThanWellFounded, Zenon
<1>3. \A k \in bad : ~ (k < n)
  BY <1>1, <1>2 DEF OpToRel
<1>4. n \in Nat /\ n # 0
  OBVIOUS
<1>5. n - 1 \in Nat /\ n - 1 < n /\ (n - 1) + 1 = n
  BY <1>4
<1> QED
  BY <1>3, <1>5

-----------------------------------------------------------------------------
(* The bytes of a message. *)
ByteT == Nat \X Nat \X Nat

LEMMA Joined ==
  /\ \A s, t \in Seq(ByteT) :
        /\ s \o t \in Seq(ByteT) /\ Len(s) \in Nat /\ Len(t) \in Nat
        /\ Len(s \o t) = Len(s) + Len(t)
        /\ \A i \in 1 .. Len(s) + Len(t) :
              (s \o t)[i] = IF i <= Len(s) THEN s[i] ELSE t[i - Len(s)]
  /\ \A s, t, u \in Seq(ByteT) : (s \o t) \o u = s \o (t \o u)
<1>1. ASSUME NEW s \in Seq(ByteT), NEW t \in Seq(ByteT)
      PROVE  /\ s \o t \in Seq(ByteT) /\ Len(s) \in Nat /\ Len(t) \in Nat
             /\ Len(s \o t) = Len(s) + Len(t)
             /\ \A i \in 1 .. Len(s) + Len(t) :
                   (s \o t)[i] = IF i <= Len(s) THEN s[i] ELSE t[i - Len(s)]
  BY ConcatProperties, LenProperties
<1>2. ASSUME NEW s \in Seq(ByteT), NEW t \in Seq(ByteT), NEW u \in Seq(ByteT)
      PROVE  (s \o t) \o u = s \o (t \o u)
  BY ConcatAssociative
<1> QED
  BY <1>1, <1>2

LEMMA JoinedLength ==
  ASSUME NEW s \in Seq(ByteT), NEW t \in Seq(ByteT)
  PROVE  s \o t \in Seq(ByteT) /\ Len(s \o t) = Len(s) + Len(t)
<1> QED
  BY Joined

LEMMA NumberBytes ==
  ASSUME NEW v \in Nat, NEW w \in Nat \ {0}
  PROVE  /\ Number(v, w) \in Seq(ByteT) /\ Len(Number(v, w)) = w
         /\ Value(Number(v, w)) = v
<1>1. Number(v, w) \in [1 .. w -> ByteT]
  BY DEF Number, ByteT
<1>2. Number(v, w) \in Seq(ByteT) /\ Len(Number(v, w)) = w
  BY <1>1
<1>3. Number(v, w)[1][1] = v
  BY DEF Number
<1> QED
  BY <1>2, <1>3 DEF Value

LEMMA CharsBytes ==
  ASSUME NEW s \in Seq(Nat)
  PROVE  /\ Chars(s) \in Seq(ByteT) /\ Len(Chars(s)) = Len(s)
         /\ \A i \in 1 .. Len(s) : Value(<<Chars(s)[i]>>) = s[i]
<1>1. Chars(s) \in [1 .. Len(s) -> ByteT]
  BY DEF Chars, ByteT
<1>2. Chars(s) \in Seq(ByteT) /\ Len(Chars(s)) = Len(s)
  BY <1>1
<1>3. ASSUME NEW i \in 1 .. Len(s)
      PROVE  Value(<<Chars(s)[i]>>) = s[i]
  <2>1. s[i] \in Nat /\ Chars(s)[i] = <<s[i], 1, 1>>
    BY DEF Chars
  <2>2. Number(s[i], 1) = << <<s[i], 1, 1>> >>
    BY <2>1 DEF Number
  <2>3. Value(Number(s[i], 1)) = s[i]
    BY <2>1, NumberBytes
  <2> QED
    BY <2>1, <2>2, <2>3
<1> QED
  BY <1>2, <1>3

(* What the halves of a long become is the whole in the other order, and   *)
(* that twice is the number again.                                         *)
LEMMA LongReverses ==
  ASSUME NEW long \in Seq(ByteT), Len(long) = Long
  PROVE  Host2Net(long) = Reverse(long)
<1>1. Word \in Nat /\ Long = 2 * Word
  BY MessagesAssumption
<1>2. \A i \in 1 .. Long : long[i] \in ByteT
  BY ElementOfSeq
<1> DEFINE hi == SubSeq(long, Word + 1, Long)
           lo == SubSeq(long, 1, Word)
<1>3. /\ hi \in Seq(ByteT) /\ Len(hi) = Word /\ \A i \in 1 .. Word : hi[i] = long[Word + i]
      /\ lo \in Seq(ByteT) /\ Len(lo) = Word /\ \A i \in 1 .. Word : lo[i] = long[i]
  <2>1. \A i \in Word + 1 .. Long : long[i] \in ByteT
    BY <1>1, <1>2
  <2>2. \A i \in 1 .. Word : long[i] \in ByteT
    BY <1>1, <1>2
  <2>3. /\ hi \in Seq(ByteT) /\ Len(hi) = IF Word + 1 <= Long THEN Long - (Word + 1) + 1 ELSE 0
        /\ \A i \in 1 .. Long - (Word + 1) + 1 : hi[i] = long[(Word + 1) + i - 1]
    BY <1>1, <2>1, SubSeqProperties
  <2>4. /\ Word + 1 <= Long /\ Long - (Word + 1) + 1 = Word
        /\ \A i \in 1 .. Word : (Word + 1) + i - 1 = Word + i
    BY <1>1, MessagesAssumption
  <2>5. hi \in Seq(ByteT) /\ Len(hi) = Word /\ \A i \in 1 .. Word : hi[i] = long[Word + i]
    BY <2>3, <2>4
  <2> QED
    BY <1>1, <2>2, <2>5, SubSeqProperties
<1> HIDE DEF hi, lo
<1>4. /\ Reverse(hi) \in Seq(ByteT) /\ Len(Reverse(hi)) = Word
      /\ \A i \in 1 .. Word : Reverse(hi)[i] = long[Long + 1 - i]
  <2>1. Reverse(hi) = [i \in 1 .. Word |-> hi[Word - i + 1]]
    BY <1>3 DEF Reverse
  <2>2. \A i \in 1 .. Word : Word - i + 1 \in 1 .. Word /\ Word + (Word - i + 1) = Long + 1 - i
    BY <1>1
  <2>3. ASSUME NEW i \in 1 .. Word
        PROVE  hi[Word - i + 1] = long[Long + 1 - i] /\ hi[Word - i + 1] \in ByteT
    <3>1. \A x \in 1 .. Word : hi[x] = long[Word + x] /\ hi[x] \in ByteT
      BY <1>3, ElementOfSeq
    <3> QED
      BY <2>2, <3>1
  <2>4. Reverse(hi) \in [1 .. Word -> ByteT]
    BY <2>1, <2>3
  <2> QED
    BY <1>1, <2>1, <2>3, <2>4
<1>5. /\ Reverse(lo) \in Seq(ByteT) /\ Len(Reverse(lo)) = Word
      /\ \A i \in 1 .. Word : Reverse(lo)[i] = long[Word + 1 - i]
  <2>1. Reverse(lo) = [i \in 1 .. Word |-> lo[Word - i + 1]]
    BY <1>3 DEF Reverse
  <2>2. \A i \in 1 .. Word : Word - i + 1 \in 1 .. Word /\ Word - i + 1 = Word + 1 - i
    BY <1>1
  <2>3. \A i \in 1 .. Word : lo[Word - i + 1] = long[Word + 1 - i] /\ lo[Word - i + 1] \in ByteT
    BY <1>3, <2>2, ElementOfSeq
  <2>4. Reverse(lo) \in [1 .. Word -> ByteT]
    BY <2>1, <2>3
  <2> QED
    BY <1>1, <2>1, <2>3, <2>4
<1>6. /\ Reverse(hi) \o Reverse(lo) \in Seq(ByteT)
      /\ Len(Reverse(hi) \o Reverse(lo)) = Long
      /\ \A i \in 1 .. Long : (Reverse(hi) \o Reverse(lo))[i] = long[Long + 1 - i]
  <2>1. /\ Reverse(hi) \o Reverse(lo) \in Seq(ByteT)
        /\ Len(Reverse(hi) \o Reverse(lo)) = Long
        /\ \A i \in 1 .. Long : (Reverse(hi) \o Reverse(lo))[i] =
              IF i <= Word THEN Reverse(hi)[i] ELSE Reverse(lo)[i - Word]
    <3> DEFINE h == Reverse(hi)
               l == Reverse(lo)
    <3>1. h \in Seq(ByteT) /\ l \in Seq(ByteT) /\ Len(h) = Word /\ Len(l) = Word
      BY <1>4, <1>5
    <3>2. \A w \in Nat : w + w = 2 * w
      OBVIOUS
    <3> HIDE DEF h, l
    <3>3. /\ h \o l \in Seq(ByteT) /\ Len(h \o l) = Word + Word
          /\ \A i \in 1 .. Word + Word : (h \o l)[i] = IF i <= Word THEN h[i] ELSE l[i - Word]
      <4>1. /\ h \o l \in Seq(ByteT) /\ Len(h \o l) = Len(h) + Len(l)
            /\ \A i \in 1 .. Len(h) + Len(l) :
                  (h \o l)[i] = IF i <= Len(h) THEN h[i] ELSE l[i - Len(h)]
        BY <3>1, Joined
      <4> QED
        BY <3>1, <4>1
    <3> QED
      BY <1>1, <3>2, <3>3 DEF h, l
  <2>3. ASSUME NEW i \in 1 .. Long
        PROVE  (Reverse(hi) \o Reverse(lo))[i] = long[Long + 1 - i]
    <3>1. CASE i <= Word
      BY <1>1, <1>4, <2>1, <3>1
    <3>2. CASE ~ (i <= Word)
      <4>1. i - Word \in 1 .. Word /\ Word + 1 - (i - Word) = Long + 1 - i
        BY <1>1, <3>2
      <4>2. Reverse(lo)[i - Word] = long[Word + 1 - (i - Word)]
        BY <1>5, <4>1
      <4> QED
        BY <2>1, <3>2, <4>1, <4>2
    <3> QED
      BY <3>1, <3>2
  <2> QED
    BY <2>1, <2>3
<1>7. /\ Reverse(long) \in Seq(ByteT) /\ Len(Reverse(long)) = Long
      /\ \A i \in 1 .. Long : Reverse(long)[i] = long[Long + 1 - i]
  <2>1. Reverse(long) = [i \in 1 .. Long |-> long[Long - i + 1]]
    BY DEF Reverse
  <2>2. \A i \in 1 .. Long : Long - i + 1 \in 1 .. Long /\ Long - i + 1 = Long + 1 - i
    BY <1>1
  <2>3. Reverse(long) \in [1 .. Long -> ByteT]
    BY <1>2, <2>1, <2>2
  <2> QED
    BY <1>1, <2>1, <2>2, <2>3
<1>8. Reverse(long) = Reverse(hi) \o Reverse(lo)
  BY <1>6, <1>7, SeqEqual
<1> QED
  BY <1>8 DEF Host2Net, htonl, hi, lo

LEMMA Host2NetReverses ==
  ASSUME NEW bytes \in Seq(ByteT), Len(bytes) \in {Word, Long}
  PROVE  Host2Net(bytes) = Reverse(bytes)
<1>1. CASE Len(bytes) = Long
  BY <1>1, LongReverses
<1>2. CASE Len(bytes) # Long
  BY <1>2 DEF Host2Net, htonl
<1> QED
  BY <1>1, <1>2

LEMMA Host2NetTwice ==
  ASSUME NEW bytes \in Seq(ByteT), NEW w \in {Word, Long}, Len(bytes) = w
  PROVE  /\ Host2Net(bytes) \in Seq(ByteT) /\ Len(Host2Net(bytes)) = w
         /\ Host2Net(Host2Net(bytes)) = bytes
<1> DEFINE r == Reverse(bytes)
<1>1. w \in Nat /\ \A i \in 1 .. w : bytes[i] \in ByteT /\ w - i + 1 \in 1 .. w
  BY ElementOfSeq
<1>2. r = [i \in 1 .. w |-> bytes[w - i + 1]]
  BY DEF Reverse
<1>3. r \in [1 .. w -> ByteT]
  BY <1>1, <1>2
<1>4. r \in Seq(ByteT) /\ Len(r) = w
  BY <1>1, <1>3
<1>5. Host2Net(bytes) = r /\ Host2Net(r) = Reverse(r)
  BY <1>4, Host2NetReverses
<1> HIDE DEF r
<1>6. Reverse(r) = [i \in 1 .. w |-> r[w - i + 1]]
  BY <1>4 DEF Reverse
<1>7. \A i \in 1 .. w : r[w - i + 1] = bytes[i]
  <2>1. \A i \in 1 .. w : w - (w - i + 1) + 1 = i
    BY <1>1
  <2> QED
    BY <1>1, <1>2, <2>1
<1>8. Reverse(r) = bytes
  <2>1. bytes = [i \in 1 .. w |-> bytes[i]]
    BY LenProperties
  <2> QED
    BY <1>6, <1>7, <2>1
<1> QED
  BY <1>4, <1>5, <1>8
-----------------------------------------------------------------------------
(* One field: what operator<< appends, and operator>> takes off again.     *)

Host(f)    == Number(f.items[1], NumberWidth(f.kind))
Encoded(f) == IF f.kind = "number" THEN Host(f)
              ELSE IF f.kind \in Numbers THEN Host2Net(Host(f))
              ELSE Count(f) \o Chars(f.items)

CarriedField(f) ==
    /\ f.kind \in {"list", "set"} => f.items # <<>>
    /\ f.kind \in {"text", "list"} => Len(f.items) < ShortLimit

(* The bytes of a number, on this host and on the way. *)
LEMMA HostBytes ==
  ASSUME NEW f \in Field, f.kind \in Numbers, Len(f.items) = 1
  PROVE  /\ NumberWidth(f.kind) \in {Word, Long} /\ NumberWidth(f.kind) \in Nat \ {0}
         /\ f.items[1] \in Nat /\ <<f.items[1]>> = f.items
         /\ Host(f) \in Seq(ByteT) /\ Len(Host(f)) = NumberWidth(f.kind)
         /\ Encoded(f) \in Seq(ByteT) /\ Len(Encoded(f)) = NumberWidth(f.kind)
         /\ Encoded(f) = IF f.kind = "number" THEN Host(f) ELSE Reverse(Host(f))
<1>1. NumberWidth(f.kind) \in {Word, Long} /\ NumberWidth(f.kind) \in Nat \ {0}
  BY MessagesAssumption DEF NumberWidth
<1>2. f.items[1] \in Nat /\ <<f.items[1]>> = f.items
  BY DEF Field
<1>3. Host(f) \in Seq(ByteT) /\ Len(Host(f)) = NumberWidth(f.kind)
  BY <1>1, <1>2, NumberBytes DEF Host
<1>4. /\ Host2Net(Host(f)) \in Seq(ByteT) /\ Len(Host2Net(Host(f))) = NumberWidth(f.kind)
      /\ Host2Net(Host(f)) = Reverse(Host(f))
  BY <1>1, <1>3, Host2NetReverses, Host2NetTwice
<1> QED
  BY <1>1, <1>2, <1>3, <1>4 DEF Encoded

LEMMA CountBytes ==
  ASSUME NEW f \in Field, CarriedField(f), f.kind \notin Numbers
  PROVE  /\ Len(f.items) \in Nat /\ Width(f.kind) \in Nat \ {0}
         /\ Count(f) = Number(Len(f.items), Width(f.kind))
<1>1. f.items \in Seq(Nat) /\ f.kind \in {"array", "text", "list", "set"}
  BY DEF Field, Kinds, Numbers
<1>2. Len(f.items) \in Nat
  BY <1>1
<1>3. Len(f.items) < ShortLimit => Len(f.items) % ShortLimit = Len(f.items)
  <2>1. \A a, b \in Nat : a < b => a % b = a
    OBVIOUS
  <2>2. ShortLimit \in Nat
    BY MessagesAssumption
  <2> QED
    BY ONLY <1>2, <2>1, <2>2
<1>4. f.kind \in {"text", "list"} => Len(f.items) % ShortLimit = Len(f.items)
  BY <1>3 DEF CarriedField
<1> QED
  BY <1>1, <1>2, <1>4, MessagesAssumption DEF Width, Count

LEMMA EncodedBytes ==
  ASSUME NEW f \in Field, CarriedField(f), f.kind \in Numbers => Len(f.items) = 1
  PROVE  /\ Encoded(f) \in Seq(ByteT) /\ Bytes(f) \in Nat \ {0} /\ Len(Encoded(f)) = Bytes(f)
<1>1. f.items \in Seq(Nat)
  BY DEF Field
<1>2. CASE f.kind \in Numbers
  BY <1>2, HostBytes DEF Bytes
<1>3. CASE f.kind \notin Numbers
  <2>1. /\ Len(f.items) \in Nat /\ Width(f.kind) \in Nat \ {0}
        /\ Count(f) \in Seq(ByteT) /\ Len(Count(f)) = Width(f.kind)
    BY <1>3, CountBytes, NumberBytes
  <2>2. Chars(f.items) \in Seq(ByteT) /\ Len(Chars(f.items)) = Len(f.items)
    BY <1>1, CharsBytes
  <2>3. /\ Count(f) \o Chars(f.items) \in Seq(ByteT)
        /\ Len(Count(f) \o Chars(f.items)) = Width(f.kind) + Len(f.items)
    <3>1. PICK s \in Seq(ByteT) : s = Count(f)
      BY <2>1
    <3>2. PICK t \in Seq(ByteT) : t = Chars(f.items)
      BY <2>2
    <3>3. s \o t \in Seq(ByteT) /\ Len(s \o t) = Len(s) + Len(t)
      BY JoinedLength
    <3> QED
      BY ONLY <2>1, <2>2, <3>1, <3>2, <3>3
  <2> QED
    BY <1>3, <2>1, <2>3 DEF Encoded, Bytes, Numbers
<1> QED
  BY <1>2, <1>3

(* A field that fits is appended. *)
LEMMA WriteAppends ==
  ASSUME NEW buf \in Seq(ByteT), NEW f \in Field, CarriedField(f),
         f.kind \in Numbers => Len(f.items) = 1,
         Len(buf) + Bytes(f) < Room
  PROVE  WriteField(buf, f) = buf \o Encoded(f)
<1>1. /\ f.items \in Seq(Nat) /\ Len(f.items) \in Nat /\ Len(buf) \in Nat /\ Room \in Nat
      /\ f.kind \in Kinds
  BY MessagesAssumption DEF Field
<1>2. CASE f.kind \in Numbers
  <2>1. Fits(buf, Len(Encoded(f)))
    BY <1>1, <1>2, EncodedBytes DEF Fits
  <2>2. WriteField(buf, f) = Push(buf, Encoded(f))
    BY <1>2 DEF WriteField, Put, Encoded, Host, NumberWidth, Numbers
  <2> QED
    BY <2>1, <2>2 DEF Push
<1>3. CASE f.kind \notin Numbers
  <2> DEFINE counted == buf \o Count(f)
  <2>1. /\ Count(f) \in Seq(ByteT) /\ Len(Count(f)) = Width(f.kind) /\ Width(f.kind) \in Nat
        /\ Bytes(f) = Width(f.kind) + Len(f.items)
    BY <1>3, CountBytes, NumberBytes DEF Bytes
  <2>2. counted \in Seq(ByteT) /\ Len(counted) = Len(buf) + Width(f.kind)
    <3>1. PICK s \in Seq(ByteT) : s = Count(f)
      BY <2>1
    <3>2. buf \o s \in Seq(ByteT) /\ Len(buf \o s) = Len(buf) + Len(s)
      BY JoinedLength
    <3> QED
      BY ONLY <2>1, <3>1, <3>2 DEF counted
  <2>3. Fits(buf, Len(Count(f))) /\ Fits(counted, Len(f.items))
    BY <1>1, <2>1, <2>2 DEF Fits
  <2>4. Push(buf, Count(f)) = counted
    BY <2>3 DEF Push
  <2>5. Chars(f.items) \in Seq(ByteT) /\ Len(Chars(f.items)) = Len(f.items)
    BY <1>1, CharsBytes
  <2>6. counted \o Chars(f.items) = buf \o Encoded(f)
    BY <1>3, <2>1, <2>5, Joined DEF Encoded, Numbers
  <2> HIDE DEF counted
  <2>7. PushEach(counted, f.items) = counted \o Chars(f.items)
    BY <2>3, <2>5, SubSeqFull DEF PushEach
  <2>8. PutText(buf, f) = counted \o Chars(f.items)
    BY <2>3, <2>4 DEF PutText
  <2> QED
    BY <1>1, <1>3, <2>4, <2>6, <2>7, <2>8 DEF WriteField, Put, Kinds, Numbers, CarriedField
<1> QED
  BY <1>2, <1>3

(* What begins with an encoded field is read as that field and the rest. *)
LEMMA Prefixed ==
  ASSUME NEW s \in Seq(ByteT), NEW t \in Seq(ByteT)
  PROVE  /\ SubSeq(s \o t, 1, Len(s)) = s /\ SubSeq(s \o t, Len(s) + 1, Len(s \o t)) = t
         /\ Len(s \o t) >= Len(s)
<1>1. /\ Len(s) \in Nat /\ Len(t) \in Nat /\ s \o t \in Seq(ByteT)
      /\ Len(s \o t) = Len(s) + Len(t)
      /\ \A i \in 1 .. Len(s) + Len(t) :
            (s \o t)[i] = IF i <= Len(s) THEN s[i] ELSE t[i - Len(s)]
  BY ConcatProperties, LenProperties
<1> DEFINE u == s \o t
<1> HIDE DEF u
<1>2. \A i \in 1 .. Len(s) + Len(t) : u[i] \in ByteT
  BY <1>1, ElementOfSeq DEF u
<1>3. SubSeq(u, 1, Len(s)) = s
  <2>1. /\ SubSeq(u, 1, Len(s)) \in Seq(ByteT) /\ Len(SubSeq(u, 1, Len(s))) = Len(s)
        /\ \A i \in 1 .. Len(s) : SubSeq(u, 1, Len(s))[i] = u[i]
    BY <1>1, <1>2, SubSeqProperties
  <2>2. \A i \in 1 .. Len(s) : u[i] = s[i]
    BY <1>1 DEF u
  <2> QED
    BY <2>1, <2>2, SeqEqual
<1>4. SubSeq(u, Len(s) + 1, Len(u)) = t
  <2> DEFINE v == SubSeq(u, Len(s) + 1, Len(u))
  <2>1. /\ v \in Seq(ByteT)
        /\ Len(v) = IF Len(s) + 1 <= Len(u) THEN Len(u) - (Len(s) + 1) + 1 ELSE 0
        /\ \A i \in 1 .. Len(u) - (Len(s) + 1) + 1 : v[i] = u[(Len(s) + 1) + i - 1]
    <3>1. \A i \in Len(s) + 1 .. Len(u) : u[i] \in ByteT
      BY <1>1, <1>2 DEF u
    <3> QED
      BY <1>1, <3>1, SubSeqProperties DEF u
  <2> HIDE DEF v
  <2>2. Len(v) = Len(t) /\ Len(u) - (Len(s) + 1) + 1 = Len(t)
    BY <1>1, <2>1 DEF u
  <2>3. ASSUME NEW i \in 1 .. Len(t) PROVE v[i] = t[i]
    <3>1. (Len(s) + 1) + i - 1 = Len(s) + i /\ (Len(s) + i) - Len(s) = i
          /\ Len(s) + i \in 1 .. Len(s) + Len(t) /\ ~ (Len(s) + i <= Len(s))
      BY <1>1
    <3>2. v[i] = u[Len(s) + i]
      BY <2>1, <2>2, <3>1
    <3>3. u[Len(s) + i] = t[i]
      BY <1>1, <3>1 DEF u
    <3> QED
      BY <3>2, <3>3
  <2>4. v = t
    BY <2>1, <2>2, <2>3, SeqEqual
  <2> QED
    BY <2>4 DEF v
<1> QED
  BY <1>1, <1>3, <1>4 DEF u

LEMMA NumberRead ==
  ASSUME NEW v \in Nat, NEW w \in Nat \ {0}, NEW t \in Seq(ByteT)
  PROVE  /\ ReadNumber(Number(v, w) \o t, w, "host") = [value |-> v, rest |-> t]
         /\ w \in {Word, Long} =>
               ReadNumber(Host2Net(Number(v, w)) \o t, w, "net") = [value |-> v, rest |-> t]
<1>1. /\ Number(v, w) \in Seq(ByteT) /\ Len(Number(v, w)) = w /\ Value(Number(v, w)) = v
  BY NumberBytes
<1>2. ASSUME NEW s \in Seq(ByteT), Len(s) = w
      PROVE  /\ SubSeq(s \o t, 1, w) = s /\ SubSeq(s \o t, w + 1, Len(s \o t)) = t
             /\ ~ (Len(s \o t) < w)
  <2>1. Len(s \o t) \in Nat
    BY Joined
  <2> QED
    BY <1>2, <2>1, Prefixed
<1>3. ReadNumber(Number(v, w) \o t, w, "host") = [value |-> v, rest |-> t]
  BY <1>1, <1>2 DEF ReadNumber
<1>4. ASSUME w \in {Word, Long}
      PROVE  ReadNumber(Host2Net(Number(v, w)) \o t, w, "net") = [value |-> v, rest |-> t]
  <2>1. /\ Host2Net(Number(v, w)) \in Seq(ByteT) /\ Len(Host2Net(Number(v, w))) = w
        /\ Host2Net(Host2Net(Number(v, w))) = Number(v, w)
    BY <1>1, <1>4, Host2NetTwice
  <2> QED
    BY <1>1, <1>2, <2>1 DEF ReadNumber
<1> QED
  BY <1>3, <1>4

LEMMA EachRead ==
  ASSUME NEW items \in Seq(Nat), NEW t \in Seq(ByteT)
  PROVE  ReadEach(Chars(items) \o t, Len(items)) = [items |-> items, rest |-> t]
<1> DEFINE c == Chars(items)
<1>1. /\ c \in Seq(ByteT) /\ Len(c) = Len(items) /\ Len(items) \in Nat
      /\ \A i \in 1 .. Len(items) : Value(<<c[i]>>) = items[i]
  BY CharsBytes, LenProperties
<1> HIDE DEF c
<1>2. /\ Len(c \o t) = Len(c) + Len(t) /\ Len(t) \in Nat
      /\ \A i \in 1 .. Len(items) : (c \o t)[i] = c[i]
  BY <1>1, Joined
<1>3. [i \in 1 .. Len(items) |->
          IF i <= Len(c \o t) THEN Value(<<(c \o t)[i]>>) ELSE None] = items
  <2>1. \A i \in 1 .. Len(items) :
           (IF i <= Len(c \o t) THEN Value(<<(c \o t)[i]>>) ELSE None) = items[i]
    BY <1>1, <1>2
  <2>2. items = [i \in 1 .. Len(items) |-> items[i]]
    BY LenProperties
  <2> QED
    BY <2>1, <2>2
<1>4. SubSeq(c \o t, Len(items) + 1, Len(c \o t)) = t
  BY <1>1, Prefixed
<1> QED
  BY <1>3, <1>4 DEF ReadEach, c

(* operator>> reads back what operator<< appended, and takes no more. *)
LEMMA ReadTakes ==
  ASSUME NEW f \in Field, CarriedField(f), f.kind \in Numbers => Len(f.items) = 1,
         NEW t \in Seq(ByteT)
  PROVE  ReadField(Encoded(f) \o t, f.kind) = [items |-> f.items, rest |-> t]
<1>1. f.items \in Seq(Nat)
  BY DEF Field
<1>2. CASE f.kind \in Numbers
  <2> DEFINE w == NumberWidth(f.kind)
             order == IF f.kind = "number" THEN "host" ELSE "net"
  <2>1. /\ w \in {Word, Long} /\ w \in Nat \ {0}
        /\ f.items[1] \in Nat /\ <<f.items[1]>> = f.items
    BY <1>2, HostBytes
  <2>2. ReadNumber(Encoded(f) \o t, w, order) = [value |-> f.items[1], rest |-> t]
    BY <1>2, <2>1, NumberRead DEF Encoded, Host
  <2>3. ReadField(Encoded(f) \o t, f.kind)
           = LET r == ReadNumber(Encoded(f) \o t, w, order)
             IN  [items |-> <<r.value>>, rest |-> r.rest]
    BY <1>2 DEF ReadField, Get, NumberWidth, Numbers
  <2> HIDE DEF w, order
  <2> QED
    BY <2>1, <2>2, <2>3
<1>3. CASE f.kind \notin Numbers
  <2> DEFINE w == Width(f.kind)
             n == Len(f.items)
             rest == Chars(f.items) \o t
  <2>1. n \in Nat /\ w \in Nat \ {0} /\ Count(f) = Number(n, w)
    BY <1>3, CountBytes
  <2>2. Count(f) \in Seq(ByteT) /\ Chars(f.items) \in Seq(ByteT) /\ rest \in Seq(ByteT)
    BY <1>1, <2>1, NumberBytes, CharsBytes, ConcatProperties
  <2>3. Encoded(f) \o t = Number(n, w) \o rest
    <3>1. (Count(f) \o Chars(f.items)) \o t = Count(f) \o (Chars(f.items) \o t)
      BY <2>2, Joined
    <3>2. Encoded(f) = Count(f) \o Chars(f.items)
      BY <1>3 DEF Encoded, Numbers
    <3> QED
      BY <2>1, <3>1, <3>2
  <2>4. ReadEach(rest, n) = [items |-> f.items, rest |-> t]
    BY <1>1, EachRead
  <2>5. n # None
    BY <2>1, MessagesAssumption
  <2> HIDE DEF n, rest
  <2>6. ReadNumber(Encoded(f) \o t, w, "host") = [value |-> n, rest |-> rest]
    <3>1. ReadNumber(Number(n, w) \o rest, w, "host") = [value |-> n, rest |-> rest]
      BY <2>1, <2>2, NumberRead
    <3> QED
      BY <2>3, <3>1
  <2>7. /\ ReadNumber(Encoded(f) \o t, w, "host").value = n
        /\ ReadNumber(Encoded(f) \o t, w, "host").rest = rest
    BY <2>6
  <2>8. Get(Encoded(f) \o t, f.kind) = ReadEach(rest, n)
    <3> DEFINE c == ReadNumber(Encoded(f) \o t, w, "host")
    <3>1. c.value = n /\ c.rest = rest /\ c.value # None
      BY <2>5, <2>7
    <3>2. c.value # None => Get(Encoded(f) \o t, f.kind) = ReadEach(c.rest, c.value)
      BY ONLY <1>3 DEF Get, Numbers, w, c
    <3> HIDE DEF c
    <3> QED
      BY <3>1, <3>2
  <2>9. ReadField(Encoded(f) \o t, f.kind) = Get(Encoded(f) \o t, f.kind)
    BY <1>3 DEF ReadField, Numbers
  <2> QED
    BY <2>4, <2>8, <2>9
<1> QED
  BY <1>2, <1>3
-----------------------------------------------------------------------------
(* The fields one after the other, by induction. *)

Steps(buf, m) ==
    buf = [i \in 0 .. Len(m) |-> IF i = 0 THEN <<>> ELSE WriteField(buf[i - 1], m[i])]

(* The recursion that defines Written has a solution. *)
LEMMA WrittenSteps ==
  ASSUME NEW m, Len(m) \in Nat
  PROVE  \E buf : Steps(buf, m) /\ Written(m) = buf[Len(m)]
<1> DEFINE Upto(buf, k) ==
               buf = [i \in 0 .. k |-> IF i = 0 THEN <<>> ELSE WriteField(buf[i - 1], m[i])]
           Solved == {k \in Nat : \E buf : Upto(buf, k)}
<1>1. 0 \in Solved
  <2>1. Upto([i \in 0 .. 0 |-> <<>>], 0)
    OBVIOUS
  <2> QED
    BY <2>1
<1>2. ASSUME NEW k \in Nat, k \in Solved PROVE k + 1 \in Solved
  <2>1. PICK b : Upto(b, k)
    BY <1>2
  <2> DEFINE c == [i \in 0 .. k + 1 |-> IF i = k + 1 THEN WriteField(b[k], m[k + 1]) ELSE b[i]]
  <2>2. ASSUME NEW i \in 0 .. k + 1
        PROVE  c[i] = IF i = 0 THEN <<>> ELSE WriteField(c[i - 1], m[i])
    <3>1. CASE i = k + 1
      BY <3>1
    <3>2. CASE i # k + 1
      <4>1. i \in 0 .. k /\ c[i] = b[i] /\ (i # 0 => i - 1 \in 0 .. k /\ c[i - 1] = b[i - 1])
        BY <3>2
      <4>2. b[i] = IF i = 0 THEN <<>> ELSE WriteField(b[i - 1], m[i])
        BY <2>1, <4>1
      <4> QED
        BY <4>1, <4>2
    <3> QED
      BY <3>1, <3>2
  <2>3. c = [i \in 0 .. k + 1 |-> c[i]]
    OBVIOUS
  <2> HIDE DEF c
  <2>4. Upto(c, k + 1)
    BY <2>2, <2>3
  <2> QED
    BY <2>4
<1> HIDE DEF Solved
<1>3. Nat \subseteq Solved
  BY <1>1, <1>2, Induction
<1>4. PICK b : Upto(b, Len(m))
  BY <1>3 DEF Solved
<1> DEFINE w == CHOOSE buf : Upto(buf, Len(m))
<1>5. Upto(w, Len(m))
  BY <1>4
<1>6. Written(m) = w[Len(m)]
  BY DEF Written
<1> QED
  BY <1>5, <1>6 DEF Steps

Sums(size, m) ==
    size = [i \in 0 .. Len(m) |-> IF i = 0 THEN 0 ELSE size[i - 1] + Bytes(m[i])]

LEMMA SizeSums ==
  ASSUME NEW m, Len(m) \in Nat
  PROVE  \E size : Sums(size, m) /\ Size(m) = size[Len(m)]
<1> DEFINE Upto(size, k) ==
               size = [i \in 0 .. k |-> IF i = 0 THEN 0 ELSE size[i - 1] + Bytes(m[i])]
           Solved == {k \in Nat : \E size : Upto(size, k)}
<1>1. 0 \in Solved
  <2>1. Upto([i \in 0 .. 0 |-> 0], 0)
    OBVIOUS
  <2> QED
    BY <2>1
<1>2. ASSUME NEW k \in Nat, k \in Solved PROVE k + 1 \in Solved
  <2>1. PICK b : Upto(b, k)
    BY <1>2
  <2> DEFINE c == [i \in 0 .. k + 1 |-> IF i = k + 1 THEN b[k] + Bytes(m[k + 1]) ELSE b[i]]
  <2>2. ASSUME NEW i \in 0 .. k + 1
        PROVE  c[i] = IF i = 0 THEN 0 ELSE c[i - 1] + Bytes(m[i])
    <3>1. CASE i = k + 1
      BY <3>1
    <3>2. CASE i # k + 1
      <4>1. i \in 0 .. k /\ c[i] = b[i] /\ (i # 0 => i - 1 \in 0 .. k /\ c[i - 1] = b[i - 1])
        BY <3>2
      <4>2. b[i] = IF i = 0 THEN 0 ELSE b[i - 1] + Bytes(m[i])
        BY <2>1, <4>1
      <4> QED
        BY <4>1, <4>2
    <3> QED
      BY <3>1, <3>2
  <2>3. c = [i \in 0 .. k + 1 |-> c[i]]
    OBVIOUS
  <2> HIDE DEF c
  <2>4. Upto(c, k + 1)
    BY <2>2, <2>3
  <2> QED
    BY <2>4
<1> HIDE DEF Solved
<1>3. Nat \subseteq Solved
  BY <1>1, <1>2, Induction
<1>4. PICK b : Upto(b, Len(m))
  BY <1>3 DEF Solved
<1> DEFINE w == CHOOSE size : Upto(size, Len(m))
<1>5. Upto(w, Len(m))
  BY <1>4
<1>6. Size(m) = w[Len(m)]
  BY DEF Size
<1> QED
  BY <1>5, <1>6 DEF Sums

(* What operator>> of field f makes of what was read before it. *)
Reading(r, f) ==
    LET g == ReadField(r.rest, f.kind)
    IN  [fields |-> Append(r.fields, [f EXCEPT !.items = g.items]), rest |-> g.rest]

Reads(read, bytes, m) ==
    read = [i \in 0 .. Len(m) |-> IF i = 0 THEN [fields |-> <<>>, rest |-> bytes]
                                  ELSE Reading(read[i - 1], m[i])]

LEMMA ReadBackReads ==
  ASSUME NEW m, NEW bytes, Len(m) \in Nat
  PROVE  \E read : Reads(read, bytes, m) /\ ReadBack(bytes, m) = read[Len(m)]
<1> DEFINE Upto(read, k) ==
               read = [i \in 0 .. k |-> IF i = 0 THEN [fields |-> <<>>, rest |-> bytes]
                                        ELSE Reading(read[i - 1], m[i])]
           Solved == {k \in Nat : \E read : Upto(read, k)}
<1>1. 0 \in Solved
  <2>1. Upto([i \in 0 .. 0 |-> [fields |-> <<>>, rest |-> bytes]], 0)
    OBVIOUS
  <2> QED
    BY <2>1
<1>2. ASSUME NEW k \in Nat, k \in Solved PROVE k + 1 \in Solved
  <2>1. PICK b : Upto(b, k)
    BY <1>2
  <2> DEFINE c == [i \in 0 .. k + 1 |-> IF i = k + 1 THEN Reading(b[k], m[k + 1]) ELSE b[i]]
  <2>2. ASSUME NEW i \in 0 .. k + 1
        PROVE  c[i] = IF i = 0 THEN [fields |-> <<>>, rest |-> bytes]
                      ELSE Reading(c[i - 1], m[i])
    <3>1. CASE i = k + 1
      BY <3>1
    <3>2. CASE i # k + 1
      <4>1. i \in 0 .. k /\ c[i] = b[i] /\ (i # 0 => i - 1 \in 0 .. k /\ c[i - 1] = b[i - 1])
        BY <3>2
      <4>2. b[i] = IF i = 0 THEN [fields |-> <<>>, rest |-> bytes]
                   ELSE Reading(b[i - 1], m[i])
        BY <2>1, <4>1
      <4> QED
        BY <4>1, <4>2
    <3> QED
      BY <3>1, <3>2
  <2>3. c = [i \in 0 .. k + 1 |-> c[i]]
    OBVIOUS
  <2> HIDE DEF c
  <2>4. Upto(c, k + 1)
    BY <2>2, <2>3
  <2> QED
    BY <2>4
<1> HIDE DEF Solved
<1>3. Nat \subseteq Solved
  BY <1>1, <1>2, Induction
<1>4. PICK b : Upto(b, Len(m))
  BY <1>3 DEF Solved
<1> DEFINE w == CHOOSE read : Upto(read, Len(m))
<1>5. Upto(w, Len(m))
  BY <1>4
<1>6. ReadBack(bytes, m) = w[Len(m)]
  BY DEF ReadBack, Reading
<1> QED
  BY <1>5, <1>6 DEF Reads

-----------------------------------------------------------------------------
(* A message that fits: after each field its bytes are in the buffer.      *)
LEMMA WrittenWhole ==
  ASSUME NEW m \in Seq(Fields), Carried(m), NEW buf, Steps(buf, m)
  PROVE  \A i \in 0 .. Len(m) :
            /\ buf[i] \in Seq(ByteT)
            /\ i # 0 => buf[i] = buf[i - 1] \o Encoded(m[i])
<1>1. PICK size : Sums(size, m) /\ Size(m) = size[Len(m)]
  BY SizeSums, LenProperties
<1>2. Len(m) \in Nat /\ Room \in Nat /\ size[Len(m)] < Room
  BY <1>1, LenProperties, MessagesAssumption DEF Carried
<1>3. ASSUME NEW i \in 1 .. Len(m)
      PROVE  /\ m[i] \in Field /\ CarriedField(m[i])
             /\ m[i].kind \in Numbers => Len(m[i].items) = 1
             /\ Encoded(m[i]) \in Seq(ByteT) /\ Bytes(m[i]) \in Nat
             /\ Len(Encoded(m[i])) = Bytes(m[i])
             /\ size[i] = size[i - 1] + Bytes(m[i]) /\ buf[i] = WriteField(buf[i - 1], m[i])
  <2>1. m[i] \in Fields
    BY ElementOfSeq
  <2>2. m[i] \in Field /\ (m[i].kind \in Numbers => Len(m[i].items) = 1)
    BY <2>1, MessagesAssumption
  <2>3. CarriedField(m[i])
    BY DEF Carried, CarriedField
  <2>4. i \in 0 .. Len(m) /\ i # 0
    OBVIOUS
  <2>5. size[i] = size[i - 1] + Bytes(m[i])
    BY <1>1, <2>4 DEF Sums
  <2>6. buf[i] = WriteField(buf[i - 1], m[i])
    BY <2>4 DEF Steps
  <2> QED
    BY <2>2, <2>3, <2>5, <2>6, EncodedBytes
<1>4. size[0] = 0 /\ buf[0] = <<>>
  <2>1. 0 \in 0 .. Len(m)
    BY <1>2
  <2> QED
    BY <1>1, <2>1 DEF Sums, Steps
(* The sums grow, so that each is below the room that all of them have. *)
<1>5. \A k \in Nat : k <= Len(m) =>
         size[k] \in Nat /\ \A j \in 0 .. k : size[j] \in Nat /\ size[j] <= size[k]
  <2> DEFINE Growing(k) ==
                 size[k] \in Nat /\ \A j \in 0 .. k : size[j] \in Nat /\ size[j] <= size[k]
             S == {k \in Nat : k <= Len(m) => Growing(k)}
  <2>1. 0 \in S
    BY <1>4
  <2>2. ASSUME NEW k \in Nat, k \in S PROVE k + 1 \in S
    <3> SUFFICES ASSUME k + 1 <= Len(m) PROVE Growing(k + 1)
      OBVIOUS
    <3>1. k + 1 \in 1 .. Len(m) /\ (k + 1) - 1 = k /\ k <= Len(m)
      BY <1>2
    <3>2. Growing(k)
      BY <2>2, <3>1
    <3>3. size[k + 1] = size[k] + Bytes(m[k + 1]) /\ Bytes(m[k + 1]) \in Nat
      BY <1>3, <3>1
    <3>4. \A j \in 0 .. k + 1 : j \in 0 .. k \/ j = k + 1
      OBVIOUS
    <3>5. \A a, b, c \in Nat : a <= b => a <= b + c
      OBVIOUS
    <3> QED
      BY <3>2, <3>3, <3>4, <3>5
  <2> HIDE DEF S
  <2>3. Nat \subseteq S
    BY <2>1, <2>2, Induction
  <2> QED
    BY <2>3 DEF S
<1>6. \A j \in 0 .. Len(m) : size[j] \in Nat /\ size[j] < Room
  <2>1. \A a, b, c \in Nat : a <= b /\ b < c => a < c
    OBVIOUS
  <2> QED
    BY <1>2, <1>5, <2>1
<1> DEFINE Whole(k) == /\ buf[k] \in Seq(ByteT) /\ Len(buf[k]) = size[k]
                       /\ k # 0 => buf[k] = buf[k - 1] \o Encoded(m[k])
           S == {k \in Nat : k <= Len(m) => Whole(k)}
<1>7. Whole(0)
  <2>1. <<>> \in Seq(ByteT) /\ Len(<<>>) = 0
    OBVIOUS
  <2> QED
    BY <1>4, <2>1
<1>8. ASSUME NEW k \in Nat, k + 1 <= Len(m), Whole(k) PROVE Whole(k + 1)
  <2>1. /\ k + 1 \in 1 .. Len(m) /\ k + 1 \in 0 .. Len(m) /\ k \in 0 .. Len(m)
        /\ (k + 1) - 1 = k
    BY <1>2, <1>8
  <2>2. buf[k] \in Seq(ByteT) /\ Len(buf[k]) = size[k]
    BY <1>8
  <2> DEFINE f == m[k + 1]
  <2>3. /\ f \in Field /\ CarriedField(f) /\ (f.kind \in Numbers => Len(f.items) = 1)
        /\ Encoded(f) \in Seq(ByteT) /\ Bytes(f) \in Nat /\ Len(Encoded(f)) = Bytes(f)
        /\ size[k + 1] = size[k] + Bytes(f) /\ buf[k + 1] = WriteField(buf[k], f)
    BY <1>3, <2>1
  <2>4. Len(buf[k]) + Bytes(f) < Room
    BY <1>6, <2>1, <2>2, <2>3
  <2>5. buf[k + 1] = buf[k] \o Encoded(f)
    <3> HIDE DEF f
    <3> QED
      BY <2>2, <2>3, <2>4, WriteAppends
  <2>6. buf[k + 1] \in Seq(ByteT) /\ Len(buf[k + 1]) = size[k + 1]
    <3> HIDE DEF f
    <3>1. PICK e \in Seq(ByteT) : e = Encoded(f)
      BY <2>3
    <3>2. buf[k] \o e \in Seq(ByteT) /\ Len(buf[k] \o e) = Len(buf[k]) + Len(e)
      BY <2>2, JoinedLength
    <3> QED
      BY ONLY <2>2, <2>3, <2>5, <3>1, <3>2
  <2> QED
    BY <2>1, <2>5, <2>6
<1> HIDE DEF Whole
<1>9. 0 \in S /\ \A k \in Nat : k \in S => k + 1 \in S
  <2>1. 0 \in S
    BY <1>7
  <2>2. ASSUME NEW k \in Nat, k \in S, k + 1 <= Len(m) PROVE Whole(k + 1)
    BY <1>2, <1>8, <2>2
  <2> QED
    BY <2>1, <2>2
<1> HIDE DEF S
<1>10. Nat \subseteq S
  BY <1>9, Induction
<1> QED
  <2>1. \A k \in 0 .. Len(m) : Whole(k)
    BY <1>2, <1>10 DEF S
  <2> QED
    BY <2>1 DEF Whole

(* Whoever reads a message field by field gets it, and nothing is left.    *)
LEMMA ReadsWhole ==
  ASSUME NEW m \in Seq(Fields), Carried(m)
  PROVE  /\ ReadBack(Written(m), m) = [fields |-> m, rest |-> <<>>]
         /\ m = <<>> => Written(m) = <<>>
         /\ m # <<>> /\ m[1].kind \in Numbers =>
               SubSeq(Written(m), 1, NumberWidth(m[1].kind)) =
                  IF m[1].kind = "number" THEN Host(m[1]) ELSE Reverse(Host(m[1]))
<1>1. Len(m) \in Nat
  BY LenProperties
<1>2. PICK buf : Steps(buf, m) /\ Written(m) = buf[Len(m)]
  BY <1>1, WrittenSteps
<1> DEFINE W == Written(m)
<1>3. PICK read : Reads(read, W, m) /\ ReadBack(W, m) = read[Len(m)]
  BY <1>1, ReadBackReads
<1>4. \A i \in 0 .. Len(m) :
         buf[i] \in Seq(ByteT) /\ (i # 0 => buf[i] = buf[i - 1] \o Encoded(m[i]))
  BY <1>2, WrittenWhole
<1>5. ASSUME NEW i \in 1 .. Len(m)
      PROVE  /\ m[i] \in Field /\ CarriedField(m[i])
             /\ m[i].kind \in Numbers => Len(m[i].items) = 1
             /\ Encoded(m[i]) \in Seq(ByteT) /\ read[i] = Reading(read[i - 1], m[i])
  <2>1. m[i] \in Fields
    BY ElementOfSeq
  <2>2. m[i] \in Field /\ (m[i].kind \in Numbers => Len(m[i].items) = 1)
    BY <2>1, MessagesAssumption
  <2>3. CarriedField(m[i])
    BY DEF Carried, CarriedField
  <2>4. i \in 0 .. Len(m) /\ i # 0
    OBVIOUS
  <2>5. read[i] = Reading(read[i - 1], m[i])
    BY <1>3, <2>4 DEF Reads
  <2> QED
    BY <2>2, <2>3, <2>5, EncodedBytes
<1>6. /\ W \in Seq(ByteT) /\ buf[0] = <<>> /\ read[0] = [fields |-> <<>>, rest |-> W]
  <2>1. 0 \in 0 .. Len(m) /\ Len(m) \in 0 .. Len(m)
    BY <1>1
  <2> QED
    BY <1>2, <1>3, <1>4, <2>1 DEF Steps, Reads
<1> HIDE DEF W
<1> DEFINE Right(k) == \A t \in Seq(ByteT) : W = buf[k] \o t =>
                           read[k] = [fields |-> SubSeq(m, 1, k), rest |-> t]
           S == {k \in Nat : k <= Len(m) => Right(k)}
<1>7. Right(0)
  <2>1. SubSeq(m, 1, 0) = <<>>
    BY SubSeqEmpty
  <2>2. \A t \in Seq(ByteT) : <<>> \o t = t
    BY ConcatEmptySeq
  <2> QED
    BY <1>6, <2>1, <2>2
<1>8. ASSUME NEW k \in Nat, k + 1 <= Len(m), Right(k),
             NEW t \in Seq(ByteT), W = buf[k + 1] \o t
      PROVE  read[k + 1] = [fields |-> SubSeq(m, 1, k + 1), rest |-> t]
  <2>1. /\ k + 1 \in 1 .. Len(m) /\ k + 1 \in 0 .. Len(m) /\ k \in 0 .. Len(m)
        /\ (k + 1) - 1 = k /\ k + 1 # 0 /\ k <= Len(m)
    <3>1. k + 1 <= Len(m)
      BY <1>8
    <3> QED
      BY <1>1, <3>1
  <2> DEFINE f == m[k + 1]
             rest == Encoded(f) \o t
  <2>2. /\ f \in Field /\ CarriedField(f) /\ (f.kind \in Numbers => Len(f.items) = 1)
        /\ Encoded(f) \in Seq(ByteT) /\ read[k + 1] = Reading(read[k], f)
    BY <1>5, <2>1
  <2>3. buf[k] \in Seq(ByteT) /\ buf[k + 1] = buf[k] \o Encoded(f)
    BY <1>4, <2>1
  <2>4. rest \in Seq(ByteT) /\ W = buf[k] \o rest
    <3>1. rest \in Seq(ByteT)
      <4> HIDE DEF f
      <4> QED
        BY <2>2, Joined
    <3>2. (buf[k] \o Encoded(f)) \o t = buf[k] \o (Encoded(f) \o t)
      <4> HIDE DEF f
      <4> QED
        BY <2>2, <2>3, Joined
    <3> QED
      BY <1>8, <2>3, <3>1, <3>2
  <2>5. read[k] = [fields |-> SubSeq(m, 1, k), rest |-> rest]
    <3> HIDE DEF rest
    <3> QED
      BY <1>8, <2>4
  <2>6. ReadField(rest, f.kind) = [items |-> f.items, rest |-> t]
    <3> HIDE DEF f
    <3> QED
      BY <2>2, ReadTakes
  <2>7. [f EXCEPT !.items = f.items] = f
    <3> HIDE DEF f
    <3> QED
      BY <2>2 DEF Field
  <2>8. Reading(read[k], f) = [fields |-> Append(SubSeq(m, 1, k), f), rest |-> t]
    <3> HIDE DEF f, rest
    <3>1. read[k].fields = SubSeq(m, 1, k) /\ read[k].rest = rest
      BY <2>5
    <3>2. /\ ReadField(rest, f.kind).items = f.items /\ ReadField(rest, f.kind).rest = t
      BY <2>6
    <3> QED
      BY <2>7, <3>1, <3>2 DEF Reading
  <2>9. Append(SubSeq(m, 1, k), f) = SubSeq(m, 1, k + 1)
    <3>1. SubSeq(m, 1, k) \in Seq(Fields) /\ f \in Fields
      BY <2>1, SubSeqProperties, ElementOfSeq
    <3>2. SubSeq(m, 1, k + 1) = SubSeq(m, 1, (k + 1) - 1) \o <<m[k + 1]>>
      BY <2>1, SubSeqRecursiveSecond
    <3> HIDE DEF f
    <3>3. Append(SubSeq(m, 1, k), f) = SubSeq(m, 1, k) \o <<f>>
      BY <3>1, AppendIsConcat
    <3> QED
      BY <2>1, <3>2, <3>3 DEF f
  <2> QED
    BY <2>2, <2>8, <2>9
<1>9. Right(Len(m))
  <2>1. \A k \in Nat : k + 1 <= Len(m) /\ Right(k) => Right(k + 1)
    BY <1>8
  <2> HIDE DEF Right
  <2>2. 0 \in S
    BY <1>7
  <2>3. ASSUME NEW k \in Nat, k \in S, k + 1 <= Len(m) PROVE Right(k + 1)
    <3>1. k <= Len(m)
      BY <1>1, <2>3
    <3> QED
      BY <2>1, <2>3, <3>1
  <2>4. \A k \in Nat : k \in S => k + 1 \in S
    BY <2>3
  <2> HIDE DEF S
  <2>5. Nat \subseteq S
    BY <2>2, <2>4, Induction
  <2> QED
    BY <1>1, <2>5 DEF S
<1>10. ReadBack(W, m) = [fields |-> m, rest |-> <<>>]
  <2>2. W = buf[Len(m)] \o <<>> /\ <<>> \in Seq(ByteT)
    BY <1>2, <1>6, ConcatEmptySeq DEF W
  <2>3. SubSeq(m, 1, Len(m)) = m
    BY SubSeqFull
  <2> QED
    BY <1>3, <1>9, <2>2, <2>3
(* Its bytes begin with those of the first field. *)
<1>11. ASSUME NEW k \in Nat, k + 1 <= Len(m), k # 0,
              NEW t \in Seq(ByteT), buf[k] = buf[1] \o t
       PROVE  \E u \in Seq(ByteT) : buf[k + 1] = buf[1] \o u
  <2>1. k + 1 \in 0 .. Len(m) /\ k + 1 # 0 /\ (k + 1) - 1 = k /\ k + 1 \in 1 .. Len(m)
        /\ 1 \in 0 .. Len(m)
    BY <1>1, <1>11
  <2>2. Encoded(m[k + 1]) \in Seq(ByteT)
    BY <1>5, <2>1
  <2>3. buf[k + 1] = buf[k] \o Encoded(m[k + 1]) /\ buf[1] \in Seq(ByteT)
    BY <1>4, <2>1
  <2>4. PICK e : e = Encoded(m[k + 1])
    OBVIOUS
  <2>5. /\ (buf[1] \o t) \o e = buf[1] \o (t \o e) /\ t \o e \in Seq(ByteT)
    BY <2>2, <2>3, <2>4, Joined
  <2>6. buf[k + 1] = buf[1] \o (t \o e)
    BY <1>11, <2>3, <2>4, <2>5
  <2> QED
    BY <2>5, <2>6
<1> DEFINE Begun(k) == k # 0 => \E u \in Seq(ByteT) : buf[k] = buf[1] \o u
           P == {k \in Nat : k <= Len(m) => Begun(k)}
<1>12. Begun(Len(m))
  <2>1. Begun(0)
    OBVIOUS
  <2>2. ASSUME NEW k \in Nat, k + 1 <= Len(m), Begun(k) PROVE Begun(k + 1)
    <3>1. CASE k = 0
      <4>1. buf[1] \in Seq(ByteT)
        <5>1. 1 \in 0 .. Len(m)
          BY <1>1, <2>2, <3>1
        <5> QED
          BY <1>4, <5>1
      <4>2. buf[1] = buf[1] \o <<>> /\ <<>> \in Seq(ByteT)
        BY <4>1, ConcatEmptySeq
      <4>3. k + 1 = 1
        BY <3>1
      <4> QED
        BY <4>2, <4>3
    <3>2. CASE k # 0
      <4>1. PICK t \in Seq(ByteT) : buf[k] = buf[1] \o t
        BY <2>2, <3>2
      <4> QED
        BY <1>11, <2>2, <3>2, <4>1
    <3> QED
      BY <3>1, <3>2
  <2> HIDE DEF Begun
  <2>3. 0 \in P
    BY <2>1
  <2>4. ASSUME NEW k \in Nat, k \in P, k + 1 <= Len(m) PROVE Begun(k + 1)
    <3>1. k <= Len(m)
      BY <1>1, <2>4
    <3> QED
      BY <2>2, <2>4, <3>1
  <2>5. \A k \in Nat : k \in P => k + 1 \in P
    BY <2>4
  <2> HIDE DEF P
  <2>6. Nat \subseteq P
    BY <2>3, <2>5, Induction
  <2> QED
    BY <1>1, <2>6 DEF P
<1>13. ASSUME m # <<>>, m[1].kind \in Numbers
       PROVE  SubSeq(W, 1, NumberWidth(m[1].kind)) =
                 IF m[1].kind = "number" THEN Host(m[1]) ELSE Reverse(Host(m[1]))
  <2>1. Len(m) # 0 /\ 1 \in 1 .. Len(m) /\ 1 \in 0 .. Len(m)
    BY <1>1, <1>13, EmptySeq
  <2>2. PICK u \in Seq(ByteT) : W = buf[1] \o u
    BY <1>2, <1>12, <2>1 DEF W
  <2>3. m[1] \in Field /\ Len(m[1].items) = 1 /\ Encoded(m[1]) \in Seq(ByteT)
    BY <1>5, <1>13, <2>1
  <2>4. PICK f \in Field : f = m[1]
    BY <2>3
  <2>5. /\ Len(Encoded(f)) = NumberWidth(f.kind) /\ Encoded(f) \in Seq(ByteT)
        /\ Encoded(f) = IF f.kind = "number" THEN Host(f) ELSE Reverse(Host(f))
    BY <1>13, <2>3, <2>4, HostBytes
  <2>6. buf[1] = Encoded(m[1])
    <3>1. buf[1] = buf[0] \o Encoded(m[1])
      <4>1. 1 - 1 = 0 /\ 1 # 0
        OBVIOUS
      <4>2. buf[1] = buf[1 - 1] \o Encoded(m[1])
        BY <1>4, <2>1, <4>1
      <4> QED
        BY <4>1, <4>2
    <3> QED
      BY <1>6, <2>3, <3>1, ConcatEmptySeq
  <2> QED
    BY <2>2, <2>3, <2>4, <2>5, <2>6, Prefixed
<1>14. m = <<>> => W = <<>>
  BY <1>2, <1>6 DEF W
<1> QED
  BY <1>10, <1>13, <1>14 DEF W

(* Whoever gets a message that is carried reads back what was written,     *)
(* field by field, with nothing left over; operator<< sends a number as it *)
(* lies in memory, and one that the application gave to Host2Net before in *)
(* network order.                                                          *)
THEOREM ReadsBackWhatWasWritten == Spec => []ReadsBack
<1>1. Inv => ReadsBack
  <2> SUFFICES ASSUME Inv, NEW c \in Conns, inbox[c] # <<>>, Carried(message)
               PROVE  /\ ReadBack(Head(inbox[c]), message)
                           = [fields |-> message, rest |-> <<>>]
                      /\ message[1].kind \in Numbers =>
                            SubSeq(Head(inbox[c]), 1, NumberWidth(message[1].kind)) =
                               IF message[1].kind = "number" THEN Host(message[1])
                               ELSE Reverse(Host(message[1]))
    BY DEF ReadsBack, Host
  <2>1. inbox[c] = <<Written(message)>> /\ Written(message) # <<>>
    BY DEF Inv, Once, Got
  <2>2. Head(inbox[c]) = Written(message)
    BY <2>1
  <2>3. message \in Seq(Fields)
    BY DEF Inv, Types
  <2>4. message # <<>>
    BY <2>1, <2>3, ReadsWhole
  <2> QED
    BY <2>2, <2>3, <2>4, ReadsWhole
<1> QED
  BY <1>1, Invariance, PTL
=============================================================================
