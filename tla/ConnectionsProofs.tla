-------------------------- MODULE ConnectionsProofs --------------------------
(***************************************************************************)
(* Proofs about Connections for any number of network threads, sockets and *)
(* places in a thread: the safety properties the model checker verifies    *)
(* for two threads of one place each.                                      *)
(***************************************************************************)
EXTENDS Connections, WellFoundedInduction, SequenceTheorems, TLAPS

New(t)     == Elems(newTasks[t])
Moving(t)  == Elems(moving[t])
Serving(t) == New(t) \cup Moving(t) \cup tasks[t]

(* No two lists have a socket in common, and none has one twice. *)
Apart ==
    /\ \A t, u \in Threads :
          /\ New(t) \cap Moving(u) = {} /\ New(t) \cap tasks[u] = {}
          /\ Moving(t) \cap tasks[u] = {}
          /\ t # u => /\ New(t) \cap New(u) = {} /\ Moving(t) \cap Moving(u) = {}
                      /\ tasks[t] \cap tasks[u] = {}
    /\ \A t \in Threads : Distinct(newTasks[t]) /\ Distinct(moving[t])

(* NewConnection holds a socket of its own, which until AddSocket pushed   *)
(* it is in no list.                                                       *)
Opening ==
    /\ \A t \in Threads :
          /\ nPc[t] \in {"choose", "push", "task"} <=> conn[t] # None
          /\ nPc[t] = "push" => target[t] \in Threads
          /\ conn[t] \notin fresh
          /\ nPc[t] # "task" => \A u \in Threads : conn[t] \notin Serving(u)
    /\ \A t, u \in Threads : t # u /\ conn[t] # None => conn[t] # conn[u]
    /\ \A t \in Threads : fresh \cap Serving(t) = {}

(* What a network thread has left behind where it is. *)
Phases ==
    \A t \in Threads :
        /\ nPc[t] = "ended" <=> ~runnable[t]
        /\ nPc[t] # "add" => moving[t] = <<>>
        /\ nPc[t] \in {"reset", "ended"} => tasks[t] = {}
        /\ nPc[t] = "ended" => newTasks[t] = <<>>

(* How far the main thread has come with stopping them. *)
Stopping ==
    /\ lPc \in {"stopping", "joining", "recycled", "done"} =>
          \A t \in Threads \ joining : nPc[t] = "ended"
    /\ lPc = "joining" => joining # {}
    /\ lPc \in {"recycled", "done"} => joining = {}
    /\ lPc \in {"new", "visit", "stop"} => pool = Threads
    /\ lPc # "visit" => todo = {}

Managed ==
    \A t \in Threads : \A c \in Conns \cap Serving(t) :
        c \in tmNew \cup tmTasks \/ invalid[c] \/ \E u \in Threads : conn[u] = c

(* The inductive invariant. *)
Inv == TypeOK /\ RegisteredIsHeld /\ Apart /\ Opening /\ Phases /\ Stopping /\ Managed

-----------------------------------------------------------------------------
(* The elements of a sequence that grows or shrinks. *)
LEMMA ElemsAppend ==
  ASSUME NEW S, NEW s \in Seq(S), NEW e \in S
  PROVE  /\ Append(s, e) \in Seq(S)
         /\ Elems(Append(s, e)) = Elems(s) \cup {e}
         /\ Distinct(s) /\ e \notin Elems(s) => Distinct(Append(s, e))
  BY AppendProperties DEF Elems, Distinct

LEMMA ElemsTail ==
  ASSUME NEW S, NEW s \in Seq(S), s # <<>>
  PROVE  /\ Head(s) \in S /\ Tail(s) \in Seq(S) /\ Head(s) \in Elems(s)
         /\ Distinct(s) => Distinct(Tail(s)) /\ Elems(Tail(s)) = Elems(s) \ {Head(s)}
<1>1. /\ Tail(s) \in Seq(S) /\ Head(s) \in S
      /\ Len(s) \in Nat \ {0} /\ Len(Tail(s)) = Len(s) - 1
  BY HeadTailProperties, LenProperties, EmptySeq
<1>2. Head(s) = s[1]
  BY <1>1
<1>3. \A i \in 1 .. Len(Tail(s)) : Tail(s)[i] = s[i + 1]
  BY HeadTailProperties
<1>4. Head(s) \in Elems(s)
  BY <1>1, <1>2 DEF Elems
<1>5. ASSUME Distinct(s) PROVE Distinct(Tail(s))
  BY <1>1, <1>3, <1>5 DEF Distinct
<1>6. ASSUME Distinct(s) PROVE Elems(Tail(s)) = Elems(s) \ {Head(s)}
  <2>1. ASSUME NEW i \in 1 .. Len(Tail(s))
        PROVE  Tail(s)[i] \in Elems(s) \ {Head(s)}
    BY <1>1, <1>2, <1>3, <1>6, i + 1 \in 1 .. Len(s) DEF Elems, Distinct
  <2>2. ASSUME NEW i \in 1 .. Len(s), s[i] # Head(s)
        PROVE  s[i] \in Elems(Tail(s))
    <3>1. i - 1 \in 1 .. Len(Tail(s)) /\ Tail(s)[i - 1] = s[i]
      BY <1>1, <1>2, <1>3, <2>2
    <3> QED
      BY <3>1 DEF Elems
  <2> QED
    BY <2>1, <2>2 DEF Elems
<1> QED
  BY <1>1, <1>4, <1>5, <1>6

LEMMA ElemsEmpty == Elems(<<>>) = {} /\ Distinct(<<>>)
  BY DEF Elems, Distinct

LEMMA ElemsType ==
  ASSUME NEW S, NEW s \in Seq(S)
  PROVE  Elems(s) \subseteq S
  BY ElementOfSeq DEF Elems

(* First is defined: the set of threads has a least one. *)
LEMMA FirstIsIn ==
  ASSUME NEW S \in SUBSET Threads, S # {}
  PROVE  First(S) \in S
<1>1. S \in SUBSET Nat
  BY DEF Threads
<1>2. PICK t \in S : \A u \in S : ~ (<<u, t>> \in OpToRel(<, Nat))
  BY <1>1, WFMin, NatLessThanWellFounded, Zenon
<1>3. \A u \in S : ~ (u < t)
  BY <1>1, <1>2 DEF OpToRel
<1>4. \A u \in S : t <= u
  BY <1>1, <1>3
<1> QED
  BY <1>4 DEF First

-----------------------------------------------------------------------------
LEMMA ElemsSubSeq ==
  ASSUME NEW S, NEW s \in Seq(S), NEW m \in Int, NEW n \in Int, 0 < m, n <= Len(s)
  PROVE  /\ SubSeq(s, m, n) \in Seq(S)
         /\ Distinct(s) => Distinct(SubSeq(s, m, n))
         /\ Elems(SubSeq(s, m, n)) = {s[i] : i \in m .. n}
<1>1. Len(s) \in Nat /\ \A i \in m .. n : i \in 1 .. Len(s) /\ s[i] \in S
  BY ElementOfSeq, LenProperties
<1> DEFINE r == SubSeq(s, m, n)
<1>2. /\ r \in Seq(S)
      /\ Len(r) = IF m <= n THEN n - m + 1 ELSE 0
      /\ \A i \in 1 .. n - m + 1 : r[i] = s[m + i - 1]
  BY <1>1, SubSeqProperties
<1> HIDE DEF r
<1>3. \A i \in 1 .. Len(r) : m + i - 1 \in m .. n /\ r[i] = s[m + i - 1]
  BY <1>2
<1>4. Distinct(s) => Distinct(r)
  BY <1>1, <1>2, <1>3 DEF Distinct
<1>5. ASSUME NEW i \in m .. n
      PROVE  s[i] \in Elems(r)
  <2>1. i - m + 1 \in 1 .. Len(r) /\ r[i - m + 1] = s[i]
    BY <1>2, <1>3
  <2> QED
    BY <2>1 DEF Elems
<1>6. Elems(r) = {s[i] : i \in m .. n}
  <2>1. Elems(r) \subseteq {s[i] : i \in m .. n}
    BY <1>3 DEF Elems
  <2> QED
    BY <1>5, <2>1
<1> QED
  BY <1>2, <1>4, <1>6 DEF r

(* Server::_Init gives each opener to one thread: those from Lo to Hi. *)
Lo(t) == (t - 1) * MaxTaskSize + 1
Hi(t) == Least(t * MaxTaskSize, Len(Openers))

LEMMA OpenersApart ==
  /\ \A t \in Threads : /\ Lo(t) \in Int /\ Hi(t) \in Int
                         /\ 0 < Lo(t) /\ Hi(t) <= Len(Openers)
  /\ \A t, u \in Threads : t < u => Hi(t) < Lo(u)
<1> USE DEF Lo, Hi
<1>0. MaxTaskSize \in Nat \ {0} /\ Len(Openers) \in Nat
  BY ConnectionsAssumption
<1>1. ASSUME NEW t \in Threads
      PROVE  t * MaxTaskSize \in Nat /\ (t - 1) * MaxTaskSize \in Nat
  BY <1>0 DEF Threads
<1>2. ASSUME NEW t \in Threads, NEW u \in Threads, t < u
      PROVE  Hi(t) < Lo(u)
  <2>1. t \in Nat /\ u - 1 \in Nat /\ t <= u - 1
    BY <1>2 DEF Threads
  <2>2. t * MaxTaskSize <= (u - 1) * MaxTaskSize
    BY <1>0, <2>1
  <2> QED
    BY <1>0, <1>1, <2>2 DEF Least
<1> QED
  BY <1>0, <1>1, <1>2 DEF Least

LEMMA InitInv == Init => Inv
<1> SUFFICES ASSUME Init PROVE Inv
  OBVIOUS
<1>0. /\ N \in Nat \ {0} /\ MaxTaskSize \in Nat \ {0} /\ Len(Openers) \in Nat
      /\ Openers \in Seq({Listener} \cup Clients) /\ Distinct(Openers)
  BY ConnectionsAssumption
<1>2. newTasks = [t \in Threads |-> SubSeq(Openers, Lo(t), Hi(t))]
  BY DEF Init, Lo, Hi
<1>3. \A t \in Threads :
         /\ newTasks[t] \in Seq({Listener} \cup Clients) /\ Distinct(newTasks[t])
         /\ New(t) = {Openers[i] : i \in Lo(t) .. Hi(t)}
  BY <1>0, <1>2, OpenersApart, ElemsSubSeq DEF New
<1>4. \A t \in Threads : newTasks[t] \in Seq(Sockets) /\ Len(newTasks[t]) \in Nat
  BY <1>3, SeqMonotonic, LenProperties DEF Sockets
<1>5. \A t, u \in Threads : t # u => New(t) \cap New(u) = {}
  <2> SUFFICES ASSUME NEW t \in Threads, NEW u \in Threads, t # u,
                      NEW i \in Lo(t) .. Hi(t), NEW j \in Lo(u) .. Hi(u),
                      Openers[i] = Openers[j]
               PROVE  FALSE
    BY <1>3
  <2>1. i \in 1 .. Len(Openers) /\ j \in 1 .. Len(Openers)
    BY <1>0, OpenersApart
  <2>2. i = j
    BY <1>0, <2>1 DEF Distinct
  <2>3. t < u \/ u < t
    BY DEF Threads
  <2> QED
    BY OpenersApart, <2>2, <2>3
<1>6. \A t \in Threads : New(t) \subseteq {Listener} \cup Clients
  BY <1>3, ElemsType DEF New
<1>7. \A t \in Threads : Moving(t) = {} /\ tasks[t] = {} /\ Distinct(moving[t])
  BY ElemsEmpty DEF Init, Moving
<1>8. \A t \in Threads : Serving(t) = New(t)
  BY <1>7 DEF Serving
<1>9. TypeOK
  <2>1. newTasks \in [Threads -> Seq(Sockets)] /\ newCnt \in [Threads -> Nat]
    BY <1>2, <1>4 DEF Init
  <2>2. moving \in [Threads -> Seq(Sockets)]
    BY EmptySeq DEF Init
  <2> QED
    BY <2>1, <2>2 DEF TypeOK, Init
<1>10. RegisteredIsHeld /\ Phases /\ Stopping
  BY DEF Init, RegisteredIsHeld, Phases, Stopping
<1>11. Apart
  BY <1>3, <1>5, <1>7 DEF Apart
<1>12. Opening /\ Managed
  BY <1>6, <1>8, ConnectionsAssumption DEF Opening, Managed, Init, Sockets
<1> QED
  BY <1>9, <1>10, <1>11, <1>12 DEF Inv

-----------------------------------------------------------------------------
(* One lemma for each action: it preserves the invariant.  Lists that do   *)
(* not change have the same elements.                                      *)
LEMMA SameLists ==
  ASSUME UNCHANGED <<newTasks, moving, tasks>>
  PROVE  /\ \A t \in Threads : Serving(t)' = Serving(t)
         /\ Apart => Apart'
<1>1. \A t \in Threads : New(t)' = New(t) /\ Moving(t)' = Moving(t)
  BY DEF New, Moving
<1>2. \A t \in Threads : Serving(t)' = Serving(t)
  BY <1>1 DEF Serving
<1>3. Apart => Apart'
  BY <1>1 DEF Apart
<1> QED
  BY <1>2, <1>3

LEMMA ServingType ==
  ASSUME TypeOK
  PROVE  /\ \A t \in Threads : /\ New(t) \subseteq Sockets /\ Moving(t) \subseteq Sockets
                                /\ tasks[t] \subseteq Sockets /\ None \notin Serving(t)
         /\ None \notin Conns /\ Conns \subseteq Sockets
  BY ElemsType, ConnectionsAssumption DEF TypeOK, New, Moving, Serving, Sockets

LEMMA SkipInv ==
  ASSUME Inv, NEW t \in Threads, Skip(t)
  PROVE  Inv'
<1> USE DEF Inv, Skip, queue, served, opening, threads, manager, Goto
<1>1. TypeOK'
  BY DEF TypeOK
<1>2. RegisteredIsHeld'
  BY DEF RegisteredIsHeld
<1>3. Apart'
  BY SameLists
<1>4. Opening'
  BY SameLists DEF Opening, TypeOK
<1>5. Phases' /\ Stopping'
  BY DEF Phases, Stopping, TypeOK
<1>6. Managed'
  BY SameLists DEF Managed, TypeOK
<1> QED
  BY <1>1, <1>2, <1>3, <1>4, <1>5, <1>6

LEMMA SocketErrorInv ==
  ASSUME Inv, NEW t \in Threads, NEW s \in Sockets, SocketError(t, s)
  PROVE  Inv'
<1> USE DEF Inv, SocketError, queue, served, opening, threads, manager, Goto
<1>1. TypeOK'
  BY DEF TypeOK
<1>2. RegisteredIsHeld'
  BY DEF RegisteredIsHeld
<1>3. Apart'
  BY SameLists
<1>4. Opening'
  BY SameLists DEF Opening, TypeOK
<1>5. Phases' /\ Stopping'
  BY DEF Phases, Stopping, TypeOK
<1>6. Managed'
  BY SameLists DEF Managed, TypeOK
<1> QED
  BY <1>1, <1>2, <1>3, <1>4, <1>5, <1>6

LEMMA ChooseInv ==
  ASSUME Inv, NEW t \in Threads, Choose(t)
  PROVE  Inv'
<1> DEFINE free == {u \in pool : runnable[u] /\ TaskSize(u) < MaxTaskSize}
<1>1. free # {} => First(free) \in Threads
  BY FirstIsIn, free \in SUBSET Threads DEF Inv, TypeOK
<1>2. /\ nPc[t] = "choose"
      /\ UNCHANGED <<queue, served, fresh, threads, manager, lPc, invalid, terminate, crashed>>
      /\ free = {} => /\ conn' = [conn EXCEPT ![t] = None]
                      /\ nPc' = [nPc EXCEPT ![t] = "poll"] /\ target' = target
      /\ free # {} => /\ conn' = conn /\ nPc' = [nPc EXCEPT ![t] = "push"]
                      /\ target' = [target EXCEPT ![t] = First(free)]
  BY <1>1 DEF Choose, Goto
<1> HIDE DEF free
<1> USE <1>2 DEF Inv, queue, served, threads, manager
<1>3. /\ nPc \in [Threads -> {"poll", "add", "choose", "push", "task", "leave", "reset", "ended"}]
      /\ conn \in [Threads -> Conns \cup {None}] /\ target \in [Threads -> Threads \cup {0}]
  BY DEF TypeOK
<1>4. /\ conn' \in [Threads -> Conns \cup {None}] /\ target' \in [Threads -> Threads \cup {0}]
      /\ nPc' \in [Threads -> {"poll", "add", "choose", "push", "task", "leave", "reset", "ended"}]
      /\ \A u \in Threads \ {t} : nPc'[u] = nPc[u] /\ conn'[u] = conn[u] /\ target'[u] = target[u]
      /\ \/ nPc'[t] = "poll" /\ conn'[t] = None
         \/ nPc'[t] = "push" /\ conn'[t] = conn[t] /\ target'[t] \in Threads
  <2> USE ONLY <1>1, <1>2, <1>3
  <2>1. CASE free = {}
    BY <2>1
  <2>2. CASE free # {}
    BY <2>2
  <2> QED
    BY <2>1, <2>2
<1>5. TypeOK' /\ RegisteredIsHeld' /\ Apart'
  <2>1. RegisteredIsHeld' /\ Apart'
    BY SameLists DEF RegisteredIsHeld
  <2> QED
    BY <1>4, <2>1 DEF TypeOK
<1>6. Opening'
  <2>1. None \notin fresh
    BY ServingType DEF TypeOK
  <2> QED
    BY <1>4, <2>1, SameLists, ServingType DEF Opening
<1>7. Phases' /\ Stopping'
  BY DEF Phases, Stopping, TypeOK
<1>8. Managed'
  <2>1. \A c \in Conns, u \in Threads :
           c \in Serving(u) /\ conn[t] = c => conn'[t] = c
    BY DEF Opening
  <2>2. \A u \in Threads : u # t => conn'[u] = conn[u]
    BY DEF TypeOK
  <2> QED
    BY <2>1, <2>2, SameLists DEF Managed
<1> QED
  BY <1>5, <1>6, <1>7, <1>8

LEMMA AddTaskInv ==
  ASSUME Inv, NEW t \in Threads, AddTask(t)
  PROVE  Inv'
<1> USE DEF Inv, AddTask, queue, served, opening, threads, manager, Goto
<1>1. TypeOK'
  BY DEF TypeOK, Opening
<1>2. RegisteredIsHeld'
  BY DEF RegisteredIsHeld
<1>3. Apart'
  BY SameLists
<1>4. Opening'
  BY SameLists, ServingType DEF Opening, TypeOK
<1>5. Phases' /\ Stopping'
  BY DEF Phases, Stopping, TypeOK
<1>6. Managed'
  BY SameLists DEF Managed, TypeOK
<1> QED
  BY <1>1, <1>2, <1>3, <1>4, <1>5, <1>6

LEMMA AcceptInv ==
  ASSUME Inv, NEW t \in Threads, NEW c \in Conns, Accept(t, c)
  PROVE  Inv'
<1> USE DEF Inv, Accept, queue, served, opening, threads, manager, Goto
<1>1. TypeOK'
  BY DEF TypeOK
<1>2. RegisteredIsHeld'
  BY DEF RegisteredIsHeld
<1>3. Apart'
  BY SameLists
<1>4. Opening'
  BY SameLists DEF Opening, TypeOK
<1>5. Phases' /\ Stopping'
  BY DEF Phases, Stopping, TypeOK
<1>6. Managed'
  <2>1. \A d \in Conns, u \in Threads : conn[u] = d => conn'[u] = d
    BY ServingType DEF Opening, TypeOK
  <2> QED
    BY <2>1, SameLists DEF Managed
<1> QED
  BY <1>1, <1>2, <1>3, <1>4, <1>5, <1>6

LEMMA TakeNewInv ==
  ASSUME Inv, TakeNew
  PROVE  Inv'
<1> USE DEF Inv, TakeNew, queue, served, opening, threads, manager, Goto
<1>1. TypeOK'
  BY DEF TypeOK
<1>2. RegisteredIsHeld'
  BY DEF RegisteredIsHeld
<1>3. Apart'
  BY SameLists
<1>4. Opening'
  BY SameLists DEF Opening, TypeOK
<1>5. Phases' /\ Stopping'
  BY DEF Phases, Stopping, TypeOK
<1>6. Managed'
  BY SameLists DEF Managed, TypeOK
<1> QED
  BY <1>1, <1>2, <1>3, <1>4, <1>5, <1>6

LEMMA SkipNewInv ==
  ASSUME Inv, SkipNew
  PROVE  Inv'
<1> USE DEF Inv, SkipNew, queue, served, opening, threads, manager, Goto
<1>1. TypeOK'
  BY DEF TypeOK
<1>2. RegisteredIsHeld'
  BY DEF RegisteredIsHeld
<1>3. Apart'
  BY SameLists
<1>4. Opening'
  BY SameLists DEF Opening, TypeOK
<1>5. Phases' /\ Stopping'
  BY DEF Phases, Stopping, TypeOK
<1>6. Managed'
  BY SameLists DEF Managed, TypeOK
<1> QED
  BY <1>1, <1>2, <1>3, <1>4, <1>5, <1>6

LEMMA VisitInv ==
  ASSUME Inv, NEW c \in Conns, Visit(c)
  PROVE  Inv'
<1> USE DEF Inv, Visit, queue, served, opening, threads, manager, Goto
<1>0. PICK bad \in BOOLEAN : invalid' = [invalid EXCEPT ![c] = @ \/ bad]
  OBVIOUS
<1>1. TypeOK'
  <2>1. invalid' \in [Sockets -> BOOLEAN]
    BY <1>0 DEF TypeOK
  <2>2. tmTasks' \subseteq Conns /\ todo' \subseteq tmTasks'
    BY DEF TypeOK, Remaining
  <2> QED
    BY <2>1, <2>2 DEF TypeOK
<1>2. RegisteredIsHeld'
  BY DEF RegisteredIsHeld
<1>3. Apart'
  BY SameLists
<1>4. Opening'
  BY SameLists DEF Opening, TypeOK
<1>5. Phases' /\ Stopping'
  BY DEF Phases, Stopping, TypeOK
<1>6. Managed'
  <2>1. \A d \in Sockets : invalid[d] => invalid'[d]
    BY <1>0 DEF TypeOK
  <2>2. \A d \in tmTasks : d \in tmTasks' \/ invalid[d]
    BY DEF Remaining
  <2> QED
    BY <2>1, <2>2, SameLists, ServingType DEF Managed
<1> QED
  BY <1>1, <1>2, <1>3, <1>4, <1>5, <1>6

LEMMA VisitDoneInv ==
  ASSUME Inv, VisitDone
  PROVE  Inv'
<1> USE DEF Inv, VisitDone, queue, served, opening, threads, manager, Goto
<1>1. TypeOK'
  BY DEF TypeOK
<1>2. RegisteredIsHeld'
  BY DEF RegisteredIsHeld
<1>3. Apart'
  BY SameLists
<1>4. Opening'
  BY SameLists DEF Opening, TypeOK
<1>5. Phases' /\ Stopping'
  BY DEF Phases, Stopping, TypeOK
<1>6. Managed'
  BY SameLists DEF Managed, TypeOK
<1> QED
  BY <1>1, <1>2, <1>3, <1>4, <1>5, <1>6

LEMMA StopAllInv ==
  ASSUME Inv, StopAll
  PROVE  Inv'
<1> USE DEF Inv, StopAll, queue, served, opening, threads, manager, Goto
<1>1. TypeOK'
  BY DEF TypeOK
<1>2. RegisteredIsHeld'
  BY DEF RegisteredIsHeld
<1>3. Apart'
  BY SameLists
<1>4. Opening'
  BY SameLists DEF Opening, TypeOK
<1>5. Phases' /\ Stopping'
  BY DEF Phases, Stopping, TypeOK
<1>6. Managed'
  BY SameLists DEF Managed, TypeOK
<1> QED
  BY <1>1, <1>2, <1>3, <1>4, <1>5, <1>6

LEMMA StopInv ==
  ASSUME Inv, Stop
  PROVE  Inv'
<1> USE DEF Inv, Stop, queue, served, opening, threads, manager, Goto
<1>1. TypeOK'
  BY FirstIsIn DEF TypeOK, Stopped
<1>2. RegisteredIsHeld'
  BY DEF RegisteredIsHeld
<1>3. Apart'
  BY SameLists
<1>4. Opening'
  BY SameLists DEF Opening, TypeOK
<1>5. Phases' /\ Stopping'
  BY DEF Phases, Stopping, TypeOK
<1>6. Managed'
  BY SameLists DEF Managed, TypeOK
<1> QED
  BY <1>1, <1>2, <1>3, <1>4, <1>5, <1>6

LEMMA JoinInv ==
  ASSUME Inv, Join
  PROVE  Inv'
<1> USE DEF Inv, Join, queue, served, opening, threads, manager, Goto
<1>1. TypeOK'
  BY DEF TypeOK
<1>2. RegisteredIsHeld'
  BY DEF RegisteredIsHeld
<1>3. Apart'
  BY SameLists
<1>4. Opening'
  BY SameLists DEF Opening, TypeOK
<1>5. Phases' /\ Stopping'
  BY DEF Phases, Stopping, TypeOK
<1>6. Managed'
  BY SameLists DEF Managed, TypeOK
<1> QED
  BY <1>1, <1>2, <1>3, <1>4, <1>5, <1>6

LEMMA RecycleInv ==
  ASSUME Inv, Recycle
  PROVE  Inv'
<1> USE DEF Inv, Recycle, queue, served, opening, threads, manager, Goto
<1>0. \A t \in Threads : Serving(t) = {}
  BY ElemsEmpty DEF Stopping, Phases, Serving, New, Moving
<1>1. TypeOK'
  BY DEF TypeOK, Stopping
<1>2. RegisteredIsHeld'
  BY DEF RegisteredIsHeld
<1>3. Apart'
  BY SameLists
<1>4. Opening'
  BY SameLists DEF Opening, TypeOK
<1>5. Phases' /\ Stopping'
  BY DEF Phases, Stopping, TypeOK
<1>6. Managed'
  BY <1>0, SameLists DEF Managed
<1> QED
  BY <1>1, <1>2, <1>3, <1>4, <1>5, <1>6

LEMMA DestroyManagerInv ==
  ASSUME Inv, DestroyManager
  PROVE  Inv'
<1> USE DEF Inv, DestroyManager, queue, served, opening, threads, manager, Goto
<1>0. \A t \in Threads : Serving(t) = {}
  BY ElemsEmpty DEF Stopping, Phases, Serving, New, Moving
<1>1. TypeOK'
  BY DEF TypeOK
<1>2. RegisteredIsHeld'
  BY DEF RegisteredIsHeld
<1>3. Apart'
  BY SameLists
<1>4. Opening'
  BY SameLists DEF Opening, TypeOK
<1>5. Phases' /\ Stopping'
  BY DEF Phases, Stopping, TypeOK
<1>6. Managed'
  BY <1>0, SameLists DEF Managed
<1> QED
  BY <1>1, <1>2, <1>3, <1>4, <1>5, <1>6

LEMMA TerminateInv ==
  ASSUME Inv, Terminate
  PROVE  Inv'
<1> USE DEF Inv, Terminate, queue, served, opening, threads, manager, Goto
<1>1. TypeOK'
  BY DEF TypeOK
<1>2. RegisteredIsHeld'
  BY DEF RegisteredIsHeld
<1>3. Apart'
  BY SameLists
<1>4. Opening'
  BY SameLists DEF Opening, TypeOK
<1>5. Phases' /\ Stopping'
  BY DEF Phases, Stopping, TypeOK
<1>6. Managed'
  BY SameLists DEF Managed, TypeOK
<1> QED
  BY <1>1, <1>2, <1>3, <1>4, <1>5, <1>6

(* Lists that only lose sockets stay apart. *)
LEMMA FewerInLists ==
  ASSUME Apart, UNCHANGED moving,
         \A u \in Threads : /\ newTasks'[u] = newTasks[u] \/ newTasks'[u] = <<>>
                            /\ tasks'[u] \subseteq tasks[u]
  PROVE  Apart' /\ \A u \in Threads : Serving(u)' \subseteq Serving(u)
<1>1. \A u \in Threads : /\ New(u)' \subseteq New(u) /\ Moving(u)' = Moving(u)
                         /\ Distinct(newTasks'[u]) /\ Distinct(moving'[u])
  BY ElemsEmpty DEF New, Moving, Apart
<1>2. \A u \in Threads : Serving(u)' \subseteq Serving(u)
  BY <1>1 DEF Serving
<1>3. Apart'
  BY <1>1 DEF Apart
<1> QED
  BY <1>2, <1>3

LEMMA TakeInv ==
  ASSUME Inv, NEW t \in Threads, Take(t)
  PROVE  Inv'
<1> USE DEF Inv, Take, queue, served, opening, threads, manager, Goto
<1>0. /\ \A u \in Threads : /\ New(u)' = IF u = t THEN {} ELSE New(u)
                            /\ Moving(u)' = IF u = t THEN New(t) ELSE Moving(u)
                            /\ Distinct(newTasks'[u]) /\ Distinct(moving'[u])
      /\ Moving(t) = {}
  BY ElemsEmpty DEF TypeOK, New, Moving, Apart, Phases, Left
<1>1. TypeOK'
  BY EmptySeq DEF TypeOK, Left
<1>2. RegisteredIsHeld' /\ Stopping'
  BY DEF RegisteredIsHeld, Stopping, TypeOK
<1>3. Apart'
  BY <1>0 DEF Apart
<1>a. \A u \in Threads : Serving(u)' = Serving(u)
  BY <1>0 DEF Serving
<1>4. Opening'
  BY <1>a DEF Opening, TypeOK
<1>5. Phases'
  BY DEF Phases, TypeOK
<1>6. Managed'
  BY <1>a DEF Managed
<1> QED
  BY <1>1, <1>2, <1>3, <1>4, <1>5, <1>6

LEMMA AddOneInv ==
  ASSUME Inv, NEW t \in Threads, AddOne(t)
  PROVE  Inv'
<1> USE DEF Inv, AddOne, queue, served, opening, threads, manager, Goto
<1> DEFINE s == Head(moving[t])
<1>0. /\ s \in Sockets /\ s \in Moving(t) /\ Tail(moving[t]) \in Seq(Sockets)
      /\ Distinct(Tail(moving[t])) /\ Elems(Tail(moving[t])) = Moving(t) \ {s}
  BY ElemsTail DEF TypeOK, Apart, Moving
<1>b. /\ moving' = [moving EXCEPT ![t] = Tail(@)]
      /\ epoll' = [epoll EXCEPT ![t] = @ \cup {s}] /\ tasks' = [tasks EXCEPT ![t] = @ \cup {s}]
  OBVIOUS
<1> HIDE DEF s
<1>c. \A u \in Threads : /\ New(u)' = New(u)
                         /\ Moving(u)' = IF u = t THEN Moving(t) \ {s} ELSE Moving(u)
                         /\ tasks'[u] = IF u = t THEN tasks[t] \cup {s} ELSE tasks[u]
                         /\ Distinct(newTasks'[u]) /\ Distinct(moving'[u])
  <2>1. ASSUME NEW u \in Threads
        PROVE  /\ moving'[u] = IF u = t THEN Tail(moving[t]) ELSE moving[u]
               /\ tasks'[u] = IF u = t THEN tasks[t] \cup {s} ELSE tasks[u]
    BY <1>b DEF TypeOK
  <2>2. newTasks' = newTasks /\ \A u \in Threads : Distinct(newTasks[u]) /\ Distinct(moving[u])
    BY DEF Apart
  <2> QED
    BY ONLY <1>0, <2>1, <2>2 DEF New, Moving
<1>1. TypeOK'
  BY <1>0, <1>b DEF TypeOK
<1>2. RegisteredIsHeld' /\ Stopping'
  <2>1. \A u \in Threads : epoll'[u] = IF u = t THEN epoll[t] \cup {s} ELSE epoll[u]
    BY <1>b DEF TypeOK
  <2> QED
    BY <1>c, <2>1 DEF RegisteredIsHeld, Stopping
<1>3. Apart'
  BY <1>0, <1>c DEF Apart
<1>a. \A u \in Threads : Serving(u)' = Serving(u)
  <2>1. Serving(t)' = Serving(t)
    <3>1. /\ New(t)' = New(t) /\ Moving(t)' = Moving(t) \ {s}
          /\ tasks'[t] = tasks[t] \cup {s} /\ s \in Moving(t)
      BY <1>0, <1>c
    <3>2. Serving(t)' = New(t)' \cup Moving(t)' \cup tasks'[t]
      BY DEF Serving
    <3> QED
      BY ONLY <3>1, <3>2 DEF Serving
  <2>2. \A u \in Threads \ {t} : Serving(u)' = Serving(u)
    BY <1>c DEF Serving
  <2> QED
    BY <2>1, <2>2
<1>4. Opening'
  BY <1>a DEF Opening, TypeOK
<1>5. Phases'
  BY <1>b DEF Phases, TypeOK
<1>6. Managed'
  BY <1>a DEF Managed
<1> QED
  BY <1>1, <1>2, <1>3, <1>4, <1>5, <1>6

LEMMA CheckInv ==
  ASSUME Inv, NEW t \in Threads, Check(t)
  PROVE  Inv'
<1> USE DEF Inv, Check, queue, served, opening, threads, manager, Goto, RemoveSocket, Deleted
<1>0. Apart' /\ \A u \in Threads : Serving(u)' \subseteq Serving(u)
  <2>1. \A u \in Threads : tasks'[u] \subseteq tasks[u]
    BY DEF TypeOK
  <2> QED
    BY <2>1, FewerInLists
<1>1. TypeOK'
  BY DEF TypeOK
<1>2. RegisteredIsHeld' /\ Stopping'
  BY DEF RegisteredIsHeld, Stopping, TypeOK
<1>3. Apart'
  BY <1>0
<1>4. Opening'
  BY <1>0 DEF Opening, TypeOK
<1>5. Phases'
  BY DEF Phases, TypeOK
<1>6. Managed'
  BY <1>0 DEF Managed
<1> QED
  BY <1>1, <1>2, <1>3, <1>4, <1>5, <1>6

LEMMA ConnectedInv ==
  ASSUME Inv, NEW t \in Threads, NEW k \in Clients, NEW c \in Conns, Connected(t, k, c)
  PROVE  Inv'
<1> USE DEF Inv, Connected, queue, served, opening, threads, manager, Goto, RemoveSocket, Deleted
<1>0. Apart' /\ \A u \in Threads : Serving(u)' \subseteq Serving(u)
  <2>1. \A u \in Threads : tasks'[u] \subseteq tasks[u]
    BY DEF TypeOK
  <2> QED
    BY <2>1, FewerInLists
<1>1. TypeOK'
  BY DEF TypeOK
<1>2. RegisteredIsHeld' /\ Stopping'
  BY DEF RegisteredIsHeld, Stopping, TypeOK
<1>3. Apart'
  BY <1>0
<1>4. Opening'
  BY <1>0 DEF Opening, TypeOK
<1>5. Phases'
  BY DEF Phases, TypeOK
<1>6. Managed'
  <2>1. \A d \in Conns, u \in Threads : conn[u] = d => conn'[u] = d
    BY ServingType DEF Opening, TypeOK
  <2> QED
    BY <1>0, <2>1 DEF Managed
<1> QED
  BY <1>1, <1>2, <1>3, <1>4, <1>5, <1>6

LEMMA LeaveInv ==
  ASSUME Inv, NEW t \in Threads, Leave(t)
  PROVE  Inv'
<1> USE DEF Inv, Leave, queue, served, opening, threads, manager, Goto, RemoveSocket, Deleted
<1>0. Apart' /\ \A u \in Threads : Serving(u)' \subseteq Serving(u)
  <2>1. \A u \in Threads : tasks'[u] \subseteq tasks[u]
    BY DEF TypeOK
  <2> QED
    BY <2>1, FewerInLists
<1>1. TypeOK'
  BY DEF TypeOK
<1>2. RegisteredIsHeld' /\ Stopping'
  BY DEF RegisteredIsHeld, Stopping, TypeOK
<1>3. Apart'
  BY <1>0
<1>4. Opening'
  BY <1>0 DEF Opening, TypeOK
<1>5. Phases'
  BY DEF Phases, TypeOK
<1>6. Managed'
  BY <1>0 DEF Managed
<1> QED
  BY <1>1, <1>2, <1>3, <1>4, <1>5, <1>6

LEMMA ExitInv ==
  ASSUME Inv, NEW t \in Threads, Exit(t)
  PROVE  Inv'
<1> USE DEF Inv, Exit, queue, served, opening, threads, manager, Goto, DropNew
<1>0. Apart' /\ \A u \in Threads : Serving(u)' \subseteq Serving(u)
  <2>1. \A u \in Threads : newTasks'[u] = newTasks[u] \/ newTasks'[u] = <<>>
    BY DEF TypeOK
  <2> QED
    BY <2>1, FewerInLists
<1>1. TypeOK'
  BY EmptySeq DEF TypeOK
<1>2. RegisteredIsHeld' /\ Stopping'
  BY DEF RegisteredIsHeld, Stopping, TypeOK
<1>3. Apart'
  BY <1>0
<1>4. Opening'
  BY <1>0 DEF Opening, TypeOK
<1>5. Phases'
  BY DEF Phases, TypeOK
<1>6. Managed'
  <2>1. \A d \in Sockets : invalid[d] => invalid'[d]
    BY DEF TypeOK
  <2> QED
    BY <1>0, <2>1, ServingType DEF Managed
<1> QED
  BY <1>1, <1>2, <1>3, <1>4, <1>5, <1>6

LEMMA ResetInv ==
  ASSUME Inv, NEW t \in Threads, Reset(t)
  PROVE  Inv'
<1> USE DEF Inv, Reset, queue, served, opening, threads, manager, Goto, DropNew
<1>0. Apart' /\ \A u \in Threads : Serving(u)' \subseteq Serving(u)
  <2>1. \A u \in Threads : newTasks'[u] = newTasks[u] \/ newTasks'[u] = <<>>
    BY DEF TypeOK
  <2> QED
    BY <2>1, FewerInLists
<1>1. TypeOK'
  BY EmptySeq DEF TypeOK
<1>2. RegisteredIsHeld' /\ Stopping'
  BY DEF RegisteredIsHeld, Stopping, TypeOK
<1>3. Apart'
  BY <1>0
<1>4. Opening'
  BY <1>0 DEF Opening, TypeOK
<1>5. Phases'
  BY DEF Phases, TypeOK
<1>6. Managed'
  <2>1. \A d \in Sockets : invalid[d] => invalid'[d]
    BY DEF TypeOK
  <2> QED
    BY <1>0, <2>1, ServingType DEF Managed
<1> QED
  BY <1>1, <1>2, <1>3, <1>4, <1>5, <1>6

LEMMA PushInv ==
  ASSUME Inv, NEW t \in Threads, Push(t)
  PROVE  Inv'
<1> USE DEF Inv, Push, served, opening, threads, manager, Goto
<1>1. CASE ~runnable[target[t]]
  <2>1. UNCHANGED <<queue, nPc, served, opening, threads, manager, lPc, invalid, terminate>>
    BY <1>1
  <2>2. TypeOK' /\ RegisteredIsHeld' /\ Apart'
    BY <1>1, <2>1, SameLists DEF queue, TypeOK, RegisteredIsHeld
  <2>3. Opening' /\ Phases' /\ Stopping' /\ Managed'
    BY <2>1, SameLists DEF queue, Opening, Phases, Stopping, Managed
  <2> QED
    BY <2>2, <2>3
<1>2. CASE runnable[target[t]]
  <2> DEFINE c == conn[t]
             v == target[t]
  <2>1. /\ v \in Threads /\ c \in Conns /\ c \in Sockets
        /\ \A u \in Threads : c \notin Serving(u)
        /\ nPc[v] # "ended"
    <3>1. nPc[t] = "push" /\ conn[t] \in Conns \cup {None}
      BY <1>2 DEF TypeOK
    <3>2. v \in Threads /\ c # None /\ \A u \in Threads : c \notin Serving(u)
      BY <3>1 DEF Opening
    <3>3. runnable[v] = TRUE
      BY <1>2, <3>2 DEF TypeOK
    <3> QED
      BY <3>1, <3>2, <3>3 DEF Phases, Sockets
  <2>2. /\ newTasks' = [newTasks EXCEPT ![v] = Append(@, c)]
        /\ newCnt' = [newCnt EXCEPT ![v] = newCnt[v] + 1]
        /\ nPc' = [nPc EXCEPT ![t] = "task"] /\ nPc[t] = "push"
        /\ UNCHANGED <<served, opening, threads, manager, lPc, invalid, terminate, crashed>>
    BY <1>2 DEF Counted
  <2> HIDE DEF c, v
  <2>3. /\ Append(newTasks[v], c) \in Seq(Sockets)
        /\ Distinct(Append(newTasks[v], c))
        /\ Elems(Append(newTasks[v], c)) = New(v) \cup {c}
    BY <2>1, ElemsAppend DEF TypeOK, Apart, New, Serving
  <2>4. \A u \in Threads : /\ New(u)' = IF u = v THEN New(v) \cup {c} ELSE New(u)
                           /\ Moving(u)' = Moving(u) /\ tasks'[u] = tasks[u]
                           /\ Distinct(newTasks'[u]) /\ Distinct(moving'[u])
    BY <2>2, <2>3 DEF TypeOK, New, Moving, Apart
  <2>5. TypeOK' /\ RegisteredIsHeld'
    <3>1. newTasks' \in [Threads -> Seq(Sockets)] /\ newCnt' \in [Threads -> Nat]
      BY <2>1, <2>2, <2>3 DEF TypeOK
    <3> QED
      BY <2>2, <3>1 DEF TypeOK, RegisteredIsHeld
  <2>6. Apart'
    BY <2>1, <2>4 DEF Apart, Serving
  <2>7. \A u \in Threads : Serving(u)' = IF u = v THEN Serving(v) \cup {c} ELSE Serving(u)
    BY <2>4 DEF Serving
  <2>8. Opening'
    <3>1. c = conn[t] /\ c \notin fresh /\ \A u \in Threads \ {t} : conn[u] # c
      BY <2>1, ServingType DEF c, Opening
    <3>2. /\ \A u \in Threads : nPc'[u] = IF u = t THEN "task" ELSE nPc[u]
          /\ conn' = conn /\ target' = target /\ fresh' = fresh /\ nPc[t] = "push"
      BY <2>2 DEF TypeOK
    <3>3. Opening
      OBVIOUS
    <3> QED
      BY ONLY <2>7, <3>1, <3>2, <3>3 DEF Opening
  <2>9. Phases' /\ Stopping'
    <3>1. /\ \A u \in Threads : nPc'[u] = IF u = t THEN "task" ELSE nPc[u]
          /\ \A u \in Threads : u # v => newTasks'[u] = newTasks[u]
          /\ UNCHANGED <<moving, tasks, runnable, joining, pool, todo, lPc>>
          /\ v \in Threads /\ nPc[v] # "ended" /\ nPc[t] = "push"
      BY <2>1, <2>2 DEF TypeOK
    <3>2. Phases /\ Stopping /\ v \in Threads /\ t \in Threads
      BY <2>1
    <3>3. Phases'
      BY ONLY <3>1, <3>2, t \in Threads, v # t => nPc'[v] = nPc[v] DEF Phases
    <3> QED
      BY ONLY <3>1, <3>2, <3>3 DEF Stopping
  <2>10. Managed'
    BY <2>2, <2>7 DEF Managed, c
  <2> QED
    BY <2>5, <2>6, <2>8, <2>9, <2>10
<1> QED
  BY <1>1, <1>2

-----------------------------------------------------------------------------
(* Every step preserves the invariant. *)
LEMMA NextInv == Inv /\ [Next]_vars => Inv'
<1> SUFFICES ASSUME Inv, [Next]_vars PROVE Inv'
  OBVIOUS
<1>1. CASE UNCHANGED vars
  <2> USE <1>1 DEF Inv, vars, queue, served, opening, threads, manager
  <2>1. TypeOK' /\ RegisteredIsHeld' /\ Apart'
    BY SameLists DEF TypeOK, RegisteredIsHeld
  <2>2. Opening' /\ Phases' /\ Stopping' /\ Managed'
    BY SameLists DEF Opening, Phases, Stopping, Managed
  <2> QED
    BY <2>1, <2>2
<1>2. CASE MainStep
  BY <1>2, TakeNewInv, SkipNewInv, VisitInv, VisitDoneInv, StopAllInv, StopInv, JoinInv,
     RecycleInv, DestroyManagerInv DEF MainStep
<1>3. CASE Terminate
  BY <1>3, TerminateInv
<1>4. ASSUME NEW t \in Threads, NetStep(t)
      PROVE  Inv'
  BY <1>4, TakeInv, SkipInv, AddOneInv, CheckInv, ChooseInv, PushInv, AddTaskInv, ExitInv,
     LeaveInv, ResetInv DEF NetStep
<1>5. ASSUME NEW t \in Threads, NetEvent(t)
      PROVE  Inv'
  BY <1>5, SocketErrorInv, AcceptInv, ConnectedInv DEF NetEvent
<1> QED
  BY <1>1, <1>2, <1>3, <1>4, <1>5 DEF Next

(* The inductive invariant holds in every state. *)
THEOREM Invariance == Spec => []Inv
<1> QED
  BY InitInv, NextInv, PTL DEF Spec

(* The variables keep their types. *)
THEOREM TypeCorrect == Spec => []TypeOK
<1> QED
  BY Invariance, PTL DEF Inv

(* No socket is ever in two lists of network threads, or twice in one, so  *)
(* its rings have one producer and one consumer: NetThread::Run,           *)
(* NetThread::AddSocket and NetThread::_OnExit.                            *)
THEOREM ServedByOneThread == Spec => []OneThread
<1>1. Inv => OneThread
  <2> SUFFICES ASSUME Inv PROVE OneThread
    OBVIOUS
  <2>1. ASSUME NEW t \in Threads, NEW u \in Threads, NEW i \in 1 .. 3, NEW j \in 1 .. 3,
               <<t, i>> # <<u, j>>
        PROVE  Lists(t)[i] \cap Lists(u)[j] = {}
    BY <2>1 DEF Inv, Apart, Lists, New, Moving
  <2> QED
    BY <2>1 DEF OneThread, Inv, Apart
<1> QED
  BY <1>1, Invariance, PTL

(* The raw pointers in epoll are those of m_tasks: NetThread::_AddSocket   *)
(* and NetThread::RemoveSocket.                                            *)
THEOREM EpollMatchesTasks == Spec => []RegisteredIsHeld
<1> QED
  BY Invariance, PTL DEF Inv

(* A connection that a network thread serves is known to TaskManager, is   *)
(* about to be, or is invalid.                                             *)
THEOREM KnownToLogic == Spec => []ServedIsManaged
<1>1. Inv => ServedIsManaged
  <2> SUFFICES ASSUME Inv, NEW t \in Threads, NEW c \in Conns, c \in UNION Elems(Lists(t))
               PROVE  c \in tmNew \cup tmTasks \/ invalid[c] \/ \E u \in Threads : conn[u] = c
    BY DEF ServedIsManaged
  <2>1. PICK i \in 1 .. 3 : c \in Lists(t)[i]
    BY DEF Elems, Lists
  <2>2. c \in Serving(t)
    BY <2>1 DEF Lists, Serving, New, Moving
  <2> QED
    BY <2>2 DEF Inv, Managed
<1> QED
  BY <1>1, Invariance, PTL
-----------------------------------------------------------------------------
(* The way of a socket through the network threads.                        *)

(* NewConnection has it, and has not given it to a thread yet. *)
InHand(s) == \E t \in Threads : conn[t] = s /\ nPc[t] \in {"choose", "push"}

(* Nothing comes back to NewConnection. *)
LEMMA UnservedBefore ==
  ASSUME Inv, Next, NEW s \in Sockets, Unserved(s)'
  PROVE  Unserved(s)
<1> USE DEF queue, served, opening, threads, manager
<1>1. s # None
  BY ConnectionsAssumption
<1>2. ASSUME UNCHANGED <<conn, fresh>>,
             \A u \in Threads : nPc'[u] \in {"choose", "push"} => nPc[u] \in {"choose", "push"}
      PROVE  Unserved(s)
  BY <1>2 DEF Unserved
<1>3. CASE MainStep \/ Terminate
  <2>1. UNCHANGED <<conn, fresh, nPc>>
    BY <1>3 DEF MainStep, Terminate, TakeNew, SkipNew, Visit, VisitDone, StopAll, Stop, Join,
                Recycle, DestroyManager
  <2> QED
    BY <1>2, <2>1
<1>4. ASSUME NEW t \in Threads, NetStep(t)
      PROVE  Unserved(s)
  <2>1. CASE Take(t) \/ Skip(t) \/ AddOne(t) \/ Check(t) \/ Exit(t) \/ Leave(t) \/ Reset(t)
             \/ Push(t)
    <3>1. UNCHANGED <<conn, fresh>>
      BY <2>1 DEF Take, Skip, AddOne, Check, Exit, Leave, Reset, Push
    <3>2. ASSUME NEW u \in Threads, nPc'[u] \in {"choose", "push"}
          PROVE  nPc[u] \in {"choose", "push"}
      BY <2>1, <3>2 DEF Take, Skip, AddOne, Check, Exit, Leave, Reset, Push, Goto, Inv, TypeOK
    <3> QED
      BY <1>2, <3>1, <3>2
  <2>2. CASE Choose(t)
    <3>1. /\ fresh' = fresh /\ nPc[t] = "choose"
          /\ \A u \in Threads : conn'[u] = conn[u] \/ conn'[u] = None
          /\ \A u \in Threads \ {t} : nPc'[u] = nPc[u]
      BY <2>2 DEF Choose, Goto, Inv, TypeOK
    <3> QED
      BY <1>1, <3>1 DEF Unserved
  <2>3. CASE AddTask(t)
    <3>1. /\ fresh' = fresh /\ nPc'[t] = "poll"
          /\ \A u \in Threads \ {t} : conn'[u] = conn[u] /\ nPc'[u] = nPc[u]
      BY <2>3 DEF AddTask, Goto, Inv, TypeOK
    <3> QED
      BY <3>1 DEF Unserved
  <2> QED
    BY <1>4, <2>1, <2>2, <2>3 DEF NetStep
<1>5. ASSUME NEW t \in Threads, NetEvent(t)
      PROVE  Unserved(s)
  <2>1. CASE \E r \in Sockets : SocketError(t, r)
    BY <1>2, <2>1 DEF SocketError
  <2>2. ASSUME NEW c \in Conns, Accept(t, c) \/ \E k \in Clients : Connected(t, k, c)
        PROVE  Unserved(s)
    <3>1. /\ c \in fresh /\ fresh' = fresh \ {c} /\ conn'[t] = c
          /\ \A u \in Threads \ {t} : conn'[u] = conn[u] /\ nPc'[u] = nPc[u]
      BY <2>2 DEF Accept, Connected, Goto, Inv, TypeOK
    <3> QED
      BY <3>1 DEF Unserved
  <2> QED
    BY <1>5, <2>1, <2>2 DEF NetEvent
<1> QED
  BY <1>3, <1>4, <1>5 DEF Next

(* Where what is in the lists after a step was before. *)
LEMMA ListsBefore ==
  ASSUME Inv, Next, NEW t \in Threads
  PROVE  /\ \A s \in New(t)' : s \in New(t) \/ InHand(s)
         /\ Moving(t)' \subseteq New(t) \cup Moving(t)
         /\ tasks'[t] \subseteq Moving(t) \cup tasks[t]
<1> USE DEF queue, served, opening, threads, manager
<1> DEFINE Before == /\ \A s \in New(t)' : s \in New(t) \/ InHand(s)
                     /\ Moving(t)' \subseteq New(t) \cup Moving(t)
                     /\ tasks'[t] \subseteq Moving(t) \cup tasks[t]
<1>1. ASSUME UNCHANGED moving, newTasks'[t] \in {newTasks[t], <<>>}, tasks'[t] \subseteq tasks[t]
      PROVE  Before
  BY <1>1, ElemsEmpty DEF New, Moving
<1>2. CASE MainStep \/ Terminate
  <2>1. UNCHANGED <<newTasks, moving, tasks>>
    BY <1>2 DEF MainStep, Terminate, TakeNew, SkipNew, Visit, VisitDone, StopAll, Stop, Join,
                Recycle, DestroyManager
  <2> QED
    BY <1>1, <2>1
<1>3. ASSUME NEW u \in Threads, NetEvent(u)
      PROVE  Before
  <2>1. CASE \/ \E s \in Sockets : SocketError(u, s)
             \/ \E c \in Conns : Accept(u, c)
    BY <1>1, <2>1 DEF SocketError, Accept
  <2>2. ASSUME NEW c \in Conns, NEW k \in Clients, Connected(u, k, c)
        PROVE  Before
    <3>1. UNCHANGED <<newTasks, moving>> /\ tasks' = [tasks EXCEPT ![u] = @ \ {k}]
      BY <2>2 DEF Connected, RemoveSocket
    <3>2. tasks'[t] \subseteq tasks[t]
      BY <3>1 DEF Inv, TypeOK
    <3> QED
      BY <1>1, <3>1, <3>2
  <2> QED
    BY <1>3, <2>1, <2>2 DEF NetEvent
<1>4. ASSUME NEW u \in Threads, NetStep(u)
      PROVE  Before
  <2>1. CASE Skip(u) \/ Check(u) \/ Exit(u) \/ Leave(u) \/ Reset(u) \/ Choose(u) \/ AddTask(u)
    <3>1. /\ UNCHANGED moving /\ newTasks'[t] \in {newTasks[t], <<>>}
          /\ tasks'[t] \subseteq tasks[t]
      BY <2>1 DEF Skip, Check, Exit, Leave, Reset, Choose, AddTask, RemoveSocket, DropNew,
                  Inv, TypeOK
    <3> QED
      BY <1>1, <3>1
  <2>2. CASE Take(u)
    <3>1. /\ newTasks'[t] \in {newTasks[t], <<>>} /\ tasks'[t] = tasks[t]
          /\ moving'[t] \in {moving[t], newTasks[t]}
      BY <2>2 DEF Take, Left, Inv, TypeOK
    <3> QED
      BY <3>1, ElemsEmpty DEF New, Moving
  <2>3. CASE AddOne(u)
    <3> DEFINE h == Head(moving[u])
    <3>1. h \in Moving(u) /\ Elems(Tail(moving[u])) = Moving(u) \ {h}
      BY <2>3, ElemsTail DEF AddOne, Inv, TypeOK, Apart, Moving
    <3>2. /\ newTasks' = newTasks
          /\ moving'[t] = IF t = u THEN Tail(moving[t]) ELSE moving[t]
          /\ tasks'[t] = IF t = u THEN tasks[t] \cup {h} ELSE tasks[t]
      BY <2>3 DEF AddOne, Inv, TypeOK
    <3> QED
      BY <3>1, <3>2 DEF New, Moving
  <2>4. CASE Push(u)
    <3>1. CASE ~runnable[target[u]]
      BY <1>1, <2>4, <3>1 DEF Push
    <3>2. CASE runnable[target[u]]
      <4>1. /\ newTasks'[t] \in {newTasks[t], Append(newTasks[t], conn[u])}
            /\ nPc[u] = "push" /\ UNCHANGED <<moving, tasks>> /\ conn[u] \in Conns
        BY <2>4, <3>2 DEF Push, Inv, TypeOK, Opening
      <4>2. Elems(Append(newTasks[t], conn[u])) \subseteq New(t) \cup {conn[u]}
        <5>1. newTasks[t] \in Seq(Sockets) /\ conn[u] \in Sockets
          BY <4>1 DEF Inv, TypeOK, Sockets
        <5> QED
          BY <5>1, ElemsAppend DEF New
      <4>3. InHand(conn[u])
        BY <4>1 DEF InHand
      <4> QED
        BY <4>1, <4>2, <4>3 DEF New, Moving
    <3> QED
      BY <3>1, <3>2
  <2> QED
    BY <1>4, <2>1, <2>2, <2>3, <2>4 DEF NetStep
<1> QED
  BY <1>2, <1>3, <1>4 DEF Next

(* One network thread serves a socket for all of its life, and gets it     *)
(* once: NetThread::AddSocket, NetThread::Run, NetThread::RemoveSocket.    *)
THEOREM ServedOnce == Spec => OneWay
<1>1. Inv /\ Inv' /\ [Next]_vars => [\A s \in Sockets : Forward(s)]_vars
  <2> SUFFICES ASSUME Inv, Inv', Next, NEW s \in Sockets PROVE Forward(s)
    OBVIOUS
  <2>1. \A t \in Threads : s \in New(t)' => ~Unserved(s)'
    BY ConnectionsAssumption DEF Inv, Opening, Unserved, Serving
  <2>2. \A t \in Threads : /\ s \in Moving(t)' => s \notin New(t)'
                           /\ s \in tasks'[t] => s \notin Moving(t)'
    BY DEF Inv, Apart
  <2>3. \A t \in Threads :
           /\ s \in New(t)' => s \in New(t) \/ Unserved(s)
           /\ s \in Moving(t)' => s \in New(t) \cup Moving(t)
           /\ s \in tasks'[t] => s \in Moving(t) \cup tasks[t]
    BY ListsBefore DEF InHand, Unserved
  <2> QED
    BY <2>1, <2>2, <2>3, UnservedBefore DEF Forward, New, Moving
<1> QED
  BY <1>1, Invariance, PTL DEF Spec, OneWay
=============================================================================
