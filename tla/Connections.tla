---------------------------- MODULE Connections ----------------------------
(***************************************************************************)
(* The life of the connections of one server (src/base, Linux build):      *)
(* accepted or connected in a network thread, handed over to a network     *)
(* thread chosen by NetThreadPool and to the logic thread's TaskManager,   *)
(* marked invalid by either, released by both; and the shutdown.           *)
(*                                                                         *)
(* Sockets are held by counted references only (SharedPtr), so a socket    *)
(* is destroyed when no list, map or local variable holds it any more;     *)
(* epoll holds raw pointers.  The threads are numbered in the order of the *)
(* set m_threads, the order GetThread and StopAllThreads go through it.    *)
(*                                                                         *)
(* Critical sections are one step.  A thread about to enter one may        *)
(* already have the lock, so TryLock may fail while a thread stands there. *)
(***************************************************************************)
EXTENDS Integers, Sequences, FiniteSets

CONSTANTS N,            \* network threads
          MaxTaskSize,  \* max_task_size
          Conns,        \* StreamSockets that may come to be
          Listener,     \* the ListenSocket
          Clients,      \* ClientSockets, each connecting to a server
          Openers,      \* those two, in the order in which _Init adds them
          None

Threads == 1 .. N
Sockets == Conns \cup Clients \cup {Listener}

Distinct(s) == \A i, j \in 1 .. Len(s) : s[i] = s[j] => i = j

ASSUME ConnectionsAssumption ==
    /\ N \in Nat \ {0} /\ MaxTaskSize \in Nat \ {0}
    /\ IsFiniteSet(Conns) /\ None \notin Sockets
    /\ Listener \notin Conns \cup Clients /\ Conns \cap Clients = {}
    /\ Openers \in Seq({Listener} \cup Clients)
    /\ Len(Openers) <= N * MaxTaskSize
    /\ Distinct(Openers)

VARIABLES
    newTasks, newCnt,  \* NetThread::m_newTasks, m_newCnt, by thread
    moving,            \* tmp_tasks of Run: taken and not yet added
    tasks,             \* NetThread::m_tasks
    epoll,             \* the sockets registered with m_epfd
    nPc,               \* where each network thread is in Run
    conn, target,      \* NewConnection: pNewTask, the thread GetThread returned
    fresh,             \* the connections that do not exist yet
    alive,             \* Runnable::m_running
    runnable,          \* Thread::m_runnable is not NULL: the NetThread exists
    pool,              \* NetThreadPool's m_threads
    lPc, todo,         \* the main thread; the entries DoMsgParse has yet to visit
    joining,           \* tmpSet of StopAllThreads
    tmNew, tmCnt,      \* TaskManager::m_newTasks, m_newCnt
    tmTasks,           \* TaskManager's map
    invalid,           \* m_invalid, by socket
    terminate,         \* m_bTerminate
    crashed            \* a NetThread was used that no longer exists

queue   == <<newTasks, newCnt>>
served  == <<moving, tasks, epoll>>
opening == <<conn, target, fresh>>
threads == <<alive, runnable, pool, joining>>
manager == <<tmNew, tmCnt, tmTasks, todo>>
vars    == <<queue, served, opening, threads, manager, nPc, lPc, invalid, terminate, crashed>>

Elems(s)  == {s[i] : i \in 1 .. Len(s)}
First(S)  == CHOOSE t \in S : \A u \in S : t <= u
Least(a, b) == IF a <= b THEN a ELSE b

(* Read by other threads without a lock; what is in tmp_tasks is in neither. *)
TaskSize(t) == Cardinality(tasks[t]) + Len(newTasks[t])

(* Bind and Connect in _Init, before the threads start: each goes to the   *)
(* first thread with room.                                                 *)
Init ==
    /\ newTasks = [t \in Threads |->
                      SubSeq(Openers, (t - 1) * MaxTaskSize + 1,
                                      Least(t * MaxTaskSize, Len(Openers)))]
    /\ newCnt = [t \in Threads |-> Len(newTasks[t])]
    /\ moving = [t \in Threads |-> <<>>]
    /\ tasks = [t \in Threads |-> {}] /\ epoll = [t \in Threads |-> {}]
    /\ nPc = [t \in Threads |-> "poll"]
    /\ conn = [t \in Threads |-> None] /\ target = [t \in Threads |-> 0]
    /\ fresh = Conns
    /\ alive = [t \in Threads |-> TRUE] /\ runnable = [t \in Threads |-> TRUE]
    /\ pool = Threads /\ joining = {}
    /\ lPc = "new" /\ todo = {}
    /\ tmNew = {} /\ tmCnt = 0 /\ tmTasks = {}
    /\ invalid = [s \in Sockets |-> FALSE]
    /\ terminate = FALSE /\ crashed = FALSE

-----------------------------------------------------------------------------
(* A network thread: NetThread::Run.  "poll" is the handling of events and *)
(* the end of the round, from which it goes on when there are no more.     *)

Goto(t, pc) == nPc' = [nPc EXCEPT ![t] = pc]

(* Mutant of Left: the list is copied, not swapped. *)
LeftThere(t) == newTasks[t]

(* What swap leaves in m_newTasks. *)
Left(t) == <<>>

(* TryLock succeeds. *)
Take(t) ==
    /\ nPc[t] = "poll" /\ alive[t]
    /\ newCnt[t] > 0
    /\ moving' = [moving EXCEPT ![t] = newTasks[t]]
    /\ newTasks' = [newTasks EXCEPT ![t] = Left(t)]
    /\ newCnt' = [newCnt EXCEPT ![t] = 0]
    /\ Goto(t, "add")
    /\ UNCHANGED <<tasks, epoll, opening, threads, manager, lPc, invalid, terminate, crashed>>

(* m_newCnt is 0, or TryLock fails. *)
Skip(t) ==
    /\ nPc[t] = "poll" /\ alive[t]
    /\ newCnt[t] = 0 \/ \E u \in Threads : nPc[u] = "push" /\ target[u] = t
    /\ Goto(t, "add")
    /\ UNCHANGED <<queue, served, opening, threads, manager, lPc, invalid, terminate, crashed>>

(* _AddSocket. *)
AddOne(t) ==
    /\ nPc[t] = "add" /\ moving[t] # <<>>
    /\ LET s == Head(moving[t]) IN
          /\ epoll' = [epoll EXCEPT ![t] = @ \cup {s}]
          /\ tasks' = [tasks EXCEPT ![t] = @ \cup {s}]
    /\ moving' = [moving EXCEPT ![t] = Tail(@)]
    /\ UNCHANGED <<queue, opening, threads, manager, nPc, lPc, invalid, terminate, crashed>>

(* Mutant of Deleted: the sockets leave m_tasks and stay in epoll. *)
DeletedNever(S) == {}

(* What RemoveSocket takes out of epoll with the sockets S of m_tasks. *)
Deleted(S) == S

(* RemoveSocket for the sockets S. *)
RemoveSocket(t, S) ==
    /\ epoll' = [epoll EXCEPT ![t] = @ \ Deleted(S)]
    /\ tasks' = [tasks EXCEPT ![t] = @ \ S]
    /\ UNCHANGED moving

(* The loop over m_tasks (SendPath has what it does for a socket that is   *)
(* valid).  A flag set while it runs is seen in this round or the next.    *)
Check(t) ==
    /\ nPc[t] = "add" /\ moving[t] = <<>>
    /\ RemoveSocket(t, {s \in tasks[t] : invalid[s]})
    /\ Goto(t, "poll")
    /\ UNCHANGED <<queue, opening, threads, manager, lPc, invalid, terminate, crashed>>

(* EPOLLERR or EPOLLHUP, or a handler that returns false: OnError.  That   *)
(* of a ClientSocket terminates the server as well, that of the listener   *)
(* does nothing else.                                                      *)
SocketError(t, s) ==
    /\ nPc[t] = "poll" /\ s \in epoll[t] /\ ~invalid[s]
    /\ invalid' = [invalid EXCEPT ![s] = (s # Listener)]
    /\ terminate' = (terminate \/ s \notin Conns)
    /\ UNCHANGED <<queue, served, opening, threads, manager, nPc, lPc, crashed>>

(* ListenSocket::OnReadable accepts, and NewConnection makes the socket c. *)
Accept(t, c) ==
    /\ nPc[t] = "poll" /\ Listener \in epoll[t] /\ c \in fresh
    /\ fresh' = fresh \ {c} /\ conn' = [conn EXCEPT ![t] = c]
    /\ Goto(t, "choose")
    /\ UNCHANGED <<queue, served, target, threads, manager, lPc, invalid, terminate, crashed>>

(* ClientSocket::OnWritable: connected, it takes itself out of the thread, *)
(* and NewConnection makes the socket c.                                   *)
Connected(t, k, c) ==
    /\ nPc[t] = "poll" /\ k \in epoll[t] \cap Clients /\ c \in fresh
    /\ RemoveSocket(t, {k})
    /\ fresh' = fresh \ {c} /\ conn' = [conn EXCEPT ![t] = c]
    /\ Goto(t, "choose")
    /\ UNCHANGED <<queue, target, threads, manager, lPc, invalid, terminate, crashed>>

(* GetThread, under m_threadsLock.  With no thread found the connection is *)
(* dropped.                                                                *)
Choose(t) ==
    /\ nPc[t] = "choose"
    /\ LET free == {u \in pool : runnable[u] /\ TaskSize(u) < MaxTaskSize} IN
          IF free = {}
          THEN conn' = [conn EXCEPT ![t] = None] /\ Goto(t, "poll") /\ UNCHANGED target
          ELSE target' = [target EXCEPT ![t] = First(free)] /\ Goto(t, "push") /\ UNCHANGED conn
    /\ UNCHANGED <<queue, served, fresh, threads, manager, lPc, invalid, terminate, crashed>>

(* Mutant of Counted: ++ m_newCnt is missing. *)
CountedNever(u) == newCnt[u]

Counted(u) == newCnt[u] + 1

(* NetThread::AddSocket of the thread chosen, which may have ended since;  *)
(* its NetThread has then been deleted.                                    *)
Push(t) ==
    /\ nPc[t] = "push"
    /\ LET u == target[t] IN
          IF runnable[u]
          THEN /\ newTasks' = [newTasks EXCEPT ![u] = Append(@, conn[t])]
               /\ newCnt' = [newCnt EXCEPT ![u] = Counted(u)]
               /\ Goto(t, "task") /\ UNCHANGED crashed
          ELSE crashed' = TRUE /\ UNCHANGED <<queue, nPc>>
    /\ UNCHANGED <<served, opening, threads, manager, lPc, invalid, terminate>>

(* TaskManager::AddTask; NewConnection and the event handler return. *)
AddTask(t) ==
    /\ nPc[t] = "task"
    /\ tmNew' = tmNew \cup {conn[t]} /\ tmCnt' = tmCnt + 1
    /\ conn' = [conn EXCEPT ![t] = None] /\ target' = [target EXCEPT ![t] = 0]
    /\ Goto(t, "poll")
    /\ UNCHANGED <<queue, served, fresh, threads, tmTasks, todo, lPc, invalid, terminate, crashed>>

(* The new sockets _OnExit finds are marked invalid and dropped. *)
DropNew(t) ==
    /\ invalid' = [s \in Sockets |-> invalid[s] \/ s \in Elems(newTasks[t])]
    /\ newTasks' = [newTasks EXCEPT ![t] = <<>>]
    /\ UNCHANGED newCnt

(* Stopped: _OnExit, first half. *)
Exit(t) ==
    /\ nPc[t] = "poll" /\ ~alive[t]
    /\ DropNew(t)
    /\ Goto(t, "leave")
    /\ UNCHANGED <<served, opening, threads, manager, lPc, terminate, crashed>>

(* _OnExit, second half. *)
Leave(t) ==
    /\ nPc[t] = "leave"
    /\ RemoveSocket(t, tasks[t])
    /\ Goto(t, "reset")
    /\ UNCHANGED <<queue, opening, threads, manager, lPc, invalid, terminate, crashed>>

(* ThreadFunc: m_runnable.Reset() deletes the NetThread, whose destructor  *)
(* calls _OnExit once more.                                                *)
Reset(t) ==
    /\ nPc[t] = "reset"
    /\ DropNew(t)
    /\ runnable' = [runnable EXCEPT ![t] = FALSE]
    /\ Goto(t, "ended")
    /\ UNCHANGED <<served, opening, alive, pool, joining, manager, lPc, terminate, crashed>>

-----------------------------------------------------------------------------
(* The main thread: MainLoop, with TaskManager::DoMsgParse in a round.     *)

(* TryLock succeeds, and the new connections enter the map. *)
TakeNew ==
    /\ lPc = "new" /\ tmCnt > 0
    /\ tmTasks' = tmTasks \cup tmNew /\ todo' = tmTasks'
    /\ tmNew' = {} /\ tmCnt' = 0
    /\ lPc' = "visit"
    /\ UNCHANGED <<queue, served, opening, threads, nPc, invalid, terminate, crashed>>

SkipNew ==
    /\ lPc = "new"
    /\ tmCnt = 0 \/ \E t \in Threads : nPc[t] = "task"
    /\ todo' = tmTasks
    /\ lPc' = "visit"
    /\ UNCHANGED <<queue, served, opening, threads, tmNew, tmCnt, tmTasks, nPc,
                   invalid, terminate, crashed>>

(* Mutant of Remaining: RemoveTask is not called. *)
RemainingAll(c) == tmTasks

(* Mutant of Remaining: an invalid connection empties the map. *)
RemainingNone(c) == IF invalid[c] THEN {} ELSE tmTasks

(* The map after the visit of c. *)
Remaining(c) == IF invalid[c] THEN tmTasks \ {c} ELSE tmTasks

(* An invalid connection is removed; a valid one is parsed (RecvPath has   *)
(* how), and may be found in error.                                        *)
Visit(c) ==
    /\ lPc = "visit" /\ c \in todo
    /\ tmTasks' = Remaining(c)
    /\ \E bad \in BOOLEAN : invalid' = [invalid EXCEPT ![c] = @ \/ bad]
    /\ todo' = todo \ {c}
    /\ UNCHANGED <<queue, served, opening, threads, tmNew, tmCnt, nPc, lPc, terminate, crashed>>

VisitDone ==
    /\ lPc = "visit" /\ todo = {}
    /\ lPc' = IF terminate THEN "stop" ELSE "new"
    /\ UNCHANGED <<queue, served, opening, threads, manager, nPc, invalid, terminate, crashed>>

(* The loop is over: StopAllThreads takes all threads out of the pool. *)
StopAll ==
    /\ lPc = "stop"
    /\ joining' = pool /\ pool' = {}
    /\ lPc' = "stopping"
    /\ UNCHANGED <<queue, served, opening, alive, runnable, manager, nPc, invalid,
                   terminate, crashed>>

(* Mutant of Stopped: Runnable::Stop is not called. *)
StoppedNever(t) == alive

Stopped(t) == [alive EXCEPT ![t] = FALSE]

(* StopAndWait for the next thread. *)
Stop ==
    /\ lPc = "stopping" /\ joining # {}
    /\ alive' = Stopped(First(joining))
    /\ lPc' = "joining"
    /\ UNCHANGED <<queue, served, opening, runnable, pool, joining, manager, nPc,
                   invalid, terminate, crashed>>

Join ==
    /\ lPc = "joining" /\ nPc[First(joining)] = "ended"
    /\ joining' = joining \ {First(joining)}
    /\ lPc' = "stopping"
    /\ UNCHANGED <<queue, served, opening, alive, runnable, pool, manager, nPc,
                   invalid, terminate, crashed>>

(* _Recycle clears the map ... *)
Recycle ==
    /\ lPc = "stopping" /\ joining = {}
    /\ tmTasks' = {}
    /\ lPc' = "recycled"
    /\ UNCHANGED <<queue, served, opening, threads, tmNew, tmCnt, todo, nPc, invalid,
                   terminate, crashed>>

(* ... and the destructor of TaskManager what was never taken. *)
DestroyManager ==
    /\ lPc = "recycled"
    /\ tmNew' = {} /\ tmCnt' = 0
    /\ lPc' = "done"
    /\ UNCHANGED <<queue, served, opening, threads, tmTasks, todo, nPc, invalid,
                   terminate, crashed>>

(* A signal, or the program, terminates the server. *)
Terminate ==
    /\ ~terminate
    /\ terminate' = TRUE
    /\ UNCHANGED <<queue, served, opening, threads, manager, nPc, lPc, invalid, crashed>>

-----------------------------------------------------------------------------
NetEvent(t) ==
    \/ \E s \in Sockets : SocketError(t, s)
    \/ \E c \in Conns : Accept(t, c) \/ \E k \in Clients : Connected(t, k, c)

NetStep(t) ==
    \/ Take(t) \/ Skip(t) \/ AddOne(t) \/ Check(t)
    \/ Choose(t) \/ Push(t) \/ AddTask(t)
    \/ Exit(t) \/ Leave(t) \/ Reset(t)

MainStep ==
    \/ TakeNew \/ SkipNew \/ (\E c \in Conns : Visit(c)) \/ VisitDone
    \/ StopAll \/ Stop \/ Join \/ Recycle \/ DestroyManager

Next ==
    /\ ~crashed
    /\ MainStep \/ Terminate \/ \E t \in Threads : NetStep(t) \/ NetEvent(t)

(* The threads are scheduled; nobody need connect, fail or terminate.      *)
Fairness ==
    /\ WF_vars(~crashed /\ MainStep)
    /\ \A t \in Threads : WF_vars(~crashed /\ NetStep(t))

Spec == Init /\ [][Next]_vars /\ Fairness

-----------------------------------------------------------------------------
(* The variables keep their types. *)
TypeOK ==
    /\ newTasks \in [Threads -> Seq(Sockets)] /\ newCnt \in [Threads -> Nat]
    /\ moving \in [Threads -> Seq(Sockets)]
    /\ tasks \in [Threads -> SUBSET Sockets] /\ epoll \in [Threads -> SUBSET Sockets]
    /\ nPc \in [Threads -> {"poll", "add", "choose", "push", "task",
                            "leave", "reset", "ended"}]
    /\ conn \in [Threads -> Conns \cup {None}] /\ target \in [Threads -> Threads \cup {0}]
    /\ fresh \subseteq Conns
    /\ alive \in [Threads -> BOOLEAN] /\ runnable \in [Threads -> BOOLEAN]
    /\ pool \subseteq Threads /\ joining \subseteq Threads
    /\ lPc \in {"new", "visit", "stop", "stopping", "joining", "recycled", "done"}
    /\ tmNew \subseteq Conns /\ tmTasks \subseteq Conns /\ todo \subseteq tmTasks
    /\ tmCnt \in Nat
    /\ invalid \in [Sockets -> BOOLEAN] /\ {terminate, crashed} \subseteq BOOLEAN

(* No socket is in two lists of network threads, or twice in one: it is    *)
(* served by one thread, the one producer or consumer its rings need.      *)
Lists(t) == <<Elems(newTasks[t]), Elems(moving[t]), tasks[t]>>
OneThread ==
    /\ \A t, u \in Threads : \A i, j \in 1 .. 3 :
          <<t, i>> # <<u, j>> => Lists(t)[i] \cap Lists(u)[j] = {}
    /\ \A t \in Threads : Distinct(newTasks[t]) /\ Distinct(moving[t])

(* A socket comes into the lists of a thread once, from NewConnection, and *)
(* goes through m_newTasks, tmp_tasks and m_tasks of that thread in this   *)
(* order, leaving each as it enters the next: it never comes back to       *)
(* NewConnection, nor to another thread or an earlier list.  So the one    *)
(* thread that has it at a time is the same for all of its life, which is  *)
(* what lets its rings do without a lock, and SendPath and RecvPath speak  *)
(* of the network thread.                                                  *)
Unserved(s) ==
    s \in fresh \/ \E t \in Threads : conn[t] = s /\ nPc[t] \in {"choose", "push"}

Forward(s) ==
    /\ Unserved(s)' => Unserved(s)
    /\ \A t \in Threads :
          /\ s \in Elems(newTasks'[t]) =>
                (s \in Elems(newTasks[t]) \/ Unserved(s)) /\ ~Unserved(s)'
          /\ s \in Elems(moving'[t]) =>
                s \in Elems(newTasks[t]) \cup Elems(moving[t]) /\ s \notin Elems(newTasks'[t])
          /\ s \in tasks'[t] =>
                s \in Elems(moving[t]) \cup tasks[t] /\ s \notin Elems(moving'[t])

OneWay == [][\A s \in Sockets : Forward(s)]_vars

(* The raw pointers epoll may return are those of sockets the thread's     *)
(* own list keeps alive, and every socket of the list is polled.           *)
RegisteredIsHeld == \A t \in Threads : epoll[t] = tasks[t]

(* A connection a network thread serves is known to the logic thread,      *)
(* which would otherwise never parse it or release it: it is in            *)
(* TaskManager, or about to be, or invalid.                                *)
ServedIsManaged ==
    \A t \in Threads : \A c \in Conns :
        c \in UNION Elems(Lists(t)) =>
            c \in tmNew \cup tmTasks \/ invalid[c] \/ \E u \in Threads : conn[u] = c

(* No list, map or variable holds a connection that was made: destroyed.   *)
Destroyed(c) ==
    /\ c \notin fresh \cup tmNew \cup tmTasks
    /\ \A t \in Threads : c # conn[t] /\ c \notin UNION Elems(Lists(t))

(* A connection handed to a thread gets into its epoll, unless it fails or *)
(* the server terminates.                                                  *)
AddedIsPolled ==
    \A c \in Conns : \A t \in Threads :
        c \in Elems(newTasks[t]) ~> c \in epoll[t] \/ invalid[c] \/ terminate \/ crashed

(* TaskManager.h:9, a network thread only sets invalid, the logic thread   *)
(* finds it: an invalid connection is released by both, and so destroyed.  *)
InvalidIsDestroyed == \A c \in Conns : invalid[c] ~> Destroyed(c) \/ crashed

(* Shutdown ends, and leaves no connection behind.                         *)
ShutdownEnds ==
    terminate ~> crashed \/ (lPc = "done" /\ \A c \in Conns \ fresh : Destroyed(c))

=============================================================================
