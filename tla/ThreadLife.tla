----------------------------- MODULE ThreadLife -----------------------------
(***************************************************************************)
(* Thread and ThreadPool of src/base/Threads: how a pool's threads are     *)
(* started, run what they are given, wait for more, and are stopped and    *)
(* deleted, while other threads use the pool.                              *)
(*                                                                         *)
(* The server thread prepares a Thread for each network task, starts them  *)
(* all, and at the end (or as soon as one fails to start) stops them all.  *)
(* Callers hand one-shot tasks to ExecuteTask, which nothing in the        *)
(* repository does yet, or use a network thread that GetThread found.      *)
(***************************************************************************)
EXTENDS Naturals, FiniteSets

CONSTANTS Prepared,  \* Thread objects of PrepareThread, one for each network task
          Spare,     \* Thread objects that ExecuteTask may construct
          NetTask,   \* NetThread objects: NetTask[t], run until they are stopped
          OneShots,  \* tasks for ExecuteTask, which end by themselves
          Callers,
          None

Threads == Prepared \cup Spare
Endless == {NetTask[t] : t \in Prepared}
Tasks   == Endless \cup OneShots

ASSUME ThreadLifeAssumption ==
    /\ IsFiniteSet(Threads) /\ Prepared \cap Spare = {}
    /\ DOMAIN NetTask = Prepared /\ Endless \cap OneShots = {}
    /\ \A t, u \in Prepared : NetTask[t] = NetTask[u] => t = u
    /\ None \notin Threads \cup Tasks

VARIABLES
    thread,    \* the Thread objects; see Thread
    running,   \* the tasks whose m_running is true
    pool,      \* m_threads
    server,    \* the thread that starts and stops the pool; see Server
    caller,    \* where each caller is, and the Thread it has in hand
    log,       \* history: what was run, given, could not be launched; see Log
    undefined  \* what went wrong: no, deleted (a deleted object was used),
               \*   twice (a second launch of a Thread), task (a deleted task)

vars == <<thread, running, pool, server, caller, log, undefined>>

Thread == [obj : {"none", "live", "deleted"},
           runnable : Tasks \cup {None},  \* m_runnable
           dangling : BOOLEAN,  \* m_runnable is deleted and not yet NULL
           working : BOOLEAN,   \* m_working
           launched : BOOLEAN,  \* m_handle is valid
           mutex : 0 .. 1,      \* m_mutex, a binary semaphore
           sem : Nat,           \* m_sem
           pc : {"none", "born", "post", "loop", "call", "run", "delete", "null",
                 "suspend", "ended"}]

Inside  == {"test", "launch", "giveBack", "failed"}  \* in Start, with m_mutex
InStart == Inside \cup {"take"}

Server == [pc : {"prepared", "starting", "up", "stop", "next", "testTask", "stopTask",
                 "resume", "join", "delete", "done"} \cup InStart,
           todo : SUBSET Threads,      \* the threads its loop has still to do
           cur : Threads \cup {None},  \* the one it is starting or stopping
           locked : BOOLEAN]           \* it holds m_threadsLock

Caller == [pc : {"idle", "resume", "use"} \cup InStart, hand : Threads \cup {None}]

Log == [ran : SUBSET Tasks, given : SUBSET OneShots, failed : SUBSET Tasks,
        late : BOOLEAN,  \* ThreadFunc set m_working after a stop cleared it
        race : SUBSET Threads]  \* in the hand of a caller when the pool was cleared

Idle(t) == thread[t].runnable = None
Fine    == undefined = "no"

(* The pool as PrepareThread leaves it. *)
Init ==
    /\ thread = [t \in Threads |->
           [obj |-> IF t \in Prepared THEN "live" ELSE "none",
            runnable |-> IF t \in Prepared THEN NetTask[t] ELSE None,
            dangling |-> FALSE, working |-> FALSE, launched |-> FALSE,
            mutex |-> 1, sem |-> 0, pc |-> "none"]]
    /\ running = Tasks /\ pool = Prepared
    /\ server = [pc |-> "prepared", todo |-> {}, cur |-> None, locked |-> FALSE]
    /\ caller = [c \in Callers |-> [pc |-> "idle", hand |-> None]]
    /\ log = [ran |-> {}, given |-> {}, failed |-> {}, late |-> FALSE, race |-> {}]
    /\ undefined = "no"

-----------------------------------------------------------------------------
(* Thread::ThreadFunc. *)

At(t, pc) == Fine /\ thread[t].obj = "live" /\ thread[t].pc = pc

Born(t) ==
    /\ At(t, "born")
    /\ thread' = [thread EXCEPT ![t].pc = "post", ![t].working = TRUE]
    /\ log' = [log EXCEPT !.late = @ \/ t \notin pool \cup server.todo]
    /\ UNCHANGED <<running, pool, server, caller, undefined>>

(* _Run. *)
CallTask(t) ==
    /\ At(t, "call")
    /\ thread' = [thread EXCEPT ![t].pc = IF Idle(t) THEN "delete" ELSE "run"]
    /\ log' = [log EXCEPT !.ran = @ \cup ({thread[t].runnable} \ {None})]
    /\ UNCHANGED <<running, pool, server, caller, undefined>>

(* The task's Run returns: a network thread's only after Stop. *)
MayReturn(t) == thread[t].runnable \in Endless => thread[t].runnable \notin running

(* The other steps touch nothing but the Thread.  UniquePtr::Reset deletes *)
(* the task first and sets the pointer then.                               *)
Own(t) ==
    /\ \/ /\ At(t, "post")
          /\ thread' = [thread EXCEPT ![t].pc = "loop", ![t].mutex = @ + 1]
       \/ /\ At(t, "loop")
          /\ thread' = [thread EXCEPT
                 ![t].pc = IF thread[t].working THEN "call" ELSE "ended"]
       \/ /\ At(t, "run") /\ MayReturn(t)
          /\ thread' = [thread EXCEPT ![t].pc = "delete"]
       \/ /\ At(t, "delete")
          /\ thread' = [thread EXCEPT ![t].pc = "null", ![t].dangling = ~Idle(t)]
       \/ /\ At(t, "null")
          /\ thread' = [thread EXCEPT ![t].pc = "suspend", ![t].dangling = FALSE,
                                      ![t].runnable = None]
       \/ /\ At(t, "suspend") /\ thread[t].sem > 0
          /\ thread' = [thread EXCEPT ![t].pc = "loop", ![t].sem = @ - 1]
    /\ UNCHANGED <<running, pool, server, caller, log, undefined>>

(* The Thread it runs on is gone. *)
ThreadFails(t) ==
    /\ Fine /\ thread[t].obj = "deleted" /\ thread[t].pc \notin {"none", "ended"}
    /\ undefined' = "deleted"
    /\ UNCHANGED <<thread, running, pool, server, caller, log>>

-----------------------------------------------------------------------------
(* Mutant of Mutex: m_mutex is posted though the thread was launched.      *)
MutexPosted(m) == m + 1

(* m_mutex once the thread is launched: it is left to ThreadFunc. *)
Mutex(m) == m

(* pthread_create stores m_handle and starts the thread. *)
Launch(t) ==
    \/ /\ thread[t].pc = "none"
       /\ thread' = [thread EXCEPT ![t].pc = "born", ![t].launched = TRUE,
                                   ![t].mutex = Mutex(@)]
       /\ UNCHANGED undefined
    \/ /\ thread[t].pc # "none"
       /\ undefined' = "twice" /\ UNCHANGED thread

(* Thread::Start, a step from pc to next: wait for m_mutex, test m_working, *)
(* launch the thread, which gives m_mutex back once it works; if it works  *)
(* already, or pthread_create fails, Start gives m_mutex back.             *)
StartThread(t, pc, next) ==
    \/ /\ pc = "take" /\ next = "test" /\ thread[t].mutex > 0
       /\ thread' = [thread EXCEPT ![t].mutex = @ - 1] /\ UNCHANGED undefined
    \/ /\ pc = "test" /\ next = IF thread[t].working THEN "giveBack" ELSE "launch"
       /\ UNCHANGED <<thread, undefined>>
    \/ /\ pc = "launch" /\ next = "started" /\ Launch(t)
    \/ /\ pc = "launch" /\ next = "failed" /\ UNCHANGED <<thread, undefined>>
    \/ /\ <<pc, next>> \in {<<"giveBack", "started">>, <<"failed", "notStarted">>}
       /\ thread' = [thread EXCEPT ![t].mutex = @ + 1] /\ UNCHANGED undefined

Returned    == {"started", "notStarted"}
StartStates == InStart \cup Returned

(* ThreadPool::StartAllThreads, which keeps m_threadsLock throughout. *)
StartAll ==
    /\ Fine /\ server.pc = "prepared"
    /\ server' = [server EXCEPT !.pc = "starting", !.locked = TRUE, !.todo = pool]
    /\ UNCHANGED <<thread, running, pool, caller, log, undefined>>

StartNext(t) ==
    /\ Fine /\ server.pc = "starting" /\ t \in server.todo
    /\ server' = [server EXCEPT !.pc = "take", !.cur = t, !.todo = @ \ {t}]
    /\ UNCHANGED <<thread, running, pool, caller, log, undefined>>

StartOne(next) ==
    /\ Fine /\ server.pc \in InStart
    /\ StartThread(server.cur, server.pc, next)
    /\ server' = CASE next = "started" -> [server EXCEPT !.pc = "starting", !.cur = None]
                   [] next = "notStarted" -> [server EXCEPT !.pc = "stop", !.cur = None,
                                                            !.todo = {}, !.locked = FALSE]
                   [] OTHER -> [server EXCEPT !.pc = next]
    /\ UNCHANGED <<running, pool, caller, log>>

Started ==
    /\ Fine /\ server.pc = "starting" /\ server.todo = {}
    /\ server' = [server EXCEPT !.pc = "up", !.locked = FALSE]
    /\ UNCHANGED <<thread, running, pool, caller, log, undefined>>

(* Server::MainLoop ends, or _Init failed. *)
Terminate ==
    /\ Fine /\ server.pc \in {"prepared", "up"}
    /\ server' = [server EXCEPT !.pc = "stop"]
    /\ UNCHANGED <<thread, running, pool, caller, log, undefined>>

-----------------------------------------------------------------------------
(* ThreadPool::StopAllThreads: the pool is emptied under its lock, and its *)
(* threads are stopped and deleted after that.                             *)
StopAll ==
    /\ Fine /\ server.pc = "stop"
    /\ server' = [server EXCEPT !.pc = "next", !.todo = pool] /\ pool' = {}
    /\ log' = [log EXCEPT !.race = {caller[c].hand : c \in Callers} \ {None}]
    /\ UNCHANGED <<thread, running, caller, undefined>>

(* Thread::StopAndWait, step by step. *)
StopNext(t) ==
    /\ Fine /\ server.pc = "next" /\ t \in server.todo
    /\ server' = [server EXCEPT !.pc = "testTask", !.cur = t, !.todo = @ \ {t}]
    /\ thread' = [thread EXCEPT ![t].working = FALSE]
    /\ UNCHANGED <<running, pool, caller, log, undefined>>

Stopped ==
    /\ Fine /\ server.pc = "next" /\ server.todo = {}
    /\ server' = [server EXCEPT !.pc = "done"]
    /\ UNCHANGED <<thread, running, pool, caller, log, undefined>>

TestTask ==
    /\ Fine /\ server.pc = "testTask"
    /\ server' = [server EXCEPT !.pc = IF Idle(server.cur) THEN "resume" ELSE "stopTask"]
    /\ UNCHANGED <<thread, running, pool, caller, log, undefined>>

StopTask ==
    /\ Fine /\ server.pc = "stopTask"
    /\ LET t == thread[server.cur]
           gone == t.dangling \/ t.runnable = None
       IN  /\ undefined' = IF gone THEN "task" ELSE undefined
           /\ running' = running \ {t.runnable}
    /\ server' = [server EXCEPT !.pc = "resume"]
    /\ UNCHANGED <<thread, pool, caller, log>>

(* Mutant of ResumeStopped: a thread that waits is not woken. *)
ResumeNot ==
    /\ Fine /\ server.pc = "resume"
    /\ server' = [server EXCEPT !.pc = "join"]
    /\ UNCHANGED <<thread, running, pool, caller, log, undefined>>

ResumeStopped ==
    /\ Fine /\ server.pc = "resume"
    /\ thread' = [thread EXCEPT ![server.cur].sem = @ + 1]
    /\ server' = [server EXCEPT !.pc = "join"]
    /\ UNCHANGED <<running, pool, caller, log, undefined>>

(* Mutant of Joined: the thread is not waited for. *)
JoinedAtOnce(t) == TRUE

(* Join returns when the thread has ended, or at once if m_handle is not   *)
(* valid, for the thread was not launched yet.                             *)
Joined(t) == thread[t].launched => thread[t].pc = "ended"

Join ==
    /\ Fine /\ server.pc = "join" /\ Joined(server.cur)
    /\ thread' = [thread EXCEPT ![server.cur].launched = FALSE]
    /\ server' = [server EXCEPT !.pc = "delete"]
    /\ UNCHANGED <<running, pool, caller, log, undefined>>

(* Only then the Thread is deleted, and with it its task. *)
Delete ==
    /\ Fine /\ server.pc = "delete"
    /\ thread' = [thread EXCEPT ![server.cur].obj = "deleted",
                                ![server.cur].runnable = None]
    /\ server' = [server EXCEPT !.pc = "next", !.cur = None]
    /\ UNCHANGED <<running, pool, caller, log, undefined>>

-----------------------------------------------------------------------------
(* ThreadPool::ExecuteTask under the lock: an idle thread gets the task,   *)
(* or, if there is none, a new one does.                                   *)
Execute(c, k, t) ==
    /\ Fine /\ ~server.locked /\ caller[c].pc = "idle" /\ k \notin log.given
    /\ \/ /\ t \in pool /\ Idle(t)
          /\ caller' = [caller EXCEPT ![c] = [pc |-> "resume", hand |-> t]]
       \/ /\ thread[t].obj = "none" /\ \A u \in pool : ~Idle(u)
          /\ caller' = [caller EXCEPT ![c] = [pc |-> "take", hand |-> t]]
    /\ thread' = [thread EXCEPT ![t].obj = "live", ![t].runnable = k]
    /\ pool' = pool \cup {t}
    /\ log' = [log EXCEPT !.given = @ \cup {k}]
    /\ UNCHANGED <<running, server, undefined>>

(* NetThreadPool::AddSocket: GetThread returns a thread under the lock. *)
Borrow(c, t) ==
    /\ Fine /\ ~server.locked /\ caller[c].pc = "idle"
    /\ t \in pool \cap Prepared /\ ~Idle(t)
    /\ caller' = [caller EXCEPT ![c] = [pc |-> "use", hand |-> t]]
    /\ UNCHANGED <<thread, running, pool, server, log, undefined>>

(* The caller is about to do pc with a Thread that is still there. *)
About(c, pc) == /\ Fine /\ caller[c].pc = pc /\ caller[c].hand # None
                /\ thread[caller[c].hand].obj = "live"

Release(c) == caller' = [caller EXCEPT ![c] = [pc |-> "idle", hand |-> None]]

CallerStart(c, next) ==
    /\ About(c, caller[c].pc)
    /\ StartThread(caller[c].hand, caller[c].pc, next)
    /\ log' = [log EXCEPT !.failed = IF next = "failed"
                   THEN @ \cup ({thread[caller[c].hand].runnable} \ {None}) ELSE @]
    /\ IF next \in Returned THEN Release(c)
                            ELSE caller' = [caller EXCEPT ![c].pc = next]
    /\ UNCHANGED <<running, pool, server>>

(* Mutant of CallerResume: the thread is not told of its new task. *)
CallerNoResume(c) ==
    /\ About(c, "resume")
    /\ Release(c)
    /\ UNCHANGED <<thread, running, pool, server, log, undefined>>

CallerResume(c) ==
    /\ About(c, "resume")
    /\ thread' = [thread EXCEPT ![caller[c].hand].sem = @ + 1]
    /\ Release(c)
    /\ UNCHANGED <<running, pool, server, log, undefined>>

CallerUse(c) ==
    /\ About(c, "use")
    /\ ~Idle(caller[c].hand) /\ ~thread[caller[c].hand].dangling
    /\ Release(c)
    /\ UNCHANGED <<thread, running, pool, server, log, undefined>>

(* The Thread, or for GetThread the NetThread it runs, is gone. *)
CallerFails(c) ==
    /\ Fine /\ caller[c].hand # None
    /\ \/ thread[caller[c].hand].obj = "deleted"
       \/ caller[c].pc = "use" /\ (Idle(caller[c].hand) \/ thread[caller[c].hand].dangling)
    /\ undefined' = "deleted"
    /\ UNCHANGED <<thread, running, pool, server, caller, log>>

-----------------------------------------------------------------------------
ThreadStep(t) == Born(t) \/ CallTask(t) \/ Own(t) \/ ThreadFails(t)

StartStep ==
    \/ StartAll \/ Started \/ \E next \in StartStates : StartOne(next)
    \/ \E t \in Threads : StartNext(t)

StopStep ==
    \/ StopAll \/ TestTask \/ StopTask \/ ResumeStopped \/ Join \/ Delete \/ Stopped
    \/ \E t \in Threads : StopNext(t)

CallerStep(c) ==
    \/ CallerResume(c) \/ CallerUse(c) \/ CallerFails(c)
    \/ \E next \in StartStates : CallerStart(c, next)

Next ==
    \/ StartStep \/ Terminate \/ StopStep
    \/ \E t \in Threads : ThreadStep(t)
    \/ \E c \in Callers :
          \/ CallerStep(c)
          \/ \E t \in Threads : Borrow(c, t) \/ \E k \in OneShots : Execute(c, k, t)

(* Every thread goes on with what it is in, and one-shot tasks end; nobody *)
(* need call, and the server need not terminate.                           *)
Spec ==
    /\ Init /\ [][Next]_vars
    /\ WF_vars(StartStep) /\ WF_vars(StopStep)
    /\ \A t \in Threads : WF_vars(ThreadStep(t))
    /\ \A c \in Callers : WF_vars(CallerStep(c))

-----------------------------------------------------------------------------
(* The variables keep their types, and m_mutex is a binary semaphore. *)
TypeOK ==
    /\ thread \in [Threads -> Thread] /\ server \in Server
    /\ running \subseteq Tasks /\ pool \subseteq Threads
    /\ caller \in [Callers -> Caller]
    /\ log \in Log
    /\ undefined \in {"no", "deleted", "twice", "task"}

(* A deleted Thread is used, or a Thread launched a second time, only if a *)
(* caller had it in hand when the pool was cleared; and StopAndWait calls  *)
(* Stop on a deleted task only for a task that ends by itself, never for a *)
(* network thread's.                                                       *)
UndefinedOnlyInRaces ==
    /\ undefined \in {"deleted", "twice"} => log.race # {}
    /\ undefined = "task" => server.cur \notin Prepared

(* Once StopAllThreads has returned every Thread of the pool is deleted,   *)
(* and nothing of it is running: every thread that was launched has ended, *)
(* except for a Thread that a caller had in hand when the pool was         *)
(* cleared, which may be launched between Join's test of m_handle and the  *)
(* delete.                                                                 *)
NothingRunsAfterStop ==
    server.pc = "done" =>
        \A t \in Threads \ pool : /\ thread[t].obj # "live"
                                  /\ thread[t].pc \in {"none", "ended"} \/ t \in log.race

(* StopAllThreads returns, unless a stop request came so early that the    *)
(* new thread overwrote it (or the behaviour is undefined by then).        *)
StopEnds == server.pc = "stop" ~> server.pc = "done" \/ log.late \/ ~Fine

(* A task that was given to ExecuteTask is run, unless its thread could    *)
(* not be launched or the pool is stopped.                                 *)
TaskRuns ==
    \A k \in OneShots :
        k \in log.given ~> \/ k \in log.ran \cup log.failed
                           \/ server.pc \notin {"prepared", "starting", "up"}
=============================================================================
