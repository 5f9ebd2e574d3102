-------------------------- MODULE ThreadLifeProofs --------------------------
(***************************************************************************)
(* Proofs about ThreadLife for any number of network threads, of threads   *)
(* and tasks of ExecuteTask and of callers: the safety properties the      *)
(* model checker verifies for one thread of each kind and two callers.     *)
(***************************************************************************)
EXTENDS ThreadLife, TLAPS

(* The pool has not been emptied yet. *)
Early == server.pc \in {"prepared", "starting", "up", "stop"} \cup InStart

(* Which Threads are in the pool, which are still to be stopped, and which *)
(* is being stopped: together, those that are there.                       *)
Places ==
    /\ server.cur # None <=> server.pc \in {"testTask", "stopTask", "resume", "join", "delete"}
                                              \cup InStart
    /\ server.cur \in pool <=> server.pc \in InStart
    /\ server.cur \notin server.todo
    /\ IF Early THEN Prepared \subseteq pool /\ server.todo \subseteq pool /\ log.race = {}
                ELSE Prepared \cap pool = {} /\ server.todo \cap pool = {}
    /\ server.pc \in {"prepared", "up", "stop", "done"} => server.todo = {}
    /\ \A t \in Threads :
          thread[t].obj = "live" <=> t \in pool \cup server.todo \cup {server.cur}

(* A Thread from Start to the end of ThreadFunc. *)
Machine ==
    \A t \in Threads :
        /\ thread[t].pc \in {"born", "post"} => thread[t].mutex = 0
        /\ thread[t].pc \notin {"none", "ended"} => thread[t].launched
        /\ \/ thread[t].obj = "live" /\ ~(t = server.cur /\ server.pc = "delete")
           \/ thread[t].pc \in {"none", "ended"}
           \/ t \in log.race
        /\ thread[t].obj = "none" => thread[t].pc = "none" /\ t \in Spare
        /\ t \in pool /\ thread[t].pc \notin {"none", "born"} => thread[t].working
        /\ t \in Spare => thread[t].runnable \in OneShots \cup {None}

(* m_mutex of t is held by one that is in Start, not by ThreadFunc. *)
Taken(t) == thread[t].mutex = 0 /\ thread[t].pc \notin {"born", "post"}

Held(t, pc) == Taken(t) /\ (pc = "launch" /\ t \in pool => thread[t].pc = "none")

(* Only one is in Start of a Thread, and what it found out is still true.  *)
Mutual ==
    /\ server.pc \in Inside =>
          /\ Held(server.cur, server.pc)
          /\ \A c \in Callers : caller[c].pc \in Inside => caller[c].hand # server.cur
    /\ \A c \in Callers : caller[c].pc \in Inside =>
          /\ Held(caller[c].hand, caller[c].pc)
          /\ \A d \in Callers \ {c} :
                caller[d].pc \in Inside => caller[d].hand # caller[c].hand

(* Stop has not reached the network task of t. *)
Serves(t) ==
    \/ t \in pool \cup server.todo
    \/ t = server.cur /\ server.pc \in {"testTask", "stopTask"}

(* Until then the task stays with its Thread, and runs. *)
NetTasks ==
    \A t \in Prepared :
        Serves(t) => /\ thread[t].runnable = NetTask[t] /\ NetTask[t] \in running
                     /\ ~thread[t].dangling
                     /\ thread[t].pc \notin {"delete", "null", "suspend"}

(* What a caller has in hand is in the pool unless the pool was cleared. *)
Hands ==
    \A c \in Callers :
        /\ caller[c].hand = None <=> caller[c].pc = "idle"
        /\ caller[c].hand = None \/ caller[c].hand \in pool \/ caller[c].hand \in log.race
        /\ caller[c].pc = "use" => caller[c].hand \in Prepared

(* The inductive invariant. *)
Inv == TypeOK /\ Places /\ Machine /\ Mutual /\ NetTasks /\ Hands /\ UndefinedOnlyInRaces

-----------------------------------------------------------------------------
(* The names of the model's constants are told apart. *)
LEMMA Kinds ==
  /\ None \notin Threads /\ None \notin Tasks
  /\ Prepared \subseteq Threads /\ Spare \subseteq Threads /\ Prepared \cap Spare = {}
  /\ \A t \in Prepared : NetTask[t] \in Endless /\ NetTask[t] \in Tasks /\ NetTask[t] # None
  /\ Endless \cap OneShots = {} /\ OneShots \subseteq Tasks
  /\ \A t, u \in Prepared : NetTask[t] = NetTask[u] => t = u
  BY ThreadLifeAssumption DEF Threads, Tasks, Endless

(* Whoever is in Start stays there with m_mutex in any step that leaves    *)
(* taken what is taken and launches nothing.                               *)
LEMMA MutualKept ==
  ASSUME Inv,
         \A u \in Threads : Taken(u) =>
            Taken(u)' /\ (u \in pool' /\ (u \in pool => thread[u].pc = "none")
                             => thread'[u].pc = "none"),
         server'.pc \in Inside => server'.pc = server.pc /\ server'.cur = server.cur,
         \A c \in Callers : caller'[c].pc \in Inside =>
            caller'[c].pc = caller[c].pc /\ caller'[c].hand = caller[c].hand
  PROVE  Mutual'
<1>1. server.pc \in Inside => server.cur \in Threads
  BY Kinds DEF Inv, TypeOK, Server, Places, InStart
<1>2. \A c \in Callers : caller[c].pc \in Inside => caller[c].hand \in Threads
  BY DEF Inv, TypeOK, Caller, Hands, Inside
<1>3. \A u \in Threads, q \in Inside : Held(u, q) => Held(u, q)'
  BY DEF Held
<1>4. ASSUME server'.pc \in Inside
      PROVE  /\ Held(server.cur, server.pc)'
             /\ \A c \in Callers : caller'[c].pc \in Inside => caller'[c].hand # server'.cur
  BY <1>1, <1>3, <1>4 DEF Inv, Mutual, Held
<1>5. ASSUME NEW c \in Callers, caller'[c].pc \in Inside
      PROVE  /\ Held(caller[c].hand, caller[c].pc)'
             /\ \A d \in Callers \ {c} :
                   caller'[d].pc \in Inside => caller'[d].hand # caller'[c].hand
  BY <1>2, <1>3, <1>5 DEF Inv, Mutual, Held
<1> QED
  BY <1>4, <1>5 DEF Mutual

LEMMA InitInv == Init => Inv
<1> SUFFICES ASSUME Init PROVE Inv
  OBVIOUS
<1>1. \A t \in Threads : thread[t] \in Thread
  BY Kinds DEF Init, Thread
<1>2. TypeOK
  BY <1>1, Kinds DEF Init, TypeOK, Server, Caller, Log
<1>3. Places
  BY Kinds DEF Init, Places, Early, InStart, Inside, Threads
<1>4. Machine /\ Mutual
  BY Kinds DEF Init, Machine, Mutual, Inside, Threads
<1>5. NetTasks
  BY Kinds DEF Init, NetTasks, Serves
<1>6. Hands /\ UndefinedOnlyInRaces
  BY Kinds DEF Init, Hands, UndefinedOnlyInRaces
<1> QED
  BY <1>2, <1>3, <1>4, <1>5, <1>6 DEF Inv

-----------------------------------------------------------------------------
(* A step of ThreadFunc changes its own Thread and nothing else. *)
LEMMA OwnStepInv ==
  ASSUME Inv, NEW t \in Threads, NEW r \in Thread,
         thread' = [thread EXCEPT ![t] = r],
         UNCHANGED <<running, pool, server, caller, undefined>>,
         log' \in Log, log'.race = log.race,
         thread[t].pc \notin {"none", "ended"}, thread[t].obj = "live",
         r.obj = thread[t].obj, r.launched, r.pc \notin {"none", "born"},
         r.pc = "post" => thread[t].pc = "born",
         r.mutex = IF thread[t].pc = "post" THEN 1 ELSE thread[t].mutex,
         r.working = (thread[t].working \/ thread[t].pc = "born"),
         r.runnable \in {thread[t].runnable, None},
         t \in Prepared /\ Serves(t) =>
            /\ r.runnable = thread[t].runnable /\ ~r.dangling
            /\ r.pc \notin {"delete", "null", "suspend"}
  PROVE  Inv'
<1>1. \A u \in Threads : thread'[u] = IF u = t THEN r ELSE thread[u]
  BY DEF Inv, TypeOK
<1>2. TypeOK'
  BY DEF Inv, TypeOK
<1>3. Places'
  BY <1>1 DEF Inv, Places, Early
<1>4. Machine'
  <2>1. \A u \in Threads \ {t} : thread'[u] = thread[u]
    BY <1>1
  <2>2. thread'[t] = r
    BY <1>1
  <2>3. t \in pool => r.working
    BY DEF Inv, Machine
  <2>4. r.pc = "post" => r.mutex = 0
    BY DEF Inv, Machine
  <2> QED
    BY <2>1, <2>2, <2>3, <2>4 DEF Inv, Machine
<1>5. Mutual'
  <2>1. \A u \in Threads : Taken(u) =>
           Taken(u)' /\ (u \in pool /\ (u \in pool => thread[u].pc = "none")
                            => thread'[u].pc = "none")
    BY <1>1 DEF Taken
  <2> QED
    BY <2>1, MutualKept
<1>6. NetTasks'
  BY <1>1, Kinds DEF Inv, NetTasks, Serves
<1>7. Hands' /\ UndefinedOnlyInRaces'
  BY DEF Inv, Hands, UndefinedOnlyInRaces
<1> QED
  BY <1>2, <1>3, <1>4, <1>5, <1>6, <1>7 DEF Inv

LEMMA BornInv ==
  ASSUME Inv, NEW t \in Threads, Born(t)
  PROVE  Inv'
<1> DEFINE r == [thread[t] EXCEPT !.pc = "post", !.working = TRUE]
<1>1. thread[t] \in Thread /\ r \in Thread /\ thread' = [thread EXCEPT ![t] = r]
  <2>1. thread[t] \in Thread
    BY DEF Inv, TypeOK
  <2>2. r \in Thread
    BY ONLY <2>1 DEF Thread, r
  <2>3. thread' = [thread EXCEPT ![t] = r]
    BY DEF Born
  <2> QED
    BY <2>1, <2>2, <2>3
<1>2. log' \in Log /\ log'.race = log.race
  BY DEF Inv, TypeOK, Born, Log
<1>3. /\ r.obj = thread[t].obj /\ r.launched /\ r.pc = "post" /\ r.mutex = thread[t].mutex
      /\ r.working
      /\ r.runnable = thread[t].runnable /\ r.dangling = thread[t].dangling
      /\ r.working = (thread[t].working \/ thread[t].pc = "born")
  BY <1>1 DEF Inv, Born, At, Machine, Thread
<1>4. t \in Prepared /\ Serves(t) => ~thread[t].dangling
  BY DEF Inv, NetTasks
<1> HIDE DEF r
<1> QED
  BY <1>1, <1>2, <1>3, <1>4, OwnStepInv DEF Born, At

LEMMA CallTaskInv ==
  ASSUME Inv, NEW t \in Threads, CallTask(t)
  PROVE  Inv'
<1> DEFINE r == [thread[t] EXCEPT !.pc = IF Idle(t) THEN "delete" ELSE "run"]
<1>1. thread[t] \in Thread /\ r \in Thread /\ thread' = [thread EXCEPT ![t] = r]
  BY DEF Inv, TypeOK, CallTask, Thread
<1>2. log' \in Log /\ log'.race = log.race
  BY <1>1 DEF Inv, TypeOK, CallTask, Log, Thread
<1>3. /\ r.obj = thread[t].obj /\ r.launched /\ r.pc = IF Idle(t) THEN "delete" ELSE "run"
      /\ r.mutex = thread[t].mutex /\ r.working = (thread[t].working \/ thread[t].pc = "born")
      /\ r.runnable = thread[t].runnable /\ r.dangling = thread[t].dangling
  BY <1>1 DEF Inv, CallTask, At, Machine, Thread
<1>4. t \in Prepared /\ Serves(t) => ~thread[t].dangling /\ ~Idle(t)
  BY Kinds DEF Inv, NetTasks, Idle
<1> HIDE DEF r
<1> QED
  BY <1>1, <1>2, <1>3, <1>4, OwnStepInv DEF CallTask, At

LEMMA OwnInv ==
  ASSUME Inv, NEW t \in Threads, Own(t)
  PROVE  Inv'
<1>1. thread[t] \in Thread /\ log \in Log
  BY DEF Inv, TypeOK
<1>2. /\ thread[t].pc \notin {"none", "ended"} => thread[t].launched
      /\ thread[t].pc \in {"born", "post"} => thread[t].mutex = 0
  BY DEF Inv, Machine
<1>3. ASSUME t \in Prepared, Serves(t)
      PROVE  /\ thread[t].runnable = NetTask[t] /\ ~thread[t].dangling
             /\ thread[t].pc \notin {"delete", "null", "suspend"} /\ ~MayReturn(t)
  BY <1>3, Kinds DEF Inv, NetTasks, MayReturn
<1>4. CASE /\ At(t, "post")
           /\ thread' = [thread EXCEPT ![t].pc = "loop", ![t].mutex = @ + 1]
  <2> DEFINE r == [thread[t] EXCEPT !.pc = "loop", !.mutex = @ + 1]
  <2>1. r \in Thread /\ thread' = [thread EXCEPT ![t] = r]
    BY <1>1, <1>2, <1>4 DEF Thread, At, Inv, TypeOK
  <2>2. /\ r.obj = thread[t].obj /\ r.launched /\ r.pc = "loop" /\ r.mutex = 1
        /\ r.working = (thread[t].working \/ thread[t].pc = "born")
        /\ r.runnable = thread[t].runnable /\ r.dangling = thread[t].dangling
    BY <1>1, <1>2, <1>4 DEF Thread, At
  <2> HIDE DEF r
  <2> QED
    BY <1>1, <1>3, <1>4, <2>1, <2>2, OwnStepInv DEF Own, At
<1>5. CASE /\ At(t, "loop")
           /\ thread' = [thread EXCEPT
                  ![t].pc = IF thread[t].working THEN "call" ELSE "ended"]
  <2> DEFINE r == [thread[t] EXCEPT !.pc = IF thread[t].working THEN "call" ELSE "ended"]
  <2>1. r \in Thread /\ thread' = [thread EXCEPT ![t] = r]
    BY <1>1, <1>2, <1>5 DEF Thread, At, Inv, TypeOK
  <2>2. /\ r.obj = thread[t].obj /\ r.launched /\ r.pc \in {"call", "ended"} /\ r.mutex = thread[t].mutex
        /\ r.working = (thread[t].working \/ thread[t].pc = "born")
        /\ r.runnable = thread[t].runnable /\ r.dangling = thread[t].dangling
    BY <1>1, <1>2, <1>5 DEF Thread, At
  <2> HIDE DEF r
  <2> QED
    BY <1>1, <1>3, <1>5, <2>1, <2>2, OwnStepInv DEF Own, At
<1>6. CASE /\ At(t, "run") /\ MayReturn(t)
           /\ thread' = [thread EXCEPT ![t].pc = "delete"]
  <2> DEFINE r == [thread[t] EXCEPT !.pc = "delete"]
  <2>1. r \in Thread /\ thread' = [thread EXCEPT ![t] = r]
    BY <1>1, <1>2, <1>6 DEF Thread, At, Inv, TypeOK
  <2>2. /\ r.obj = thread[t].obj /\ r.launched /\ r.pc = "delete" /\ r.mutex = thread[t].mutex
        /\ r.working = (thread[t].working \/ thread[t].pc = "born")
        /\ r.runnable = thread[t].runnable
    BY <1>1, <1>2, <1>6 DEF Thread, At
  <2> HIDE DEF r
  <2> QED
    BY <1>1, <1>3, <1>6, <2>1, <2>2, OwnStepInv DEF Own, At
<1>7. CASE /\ At(t, "delete")
           /\ thread' = [thread EXCEPT ![t].pc = "null", ![t].dangling = ~Idle(t)]
  <2> DEFINE r == [thread[t] EXCEPT !.pc = "null", !.dangling = ~Idle(t)]
  <2>1. r \in Thread /\ thread' = [thread EXCEPT ![t] = r]
    BY <1>1, <1>2, <1>7 DEF Thread, At, Inv, TypeOK, Idle
  <2>2. /\ r.obj = thread[t].obj /\ r.launched /\ r.pc = "null" /\ r.mutex = thread[t].mutex
        /\ r.working = (thread[t].working \/ thread[t].pc = "born")
        /\ r.runnable = thread[t].runnable
    BY <1>1, <1>2, <1>7 DEF Thread, At
  <2> HIDE DEF r
  <2> QED
    BY <1>1, <1>3, <1>7, <2>1, <2>2, OwnStepInv DEF Own, At
<1>8. CASE /\ At(t, "null")
           /\ thread' = [thread EXCEPT ![t].pc = "suspend", ![t].dangling = FALSE,
                                       ![t].runnable = None]
  <2> DEFINE r == [thread[t] EXCEPT !.pc = "suspend", !.dangling = FALSE, !.runnable = None]
  <2>1. r \in Thread /\ thread' = [thread EXCEPT ![t] = r]
    BY <1>1, <1>2, <1>8 DEF Thread, At, Inv, TypeOK
  <2>2. /\ r.obj = thread[t].obj /\ r.launched /\ r.pc = "suspend" /\ r.mutex = thread[t].mutex
        /\ r.working = (thread[t].working \/ thread[t].pc = "born") /\ r.runnable = None
    BY <1>1, <1>2, <1>8 DEF Thread, At
  <2> HIDE DEF r
  <2> QED
    BY <1>1, <1>3, <1>8, <2>1, <2>2, OwnStepInv DEF Own, At
<1>9. CASE /\ At(t, "suspend") /\ thread[t].sem > 0
           /\ thread' = [thread EXCEPT ![t].pc = "loop", ![t].sem = @ - 1]
  <2> DEFINE r == [thread[t] EXCEPT !.pc = "loop", !.sem = @ - 1]
  <2>1. r \in Thread /\ thread' = [thread EXCEPT ![t] = r]
    BY <1>1, <1>2, <1>9 DEF Thread, At, Inv, TypeOK
  <2>2. /\ r.obj = thread[t].obj /\ r.launched /\ r.pc = "loop" /\ r.mutex = thread[t].mutex
        /\ r.working = (thread[t].working \/ thread[t].pc = "born")
        /\ r.runnable = thread[t].runnable
    BY <1>1, <1>2, <1>9 DEF Thread, At
  <2> HIDE DEF r
  <2> QED
    BY <1>1, <1>3, <1>9, <2>1, <2>2, OwnStepInv DEF Own, At
<1> QED
  BY <1>4, <1>5, <1>6, <1>7, <1>8, <1>9 DEF Own

(* A thread runs on a deleted Thread only if a caller launched it late. *)
LEMMA ThreadFailsInv ==
  ASSUME Inv, NEW t \in Threads, ThreadFails(t)
  PROVE  Inv'
<1>1. UNCHANGED <<thread, running, pool, server, caller, log>> /\ undefined' = "deleted"
  BY DEF ThreadFails
<1>2. log.race # {}
  BY DEF ThreadFails, Inv, Machine
<1>3. TypeOK' /\ Places' /\ Machine' /\ NetTasks' /\ Hands'
  BY <1>1 DEF Inv, TypeOK, Places, Early, Machine, NetTasks, Serves, Hands
<1>4. Mutual'
  BY <1>1 DEF Inv, Mutual, Held, Taken
<1>5. UndefinedOnlyInRaces'
  BY <1>1, <1>2 DEF UndefinedOnlyInRaces
<1> QED
  BY <1>3, <1>4, <1>5 DEF Inv

-----------------------------------------------------------------------------
(* A step of Thread::Start on a Thread that is there keeps what holds of   *)
(* each Thread, and launches no Thread of the pool a second time.          *)
LEMMA StartThreadKeeps ==
  ASSUME Inv, NEW t \in Threads, NEW pc \in InStart, NEW next, StartThread(t, pc, next),
         thread[t].obj = "live", t \in pool \/ t \in log.race, pc \in Inside => Held(t, pc),
         pool' = pool, log'.race = log.race, server'.pc = "delete" => server' = server
  PROVE  /\ thread' \in [Threads -> Thread] /\ Machine'
         /\ \A u \in Threads :
               /\ thread'[u].obj = thread[u].obj /\ thread'[u].runnable = thread[u].runnable
               /\ thread'[u].dangling = thread[u].dangling
               /\ thread'[u].pc = thread[u].pc \/ thread'[u].pc = "born"
               /\ u # t => thread'[u] = thread[u]
         /\ undefined' # undefined => undefined' = "twice" /\ t \notin pool
         /\ next \in (Inside \cup Returned) \ {pc} /\ (next \in Inside => Held(t, next)')
         /\ pc \notin Inside => thread[t].mutex # 0
<1>1. thread \in [Threads -> Thread] /\ thread[t] \in Thread
  BY DEF Inv, TypeOK
<1>2. /\ thread[t].pc \in {"born", "post"} => thread[t].mutex = 0
      /\ t \in pool /\ thread[t].pc \notin {"none", "born"} => thread[t].working
      /\ thread[t].pc \notin {"none", "ended"} => thread[t].launched
      /\ t \in Spare => thread[t].runnable \in OneShots \cup {None}
  BY DEF Inv, Machine
<1>3. t = server'.cur /\ server'.pc = "delete" => t \in log.race
  BY Kinds DEF Inv, Places, InStart, Inside
<1>4. ASSUME NEW r \in Thread, thread' = [thread EXCEPT ![t] = r],
             r.obj = thread[t].obj, r.runnable = thread[t].runnable,
             r.dangling = thread[t].dangling, r.working = thread[t].working,
             \/ r.pc = thread[t].pc /\ r.launched = thread[t].launched
             \/ r.pc = "born" /\ r.launched,
             r.pc \in {"born", "post"} => r.mutex = 0
      PROVE  /\ thread' \in [Threads -> Thread] /\ Machine'
             /\ \A u \in Threads :
                   /\ thread'[u].obj = thread[u].obj /\ thread'[u].runnable = thread[u].runnable
                   /\ thread'[u].dangling = thread[u].dangling
                   /\ thread'[u].pc = thread[u].pc \/ thread'[u].pc = "born"
                   /\ u # t => thread'[u] = thread[u]
             /\ thread'[t] = r
  <2>1. \A u \in Threads : thread'[u] = IF u = t THEN r ELSE thread[u]
    BY <1>1, <1>4
  <2>2. thread' \in [Threads -> Thread]
    BY <1>1, <1>4
  <2>3. Machine'
    <3> SUFFICES ASSUME NEW u \in Threads
                 PROVE  /\ thread'[u].pc \in {"born", "post"} => thread'[u].mutex = 0
                        /\ thread'[u].pc \notin {"none", "ended"} => thread'[u].launched
                        /\ \/ thread'[u].obj = "live" /\ ~(u = server'.cur /\ server'.pc = "delete")
                           \/ thread'[u].pc \in {"none", "ended"}
                           \/ u \in log'.race
                        /\ thread'[u].obj = "none" => thread'[u].pc = "none" /\ u \in Spare
                        /\ u \in pool' /\ thread'[u].pc \notin {"none", "born"}
                              => thread'[u].working
                        /\ u \in Spare => thread'[u].runnable \in OneShots \cup {None}
      BY DEF Machine
    <3>1. CASE u = t
      BY <1>2, <1>3, <1>4, <2>1, <3>1
    <3>2. CASE u # t
      BY <2>1, <3>2 DEF Inv, Machine
    <3> QED
      BY <3>1, <3>2
  <2> QED
    BY <1>4, <2>1, <2>2, <2>3
<1>5. CASE /\ pc = "take" /\ next = "test" /\ thread[t].mutex > 0 /\ UNCHANGED undefined
           /\ thread' = [thread EXCEPT ![t].mutex = @ - 1]
  <2> DEFINE r == [thread[t] EXCEPT !.mutex = 0]
  <2>1. thread[t].mutex \in 0 .. 1
    BY <1>1 DEF Thread
  <2>2. thread[t].mutex - 1 = 0 /\ thread[t].mutex # 0
    BY <1>5, <2>1
  <2>3. thread' = [thread EXCEPT ![t] = r]
    BY <1>1, <1>5, <2>2
  <2>4. /\ r \in Thread /\ r.obj = thread[t].obj /\ r.runnable = thread[t].runnable
        /\ r.dangling = thread[t].dangling /\ r.working = thread[t].working
        /\ r.pc = thread[t].pc /\ r.launched = thread[t].launched /\ r.mutex = 0
    <3>1. 0 \in 0 .. 1
      OBVIOUS
    <3> QED
      BY <1>1, <3>1 DEF Thread
  <2>5. r.pc \notin {"born", "post"}
    BY <1>2, <2>2, <2>4
  <2> HIDE DEF r
  <2>6. Held(t, "test")'
    BY <1>4, <2>3, <2>4, <2>5 DEF Held, Taken
  <2> QED
    BY <1>4, <1>5, <2>2, <2>3, <2>4, <2>6 DEF Inside, Returned
<1>6. CASE /\ pc = "test" /\ next = IF thread[t].working THEN "giveBack" ELSE "launch"
           /\ UNCHANGED <<thread, undefined>>
  <2>1. Held(t, next)'
    BY <1>2, <1>6 DEF Held, Taken, Inside
  <2>2. Machine'
    BY <1>3, <1>6 DEF Inv, Machine, Places
  <2> QED
    BY <1>1, <1>6, <2>1, <2>2 DEF Inside, Returned
<1>7. CASE pc = "launch" /\ next = "started" /\ Launch(t)
  <2>1. thread[t].mutex = 0 /\ (t \in pool => thread[t].pc = "none")
    BY <1>7 DEF Held, Taken, Inside
  <2>2. CASE /\ thread[t].pc = "none" /\ UNCHANGED undefined
             /\ thread' = [thread EXCEPT ![t].pc = "born", ![t].launched = TRUE,
                                         ![t].mutex = Mutex(@)]
    <3> DEFINE r == [thread[t] EXCEPT !.pc = "born", !.launched = TRUE]
    <3>1. thread[t] = [thread[t] EXCEPT !.mutex = Mutex(@)]
      BY <1>1 DEF Mutex, Thread
    <3>2. thread' = [thread EXCEPT ![t] = r]
      BY <1>1, <2>2 DEF Mutex, Thread
    <3>3. /\ r \in Thread /\ r.obj = thread[t].obj /\ r.runnable = thread[t].runnable
          /\ r.dangling = thread[t].dangling /\ r.working = thread[t].working
          /\ r.pc = "born" /\ r.mutex = 0
      BY <1>1, <2>1 DEF Thread
    <3>4. r.launched
      BY <1>1 DEF Thread
    <3> HIDE DEF r
    <3> QED
      BY <1>4, <1>7, <2>2, <3>2, <3>3, <3>4 DEF Inside, Returned
  <2>3. CASE thread[t].pc # "none" /\ undefined' = "twice" /\ UNCHANGED thread
    <3>1. Machine'
      BY <1>3, <2>3 DEF Inv, Machine, Places
    <3> QED
      BY <1>1, <1>7, <2>1, <2>3, <3>1 DEF Inside, Returned
  <2> QED
    BY <1>7, <2>2, <2>3 DEF Launch
<1>8. CASE pc = "launch" /\ next = "failed" /\ UNCHANGED <<thread, undefined>>
  <2>1. Held(t, next)'
    BY <1>8 DEF Held, Taken, Inside
  <2>2. Machine'
    BY <1>3, <1>8 DEF Inv, Machine, Places
  <2> QED
    BY <1>1, <1>8, <2>1, <2>2 DEF Inside, Returned
<1>9. CASE /\ <<pc, next>> \in {<<"giveBack", "started">>, <<"failed", "notStarted">>}
           /\ thread' = [thread EXCEPT ![t].mutex = @ + 1] /\ UNCHANGED undefined
  <2> DEFINE r == [thread[t] EXCEPT !.mutex = 1]
  <2>1. pc \in Inside /\ next \in Returned
    BY <1>9 DEF Inside, Returned
  <2>2. thread[t].mutex = 0 /\ thread[t].pc \notin {"born", "post"}
    BY <2>1 DEF Held, Taken
  <2>3. thread' = [thread EXCEPT ![t] = r]
    BY <1>1, <1>9, <2>2
  <2>4. /\ r \in Thread /\ r.obj = thread[t].obj /\ r.runnable = thread[t].runnable
        /\ r.dangling = thread[t].dangling /\ r.working = thread[t].working
        /\ r.pc = thread[t].pc /\ r.launched = thread[t].launched
    <3>1. 1 \in 0 .. 1
      OBVIOUS
    <3> QED
      BY <1>1, <3>1 DEF Thread
  <2> HIDE DEF r
  <2> QED
    BY <1>4, <1>9, <2>1, <2>2, <2>3, <2>4 DEF Inside, Returned
<1> QED
  BY <1>5, <1>6, <1>7, <1>8, <1>9 DEF StartThread

LEMMA StartAllInv ==
  ASSUME Inv, StartAll
  PROVE  Inv'
<1> USE DEF StartAll
<1>1. TypeOK'
  BY DEF Inv, TypeOK, Server
<1>2. Places'
  BY DEF Inv, TypeOK, Server, Places, Early, InStart, Inside
<1>3. Machine' /\ Hands'
  BY DEF Inv, TypeOK, Server, Machine, Hands
<1>4. NetTasks'
  BY DEF Inv, TypeOK, Server, NetTasks, Serves
<1>5. UndefinedOnlyInRaces'
  BY DEF Inv, UndefinedOnlyInRaces, TypeOK, Server
<1>6. Mutual'
  BY MutualKept DEF Taken, Inside, Inv, TypeOK, Server
<1> QED
  BY <1>1, <1>2, <1>3, <1>4, <1>5, <1>6 DEF Inv

LEMMA StartNextInv ==
  ASSUME Inv, NEW t \in Threads, StartNext(t)
  PROVE  Inv'
<1> USE DEF StartNext
<1>1. /\ server' \in Server /\ server'.pc = "take" /\ server'.cur = t
      /\ server'.todo = server.todo \ {t}
  BY DEF Inv, TypeOK, Server, InStart
<1>2. t \in pool /\ server.cur = None
  BY DEF Inv, Places, Early, InStart, Inside
<1>3. TypeOK'
  BY <1>1 DEF Inv, TypeOK
<1>4. Places'
  BY <1>1, <1>2, Kinds DEF Inv, Places, Early, InStart, Inside
<1>5. Machine' /\ Hands' /\ UndefinedOnlyInRaces'
  BY <1>1, <1>2 DEF Inv, Machine, Hands, UndefinedOnlyInRaces, Fine
<1>6. Mutual'
  BY <1>1, MutualKept DEF Taken, Inside
<1>7. NetTasks'
  BY <1>1, <1>2, Kinds DEF Inv, NetTasks, Serves
<1> QED
  BY <1>3, <1>4, <1>5, <1>6, <1>7 DEF Inv

LEMMA StartOneInv ==
  ASSUME Inv, NEW next, StartOne(next)
  PROVE  Inv'
<1>0. PICK t \in Threads : t = server.cur
  BY DEF StartOne, Inv, Places, TypeOK
<1>1. /\ t \in Threads /\ t \in pool /\ thread[t].obj = "live" /\ server.pc \in InStart
      /\ server.pc \in Inside => Held(t, server.pc)
  BY <1>0 DEF StartOne, Inv, Places, TypeOK, Mutual
<1>2. /\ UNCHANGED <<running, pool, caller, log>> /\ StartThread(t, server.pc, next)
      /\ server' = CASE next = "started" -> [server EXCEPT !.pc = "starting", !.cur = None]
                     [] next = "notStarted" -> [server EXCEPT !.pc = "stop", !.cur = None,
                                                              !.todo = {}, !.locked = FALSE]
                     [] OTHER -> [server EXCEPT !.pc = next]
  BY <1>0 DEF StartOne
<1>3. next \in Inside \cup Returned
  BY <1>2 DEF StartThread, Inside, Returned
<1>4. /\ server' \in Server /\ server'.todo \subseteq server.todo
      /\ \/ next \in Inside /\ server'.pc = next /\ server'.cur = t
         \/ next \notin Inside /\ server'.pc \in {"starting", "stop"} /\ server'.cur = None
      /\ server'.pc = "stop" => server'.todo = {}
  <2>1. server \in Server
    BY DEF Inv, TypeOK
  <2> USE <1>0
  <2>2. CASE next = "started"
    BY <1>2, <2>1, <2>2 DEF Server, Inside
  <2>3. CASE next = "notStarted"
    BY <1>2, <2>1, <2>3 DEF Server, Inside
  <2>4. CASE next \in Inside
    <3>1. server' = [server EXCEPT !.pc = next]
      BY <1>2, <2>4 DEF Inside
    <3> QED
      BY <2>1, <2>4, <3>1 DEF Server, Inside, InStart
  <2> QED
    BY <1>3, <2>2, <2>3, <2>4 DEF Returned
<1>5. /\ thread' \in [Threads -> Thread] /\ Machine'
      /\ \A u \in Threads :
            /\ thread'[u].obj = thread[u].obj /\ thread'[u].runnable = thread[u].runnable
            /\ thread'[u].dangling = thread[u].dangling
            /\ thread'[u].pc = thread[u].pc \/ thread'[u].pc = "born"
            /\ u # t => thread'[u] = thread[u]
      /\ undefined' = undefined
      /\ next \in Inside => Held(t, next)'
      /\ server.pc \notin Inside => thread[t].mutex # 0
  <2>1. server'.pc # "delete"
    BY <1>4 DEF Inside
  <2>2. pool' = pool /\ log'.race = log.race /\ server.pc \in InStart
        /\ (server'.pc = "delete" => server' = server)
    BY <1>1, <1>2, <2>1
  <2>3. undefined' # undefined => undefined' = "twice" /\ t \notin pool
    BY ONLY Inv, <1>1, <1>2, <2>2, StartThreadKeeps
  <2>4. undefined' = undefined
    BY <1>1, <2>3
  <2> QED
    BY ONLY Inv, <1>1, <1>2, <2>2, <2>4, StartThreadKeeps
<1>6. TypeOK'
  BY <1>2, <1>4, <1>5 DEF Inv, TypeOK
<1>7. Places'
  <2>1. Early /\ Early' /\ InStart = Inside \cup {"take"} /\ "stop" \notin InStart
        /\ "starting" \notin InStart
    BY <1>1, <1>4 DEF Early, InStart, Inside
  <2>2. \A u \in Threads : thread'[u].obj = "live" <=> u \in pool
    BY <1>0, <1>1, <1>5, <2>1 DEF Inv, Places
  <2> QED
    BY <1>0, <1>1, <1>2, <1>4, <2>1, <2>2, Kinds DEF Inv, Places, Inside, TypeOK
<1>8. Mutual'
  <2>1. \A c \in Callers : caller[c].pc \in Inside => caller[c].hand # t
    BY <1>0, <1>5 DEF Inv, Mutual, Held, Taken
  <2>2. \A c \in Callers : caller[c].pc \in Inside => caller[c].hand \in Threads
    BY DEF Inv, TypeOK, Caller, Hands, Inside
  <2>3. \A c \in Callers : caller[c].pc \in Inside => Held(caller[c].hand, caller[c].pc)'
    BY <1>2, <1>5, <2>1, <2>2 DEF Inv, Mutual, Held, Taken
  <2> QED
    <3>1. caller' = caller
      BY <1>2
    <3>2. server'.pc \in Inside => Held(server.cur, server.pc)'
      BY <1>4, <1>5 DEF Held, Taken, Inside
    <3>3. server'.pc \in Inside =>
             \A c \in Callers : caller'[c].pc \in Inside => caller'[c].hand # server'.cur
      BY <1>4, <2>1, <3>1 DEF Inside
    <3>4. \A c \in Callers : caller[c].pc \in Inside =>
             \A d \in Callers \ {c} : caller[d].pc \in Inside => caller[d].hand # caller[c].hand
      BY DEF Inv, Mutual
    <3> QED
      BY <2>3, <3>1, <3>2, <3>3, <3>4 DEF Mutual
<1>9. NetTasks'
  BY <1>0, <1>1, <1>2, <1>4, <1>5, Kinds DEF Inv, NetTasks, Serves
<1>10. Hands' /\ UndefinedOnlyInRaces'
  BY <1>2, <1>5 DEF StartOne, Inv, Hands, UndefinedOnlyInRaces, Fine
<1> QED
  BY <1>5, <1>6, <1>7, <1>8, <1>9, <1>10 DEF Inv

LEMMA StartedInv ==
  ASSUME Inv, Started \/ Terminate
  PROVE  Inv'
<1>1. /\ server' \in Server /\ server'.cur = server.cur /\ server'.todo = server.todo
      /\ server'.pc \in {"up", "stop"} /\ server.pc \in {"prepared", "starting", "up"}
      /\ server.todo = {}
  <2>1. server \in Server
    BY DEF Inv, TypeOK
  <2>2. server.pc \in {"prepared", "up", "stop", "done"} => server.todo = {}
    BY DEF Inv, Places
  <2> QED
    BY <2>1, <2>2 DEF Started, Terminate, Server
<1>2. UNCHANGED <<thread, running, pool, caller, log, undefined>>
  BY DEF Started, Terminate
<1>3. TypeOK' /\ Machine' /\ Hands' /\ UndefinedOnlyInRaces'
  BY <1>1, <1>2 DEF Inv, TypeOK, Machine, Hands, UndefinedOnlyInRaces
<1>4. Places' /\ NetTasks'
  BY <1>1, <1>2 DEF Inv, Places, Early, NetTasks, Serves, InStart, Inside
<1>5. Mutual'
  BY <1>1, <1>2, MutualKept DEF Taken, Inside
<1> QED
  BY <1>3, <1>4, <1>5 DEF Inv

-----------------------------------------------------------------------------
LEMMA StopAllInv ==
  ASSUME Inv, StopAll
  PROVE  Inv'
<1> USE DEF StopAll
<1>1. server'.pc = "next" /\ server'.todo = pool /\ server'.cur = server.cur /\ pool' = {}
  BY DEF Inv, TypeOK, Server
<1>2. log' \in Log /\ log'.race = {caller[c].hand : c \in Callers} \ {None}
  BY DEF Inv, TypeOK, Caller, Log
<1>3. TypeOK'
  BY <1>2 DEF Inv, TypeOK, Server
<1>4. Places'
  BY <1>1 DEF Inv, Places, Early, InStart, Inside
<1>5. Machine'
  <2>1. log.race = {}
    BY DEF Inv, Places, Early
  <2> QED
    BY <1>1, <2>1 DEF Inv, Machine
<1>6. NetTasks'
  BY <1>1 DEF Inv, NetTasks, Serves
<1>7. Hands'
  BY <1>2 DEF Inv, Hands
<1>8. UndefinedOnlyInRaces'
  BY DEF Inv, UndefinedOnlyInRaces, Fine
<1>9. Mutual'
  BY <1>1, MutualKept DEF Taken, Inside
<1> QED
  BY <1>3, <1>4, <1>5, <1>6, <1>7, <1>8, <1>9 DEF Inv

LEMMA StopNextInv ==
  ASSUME Inv, NEW t \in Threads, StopNext(t)
  PROVE  Inv'
<1> USE DEF StopNext
<1>1. /\ server' \in Server /\ server'.pc = "testTask" /\ server'.cur = t
      /\ server'.todo = server.todo \ {t}
  BY DEF Inv, TypeOK, Server
<1>2. t \notin pool /\ server.cur = None /\ thread[t].obj = "live"
  BY DEF Inv, Places, Early, InStart, Inside
<1>3. /\ thread' \in [Threads -> Thread]
      /\ \A u \in Threads :
            /\ thread'[u].obj = thread[u].obj /\ thread'[u].pc = thread[u].pc
            /\ thread'[u].runnable = thread[u].runnable
            /\ thread'[u].dangling = thread[u].dangling
            /\ thread'[u].launched = thread[u].launched
            /\ thread'[u].mutex = thread[u].mutex
            /\ u # t => thread'[u].working = thread[u].working
  <2> DEFINE r == [thread[t] EXCEPT !.working = FALSE]
  <2>1. thread[t] \in Thread /\ r \in Thread
    <3>1. thread[t] \in Thread
      BY DEF Inv, TypeOK
    <3> QED
      BY ONLY <3>1 DEF Thread, r
  <2>2. /\ r.obj = thread[t].obj /\ r.pc = thread[t].pc /\ r.runnable = thread[t].runnable
        /\ r.dangling = thread[t].dangling /\ r.launched = thread[t].launched
        /\ r.mutex = thread[t].mutex
    BY <2>1 DEF Thread
  <2>3. thread' = [thread EXCEPT ![t] = r]
    BY DEF Inv, TypeOK
  <2> HIDE DEF r
  <2>4. \A u \in Threads : thread'[u] = IF u = t THEN r ELSE thread[u]
    BY <2>3 DEF Inv, TypeOK
  <2> QED
    BY <2>1, <2>2, <2>3, <2>4 DEF Inv, TypeOK
<1>4. TypeOK'
  BY <1>1, <1>3 DEF Inv, TypeOK
<1>5. Places'
  BY <1>1, <1>2, <1>3, Kinds DEF Inv, Places, Early, InStart, Inside
<1>6. Machine'
  BY <1>1, <1>2, <1>3 DEF Inv, Machine
<1>7. NetTasks'
  BY <1>1, <1>3, Kinds DEF Inv, NetTasks, Serves
<1>8. Hands' /\ UndefinedOnlyInRaces'
  BY DEF Inv, Hands, UndefinedOnlyInRaces, Fine
<1>9. Mutual'
  BY <1>1, <1>3, MutualKept DEF Taken, Inside
<1> QED
  BY <1>4, <1>5, <1>6, <1>7, <1>8, <1>9 DEF Inv

LEMMA TestTaskInv ==
  ASSUME Inv, Stopped \/ TestTask
  PROVE  Inv'
<1>1. /\ server' \in Server /\ server'.cur = server.cur /\ server'.todo = server.todo
      /\ \/ server.pc = "next" /\ server'.pc = "done" /\ server.todo = {}
         \/ server.pc = "testTask" /\ server'.pc \in {"stopTask", "resume"}
  BY DEF Stopped, TestTask, Inv, TypeOK, Server
<1>2. UNCHANGED <<thread, running, pool, caller, log, undefined>>
  BY DEF Stopped, TestTask
<1>3. TypeOK' /\ Machine' /\ Hands' /\ UndefinedOnlyInRaces'
  BY <1>1, <1>2 DEF Inv, TypeOK, Machine, Hands, UndefinedOnlyInRaces
<1>4. Places'
  BY <1>1, <1>2 DEF Inv, Places, Early, InStart, Inside
<1>5. NetTasks'
  BY <1>1, <1>2 DEF Inv, NetTasks, Serves
<1>6. Mutual'
  BY <1>1, <1>2, MutualKept DEF Taken, Inside
<1> QED
  BY <1>3, <1>4, <1>5, <1>6 DEF Inv

(* StopAndWait reads the task of a network thread before ThreadFunc can    *)
(* have deleted it, for that thread ends its task only after Stop.         *)
LEMMA StopTaskInv ==
  ASSUME Inv, StopTask
  PROVE  Inv'
<1> USE DEF StopTask
<1> DEFINE t == server.cur
<1>1. t \in Threads /\ t \notin pool \cup server.todo
  BY Kinds DEF Inv, Places, TypeOK, Server, InStart, Inside
<1>2. /\ server' \in Server /\ server'.cur = t /\ server'.todo = server.todo
      /\ server'.pc = "resume"
  BY DEF Inv, TypeOK, Server
<1>3. running' = running \ {thread[t].runnable}
  OBVIOUS
<1>4. /\ undefined' = "task" => t \notin Prepared
      /\ undefined' \in {"no", "task"}
  BY Kinds DEF Inv, NetTasks, Serves, Fine
<1>5. \A u \in Prepared \ {t} : NetTask[u] # thread[t].runnable
  BY <1>1, Kinds DEF Inv, NetTasks, Serves, Machine, Threads
<1>6. TypeOK'
  BY <1>2, <1>3, <1>4 DEF Inv, TypeOK
<1>7. Places'
  BY <1>2 DEF Inv, Places, Early, InStart, Inside
<1>8. Machine' /\ Hands'
  BY <1>2 DEF Inv, Machine, Hands
<1>9. NetTasks'
  BY <1>1, <1>2, <1>3, <1>5 DEF Inv, NetTasks, Serves
<1>10. UndefinedOnlyInRaces'
  BY <1>2, <1>4 DEF UndefinedOnlyInRaces
<1>11. Mutual'
  BY <1>2, MutualKept DEF Taken, Inside
<1> QED
  BY <1>6, <1>7, <1>8, <1>9, <1>10, <1>11 DEF Inv

LEMMA ResumeStoppedInv ==
  ASSUME Inv, ResumeStopped
  PROVE  Inv'
<1> USE DEF ResumeStopped
<1>1. server.cur \in Threads
  BY DEF Inv, Places, TypeOK, Server
<1>2. /\ server' \in Server /\ server'.cur = server.cur /\ server'.todo = server.todo
      /\ server'.pc = "join"
  BY DEF Inv, TypeOK, Server
<1>3. /\ thread' \in [Threads -> Thread]
      /\ \A u \in Threads :
            /\ thread'[u].obj = thread[u].obj /\ thread'[u].pc = thread[u].pc
            /\ thread'[u].runnable = thread[u].runnable
            /\ thread'[u].dangling = thread[u].dangling
            /\ thread'[u].launched = thread[u].launched
            /\ thread'[u].mutex = thread[u].mutex
            /\ thread'[u].working = thread[u].working
  BY <1>1 DEF Inv, TypeOK, Thread
<1>4. TypeOK'
  BY <1>2, <1>3 DEF Inv, TypeOK
<1>5. Places'
  BY <1>2, <1>3 DEF Inv, Places, Early, InStart, Inside
<1>6. Machine'
  BY <1>2, <1>3 DEF Inv, Machine
<1>7. NetTasks'
  BY <1>2, <1>3, Kinds DEF Inv, NetTasks, Serves
<1>8. Hands' /\ UndefinedOnlyInRaces'
  BY <1>2 DEF Inv, Hands, UndefinedOnlyInRaces
<1>9. Mutual'
  BY <1>2, <1>3, MutualKept DEF Taken, Inside
<1> QED
  BY <1>4, <1>5, <1>6, <1>7, <1>8, <1>9 DEF Inv

LEMMA JoinInv ==
  ASSUME Inv, Join
  PROVE  Inv'
<1> USE DEF Join
<1> DEFINE t == server.cur
<1>1. t \in Threads /\ t \notin pool \cup server.todo
  BY DEF Inv, Places, TypeOK, Server, InStart, Inside
<1>2. /\ server' \in Server /\ server'.cur = t /\ server'.todo = server.todo
      /\ server'.pc = "delete"
  BY DEF Inv, TypeOK, Server
<1>3. thread[t].pc \in {"none", "ended"}
  BY <1>1 DEF Inv, Machine, Joined
<1>4. /\ thread' \in [Threads -> Thread]
      /\ \A u \in Threads \ {t} : thread'[u] = thread[u]
      /\ thread'[t].obj = thread[t].obj /\ thread'[t].pc = thread[t].pc
      /\ thread'[t].runnable = thread[t].runnable /\ thread'[t].mutex = thread[t].mutex
      /\ thread'[t].dangling = thread[t].dangling
  <2> DEFINE r == [thread[t] EXCEPT !.launched = FALSE]
  <2>1. thread[t] \in Thread /\ thread \in [Threads -> Thread]
    BY <1>1 DEF Inv, TypeOK
  <2>2. thread' = [thread EXCEPT ![t] = r]
    BY <2>1
  <2>3. r \in Thread
    BY ONLY <2>1 DEF Thread, r
  <2>4. /\ r.obj = thread[t].obj /\ r.pc = thread[t].pc /\ r.runnable = thread[t].runnable
        /\ r.mutex = thread[t].mutex /\ r.dangling = thread[t].dangling
    BY ONLY <2>1 DEF Thread, r
  <2> HIDE DEF r
  <2> QED
    BY <1>1, <2>1, <2>2, <2>3, <2>4
<1>5. TypeOK'
  BY <1>2, <1>4 DEF Inv, TypeOK
<1>6. Places'
  <2>1. \A u \in Threads : thread'[u].obj = thread[u].obj
    BY <1>4
  <2> QED
    BY <1>2, <2>1 DEF Inv, Places, Early, InStart, Inside
<1>7. Machine'
  BY <1>1, <1>2, <1>3, <1>4 DEF Inv, Machine
<1>8. NetTasks'
  BY <1>1, <1>2, <1>4, Kinds DEF Inv, NetTasks, Serves
<1>9. Hands' /\ UndefinedOnlyInRaces'
  BY <1>2 DEF Inv, Hands, UndefinedOnlyInRaces, Fine
<1>10. Mutual'
  BY <1>2, <1>4, MutualKept DEF Taken, Inside
<1> QED
  BY <1>5, <1>6, <1>7, <1>8, <1>9, <1>10 DEF Inv

(* What was launched after Join had looked at m_handle was in the hand of  *)
(* a caller.                                                               *)
LEMMA DeleteInv ==
  ASSUME Inv, Delete
  PROVE  Inv'
<1> USE DEF Delete
<1> DEFINE t == server.cur
<1>1. t \in Threads /\ t \notin pool \cup server.todo /\ thread[t].obj = "live"
  BY DEF Inv, Places, TypeOK, Server, InStart, Inside
<1>2. /\ server' \in Server /\ server'.cur = None /\ server'.todo = server.todo
      /\ server'.pc = "next"
  BY DEF Inv, TypeOK, Server
<1>3. thread[t].pc \in {"none", "ended"} \/ t \in log.race
  BY <1>1 DEF Inv, Machine
<1>4. /\ thread' \in [Threads -> Thread]
      /\ \A u \in Threads \ {t} : thread'[u] = thread[u]
      /\ thread'[t].obj = "deleted" /\ thread'[t].pc = thread[t].pc
      /\ thread'[t].runnable = None /\ thread'[t].launched = thread[t].launched
      /\ thread'[t].mutex = thread[t].mutex
  <2>1. thread \in [Threads -> Thread] /\ thread[t] \in Thread
    BY <1>1 DEF Inv, TypeOK
  <2>2. thread' = [thread EXCEPT ![t] = [thread[t] EXCEPT !.obj = "deleted",
                                                          !.runnable = None]]
    BY <1>1, <2>1
  <2>3. [thread[t] EXCEPT !.obj = "deleted", !.runnable = None] \in Thread
    BY <2>1 DEF Thread
  <2> HIDE DEF Delete
  <2>4. thread' \in [Threads -> Thread]
    BY <1>1, <2>1, <2>2, <2>3
  <2>5. \A u \in Threads \ {t} : thread'[u] = thread[u]
    BY <2>1, <2>2
  <2>6. thread'[t] = [thread[t] EXCEPT !.obj = "deleted", !.runnable = None]
    BY <1>1, <2>1, <2>2
  <2> QED
    BY <2>1, <2>4, <2>5, <2>6 DEF Thread
<1>5. TypeOK'
  BY <1>2, <1>4 DEF Inv, TypeOK
<1>6. Places'
  <2>1. \A u \in Threads : thread'[u].obj = "live" <=> thread[u].obj = "live" /\ u # t
    BY <1>4
  <2>2. \A u \in Threads : thread'[u].obj = "live" <=> u \in pool \cup server.todo
    BY <1>1, <2>1 DEF Inv, Places
  <2>3. None \notin pool \cup server.todo \cup Threads
    BY Kinds DEF Inv, TypeOK, Server
  <2>4. ~Early /\ ~Early' /\ pool' = pool
    BY <1>2 DEF Early, InStart, Inside
  <2> QED
    BY <1>2, <2>2, <2>3, <2>4 DEF Inv, Places, InStart, Inside
<1>7. Machine'
  BY <1>1, <1>2, <1>3, <1>4 DEF Inv, Machine
<1>8. NetTasks'
  BY <1>1, <1>2, <1>4, Kinds DEF Inv, NetTasks, Serves
<1>9. Hands' /\ UndefinedOnlyInRaces'
  BY <1>2 DEF Inv, Hands, UndefinedOnlyInRaces, Fine
<1>10. Mutual'
  BY <1>2, <1>4, MutualKept DEF Taken, Inside
<1> QED
  BY <1>5, <1>6, <1>7, <1>8, <1>9, <1>10 DEF Inv

-----------------------------------------------------------------------------
(* ExecuteTask takes a Thread of the pool that is idle, which no network   *)
(* thread is, or adds one.                                                 *)
LEMMA ExecuteInv ==
  ASSUME Inv, NEW c \in Callers, NEW k \in OneShots, NEW t \in Threads, Execute(c, k, t)
  PROVE  Inv'
<1> USE DEF Execute
<1>1. /\ t \in Spare /\ (Early \/ (t # server.cur /\ t \notin server.todo))
      /\ t \in pool \/ thread[t].obj = "none"
  <2>1. CASE t \in pool /\ Idle(t)
    <3>1. t \notin Prepared
      BY <2>1, Kinds DEF Inv, NetTasks, Serves, Idle
    <3> QED
      <4>1. t \in Spare /\ t \in pool
        BY <2>1, <3>1 DEF Threads
      <4>2. ~Early => server.pc \notin InStart
        BY DEF Early
      <4>3. ~Early => t # server.cur /\ t \notin server.todo
        BY <2>1, <4>2 DEF Inv, Places
      <4> QED
        BY ONLY <4>1, <4>3
  <2>2. CASE thread[t].obj = "none"
    BY <2>2 DEF Inv, Places, Machine
  <2> QED
    BY <2>1, <2>2
<1> DEFINE r == [thread[t] EXCEPT !.obj = "live", !.runnable = k]
<1>2. /\ r \in Thread /\ r.obj = "live" /\ r.runnable = k /\ r.pc = thread[t].pc
      /\ r.launched = thread[t].launched /\ r.mutex = thread[t].mutex
      /\ r.working = thread[t].working
  <2>1. thread[t] \in Thread /\ k \in Tasks \cup {None}
    BY Kinds DEF Inv, TypeOK
  <2> QED
    BY <2>1 DEF Thread
<1>3. thread' = [thread EXCEPT ![t] = r]
  BY DEF Inv, TypeOK
<1> HIDE DEF r
<1>4. \A u \in Threads : thread'[u] = IF u = t THEN r ELSE thread[u]
  BY <1>3 DEF Inv, TypeOK
<1>5. /\ caller' \in [Callers -> Caller]
      /\ \A d \in Callers \ {c} : caller'[d] = caller[d]
      /\ caller'[c].hand = t /\ caller'[c].pc \in {"take", "resume"}
  BY DEF Inv, TypeOK, Caller, InStart
<1>6. log' \in Log /\ log'.race = log.race
  BY DEF Inv, TypeOK, Log
<1>7. pool' = pool \cup {t} /\ UNCHANGED <<running, server, undefined>> /\ Fine
  OBVIOUS
<1> HIDE DEF Execute
<1>8. TypeOK'
  <2>1. thread' \in [Threads -> Thread]
    BY <1>2, <1>3 DEF Inv, TypeOK
  <2> QED
    BY <1>5, <1>6, <1>7, <2>1 DEF Inv, TypeOK
<1>9. Places'
  <2>1. Early' = Early /\ (server.pc \in InStart => Early)
    BY <1>7 DEF Early
  <2>2. \A u \in Threads : thread'[u].obj = "live" <=> u = t \/ thread[u].obj = "live"
    BY <1>2, <1>4
  <2> QED
    BY <1>1, <1>6, <1>7, <2>1, <2>2, Kinds DEF Inv, Places
<1>10. Machine'
  <2>1. /\ thread[t].obj = "none" => thread[t].pc = "none"
        /\ thread[t].pc \notin {"none", "ended"} => thread[t].launched
        /\ thread[t].pc \in {"born", "post"} => thread[t].mutex = 0
        /\ t \in pool => thread[t].obj = "live" /\ ~(t = server.cur /\ server.pc = "delete")
        /\ t = server.cur => server.pc # "delete"
        /\ t \in pool /\ thread[t].pc \notin {"none", "born"} => thread[t].working
    BY <1>1 DEF Inv, Machine, Places, Early, InStart, Inside
  <2> SUFFICES ASSUME NEW u \in Threads
               PROVE  /\ thread'[u].pc \in {"born", "post"} => thread'[u].mutex = 0
                      /\ thread'[u].pc \notin {"none", "ended"} => thread'[u].launched
                      /\ \/ thread'[u].obj = "live" /\ ~(u = server'.cur /\ server'.pc = "delete")
                         \/ thread'[u].pc \in {"none", "ended"}
                         \/ u \in log'.race
                      /\ thread'[u].obj = "none" => thread'[u].pc = "none" /\ u \in Spare
                      /\ u \in pool' /\ thread'[u].pc \notin {"none", "born"}
                            => thread'[u].working
                      /\ u \in Spare => thread'[u].runnable \in OneShots \cup {None}
    BY DEF Machine
  <2>2. CASE u = t
    BY <1>1, <1>2, <1>4, <1>7, <2>1, <2>2
  <2>3. CASE u # t
    BY <1>4, <1>6, <1>7, <2>3 DEF Inv, Machine
  <2> QED
    BY <2>2, <2>3
<1>11. NetTasks'
  <2>1. \A u \in Prepared : u # t /\ thread'[u] = thread[u] /\ (Serves(u)' <=> Serves(u))
    BY <1>1, <1>4, <1>7, Kinds DEF Serves
  <2> QED
    BY <1>7, <2>1 DEF Inv, NetTasks
<1>12. Hands'
  BY <1>5, <1>6, <1>7, Kinds DEF Inv, Hands
<1>13. UndefinedOnlyInRaces'
  BY <1>7 DEF UndefinedOnlyInRaces, Fine
<1>14. Mutual'
  <2>1. \A u \in Threads : Taken(u) => Taken(u)'
    BY <1>2, <1>4 DEF Taken
  <2>2. \A u \in Threads : u \in pool' /\ (u \in pool => thread[u].pc = "none")
                               => thread'[u].pc = "none"
    BY <1>1, <1>2, <1>4, <1>7 DEF Inv, Machine
  <2> QED
    BY <1>5, <1>7, <2>1, <2>2, MutualKept DEF Inside
<1> QED
  BY <1>8, <1>9, <1>10, <1>11, <1>12, <1>13, <1>14 DEF Inv

LEMMA BorrowInv ==
  ASSUME Inv, NEW c \in Callers, NEW t \in Threads, Borrow(c, t)
  PROVE  Inv'
<1> USE DEF Borrow
<1>1. TypeOK'
  BY DEF Inv, TypeOK, Caller
<1>2. Places' /\ Machine' /\ NetTasks' /\ UndefinedOnlyInRaces'
  BY DEF Inv, Places, Early, Machine, NetTasks, Serves, UndefinedOnlyInRaces
<1>3. Hands'
  BY Kinds DEF Inv, TypeOK, Hands
<1>4. Mutual'
  <2>1. \A d \in Callers : caller'[d].pc \in Inside => caller'[d] = caller[d]
    BY DEF Inv, TypeOK, Inside
  <2> QED
    BY <2>1, MutualKept DEF Taken
<1> QED
  BY <1>1, <1>2, <1>3, <1>4 DEF Inv

(* A caller that is done has nothing in hand. *)
LEMMA ReleaseHands ==
  ASSUME Inv, NEW c \in Callers, Release(c), pool' = pool, log'.race = log.race
  PROVE  /\ caller' \in [Callers -> Caller] /\ Hands'
         /\ \A d \in Callers \ {c} : caller'[d] = caller[d]
         /\ caller'[c].pc \notin Inside
<1>1. /\ \A d \in Callers \ {c} : caller'[d] = caller[d]
      /\ caller'[c].hand = None /\ caller'[c].pc = "idle"
  BY DEF Inv, TypeOK, Release
<1> QED
  BY <1>1 DEF Inv, TypeOK, Hands, Release, Caller, Inside

LEMMA CallerStartInv ==
  ASSUME Inv, NEW c \in Callers, NEW next, CallerStart(c, next)
  PROVE  Inv'
<1>0. PICK t \in Threads, pc \in InStart : t = caller[c].hand /\ pc = caller[c].pc
  <2>1. caller[c].hand \in Threads /\ caller[c].pc \in InStart
    BY DEF CallerStart, About, StartThread, InStart, Inside, Inv, TypeOK, Caller
  <2> QED
    BY <2>1
<1> USE <1>0
<1>1. UNCHANGED <<running, pool, server>> /\ Fine /\ StartThread(t, pc, next)
  BY DEF CallerStart, About
<1>2. pc \in InStart /\ next \in Inside \cup Returned
  BY <1>1 DEF StartThread, InStart, Inside, Returned
<1>3. /\ t \in Threads /\ thread[t].obj = "live" /\ (t \in pool \/ t \in log.race)
      /\ pc \in Inside => Held(t, pc)
  BY DEF CallerStart, About, Inv, TypeOK, Caller, Hands, Mutual
<1>4. log' \in Log /\ log'.race = log.race
  <2>1. thread[t] \in Thread /\ log \in Log
    BY <1>3 DEF Inv, TypeOK
  <2> QED
    BY <2>1 DEF CallerStart, Log, Thread
<1>5. /\ caller' \in [Callers -> Caller] /\ Hands'
      /\ \A d \in Callers \ {c} : caller'[d] = caller[d]
      /\ caller'[c].pc \in Inside => caller'[c].pc = next /\ caller'[c].hand = t
  <2>1. CASE next \in Returned
    <3>1. Release(c)
      BY <2>1 DEF CallerStart
    <3> QED
      BY <1>1, <1>4, <3>1, ReleaseHands
  <2>2. CASE next \notin Returned
    <3>1. caller' = [caller EXCEPT ![c].pc = next] /\ next \in Inside
      BY <1>2, <2>2 DEF CallerStart
    <3>2. /\ caller' \in [Callers -> Caller]
          /\ \A d \in Callers \ {c} : caller'[d] = caller[d]
          /\ caller'[c].pc = next /\ caller'[c].hand = t
      BY <3>1 DEF Inv, TypeOK, Caller, InStart
    <3>3. next \notin {"idle", "use"} /\ t # None
      BY <1>3, <3>1, Kinds DEF Inside
    <3> QED
      BY <1>1, <1>4, <3>2, <3>3 DEF Inv, Hands
  <2> QED
    BY <2>1, <2>2
<1>6. /\ thread' \in [Threads -> Thread] /\ Machine'
      /\ \A u \in Threads :
            /\ thread'[u].obj = thread[u].obj /\ thread'[u].runnable = thread[u].runnable
            /\ thread'[u].dangling = thread[u].dangling
            /\ thread'[u].pc = thread[u].pc \/ thread'[u].pc = "born"
            /\ u # t => thread'[u] = thread[u]
      /\ undefined' # undefined => undefined' = "twice" /\ t \notin pool
      /\ next \in Inside => Held(t, next)'
      /\ pc \notin Inside => thread[t].mutex # 0
  BY ONLY Inv, <1>1, <1>2, <1>3, <1>4, StartThreadKeeps
<1>7. TypeOK'
  BY <1>1, <1>4, <1>5, <1>6 DEF Inv, TypeOK
<1>8. Places'
  BY <1>1, <1>4, <1>6 DEF Inv, Places, Early
<1>9. NetTasks'
  BY <1>1, <1>6, Kinds DEF Inv, NetTasks, Serves
<1>10. UndefinedOnlyInRaces'
  BY <1>1, <1>3, <1>4, <1>6 DEF Inv, UndefinedOnlyInRaces, Fine
<1>11. Mutual'
  <2>1. /\ server.pc \in Inside => server.cur # t
        /\ \A d \in Callers \ {c} : caller[d].pc \in Inside => caller[d].hand # t
    BY <1>6 DEF Inv, Mutual, Held, Taken
  <2>2. server.pc \in Inside => server.cur \in Threads
    BY Kinds DEF Inv, TypeOK, Server, Places, InStart
  <2>3. server.pc \in Inside => Held(server.cur, server.pc)'
    BY <1>1, <1>6, <2>1, <2>2 DEF Inv, Mutual, Held, Taken
  <2>4. \A d \in Callers \ {c} : caller[d].pc \in Inside => caller[d].hand \in Threads
    BY DEF Inv, TypeOK, Caller, Hands, Inside
  <2>5. \A d \in Callers \ {c} : caller[d].pc \in Inside => Held(caller[d].hand, caller[d].pc)'
    <3> SUFFICES ASSUME NEW d \in Callers \ {c}, caller[d].pc \in Inside
                 PROVE  Held(caller[d].hand, caller[d].pc)'
      OBVIOUS
    <3>1. PICK u \in Threads, q \in Inside : u = caller[d].hand /\ q = caller[d].pc
      BY <2>4
    <3>2. Held(u, q) /\ u # t /\ caller'[d] = caller[d]
      BY <1>5, <2>1, <3>1 DEF Inv, Mutual
    <3>3. Held(u, q)'
      BY <1>1, <1>6, <3>2 DEF Held, Taken
    <3> QED
      BY <3>1, <3>2, <3>3 DEF Held, Taken
  <2> QED
    BY <1>1, <1>5, <1>6, <2>1, <2>3, <2>5 DEF Inv, Mutual
<1> QED
  BY <1>5, <1>6, <1>7, <1>8, <1>9, <1>10, <1>11 DEF Inv

LEMMA CallerResumeInv ==
  ASSUME Inv, NEW c \in Callers, CallerResume(c)
  PROVE  Inv'
<1> DEFINE t == caller[c].hand
<1>1. t \in Threads
  BY DEF CallerResume, About, Inv, TypeOK, Caller, Hands
<1>2. /\ UNCHANGED <<running, pool, server, log, undefined>> /\ Release(c)
      /\ thread' = [thread EXCEPT ![t].sem = @ + 1]
  BY DEF CallerResume
<1> HIDE DEF t
<1>3. /\ thread' \in [Threads -> Thread]
      /\ \A u \in Threads :
            /\ thread'[u].obj = thread[u].obj /\ thread'[u].pc = thread[u].pc
            /\ thread'[u].runnable = thread[u].runnable
            /\ thread'[u].dangling = thread[u].dangling
            /\ thread'[u].launched = thread[u].launched
            /\ thread'[u].mutex = thread[u].mutex
            /\ thread'[u].working = thread[u].working
  BY <1>1, <1>2 DEF Inv, TypeOK, Thread
<1>4. TypeOK' /\ Hands'
  BY <1>2, <1>3, ReleaseHands DEF Inv, TypeOK
<1>5. Places'
  BY <1>2, <1>3 DEF Inv, Places, Early
<1>6. Machine'
  BY <1>2, <1>3 DEF Inv, Machine
<1>7. NetTasks' /\ UndefinedOnlyInRaces'
  BY <1>2, <1>3, Kinds DEF Inv, NetTasks, Serves, UndefinedOnlyInRaces
<1>8. Mutual'
  BY <1>2, <1>3, ReleaseHands, MutualKept DEF Taken
<1> QED
  BY <1>4, <1>5, <1>6, <1>7, <1>8 DEF Inv

LEMMA CallerUseInv ==
  ASSUME Inv, NEW c \in Callers, CallerUse(c)
  PROVE  Inv'
<1>1. UNCHANGED <<thread, running, pool, server, log, undefined>> /\ Release(c)
  BY DEF CallerUse
<1>2. TypeOK' /\ Hands'
  BY <1>1, ReleaseHands DEF Inv, TypeOK
<1>3. Places' /\ Machine' /\ NetTasks' /\ UndefinedOnlyInRaces'
  BY <1>1 DEF Inv, Places, Early, Machine, NetTasks, Serves, UndefinedOnlyInRaces
<1>4. Mutual'
  BY <1>1, ReleaseHands, MutualKept DEF Taken
<1> QED
  BY <1>2, <1>3, <1>4 DEF Inv

(* What is in the pool is there, and a network thread of the pool has its  *)
(* task: a caller finds otherwise only after the pool was cleared.         *)
LEMMA CallerFailsInv ==
  ASSUME Inv, NEW c \in Callers, CallerFails(c)
  PROVE  Inv'
<1>1. UNCHANGED <<thread, running, pool, server, caller, log>> /\ undefined' = "deleted"
  BY DEF CallerFails
<1>2. log.race # {}
  <2> SUFFICES ASSUME caller[c].hand \in pool PROVE FALSE
    BY DEF CallerFails, Inv, Hands
  <2>1. caller[c].hand \in Threads /\ thread[caller[c].hand].obj = "live"
    BY DEF Inv, TypeOK, Caller, Places
  <2>2. caller[c].pc = "use" => /\ caller[c].hand \in Prepared /\ ~Idle(caller[c].hand)
                                /\ ~thread[caller[c].hand].dangling
    BY Kinds DEF Inv, Hands, NetTasks, Serves, Idle
  <2> QED
    BY <2>1, <2>2 DEF CallerFails
<1>3. TypeOK' /\ Places' /\ Machine' /\ NetTasks' /\ Hands'
  BY <1>1 DEF Inv, TypeOK, Places, Early, Machine, NetTasks, Serves, Hands
<1>4. UndefinedOnlyInRaces'
  BY <1>1, <1>2 DEF UndefinedOnlyInRaces
<1>5. Mutual'
  BY <1>1 DEF Inv, Mutual, Held, Taken
<1> QED
  BY <1>3, <1>4, <1>5 DEF Inv

-----------------------------------------------------------------------------
LEMMA NextInv == Inv /\ [Next]_vars => Inv'
<1> SUFFICES ASSUME Inv, [Next]_vars PROVE Inv'
  OBVIOUS
<1>1. CASE UNCHANGED vars
  BY <1>1 DEF vars, Inv, TypeOK, Places, Early, Machine, Mutual, Held, Taken, NetTasks, Serves,
              Hands, UndefinedOnlyInRaces
<1>2. CASE StartStep \/ Terminate
  BY <1>2, StartAllInv, StartNextInv, StartOneInv, StartedInv DEF StartStep
<1>3. CASE StopStep
  BY <1>3, StopAllInv, StopNextInv, TestTaskInv, StopTaskInv, ResumeStoppedInv, JoinInv,
     DeleteInv
     DEF StopStep
<1>4. ASSUME NEW t \in Threads, ThreadStep(t)
      PROVE  Inv'
  BY <1>4, BornInv, CallTaskInv, OwnInv, ThreadFailsInv DEF ThreadStep
<1>5. ASSUME NEW c \in Callers,
             \/ CallerStep(c)
             \/ \E t \in Threads : Borrow(c, t) \/ \E k \in OneShots : Execute(c, k, t)
      PROVE  Inv'
  BY <1>5, CallerResumeInv, CallerUseInv, CallerFailsInv, CallerStartInv, BorrowInv, ExecuteInv
     DEF CallerStep
<1> QED
  BY <1>1, <1>2, <1>3, <1>4, <1>5 DEF Next

(* The inductive invariant holds in every state. *)
THEOREM Invariance == Spec => []Inv
<1> QED
  BY InitInv, NextInv, PTL DEF Spec

(* The variables keep their types, and m_mutex is a binary semaphore. *)
THEOREM TypeCorrect == Spec => []TypeOK
<1> QED
  BY Invariance, PTL DEF Inv

(* A deleted Thread is used, or a Thread launched twice, only if a caller  *)
(* had a Thread in hand when StopAllThreads cleared the pool, and          *)
(* StopAndWait never stops the deleted task of a network thread.           *)
THEOREM DefinedUnlessRaced == Spec => []UndefinedOnlyInRaces
<1> QED
  BY Invariance, PTL DEF Inv

(* When StopAllThreads has returned, every Thread it had to stop is        *)
(* deleted, and its thread has ended or was never launched, unless a       *)
(* caller had that Thread in hand when the pool was cleared.               *)
THEOREM PoolIsGone == Spec => []NothingRunsAfterStop
<1>1. Inv => NothingRunsAfterStop
  <2> SUFFICES ASSUME Inv, server.pc = "done", NEW t \in Threads \ pool
               PROVE  /\ thread[t].obj # "live"
                      /\ thread[t].pc \in {"none", "ended"} \/ t \in log.race
    BY DEF NothingRunsAfterStop
  <2>1. thread[t].obj # "live"
    BY Kinds DEF Inv, Places, InStart, Inside
  <2> QED
    BY <2>1 DEF Inv, Machine
<1> QED
  BY <1>1, Invariance, PTL
=============================================================================
