----------------------------- MODULE TimerWheel -----------------------------
(***************************************************************************)
(* TimerManager of src/base/Timer.cc: five lists of slots, the first with  *)
(* a slot per millisecond, each other with wider slots whose timers move   *)
(* on to a finer list when their turn comes.  One thread calls it; the     *)
(* callbacks of timers add and kill other timers while a slot is being     *)
(* processed.                                                              *)
(*                                                                         *)
(* A slot is the set of the timers that are linked into it: the order in   *)
(* which a slot's timers fire is left open.  AddTimer on a timer that is   *)
(* linked already is a misuse the code does not detect, and is left out.   *)
(***************************************************************************)
EXTENDS Integers, FiniteSets

CONSTANTS LIST1_SIZE, \* slots of the first list: 256
          LIST_SIZE,  \* slots of each other list: 64
          Timers,     \* the Timer objects
          Choices,    \* the <<interval, count>> each may be constructed with
          MaxLag,     \* bound: how far the clock runs ahead of UpdateTimers
          Start,      \* the millisecond the manager is constructed in
          LastCall,   \* bound: the last millisecond the application calls in
          Horizon,    \* bound: the last millisecond of the clock
          None

Levels == 1 .. 5

(* The milliseconds a slot of a list is wide; the slots of a list; how far *)
(* it reaches.                                                             *)
Unit(k) == LET u == LIST1_SIZE
               s == LIST_SIZE
           IN  <<1, u, u * s, u * s * s, u * s * s * s>>[k]
Size(k) == IF k = 1 THEN LIST1_SIZE ELSE LIST_SIZE
Span(k) == Unit(k) * Size(k)
Slots   == UNION {{k} \X (0 .. Size(k) - 1) : k \in Levels}

(* 2 ^ 32 and 2 ^ 31: the uint32_t diff is as wide as the five lists are. *)
Modulus == Span(5)
Half    == Modulus \div 2

ASSUME TimerWheelAssumption ==
    /\ LIST1_SIZE \in Nat /\ LIST1_SIZE > 1
    /\ LIST_SIZE \in Nat /\ LIST_SIZE > 1
    /\ Choices \in [Timers -> SUBSET (Nat \X Int)]
    /\ MaxLag \in Nat /\ Start \in Nat /\ LastCall \in Nat /\ Horizon \in Nat
    /\ None \notin Slots \cup Timers

VARIABLES clock,      \* what gettimeofday would say
          checkTime,  \* m_thisCheckTime
          now,        \* the local of UpdateTimers
          pc,         \* where UpdateTimers is
          current,    \* the timer whose callback runs
          where,      \* the slot each timer is linked into
          trigger,    \* m_nextTriggerTime
          interval,   \* m_interval
          count,      \* m_count
          added       \* history: checkTime at AddTimer; -1 before the first, 0 unlinked

timer == <<trigger, interval, count>>
timerVars == <<clock, checkTime, now, pc, current, where, timer, added>>

-----------------------------------------------------------------------------
(* Mutant of Diff: the difference keeps its sign. *)
DiffSigned(t) == trigger[t] - checkTime

(* The uint32_t diff of AddTimer. *)
Diff(t) == (trigger[t] - checkTime) % Modulus

(* Mutant of LevelOf: each list takes what is just beyond its range. *)
LevelOfOffByOne(d) ==
    CHOOSE k \in Levels : (k = 5 \/ d <= Span(k)) /\ \A j \in 1 .. k - 1 : d > Span(j)

(* The first list that reaches d milliseconds ahead, or the last. *)
LevelOf(d) ==
    CHOOSE k \in Levels : (k = 5 \/ d < Span(k)) /\ \A j \in 1 .. k - 1 : d >= Span(j)

(* Mutant of SlotAt: the index is not masked to the list's size. *)
SlotAtUnmasked(k, x) == <<k, x \div Unit(k)>>

(* The slot of list k in which the time x lies: _Index for list 2 and up.  *)
SlotAt(k, x) == <<k, (x \div Unit(k)) % Size(k)>>

(* Mutant of Place: what is overdue goes into the slot being processed. *)
PlaceOverdueNow(t) ==
    IF Diff(t) >= Half
    THEN SlotAt(1, checkTime - 1)
    ELSE SlotAt(LevelOf(Diff(t)), trigger[t])

(* AddTimer: the slot it links the timer into.  A difference that is       *)
(* negative as an int32_t means overdue.                                   *)
Place(t) ==
    IF Diff(t) >= Half
    THEN SlotAt(1, checkTime)
    ELSE SlotAt(LevelOf(Diff(t)), trigger[t])

Linked(s) == {t \in Timers : where[t] = s}

(* Every timer is constructed anew before its first AddTimer, so what the  *)
(* members hold until then is of no consequence.                           *)
TimerInit ==
    /\ clock = Start /\ checkTime = Start /\ now = 0
    /\ pc = "idle" /\ current = None
    /\ where = [t \in Timers |-> None]
    /\ trigger = [t \in Timers |-> 0] /\ interval = [t \in Timers |-> 0]
    /\ count = [t \in Timers |-> 0] /\ added = [t \in Timers |-> -1]

-----------------------------------------------------------------------------
(* The application, between calls of UpdateTimers and in callbacks. *)

MayCall(t) == pc \in {"idle", "callback"} /\ t # current /\ clock <= LastCall

(* The constructor takes the time of the clock; AddTimer follows. *)
NewTimer(t) ==
    /\ MayCall(t) /\ where[t] = None
    /\ \E c \in Choices[t] :
          /\ trigger' = [trigger EXCEPT ![t] = clock + c[1]]
          /\ interval' = [interval EXCEPT ![t] = c[1]]
          /\ count' = [count EXCEPT ![t] = c[2]]
    /\ UNCHANGED <<clock, checkTime, now, pc, current>>
    /\ where' = [where EXCEPT ![t] = Place(t)']
    /\ added' = [added EXCEPT ![t] = checkTime]

(* AddTimer of a timer that was linked before: its time may have passed. *)
AddAgain(t) ==
    /\ MayCall(t) /\ where[t] = None /\ added[t] >= 0
    /\ where' = [where EXCEPT ![t] = Place(t)]
    /\ added' = [added EXCEPT ![t] = checkTime]
    /\ UNCHANGED <<clock, checkTime, now, pc, current, timer>>

KillTimer(t) ==
    /\ MayCall(t) /\ where[t] # None
    /\ where' = [where EXCEPT ![t] = None] /\ added' = [added EXCEPT ![t] = 0]
    /\ UNCHANGED <<clock, checkTime, now, pc, current, timer>>

(* The clock goes on, and may be set back. *)
Clock ==
    /\ pc = "idle"
    /\ clock' \in {clock - 1, clock + 1}
    /\ clock' \in 0 .. Horizon /\ clock' - checkTime \in -1 .. MaxLag
    /\ UNCHANGED <<checkTime, now, pc, current, where, timer, added>>

-----------------------------------------------------------------------------
(* UpdateTimers. *)

Update ==
    /\ pc = "idle" /\ checkTime <= clock
    /\ now' = clock
    /\ pc' = "tick"
    /\ UNCHANGED <<clock, checkTime, current, where, timer, added>>

(* The lists whose turn has timers; _Cacsade is called for one after the   *)
(* other until it finds some, once in a turn of the first list.            *)
Due == {k \in 2 .. 5 : Linked(SlotAt(k, checkTime)) # {}}

(* The slot _Cacsade empties: one at most. *)
Cascading ==
    IF checkTime % Size(1) = 0 /\ Due # {}
    THEN SlotAt(CHOOSE k \in Due : \A j \in Due : k <= j, checkTime)
    ELSE None

(* A timer that AddTimer links into the slot that is being emptied is      *)
(* taken out of it and put back for ever.                                  *)
Endless == \E t \in Linked(Cascading) : Cascading # None /\ Place(t) = Cascading

Tick ==
    /\ pc = "tick" /\ checkTime <= now
    /\ IF Endless
       THEN pc' = "hung" /\ UNCHANGED <<checkTime, where>>
       ELSE /\ where' = [t \in Timers |-> IF where[t] = Cascading /\ where[t] # None
                                          THEN Place(t) ELSE where[t]]
            /\ checkTime' = checkTime + 1
            /\ pc' = "fire"
    /\ UNCHANGED <<clock, now, current, timer, added>>

TickDone ==
    /\ pc = "tick" /\ checkTime > now
    /\ pc' = "idle" /\ now' = 0
    /\ UNCHANGED <<clock, checkTime, current, where, timer, added>>

(* The millisecond whose slot of the first list is processed. *)
Millisecond == checkTime - 1

(* OnTimer: the timer is unlinked, and moved on by its interval before its *)
(* callback runs.                                                          *)
Fire(t) ==
    /\ pc = "fire" /\ where[t] = SlotAt(1, Millisecond)
    /\ count[t] # 0
    /\ where' = [where EXCEPT ![t] = None]
    /\ trigger' = [trigger EXCEPT ![t] = @ + interval[t]]
    /\ count' = [count EXCEPT ![t] = IF @ > 0 THEN @ - 1 ELSE @]
    /\ pc' = "callback" /\ current' = t
    /\ UNCHANGED <<clock, checkTime, now, interval, added>>

(* OnTimer of a timer whose count is used up: -- m_count takes it to -1,   *)
(* and the timer stays unlinked.                                           *)
Expire(t) ==
    /\ pc = "fire" /\ where[t] = SlotAt(1, Millisecond)
    /\ count[t] = 0
    /\ where' = [where EXCEPT ![t] = None]
    /\ count' = [count EXCEPT ![t] = -1] /\ added' = [added EXCEPT ![t] = 0]
    /\ UNCHANGED <<clock, checkTime, now, pc, current, trigger, interval>>

(* _OnTimer returns true, and the timer is added again, or false. *)
Return(again) ==
    /\ pc = "callback"
    /\ where' = [where EXCEPT ![current] = IF again THEN Place(current) ELSE None]
    /\ added' = [added EXCEPT ![current] = IF again THEN checkTime ELSE 0]
    /\ pc' = "fire" /\ current' = None
    /\ UNCHANGED <<clock, checkTime, now, timer>>

SlotDone ==
    /\ pc = "fire" /\ Linked(SlotAt(1, Millisecond)) = {}
    /\ pc' = "tick"
    /\ UNCHANGED <<clock, checkTime, now, current, where, timer, added>>

-----------------------------------------------------------------------------
Application == \E t \in Timers : NewTimer(t) \/ AddAgain(t) \/ KillTimer(t)

UpdateStep ==
    \/ Tick \/ TickDone \/ SlotDone
    \/ \E t \in Timers : Fire(t) \/ Expire(t)
    \/ \E again \in BOOLEAN : Return(again)

TimerNext == Application \/ Clock \/ Update \/ UpdateStep

(* UpdateTimers goes on once it was called, and callbacks return. *)
TimerSpec == TimerInit /\ [][TimerNext]_timerVars /\ WF_timerVars(UpdateStep)

-----------------------------------------------------------------------------
(* The variables keep their types. *)
TimerTypeOK ==
    /\ clock \in Nat /\ checkTime \in Nat /\ now \in Nat
    /\ pc \in {"idle", "tick", "fire", "callback", "hung"}
    /\ current \in Timers \cup {None} /\ (current # None <=> pc = "callback")
    /\ where \in [Timers -> Slots \cup {None}]
    /\ trigger \in [Timers -> Nat] /\ interval \in [Timers -> Nat]
    /\ count \in [Timers -> Int] /\ added \in [Timers -> Nat \cup {-1}]

Fires(t) == Fire(t) \/ Expire(t)

(* How far ahead a timer's time was when it was added. *)
Ahead(t) == trigger[t] - added[t]

(* A timer never fires before its time, with two exceptions the code has:  *)
(* one that is due exactly one round (256 ms) after the slot in whose      *)
(* processing it is added fires at once, and so may one of 2^31 ms and     *)
(* more, whose difference is negative as an int32_t.                       *)
NeverEarly ==
    [][\A t \in Timers : Fires(t) /\ trigger[t] > Millisecond =>
          \/ trigger[t] = Millisecond + Size(1) /\ added[t] = checkTime
          \/ Ahead(t) >= Half]_timerVars

(* A timer less than 16 s (the first two lists) ahead is never late: it    *)
(* fires in the very millisecond, whatever else is linked, and if it was   *)
(* overdue when it was added, in the next one to be processed.  One that   *)
(* was overdue by more than 2^31 ms looks as if it were far ahead.         *)
NearOnTime ==
    [][\A t \in Timers : Fires(t) /\ trigger[t] < Millisecond =>
          \/ Ahead(t) < 0 /\ added[t] = Millisecond
          \/ Ahead(t) >= Span(2) \/ Ahead(t) < -Half]_timerVars

(* _Cacsade runs for ever only on a timer in the slot of list 3 or 4 whose *)
(* turn it is, that is due nearly a full turn of that list (17 minutes, or *)
(* 18 hours) later; on no other timer, and in no other list.               *)
HangsOnFullTurn ==
    pc = "hung" =>
        \E t \in Timers, k \in {3, 4} :
            /\ where[t] = SlotAt(k, checkTime)
            /\ Diff(t) > Span(k) - Unit(k) /\ Diff(t) < Span(k)

(* A timer one round ahead, which goes into the slot being processed. *)
RoundAhead ==
    pc = "fire" /\ \E t \in Linked(SlotAt(1, Millisecond)) :
                      trigger[t] = Millisecond + Size(1)

(* UpdateTimers returns, whatever the callbacks add and kill, unless       *)
(* _Cacsade runs for ever (HangsOnFullTurn says on what), or callbacks     *)
(* keep adding timers one round ahead.                                     *)
UpdateEnds == (pc = "tick" ~> pc \in {"idle", "hung"}) \/ []<>RoundAhead
=============================================================================
