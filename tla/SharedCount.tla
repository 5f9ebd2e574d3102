---------------------------- MODULE SharedCount ----------------------------
(***************************************************************************)
(* The reference counter of src/base/SmartPtr: one object, its CounterBase *)
(* and the SharedPtr and WeakPtr handles that any threads keep to it.      *)
(*                                                                         *)
(* Each access to m_shareCnt and m_weakCnt is a step.  A handle itself is  *)
(* not safe to share: who reads one relies on nobody else changing it, so  *)
(* one that a copy is being made from is not dropped meanwhile.            *)
(***************************************************************************)
EXTENDS Integers, FiniteSets

CONSTANT Handles  \* the handles that exist, and what works on each

ASSUME HandlesAssumption == IsFiniteSet(Handles) /\ Handles # {}

VARIABLES kind,   \* what each handle is, or the step it is at:
                  \*   none, share, weak
                  \*   read, swap             in AddShareCopy
                  \*   dispose, member, last  in DecShareCnt, the count being 0
          from,   \* the handle that AddShareCopy was called through, while it runs
          old,    \* oldCnt of AddShareCopy, while it is compared
          share,  \* m_shareCnt
          weak,   \* m_weakCnt
          self,   \* the object's own m_weak of EnableShareMe is set
          alive,  \* the object was not deleted
          freed   \* Destroy was called

vars == <<kind, from, old, share, weak, self, alive, freed>>

Owners    == {h \in Handles : kind[h] = "share"}
Watchers  == {h \in Handles : kind[h] = "weak"}
Promoting == {h \in Handles : kind[h] \in {"read", "swap"}}
Releasing == {h \in Handles : kind[h] \in {"dispose", "member", "last"}}

(* SharedPtr of a pointer: a new counter, both counts 1; InitShareMe, for *)
(* an object that derives from EnableShareMe, sets its m_weak.             *)
Init ==
    /\ \E h \in Handles :
          /\ kind = [g \in Handles |-> IF g = h THEN "share" ELSE "none"]
    /\ from = [g \in Handles |-> g]
    /\ old = [g \in Handles |-> 0]
    /\ self \in BOOLEAN
    /\ share = 1 /\ weak = IF self THEN 2 ELSE 1
    /\ alive = TRUE /\ freed = FALSE

-----------------------------------------------------------------------------
(* SharedPtr(const SharedPtr&): AddShareCnt. *)
Copy(h, o) ==
    /\ kind[h] = "none" /\ kind[o] = "share"
    /\ share' = share + 1
    /\ kind' = [kind EXCEPT ![h] = "share"]
    /\ UNCHANGED <<from, old, weak, self, alive, freed>>

(* WeakPtr of a SharedPtr or of a WeakPtr: AddWeakCnt. *)
Watch(h, o) ==
    /\ kind[h] = "none" /\ kind[o] \in {"share", "weak"}
    /\ weak' = weak + 1
    /\ kind' = [kind EXCEPT ![h] = "weak"]
    /\ UNCHANGED <<from, old, share, self, alive, freed>>

(* Lock of a WeakPtr, or ShareMe of an object that somebody owns: the      *)
(* constructor of a SharedPtr from a WeakPtr calls AddShareCopy.           *)
Promote(h, o) ==
    /\ kind[h] = "none"
    /\ kind[o] = "weak" \/ (kind[o] = "share" /\ self)
    /\ kind' = [kind EXCEPT ![h] = "read"]
    /\ from' = [from EXCEPT ![h] = o]
    /\ UNCHANGED <<old, share, weak, self, alive, freed>>

Read(h) ==
    /\ kind[h] = "read"
    /\ old' = [old EXCEPT ![h] = share]
    /\ \/ /\ share = 0
          /\ kind' = [kind EXCEPT ![h] = "none"] /\ from' = [from EXCEPT ![h] = h]
       \/ /\ share # 0
          /\ kind' = [kind EXCEPT ![h] = "swap"] /\ from' = from
    /\ UNCHANGED <<share, weak, self, alive, freed>>

(* Mutant of Swap: the count is added to whatever it is by now. *)
SwapAdds(h) ==
    /\ kind[h] = "swap"
    /\ share' = share + 1 /\ kind' = [kind EXCEPT ![h] = "share"]
    /\ from' = [from EXCEPT ![h] = h] /\ old' = [old EXCEPT ![h] = 0]
    /\ UNCHANGED <<weak, self, alive, freed>>

(* Mutant of Swap: it is tried again without reading the count again. *)
SwapNotReadAgain(h) ==
    /\ kind[h] = "swap" /\ share = old[h]
    /\ share' = share + 1 /\ kind' = [kind EXCEPT ![h] = "share"]
    /\ from' = [from EXCEPT ![h] = h] /\ old' = [old EXCEPT ![h] = 0]
    /\ UNCHANGED <<weak, self, alive, freed>>

(* The compare-and-swap of the count, again from the start if it fails. *)
Swap(h) ==
    /\ kind[h] = "swap"
    /\ \/ /\ share = old[h]
          /\ share' = share + 1 /\ kind' = [kind EXCEPT ![h] = "share"]
          /\ from' = [from EXCEPT ![h] = h]
       \/ /\ share # old[h]
          /\ kind' = [kind EXCEPT ![h] = "read"] /\ UNCHANGED <<share, from>>
    /\ old' = [old EXCEPT ![h] = 0]
    /\ UNCHANGED <<weak, self, alive, freed>>

-----------------------------------------------------------------------------
InUse(h) == \E g \in Promoting : from[g] = h

(* DecWeakCnt: the one that takes the last count away frees the counter. *)
DecWeakCnt ==
    /\ weak' = weak - 1
    /\ freed' = (freed \/ weak = 1)

(* Mutant of Drop: the count is read, and read again to see who was last.  *)
(* The other handle's release in between makes both see 0.                 *)
DropReadsAgain(h) ==
    /\ kind[h] = "share" /\ ~InUse(h)
    /\ share' = share - 1
    /\ \E seen \in {share, share - 1} :
          kind' = [kind EXCEPT ![h] = IF seen <= 1 THEN "dispose" ELSE "none"]
    /\ UNCHANGED <<from, old, weak, self, alive, freed>>

(* ~SharedPtr, Reset and the first half of an assignment: DecShareCnt. *)
Drop(h) ==
    /\ kind[h] = "share" /\ ~InUse(h)
    /\ share' = share - 1
    /\ kind' = [kind EXCEPT ![h] = IF share = 1 THEN "dispose" ELSE "none"]
    /\ UNCHANGED <<from, old, weak, self, alive, freed>>

(* ~WeakPtr, Reset and the first half of an assignment. *)
Unwatch(h) ==
    /\ kind[h] = "weak" /\ ~InUse(h)
    /\ DecWeakCnt
    /\ kind' = [kind EXCEPT ![h] = "none"]
    /\ UNCHANGED <<from, old, share, self, alive>>

(* Dispose: the object's destructor runs, and its members' after it. *)
Dispose(h) ==
    /\ kind[h] = "dispose"
    /\ alive' = FALSE
    /\ kind' = [kind EXCEPT ![h] = "member"]
    /\ UNCHANGED <<from, old, share, weak, self, freed>>

(* The member m_weak of the object goes with it. *)
DropMember(h) ==
    /\ kind[h] = "member"
    /\ IF self THEN DecWeakCnt ELSE UNCHANGED <<weak, freed>>
    /\ self' = FALSE
    /\ kind' = [kind EXCEPT ![h] = "last"]
    /\ UNCHANGED <<from, old, share, alive>>

(* Mutant of DropLast: who disposed of the object frees the counter. *)
DropLastFrees(h) ==
    /\ kind[h] = "last"
    /\ weak' = weak - 1 /\ freed' = TRUE
    /\ kind' = [kind EXCEPT ![h] = "none"]
    /\ UNCHANGED <<from, old, share, self, alive>>

(* The weak count that the owners had in common. *)
DropLast(h) ==
    /\ kind[h] = "last"
    /\ DecWeakCnt
    /\ kind' = [kind EXCEPT ![h] = "none"]
    /\ UNCHANGED <<from, old, share, self, alive>>

-----------------------------------------------------------------------------
(* What a thread does on its own once it is in a call. *)
Proceed(h) == Read(h) \/ Swap(h) \/ Dispose(h) \/ DropMember(h) \/ DropLast(h)

Call(h) ==
    \/ Drop(h) \/ Unwatch(h)
    \/ \E o \in Handles : Copy(h, o) \/ Watch(h, o) \/ Promote(h, o)

Next == \E h \in Handles : Call(h) \/ Proceed(h)

(* A thread that entered a call goes on with it; nobody need call. *)
Spec == Init /\ [][Next]_vars /\ \A h \in Handles : WF_vars(Proceed(h))

-----------------------------------------------------------------------------
(* The variables keep their types. *)
TypeOK ==
    /\ kind \in [Handles -> {"none", "share", "weak", "read", "swap",
                             "dispose", "member", "last"}]
    /\ from \in [Handles -> Handles]
    /\ old \in [Handles -> Nat]
    /\ share \in Nat /\ weak \in Nat
    /\ self \in BOOLEAN /\ alive \in BOOLEAN /\ freed \in BOOLEAN

One(b) == IF b THEN 1 ELSE 0

(* The counts are the numbers of handles: the share count that of the      *)
(* SharedPtrs, the weak count that of the WeakPtrs, the object's own, and  *)
(* one that the owners have in common until the last has disposed.         *)
CountsTell ==
    /\ share = Cardinality(Owners)
    /\ weak = Cardinality(Watchers) + One(self) + One(Owners \cup Releasing # {})

(* An object that somebody owns was not deleted, and one is only being     *)
(* deleted by one thread, once: whoever is about to finds it alive.        *)
OwnedIsAlive ==
    /\ Owners # {} => alive
    /\ \A h \in Handles : kind[h] = "dispose" => alive
    /\ \A g, h \in Releasing : g = h

(* Whoever may still touch the counter finds it there: handles, calls in   *)
(* progress, and the object's own m_weak.                                  *)
CounterOutlivesHandles ==
    freed => self = FALSE /\ \A h \in Handles : kind[h] = "none"

(* When the last handle is gone nothing is left over: neither the object   *)
(* nor the counter leaks.                                                  *)
NothingLeaks == (\A h \in Handles : kind[h] = "none") => ~alive /\ freed

(* The object and its counter live exactly as long as they must. *)
Lifetimes == OwnedIsAlive /\ CounterOutlivesHandles /\ NothingLeaks

(* An object whose share count reached 0 is never owned again, whatever    *)
(* promotions were under way when it did.                                  *)
NeverRevived == [][share = 0 => share' = 0]_vars

(* A promotion goes on for ever only if the share count changes for ever:  *)
(* the loop of AddShareCopy waits for nobody who stands still.             *)
PromotionEnds ==
    \A h \in Handles :
        (h \in Promoting ~> h \notin Promoting) \/ []<><<share' # share>>_vars

(* The counter implements the ownership it is there for. *)
Abstract == INSTANCE Ownership WITH owners <- Owners, alive <- alive

AbstractSpec == Abstract!Spec
=============================================================================
