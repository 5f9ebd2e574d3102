---------------------------- MODULE UtilityProofs ----------------------------
(***************************************************************************)
(* Proofs about the two utilities that do not depend on the rest: shared   *)
(* pointers (SharedCount) and timers (TimerWheel).  The two share a module *)
(* of proofs and nothing else.                                             *)
(*                                                                         *)
(* SharedCount, for any number of handles: the safety properties the model *)
(* checker verifies for five, and that the counter implements Ownership.   *)
(* TimerWheel, for any sizes of the lists, any timers and any intervals:   *)
(* when timers fire, and on what an update may not return.                 *)
(***************************************************************************)
EXTENDS SharedCount, TimerWheel, FiniteSetTheorems, TLAPS

-----------------------------------------------------------------------------
(* SharedCount.                                                            *)

(* As long as somebody owns the object it is alive, and nobody releases    *)
(* it; when nobody does one thread does, step by step.                     *)
Life ==
    /\ Owners # {} => alive /\ Releasing = {}
    /\ \A g, h \in Releasing : g = h
    /\ \A h \in Handles : kind[h] = "dispose" => alive
    /\ \A h \in Handles : kind[h] \in {"member", "last"} => ~alive
    /\ \A h \in Handles : kind[h] = "last" => ~self
    /\ alive \/ self => Owners \cup Releasing # {}

(* A call in progress has a handle to rely on. *)
Calls ==
    \A h \in Promoting :
        /\ from[h] \in Owners \cup Watchers
        /\ kind[h] = "swap" => old[h] > 0

FreedAtZero == freed <=> weak = 0

(* The inductive invariant. *)
Inv == TypeOK /\ CountsTell /\ Life /\ Calls /\ FreedAtZero

-----------------------------------------------------------------------------
(* How the size of a set of handles changes. *)
LEMMA SetSize ==
  ASSUME NEW S \in SUBSET Handles
  PROVE  /\ Cardinality(S) \in Nat
         /\ Cardinality(S) = 0 <=> S = {}
         /\ \A h \in Handles \ S : Cardinality(S \cup {h}) = Cardinality(S) + 1
         /\ \A h \in S : Cardinality(S \ {h}) = Cardinality(S) - 1
<1>1. IsFiniteSet(S)
  BY HandlesAssumption, FS_Subset
<1>2. \A h \in Handles \ S : Cardinality(S \cup {h}) = Cardinality(S) + 1
  BY <1>1, FS_AddElement
<1>3. \A h \in S : Cardinality(S \ {h}) = Cardinality(S) - 1
  BY <1>1, FS_RemoveElement
<1> QED
  BY <1>1, <1>2, <1>3, FS_CardinalityType, FS_EmptySet

LEMMA Sizes ==
  /\ Cardinality(Owners) \in Nat /\ Cardinality(Watchers) \in Nat
  /\ Cardinality(Owners) = 0 <=> Owners = {}
  /\ Cardinality(Watchers) = 0 <=> Watchers = {}
  BY SetSize, Owners \in SUBSET Handles, Watchers \in SUBSET Handles
     DEF Owners, Watchers

LEMMA InitInv == Init => Inv
<1> SUFFICES ASSUME Init PROVE Inv
  OBVIOUS
<1>1. PICK h \in Handles : kind = [g \in Handles |-> IF g = h THEN "share" ELSE "none"]
  BY DEF Init
<1>2. Owners = {h} /\ Watchers = {} /\ Releasing = {} /\ Promoting = {}
  BY <1>1 DEF Owners, Watchers, Releasing, Promoting
<1>3. TypeOK
  BY <1>1 DEF Init, TypeOK
<1>4. Cardinality(Owners) = 1 /\ Cardinality(Watchers) = 0
  BY <1>2, FS_Singleton, FS_EmptySet
<1>5. CountsTell
  BY <1>2, <1>4 DEF CountsTell, One, Init
<1>6. Life
  BY <1>1, <1>2 DEF Life, Init
<1>7. Calls /\ FreedAtZero
  BY <1>2 DEF Calls, FreedAtZero, Init
<1> QED
  BY <1>3, <1>5, <1>6, <1>7 DEF Inv

-----------------------------------------------------------------------------
(* One lemma for each action: it preserves the invariant. *)

LEMMA CopyInv ==
  ASSUME Inv, NEW h \in Handles, NEW o \in Handles, Copy(h, o)
  PROVE  Inv'
<1> USE DEF Inv, Copy
<1>1. TypeOK'
  BY DEF TypeOK
<1>2. /\ Owners' = Owners \cup {h} /\ h \notin Owners /\ o \in Owners
      /\ Watchers' = Watchers /\ Releasing' = Releasing /\ Promoting' = Promoting
  BY DEF TypeOK, Owners, Watchers, Releasing, Promoting
<1>3. Cardinality(Owners') = Cardinality(Owners) + 1
  BY <1>2, SetSize, Owners \in SUBSET Handles DEF Owners
<1>4. CountsTell'
  BY <1>2, <1>3 DEF CountsTell
<1>5. Life'
  BY <1>2 DEF Life, TypeOK, Owners, Releasing
<1>6. Calls'
  BY <1>2 DEF Calls, TypeOK, Promoting
<1>7. FreedAtZero'
  BY DEF FreedAtZero
<1> QED
  BY <1>1, <1>5, <1>6, <1>7, <1>4

LEMMA WatchInv ==
  ASSUME Inv, NEW h \in Handles, NEW o \in Handles, Watch(h, o)
  PROVE  Inv'
<1> USE DEF Inv, Watch
<1>1. TypeOK'
  BY DEF TypeOK
<1>2. /\ Watchers' = Watchers \cup {h} /\ h \notin Watchers
      /\ o \in Owners \cup Watchers
      /\ Owners' = Owners /\ Releasing' = Releasing /\ Promoting' = Promoting
  BY DEF TypeOK, Owners, Watchers, Releasing, Promoting
<1>3. /\ Cardinality(Watchers') = Cardinality(Watchers) + 1
      /\ Cardinality(Watchers) \in Nat
  BY <1>2, SetSize, Watchers \in SUBSET Handles DEF Watchers
<1>4. CountsTell'
  BY <1>2, <1>3, Sizes DEF CountsTell, One, TypeOK
<1>5. Life'
  BY <1>2 DEF Life, TypeOK, Owners, Releasing
<1>6. Calls'
  BY <1>2 DEF Calls, TypeOK, Promoting
<1>7. weak > 0
  BY <1>2, Sizes DEF CountsTell, One, TypeOK
<1>8. FreedAtZero'
  BY <1>7 DEF FreedAtZero, TypeOK
<1> QED
  BY <1>1, <1>5, <1>6, <1>8, <1>4

LEMMA PromoteInv ==
  ASSUME Inv, NEW h \in Handles, NEW o \in Handles, Promote(h, o)
  PROVE  Inv'
<1> USE DEF Inv, Promote
<1>1. TypeOK'
  BY DEF TypeOK
<1>2. /\ Owners' = Owners /\ Watchers' = Watchers /\ Releasing' = Releasing
      /\ Promoting' = Promoting \cup {h} /\ o \in Owners \cup Watchers
  BY DEF TypeOK, Owners, Watchers, Releasing, Promoting
<1>3. CountsTell'
  BY <1>2 DEF CountsTell
<1>4. Life'
  BY <1>2 DEF Life, TypeOK
<1>5. Calls'
  BY <1>2 DEF Calls, TypeOK, Promoting
<1>6. FreedAtZero'
  BY DEF FreedAtZero
<1> QED
  BY <1>1, <1>3, <1>4, <1>5, <1>6

LEMMA ReadInv ==
  ASSUME Inv, NEW h \in Handles, Read(h)
  PROVE  Inv'
<1> USE DEF Inv, Read
<1>1. TypeOK'
  BY DEF TypeOK
<1>2. Owners' = Owners /\ Watchers' = Watchers /\ Releasing' = Releasing
  BY DEF TypeOK, Owners, Watchers, Releasing
<1>3. CountsTell'
  BY <1>2 DEF CountsTell
<1>4. Life'
  BY <1>2 DEF Life, TypeOK
<1>5. Calls'
  BY <1>2 DEF Calls, TypeOK, Promoting
<1>6. FreedAtZero'
  BY DEF FreedAtZero
<1> QED
  BY <1>1, <1>3, <1>4, <1>5, <1>6

(* The compare-and-swap succeeds only if the count is not 0 at that very   *)
(* moment: somebody else owns the object.                                  *)
LEMMA SwapFindsOwner ==
  ASSUME Inv, NEW h \in Handles, Swap(h), share = old[h]
  PROVE  Owners # {}
  BY Sizes DEF Inv, Swap, Calls, CountsTell, Promoting, TypeOK

LEMMA SwapInv ==
  ASSUME Inv, NEW h \in Handles, Swap(h)
  PROVE  Inv'
<1> USE DEF Inv, Swap
<1>1. TypeOK'
  BY DEF TypeOK
<1>2. /\ Watchers' = Watchers /\ Releasing' = Releasing
      /\ FreedAtZero'
  BY DEF TypeOK, Watchers, Releasing, FreedAtZero
<1>3. CASE share = old[h]
  <2>1. Owners' = Owners \cup {h} /\ h \notin Owners /\ share' = share + 1
    BY <1>3 DEF TypeOK, Owners
  <2>2. Owners # {}
    BY <1>3, SwapFindsOwner
  <2>3. Cardinality(Owners') = Cardinality(Owners) + 1
    BY <2>1, SetSize, Owners \in SUBSET Handles DEF Owners
  <2>4. CountsTell'
    BY <1>2, <2>1, <2>2, <2>3 DEF CountsTell
  <2>5. Life'
    BY <1>2, <1>3, <2>1, <2>2 DEF Life, TypeOK
  <2>6. Calls'
    BY <1>2, <1>3, <2>1 DEF Calls, TypeOK, Promoting
  <2> QED
    BY <1>1, <1>2, <2>4, <2>5, <2>6
<1>4. CASE share # old[h]
  <2>1. Owners' = Owners /\ share' = share
    BY <1>4 DEF TypeOK, Owners
  <2>2. CountsTell'
    BY <1>2, <2>1 DEF CountsTell
  <2>3. Life'
    BY <1>2, <1>4, <2>1 DEF Life, TypeOK
  <2>4. Calls'
    BY <1>2, <1>4, <2>1 DEF Calls, TypeOK, Promoting
  <2> QED
    BY <1>1, <1>2, <2>2, <2>3, <2>4
<1> QED
  BY <1>3, <1>4

LEMMA DropInv ==
  ASSUME Inv, NEW h \in Handles, Drop(h)
  PROVE  Inv'
<1> USE DEF Inv, Drop
<1>1. /\ Owners' = Owners \ {h} /\ h \in Owners
      /\ Watchers' = Watchers /\ Promoting' = Promoting
      /\ Releasing' = IF share = 1 THEN Releasing \cup {h} ELSE Releasing
  BY DEF TypeOK, Owners, Watchers, Releasing, Promoting
<1>2. /\ Cardinality(Owners') = Cardinality(Owners) - 1
      /\ Cardinality(Owners') \in Nat
      /\ Cardinality(Owners') = 0 <=> Owners' = {}
  BY <1>1, SetSize, Owners \in SUBSET Handles, Owners' \in SUBSET Handles DEF Owners
<1>3. TypeOK'
  BY <1>2 DEF TypeOK, CountsTell
<1>4. (share = 1) <=> (Owners' = {})
  BY <1>2 DEF TypeOK, CountsTell
<1>5. CountsTell'
  BY <1>1, <1>2, <1>4 DEF CountsTell, One
<1>6. Life'
  BY <1>1, <1>4 DEF Life, TypeOK, Owners, Releasing
<1>7. Calls'
  BY <1>1 DEF Calls, TypeOK, Promoting, InUse
<1>8. FreedAtZero'
  BY DEF FreedAtZero
<1> QED
  BY <1>3, <1>5, <1>6, <1>7, <1>8

LEMMA UnwatchInv ==
  ASSUME Inv, NEW h \in Handles, Unwatch(h)
  PROVE  Inv'
<1> USE DEF Inv, Unwatch, DecWeakCnt
<1>1. /\ Watchers' = Watchers \ {h} /\ h \in Watchers
      /\ Owners' = Owners /\ Releasing' = Releasing /\ Promoting' = Promoting
  BY DEF TypeOK, Owners, Watchers, Releasing, Promoting
<1>2. /\ Cardinality(Watchers') = Cardinality(Watchers) - 1
      /\ Cardinality(Watchers') \in Nat
  BY <1>1, SetSize, Watchers \in SUBSET Handles, Watchers' \in SUBSET Handles
     DEF Watchers
<1>3. weak \in Nat /\ weak > 0
  BY <1>2, Sizes DEF TypeOK, CountsTell, One
<1>4. TypeOK'
  BY <1>3 DEF TypeOK
<1>5. CountsTell'
  BY <1>1, <1>2, Sizes DEF CountsTell, One
<1>6. Life'
  BY <1>1 DEF Life, TypeOK
<1>7. Calls'
  BY <1>1 DEF Calls, TypeOK, Promoting, InUse
<1>8. ~freed
  BY <1>3 DEF FreedAtZero
<1>9. weak' = 0 <=> weak = 1
  BY <1>3
<1>10. FreedAtZero'
  BY <1>8, <1>9 DEF FreedAtZero
<1> QED
  BY <1>4, <1>5, <1>6, <1>7, <1>10

LEMMA DisposeInv ==
  ASSUME Inv, NEW h \in Handles, Dispose(h)
  PROVE  Inv'
<1> USE DEF Inv, Dispose
<1>1. TypeOK'
  BY DEF TypeOK
<1>2. /\ Owners' = Owners /\ Watchers' = Watchers /\ Promoting' = Promoting
      /\ Releasing' = Releasing /\ h \in Releasing
  BY DEF TypeOK, Owners, Watchers, Releasing, Promoting
<1>3. CountsTell'
  BY <1>2 DEF CountsTell
<1>4. Life'
  BY <1>2 DEF Life, TypeOK, Releasing
<1>5. Calls'
  BY <1>2 DEF Calls, TypeOK, Promoting
<1>6. FreedAtZero'
  BY DEF FreedAtZero
<1> QED
  BY <1>1, <1>3, <1>4, <1>5, <1>6

LEMMA DropMemberInv ==
  ASSUME Inv, NEW h \in Handles, DropMember(h)
  PROVE  Inv'
<1> USE DEF Inv, DropMember, DecWeakCnt
<1>1. /\ Owners' = Owners /\ Watchers' = Watchers /\ Promoting' = Promoting
      /\ Releasing' = Releasing /\ h \in Releasing
  BY DEF TypeOK, Owners, Watchers, Releasing, Promoting
<1>2. weak = Cardinality(Watchers) + One(self) + 1 /\ Cardinality(Watchers) \in Nat
  BY <1>1, Sizes DEF CountsTell, One
<1>3. weak' \in Nat
  BY <1>2 DEF TypeOK, One
<1>4. freed' \in BOOLEAN
  BY DEF TypeOK
<1>5. TypeOK'
  BY <1>3, <1>4 DEF TypeOK
<1>6. CountsTell'
  BY <1>1, <1>2 DEF CountsTell, One, TypeOK
<1>7. Life'
  BY <1>1 DEF Life, TypeOK, Releasing
<1>8. Calls'
  BY <1>1 DEF Calls, TypeOK, Promoting
<1>9. self => weak > 1
  BY <1>2 DEF One
<1>10. FreedAtZero'
  BY <1>2, <1>9 DEF FreedAtZero, One, TypeOK
<1> QED
  BY <1>5, <1>6, <1>7, <1>8, <1>10

LEMMA DropLastInv ==
  ASSUME Inv, NEW h \in Handles, DropLast(h)
  PROVE  Inv'
<1> USE DEF Inv, DropLast, DecWeakCnt
<1>1. /\ Owners' = Owners /\ Watchers' = Watchers /\ Promoting' = Promoting
      /\ h \in Releasing /\ Releasing' = Releasing \ {h}
  BY DEF TypeOK, Owners, Watchers, Releasing, Promoting
<1>2. Owners = {} /\ Releasing' = {} /\ ~self /\ ~alive
  BY <1>1 DEF Life
<1>3. weak = Cardinality(Watchers) + 1 /\ Cardinality(Watchers) \in Nat
  BY <1>1, <1>2, Sizes DEF CountsTell, One
<1>4. TypeOK'
  BY <1>3 DEF TypeOK
<1>5. CountsTell'
  BY <1>1, <1>2, <1>3 DEF CountsTell, One
<1>6. Life'
  BY <1>1, <1>2 DEF Life, TypeOK, Releasing
<1>7. Calls'
  BY <1>1 DEF Calls, TypeOK, Promoting
<1>8. ~freed
  BY <1>3 DEF FreedAtZero
<1>9. weak' = 0 <=> weak = 1
  BY <1>3
<1>10. FreedAtZero'
  BY <1>8, <1>9 DEF FreedAtZero
<1> QED
  BY <1>4, <1>5, <1>6, <1>7, <1>10

LEMMA NextInv == Inv /\ [Next]_vars => Inv'
<1> SUFFICES ASSUME Inv, [Next]_vars PROVE Inv'
  OBVIOUS
<1>1. CASE UNCHANGED vars
  BY <1>1 DEF Inv, vars, TypeOK, CountsTell, Life, Calls, FreedAtZero,
              Owners, Watchers, Releasing, Promoting
<1>2. CASE Next
  BY <1>2, CopyInv, WatchInv, PromoteInv, ReadInv, SwapInv, DropInv, UnwatchInv,
     DisposeInv, DropMemberInv, DropLastInv DEF Next, Call, Proceed
<1> QED
  BY <1>1, <1>2

LEMMA Invariance == Spec => []Inv
  BY InitInv, NextInv, PTL DEF Spec

-----------------------------------------------------------------------------
(* The variables keep their types: the counts are never negative. *)
THEOREM TypeCorrect == Spec => []TypeOK
  BY Invariance, PTL DEF Inv

(* The counts are the numbers of handles. *)
THEOREM CountsCorrect == Spec => []CountsTell
  BY Invariance, PTL DEF Inv

(* An owned object is alive, and one thread deletes it, once. *)
THEOREM Alive == Spec => []OwnedIsAlive
<1>1. Inv => OwnedIsAlive
  BY DEF Inv, Life, OwnedIsAlive
<1> QED
  BY <1>1, Invariance, PTL

(* The counter is freed only after the last handle, call and member. *)
THEOREM CounterLives == Spec => []CounterOutlivesHandles
<1>1. Inv => CounterOutlivesHandles
  <2> SUFFICES ASSUME Inv, freed PROVE ~self /\ \A h \in Handles : kind[h] = "none"
    BY DEF CounterOutlivesHandles, Inv, TypeOK
  <2>1. weak = 0
    BY DEF Inv, FreedAtZero
  <2>2. Watchers = {} /\ ~self /\ Owners \cup Releasing = {}
    BY <2>1, Sizes DEF Inv, CountsTell, One, TypeOK
  <2>3. Promoting = {}
    BY <2>2 DEF Inv, Calls
  <2> QED
    BY <2>2, <2>3 DEF Inv, TypeOK, Owners, Watchers, Releasing, Promoting
<1> QED
  BY <1>1, Invariance, PTL

(* When the last handle is gone neither the object nor the counter leaks. *)
THEOREM NoLeak == Spec => []NothingLeaks
<1>1. Inv => NothingLeaks
  <2> SUFFICES ASSUME Inv, \A h \in Handles : kind[h] = "none" PROVE ~alive /\ freed
    BY DEF NothingLeaks
  <2>1. Owners = {} /\ Watchers = {} /\ Releasing = {}
    BY DEF Owners, Watchers, Releasing
  <2>2. ~alive /\ ~self
    BY <2>1 DEF Inv, Life
  <2>3. weak = 0
    BY <2>1, <2>2, Sizes DEF Inv, CountsTell, One
  <2> QED
    BY <2>2, <2>3 DEF Inv, FreedAtZero
<1> QED
  BY <1>1, Invariance, PTL

(* The object lives while it is owned and one thread ends it; its counter  *)
(* is freed when the last handle goes, and not before: AddShareCopy,       *)
(* DecShareCnt and DecWeakCnt.                                             *)
THEOREM LifetimesKept == Spec => []Lifetimes
  BY Alive, CounterLives, NoLeak, PTL DEF Lifetimes

(* The share count never leaves 0: Swap is the only action that raises it  *)
(* without a SharedPtr at hand, and it finds an owner.                     *)
THEOREM NotRevived == Spec => NeverRevived
<1>1. Inv /\ [Next]_vars => [share = 0 => share' = 0]_vars
  <2> SUFFICES ASSUME Inv, Next, share = 0 PROVE share' = 0
    BY DEF vars
  <2>1. Owners = {}
    BY Sizes DEF Inv, CountsTell
  <2>2. PICK h \in Handles : Call(h) \/ Proceed(h)
    BY DEF Next
  <2>3. CASE Proceed(h)
    <3>1. CASE Swap(h)
      BY <2>1, <3>1, SwapFindsOwner DEF Swap
    <3> QED
      BY <2>3, <3>1 DEF Proceed, Read, Dispose, DropMember, DropLast
  <2>4. CASE Call(h)
    BY <2>1, <2>4 DEF Call, Drop, Unwatch, Copy, Watch, Promote, Owners
  <2> QED
    BY <2>2, <2>3, <2>4
<1> QED
  BY <1>1, Invariance, PTL DEF Spec, NeverRevived

(* The counter implements Ownership: the handles that hold a SharedPtr are *)
(* the owners, and Dispose is the end of the object.                       *)
THEOREM Refinement == Spec => AbstractSpec
<1>1. Init => Abstract!Init
  <2> SUFFICES ASSUME Init PROVE Abstract!Init
    OBVIOUS
  <2>1. PICK h \in Handles : kind = [g \in Handles |-> IF g = h THEN "share" ELSE "none"]
    BY DEF Init
  <2> QED
    BY <2>1 DEF Abstract!Init, Init, Owners
<1>2. Inv /\ [Next]_vars => [Abstract!Next]_<<Owners, alive>>
  <2> SUFFICES ASSUME Inv, [Next]_vars
               PROVE  Abstract!Next \/ UNCHANGED <<Owners, alive>>
    OBVIOUS
  <2>1. CASE UNCHANGED vars
    BY <2>1 DEF vars, Owners
  <2>2. ASSUME NEW h \in Handles, Call(h)
        PROVE  Abstract!Next \/ UNCHANGED <<Owners, alive>>
    <3>1. CASE Drop(h)
      <4>1. Owners' = Owners \ {h} /\ UNCHANGED alive
        BY <3>1 DEF Drop, Owners, Inv, TypeOK
      <4> QED
        BY <4>1 DEF Abstract!Next, Abstract!Lose
    <3>2. CASE Unwatch(h)
      BY <3>2 DEF Unwatch, Owners, Inv, TypeOK
    <3>3. ASSUME NEW o \in Handles, Copy(h, o)
          PROVE  Abstract!Next
      <4>1. Owners' = Owners \cup {h} /\ o \in Owners /\ UNCHANGED alive
        BY <3>3 DEF Copy, Owners, Inv, TypeOK
      <4> QED
        BY <4>1 DEF Abstract!Next, Abstract!Gain
    <3>4. ASSUME NEW o \in Handles, Watch(h, o) \/ Promote(h, o)
          PROVE  UNCHANGED <<Owners, alive>>
      BY <3>4 DEF Watch, Promote, Owners, Inv, TypeOK
    <3> QED
      BY <2>2, <3>1, <3>2, <3>3, <3>4 DEF Call
  <2>3. ASSUME NEW h \in Handles, Proceed(h)
        PROVE  Abstract!Next \/ UNCHANGED <<Owners, alive>>
    <3>1. CASE Swap(h) /\ share = old[h]
      <4>1. Owners' = Owners \cup {h} /\ UNCHANGED alive
        BY <3>1 DEF Swap, Owners, Inv, TypeOK
      <4>2. Owners # {}
        BY <3>1, SwapFindsOwner
      <4> QED
        BY <4>1, <4>2 DEF Abstract!Next, Abstract!Gain
    <3>2. CASE Swap(h) /\ share # old[h]
      BY <3>2 DEF Swap, Owners, Inv, TypeOK
    <3>3. CASE Dispose(h)
      <4>1. alive /\ Owners = {} /\ alive' = FALSE /\ UNCHANGED Owners
        BY <3>3 DEF Dispose, Owners, Releasing, Inv, Life, TypeOK
      <4> QED
        BY <4>1 DEF Abstract!Next, Abstract!End
    <3>4. CASE Read(h) \/ DropMember(h) \/ DropLast(h)
      BY <3>4 DEF Read, DropMember, DropLast, Owners, Inv, TypeOK
    <3> QED
      BY <2>3, <3>1, <3>2, <3>3, <3>4 DEF Proceed
  <2> QED
    BY <2>1, <2>2, <2>3 DEF Next
<1> QED
  BY <1>1, <1>2, Invariance, PTL DEF Spec, AbstractSpec, Abstract!Spec

-----------------------------------------------------------------------------
(* TimerWheel: arithmetic of slots.                                        *)

LEMMA DivMod ==
  ASSUME NEW m \in Nat \ {0}, NEW a \in Int
  PROVE  /\ a \div m \in Int /\ a % m \in Nat
         /\ a = m * (a \div m) + (a % m) /\ a % m < m
<1>1. /\ a \div m \in Int /\ (a % m) \in Int
      /\ a = m * (a \div m) + (a % m) /\ 0 <= (a % m) /\ (a % m) < m
  BY SMT
<1> QED
  BY <1>1

(* Quotient and remainder are the only ones. *)
LEMMA DivModUnique ==
  ASSUME NEW m \in Nat \ {0}, NEW q \in Int, NEW r \in Nat, r < m
  PROVE  (m * q + r) \div m = q /\ (m * q + r) % m = r
<1>1. PICK a \in Int : a = m * q + r
  OBVIOUS
<1>2. PICK p \in Int, s \in Nat : p = a \div m /\ s = a % m /\ a = m * p + s /\ s < m
  BY DivMod
<1>3. m * (q - p) = s - r
  <2>1. m * (q - p) = m * q - m * p
    OBVIOUS
  <2> QED
    BY <1>1, <1>2, <2>1
<1>4. q - p = 0
  <2>1. q - p \in Int /\ s - r < m /\ r - s < m
    BY <1>2
  <2>2. \A n \in Int : m * n < m /\ -(m * n) < m => n = 0
    <3>1. \A n \in Int : n >= 1 => m * n >= m
      OBVIOUS
    <3>2. \A n \in Int : n <= -1 => -(m * n) >= m
      OBVIOUS
    <3> QED
      BY <3>1, <3>2
  <2> QED
    BY <1>2, <1>3, <2>1, <2>2
<1>5. s = r
  BY <1>3, <1>4
<1> QED
  BY <1>1, <1>2, <1>4, <1>5

(* Two times with the same remainder are a multiple of m apart. *)
LEMMA SameRemainder ==
  ASSUME NEW m \in Nat \ {0}, NEW a \in Int, NEW b \in Int, a % m = b % m
  PROVE  \E n \in Int : b = a + m * n
<1> DEFINE r == a % m
<1>a. PICK p \in Int : a = m * p + r /\ r \in Nat
  BY DivMod
<1>b. PICK q \in Int : b = m * q + r
  <2>1. r = b % m
    OBVIOUS
  <2> HIDE DEF r
  <2>2. b = m * (b \div m) + (b % m) /\ b \div m \in Int
    BY DivMod
  <2> QED
    BY <2>1, <2>2
<1> HIDE DEF r
<1>1. p \in Int /\ q \in Int /\ r \in Nat /\ a = m * p + r /\ b = m * q + r
  BY <1>a, <1>b
<1>2. m * (q - p) = m * q - m * p
  OBVIOUS
<1>3. b = a + m * (q - p) /\ q - p \in Int
  BY <1>1, <1>2
<1> QED
  BY <1>3

LEMMA Multiples ==
  ASSUME NEW m \in Nat \ {0}, NEW n \in Int
  PROVE  /\ m * n \in Int
         /\ m * n > 0 => m * n >= m
         /\ m * n < m => m * n <= 0
         /\ m * n > -m => m * n >= 0
<1>1. m * n \in Int
  OBVIOUS
<1>2. n >= 1 => m * n >= m
  OBVIOUS
<1>3. n <= 0 => m * n <= 0
  OBVIOUS
<1>4. n >= 0 => m * n >= 0
  OBVIOUS
<1>5. n <= -1 => m * n <= -m
  OBVIOUS
<1> QED
  BY <1>1, <1>2, <1>3, <1>4, <1>5

LEMMA Positive ==
  ASSUME NEW a \in Nat \ {0}, NEW b \in Nat \ {0}
  PROVE  a * b \in Nat \ {0} /\ a * b >= a /\ a * b >= b /\ (b >= 2 => a * b >= 2 * a)
<1> QED
  OBVIOUS

-----------------------------------------------------------------------------
(* The lists. *)

LEMMA Lists ==
  /\ LIST1_SIZE \in Nat \ {0, 1} /\ LIST_SIZE \in Nat \ {0, 1}
  /\ Size(1) = LIST1_SIZE /\ \A k \in 2 .. 5 : Size(k) = LIST_SIZE
  /\ \A k \in Levels : Unit(k) \in Nat \ {0} /\ Size(k) \in Nat \ {0, 1}
  /\ \A k \in Levels : Span(k) \in Nat \ {0} /\ Span(k) = Unit(k) * Size(k)
                       /\ Span(k) >= 2 * Unit(k)
  /\ Unit(1) = 1 /\ \A k \in 2 .. 5 : Unit(k) = Span(k - 1)
  /\ Span(1) = LIST1_SIZE /\ Span(2) = LIST1_SIZE * LIST_SIZE
<1>1. LIST1_SIZE \in Nat \ {0, 1} /\ LIST_SIZE \in Nat \ {0, 1}
  BY TimerWheelAssumption
<1> DEFINE u == LIST1_SIZE
           s == LIST_SIZE
<1>2. /\ Unit(1) = 1 /\ Unit(2) = u /\ Unit(3) = u * s
      /\ Unit(4) = u * s * s /\ Unit(5) = u * s * s * s
  BY DEF Unit
<1>3. Size(1) = u /\ \A k \in 2 .. 5 : Size(k) = s
  BY DEF Size
<1>4. u * s \in Nat \ {0}
  BY <1>1, Positive
<1>5. u * s * s \in Nat \ {0}
  BY <1>1, <1>4, Positive
<1>6. u * s * s * s \in Nat \ {0}
  BY <1>1, <1>5, Positive
<1>7. \A k \in Levels : Unit(k) \in Nat \ {0} /\ Size(k) \in Nat \ {0, 1}
  BY <1>1, <1>2, <1>3, <1>4, <1>5, <1>6 DEF Levels
<1>8. ASSUME NEW k \in Levels
      PROVE  Span(k) \in Nat \ {0} /\ Span(k) = Unit(k) * Size(k) /\ Span(k) >= 2 * Unit(k)
  BY <1>7, Positive DEF Span
<1>9. Span(1) = 1 * u /\ Span(2) = u * s /\ Span(3) = u * s * s /\ Span(4) = u * s * s * s
  BY <1>2, <1>3 DEF Span
<1>10. \A k \in 2 .. 5 : Unit(k) = Span(k - 1)
  BY <1>1, <1>2, <1>9
<1> QED
  BY <1>1, <1>2, <1>3, <1>7, <1>8, <1>9, <1>10

LEMMA Moduli ==
  /\ Modulus \in Nat \ {0} /\ Half \in Nat
  /\ 2 * Half <= Modulus /\ Half <= Modulus - Unit(5)
  /\ Span(2) <= Half
<1>1. Modulus \in Nat \ {0} /\ Modulus >= 2 * Unit(5) /\ Unit(5) \in Nat \ {0}
  BY Lists DEF Modulus, Levels
<1>2. Half \in Nat /\ 2 * Half <= Modulus /\ Modulus <= 2 * Half + 1
  <2>1. \A n \in Nat : n \div 2 \in Nat /\ 2 * (n \div 2) <= n /\ n <= 2 * (n \div 2) + 1
    OBVIOUS
  <2> QED
    BY <1>1, <2>1 DEF Half
<1>3. Span(2) \in Nat /\ Span(2) <= Unit(5)
  <2>1. Span(2) = Unit(3) /\ Span(3) = Unit(4) /\ Span(4) = Unit(5)
    BY Lists
  <2>2. Span(3) >= 2 * Unit(3) /\ Span(4) >= 2 * Unit(4)
    BY Lists DEF Levels
  <2>3. Unit(3) \in Nat /\ Unit(4) \in Nat /\ Unit(5) \in Nat
    BY Lists DEF Levels
  <2> QED
    BY <2>1, <2>2, <2>3
<1> QED
  BY <1>1, <1>2, <1>3

LEMMA SlotsOfList ==
  ASSUME NEW k \in Levels, NEW x \in Int
  PROVE  SlotAt(k, x) \in Slots /\ SlotAt(k, x)[1] = k
<1>1. x \div Unit(k) \in Int /\ Size(k) \in Nat \ {0}
  BY Lists, DivMod
<1>2. (x \div Unit(k)) % Size(k) \in 0 .. Size(k) - 1
  BY <1>1, DivMod
<1> QED
  BY <1>2 DEF SlotAt, Slots

LEMMA LevelIsFirst ==
  ASSUME NEW d \in Nat
  PROVE  /\ LevelOf(d) \in Levels /\ (LevelOf(d) = 5 \/ d < Span(LevelOf(d)))
         /\ \A j \in 1 .. LevelOf(d) - 1 : d >= Span(j)
<1> DEFINE First(k) == (k = 5 \/ d < Span(k)) /\ \A j \in 1 .. k - 1 : d >= Span(j)
<1>1. \A k \in 1 .. 4 : Span(k) \in Nat
  BY Lists DEF Levels
<1>2. \E k \in Levels : First(k)
  <2>1. CASE d < Span(1)
    <3>1. First(1)
      BY <2>1
    <3> QED
      BY <3>1 DEF Levels
  <2>2. CASE d >= Span(1) /\ d < Span(2)
    <3>1. First(2)
      BY <2>2
    <3> QED
      BY <3>1 DEF Levels
  <2>3. CASE d >= Span(1) /\ d >= Span(2) /\ d < Span(3)
    <3>1. First(3)
      BY <2>3
    <3> QED
      BY <3>1 DEF Levels
  <2>4. CASE d >= Span(1) /\ d >= Span(2) /\ d >= Span(3) /\ d < Span(4)
    <3>1. First(4)
      BY <2>4
    <3> QED
      BY <3>1 DEF Levels
  <2>5. CASE d >= Span(1) /\ d >= Span(2) /\ d >= Span(3) /\ d >= Span(4)
    <3>1. First(5)
      BY <2>5
    <3> QED
      BY <3>1 DEF Levels
  <2> QED
    BY <1>1, <2>1, <2>2, <2>3, <2>4, <2>5
<1>3. LevelOf(d) = CHOOSE k \in Levels : First(k)
  BY DEF LevelOf
<1> HIDE DEF First
<1>4. LevelOf(d) \in Levels /\ First(LevelOf(d))
  BY <1>2, <1>3
<1> QED
  BY <1>4 DEF First

(* The uint32_t difference of two times. *)
LEMMA Difference ==
  ASSUME NEW y \in Int
  PROVE  /\ y % Modulus \in Nat /\ y % Modulus < Modulus
         /\ 0 <= y /\ y < Modulus => y % Modulus = y
         /\ -Half <= y /\ y < 0 => y % Modulus >= Half
<1>1. Modulus \in Nat \ {0} /\ Half \in Nat /\ 2 * Half <= Modulus
  BY Moduli
<1>2. y % Modulus \in Nat /\ y % Modulus < Modulus
  BY <1>1, DivMod
<1>3. ASSUME 0 <= y, y < Modulus PROVE y % Modulus = y
  <2>1. (Modulus * 0 + y) % Modulus = y
    BY <1>1, <1>3, DivModUnique
  <2>2. Modulus * 0 + y = y
    BY <1>1
  <2> QED
    BY <2>1, <2>2
<1>4. ASSUME -Half <= y, y < 0 PROVE y % Modulus >= Half
  <2>1. y + Modulus \in Nat /\ y + Modulus < Modulus /\ y + Modulus >= Half
    BY <1>1, <1>4
  <2>2. PICK r \in Nat : r = y + Modulus
    BY <2>1
  <2>3. (Modulus * (-1) + r) % Modulus = r
    BY <1>1, <2>1, <2>2, DivModUnique
  <2>4. Modulus * (-1) + r = y
    BY <1>1, <2>2
  <2> QED
    BY <2>1, <2>2, <2>3, <2>4
<1> QED
  BY <1>2, <1>3, <1>4

(* Place as a function of the timer's time and the check time. *)
PlaceAt(x, c) ==
    IF (x - c) % Modulus >= Half THEN SlotAt(1, c)
    ELSE SlotAt(LevelOf((x - c) % Modulus), x)

LEMMA PlaceIsPlaceAt ==
  /\ \A t \in Timers : Place(t) = PlaceAt(trigger[t], checkTime)
  /\ (\A t \in Timers : Place(t) = PlaceAt(trigger[t], checkTime))'
<1> QED
  BY DEF Place, PlaceAt, Diff

LEMMA Placing ==
  ASSUME NEW x \in Nat, NEW c \in Nat
  PROVE  /\ PlaceAt(x, c) \in Slots
         /\ 0 <= x - c /\ x - c < LIST1_SIZE => PlaceAt(x, c) = SlotAt(1, x)
         /\ LIST1_SIZE <= x - c /\ x - c < Span(2) => PlaceAt(x, c) = SlotAt(2, x)
         /\ -Half <= x - c /\ x - c < 0 => PlaceAt(x, c) = SlotAt(1, c)
         /\ 0 <= x - c /\ x - c < Half /\ PlaceAt(x, c)[1] = 1 =>
               x - c < LIST1_SIZE /\ PlaceAt(x, c) = SlotAt(1, x)
<1> DEFINE y == x - c
           d == y % Modulus
<1>1. y \in Int
  OBVIOUS
<1>2. /\ d \in Nat
      /\ 0 <= y /\ y < Modulus => d = y
      /\ -Half <= y /\ y < 0 => d >= Half
  BY <1>1, Difference
<1>3. /\ Modulus \in Nat /\ Half \in Nat /\ Half <= Modulus /\ Span(2) <= Half
      /\ Span(1) = LIST1_SIZE /\ LIST1_SIZE \in Nat /\ Span(2) \in Nat /\ Span(1) <= Span(2)
      /\ 1 \in Levels /\ 2 \in Levels
  <2>1. Span(1) = Unit(2) /\ Unit(2) \in Nat /\ Span(2) >= 2 * Unit(2)
    BY Lists DEF Levels
  <2> QED
    BY <2>1, Moduli, Lists DEF Levels
<1> HIDE DEF y
<1>4. /\ LevelOf(d) \in Levels /\ (LevelOf(d) = 5 \/ d < Span(LevelOf(d)))
      /\ \A j \in 1 .. LevelOf(d) - 1 : d >= Span(j)
  BY <1>2, LevelIsFirst
<1>5. d < LIST1_SIZE <=> LevelOf(d) = 1
  <2>1. LevelOf(d) # 1 => 1 \in 1 .. LevelOf(d) - 1
    BY <1>4 DEF Levels
  <2> QED
    BY <1>2, <1>3, <1>4, <2>1
<1>6. d >= LIST1_SIZE /\ d < Span(2) => LevelOf(d) = 2
  <2>1. LevelOf(d) \notin {1, 2} => 2 \in 1 .. LevelOf(d) - 1
    BY <1>4 DEF Levels
  <2> QED
    BY <1>2, <1>3, <1>4, <1>5, <2>1
<1>7. PlaceAt(x, c) = IF d >= Half THEN SlotAt(1, c) ELSE SlotAt(LevelOf(d), x)
  BY DEF PlaceAt, y
<1> HIDE DEF d
<1>8. PlaceAt(x, c) \in Slots
  BY <1>3, <1>4, <1>7, SlotsOfList
<1>9. d < Half => PlaceAt(x, c)[1] = LevelOf(d)
  BY <1>2, <1>3, <1>4, <1>7, SlotsOfList
<1>10. 0 <= y /\ y < Half => d = y /\ ~ (d >= Half)
  BY <1>1, <1>2, <1>3
<1>11. 0 <= y /\ y < LIST1_SIZE => PlaceAt(x, c) = SlotAt(1, x)
  BY <1>1, <1>3, <1>5, <1>7, <1>10
<1>12. LIST1_SIZE <= y /\ y < Span(2) => PlaceAt(x, c) = SlotAt(2, x)
  BY <1>1, <1>3, <1>6, <1>7, <1>10
<1>13. -Half <= y /\ y < 0 => PlaceAt(x, c) = SlotAt(1, c)
  BY <1>2, <1>7
<1>14. 0 <= y /\ y < Half /\ PlaceAt(x, c)[1] = 1 =>
          y < LIST1_SIZE /\ PlaceAt(x, c) = SlotAt(1, x)
  BY <1>2, <1>5, <1>7, <1>9, <1>10
<1> QED
  BY <1>8, <1>11, <1>12, <1>13, <1>14 DEF y

-----------------------------------------------------------------------------
(* When two times share a slot. *)

LEMMA FirstListSlot ==
  ASSUME NEW x \in Int
  PROVE  SlotAt(1, x) = <<1, x % LIST1_SIZE>>
<1>1. x \div 1 = x
  OBVIOUS
<1> QED
  BY <1>1, Lists DEF SlotAt

(* Times in the same slot of the first list are a round apart. *)
LEMMA RoundApart ==
  ASSUME NEW a \in Nat, NEW b \in Nat, SlotAt(1, a) = SlotAt(1, b),
         a < b, b <= a + LIST1_SIZE
  PROVE  b = a + LIST1_SIZE
<1>1. a % LIST1_SIZE = b % LIST1_SIZE /\ LIST1_SIZE \in Nat \ {0}
  BY FirstListSlot, Lists
<1>2. PICK n \in Int : b = a + LIST1_SIZE * n
  <2>1. a \in Int /\ b \in Int
    OBVIOUS
  <2> QED
    BY <1>1, <2>1, SameRemainder
<1>3. /\ LIST1_SIZE * n \in Int
      /\ LIST1_SIZE * n > 0 => LIST1_SIZE * n >= LIST1_SIZE
  BY <1>1, Multiples
<1> QED
  BY <1>1, <1>2, <1>3

(* A slot of the second list has its turn when the first millisecond of it *)
(* does, and at no other time in the turn of the list before it.           *)
LEMMA SecondListTurn ==
  ASSUME NEW x \in Nat, NEW c \in Nat
  PROVE  /\ LIST1_SIZE * (x \div LIST1_SIZE) \in Nat
         /\ LIST1_SIZE * (x \div LIST1_SIZE) <= x
         /\ x < LIST1_SIZE * (x \div LIST1_SIZE) + LIST1_SIZE
         /\ c = LIST1_SIZE * (x \div LIST1_SIZE) =>
               c % LIST1_SIZE = 0 /\ SlotAt(2, c) = SlotAt(2, x)
         /\ /\ c % LIST1_SIZE = 0 /\ SlotAt(2, c) = SlotAt(2, x)
            /\ c <= LIST1_SIZE * (x \div LIST1_SIZE) /\ x < c + Span(2)
            => c <= x /\ x < c + LIST1_SIZE
<1> DEFINE u == LIST1_SIZE
           s == LIST_SIZE
<1>1. /\ u \in Nat \ {0} /\ s \in Nat \ {0} /\ Span(2) = u * s /\ Unit(2) = u
      /\ Size(2) = s
  <2>1. Unit(2) = Span(1)
    BY Lists
  <2> QED
    BY <2>1, Lists
<1> HIDE DEF u, s
<1>2. PICK b \in Int, r \in Nat : x \div u = b /\ x = u * b + r /\ r < u
  BY <1>1, DivMod
<1>3. u * b \in Nat /\ u * b <= x /\ x < u * b + u
  <2>1. u * b \in Int /\ (u * b > -u => u * b >= 0)
    BY <1>1, Multiples
  <2> QED
    BY <1>1, <1>2, <2>1
<1>4. ASSUME c = u * b PROVE c % u = 0 /\ SlotAt(2, c) = SlotAt(2, x)
  <2>0. 0 \in Nat /\ 0 < u /\ u \in Nat \ {0} /\ b \in Int
    BY <1>1
  <2>1. (u * b + 0) \div u = b /\ (u * b + 0) % u = 0
    BY ONLY <2>0, DivModUnique
  <2>2. c \div u = b /\ c % u = 0
    BY <1>3, <1>4, <2>1
  <2> QED
    BY <1>1, <1>2, <2>2 DEF SlotAt
<1>5. ASSUME c % u = 0, SlotAt(2, c) = SlotAt(2, x), c <= u * b, x < c + Span(2)
      PROVE  c <= x /\ x < c + u
  <2>1. PICK a \in Int : c \div u = a /\ c = u * a
    <3>1. c \div u \in Int /\ c = u * (c \div u) + (c % u)
      BY <1>1, DivMod
    <3> QED
      BY <1>1, <1>5, <3>1
  <2>2. a % s = b % s
    BY <1>1, <1>2, <1>5, <2>1 DEF SlotAt
  <2>3. PICK n \in Int : b = a + s * n
    BY <1>1, <2>2, SameRemainder
  <2>4. u * b = u * a + (u * s) * n
    <3>1. u * (a + s * n) = u * a + u * (s * n) /\ u * (s * n) = (u * s) * n
      BY <1>1
    <3> QED
      BY <2>3, <3>1
  <2>5. u * s \in Nat \ {0}
    BY <1>1, Positive
  <2>6. PICK w \in Int : w = (u * s) * n /\ (w < u * s => w <= 0)
    BY <2>5, Multiples
  <2>7. PICK z \in Int : z = u * b
    BY <1>1
  <2> QED
    BY <1>1, <1>3, <1>5, <2>1, <2>4, <2>5, <2>6, <2>7
<1> QED
  BY <1>2, <1>3, <1>4, <1>5 DEF u

(* A timer d milliseconds ahead, at least as many as the slots of a list   *)
(* are wide, and in the same slot as the check time, is almost a turn of   *)
(* the list ahead.                                                         *)
LEMMA TurnAhead ==
  ASSUME NEW u \in Nat \ {0}, NEW s \in Nat \ {0}, NEW c \in Nat, NEW x \in Int,
         NEW d \in Nat, NEW p \in Int, x = c + d + (u * s) * p, d >= u,
         (x \div u) % s = (c \div u) % s
  PROVE  d + (c % u) >= u * s
<1>1. PICK a \in Int, r \in Nat : c \div u = a /\ c % u = r /\ c = u * a + r /\ r < u
  BY DivMod
<1>2. PICK b \in Int, q \in Nat : x \div u = b /\ x = u * b + q /\ q < u
  BY DivMod
<1>3. PICK n \in Int : b = a + s * n
  BY <1>1, <1>2, SameRemainder
<1>4. u * b = u * a + (u * s) * n
  <2>1. u * (a + s * n) = u * a + u * (s * n) /\ u * (s * n) = (u * s) * n
    OBVIOUS
  <2> QED
    BY <1>3, <2>1
<1>5. PICK w \in Nat \ {0} : w = u * s
  BY Positive
<1>6. w * (n - p) = w * n - w * p
  OBVIOUS
<1>7. d = w * (n - p) + q - r
  <2>1. PICK i \in Int, j \in Int, k \in Int : i = u * a /\ j = w * n /\ k = w * p
    OBVIOUS
  <2>2. u * b = i + j /\ x = c + d + k /\ c = i + r /\ x = u * b + q
    BY <1>1, <1>2, <1>4, <1>5, <2>1
  <2>3. w * (n - p) = j - k
    BY <1>6, <2>1
  <2> QED
    BY <2>2, <2>3
<1>8. w * (n - p) \in Int /\ (w * (n - p) > 0 => w * (n - p) >= w)
  BY Multiples
<1> QED
  BY <1>1, <1>2, <1>5, <1>7, <1>8

(* _Cacsade puts a timer back into the slot it takes it from only if it is *)
(* in list 3 or 4, and nearly a full turn of that list ahead.              *)
LEMMA FullTurn ==
  ASSUME NEW x \in Nat, NEW c \in Nat, NEW k \in 2 .. 5, c % LIST1_SIZE = 0,
         PlaceAt(x, c) = SlotAt(k, c)
  PROVE  /\ k \in {3, 4}
         /\ (x - c) % Modulus > Span(k) - Unit(k) /\ (x - c) % Modulus < Span(k)
<1> DEFINE d == (x - c) % Modulus
           u == Unit(k)
           s == Size(k)
<1>1. /\ k \in Levels /\ u \in Nat \ {0} /\ s \in Nat \ {0} /\ Span(k) = u * s
      /\ Span(k) \in Nat
  BY Lists DEF Levels
<1>2. Modulus \in Nat \ {0} /\ Half \in Nat /\ Half <= Modulus - Unit(5) /\ Unit(5) \in Nat
  BY Moduli, Lists DEF Levels
<1>3. PICK q \in Int : x - c = Modulus * q + d /\ d \in Nat
  <2>1. x - c \in Int
    OBVIOUS
  <2> QED
    BY <1>2, <2>1, DivMod
<1>4. PlaceAt(x, c) = IF d >= Half THEN SlotAt(1, c) ELSE SlotAt(LevelOf(d), x)
  BY DEF PlaceAt
<1> HIDE DEF d
<1>5. /\ LevelOf(d) \in Levels /\ (LevelOf(d) = 5 \/ d < Span(LevelOf(d)))
      /\ \A j \in 1 .. LevelOf(d) - 1 : d >= Span(j)
  BY <1>3, LevelIsFirst
<1>6. ~ (d >= Half) /\ LevelOf(d) = k
  <2>1. SlotAt(k, c)[1] = k /\ SlotAt(1, c)[1] = 1 /\ SlotAt(LevelOf(d), x)[1] = LevelOf(d)
    BY <1>1, <1>5, SlotsOfList DEF Levels
  <2>2. k # 1
    OBVIOUS
  <2> QED
    BY <1>4, <2>1, <2>2
<1>7. d >= u /\ d < Half
  <2>1. k - 1 \in 1 .. k - 1 /\ u = Span(k - 1)
    BY Lists
  <2>2. d >= Span(k - 1)
    BY <1>5, <1>6, <2>1
  <2> QED
    BY <1>2, <1>3, <1>6, <2>1, <2>2
<1>8. (x \div u) % s = (c \div u) % s
  <2>1. SlotAt(k, x) = SlotAt(k, c)
    BY <1>4, <1>6
  <2> QED
    BY <2>1 DEF SlotAt
(* The five lists are some turns of this one. *)
<1>9. \E v \in Int : Modulus = (u * s) * v
  <2> DEFINE a == LIST1_SIZE
             b == LIST_SIZE
  <2>1. a \in Nat /\ b \in Nat
    BY Lists
  <2>2. /\ Modulus = (a * b * b * b) * b /\ Size(2) = b /\ Size(3) = b /\ Size(4) = b
        /\ Size(5) = b /\ Unit(2) = a /\ Unit(3) = a * b /\ Unit(4) = a * b * b
        /\ Unit(5) = a * b * b * b
    BY DEF Modulus, Span, Unit, Size
  <2> HIDE DEF a, b
  <2>3. /\ (a * b * b * b) * b = (a * b) * (b * b * b)
        /\ (a * b * b * b) * b = (a * b * b) * (b * b)
        /\ (a * b * b * b) * b = (a * b * b * b) * b
        /\ (a * b * b * b) * b = ((a * b * b * b) * b) * 1
    BY <2>1
  <2>4. b * b * b \in Int /\ b * b \in Int /\ b \in Int /\ 1 \in Int
    BY <2>1
  <2>5. k = 2 \/ k = 3 \/ k = 4 \/ k = 5
    OBVIOUS
  <2> QED
    BY <2>2, <2>3, <2>4, <2>5
<1>10. d + (c % u) >= u * s
  <2>1. PICK v \in Int : Modulus = (u * s) * v
    BY <1>9
  <2>2. PICK w \in Nat : w = u * s
    BY <1>1
  <2>3. Modulus * q = w * (v * q)
    <3>1. (w * v) * q = w * (v * q)
      OBVIOUS
    <3> QED
      BY <2>1, <2>2, <3>1
  <2>4. PICK p \in Int : p = v * q
    OBVIOUS
  <2>5. x = c + d + (u * s) * p
    <3>1. PICK z \in Int : z = w * p
      OBVIOUS
    <3>2. x - c = z + d
      BY <1>3, <2>3, <2>4, <3>1
    <3>3. x = c + d + z
      BY <1>3, <3>2
    <3> QED
      BY <2>2, <3>1, <3>3
  <2> HIDE DEF u, s
  <2>6. x \in Int
    OBVIOUS
  <2> QED
    BY <1>1, <1>3, <1>7, <1>8, <2>5, <2>6, TurnAhead
<1>11. c % u \in Nat /\ c % u < u
  BY <1>1, DivMod
<1>12. d > Span(k) - u
  BY <1>1, <1>3, <1>10, <1>11
<1>13. k # 2
  <2>1. CASE k = 2
    <3>1. u = LIST1_SIZE /\ k # 5
      BY <2>1, Lists
    <3>2. d >= Span(k) /\ d < Span(k)
      BY <1>1, <1>3, <1>5, <1>6, <1>10, <1>11, <2>1, <3>1
    <3> QED
      BY <1>1, <1>3, <3>2
  <2> QED
    BY <2>1
<1>14. k # 5
  <2>1. CASE k = 5
    <3>1. Modulus = Span(5) /\ u = Unit(5)
      BY <2>1 DEF Modulus
    <3> QED
      BY <1>2, <1>3, <1>7, <1>12, <2>1, <3>1
  <2> QED
    BY <2>1
<1>15. k \in {3, 4}
  BY <1>13, <1>14
<1> QED
  BY <1>5, <1>6, <1>12, <1>14, <1>15 DEF d

-----------------------------------------------------------------------------
(* The inductive invariant. *)

(* The first millisecond whose slot is not done. *)
Upcoming == IF pc \in {"fire", "callback"} THEN Millisecond ELSE checkTime

(* A timer in the first list is due within a round, in the slot of its     *)
(* time; a full round only if it was added just now; or it is overdue.     *)
WithinRound(t) ==
    where[t][1] = 1 /\ Ahead(t) < Half =>
        \/ trigger[t] < checkTime
        \/ /\ where[t] = SlotAt(1, trigger[t])
           /\ trigger[t] < checkTime + LIST1_SIZE
           /\ trigger[t] = Millisecond + LIST1_SIZE => added[t] = checkTime

(* A timer that was added less than 16 s ahead is in the slot of its time, *)
(* and that slot's turn is to come.                                        *)
Soon(t) ==
    0 <= Ahead(t) /\ Ahead(t) < Span(2) =>
        \/ where[t] = SlotAt(1, trigger[t]) /\ Upcoming <= trigger[t]
        \/ /\ where[t] = SlotAt(2, trigger[t])
           /\ checkTime <= LIST1_SIZE * (trigger[t] \div LIST1_SIZE)
           /\ trigger[t] < checkTime + Span(2)

(* One that was overdue when it was added is in the slot that was next.    *)
Overdue(t) ==
    -Half <= Ahead(t) /\ Ahead(t) < 0 =>
        where[t] = SlotAt(1, added[t]) /\ Upcoming <= added[t]

OnTime(t) ==
    where[t] # None =>
        /\ added[t] \in Nat /\ added[t] <= checkTime
        /\ WithinRound(t) /\ Soon(t) /\ Overdue(t)

WheelInv ==
    /\ TimerTypeOK /\ (pc \in {"fire", "callback"} => checkTime > 0)
    /\ \A t \in Timers : OnTime(t)
    /\ HangsOnFullTurn

LEMMA WheelInit == TimerInit => WheelInv
<1> SUFFICES ASSUME TimerInit PROVE WheelInv
  OBVIOUS
<1>1. TimerTypeOK
  BY TimerWheelAssumption DEF TimerInit, TimerTypeOK
<1>2. \A t \in Timers : OnTime(t)
  BY DEF TimerInit, OnTime
<1> QED
  BY <1>1, <1>2 DEF TimerInit, WheelInv, HangsOnFullTurn

-----------------------------------------------------------------------------
(* A timer that was added just now. *)
LEMMA JustAdded ==
  ASSUME NEW t \in Timers, trigger'[t] \in Nat, checkTime' \in Nat,
         where'[t] = PlaceAt(trigger'[t], checkTime'), added'[t] = checkTime'
  PROVE  OnTime(t)'
<1> DEFINE x == trigger'[t]
           c == checkTime'
<1>1. x \in Nat /\ c \in Nat /\ Ahead(t)' = x - c
  BY DEF Ahead
<1>2. /\ LIST1_SIZE \in Nat /\ Span(2) \in Nat /\ Half \in Nat /\ Span(2) <= Half
      /\ LIST1_SIZE \in Nat \ {0}
  BY Lists, Moduli DEF Levels
<1>3. /\ 0 <= x - c /\ x - c < LIST1_SIZE => PlaceAt(x, c) = SlotAt(1, x)
      /\ LIST1_SIZE <= x - c /\ x - c < Span(2) => PlaceAt(x, c) = SlotAt(2, x)
      /\ -Half <= x - c /\ x - c < 0 => PlaceAt(x, c) = SlotAt(1, c)
      /\ 0 <= x - c /\ x - c < Half /\ PlaceAt(x, c)[1] = 1 =>
            x - c < LIST1_SIZE /\ PlaceAt(x, c) = SlotAt(1, x)
  BY <1>1, Placing
<1>4. where'[t] = PlaceAt(x, c) /\ added'[t] = c
  OBVIOUS
<1>u. Upcoming' \in {c, c - 1}
  <2>1. CASE pc' \in {"fire", "callback"}
    BY <2>1 DEF Upcoming, Millisecond
  <2>2. CASE pc' \notin {"fire", "callback"}
    BY <2>2 DEF Upcoming
  <2> QED
    BY <2>1, <2>2
<1> HIDE DEF x, c
<1>5. Upcoming' <= c
  BY <1>1, <1>u
<1>6. Upcoming' \in Int
  BY <1>1, <1>u
<1>7. WithinRound(t)'
  <2>1. \/ x - c < 0
        \/ ~ (PlaceAt(x, c)[1] = 1 /\ x - c < Half)
        \/ x - c < LIST1_SIZE /\ PlaceAt(x, c) = SlotAt(1, x)
    BY <1>1, <1>3
  <2>2. \/ x < c
        \/ ~ (PlaceAt(x, c)[1] = 1 /\ x - c < Half)
        \/ x < c + LIST1_SIZE /\ PlaceAt(x, c) = SlotAt(1, x)
    BY <1>1, <1>2, <2>1
  <2> QED
    BY <1>1, <1>4, <2>2 DEF WithinRound, x, c
<1>8. Soon(t)'
  <2>1. LIST1_SIZE * (x \div LIST1_SIZE) \in Nat /\ x < LIST1_SIZE * (x \div LIST1_SIZE) + LIST1_SIZE
    BY <1>1, SecondListTurn
  <2>2. ASSUME 0 <= x - c, x - c < Span(2), LIST1_SIZE <= x - c
        PROVE  /\ PlaceAt(x, c) = SlotAt(2, x)
               /\ c <= LIST1_SIZE * (x \div LIST1_SIZE) /\ x < c + Span(2)
    <3>1. PICK z \in Nat : z = LIST1_SIZE * (x \div LIST1_SIZE)
      BY <2>1
    <3> QED
      BY <1>1, <1>2, <1>3, <2>1, <2>2, <3>1
  <2>3. ASSUME 0 <= x - c, x - c < LIST1_SIZE
        PROVE  PlaceAt(x, c) = SlotAt(1, x) /\ Upcoming' <= x
    BY <1>1, <1>3, <1>5, <1>6, <2>3
  <2>4. LIST1_SIZE <= x - c \/ x - c < LIST1_SIZE
    BY <1>1, <1>2
  <2> QED
    BY <1>1, <1>4, <2>2, <2>3, <2>4 DEF Soon, x, c
<1>9. Overdue(t)'
  BY <1>1, <1>3, <1>4, <1>5 DEF Overdue, x, c
<1>10. c <= c
  BY <1>1
<1> QED
  BY <1>1, <1>4, <1>7, <1>8, <1>9, <1>10 DEF OnTime, c

(* A timer that nothing happens to. *)
LEMMA Untouched ==
  ASSUME NEW t \in Timers, OnTime(t), where'[t] = where[t], trigger'[t] = trigger[t],
         added'[t] = added[t], checkTime' = checkTime, Upcoming' = Upcoming
  PROVE  OnTime(t)'
<1>1. Ahead(t)' = Ahead(t) /\ Millisecond' = Millisecond
  BY DEF Ahead, Millisecond
<1> QED
  BY <1>1 DEF OnTime, WithinRound, Soon, Overdue

LEMMA Unlinked ==
  ASSUME NEW t \in Timers, where'[t] = None
  PROVE  OnTime(t)'
<1> QED
  BY DEF OnTime

LEMMA AddingInv ==
  ASSUME WheelInv, NEW t \in Timers, NewTimer(t) \/ AddAgain(t) \/ KillTimer(t)
  PROVE  WheelInv'
<1>1. /\ UNCHANGED <<clock, checkTime, now, pc, current>> /\ pc \in {"idle", "callback"}
      /\ TimerTypeOK /\ checkTime \in Nat /\ clock \in Nat
  BY DEF NewTimer, AddAgain, KillTimer, MayCall, WheelInv, TimerTypeOK
<1>2. /\ \A s \in Timers \ {t} : /\ where'[s] = where[s] /\ trigger'[s] = trigger[s]
                                 /\ added'[s] = added[s]
      /\ trigger' \in [Timers -> Nat] /\ interval' \in [Timers -> Nat]
      /\ count' \in [Timers -> Int]
  <2>1. CASE NewTimer(t)
    <3>1. PICK c \in Choices[t] : /\ trigger' = [trigger EXCEPT ![t] = clock + c[1]]
                                  /\ interval' = [interval EXCEPT ![t] = c[1]]
                                  /\ count' = [count EXCEPT ![t] = c[2]]
      BY <2>1 DEF NewTimer
    <3>2. c[1] \in Nat /\ c[2] \in Int
      BY <3>1, TimerWheelAssumption
    <3> QED
      BY <1>1, <2>1, <3>1, <3>2 DEF NewTimer, TimerTypeOK
  <2>2. CASE AddAgain(t) \/ KillTimer(t)
    BY <1>1, <2>2 DEF AddAgain, KillTimer, TimerTypeOK, timer
  <2> QED
    BY <2>1, <2>2
<1>3. \/ /\ where' = [where EXCEPT ![t] = PlaceAt(trigger'[t], checkTime)]
         /\ added' = [added EXCEPT ![t] = checkTime]
      \/ /\ where' = [where EXCEPT ![t] = None]
         /\ added' = [added EXCEPT ![t] = 0]
  <2>1. Place(t) = PlaceAt(trigger[t], checkTime) /\ Place(t)' = PlaceAt(trigger'[t], checkTime')
    BY PlaceIsPlaceAt
  <2> QED
    BY <1>1, <2>1 DEF NewTimer, AddAgain, KillTimer, timer
<1>4. /\ PlaceAt(trigger'[t], checkTime) \in Slots
      /\ where \in [Timers -> Slots \cup {None}] /\ added \in [Timers -> Nat \cup {-1}]
  BY <1>1, <1>2, Placing DEF TimerTypeOK
<1>5. where' \in [Timers -> Slots \cup {None}] /\ added' \in [Timers -> Nat \cup {-1}]
  BY <1>1, <1>3, <1>4
<1>6. TimerTypeOK'
  BY <1>1, <1>2, <1>5 DEF TimerTypeOK
<1>7. Upcoming' = Upcoming
  BY <1>1 DEF Upcoming, Millisecond
<1>8. ASSUME NEW s \in Timers PROVE OnTime(s)'
  <2>1. CASE s # t
    BY <1>1, <1>2, <1>7, <2>1, Untouched DEF WheelInv
  <2>2. CASE s = t
    <3>1. CASE where'[t] = None
      BY <2>2, <3>1, Unlinked
    <3>2. CASE where'[t] = PlaceAt(trigger'[t], checkTime') /\ added'[t] = checkTime'
      BY <1>1, <1>2, <2>2, <3>2, JustAdded
    <3> QED
      BY <1>1, <1>3, <1>4, <3>1, <3>2
  <2> QED
    BY <2>1, <2>2
<1>9. HangsOnFullTurn'
  BY <1>1 DEF HangsOnFullTurn
<1> QED
  BY <1>1, <1>6, <1>8, <1>9 DEF WheelInv

(* The clock goes on, UpdateTimers starts or returns. *)
LEMMA ClockInv ==
  ASSUME WheelInv, Clock \/ Update \/ TickDone \/ UNCHANGED timerVars
  PROVE  WheelInv'
<1>1. /\ UNCHANGED <<checkTime, where, trigger, interval, count, added, current>>
      /\ Upcoming' = Upcoming /\ (pc' \in {"fire", "callback", "hung"} => pc' = pc)
      /\ (pc' = "callback" <=> pc = "callback")
  BY DEF Clock, Update, TickDone, timerVars, timer, Upcoming, Millisecond
<1>2. TimerTypeOK'
  BY <1>1 DEF WheelInv, TimerTypeOK, Clock, Update, TickDone, timerVars
<1>3. \A t \in Timers : OnTime(t)'
  BY <1>1, Untouched DEF WheelInv
<1>4. HangsOnFullTurn'
  BY <1>1 DEF WheelInv, HangsOnFullTurn, Diff
<1> QED
  BY <1>1, <1>2, <1>3, <1>4 DEF WheelInv

(* A timer fires or expires. *)
LEMMA FiringInv ==
  ASSUME WheelInv, NEW t \in Timers, Fire(t) \/ Expire(t)
  PROVE  WheelInv'
<1>1. /\ UNCHANGED <<clock, checkTime, now, interval>> /\ pc = "fire"
      /\ pc' \in {"fire", "callback"} /\ Upcoming' = Upcoming
      /\ where' = [where EXCEPT ![t] = None]
  BY DEF Fire, Expire, Upcoming, Millisecond
<1>2. /\ trigger' \in [Timers -> Nat] /\ count' \in [Timers -> Int]
      /\ added' \in [Timers -> Nat \cup {-1}]
      /\ \A s \in Timers \ {t} : trigger'[s] = trigger[s] /\ added'[s] = added[s]
  BY DEF WheelInv, TimerTypeOK, Fire, Expire
<1>3. current' \in Timers \cup {None} /\ (current' # None <=> pc' = "callback")
  BY TimerWheelAssumption DEF WheelInv, TimerTypeOK, Fire, Expire
<1>4. TimerTypeOK'
  BY <1>1, <1>2, <1>3 DEF WheelInv, TimerTypeOK
<1>5. ASSUME NEW s \in Timers PROVE OnTime(s)'
  <2>1. CASE s = t
    BY <1>1, <2>1, Unlinked DEF WheelInv, TimerTypeOK
  <2>2. CASE s # t
    <3>1. where'[s] = where[s]
      BY <1>1, <2>2 DEF WheelInv, TimerTypeOK
    <3> QED
      BY <1>1, <1>2, <2>2, <3>1, Untouched DEF WheelInv
  <2> QED
    BY <2>1, <2>2
<1> QED
  BY <1>1, <1>4, <1>5 DEF WheelInv, HangsOnFullTurn

LEMMA ReturnInv ==
  ASSUME WheelInv, NEW again \in BOOLEAN, Return(again)
  PROVE  WheelInv'
<1>1. /\ UNCHANGED <<clock, checkTime, now, trigger, interval, count>>
      /\ pc = "callback" /\ pc' = "fire" /\ current' = None /\ Upcoming' = Upcoming
  BY DEF Return, timer, Upcoming, Millisecond
<1>2. current \in Timers /\ checkTime \in Nat /\ TimerTypeOK
  BY <1>1 DEF WheelInv, TimerTypeOK
<1>3. Place(current) = PlaceAt(trigger[current], checkTime)
  BY <1>2, PlaceIsPlaceAt
<1>4. PICK p \in Slots \cup {None}, a \in Nat :
         /\ where' = [where EXCEPT ![current] = p] /\ added' = [added EXCEPT ![current] = a]
         /\ p = None \/ (p = PlaceAt(trigger[current], checkTime) /\ a = checkTime)
  <2>1. PlaceAt(trigger[current], checkTime) \in Slots
    BY <1>2, Placing DEF TimerTypeOK
  <2>2. CASE again
    BY <1>2, <1>3, <2>1, <2>2 DEF Return
  <2>3. CASE ~again
    BY <2>3 DEF Return
  <2> QED
    BY <2>2, <2>3
<1>5. TimerTypeOK'
  BY <1>1, <1>2, <1>4 DEF TimerTypeOK
<1>6. ASSUME NEW s \in Timers PROVE OnTime(s)'
  <2>1. CASE s = current
    <3>1. where'[s] = p /\ added'[s] = a
      BY <1>2, <1>4, <2>1 DEF TimerTypeOK
    <3>2. CASE p = None
      BY <3>1, <3>2, Unlinked
    <3>3. CASE p = PlaceAt(trigger[current], checkTime) /\ a = checkTime
      <4>1. trigger'[s] \in Nat /\ checkTime' \in Nat
        BY <1>1, <1>2 DEF TimerTypeOK
      <4>2. where'[s] = PlaceAt(trigger'[s], checkTime') /\ added'[s] = checkTime'
        BY <1>1, <2>1, <3>1, <3>3
      <4> QED
        BY <4>1, <4>2, JustAdded
    <3> QED
      BY <1>4, <3>2, <3>3
  <2>2. CASE s # current
    <3>1. where'[s] = where[s] /\ added'[s] = added[s]
      BY <1>2, <1>4, <2>2 DEF TimerTypeOK
    <3> QED
      BY <1>1, <3>1, Untouched DEF WheelInv
  <2> QED
    BY <2>1, <2>2
<1> QED
  BY <1>1, <1>5, <1>6 DEF WheelInv, HangsOnFullTurn

(* The slot of a millisecond is done: nothing that is due is left in it. *)
LEMMA SlotDoneInv ==
  ASSUME WheelInv, SlotDone
  PROVE  WheelInv'
<1>1. /\ UNCHANGED <<clock, checkTime, now, current, where, trigger, interval, count, added>>
      /\ pc = "fire" /\ pc' = "tick" /\ Upcoming = checkTime - 1 /\ Upcoming' = checkTime
      /\ \A t \in Timers : where[t] # SlotAt(1, Millisecond)
  BY DEF SlotDone, timer, Upcoming, Millisecond, Linked
<1>2. TimerTypeOK'
  BY <1>1 DEF WheelInv, TimerTypeOK
<1>3. ASSUME NEW t \in Timers, where[t] # None PROVE OnTime(t)'
  <2>1. /\ OnTime(t) /\ checkTime \in Nat /\ trigger[t] \in Nat /\ added[t] \in Nat
        /\ added[t] <= checkTime /\ WithinRound(t) /\ Soon(t) /\ Overdue(t)
    BY <1>3 DEF WheelInv, TimerTypeOK, OnTime
  <2>2. Ahead(t)' = Ahead(t) /\ Millisecond = checkTime - 1 /\ Millisecond' = Millisecond
    BY <1>1 DEF Ahead, Millisecond
  <2>3. \A x \in Nat : where[t] = SlotAt(1, x) /\ Upcoming <= x => checkTime <= x
    BY <1>1, <2>1, <2>2
  <2>4. Soon(t)' /\ Overdue(t)'
    BY <1>1, <2>1, <2>2, <2>3 DEF Soon, Overdue
  <2>5. WithinRound(t)'
    BY <1>1, <2>1, <2>2 DEF WithinRound
  <2> QED
    BY <1>1, <2>1, <2>4, <2>5 DEF OnTime
<1>4. \A t \in Timers : OnTime(t)'
  BY <1>1, <1>3, Unlinked
<1> QED
  BY <1>1, <1>2, <1>4 DEF WheelInv, HangsOnFullTurn

-----------------------------------------------------------------------------
(* A turn of the wheel. *)

(* The timers that move on, and those that stay. *)
LEMMA Cascades ==
  ASSUME WheelInv
  PROVE  /\ Cascading # None =>
               /\ checkTime % LIST1_SIZE = 0
               /\ \E k \in 2 .. 5 : Cascading = SlotAt(k, checkTime)
         /\ \A t \in Timers : where[t] = SlotAt(2, checkTime) /\ checkTime % LIST1_SIZE = 0
               => Cascading = where[t]
<1>1. Size(1) = LIST1_SIZE
  BY Lists
<1>2. \A k \in Due : k \in 2 .. 5
  BY DEF Due
<1>3. ASSUME Cascading # None
      PROVE  checkTime % LIST1_SIZE = 0 /\ \E k \in 2 .. 5 : Cascading = SlotAt(k, checkTime)
  <2>1. checkTime % LIST1_SIZE = 0 /\ Due # {}
    BY <1>1, <1>3 DEF Cascading
  <2>2. \E k \in Due : \A j \in Due : k <= j
    <3>1. CASE 2 \in Due
      BY <1>2, <3>1
    <3>2. CASE 2 \notin Due /\ 3 \in Due
      BY <1>2, <3>2
    <3>3. CASE 2 \notin Due /\ 3 \notin Due /\ 4 \in Due
      BY <1>2, <3>3
    <3>4. CASE 2 \notin Due /\ 3 \notin Due /\ 4 \notin Due
      BY <1>2, <2>1, <3>4
    <3> QED
      BY <3>1, <3>2, <3>3, <3>4
  <2>3. PICK k : k = CHOOSE n \in Due : \A j \in Due : n <= j
    OBVIOUS
  <2>4. k \in Due
    BY <2>2, <2>3
  <2>5. Cascading = SlotAt(k, checkTime)
    BY <1>1, <2>1, <2>3 DEF Cascading
  <2> QED
    BY <1>2, <2>1, <2>4, <2>5
<1>4. ASSUME NEW t \in Timers, where[t] = SlotAt(2, checkTime), checkTime % LIST1_SIZE = 0
      PROVE  Cascading = where[t]
  <2>1. 2 \in Due
    BY <1>4 DEF Due, Linked
  <2>2. \A k \in Due : (\A j \in Due : k <= j) => k = 2
    BY <1>2, <2>1
  <2>3. \A j \in Due : 2 <= j
    BY <1>2
  <2>4. 2 = CHOOSE k \in Due : \A j \in Due : k <= j
    BY <2>1, <2>2, <2>3
  <2> QED
    BY <1>1, <1>4, <2>1, <2>4 DEF Cascading
<1> QED
  BY <1>3, <1>4

LEMMA TickInv ==
  ASSUME WheelInv, Tick
  PROVE  WheelInv'
<1>1. /\ TimerTypeOK /\ checkTime \in Nat /\ pc = "tick"
      /\ UNCHANGED <<clock, now, current, trigger, interval, count, added>>
  BY DEF Tick, WheelInv, TimerTypeOK, timer
<1>2. CASE Endless
  <2>1. pc' = "hung" /\ UNCHANGED <<checkTime, where>>
    BY <1>2 DEF Tick
  <2>2. TimerTypeOK'
    BY <1>1, <2>1 DEF TimerTypeOK
  <2>3. Upcoming' = Upcoming
    BY <1>1, <2>1 DEF Upcoming
  <2>4. \A t \in Timers : OnTime(t)'
    BY <1>1, <2>1, <2>3, Untouched DEF WheelInv
  <2>5. HangsOnFullTurn'
    <3>1. PICK t \in Timers : where[t] = Cascading /\ Cascading # None /\ Place(t) = Cascading
      BY <1>2 DEF Endless, Linked
    <3>2. PICK k \in 2 .. 5 : Cascading = SlotAt(k, checkTime) /\ checkTime % LIST1_SIZE = 0
      BY <3>1, Cascades
    <3>3. trigger[t] \in Nat /\ PlaceAt(trigger[t], checkTime) = SlotAt(k, checkTime)
      BY <1>1, <3>1, <3>2, PlaceIsPlaceAt DEF TimerTypeOK
    <3>4. k \in {3, 4} /\ Diff(t) > Span(k) - Unit(k) /\ Diff(t) < Span(k)
      BY <1>1, <3>2, <3>3, FullTurn DEF Diff
    <3>5. Diff(t)' = Diff(t)
      BY <1>1, <2>1 DEF Diff
    <3> QED
      BY <2>1, <3>1, <3>2, <3>4, <3>5 DEF HangsOnFullTurn
  <2> QED
    BY <2>1, <2>2, <2>4, <2>5 DEF WheelInv
<1>3. CASE ~Endless
  <2>1. /\ where' = [t \in Timers |-> IF where[t] = Cascading /\ where[t] # None
                                      THEN Place(t) ELSE where[t]]
        /\ checkTime' = checkTime + 1 /\ pc' = "fire"
    BY <1>3 DEF Tick
  <2>2. Upcoming = checkTime /\ Upcoming' = checkTime /\ Millisecond' = checkTime
    BY <1>1, <2>1 DEF Upcoming, Millisecond
  <2>3. ASSUME NEW t \in Timers PROVE where'[t] \in Slots \cup {None} /\ OnTime(t)'
    <3> DEFINE x == trigger[t]
               c == checkTime
    <3>1. x \in Nat /\ c \in Nat /\ added[t] \in Int /\ Ahead(t)' = Ahead(t)
          /\ Ahead(t) = x - added[t] /\ trigger'[t] = x /\ added'[t] = added[t]
      BY <1>1 DEF TimerTypeOK, Ahead
    <3>2. /\ LIST1_SIZE \in Nat \ {0} /\ Span(2) \in Nat /\ Half \in Nat /\ Span(2) <= Half
      BY Lists, Moduli DEF Levels
    <3>3. OnTime(t)
      BY DEF WheelInv
    <3>4. CASE where[t] = None
      BY <2>1, <3>4, Unlinked
    <3>5. CASE where[t] # None /\ where[t] # Cascading
      <4>1. where'[t] = where[t] /\ where[t] \in Slots
        BY <1>1, <2>1, <3>5 DEF TimerTypeOK
      <4>2. added[t] \in Nat /\ added[t] <= c /\ WithinRound(t) /\ Soon(t) /\ Overdue(t)
        BY <3>3, <3>5 DEF OnTime
      <4>3. WithinRound(t)'
        <5> HIDE DEF x, c
        <5>1. c' = c + 1
          BY <2>1 DEF c
        <5>2. \/ ~ (where[t][1] = 1 /\ Ahead(t) < Half)
              \/ x < c
              \/ where[t] = SlotAt(1, x) /\ x < c + LIST1_SIZE
          BY <4>2 DEF WithinRound, x, c
        <5>3. \/ ~ (where[t][1] = 1 /\ Ahead(t) < Half)
              \/ x < c + 1
              \/ /\ where[t] = SlotAt(1, x) /\ x < (c + 1) + LIST1_SIZE
                 /\ x # c + LIST1_SIZE
          BY <3>1, <3>2, <5>2
        <5> QED
          BY <2>1, <2>2, <3>1, <4>1, <5>1, <5>3 DEF WithinRound, x, c
      <4>4. Soon(t)'
        <5>1. ASSUME where[t] = SlotAt(2, x), c <= LIST1_SIZE * (x \div LIST1_SIZE)
              PROVE  c + 1 <= LIST1_SIZE * (x \div LIST1_SIZE)
          <6>1. /\ LIST1_SIZE * (x \div LIST1_SIZE) \in Nat
                /\ c = LIST1_SIZE * (x \div LIST1_SIZE) =>
                      c % LIST1_SIZE = 0 /\ SlotAt(2, c) = SlotAt(2, x)
            BY <3>1, SecondListTurn
          <6>2. c # LIST1_SIZE * (x \div LIST1_SIZE)
            BY <3>5, <5>1, <6>1, Cascades
          <6>3. \A a, b \in Nat : a <= b /\ a # b => a + 1 <= b
            OBVIOUS
          <6> QED
            BY <3>1, <5>1, <6>1, <6>2, <6>3
        <5>2. x < c + Span(2) => x < (c + 1) + Span(2)
          BY <3>1, <3>2
        <5> QED
          BY <2>1, <2>2, <3>1, <4>1, <4>2, <5>1, <5>2 DEF Soon
      <4>5. Overdue(t)'
        BY <2>2, <3>1, <4>1, <4>2 DEF Overdue
      <4>6. added[t] <= c + 1
        BY <3>1, <4>2
      <4> QED
        BY <2>1, <3>1, <4>1, <4>2, <4>3, <4>4, <4>5, <4>6 DEF OnTime
    <3>6. CASE where[t] # None /\ where[t] = Cascading
      <4>1. where'[t] = PlaceAt(x, c)
        BY <2>1, <3>6, PlaceIsPlaceAt
      <4>2. added[t] \in Nat /\ added[t] <= c /\ Soon(t) /\ Overdue(t)
        BY <3>3, <3>6 DEF OnTime
      <4>3. PICK k \in 2 .. 5 : where[t] = SlotAt(k, c) /\ c % LIST1_SIZE = 0
        BY <3>6, Cascades
      <4>4. where[t][1] = k /\ k # 1 /\ \A y \in Nat : SlotAt(1, y)[1] = 1 /\ SlotAt(2, y)[1] = 2
        BY <3>1, <4>3, SlotsOfList DEF Levels
      <4>5. /\ PlaceAt(x, c) \in Slots
            /\ 0 <= x - c /\ x - c < LIST1_SIZE => PlaceAt(x, c) = SlotAt(1, x)
            /\ 0 <= x - c /\ x - c < Half /\ PlaceAt(x, c)[1] = 1 =>
                  x - c < LIST1_SIZE /\ PlaceAt(x, c) = SlotAt(1, x)
        BY <3>1, Placing
      <4>6. WithinRound(t)'
        <5> HIDE DEF x, c
        <5>1. c' = c + 1
          BY <2>1 DEF c
        <5>2. ASSUME Ahead(t) < Half, PlaceAt(x, c)[1] = 1
              PROVE  \/ x < c + 1
                     \/ /\ PlaceAt(x, c) = SlotAt(1, x) /\ x < (c + 1) + LIST1_SIZE
                        /\ x # c + LIST1_SIZE
          <6>1. x - c < Half
            BY <3>1, <3>2, <4>2, <5>2 DEF c
          <6> QED
            BY <3>1, <3>2, <4>5, <5>2, <6>1
        <5> QED
          BY <2>1, <2>2, <3>1, <4>1, <5>1, <5>2 DEF WithinRound, x, c
      <4>7. Soon(t)'
        <5> SUFFICES ASSUME 0 <= Ahead(t), Ahead(t) < Span(2)
                     PROVE  where'[t] = SlotAt(1, x) /\ c <= x
          BY <2>2, <3>1 DEF Soon
        <5>1. /\ where[t] = SlotAt(2, x) /\ x < c + Span(2)
              /\ c <= LIST1_SIZE * (x \div LIST1_SIZE)
          BY <3>1, <4>2, <4>4 DEF Soon
        <5>2. k = 2
          BY <3>1, <4>4, <5>1
        <5>3. c <= x /\ x < c + LIST1_SIZE
          BY <3>1, <4>3, <5>1, <5>2, SecondListTurn
        <5> QED
          BY <3>1, <3>2, <4>1, <4>5, <5>3
      <4>8. Overdue(t)'
        BY <3>1, <4>2, <4>4 DEF Overdue
      <4>9. added[t] <= c + 1
        BY <3>1, <4>2
      <4> QED
        BY <2>1, <3>1, <4>1, <4>2, <4>5, <4>6, <4>7, <4>8, <4>9 DEF OnTime
    <3> QED
      BY <3>4, <3>5, <3>6
  <2>4. where' \in [Timers -> Slots \cup {None}]
    BY <2>1, <2>3
  <2>5. TimerTypeOK'
    BY <1>1, <2>1, <2>4 DEF TimerTypeOK
  <2>6. checkTime' > 0
    BY <1>1, <2>1
  <2> QED
    BY <2>1, <2>3, <2>5, <2>6 DEF WheelInv, HangsOnFullTurn
<1> QED
  BY <1>2, <1>3

LEMMA WheelNext == WheelInv /\ [TimerNext]_timerVars => WheelInv'
<1> SUFFICES ASSUME WheelInv, [TimerNext]_timerVars PROVE WheelInv'
  OBVIOUS
<1>1. ASSUME NEW t \in Timers, NewTimer(t) \/ AddAgain(t) \/ KillTimer(t) PROVE WheelInv'
  BY <1>1, AddingInv
<1>2. ASSUME NEW t \in Timers, Fire(t) \/ Expire(t) PROVE WheelInv'
  BY <1>2, FiringInv
<1>3. ASSUME NEW again \in BOOLEAN, Return(again) PROVE WheelInv'
  BY <1>3, ReturnInv
<1>4. CASE Clock \/ Update \/ TickDone \/ UNCHANGED timerVars
  BY <1>4, ClockInv
<1>5. CASE Tick
  BY <1>5, TickInv
<1>6. CASE SlotDone
  BY <1>6, SlotDoneInv
<1> QED
  BY <1>1, <1>2, <1>3, <1>4, <1>5, <1>6 DEF TimerNext, Application, UpdateStep

(* The inductive invariant of the timers holds in every state. *)
THEOREM WheelInvariance == TimerSpec => []WheelInv
<1> QED
  BY WheelInit, WheelNext, PTL DEF TimerSpec

(* The timers and their slots keep their types, whatever the sizes of the  *)
(* lists: no index leaves its list.                                        *)
THEOREM SlotsExist == TimerSpec => []TimerTypeOK
<1>1. WheelInv => TimerTypeOK
  BY DEF WheelInv
<1> QED
  BY <1>1, WheelInvariance, PTL

(* UpdateTimers runs for ever only in _Cacsade, on a timer of list 3 or 4  *)
(* that is nearly a full turn ahead.                                       *)
THEOREM HangsOnlySo == TimerSpec => []HangsOnFullTurn
<1>1. WheelInv => HangsOnFullTurn
  BY DEF WheelInv
<1> QED
  BY <1>1, WheelInvariance, PTL

(* The timer that fires is in the slot of the millisecond. *)
LEMMA Firing ==
  ASSUME WheelInv, NEW t \in Timers, Fires(t)
  PROVE  /\ pc = "fire" /\ where[t] = SlotAt(1, Millisecond) /\ where[t] # None
         /\ where[t][1] = 1 /\ Millisecond \in Nat /\ checkTime = Millisecond + 1
         /\ trigger[t] \in Nat /\ added[t] \in Nat /\ added[t] <= checkTime
         /\ WithinRound(t) /\ Soon(t) /\ Overdue(t)
<1>1. pc = "fire" /\ where[t] = SlotAt(1, Millisecond)
  BY DEF Fires, Fire, Expire
<1>2. /\ checkTime \in Nat /\ checkTime > 0 /\ trigger[t] \in Nat
      /\ Millisecond \in Nat /\ checkTime = Millisecond + 1
  BY <1>1 DEF WheelInv, TimerTypeOK, Millisecond
<1>3. where[t] \in Slots /\ where[t][1] = 1
  BY <1>1, <1>2, SlotsOfList DEF Levels
<1>4. where[t] # None
  BY <1>3, TimerWheelAssumption
<1> QED
  BY <1>1, <1>2, <1>3, <1>4 DEF WheelInv, OnTime

(* A timer never fires early, but for one a round or 2^31 ms ahead. *)
THEOREM FiresNotEarly == TimerSpec => NeverEarly
<1>1. ASSUME WheelInv, NEW t \in Timers, Fires(t), trigger[t] > Millisecond
      PROVE  \/ trigger[t] = Millisecond + Size(1) /\ added[t] = checkTime
             \/ Ahead(t) >= Half
  <2>1. /\ where[t] = SlotAt(1, Millisecond) /\ where[t][1] = 1
        /\ Millisecond \in Nat /\ checkTime = Millisecond + 1
        /\ trigger[t] \in Nat /\ added[t] \in Nat /\ WithinRound(t)
    BY <1>1, Firing
  <2>2. Size(1) = LIST1_SIZE /\ LIST1_SIZE \in Nat /\ Half \in Nat
    BY Lists, Moduli
  <2>3. Ahead(t) \in Int
    BY <2>1 DEF Ahead
  <2> SUFFICES ASSUME Ahead(t) < Half
               PROVE  trigger[t] = Millisecond + LIST1_SIZE /\ added[t] = checkTime
    BY <2>2, <2>3
  <2>4. /\ SlotAt(1, Millisecond) = SlotAt(1, trigger[t])
        /\ trigger[t] <= Millisecond + LIST1_SIZE
        /\ trigger[t] = Millisecond + LIST1_SIZE => added[t] = checkTime
    BY <1>1, <2>1, <2>2 DEF WithinRound
  <2>5. trigger[t] = Millisecond + LIST1_SIZE
    BY <1>1, <2>1, <2>4, RoundApart
  <2> QED
    BY <2>4, <2>5
<1>2. WheelInv => [\A t \in Timers : Fires(t) /\ trigger[t] > Millisecond =>
                      \/ trigger[t] = Millisecond + Size(1) /\ added[t] = checkTime
                      \/ Ahead(t) >= Half]_timerVars
  BY <1>1
<1> QED
  BY <1>2, WheelInvariance, PTL DEF NeverEarly

(* A timer less than 16 s ahead never fires late, but for one that was     *)
(* overdue already.                                                        *)
THEOREM FiresInTime == TimerSpec => NearOnTime
<1>1. ASSUME WheelInv, NEW t \in Timers, Fires(t), trigger[t] < Millisecond
      PROVE  \/ Ahead(t) < 0 /\ added[t] = Millisecond
             \/ Ahead(t) >= Span(2) \/ Ahead(t) < -Half
  <2>1. /\ where[t] = SlotAt(1, Millisecond) /\ where[t][1] = 1 /\ pc = "fire"
        /\ Millisecond \in Nat /\ checkTime = Millisecond + 1
        /\ trigger[t] \in Nat /\ added[t] \in Nat /\ added[t] <= checkTime
        /\ Soon(t) /\ Overdue(t)
    BY <1>1, Firing
  <2>2. LIST1_SIZE \in Nat \ {0, 1} /\ Span(2) \in Nat /\ Half \in Nat
    BY Lists, Moduli DEF Levels
  <2>3. Ahead(t) \in Int /\ Upcoming = Millisecond
    BY <2>1 DEF Ahead, Upcoming
  <2>4. CASE 0 <= Ahead(t) /\ Ahead(t) < Span(2)
    <3>1. SlotAt(2, trigger[t])[1] = 2
      BY <2>1, SlotsOfList DEF Levels
    <3>2. Upcoming <= trigger[t]
      BY <2>1, <2>4, <3>1 DEF Soon
    <3> QED
      BY <1>1, <2>1, <2>3, <3>2
  <2>5. CASE -Half <= Ahead(t) /\ Ahead(t) < 0
    <3>1. where[t] = SlotAt(1, added[t]) /\ Millisecond <= added[t]
      BY <2>3, <2>1, <2>5 DEF Overdue
    <3>2. added[t] # Millisecond + 1
      <4>1. added[t] = Millisecond + 1 => added[t] = Millisecond + LIST1_SIZE
        BY <2>1, <2>2, <3>1, RoundApart
      <4> QED
        BY <2>1, <2>2, <4>1
    <3> QED
      BY <2>1, <2>5, <3>1, <3>2
  <2> QED
    BY <2>2, <2>3, <2>4, <2>5
<1>2. WheelInv => [\A t \in Timers : Fires(t) /\ trigger[t] < Millisecond =>
                      \/ Ahead(t) < 0 /\ added[t] = Millisecond
                      \/ Ahead(t) >= Span(2) \/ Ahead(t) < -Half]_timerVars
  BY <1>1
<1> QED
  BY <1>2, WheelInvariance, PTL DEF NearOnTime
=============================================================================
