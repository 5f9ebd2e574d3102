------------------------------ MODULE ByteFifo ------------------------------
(***************************************************************************)
(* What a CircularBuffer (src/base/Buffer.h) promises to the two threads   *)
(* that share it: a bounded first-in first-out queue of bytes.  A byte is  *)
(* identified by its position in the stream of all bytes ever accepted, so *)
(* a lost, repeated, reordered or invented byte is visible in the queue.   *)
(***************************************************************************)
EXTENDS Integers, Sequences

CONSTANT Bound          \* the number of bytes the queue can hold

VARIABLES fifo,         \* the bytes accepted and not yet taken, oldest first
          accepted      \* how many bytes were accepted since the beginning

vars == <<fifo, accepted>>

Init == fifo = <<>> /\ accepted = 0

(* A writer hands over n bytes, all of them or none. *)
Put(n) ==
    /\ Len(fifo) + n <= Bound
    /\ fifo' = fifo \o [i \in 1..n |-> accepted + i - 1]
    /\ accepted' = accepted + n

(* A reader removes the n oldest bytes. *)
Take(n) ==
    /\ n <= Len(fifo)
    /\ fifo' = SubSeq(fifo, n + 1, Len(fifo))
    /\ UNCHANGED accepted

Next == \E n \in 1..Bound : Put(n) \/ Take(n)

Spec == Init /\ [][Next]_vars
=============================================================================
