---------------------------- MODULE MCTimerWheel ----------------------------
(* TimerWheel with 2 slots in the first list and 4 in each other: lists    *)
(* that reach 2, 8, 32, 128 and 512 ms, an int of as many values.          *)
EXTENDS TimerWheel, TLC

CONSTANTS t1, t2

(* One that keeps going, next to one in each of the five lists (what is    *)
(* due at once, or as far ahead as looks negative, goes into the first).   *)
SomeChoices ==
    t1 :> {<<2, -1>>} @@
    t2 :> {<<0, -1>>, <<7, 1>>, <<28, 1>>, <<100, 1>>, <<200, 1>>, <<256, 1>>}
=============================================================================
