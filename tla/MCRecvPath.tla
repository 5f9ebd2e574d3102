----------------------------- MODULE MCRecvPath -----------------------------
(* RecvPath with a ring of eight cells, heads of two bytes and ints of six *)
(* bits (-32 .. 31), the smallest in which 3 * length can wrap for a       *)
(* length above two thirds of the ring.                                    *)
EXTENDS RecvPath

(* None, short, the longest accepted, too long by one, negative, and one   *)
(* whose triple wraps to a negative number.                                *)
SomeLengths == {0, 2, 5, 6, -1, 11}
=============================================================================
