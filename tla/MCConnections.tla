--------------------------- MODULE MCConnections ---------------------------
(* Connections with two network threads that hold one socket each: a       *)
(* listener in the first, a client in the second.                          *)
EXTENDS Connections

CONSTANTS l, k1, c1, c2

SomeOpeners == <<l, k1>>
=============================================================================
