-------------------------- MODULE MCCircularBuffer --------------------------
(* CircularBuffer with four cells: enough for both ways of wrapping, for a *)
(* piece that does not fit, and for the ring to go round twice.            *)
EXTENDS CircularBuffer
=============================================================================
