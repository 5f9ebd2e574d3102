----------------------------- MODULE MCLogPipe -----------------------------
(* LogPipe with lines of at most two parts, each a text of one character,  *)
(* a longer one, or a number one character longer than was reserved.       *)
EXTENDS LogPipe

CONSTANTS w1, w2

SomeParts == {[chars |-> 1, reserve |-> 1], [chars |-> 2, reserve |-> 1]}
=============================================================================
