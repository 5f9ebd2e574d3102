--------------------------- MODULE MCSharedCount ---------------------------
(* SharedCount with five handles: the last owner, a watcher and two that   *)
(* are promoted at the same time.                                          *)
EXTENDS SharedCount

CONSTANTS h1, h2, h3, h4, h5

FiveHandles == {h1, h2, h3, h4, h5}
=============================================================================
