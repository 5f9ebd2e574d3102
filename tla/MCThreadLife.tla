---------------------------- MODULE MCThreadLife ----------------------------
(* ThreadLife with one network thread and one that ExecuteTask adds, two   *)
(* callers, and two one-shot tasks, the second of which may find the first *)
(* one's thread idle.                                                      *)
EXTENDS ThreadLife, TLC

CONSTANTS n1, s1, net1, task1, task2, c1, c2

OneNetTask == n1 :> net1
=============================================================================
