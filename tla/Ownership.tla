----------------------------- MODULE Ownership -----------------------------
(* What SharedPtr and WeakPtr promise: an object lives as long as somebody *)
(* owns it, ends once, and nobody comes to own it after that.              *)
CONSTANT Handles

VARIABLES owners,  \* the handles that own the object
          alive    \* the object was not destroyed yet

Init == owners # {} /\ owners \subseteq Handles /\ alive = TRUE

(* Whoever owns it, or finds it owned, may make one more owner. *)
Gain(h) ==
    /\ owners # {}
    /\ owners' = owners \cup {h}
    /\ UNCHANGED alive

Lose(h) ==
    /\ owners' = owners \ {h}
    /\ UNCHANGED alive

End ==
    /\ owners = {} /\ alive
    /\ alive' = FALSE
    /\ UNCHANGED owners

Next == End \/ \E h \in Handles : Gain(h) \/ Lose(h)

Spec == Init /\ [][Next]_<<owners, alive>>
=============================================================================
