---------------------------- MODULE RundownGate ----------------------------
(* What a rundown guard promises: once it is closed nobody is inside, and   *)
(* nobody comes in.                                                         *)
CONSTANT Users

VARIABLES inside, closed

Init == inside = {} /\ closed = FALSE

Enter(t) == ~closed /\ t \notin inside /\ inside' = inside \cup {t} /\ UNCHANGED closed
Leave(t) == t \in inside /\ inside' = inside \ {t} /\ UNCHANGED closed
Close == ~closed /\ inside = {} /\ closed' = TRUE /\ UNCHANGED inside

Next == Close \/ \E t \in Users : Enter(t) \/ Leave(t)

Spec == Init /\ [][Next]_<<inside, closed>>
=============================================================================
