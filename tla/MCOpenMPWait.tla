---------------------------- MODULE MCOpenMPWait ----------------------------
EXTENDS OpenMPWait

CONSTANTS shared, c1

(* A task and a second one that reads its result. *)
Chain   == <<{<<[v |-> shared, w |-> TRUE]>>}, {<<[v |-> 1, w |-> FALSE]>>}>>
Anytime == [v \in Nodes |-> [after |-> {}, inner |-> {}]]
=============================================================================
