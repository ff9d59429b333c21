----------------------------- MODULE MCStdWait -----------------------------
EXTENDS StdWait

CONSTANTS shared, c1, c2, c3

R(v) == [v |-> v, w |-> FALSE]
W(v) == [v |-> v, w |-> TRUE]

(* Readers and the writers of a variable that starts deferred. *)
FirstWrites == <<{<<R(shared)>>, <<W(shared)>>}, {<<R(shared)>>, <<W(shared)>>}, {<<W(shared)>>}>>

(* The variables leave scope in the reverse order of their creation, after the last task. *)
Nested == [v \in Nodes |-> [after |-> Tasks, inner |-> {t \in Tasks : v = shared \/ t > v}]]
=============================================================================
