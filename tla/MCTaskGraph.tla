----------------------------- MODULE MCTaskGraph -----------------------------
EXTENDS DeferredRace

CONSTANTS shared, c1, c2

R(v) == [v |-> v, w |-> FALSE]
W(v) == [v |-> v, w |-> TRUE]

(* Three tasks over a variable and each other's results. *)
Programs == <<{<<W(shared)>>},
              {<<R(shared)>>, <<W(shared), R(1)>>},
              {<<W(shared)>>, <<W(1), R(2)>>}>>

(* Two tasks: the second reads or overwrites the first's result, alone or after it has read
   or overwritten the variable. *)
Pairs == <<{<<R(shared)>>, <<W(shared)>>},
           {<<R(1)>>, <<W(1)>>, <<R(shared), W(1)>>, <<W(shared), W(1)>>}>>

(* Readers and the writers of a variable that starts deferred. *)
FirstWrites == <<{<<R(shared)>>, <<W(shared)>>}, {<<R(shared)>>, <<W(shared)>>}, {<<W(shared)>>}>>

(* The variables leave scope in the reverse order of their creation, after the last task;
   or only it does; or each whenever the client likes. *)
Nested  == [v \in Nodes |-> [after |-> Tasks, inner |-> {t \in Tasks : v = shared \/ t > v}]]
OnlyShared   == [v \in Nodes |-> [after |-> Tasks, inner |-> {v} \ {shared}]]
Anytime == [v \in Nodes |-> [after |-> {}, inner |-> {}]]
=============================================================================
