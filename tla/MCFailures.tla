----------------------------- MODULE MCFailures -----------------------------
EXTENDS FailuresProps

CONSTANTS u1, u2

In(t, p) == [task |-> t, port |-> p]

(* A producer, a reader of its result and a reader of both, of the first by the variable
   it was to write. *)
Diamond == [inputs |-> <<<<>>, <<In(1, 0)>>, <<In(1, 1), In(2, 0)>>>>,
            returns |-> <<0, 0, 0>>,
            throws |-> {1, 2}, waits |-> {2, 3}, cancels |-> {1, 2}]

(* A functor that launches a task and returns its var, and a reader of the outcome. *)
Forwarding == [inputs |-> <<<<>>, <<In(1, 0)>>, <<>>>>,
               returns |-> <<3, 0, 0>>,
               throws |-> {1, 3}, waits |-> {1, 2}, cancels |-> {1}]

Graphs == <<Diamond, Forwarding>>
Ends   == <<[Diamond EXCEPT !.waits = {3}, !.cancels = {1}],
            [Forwarding EXCEPT !.throws = {3}, !.waits = {1}]>>
=============================================================================
