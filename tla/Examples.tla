------------------------------- MODULE Examples -------------------------------
(***************************************************************************)
(* The programs of src/examples, at their smallest sizes, in the form      *)
(* Forwarding runs.                                                        *)
(***************************************************************************)
EXTENDS ForwardingProps, TLC

CONSTANTS
  v1, v2,       \* variables that start with a value
  main, f1, f2  \* the application, and the threads of functors

R(v) == [v |-> v, w |-> FALSE]
W(v) == [v |-> v, w |-> TRUE]

(* A program from the makers of its variables and tasks, the arguments of its tasks, what
   it waits for and what its functors return. *)
Makers(m) == [n \in Nodes |-> IF n \in DOMAIN m THEN m[n] ELSE NoTask]
App(m, as, ws, rs) == [by |-> Makers(m),
                       args |-> [t \in Tasks |-> IF t \in DOMAIN as THEN as[t] ELSE <<>>],
                       waits |-> ws,
                       returns |-> [t \in Tasks |-> IF t \in DOMAIN rs THEN rs[t] ELSE NoTask]]

(* Fib(2): it launches Fib(0), calls Fib(1) and returns the sum of the two. *)
Fib == App(1 :> main @@ v1 :> f1 @@ 2 :> f1 @@ 3 :> f1 @@ v2 :> f2,
           3 :> <<W(v1), W(2)>>,
           {},
           1 :> 3 @@ 2 :> v2)

(* The disk usage of a directory of one file: the sum is added to, and returned. *)
disk_usage == App(1 :> main @@ v1 :> f1 @@ 2 :> f1 @@ 5 :> f1 @@ v2 :> f2,
                  5 :> <<W(v1), W(2)>>,
                  {},
                  1 :> v1 @@ 2 :> v2)

(* The longest common subsequence of a string of two characters with one of one: each cell
   reads its neighbours.  Those outside, which are variables of their own with the same
   default value, are one variable here, read once by a cell. *)
LCS == App(v1 :> main @@ 1 :> main @@ 2 :> main,
           1 :> <<R(v1)>> @@ 2 :> <<R(v1), R(1)>>,
           {2},
           <<>>)
=============================================================================
