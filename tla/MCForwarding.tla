---------------------------- MODULE MCForwarding ----------------------------
EXTENDS Examples

RunsIn == <<f1, f2, main, main, main>>

(* A functor that returns what a functor returns, and a consumer of it. *)
Deep     == App(1 :> main @@ 2 :> f1 @@ 3 :> f2, <<>>, {1}, 1 :> 2 @@ 2 :> 3)
DeepUser == App(1 :> main @@ 2 :> f1 @@ 3 :> f2 @@ 4 :> main, 4 :> <<R(1)>>, {}, 1 :> 2 @@ 2 :> 3)

(* A reader of a forwarded result; a writer of one that its functor had written to. *)
Reader == App(1 :> main @@ 2 :> f1 @@ 4 :> main, 4 :> <<R(1)>>, {}, 1 :> 2)
Taker  == App(1 :> main @@ v1 :> f1 @@ 5 :> f1 @@ 4 :> main,
              5 :> <<W(v1)>> @@ 4 :> <<W(1)>>, {}, 1 :> v1)

(* The same with a reader in the place of the first writer. *)
Left == App(1 :> main @@ v1 :> f1 @@ 5 :> f1 @@ 4 :> main,
            5 :> <<R(v1)>> @@ 4 :> <<W(1)>>, {}, 1 :> v1)

Apps      == <<Deep, Fib, disk_usage, LCS, Reader, Taker, Left>>
DeepReads == <<DeepUser>>

AllArgs == [t \in Tasks |-> {Programs[i].args[t] : i \in DOMAIN Programs}]
Scopes == [v \in Nodes |-> [after |-> {}, inner |-> IF v = 1 THEN {4} ELSE {}]]
=============================================================================
