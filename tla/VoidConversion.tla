---------------------------- MODULE VoidConversion ----------------------------
(***************************************************************************)
(* The conversion of a var with a value to a node, var<void> (oox.h,       *)
(* var<void>(var<D>&&)): the new var stands for the same version, and the  *)
(* reference of the value's storage, which it has no use for, is given     *)
(* back.                                                                   *)
(***************************************************************************)
EXTENDS TaskGraphProps

VARIABLES converted   \* the variables that have become nodes

convVars == <<vars, converted>>

(* The copy keeps storage_offset, so that release() will name the origin as the owner. *)
Convert(x, v) ==
  /\ ~InCall(x) /\ MayDrop(x, v)
  /\ v \notin converted /\ ~IsVoid(v) /\ ~var[v].deferred
  /\ \A t \in Tasks : phase[t] # "idle"
  /\ converted' = converted \cup {v}
  /\ todo' = [todo EXCEPT ![x] = <<F("rel", v, 0, 1)>>]
  /\ UNCHANGED <<node, engine, setup, ghost>>

ConvInit == Init /\ converted = {}
ConvNext == \/ Next /\ UNCHANGED converted
            \/ \E x \in Clients : \E v \in Nodes : Convert(x, v)
ConvSpec == ConvInit /\ [][ConvNext]_convVars

(* task_life::life_release never takes more than is there. *)
LifeCountValid == \A x \in Threads : At(x, "sub") => life[Cur(x).node] >= Cur(x).k
=============================================================================
