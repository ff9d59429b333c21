---------------------------- MODULE DeferredRace ----------------------------
(***************************************************************************)
(* The race of TaskGraph's first writer and readers on the var object      *)
(* itself.  oox_var_base::current_task and the port are plain fields: a    *)
(* thread that reads them in setup while another is in set_next_writer     *)
(* may see the new task with the old port.                                 *)
(***************************************************************************)
EXTENDS TaskGraphProps

(* Whether another client is giving v its first writer right now. *)
Racing(x, v) == \E y \in Clients \ {x} : Modifies(y, v)

(* The first writer's new current_task with the port the var had before. *)
TornReadArg(x) ==
  /\ At(x, "arg")
  /\ LET a == args[making[x]][Cur(x).port] IN
     /\ ~a.w /\ Racing(x, a.v) /\ var[a.v].cur \in Tasks
     /\ Then(x, <<F("link", var[a.v].cur, 0, 0)>>)
  /\ UNCHANGED <<node, engine, setup, ghost>>

TornNext == Next \/ \E x \in Clients : TornReadArg(x)
TornSpec == Init /\ [][TornNext]_vars
=============================================================================
