----------------------------- MODULE OpenMPWait -----------------------------
(***************************************************************************)
(* TaskGraph on the OpenMP backend of src/oox/oox.h: spawn() makes a child *)
(* of the OpenMP task it is called in, wait() is a taskwait and wakeup()   *)
(* does nothing.  A taskwait waits for the children of the task that calls *)
(* it, whichever variable the wait was for.                                *)
(***************************************************************************)
EXTENDS TaskGraphProps

VARIABLE children   \* the tasks each thread has spawned

ompVars == <<vars, children>>

(* #pragma omp task: the tasks that a step of thread x gives something to run. *)
Spawned(x) == {t \in Tasks \ {x} : todo[t] = <<>> /\ todo'[t] # <<>>}
Adopt(x)   == children' = [children EXCEPT ![x] = @ \cup Spawned(x)]

(* #pragma omp taskwait *)
TaskWait(x) ==
  /\ At(x, "block")
  /\ \A t \in children[x] : todo[t] = <<>>
  /\ Then(x, <<>>)
  /\ UNCHANGED <<node, engine, setup, ghost, children>>

OmpInit == Init /\ children = [x \in Threads |-> {}]

OmpNext ==
  \/ \E x \in Clients : \/ TaskWait(x)
                        \/ (Call(x) \/ ClientStep(x)) /\ ~At(x, "block") /\ UNCHANGED children
  \/ \E x \in Threads : CountStep(x) /\ Adopt(x)
  \/ \E t \in Tasks : WorkerStep(t) /\ UNCHANGED children
  \/ Rest /\ UNCHANGED children

OmpSpec == OmpInit /\ [][OmpNext]_ompVars

(* The assertion of oox_var_base::wait: when it returns, the task waited for is done. *)
WaitedForDone == \A x \in Clients : At(x, "get") => head[var[Cur(x).node].cur].tag = "done"
=============================================================================
