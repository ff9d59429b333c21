------------------------------ MODULE Forwarding ------------------------------
(***************************************************************************)
(* Tasks whose functor returns a var (src/oox/oox.h, functional_task<slots,*)
(* F, var<VT>>): the functor launches tasks of its own, the task keeps the *)
(* var it returned as its result and suspends itself until that var's      *)
(* producer is done; only then does it notify its own successors.          *)
(*                                                                         *)
(* A functor is a client of the engine: the thread that runs it creates    *)
(* variables, launches tasks and drops its locals.  The rest of its task's *)
(* execute() waits in todo of the task.                                    *)
(***************************************************************************)
EXTENDS TaskGraph

CONSTANTS
  Functor,   \* the thread the functor of each task runs in
  Programs   \* what the application may be: who makes which variable and launches which
             \* task with which arguments, what is waited for, and what the functors return

ASSUME ForwardingAssumption ==
  /\ Functor \in [Tasks -> Clients]
  /\ Programs \in Seq([by : [Nodes -> Clients \cup {NoTask}],
                       args : [Tasks -> Seq([v : Nodes, w : BOOLEAN])],
                       waits : SUBSET Waitable,
                       returns : [Tasks -> Nodes \cup {NoTask}]])
  /\ \A i \in DOMAIN Programs : \A t \in Tasks : Programs[i].args[t] \in ArgLists[t]

VARIABLES
  prog,    \* the program of this behaviour
  result,  \* the var in a forwarding task's result_state
  stage    \* of execute(): before, functor, attach, suspended or ready to notify

forwarding == <<prog, result, stage>>
allVars    == <<vars, forwarding>>

By(n)      == Programs[prog].by[n]
Args(t)    == Programs[prog].args[t]
Returns(t) == Programs[prog].returns[t]
Forwarders == {t \in Tasks : Returns(t) # NoTask}

(* Threads that are no functor's are the application's; a functor's thread makes calls
   while the functor runs. *)
Working(x) == \A f \in Forwarders : Functor[f] = x => stage[f] = "functor"
MovedOut(x) == {Returns(f) : f \in {g \in Forwarders : Functor[g] = x}}

(***************************************************************************)
(* The application and the functors                                        *)
(***************************************************************************)
MakeVar(x, s) ==
  /\ By(s) = x
  /\ Allocate(x, s)

LaunchTask(x, t) ==
  /\ By(t) = x
  /\ \A n \in Nodes : By(n) = x /\ (n \in Storage \/ n < t) => node[n] # "unborn"
  /\ Launch(x, t, Args(t))

(* A local goes out of scope after its last use; the returned var is moved out. *)
DropLocal(x, v) ==
  /\ By(v) = x /\ v \notin MovedOut(x)
  /\ \A t \in Tasks : (\E i \in DOMAIN Args(t) : Args(t)[i].v = v) => phase[t] # "idle"
  /\ Drop(x, v)

WaitFor(x, v) ==
  /\ By(v) = x /\ v \in Programs[prog].waits
  /\ WaitVar(x, v)

(***************************************************************************)
(* functional_task<slots, F, var<VT>>::execute                             *)
(***************************************************************************)
(* The guard of execute() released as the suspended task's thread leaves it. *)
Guard(f) == F("rel", f, 0, 1)

StartFunctor(f) ==
  /\ stage[f] = "before"
  /\ Start(f)
  /\ stage' = [stage EXCEPT ![f] = "functor"]
  /\ UNCHANGED <<prog, result>>

(* What the continuation waits for, and its hold on the task.  Mutants: one prerequisite
   too many; no hold. *)
ResumeCountTwo(f) == [startCount EXCEPT ![f] = 2]
ResumeCount(f)    == [startCount EXCEPT ![f] = 1]
ContinuationHoldsNot(f) == life
ContinuationHolds(f)    == [life EXCEPT ![f] = @ + 1]

(* The functor returns and its locals are gone: the var it returned is the result, and
   start_count and life_count are set up for one more execute().  Nobody looks at the
   start_count of a task that runs. *)
Emplace(f) ==
  /\ stage[f] = "functor" /\ ~InCall(Functor[f])
  /\ \A n \in Nodes : By(n) = Functor[f] =>
       node[n] # "unborn" /\ (var[n].live <=> n = Returns(f))
  /\ result' = [result EXCEPT ![f] = Returns(f)]
  /\ startCount' = ResumeCount(f)
  /\ life' = ContinuationHolds(f)
  /\ stage' = [stage EXCEPT ![f] = "attach"]
  /\ UNCHANGED <<node, head, nextWriter, countdown, woken, count, refs, setup, todo, ghost, prog>>

(* Whom a forwarder waits for.  Mutant: the node its result started from. *)
ProducerFirst(r) == r
Producer(r)      == var[r].cur

(* Mutant: execute() does not look whether the arc was taken. *)
LeavesAnyway(accepted) == TRUE
Leaves(accepted)       == accepted

(* The flow-only arc onto the producer of the result.  If it takes it the thread leaves
   execute(); else the value is there, and the task goes on as it is. *)
Attach(f) ==
  /\ stage[f] = "attach"
  /\ LET n == Producer(result[f])
         accepted == head[n].tag = "open" IN
     /\ IF accepted THEN Push(n, FlowOnly(f, 0)) ELSE UNCHANGED head
     /\ \/ /\ Leaves(accepted)
           /\ stage' = [stage EXCEPT ![f] = "suspended"]
           /\ todo' = [todo EXCEPT ![f] = <<>>, ![Functor[f]] = <<Guard(f)>>]
        \/ /\ ~Leaves(accepted)
           /\ stage' = [stage EXCEPT ![f] = "ready"]
           /\ todo' = [todo EXCEPT ![f] = <<Guard(f)>> \o @]
  /\ UNCHANGED <<node, startCount, life, nextWriter, countdown, woken, count, refs, setup, ghost,
                 prog, result>>

(* The second execute() finds a value and goes on to notify. *)
Resume(f) ==
  /\ stage[f] = "suspended" /\ At(f, "start")
  /\ Then(f, <<>>)
  /\ stage' = [stage EXCEPT ![f] = "ready"]
  /\ UNCHANGED <<node, engine, setup, ghost, prog, result>>

(* oox_var_args::setup and consume(): the storage a body finds for an argument.  For a var
   that forwards it is that of the var in its result. *)
Consumed(v) == IF v \in Forwarders THEN result[v] ELSE v

(* The next step of x deletes n. *)
Deletes(x, n) ==
  /\ todo[x] # <<>> /\ Cur(x).node = n
  /\ \/ Cur(x).op \in {"rel", "sub"} /\ life[n] = Cur(x).k
     \/ Cur(x).op = "relall" /\ life[n] = refs[n]

(* Mutant: the var in the result_state is not destroyed. *)
ReleaseNone(x, r) == UNCHANGED <<var, nextWriter>> /\ Then(x, <<>>)

(* oox_var_base::release of the result: the final owner, or none, is its next writer. *)
ReleaseResult(x, r) ==
  LET n == var[r].cur
      p == var[r].port IN
  /\ var' = [var EXCEPT ![r] = [@ EXCEPT !.live = FALSE]]
  /\ nextWriter' = [nextWriter EXCEPT ![n][p] = FinalOwner(r)]
  /\ Then(x, IF nextWriter[n][p] = Ready THEN <<F("dec", n, p, 1)>> ELSE <<>>)

(* ~functional_task destroys the var the task returned.  Nobody holds the task between its
   deletion and that. *)
DeleteForwarder(x) ==
  /\ \E f \in Forwarders :
       /\ Deletes(x, f) /\ result[f] # NoTask
       /\ Free(f)
       /\ ReleaseResult(x, result[f])
  /\ UNCHANGED <<head, startCount, countdown, woken, count, refs, args, owed, making, ghost>>

(***************************************************************************)
(* The system                                                              *)
(***************************************************************************)
ForwardInit ==
  /\ Init
  /\ prog \in DOMAIN Programs
  /\ result = [t \in Tasks |-> NoTask]
  /\ stage = [t \in Tasks |-> IF t \in Forwarders THEN "before" ELSE "ready"]

Calls(x) ==
  /\ ~InCall(x) /\ Working(x)
  /\ \/ \E s \in Storage : MakeVar(x, s)
     \/ \E t \in Tasks : LaunchTask(x, t)
     \/ \E v \in Nodes : DropLocal(x, v)
  /\ UNCHANGED forwarding

Waits(x) ==
  /\ ~InCall(x) /\ Working(x)
  /\ \E v \in Waitable : WaitFor(x, v)
  /\ UNCHANGED forwarding

ForwardClientStep(x) == ClientStep(x) /\ UNCHANGED forwarding

Deleting(x) == \E f \in Forwarders : Deletes(x, f)

(* Counts change as for any task, but for what deleting a forwarder brings with it. *)
ForwardCountStep(x) ==
  /\ InCall(x)
  /\ IF Deleting(x) THEN DeleteForwarder(x) ELSE CountStep(x)
  /\ UNCHANGED forwarding

(* notify_successors: a forwarding task comes to it when its result is there.  Mutant: a
   forwarder does not wait for it. *)
NotifiesAny(t) == stage[t] \in {"attach", "suspended", "ready"}
Notifies(t)    == stage[t] = "ready"

ForwardWorkerStep(t) ==
  \/ StartFunctor(t) \/ Emplace(t) \/ Attach(t) \/ Resume(t)
  \/ Notifies(t) /\ WorkerStep(t) /\ UNCHANGED forwarding

ForwardRest == Rest /\ UNCHANGED forwarding

ForwardNext ==
  \/ \E x \in Clients : Calls(x) \/ Waits(x) \/ ForwardClientStep(x)
  \/ \E x \in Threads : ForwardCountStep(x)
  \/ \E t \in Tasks : ForwardWorkerStep(t)
  \/ ForwardRest

ForwardSpec == ForwardInit /\ [][ForwardNext]_allVars

(* Every variable has its type. *)
ForwardTypeOK ==
  /\ TypeOK
  /\ prog \in DOMAIN Programs
  /\ result \in [Tasks -> Nodes \cup {NoTask}]
  /\ stage \in [Tasks -> {"before", "functor", "attach", "suspended", "ready"}]
=============================================================================
