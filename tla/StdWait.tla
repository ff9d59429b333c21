------------------------------ MODULE StdWait ------------------------------
(***************************************************************************)
(* TaskGraph on the std::async backend of src/oox/oox.h: every node has a  *)
(* promise, wait() is waiter.get_future().wait() and wakeup() is           *)
(* set_value().  A promise gives its future away once: a later get_future  *)
(* throws future_error, whether or not the first one is still waited for.  *)
(***************************************************************************)
EXTENDS TaskGraphProps

(* woken[n] is the state of n's promise: FALSE, TRUE once it is set, and Spent once it is
   set and whoever had its future has gone on.  Nobody who has the future goes on before. *)
CONSTANTS Spent,
          Waiters   \* the clients that only wait

ASSUME WaitersAssumption == Waiters \subseteq Clients /\ Spent \notin BOOLEAN

(* The node a client waits for; its frame counts the steps of wait() it has made. *)
Target(x)    == var[Cur(x).node].cur
Calling(x)   == At(x, "block") /\ Cur(x).k = 0
Asleep(x, n) == At(x, "block") /\ Cur(x).k = 1 /\ Target(x) = n

Retrieved(n) == woken[n] = Spent \/ \E x \in Clients : Asleep(x, n)

GetFuture(x) ==
  /\ Calling(x) /\ ~Retrieved(Target(x))
  /\ Then(x, <<[Cur(x) EXCEPT !.k = 1]>>)
  /\ UNCHANGED <<node, engine, setup, ghost>>

(* The call of wait_and_get ends with the exception. *)
Refused(x) ==
  /\ Calling(x) /\ Retrieved(Target(x))
  /\ todo' = [todo EXCEPT ![x] = <<>>]
  /\ UNCHANGED <<node, engine, setup, ghost>>

FutureWait(x) ==
  /\ At(x, "block") /\ Cur(x).k = 1 /\ woken[Target(x)] # FALSE
  /\ woken' = [woken EXCEPT ![Target(x)] = Spent]
  /\ Then(x, <<>>)
  /\ UNCHANGED <<node, head, startCount, life, nextWriter, countdown, count, refs, setup, ghost>>

(* ClientStep with these in the place of Block. *)
InClient(x) ==
  \/ ReadArg(x) \/ Link(x) \/ Hop(x) \/ Late(x) \/ Hold(x)
  \/ RedirectVar(x) \/ Move(x) \/ WriteArg(x)
  \/ Bind(x) \/ Return(x) \/ Wait(x) \/ Get(x)
  \/ GetFuture(x) \/ Refused(x) \/ FutureWait(x)

StdNext ==
  \/ \E x \in Clients \ Waiters : Call(x)
  \/ \E x \in Waiters : \E v \in Waitable : WaitVar(x, v)
  \/ \E x \in Clients : InClient(x)
  \/ \E x \in Threads : CountStep(x)
  \/ \E t \in Tasks : WorkerStep(t)
  \/ Rest

StdSpec == Init /\ [][StdNext]_vars

(* As in FairSpec: threads inside a call and spawned tasks keep running. *)
StdFairness == /\ \A x \in Clients : WF_vars(InClient(x) \/ CountStep(x))
               /\ \A t \in Tasks : WF_vars(WorkerStep(t) \/ CountStep(t))
StdFairSpec == StdSpec /\ StdFairness

(* A node whose future has been taken is complete unless a client still sleeps in that
   future: whoever waits once no other wait for the node is under way takes the shortcut of
   oox_var_base::wait and is never refused, however often it was waited for before. *)
WaitAgain ==
  \A n \in Nodes :
    Retrieved(n) => head[n].tag = "done" \/ \E x \in Clients : Asleep(x, n)
=============================================================================
