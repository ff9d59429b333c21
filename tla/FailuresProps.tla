---------------------------- MODULE FailuresProps ----------------------------
(***************************************************************************)
(* The properties of Failures: what fails, why, and who is told what.      *)
(***************************************************************************)
EXTENDS Failures, Stacks

Producers(t) == {Inputs(t)[i].task : i \in DOMAIN Inputs(t)}
Forwarded(t) == {Returns(t)} \ {NoTask}
Results(t)   == {Inputs(t)[i].task : i \in {j \in DOMAIN Inputs(t) : Inputs(t)[j].port = 0}}

(* A body only runs on values that were made, whoever failed or was cancelled when, and a
   task whose functor returned a var has a value only if the var has one. *)
InputsThere ==
  \A t \in Tasks :
    /\ body[t] \in {"running", "attached", "forwarding", "value", "threw"} =>
         \A u \in Producers(t) : body[u] = "value"
    /\ body[t] = "value" => \A u \in Forwarded(t) : body[u] = "value"

Lists == [t \in Tasks |-> head[t].arcs]

(* The frames in which a thread has an exception in its hands. *)
Holding(c) == {Carry(t, c) : t \in Tasks} \cup {[op |-> "drop", control |-> c]}

(* An exception is counted once for each arc that holds it, on a list, in a terminal arc
   or in the hands of a thread. *)
RefsExact == \A c \in Tasks : refs[c] = Count(Lists, {Signal(c)}) + Count(todo, Holding(c))

(* The exception of a task that has the bit is always at hand, and a task that completes
   with a value has none on its list, which do_notify_arcs<false> would take for a task. *)
SignalsInPlace ==
  /\ \A t \in Tasks : Has(t, "exception") => LocalControl(t) # {}
  /\ \A x \in Threads : At(x, "exchange") /\ ~Cur(x).failed => LocalControl(Cur(x).node) = {}

(* Whatever else went wrong with its inputs, a task one of whose inputs is the result of
   a task with an exception, or whose own result is, ends with an exception. *)
RealExceptionWins ==
  \A t \in Tasks :
    IsDone(t) /\ (\E u \in Results(t) \cup Forwarded(t) : Has(u, "exception")) => Has(t, "exception")

Sources(t) == Producers(t) \cup Forwarded(t)

(* A task with all it depends on: what is in every set that has it and, with a task, what
   that depends on. *)
Upstream(t) == {u \in Tasks : \A S \in SUBSET Tasks :
                              t \in S /\ (\A v \in S : Sources(v) \subseteq S) => u \in S}

(* What a wait tells is true: a value is there, the exception was thrown upstream, the
   cancelled task or one before it was cancelled by a user, or one before it failed. *)
StatusSound ==
  \A t \in Tasks : \A s \in told[t] :
    CASE s = <<"ready">> -> body[t] = "value"
      [] s = <<"user_cancelled">> -> Upstream(t) \cap cancelled # {}
      [] s = <<"dependency_cancelled">> ->
           body[t] = "skipped" /\ \E u \in Sources(t) : body[u] # "value" \/ Failed(u)
      [] OTHER -> body[s[2]] = "threw" /\ s[2] \in Upstream(t)

(* Once a task is done its outcome stays: all who wait for it are told the same, and a
   cancel() from then on changes nothing.  One that looked at the task before that, and has
   not set its bit yet, may still mark it. *)
OutcomeStays ==
  [][\A t \in Tasks :
       /\ IsDone(t)
       /\ \A x \in Users : \A i \in DOMAIN todo[x] : ~(todo[x][i].op = "set" /\ todo[x][i].node = t)
       => StatusOf(t)' = StatusOf(t)]_vars

(* A task that was cancelled in time does not run: while its body starts, whoever has
   called cancel() on it is still in that call. *)
CancelHeeded ==
  [][\A t \in cancelled : body[t] = "pending" /\ body'[t] = "running" =>
       \E x \in Users : \E i \in DOMAIN todo[x] :
         /\ todo[x][i].op \in {"mark", "set"} /\ todo[x][i].node = t
         /\ todo[x][i].bit = "user"]_vars

(* Every task launched comes to its end, with its body run or not. *)
TasksComplete == \A t \in Tasks : body[t] = "pending" ~> IsDone(t)

(* Every call returns. *)
CallsReturn == \A x \in Users : todo[x] # <<>> ~> todo[x] = <<>>
=============================================================================
