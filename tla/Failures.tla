------------------------------ MODULE Failures ------------------------------
(***************************************************************************)
(* The throwing policy of oox (src/oox/oox.h, CanThrow = true): how an     *)
(* exception thrown by a body, or a cancellation by the user, reaches the  *)
(* tasks that depend on it and whoever waits for them.                     *)
(*                                                                         *)
(* A task fails by a bit in its start_count; the exception itself travels  *)
(* as a signal on the task's own list of arcs and stays in the terminal    *)
(* arc that replaces the list.  Slots, countdowns and lifetimes of nodes   *)
(* are TaskGraph's and are left out: here tasks only read each other.      *)
(***************************************************************************)
EXTENDS Integers, Sequences, FiniteSets

CONSTANTS
  Tasks,       \* named so that what a task depends on has smaller names
  Users,       \* the application threads
  Launcher,    \* the one that launches the tasks; each may wait and cancel
  Programs     \* inputs: the outputs each task reads, a task and its port, 0 for the result;
               \* returns: the task whose var its functor launches and returns, if any;
               \* throws: the tasks whose body may throw;
               \* waits, cancels: the tasks a user may wait for, and may cancel once

Threads == Users \cup Tasks
NoTask  == 0
Bits    == {"exception", "user", "dependency"}
Output  == [task : Tasks, port : Nat]

(* start_count_mask, 2^27 - 1 *)
StartMask == 134217727

(* Finitely many tasks and threads; no task has more inputs than start_count can count, and
   none is launched by two functors. *)
ASSUME FailuresAssumption ==
  /\ Tasks \subseteq Nat \ {NoTask} /\ Users \cap Nat = {} /\ Launcher \in Users
  /\ IsFiniteSet(Tasks) /\ IsFiniteSet(Users)
  /\ Programs \in Seq([inputs : [Tasks -> Seq(Output)], returns : [Tasks -> Tasks \cup {NoTask}],
                       throws : SUBSET Tasks, waits : SUBSET Tasks, cancels : SUBSET Tasks])
  /\ \A i \in DOMAIN Programs : \A t \in Tasks :
       /\ \A j \in DOMAIN Programs[i].inputs[t] : Programs[i].inputs[t][j].task < t
       /\ Len(Programs[i].inputs[t]) < StartMask
       /\ Programs[i].returns[t] # t
       /\ \A u \in Tasks : Programs[i].returns[u] = Programs[i].returns[t] =>
                           u = t \/ Programs[i].returns[t] = NoTask

VARIABLES
  prog,     \* the program of this behaviour
  head,     \* arc_list::head: open with its arcs, done, or terminal with its exception
  word,     \* task_node::start_count: the prerequisites and the failure bits
  owed,     \* prerequisites counted by setup so far
  refs,     \* exception_control_struct::ref_count, by the task that threw
  woken,    \* the backend's "completed"
  body,     \* idle, pending, running, attached or forwarding, value, threw or skipped
  cancelled,\* the tasks a user has called cancel() on
  told,     \* ghost: the statuses the waits for each task returned
  todo      \* the frames each thread has still to run, innermost first

vars == <<prog, head, word, owed, refs, woken, body, cancelled, told, todo>>

Inputs(t)  == Programs[prog].inputs[t]
Returns(t) == Programs[prog].returns[t]
Forwards(t) == Returns(t) # NoTask

Flow(t, p) == [kind |-> "flow", node |-> t, port |-> p]
Signal(c)  == [kind |-> "signal", node |-> c, port |-> 0]

Open(arcs)  == [tag |-> "open", arcs |-> arcs]
Done        == [tag |-> "done", arcs |-> <<>>]
Terminal(c) == [tag |-> "terminal", arcs |-> <<Signal(c)>>]

(* is_done_arc_head: the raw tag or a terminal exception arc. *)
IsDone(t) == head[t].tag # "open"

At(x, op)   == todo[x] # <<>> /\ Head(todo[x]).op = op
Cur(x)      == Head(todo[x])
Then(x, fs) == todo' = [todo EXCEPT ![x] = fs \o Tail(@)]

Failed(t)  == word[t].bits # {}
Has(t, b)  == b \in word[t].bits
Push(t, a) == head' = [head EXCEPT ![t] = Open(<<a>> \o @.arcs)]

(***************************************************************************)
(* Marking a task failed                                                   *)
(***************************************************************************)
Mark(t, b) == [op |-> "mark", node |-> t, bit |-> b]

(* task_node::mark_failure: a task that is done stays as it is... *)
MarkFailure(x) ==
  /\ At(x, "mark")
  /\ LET t == Cur(x).node IN
     Then(x, IF IsDone(t) THEN <<>> ELSE <<[op |-> "set", node |-> t, bit |-> Cur(x).bit, word |-> word[t]]>>)
  /\ UNCHANGED <<head, word, owed, refs, woken, body, cancelled, told>>

(* ... else the bit is set, unless the word has changed since it was looked at: then it
   looks again.  Mutant: it tries again with the word it has. *)
RetryStale(f) == <<f>>
Retry(f)      == <<Mark(f.node, f.bit)>>

SetBit(x) ==
  /\ At(x, "set")
  /\ LET t == Cur(x).node
         b == Cur(x).bit IN
     IF word[t] = Cur(x).word
     THEN word' = [word EXCEPT ![t].bits = @ \cup {b}] /\ Then(x, <<>>)
     ELSE Then(x, Retry(Cur(x))) /\ UNCHANGED word
  /\ UNCHANGED <<head, owed, refs, woken, body, cancelled, told>>

(* The exception on a task's list, or in its terminal arc: none or its thrower. *)
LocalControl(t) == {head[t].arcs[i].node : i \in {j \in DOMAIN head[t].arcs :
                                                    head[t].arcs[j].kind = "signal"}}

TheControl(t) == CHOOSE c \in LocalControl(t) : TRUE
Carry(t, c)   == [op |-> "signal", node |-> t, control |-> c]

(* What publish_failure_from(u, port) does to t.  Only the result of u carries its
   exception; the variables it was to write are no more than cancelled.  Mutant: the bit
   comes before the signal. *)
FromMarkFirst(t, u, port) ==
  CASE port = 0 /\ Has(u, "exception") /\ LocalControl(u) # {} ->
         <<Mark(t, "exception"), Carry(t, TheControl(u))>>
    [] port = 0 /\ Has(u, "user") /\ ~Has(u, "exception") -> <<Mark(t, "user")>>
    [] OTHER -> <<Mark(t, "dependency")>>
From(t, u, port) ==
  CASE port = 0 /\ Has(u, "exception") /\ LocalControl(u) # {} ->
         <<Carry(t, TheControl(u)), Mark(t, "exception")>>
    [] port = 0 /\ Has(u, "user") /\ ~Has(u, "exception") -> <<Mark(t, "user")>>
    [] OTHER -> <<Mark(t, "dependency")>>

PublishFailureFrom(x) ==
  /\ At(x, "failure")
  /\ LET fs == From(Cur(x).node, Cur(x).from, Cur(x).port) IN
     /\ Then(x, fs)
     /\ refs' = [c \in Tasks |-> IF Carry(Cur(x).node, c) \in {fs[i] : i \in DOMAIN fs}
                                 THEN refs[c] + 1 ELSE refs[c]]   \* retain_exception_control
  /\ UNCHANGED <<head, word, owed, woken, body, cancelled, told>>

(* add_arc of a signal; a list that is closed already leaves it to be deleted. *)
AddSignal(x) ==
  /\ At(x, "signal")
  /\ LET t == Cur(x).node
         c == Cur(x).control IN
     IF IsDone(t)
     THEN Then(x, <<[op |-> "drop", control |-> c]>>) /\ UNCHANGED head
     ELSE Push(t, Signal(c)) /\ Then(x, <<>>)
  /\ UNCHANGED <<word, owed, refs, woken, body, cancelled, told>>

(* ~arc: release_exception_control. *)
DropSignal(x) ==
  /\ At(x, "drop")
  /\ refs' = [refs EXCEPT ![Cur(x).control] = @ - 1]
  /\ Then(x, <<>>)
  /\ UNCHANGED <<head, word, owed, woken, body, cancelled, told>>

(***************************************************************************)
(* oox::run                                                                *)
(***************************************************************************)
InCall(x) == todo[x] # <<>>

(* Whoever launches t: the application, or the functor that returns its result. *)
Inner(t) == \E f \in Tasks : Returns(f) = t
Maker(t) == IF Inner(t) THEN CHOOSE f \in Tasks : Returns(f) = t ELSE Launcher

Run(t) ==
  /\ IF Inner(t) THEN At(Maker(t), "functor") ELSE ~InCall(Launcher)
  /\ body[t] = "idle" /\ \A u \in Tasks : u < t /\ Maker(u) = Maker(t) => body[u] # "idle"
  /\ body' = [body EXCEPT ![t] = "pending"]
  /\ word' = [word EXCEPT ![t] = [count |-> StartMask, bits |-> {}]]
  /\ todo' = [todo EXCEPT ![Maker(t)] =
                [i \in 1..Len(Inputs(t)) |-> [op |-> "link", node |-> t,
                   from |-> Inputs(t)[i].task, port |-> Inputs(t)[i].port]]
                \o <<[op |-> "publish", node |-> t], [op |-> "return", node |-> t]>> \o @]
  /\ UNCHANGED <<head, owed, refs, woken, cancelled, told>>

(* assign_prerequisite: an arc on the producer, or a look at how it ended. *)
Link(x) ==
  /\ At(x, "link")
  /\ LET u == Cur(x).from IN
     IF IsDone(u)
     THEN /\ Then(x, <<[Cur(x) EXCEPT !.op = "late"]>>)
          /\ UNCHANGED <<head, owed>>
     ELSE /\ Push(u, Flow(Cur(x).node, Cur(x).port))
          /\ owed' = [owed EXCEPT ![Cur(x).node] = @ + 1]
          /\ Then(x, <<>>)
  /\ UNCHANGED <<word, refs, woken, body, cancelled, told>>

(* A late consumer takes over the failure.  Mutant: it does not look. *)
LateFailureNone(f) == <<>>
LateFailure(f) == IF Failed(f.from) THEN <<[f EXCEPT !.op = "failure"]>> ELSE <<>>

Late(x) ==
  /\ At(x, "late")
  /\ Then(x, LateFailure(Cur(x)))
  /\ UNCHANGED <<head, word, owed, refs, woken, body, cancelled, told>>

(* What publishing takes off start_count.  Mutant: one too many. *)
ProtectionLong(t) == StartMask - owed[t] + 1
Protection(t) == StartMask - owed[t]

Publish(x) ==
  /\ At(x, "publish")
  /\ LET t == Cur(x).node IN Then(x, <<[op |-> "pre", node |-> t, k |-> Protection(t)]>>)
  /\ UNCHANGED <<head, word, owed, refs, woken, body, cancelled, told>>

(* return r *)
Return(x) ==
  /\ At(x, "return")
  /\ Then(x, <<>>)
  /\ UNCHANGED <<head, word, owed, refs, woken, body, cancelled, told>>

(* notify_successors<slots, failed> of t, and the wakeup. *)
Complete(t, failed) == <<[op |-> "exchange", node |-> t, failed |-> failed],
                         [op |-> "wakeup", node |-> t]>>

(* remove_prerequisite: a task that depends on a failure is completed here and now, by
   whoever takes its last prerequisite. *)
Skips(bits) == bits \cap {"dependency", "exception"} # {}

Pre(x) ==
  /\ At(x, "pre")
  /\ LET t == Cur(x).node
         k == Cur(x).k
         last == word[t].count = k
         skips == last /\ Skips(word[t].bits) IN
     /\ word' = [word EXCEPT ![t].count = @ - k]
     /\ body' = IF skips THEN [body EXCEPT ![t] = "skipped"] ELSE body
     /\ todo' = [todo EXCEPT ![x] = (IF skips THEN Complete(t, TRUE) ELSE <<>>) \o Tail(@),
                             ![t] = IF last /\ ~skips THEN <<[op |-> "start", node |-> t]>> ELSE @]
  /\ UNCHANGED <<head, owed, refs, woken, cancelled, told>>

(***************************************************************************)
(* functional_task::execute                                                *)
(***************************************************************************)
(* has_start_failure: the last look before the body.  Mutant: it is left out. *)
StartsAlways(t) == TRUE
Starts(t) == ~Failed(t)

Start(t) ==
  /\ At(t, "start") /\ body[t] = "pending"
  /\ IF Starts(t)
     THEN body' = [body EXCEPT ![t] = "running"] /\ Then(t, <<[op |-> "functor", node |-> t]>>)
     ELSE body' = [body EXCEPT ![t] = "skipped"] /\ Then(t, Complete(t, TRUE))
  /\ UNCHANGED <<head, word, owed, refs, woken, cancelled, told>>

ReturnValue(t) ==
  /\ At(t, "functor") /\ ~Forwards(t)
  /\ body' = [body EXCEPT ![t] = "value"]
  /\ Then(t, Complete(t, FALSE))
  /\ UNCHANGED <<head, word, owed, refs, woken, cancelled, told>>

(* catch(...): set_exception makes the control, puts its signal on the own list and then
   sets the bit. *)
Throw(t) ==
  /\ At(t, "functor") /\ t \in Programs[prog].throws
  /\ body' = [body EXCEPT ![t] = "threw"]
  /\ refs' = [refs EXCEPT ![t] = 1]
  /\ Then(t, <<Carry(t, t), Mark(t, "exception")>> \o Complete(t, TRUE))
  /\ UNCHANGED <<head, word, owed, woken, cancelled, told>>

(***************************************************************************)
(* try_forward_result: the functor returned a var                          *)
(***************************************************************************)
(* The var is kept, and start_count is written anew: what came over the task while its
   functor ran is gone with the old word. *)
Emplace(t) ==
  /\ At(t, "functor") /\ Forwards(t) /\ body[Returns(t)] # "idle"
  /\ body' = [body EXCEPT ![t] = "attached"]
  /\ word' = [word EXCEPT ![t] = [count |-> 1, bits |-> {}]]
  /\ Then(t, <<[op |-> "attach", node |-> t]>>)
  /\ UNCHANGED <<head, owed, refs, woken, cancelled, told>>

(* The flow-only arc: either the task is suspended, or its result is there already, with
   its failure.  Mutant: nobody looks at that. *)
AttachedLateNone(t) == FALSE
AttachedLate(t)     == Failed(Returns(t))

Attach(t) ==
  /\ At(t, "attach") /\ Forwards(t)
  /\ LET u == Returns(t) IN
     IF IsDone(u)
     THEN /\ Then(t, <<[op |-> "look", node |-> t]>>)
          /\ UNCHANGED <<head, body>>
     ELSE /\ Push(u, Flow(t, 0))
          /\ body' = [body EXCEPT ![t] = "forwarding"]
          /\ Then(t, <<>>)
  /\ UNCHANGED <<word, owed, refs, woken, cancelled, told>>

Look(t) ==
  /\ At(t, "look") /\ Forwards(t)
  /\ body' = [body EXCEPT ![t] = IF AttachedLate(t) THEN "skipped" ELSE "value"]
  /\ Then(t, IF AttachedLate(t)
             THEN <<[op |-> "failure", node |-> t, from |-> Returns(t), port |-> 0]>>
                  \o Complete(t, TRUE)
             ELSE Complete(t, FALSE))
  /\ UNCHANGED <<head, word, owed, refs, woken, cancelled, told>>

(* The second execute(), with the value of the result there. *)
Resume(t) ==
  /\ At(t, "start") /\ body[t] = "forwarding"
  /\ body' = [body EXCEPT ![t] = IF Starts(t) THEN "value" ELSE "skipped"]
  /\ Then(t, Complete(t, ~Starts(t)))
  /\ UNCHANGED <<head, word, owed, refs, woken, cancelled, told>>

(* notify_successors: a task with an exception leaves it in a terminal arc.  Mutant: it
   does not. *)
LastHeadRaw(t, failed) == Done
LastHead(t, failed) ==
  IF failed /\ Has(t, "exception") /\ LocalControl(t) # {} THEN Terminal(TheControl(t)) ELSE Done

(* The terminal arc is one more holder.  Mutant: it is not counted. *)
RetainedNot(h) == refs
Retained(h) == IF h = Done THEN refs ELSE [refs EXCEPT ![h.arcs[1].node] = @ + 1]

(* What is done about arc a of t.  The signals were shared with the terminal arc. *)
Notify(t, a, failed) ==
  IF a.kind = "signal" THEN [op |-> "drop", control |-> a.node]
  ELSE [op |-> "notify", node |-> a.node, from |-> t, port |-> a.port, failed |-> failed]

Exchange(x) ==
  /\ At(x, "exchange")
  /\ LET t == Cur(x).node
         h == LastHead(t, Cur(x).failed)
         r == head[t].arcs IN
     /\ head' = [head EXCEPT ![t] = h]
     /\ refs' = Retained(h)
     /\ Then(x, [i \in DOMAIN r |-> Notify(t, r[i], Cur(x).failed /\ Failed(t))])
  /\ UNCHANGED <<word, owed, woken, body, cancelled, told>>

(* do_notify_arcs: the consumer is told of a failure before it loses a prerequisite.
   Mutant: after. *)
NotifyAfter(f) == <<[op |-> "pre", node |-> f.node, k |-> 1]>>
                  \o (IF f.failed THEN <<[f EXCEPT !.op = "failure"]>> ELSE <<>>)
NotifyFirst(f) == (IF f.failed THEN <<[f EXCEPT !.op = "failure"]>> ELSE <<>>)
                  \o <<[op |-> "pre", node |-> f.node, k |-> 1]>>

NotifyArc(x) ==
  /\ At(x, "notify")
  /\ Then(x, NotifyFirst(Cur(x)))
  /\ UNCHANGED <<head, word, owed, refs, woken, body, cancelled, told>>

Wakeup(x) ==
  /\ At(x, "wakeup")
  /\ woken' = [woken EXCEPT ![Cur(x).node] = TRUE]
  /\ Then(x, <<>>)
  /\ UNCHANGED <<head, word, owed, refs, body, cancelled, told>>

(***************************************************************************)
(* cancel, wait_for_all_status                                             *)
(***************************************************************************)
(* The application has the var that run returned. *)
Returned(t) == /\ body[t] # "idle" /\ ~Inner(t)
               /\ \A i \in DOMAIN todo[Launcher] : todo[Launcher][i] # [op |-> "return", node |-> t]

Cancel(x, t) ==
  /\ ~InCall(x) /\ t \in Programs[prog].cancels \ cancelled /\ Returned(t)
  /\ cancelled' = cancelled \cup {t}
  /\ todo' = [todo EXCEPT ![x] = <<Mark(t, "user")>>]
  /\ UNCHANGED <<head, word, owed, refs, woken, body, told>>

WaitFor(x, t) ==
  /\ ~InCall(x) /\ t \in Programs[prog].waits /\ Returned(t)
  /\ todo' = [todo EXCEPT ![x] = <<[op |-> "wait", node |-> t], [op |-> "status", node |-> t]>>]
  /\ UNCHANGED <<head, word, owed, refs, woken, body, cancelled, told>>

(* The shortcut of a task that is done, or else the backend's wakeup. *)
Wait(x) ==
  /\ At(x, "wait")
  /\ Then(x, IF IsDone(Cur(x).node) THEN <<>> ELSE <<[op |-> "block", node |-> Cur(x).node]>>)
  /\ UNCHANGED <<head, word, owed, refs, woken, body, cancelled, told>>

Block(x) ==
  /\ At(x, "block") /\ woken[Cur(x).node]
  /\ Then(x, <<>>)
  /\ UNCHANGED <<head, word, owed, refs, woken, body, cancelled, told>>

(* failure_wait_status<false> for port 0: the exception itself, or how it was cancelled. *)
StatusOf(t) ==
  IF ~Failed(t) THEN <<"ready">>
  ELSE IF Has(t, "exception")
       THEN IF LocalControl(t) # {} THEN <<"exception", TheControl(t)>>
            ELSE <<"dependency_cancelled">>
  ELSE IF Has(t, "user") THEN <<"user_cancelled">>
  ELSE <<"dependency_cancelled">>

Status(x) ==
  /\ At(x, "status")
  /\ LET t == Cur(x).node IN told' = [told EXCEPT ![t] = @ \cup {StatusOf(t)}]
  /\ Then(x, <<>>)
  /\ UNCHANGED <<head, word, owed, refs, woken, body, cancelled>>

(***************************************************************************)
(* The system                                                              *)
(***************************************************************************)
Init ==
  /\ prog \in DOMAIN Programs
  /\ head = [t \in Tasks |-> Open(<<>>)]
  /\ word = [t \in Tasks |-> [count |-> 0, bits |-> {}]]
  /\ owed = [t \in Tasks |-> 0]
  /\ refs = [t \in Tasks |-> 0]
  /\ woken = [t \in Tasks |-> FALSE]
  /\ body = [t \in Tasks |-> "idle"]
  /\ cancelled = {}
  /\ told = [t \in Tasks |-> {}]
  /\ todo = [x \in Threads |-> <<>>]

Call(x) == \E t \in Tasks : Cancel(x, t) \/ WaitFor(x, t)

Step(x) ==
  \/ MarkFailure(x) \/ SetBit(x) \/ PublishFailureFrom(x) \/ AddSignal(x) \/ DropSignal(x)
  \/ Link(x) \/ Late(x) \/ Publish(x) \/ Return(x) \/ Pre(x)
  \/ Exchange(x) \/ NotifyArc(x) \/ Wakeup(x)
  \/ Wait(x) \/ Block(x) \/ Status(x)

Execute(t) ==
  \/ Start(t) \/ ReturnValue(t) \/ Throw(t)
  \/ \E u \in Tasks : Returns(t) = u /\ Run(u)
  \/ Emplace(t) \/ Attach(t) \/ Look(t) \/ Resume(t)

Rest == (\A x \in Threads : todo[x] = <<>>) /\ UNCHANGED vars

Next ==
  \/ /\ \/ \E t \in Tasks : (~Inner(t) /\ Run(t)) \/ Execute(t)
        \/ \E x \in Users : Call(x)
        \/ \E x \in Threads : Step(x)
     /\ UNCHANGED prog
  \/ Rest

Spec == Init /\ [][Next]_vars

(* Calls under way and spawned tasks go on; a body comes to its end. *)
Fairness == /\ \A x \in Users : WF_vars(Step(x) /\ UNCHANGED prog)
            /\ \A t \in Tasks : WF_vars((Step(t) \/ Execute(t)) /\ UNCHANGED prog)
FairSpec == Spec /\ Fairness

(* Every variable has its type. *)
TypeOK ==
  /\ prog \in DOMAIN Programs
  /\ \A t \in Tasks : /\ head[t].tag \in {"open", "done", "terminal"}
                       /\ \A i \in DOMAIN head[t].arcs : head[t].arcs[i].node \in Tasks
  /\ word \in [Tasks -> [count : Nat, bits : SUBSET Bits]]
  /\ owed \in [Tasks -> Nat] /\ refs \in [Tasks -> Nat]
  /\ woken \in [Tasks -> BOOLEAN]
  /\ body \in [Tasks -> {"idle", "pending", "running", "attached", "forwarding",
                        "value", "threw", "skipped"}]
  /\ cancelled \subseteq Programs[prog].cancels
=============================================================================
