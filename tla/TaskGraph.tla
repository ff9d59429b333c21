------------------------------ MODULE TaskGraph ------------------------------
(***************************************************************************)
(* The non-throwing engine of oox (src/oox/oox.h): clients build a graph   *)
(* of tasks over shared variables with oox::run, wait on variables and     *)
(* drop them; tasks discover flow, anti and output dependences through the *)
(* arcs they hang on each other, start when their last prerequisite goes   *)
(* and free themselves when their last reference goes.                     *)
(*                                                                         *)
(* One action is one access to an atomic of the program.  The rest of the  *)
(* call a thread is in is a list of frames (todo[x]): what is left of its  *)
(* loops and of the functions it will return to, innermost first.          *)
(***************************************************************************)
EXTENDS Integers, Sequences, FiniteSets

CONSTANTS
  Storage,    \* storage_task nodes: variables that start with a value or deferred
  Deferred,   \* the storages made by allocate_deferred
  Tasks,      \* functional_task nodes, launched in increasing order
  VoidTasks,  \* the tasks that return void
  Clients,    \* the application threads
  ArgLists,   \* the argument lists each task may be run with
  Waitable,   \* the variables a client may wait for
  Scope,      \* what comes before a variable goes out of scope: tasks launched (after)
              \* and variables dropped (inner)
  MaxPort,    \* the largest output port of any task
  SyncSpawn,  \* spawn() returns only when the task has run (STD and serial backends)
  Race        \* the first writer of a deferred variable may race its readers

Nodes   == Storage \cup Tasks
NoTask  == 0
Port    == 0..MaxPort
Threads == Clients \cup Tasks

(* start_count_mask, 2^27 - 1, and INT_MAX/2 *)
StartMask == 134217727
Half      == 1073741823

ASSUME ConstantsAssumption ==
  /\ Tasks \subseteq Nat \ {0}
  /\ Storage \cap (Nat \cup Clients) = {} /\ Clients \cap Nat = {}
  /\ Deferred \subseteq Storage /\ VoidTasks \subseteq Tasks
  /\ MaxPort \in Nat
  /\ ArgLists \in [Tasks -> SUBSET Seq([v : Nodes, w : BOOLEAN])]
  /\ \A t \in Tasks : \A a \in ArgLists[t] : Len(a) <= MaxPort
  /\ Waitable \subseteq Nodes
  /\ Scope \in [Nodes -> [after : SUBSET Tasks, inner : SUBSET Nodes]]
  /\ SyncSpawn \in BOOLEAN
  /\ Race \in BOOLEAN

(* What the fields of a node have room for: a task has fewer prerequisites than its
   protection stands for, and a slot fewer consumers than its producer takes it for. *)
ASSUME RoomAssumption ==
  /\ IsFiniteSet(Nodes) /\ IsFiniteSet(Clients)
  /\ MaxPort + 1 < StartMask
  /\ Cardinality(Tasks) * MaxPort + 3 < Half

VARIABLES
  node,        \* unborn, alive or freed
  head,        \* arc_list::head: open with its arcs, done, or redirect with its target
  startCount,  \* task_node::start_count
  life,        \* task_life::life_count
  nextWriter,  \* output_node::next_writer per port
  countdown,   \* output_node::countdown per port
  woken,       \* the backend's "completed"
  count,       \* the local counters[slots] of notify_successors
  refs,        \* its local sum of references to release
  var,         \* the oox_var_base each node originates
  args,        \* the arguments a task was run with
  owed,        \* prerequisites counted by setup so far
  making,      \* the task a client is setting up
  todo,        \* the frames each thread has still to run
  phase,       \* idle, pending, running or done: where the body of a task is
  mem,         \* ghost: the version of its value a variable holds
  last,        \* ghost: the version the last launched writer of it will produce
  want         \* ghost: the version each argument of a task stands for in program order

engine == <<head, startCount, life, nextWriter, countdown, woken, count, refs>>
setup  == <<var, args, owed, making>>
ghost  == <<phase, mem, last, want>>
vars   == <<node, engine, setup, todo, ghost>>

(***************************************************************************)
(* Data                                                                    *)
(***************************************************************************)
Arc == [kind : {"flow_only", "flow_back", "back_only"}, node : Nodes, port : Port]

FlowOnly(n, p) == [kind |-> "flow_only", node |-> n, port |-> p]
FlowBack(n, p) == [kind |-> "flow_back", node |-> n, port |-> p]
BackOnly(n, p) == [kind |-> "back_only", node |-> n, port |-> p]

Open(arcs)     == [tag |-> "open", arcs |-> arcs]
Done           == [tag |-> "done", arcs |-> <<>>]
Redirect(n, p) == [tag |-> "redirect", arcs |-> <<FlowBack(n, p)>>]
ArcHead == [tag : {"open", "done"}, arcs : Seq(Arc)]
           \cup [tag : {"redirect"}, arcs : {<<b>> : b \in Arc}]

(* The words of output_node::next_writer *)
NextWriter == [kind : {"null", "ready", "no_owner"}, node : {NoTask}]
              \cup [kind : {"owner", "writer"}, node : Nodes]
Null       == [kind |-> "null", node |-> NoTask]
Ready      == [kind |-> "ready", node |-> NoTask]
NoOwner    == [kind |-> "no_owner", node |-> NoTask]
Owner(n)   == [kind |-> "owner", node |-> n]
Writer(t)  == [kind |-> "writer", node |-> t]

(* oox_var_base: whether it is in scope, current_task with its port, is_deferred *)
OoxVar == [live : BOOLEAN, cur : Nodes, port : Port, deferred : BOOLEAN]

SetupOps == {"arg", "link", "hop", "late", "hold", "move", "bind", "return"}
WaitOps  == {"wait", "block", "get"}
BodyOps  == {"start", "finish", "exchange", "flow", "out", "wakeup", "relall"}
CountOps == {"dec", "rel", "sub", "pre", "join"}
Frame    == [op : SetupOps \cup WaitOps \cup BodyOps \cup CountOps,
             node : Nodes, port : Port, k : Int]

F(op, n, p, k) == [op |-> op, node |-> n, port |-> p, k |-> k]

Writes(t)    == {i \in DOMAIN args[t] : args[t][i].w}
PortOfNext(t, i) == Cardinality({j \in Writes(t) : j <= i}) + 1   \* mutant: off by one
PortOf(t, i) == Cardinality({j \in Writes(t) : j <= i})
Slots(n)     == IF n \in Tasks THEN 0..Cardinality(Writes(n)) ELSE {0}
IsVoid(n)    == n \in VoidTasks

(* Thread x runs its innermost frame f, of kind op. *)
At(x, op) == todo[x] # <<>> /\ Head(todo[x]).op = op
Cur(x)    == Head(todo[x])

(* It goes on with the frames fs, then with what was left. *)
Then(x, fs) == todo' = [todo EXCEPT ![x] = fs \o Tail(@)]

(***************************************************************************)
(* Reference and prerequisite counts                                       *)
(***************************************************************************)
(* Mutant: bind_to forgets the reference of execute(). *)
BindLifeNoExecute(t) == Cardinality(Slots(t)) + (IF IsVoid(t) THEN 0 ELSE 1)

(* One execute() reference, one per output slot, one for the var's storage. *)
BindLife(t) == 1 + Cardinality(Slots(t)) + (IF IsVoid(t) THEN 0 ELSE 1)

OutFrames(t)  == [i \in 1..Cardinality(Slots(t)) |-> F("out", t, i - 1, 0)]

(* Mutants: the waiters are woken before the value is stored, or never. *)
BodyFramesWakeFirst(t) ==
  <<F("start", t, 0, 0), F("wakeup", t, 0, 0), F("finish", t, 0, 0), F("exchange", t, 0, 0)>>
  \o OutFrames(t) \o <<F("relall", t, 0, 0), F("rel", t, 0, 1)>>
BodyFramesNoWakeup(t) ==
  <<F("start", t, 0, 0), F("finish", t, 0, 0), F("exchange", t, 0, 0)>>
  \o OutFrames(t) \o <<F("relall", t, 0, 0), F("rel", t, 0, 1)>>

(* execute(): the functor, notify_successors<slots> and then the lifetime guard. *)
BodyFrames(t) == <<F("start", t, 0, 0), F("finish", t, 0, 0), F("exchange", t, 0, 0)>>
                 \o OutFrames(t)
                 \o <<F("wakeup", t, 0, 0), F("relall", t, 0, 0), F("rel", t, 0, 1)>>

(* task_node::remove_prerequisite: the last prerequisite spawns the task. *)
Pre(x) ==
  /\ At(x, "pre")
  /\ LET d == Cur(x).node
         k == Cur(x).k
         spawns == startCount[d] = k IN
     /\ startCount' = [startCount EXCEPT ![d] = @ - k]
     /\ IF spawns
        THEN todo' = [todo EXCEPT ![x] = (IF SyncSpawn THEN <<F("join", d, 0, 0)>> ELSE <<>>)
                                           \o Tail(@),
                                  ![d] = BodyFrames(d)]
        ELSE Then(x, <<>>)
  /\ UNCHANGED <<node, head, life, nextWriter, countdown, woken, count, refs, setup, ghost>>

(* The temporary future of std::async joins the thread it started. *)
Join(x) ==
  /\ At(x, "join")
  /\ todo[Cur(x).node] = <<>>
  /\ Then(x, <<>>)
  /\ UNCHANGED <<node, engine, setup, ghost>>

(* delete this: nothing reads the fields of a freed node, its life_count is set to zero. *)
Free(n) == /\ node' = [node EXCEPT ![n] = "freed"]
           /\ life' = [life EXCEPT ![n] = 0]

(* task_life::life_release(k) up to its shortcut: the last holder deletes. *)
Rel(x) ==
  /\ At(x, "rel") \/ At(x, "relall")
  /\ LET n == Cur(x).node
         k == IF At(x, "relall") THEN refs[n] ELSE Cur(x).k IN
     IF life[n] = k
     THEN Free(n) /\ Then(x, <<>>)
     ELSE Then(x, <<F("sub", n, 0, k)>>) /\ UNCHANGED <<node, life>>
  /\ UNCHANGED <<head, startCount, nextWriter, countdown, woken, count, refs, setup, ghost>>

(* life_count -= k: whoever reaches zero deletes. *)
Sub(x) ==
  /\ At(x, "sub")
  /\ LET n == Cur(x).node
         left == life[n] - Cur(x).k IN
     IF left = 0
     THEN Free(n)
     ELSE life' = [life EXCEPT ![n] = left] /\ UNCHANGED node
  /\ Then(x, <<>>)
  /\ UNCHANGED <<head, startCount, nextWriter, countdown, woken, count, refs, setup, ghost>>

(* notify_next_writer(d) from node n: whom it calls, and the references of n it gives
   back.  The owner of the storage is n itself, or a node the var started from. *)
NextCall(n, d) == IF d.kind = "writer" THEN <<F("pre", d.node, 0, 1)>>
                  ELSE IF d.kind = "owner" /\ d # Owner(n) THEN <<F("rel", d.node, 0, 1)>>
                  ELSE <<>>
ReturnedAnyOwner(n, d) == IF d.kind = "owner" THEN 2 ELSE 1   \* mutant: whose owner it is
Returned(n, d) == IF d = Owner(n) THEN 2 ELSE 1

(* task_node::remove_back_arc: the slot's last consumer turns to the next writer, which
   was set before and stays.  The worker finishing node n itself sums the references up
   (notify_successors' refs); any other thread releases them at once. *)
Dec(x) ==
  /\ At(x, "dec")
  /\ LET n == Cur(x).node
         p == Cur(x).port
         left == countdown[n][p] - Cur(x).k
         d == nextWriter[n][p] IN
     /\ countdown' = [countdown EXCEPT ![n][p] = left]
     /\ \/ left # 0 /\ Then(x, <<>>) /\ UNCHANGED refs
        \/ /\ left = 0 /\ n = x
           /\ refs' = [refs EXCEPT ![n] = @ + Returned(n, d)]
           /\ Then(x, NextCall(n, d))
        \/ /\ left = 0 /\ n # x
           /\ Then(x, NextCall(n, d) \o <<F("rel", n, 0, Returned(n, d))>>)
           /\ UNCHANGED refs
  /\ UNCHANGED <<node, head, startCount, life, nextWriter, woken, count, setup, ghost>>

(***************************************************************************)
(* oox::run: allocate, setup of the arguments left to right, bind, publish *)
(***************************************************************************)
InCall(x)   == todo[x] # <<>>
InRun(x)    == \E i \in DOMAIN todo[x] : todo[x][i].op = "return"
CallArgs(x) == IF InRun(x) THEN {args[making[x]][i] : i \in DOMAIN args[making[x]]} ELSE {}
Waited(x)   == {todo[x][i].node : i \in {j \in DOMAIN todo[x] : todo[x][j].op \in WaitOps}}
Reads(x, v)    == [v |-> v, w |-> FALSE] \in CallArgs(x)
Modifies(x, v) == [v |-> v, w |-> TRUE] \in CallArgs(x)

(* How the clients may share one variable: calls that only read it overlap; a call
   that writes it or drops it is alone with it, and nobody waits while a variable has
   not been given its first writer, which might be what they wait for.  The one
   exception the code makes room for is that writer racing the readers. *)
FirstWriter(v) == Race /\ v \in Deferred /\ last[v] <= 1
MayRead(x, v)  == /\ var[v].live
                  /\ \A y \in Clients \ {x} : Modifies(y, v) => FirstWriter(v)
MayWrite(x, v) == /\ var[v].live
                  /\ \A y \in Clients \ {x} :
                       /\ ~Modifies(y, v) /\ v \notin Waited(y)
                       /\ Reads(y, v) => FirstWriter(v) /\ var[v].deferred
MayWait(x, v)  == /\ var[v].live
                  /\ \A s \in Deferred : node[s] # "unborn" => ~var[s].deferred
                  /\ \A y \in Clients \ {x} : ~Modifies(y, v)
MayDrop(x, v)  == /\ var[v].live
                  /\ \A y \in Clients \ {x} : ~Modifies(y, v) /\ ~Reads(y, v) /\ v \notin Waited(y)

Usable(x, a) ==
  \A i \in DOMAIN a :
    /\ ~IsVoid(a[i].v)
    /\ IF a[i].w THEN MayWrite(x, a[i].v) ELSE MayRead(x, a[i].v)
    /\ \A j \in DOMAIN a : i # j /\ a[i].v = a[j].v => ~a[i].w

(* Program order: an argument stands for the value the last launched writer leaves;
   readers of a deferred variable wait for its first writer. *)
Version(v, w) == IF v \in Deferred /\ last[v] = 0 /\ ~w THEN 1 ELSE last[v]

(* var(const T&), allocate_new and allocate_deferred. *)
Allocate(x, s) ==
  /\ ~InCall(x) /\ node[s] = "unborn"
  /\ node' = [node EXCEPT ![s] = "alive"]
  /\ head' = [head EXCEPT ![s] = IF s \in Deferred THEN Open(<<>>) ELSE Done]
  /\ nextWriter' = [nextWriter EXCEPT ![s][0] = Ready]
  /\ life' = [life EXCEPT ![s] = 2]
  /\ var' = [var EXCEPT ![s] = [live |-> TRUE, cur |-> s, port |-> 0, deferred |-> s \in Deferred]]
  /\ UNCHANGED <<startCount, countdown, woken, count, refs, args, owed, making, todo, ghost>>

(* Allocation is local to its thread, so the clients make the variables before the first
   task. *)
Create(x, s) ==
  /\ \A t \in Tasks : phase[t] = "idle"
  /\ Allocate(x, s)

(* The call: the task is allocated with start_count at its mask, which keeps it from
   being spawned while setup publishes it to its producers. *)
Launch(x, t, a) ==
  /\ ~InCall(x) /\ phase[t] = "idle"
  /\ Usable(x, a)
  /\ node' = [node EXCEPT ![t] = "alive"]
  /\ args' = [args EXCEPT ![t] = a]
  /\ making' = [making EXCEPT ![x] = t]
  /\ startCount' = [startCount EXCEPT ![t] = StartMask]
  /\ todo' = [todo EXCEPT ![x] = [i \in 1..Len(a) |-> F("arg", t, i, 0)]
                                   \o <<F("bind", t, 0, 0), F("return", t, 0, 0)>>]
  /\ phase' = [phase EXCEPT ![t] = "pending"]
  /\ want' = [want EXCEPT ![t] = [i \in DOMAIN a |-> Version(a[i].v, a[i].w)]]
  /\ last' = [v \in Nodes |-> IF v = t THEN 1
                              ELSE IF \E i \in DOMAIN a : a[i] = [v |-> v, w |-> TRUE]
                                   THEN last[v] + 1 ELSE last[v]]
  /\ UNCHANGED <<head, life, nextWriter, countdown, woken, count, refs, var, owed, mem>>

(* The tasks are named in the order they are launched in. *)
Run(x, t, a) ==
  /\ \A u \in Tasks : u < t => phase[u] # "idle"
  /\ \A s \in Storage : node[s] # "unborn"
  /\ Launch(x, t, a)

Push(n, a) == head' = [head EXCEPT ![n] = Open(<<a>> \o @.arcs)]

(* setup returns how many prerequisites an argument adds.  Mutant: it is one short. *)
OweShort(t, k) == owed' = [owed EXCEPT ![t] = @ + k - 1]
Owe(t, k)      == owed' = [owed EXCEPT ![t] = @ + k]

(* oox_var_args::setup of a reading argument takes the var's current task and port. *)
ReadArg(x) ==
  /\ At(x, "arg")
  /\ LET a == args[making[x]][Cur(x).port] IN
     /\ ~a.w
     /\ Then(x, <<F("link", var[a.v].cur, var[a.v].port, 0)>>)
  /\ UNCHANGED <<node, engine, setup, ghost>>

(* assign_prerequisite's add_arc: node n will notify this task when it is done. *)
AddArc(x, n, p) ==
  /\ head[n].tag = "open"
  /\ Push(n, FlowBack(making[x], p))
  /\ Owe(making[x], 1)
  /\ Then(x, <<>>)

(* A consumer too late for the list holds the slot.  Mutant: it does not. *)
LateFramesNone(n, p) == <<>>
LateFrames(n, p)     == <<F("late", n, p, 0)>>

(* The first try, and the look at why it failed: done, or redirected to the writer that
   took over a deferred var. *)
Link(x) ==
  /\ At(x, "link")
  /\ LET n == Cur(x).node
         p == Cur(x).port IN
     \/ AddArc(x, n, p)
     \/ /\ head[n].tag = "redirect"
        /\ Then(x, <<F("hop", head[n].arcs[1].node, head[n].arcs[1].port, 0)>>)
        /\ UNCHANGED <<head, owed>>
     \/ /\ head[n].tag = "done"
        /\ Then(x, LateFrames(n, p))
        /\ UNCHANGED <<head, owed>>
  /\ UNCHANGED <<node, startCount, life, nextWriter, countdown, woken, count, refs,
                 var, args, making, ghost>>

(* The second try, on that writer. *)
Hop(x) ==
  /\ At(x, "hop")
  /\ LET n == Cur(x).node
         p == Cur(x).port IN
     \/ AddArc(x, n, p)
     \/ /\ head[n].tag # "open"
        /\ Then(x, LateFrames(n, p))
        /\ UNCHANGED <<head, owed>>
  /\ UNCHANGED <<node, startCount, life, nextWriter, countdown, woken, count, refs,
                 var, args, making, ghost>>

(* The value is there already: hold the slot against its next writer... *)
Late(x) ==
  /\ At(x, "late")
  /\ countdown' = [countdown EXCEPT ![Cur(x).node][Cur(x).port] = @ + 1]
  /\ Then(x, <<F("hold", Cur(x).node, Cur(x).port, 0)>>)
  /\ UNCHANGED <<node, head, startCount, life, nextWriter, woken, count, refs, setup, ghost>>

(* ... and remember to let it go when this task completes. *)
Hold(x) ==
  /\ At(x, "hold")
  /\ Push(making[x], BackOnly(Cur(x).node, Cur(x).port))
  /\ Then(x, <<>>)
  /\ UNCHANGED <<node, startCount, life, nextWriter, countdown, woken, count, refs, setup, ghost>>

(* The arcs found waiting on a deferred placeholder go to the writer, under the writer's
   port.  Mutants: they keep the placeholder's port; they are lost. *)
MovesOldPort(r, p) == [j \in 1..Len(r) |-> F("move", r[j].node, r[j].port, 0)]
MovesNone(r, p)    == <<>>
Moves(r, p)        == [j \in 1..Len(r) |-> F("move", r[j].node, p, 0)]

(* A writing argument, oox_var_base::set_next_writer.  Deferred: the waiting arcs are
   taken off the placeholder, which from now on sends readers to the writer... *)
RedirectVar(x) ==
  /\ At(x, "arg")
  /\ LET i == Cur(x).port
         t == making[x]
         v == args[t][i].v
         s == var[v].cur
         r == head[s].arcs IN
     /\ args[t][i].w /\ var[v].deferred
     /\ head' = [head EXCEPT ![s] = Redirect(t, PortOf(t, i))]
     /\ var' = [var EXCEPT ![v] = [@ EXCEPT !.deferred = FALSE]]
     /\ todo' = [todo EXCEPT ![x] = Moves(r, PortOf(t, i)) \o @]
  /\ UNCHANGED <<node, startCount, life, nextWriter, countdown, woken, count, refs,
                 args, owed, making, ghost>>

(* ... and put on the writer's list one by one. *)
Move(x) ==
  /\ At(x, "move")
  /\ Push(making[x], FlowBack(Cur(x).node, Cur(x).port))
  /\ Then(x, <<>>)
  /\ UNCHANGED <<node, startCount, life, nextWriter, countdown, woken, count, refs, setup, ghost>>

(* task_node::set_next_writer: a slot whose value is there had kept one count for
   whoever comes next. *)
SetNextWriter(x, n, p, d) ==
  /\ nextWriter' = [nextWriter EXCEPT ![n][p] = d]
  /\ Then(x, IF nextWriter[n][p] = Ready THEN <<F("dec", n, p, 1)>> ELSE <<>>)

(* The writer waits for the slot it overwrites, and the var stands for the writer's port
   from now on: current_task and the port change between two accesses to atomics. *)
WriteArg(x) ==
  /\ At(x, "arg")
  /\ LET i == Cur(x).port
         t == making[x]
         v == args[t][i].v IN
     /\ args[t][i].w /\ ~var[v].deferred
     /\ SetNextWriter(x, var[v].cur, var[v].port, Writer(t))
     /\ Owe(t, 1)
     /\ var' = [var EXCEPT ![v] = [@ EXCEPT !.cur = t, !.port = PortOf(t, i)]]
  /\ UNCHANGED <<node, head, startCount, life, countdown, woken, count, refs, args, making, ghost>>

(* What publishing takes off start_count.  Mutant: one too few. *)
ProtectionShort(t) == StartMask - owed[t] - 1
Protection(t)      == StartMask - owed[t]

(* gen_oox::bind_to, then remove_prerequisite of the protection to publish the task. *)
Bind(x) ==
  /\ At(x, "bind")
  /\ LET t == making[x] IN
     /\ life' = [life EXCEPT ![t] = BindLife(t)]
     /\ var' = [var EXCEPT ![t] = [live |-> FALSE, cur |-> t, port |-> 0, deferred |-> FALSE]]
     /\ Then(x, <<F("pre", t, 0, Protection(t))>>)
  /\ UNCHANGED <<node, head, startCount, nextWriter, countdown, woken, count, refs,
                 args, owed, making, ghost>>

(* return r: the var of the result is the application's to use. *)
Return(x) ==
  /\ At(x, "return")
  /\ var' = [var EXCEPT ![making[x]] = [@ EXCEPT !.live = TRUE]]
  /\ Then(x, <<>>)
  /\ UNCHANGED <<node, engine, args, owed, making, ghost>>

(***************************************************************************)
(* Dropping a variable and waiting for one                                 *)
(***************************************************************************)
(* A var with storage leaves its origin as the final owner, a void one leaves none.
   Mutant: none ever does. *)
FinalOwnerNever(v) == NoOwner
FinalOwner(v) == IF IsVoid(v) THEN NoOwner ELSE Owner(v)

(* oox_var_base::release, from the destructor or an assignment. *)
Drop(x, v) ==
  /\ ~InCall(x) /\ MayDrop(x, v)
  /\ \A t \in Scope[v].after : phase[t] # "idle"
  /\ \A u \in Scope[v].inner : ~var[u].live
  /\ var[v].deferred => head[var[v].cur].arcs = <<>>
  /\ var' = [var EXCEPT ![v] = [@ EXCEPT !.live = FALSE]]
  /\ nextWriter' = [nextWriter EXCEPT ![var[v].cur][var[v].port] = FinalOwner(v)]
  /\ todo' = [todo EXCEPT ![x] = IF nextWriter[var[v].cur][var[v].port] = Ready
                                 THEN <<F("dec", var[v].cur, var[v].port, 1)>> ELSE <<>>]
  /\ UNCHANGED <<node, head, startCount, life, countdown, woken, count, refs, args, owed, making, ghost>>

(* wait_and_get: oox_var_base::wait, then the value. *)
WaitVar(x, v) ==
  /\ ~InCall(x) /\ MayWait(x, v)
  /\ todo' = [todo EXCEPT ![x] = <<F("wait", v, 0, 0), F("get", v, 0, 0)>>]
  /\ UNCHANGED <<node, engine, setup, ghost>>

(* The shortcut: the producer is done. *)
Wait(x) ==
  /\ At(x, "wait")
  /\ LET v == Cur(x).node IN
     Then(x, IF head[var[v].cur].tag = "done" THEN <<>> ELSE <<F("block", v, 0, 0)>>)
  /\ UNCHANGED <<node, engine, setup, ghost>>

(* task::wait sleeps until the backend's wakeup. *)
Block(x) ==
  /\ At(x, "block")
  /\ woken[var[Cur(x).node].cur]
  /\ Then(x, <<>>)
  /\ UNCHANGED <<node, engine, setup, ghost>>

Get(x) ==
  /\ At(x, "get")
  /\ Then(x, <<>>)
  /\ UNCHANGED <<node, engine, setup, ghost>>

(***************************************************************************)
(* functional_task::execute                                                *)
(***************************************************************************)
Start(t) ==
  /\ At(t, "start")
  /\ phase' = [phase EXCEPT ![t] = "running"]
  /\ Then(t, <<>>)
  /\ UNCHANGED <<node, engine, setup, mem, last, want>>

(* The functor returns: the result is emplaced, the references are written; then
   notify_successors takes every slot's countdown out of the consumers' reach. *)
Countdowns(t, c) == [c EXCEPT ![t] = [p \in Port |-> IF p \in Slots(t) THEN Half ELSE @[p]]]

Finish(t) ==
  /\ At(t, "finish")
  /\ phase' = [phase EXCEPT ![t] = "done"]
  /\ mem' = [v \in Nodes |-> IF v = t THEN 1
                             ELSE IF \E i \in Writes(t) : args[t][i].v = v
                                  THEN want[t][CHOOSE i \in Writes(t) : args[t][i].v = v] + 1
                                  ELSE mem[v]]
  /\ countdown' = Countdowns(t, countdown)
  /\ count' = Countdowns(t, count)
  /\ Then(t, <<>>)
  /\ UNCHANGED <<node, head, startCount, life, nextWriter, woken, refs, setup, last, want>>

(* do_notify_arcs: a back arc lets a producer's slot go, a flow arc tells a consumer; one
   without a way back only takes its prerequisite off. *)
ArcFrame(a) == CASE a.kind = "back_only" -> F("dec", a.node, a.port, 1)
                 [] a.kind = "flow_only" -> F("pre", a.node, 0, 1)
                 [] OTHER -> F("flow", a.node, a.port, 0)

(* head.exchange(done): the arcs found are notified, newest first. *)
Exchange(t) ==
  /\ At(t, "exchange")
  /\ head' = [head EXCEPT ![t] = Done]
  /\ LET r == head[t].arcs IN Then(t, [i \in 1..Len(r) |-> ArcFrame(r[i])])
  /\ UNCHANGED <<node, startCount, life, nextWriter, countdown, woken, count, refs, setup, ghost>>

(* The consumer's arc turns round and goes onto the consumer, unless the slot is at its
   end without an owner; the consumer loses a prerequisite. *)
TurnBackNever(t, p) == FALSE   \* mutant: the arc is always deleted
TurnBack(t, p) == nextWriter[t][p] # NoOwner

Flow(t) ==
  /\ At(t, "flow")
  /\ LET c == Cur(t).node
         p == Cur(t).port IN
     /\ IF TurnBack(t, p)
        THEN /\ Push(c, BackOnly(t, p))
             /\ count' = [count EXCEPT ![t][p] = @ - 1]
        ELSE UNCHANGED <<head, count>>
     /\ Then(t, <<F("pre", c, 0, 1)>>)
  /\ UNCHANGED <<node, startCount, life, nextWriter, countdown, woken, refs, setup, ghost>>

(* do_notify_out: with no next writer yet, one count is kept for it.  Mutant: none is. *)
KeptNone(t, p) == 0
Kept(t, p)     == IF nextWriter[t][p] = Null THEN 1 ELSE 0

Out(t) ==
  /\ At(t, "out")
  /\ LET p == Cur(t).port IN
     /\ nextWriter' = [nextWriter EXCEPT ![t][p] = IF @ = Null THEN Ready ELSE @]
     /\ Then(t, <<F("dec", t, p, count[t][p] - Kept(t, p))>>)
  /\ UNCHANGED <<node, head, startCount, life, countdown, woken, count, refs, setup, ghost>>

Wakeup(t) ==
  /\ At(t, "wakeup")
  /\ woken' = [woken EXCEPT ![t] = TRUE]
  /\ Then(t, <<>>)
  /\ UNCHANGED <<node, head, startCount, life, nextWriter, countdown, count, refs, setup, ghost>>

(***************************************************************************)
(* The system                                                              *)
(***************************************************************************)
Init ==
  /\ node = [n \in Nodes |-> "unborn"]
  /\ head = [n \in Nodes |-> Open(<<>>)]
  /\ startCount = [n \in Nodes |-> 0]
  /\ life = [n \in Nodes |-> 0]
  /\ nextWriter = [n \in Nodes |-> [p \in Port |-> Null]]
  /\ countdown = [n \in Nodes |-> [p \in Port |-> 1]]
  /\ woken = [n \in Nodes |-> FALSE]
  /\ count = [t \in Tasks |-> [p \in Port |-> 0]]
  /\ refs = [t \in Tasks |-> 0]
  /\ var = [n \in Nodes |-> [live |-> FALSE, cur |-> n, port |-> 0, deferred |-> FALSE]]
  /\ args = [t \in Tasks |-> <<>>]
  /\ owed = [t \in Tasks |-> 0]
  /\ making = [x \in Clients |-> NoTask]
  /\ todo = [x \in Threads |-> <<>>]
  /\ phase = [t \in Tasks |-> "idle"]
  /\ mem = [n \in Nodes |-> 0]
  /\ last = [n \in Nodes |-> 0]
  /\ want = [t \in Tasks |-> <<>>]

Call(x) ==
  \/ \E s \in Storage : Create(x, s)
  \/ \E t \in Tasks : \E a \in ArgLists[t] : Run(x, t, a)
  \/ \E v \in Nodes : Drop(x, v)
  \/ \E v \in Waitable : WaitVar(x, v)

ClientStep(x) ==
  \/ ReadArg(x) \/ Link(x) \/ Hop(x) \/ Late(x) \/ Hold(x)
  \/ RedirectVar(x) \/ Move(x) \/ WriteArg(x)
  \/ Bind(x) \/ Return(x) \/ Wait(x) \/ Block(x) \/ Get(x)

CountStep(x) == Pre(x) \/ Join(x) \/ Rel(x) \/ Sub(x) \/ Dec(x)

WorkerStep(t) ==
  \/ Start(t) \/ Finish(t) \/ Exchange(t) \/ Flow(t) \/ Out(t) \/ Wakeup(t)

(* With every thread at rest the clients may leave it there. *)
Rest == /\ \A x \in Threads : todo[x] = <<>>
        /\ UNCHANGED vars

Next == \/ \E x \in Clients : Call(x) \/ ClientStep(x)
        \/ \E x \in Threads : CountStep(x)
        \/ \E t \in Tasks : WorkerStep(t)
        \/ Rest

Spec == Init /\ [][Next]_vars

(* Clients inside a call and spawned tasks keep running; when the next call is made is
   the application's business. *)
Fairness == /\ \A x \in Clients : WF_vars(ClientStep(x) \/ CountStep(x))
            /\ \A t \in Tasks : WF_vars(WorkerStep(t) \/ CountStep(t))
FairSpec == Spec /\ Fairness

(***************************************************************************)
(* Types                                                                   *)
(***************************************************************************)
(* What thread x may have left to do.  Only clients set up arguments, and those of a task
   they are launching; notify_successors releases what its own task summed up. *)
FrameOf(x) ==
  {f \in Frame :
     /\ f.op \in SetupOps => x \in Clients /\ making[x] \in Tasks /\ phase[making[x]] # "idle"
     /\ f.op = "arg" => f.port \in DOMAIN args[making[x]]
     /\ f.op = "relall" => f.node \in Tasks}

FramesFit == /\ todo \in [Threads -> Seq(Frame)]
             /\ \A x \in Threads : todo[x] \in Seq(FrameOf(x))

(* Every variable has its type, and every thread has frames of its own kind. *)
TypeOK ==
  /\ node \in [Nodes -> {"unborn", "alive", "freed"}]
  /\ head \in [Nodes -> ArcHead]
  /\ startCount \in [Nodes -> Int]
  /\ life \in [Nodes -> Int]
  /\ nextWriter \in [Nodes -> [Port -> NextWriter]]
  /\ countdown \in [Nodes -> [Port -> Int]]
  /\ woken \in [Nodes -> BOOLEAN]
  /\ count \in [Tasks -> [Port -> Int]]
  /\ refs \in [Tasks -> Int]
  /\ var \in [Nodes -> OoxVar]
  /\ args \in [Tasks -> Seq([v : Nodes, w : BOOLEAN])]
  /\ owed \in [Tasks -> Int]
  /\ making \in [Clients -> Tasks \cup {NoTask}]
  /\ phase \in [Tasks -> {"idle", "pending", "running", "done"}]
  /\ mem \in [Nodes -> Nat]
  /\ last \in [Nodes -> Nat]
  /\ want \in [Tasks -> Seq(Nat)]
  /\ \A t \in Tasks : Len(args[t]) <= MaxPort /\ Len(want[t]) = Len(args[t])
  /\ FramesFit
=============================================================================
