# Formal models of oox

oox (`src/oox/oox.h`) runs a sequential-looking C++ program out of order. A call
`oox::run(f, args...)` returns at once with an `oox::var` for the result; the
task that will run `f` finds out from its arguments which earlier tasks it has
to wait for: those that produce what it reads (flow dependences), those that
still read what it overwrites (anti dependences) and those that write what it
overwrites (output dependences). There is no central scheduler: tasks hang arcs
on each other, count down, and free themselves.

This directory holds TLA+ models of that engine, TLC configurations that check
them on small graphs, and proofs checked by TLAPS.

## The system

| component | state | operations | talks to |
|---|---|---|---|
| `oox_var_base` / `var<T>` (oox.h 1265-1570) | `current_task`, `current_port`, `storage_offset`, `is_deferred`; plain fields of an object the application owns | construct with a value, construct deferred, read, overwrite (`set_next_writer`), wait, `wait_and_get`, drop (`release`) | the node it currently stands for |
| `arc_list` (650-760) | one atomic word: an open list of arcs, `done`, or `redirect` | `add_arc`, exchange with `done`, exchange with a redirect | pushed on by any thread, taken once by the producer |
| `output_node` (690-765) | per output port `next_writer` and `countdown` | install the next writer, hold the slot, let it go | the consumers of a version, its producer and its next writer |
| `task_life` (150-215) | `life_count` | `life_set_count`, `life_release` | everyone who holds the node |
| `task_node` / `functional_task` (766-1260, 1840-1900) | `start_count` and the above | `assign_prerequisite`, `set_next_writer`, `notify_successors`, `remove_back_arc`, `remove_prerequisite`, `execute` | the backend: `spawn`, `wait`, `wakeup` |
| backends (270-640) | completion flag of the backend's task | spawn, wait, wakeup for serial, OpenMP, TBB, Taskflow, Twist, Folly, `std::async` | third-party runtimes |
| forwarding (1590-1608, 1718-1792, 1940-1966) | the `var` a functor returned, kept in its task's `result_state`; the task suspended on its producer | `try_forward_result`, the second `execute`, `consume`, `wait_and_get` over nested vars, release of the var with the task | the task it forwards to |
| conversion to `oox::node` (1498-1502) | a `var<void>` made from a `var<D>` | give the storage's reference back | the node that owns the storage |
| failures (60-150, 860-1010) | failure bits in `start_count`, `exception_control`, terminal arcs | `mark_failure`, `publish_failure_from`, `cancel`, `wait_status` | successors and waiters |
| task bench (`src/benchmarks/taskbench`) | the grid of tasks, dependence patterns, kernels, metrics, a runner per library | generate, run, validate | oox and third-party schedulers |
| RapidStart (`src/benchmarks/rapid_start.h`) | `epoch`, `start_mask`, `run_mask`, `finish_mask` | `parallel_ranges` by the master, the workers' trap | TBB workers |
| harness, benchmarks, examples, scripts, tests | none of their own | applications of the library | |

What is hard: almost every state change of the engine is one access to an atomic
word, made by a thread that may be a client inside `oox::run`, `wait` or a
destructor, or a worker finishing a task, and any number of them work on one
node. The counts (`start_count`, `countdown`, `life_count`) are each changed from
several places and every one of those changes has to be matched by another; the
arcs change owner and direction while the program runs; the node is freed by
whoever finishes with it last. The properties follow from that:

* **dataflow**: every body reads and overwrites exactly the versions of its
  variables that the program would have met if it were serial;
* **accounting**: each count is exactly what is still to come, so nothing starts
  early, nothing is forgotten, nothing is freed twice or never;
* **lifetimes**: nobody touches a freed node or value, and when every variable is
  dropped and every thread rests nothing is left;
* **progress**: a wait returns, a launched task runs, with a backend that runs
  tasks elsewhere and with one that runs them inside `spawn`.

`PROJECT.json` lists each hazard at its line with the property that covers it.

## The modules

### Dataflow: what is promised

`Dataflow` is the abstract specification. A variable goes through numbered
versions; launching a task binds each argument to a version in program order; a
task may start when the writers of what it reads or overwrites and the readers
of what it overwrites are done. A task is also the variable of its own result.
`SerialReads` says what a caller relies on; `Consistent` is the conjunction of
that with the reasons for it.

### TaskGraph: how oox does it

`TaskGraph` is the engine with the non-throwing policy (`CanThrow` false). Every
action is one access to an atomic of oox.h together with the thread-local code
that leads to the next. What a thread has left to do is `todo[x]`, its call
stack as a list of frames: `Pre` is `remove_prerequisite`, `Dec` is
`remove_back_arc`, `Rel`/`Sub` are the two halves of `life_release`, `Link`,
`Hop`, `Late`, `Hold` are the steps of `assign_prerequisite`, and so on;
`BodyFrames` is the sequence `execute` and `notify_successors` run through.
Threads are the clients and the tasks themselves (a spawned task is a thread).

| TaskGraph | oox.h |
|---|---|
| `head` (open / done / redirect) | `arc_list::head` with its two marker values |
| `startCount`, `owed` | `task_node::start_count`; what `setup` has returned so far |
| `nextWriter`, `countdown` | `output_node` of each port |
| `Null`, `Ready`, `Writer`, `Owner`, `NoOwner` | the values of `next_writer`: null, the `ready` marker, a next writer's node, the final owner of the storage (tagged pointer), a var without storage |
| `life` | `task_life::life_count` |
| `var` | the plain fields of `oox_var_base` |
| `woken` | the backend's completion flag behind `wait` and `wakeup` |
| `phase`, `mem`, `last`, `want` | ghosts: where the body is, the version a variable holds, the last version launched, the version each argument is meant to see |
| `StartMask`, `Half` | `start_count_mask` and `INT_MAX/2`, with their real values |

Steps that the model takes together are those no other thread can tell apart:

* `add_arc` is one step: its compare-and-swap loop either pushes or finds the list
  closed;
* `Dec` reads `next_writer` in the step that brings the countdown to zero: it was
  installed before and does not change again;
* `Finish` stores the result, runs the end of the functor and resets the
  countdowns: nobody uses the countdown of a running task before the arcs are
  taken;
* `Flow` reads `next_writer` and pushes the turned arc in one step: they are on
  different words, and a variable dropped in between is one dropped just after;
* `WriteArg` changes the plain fields of the var together with the swap of
  `next_writer`: they belong to the calling client alone, except in the race of
  `DeferredRace` below;
* `Bind` sets `life_count` and fills the result's var: the task cannot be run
  before the protection in `start_count` is taken off, which is the next step.

The clients follow the rules the README and tests of oox follow: a call that
writes or drops a variable is alone with it, calls that read it may overlap
(`MayRead`, `MayWrite`, `MayWait`, `MayDrop`), and one variable is not given to
a call twice when one of the two is a writing argument. Nobody waits while a
variable is still deferred, nor drops one that readers hang on. `Race` lets
the first writer of a deferred variable run concurrently with its readers, which
the comment at oox.h 1012-1014 and the test
`tests/twist/test_twist_known_deferred_race.cpp` are about.

`TaskGraphProps` states the properties and instantiates `Dataflow` under the
refinement mapping: `phase`, `last` and `mem` map to themselves, the reads and
writes of a task are its arguments with the versions they stand for.

`DeferredRace` adds the one behaviour that `TaskGraph` takes as atomic: `setup` of
a reader sees the new `current_task` with the old port, between the two plain
assignments of `set_next_writer`.

### OpenMPWait: one backend that does not fit

`TaskGraph` takes the backend's `wait` and `wakeup` as a sticky flag, which is what
the Twist backend implements (oox.h 468-478) and what a shared future is (412-438). The
OpenMP and the `std::async` backends are different. `OpenMPWait` puts OpenMP's own
constructs in their place: `children` holds what each thread spawned (`#pragma omp
task` makes a child of the task it is met in) and `TaskWait` is `#pragma omp
taskwait`, which waits for those and nothing else.

### StdWait: a wait that can be had once

On the `std::async` backend each node has a `std::promise`, `wait()` is
`waiter.get_future().wait()` (oox.h 549-551) and `wakeup()` is `set_value()` (552-554). A
promise gives its future away once, and `oox_var_base::wait` calls `task::wait` whenever the
node is not complete (1338-1342). `StdWait` extends `TaskGraph` and puts three
actions in the place of `Block`: `GetFuture`; `FutureWait`, until the promise is set; and `Refused`, in which `get_future` throws `std::future_error` and the call
of `wait_and_get` ends with it. Whether a future has been taken (`Retrieved`) is kept in two places: in the frame of the client that
is asleep in it, and, when that client has gone on, as a third value of `woken` (`Spent`), which it
can only do once the promise is set. So of two clients that wait for one pending variable at once
the second gets an exception and not the value. `WaitAgain` says how far this goes: a future
is only ever taken by somebody who is still asleep in it or from a node that has completed, so
that who waits when no other wait for the node is under way is never refused.
`Failures` and `Forwarding` keep the sticky flag.

### Forwarding: functors that return a variable

A functor may launch tasks itself and return one of its variables. Its task then keeps
that `var` as its result, writes `start_count` anew, hangs a flow-only arc on the
variable's producer and leaves `execute` without telling its successors; the
second `execute`, when the producer is done, does that. A variable may so stand for a
chain of them. `Forwarding` extends `TaskGraph`: a functor is a client of the engine
with a thread of its own (`Functor`), in which it makes variables, launches tasks and
drops its locals by `TaskGraph`'s actions, while the rest of its task's `execute` waits.

| Forwarding | oox.h |
|---|---|
| `prog`, constant `Programs` | the application: who makes which variable and task, with which arguments, what is waited for, what the functors return |
| `result` | the `var` in a forwarding task's `result_state` |
| `stage` | where `execute` is: before the functor, in it, about to attach, suspended, ready to notify |
| `StartFunctor`, `Emplace`, `Attach` | `try_forward_result` (1732-1747): the functor's call, the result with `start_count` and the continuation's hold, `add_arc` on `result.current_task` |
| `Resume` | `execute` finds a value (1775) |
| `Guard` | `OOX_TASK_EXECUTE_LIFETIME_GUARD` as the suspended thread leaves |
| `DeleteForwarder`, `ReleaseResult` | `~functional_task`, and in it `release()` of the var it holds |
| `Consumed` | `consume()`: one level of forwarding |
| `Chain`, `End` (`ForwardingProps`) | the loop of `wait_and_get` (1946-1955) |

Steps taken together, for the reasons given with `TaskGraph`: `Emplace` stores the result, writes
`start_count` and adds to `life_count` before the arc is offered, when nobody else can
tell; a forwarder is deleted together with the release of its result, because it is its
last holder who does both.

`Examples` holds the programs of `src/examples` at their smallest sizes: `Fib`, `disk_usage`
(both chains of forwarding tasks, the second with a writer of what is returned) and
the wavefront `LCS`, where the neighbours outside the matrix, empty variables
that all get the same default value, are one variable that a cell reads once.

`VoidConversion` adds to `TaskGraph` the conversion of a variable with a value to an
`oox::node`.

### Failures: exceptions and cancellation

`Failures` is the throwing policy (`CanThrow` true). It keeps `TaskGraph`'s frames but
not its slots, countdowns and lifetimes: tasks here only read each other, by the
result of a task (port 0) or by a variable it was to write (any other port), and a
task's functor may launch another and return its var.

| Failures | oox.h |
|---|---|
| `prog`, constant `Programs` | the graph: what each task reads and what its functor returns; which bodies may throw, what may be waited for and cancelled |
| `head` (open with its arcs / done / terminal) | `arc_list::head`, with the signals on the list and the tagged terminal exception arc |
| `word` (`count`, `bits`) | `start_count`: 27 bits of prerequisites, the failure bits |
| `refs` | `exception_control_struct::ref_count`; an exception is named by the task that threw it |
| `MarkFailure`, `SetBit` | `mark_failure`: the look at the head and at the word, the compare-and-swap |
| `PublishFailureFrom`, `AddSignal`, `DropSignal` | `publish_failure_from`, `store_exception_control`, `~arc` |
| `Link`, `Late` | `assign_prerequisite` with the look at the failure of a finished producer |
| `Pre` | `remove_prerequisite`: spawn, or complete a task that depends on a failure |
| `Start`, `ReturnValue`, `Throw` | `functional_task::execute` and its `catch` |
| `Emplace`, `Attach`, `Look`, `Resume` | `try_forward_result`, the look at the failure of a result that is already there (1761), the second `execute` |
| `Exchange`, `NotifyArc`, `Wakeup` | `notify_successors<CanThrow>`, `do_notify_arcs` |
| `Cancel`, `WaitFor`, `Wait`, `Block`, `Status` | `cancel_current_task`, `wait_for_all_status<false>`, `failure_wait_status<false>` |

Steps taken together: `publish_failure_from` reads the producer's bits and its
exception in one step, and so does completion before its exchange, because the
producer is done, or is the task itself with all its prerequisites gone, and no
exception can come to it any more; a user's cancel can, and the bits are read when
the code reads them. The weak compare-and-swap of `SetBit` fails only when the word
has changed: a spurious failure repeats the same look. The back arc of a consumer
is left out with the slots.

`FailuresProps` states what is promised: who may run (`InputsThere`,
`CancelHeeded`), what becomes of exceptions (`SignalsInPlace`, `RefsExact`,
`RealExceptionWins`), what waiters are told (`StatusSound`, `OutcomeStays`), and
progress.

Limits of the promise that are visible in the properties:

* A `cancel()` that looked at its task before it was done may set its bit when it is:
  of two waits for that task the first may say `ready` and the second
  `user_cancelled`. `OutcomeStays` therefore says that the status of a task that is done
  stays as long as no such bit is on its way.
* A wait for a cancelled task may say `user_cancelled` although its body ran to its
  end, because the cancel came while it ran.
* `try_forward_result` stores 1 over `start_count`: a cancellation that came while the
  functor ran is lost with the old word, and the task ends with its result's value.
  `CancelHeeded` promises no more than the code keeps: a task that was cancelled
  *before* its body started does not start.

`MCTaskGraph`, `MCStdWait`, `MCDataflow`, `MCFailures`, `MCForwarding`, `MCVoidConversion` and
`MCOpenMPWait` give the programs and scopes of the runs.

### The proofs

`DataflowProofs`, `TaskGraphProofs` and `ForwardingProofs` prove about the module they are
named after; those about `TaskGraph` go on in two modules. `TaskGraphProofs` has the types, the
invariant of the counts, what follows from it, and the steps of a client that sets up the
arguments of a task, `TaskGraphCounts` the other steps, and `TaskGraphVersions` what is true of
the versions of variables, up to the refinement of `Dataflow`, and of those who wait for them. So do the proofs about `Failures`: `FailuresProofs` (types, shapes of frames and cancellations; then the prerequisites
a task still has; then who refers to an exception) and `FailuresOutcomes` (what completion
found). `Stacks` has the operators the invariants
share, on the call stacks that both engines keep in `todo`: where the frames with a property
are in a family of sequences (`Spots`), and what is before and after a frame. `StacksProofs`
proves what a step that changes one stack does to them. See below for the theorems.

## The runs

| run | question | bounds |
|---|---|---|
| `dataflow` | does the inductive invariant of the proofs hold, do versions follow one another | 3 tasks, one ordinary and one deferred variable, every argument list |
| `one_client` | does the engine implement `Dataflow`, do its assertions hold | 3 tasks over a variable and each other's results, read and overwritten; variables dropped in reverse order of creation |
| `lifetimes` | are the three counts exact, is nothing used after it is freed or leaked, do waits and tasks end | 2 tasks, the second reads or overwrites the first's result, with or without the variable (`Pairs`); waits and drops at any moment |
| `std_backend` | is anyone stuck or left with a freed node when `spawn` joins its task, and so the tasks that one lets go, and when `wait` is a future that can be had once (`StdWait`); who is refused | 3 tasks that read or write a deferred variable, 2 clients that launch, drop and wait and a third that waits |
| `deferral` | are the readers of a deferred variable, before, during and after its first writer, all served with the right version | 3 tasks that read or write it, 2 racing clients |
| `forwarding` | does whoever gets at a forwarded value find the whole chain and the right version, is each suspended task resumed once, does everything end and is it freed | the 7 applications below, up to 5 tasks and 2 functors |
| `failures` | does the right set of tasks fail, for the right reason, does an outcome stay, and is every waiter told the truth | `Diamond` and `Forwarding` below, 2 users |
| `failures_end` | does every task and every call end, whatever fails | the same (`Ends`), fewer waits, throws and cancels |
| `nested_consume` | does the consumer of a task that forwards twice get a value | `DeepUser`; violates `ConsumesValue` |
| `node_conversion` | does a variable turned into a node keep its references balanced | one task; violates `LifeCountValid` |
| `openmp_wait` | is the task waited for done when OpenMP's taskwait returns | a task and a reader of its result; violates `WaitedForDone` |
| `torn_read` | what if the var's two plain fields are read between their assignments | as `deferral`; violates `SerialReads` |

The bounds of a run, and why they are enough for the question:

* `Tasks`, `ArgLists`: three tasks are the fewest with a producer, a reader and an
  overwriter of one version, the shape in which flow, anti and output dependences
  meet on one slot. In `lifetimes` there are two: the
  first reads or overwrites the variable, the second reads the first's result, overwrites it,
  or overwrites it after reading or overwriting the variable. Waits and drops are then free.
* `MaxPort` is the number of arguments plus the result.
* `Storage`: one variable constructed with a value or deferred; the tasks' results
  are variables as well.
* `Scope`: when a variable may be dropped. In `lifetimes` always; in the others in
  the reverse order of creation, or after all the tasks are launched, which removes
  permutations of drops that differ in nothing the run asks.
* `Waitable`: empty where the question is not about waiting. In `std_backend` the results of
  the two tasks that may wait for the writer: of the variable itself nobody waits long, since its
  writer has run when the call that launched it returns.
* `Clients`, `Waiters`: with `spawn` joining its task, a task is only pending while some
  client is inside `oox::run`, or for want of the deferred variable's writer, when
  nobody waits. Two that wait for the same task need a third that launches: `std_backend` has three
  clients, one of which (`Waiters`) only waits.
* variables are created before the first task is launched: allocation touches
  nothing another thread can see. That includes an empty `var` given to `oox::run`, which `setup`
  gives a storage with a default value on the spot (1572-1573).
* tasks are launched in increasing order, which names them in program order.

* `Diamond`: a producer, a reader of its result, and a reader of both, of the producer
  by a variable it was to write. It is the least graph in which two failures of
  different kinds meet at one task, one of them handed on by a task that was skipped.
  The two tasks with successors may throw and be cancelled, once each, by either user;
  in `failures` the two tasks with producers are waited for, any number of times.
* `Forwarding` (of `MCFailures`): a task whose functor launches another and returns its var,
  and a reader of the outcome. Both bodies may throw and the outer one may be cancelled at
  any moment, before, inside and after its functor and while it is suspended.
* `failures_end` needs neither a second cancel nor a second task to wait for: a cancel
  of the producer races every word.
* `Apps` (of `MCForwarding`): `Deep` (a chain of two forwarders, waited for), `Fib`,
  `disk_usage`, `LCS`, `Reader` (a task that reads a forwarded result), `Taker` (one that
  overwrites it, after a writer the functor left behind), and `Left` (the same with a
  reader left behind). A chain of two is the least in which the end is neither the
  task nor what it returned.
* `Scopes`: the result of task 1 is dropped after that of its reader or writer, in the reverse
  order of creation as locals are; everything else when its last use is past
  (`DropLocal`).

The runs check for deadlock as well: `Rest` lets the system stop only with every
thread out of its calls. `Dataflow` may stop, so its cfg says so.

**Fairness.** `FairSpec` asks weak fairness of each client's steps inside a call and
of each spawned task's steps: a thread of the operating system that is not
blocked goes on. No call is fair: when the application makes its next call is its
own business. A task that has no frames has no enabled step, so fairness never
starts a task; only `Pre` does. With `SyncSpawn` the thread that spawned sits in
`Join` until the task it started has ended, as it does in the destructor of the
temporary `std::future`.

`StdFairSpec` asks the same of the steps of `StdWait`: a sleeper goes on when its promise is set.

`Forwarding` states no fairness. But for waits, every call and every task is a finite
number of steps and nothing repeats, so that a behaviour that does not stop early
comes to rest: `AllDone` (at rest no launched task is left undone or suspended),
`NothingLeft` and the check for deadlock say that it is the right rest.

In `Failures`, `FairSpec` is the same: weak fairness of each user's steps inside a call
and of each task's; a functor is assumed to end.

### What openmp_wait shows

`spawn` on the OpenMP backend is `#pragma omp task` (oox.h 325), and it is called by
whoever takes the last prerequisite off a task, mostly the worker that finished its
producer. The task is then a child of that worker's OpenMP task. `wait` is
`#pragma omp taskwait` (329), which waits for the children of the caller. In the run a
client launches task 1 and task 2, which reads its result, and waits for 2; worker 1
spawns 2 and ends; the client, whose only child was 1, is let go, and the assertion
of `wait` (1344) does not hold. On that backend a wait is only safe for a task the
waiting thread spawned itself.

### What std_backend shows

Nobody is stuck: every call returns, although a `spawn` in the middle of a notification joins
the task it starts and that one joins the next. But a call may return by an exception. Two clients
that wait for one pending task both reach `get_future` on its promise, and the second is thrown
`std::future_error` (`Refused`); so is one that looked at the node before it completed and came to the
promise after another's wait. `CallsReturn` counts such a call as returned, and says no more than
that it ends. On this backend a variable may be waited for by one client at a time; then, by
`WaitAgain`, as often as one likes.

### What deferral shows

Readers launched before the first writer of a deferred variable hang on its placeholder.
`set_next_writer` moves their arcs to the first writer, under the port of the variable there
(1310-1320), and a second writer waits for that slot (1321). So each of these readers gets
the first writer's value and no other, in every schedule: `SerialReads`, checked here and proved
below (`SerialReadsHold`), wherever accesses to the `var` do not overlap as in `torn_read`. The
tests ask for less. `tests/twist/test_twist_api_coverage.cpp:39` says of a reader launched
before two writers "Depending on scheduling, b can consume either before or after overwrite.",
and line 40 there, as `tests/test_oox.cpp:182`, accepts 2 or 11. In that program one client
launches the three in turn, so by the model 11 is never seen: the tests would let an engine pass
that lets a second writer overtake the reader. `PROJECT.json` lists this as a disagreement
of the code with that comment.

### What torn_read shows

`set_next_writer` changes `current_task` and then `current_port` (oox.h 1322-1323),
both plain. While the first writer of a deferred variable is in between, `setup`
of a racing reader (1580) may take the writer's node with the placeholder's port
0. Its arc then goes to the right task, so it waits for the value; but it holds
slot 0 of that task and not the variable's slot. The next writer of the variable
waits only for those who hold the variable's slot, and overwrites the value under
the reader. In terms of the C++ standard the race is undefined behaviour already;
the run shows the harm it does on the machines where plain words are read whole.

### What nested_consume shows

An argument that forwards is decoded by `consume()` with one dereference (oox.h
1594-1595), and what it finds is taken for the storage of a value. When the functor's
result is itself the result of a forwarding functor, that is another `var`.
`wait_and_get` (1946-1955) loops until the flag is off. So `oox::wait_and_get(x)` gives
the value where `oox::run(f, x)` hands a `var` to `f` as if it were the value. In `Fib`
and `disk_usage` of the examples every functor's result is a value one level down, so
they do not meet it.

### What node_conversion shows

`var<void>(var<D>&& src)` (1498-1502) copies the base, gives one reference of the
storage's node back, because a node has no use for the value, and forgets the source's
task. The copied `storage_offset` stays, and when the node is dropped `release()` (1355-1357)
names the same storage's node as final owner, whose reference is then given back by
whoever finds it. With one task and no other holder `life_count` would go below zero.

### A limit of forwarding

A functor may return a variable that its own tasks still read (`Left`). A later writer of
the forwarded value waits for the slot of the forwarding task; the reader holds the
slot of the variable inside. The writer may overwrite what it reads. `Exclusive` names
exactly this exception (`LeftReading`): a variable that is returned should be done with.

## What is proved

For every set of tasks, variables, clients, argument lists and applications that
satisfies the assumptions on the constants:

* `TaskGraphProofs!Typed`: `Spec => []TypeOK`. The invariant is inductive because it
  includes `FramesFit`, which says what a thread may have on its stack: only clients
  have setup frames and only while they are launching a task, an argument frame
  names an argument of that task, the release of summed references is a task's
  own. Without it the action that reads `args[making[x]][port]` could not be
  shown to find an argument, nor a port to be one of the node's. One lemma per
  action.
* `TaskGraphCounts!StartCountsExact` and `CountdownsExact`: `Spec => []StartCountExact` and
  `Spec => []CountdownExact`. A start_count is a sum over every open list, every call stack and
  every slot (`Coming`), a countdown a sum over every list and every stack (`Held`), and each
  step of the engine moves its unit from one of these places to another. `CoreHolds`
  (`Spec => []Core`) is the inductive invariant:
  - `Due` and `Tallies` are the counts themselves. They hold each other up: that a back arc
    is not lost to a consumer that has started already follows from its start_count, which the
    notification in hand is counted in; and that the next writer is told once follows
    from the countdown of the slot. `Tallied` also says what the share of the producer is good for:
    `count[n][p]`, which starts at `Half`, stays above what the arcs of the list can take from it,
    so that consumers that finish before `do_notify_out` cannot bring the slot to zero.
  - `Placed` and `Linked` say what a frame or an arc tells of the rest of the state, and where on
    its stack a frame may be: setup is ahead of its protection, the arcs of a task are turned
    before the port they are for is gone through, a slot that is held or let go is
    that of a finished node.
  - `Bodies` and `Stores` say how far each task and storage is, and what its thread has left: a
    list is only taken by its own task, once. So a consumer that finds it closed finds the
    slot held for it (`late`).
  - `Callers` says what a client in `oox::run` may rely on while others run: it writes what nobody
    else reads or writes, but for the readers of a deferred variable that race with its first
    writer; the slot it is about to take over has no next writer; each argument it asks for is
    one it has not counted yet.
  - `Homes` and `Firsts` say whose slot a variable stands for, and where a deferred one leads before
    and after its publication: a reader that was sent on by the redirect comes to the slot
    that the first writer has for the variable. Without it the reader's hold could
    not be placed.

  None of the parts is inductive alone. `Core` covers the first writer of a deferred
  variable racing with its readers (`Race`), tasks run inside `spawn` (`SyncSpawn`) and void
  tasks, as the constants are arbitrary. It needs no fact about who is freed.
* `TaskGraphVersions!SerialReadsHold` and `DataflowImplemented`: `Spec => []SerialReads` and
  `Spec => ImplementsDataflow`, that the engine with its lists, slots, counts and races is a
  refinement of `Dataflow`. `VersionsHold` (`Spec => []Versions`) is the inductive invariant they
  need beside `Core`. A slot *names* a version of a variable (`Names`): the one the variable was
  made with, the result of the slot's task, or what that task makes of one of its arguments.
  - `Claims` ties each argument to a slot with the version it is for. Who reads waits on that
    slot or holds it, or the one frame or arc that is about to put it there exists (`Hangs`), or
    it waits at the placeholder of a deferred variable (`Parked`), or the call is yet to come to that
    argument (`ToCome`). Who overwrites is the slot's next writer.
  - `Dates` says how the versions a variable went through follow the tasks that are done; it is
    `WrittenInOrder` and `OneWriter` of `Dataflow`, said of arguments.
  - `Reaching`, `Currents` and `Heads` say that a call in progress, a variable in use and the redirect
    of a placeholder stand for the newest version, or for the first of a deferred variable: that
    is where a claim comes from when an argument is set up.
  - `Endings` says that a slot without an owner is that of a void task, which nobody reads.

  A task that has been started has a start_count of zero, so by `Core` it is on no list and in
  no frame and no slot counts for it: every claim of its can then only mean that the producer is
  done, that is, that the version is there (`SerialNow`). By the countdown of the slot
  it overwrites, whoever read that version is done as well (`NoneLeft`). With both, `Start` is a
  step of `Dataflow`; `Launch` and `Finish` are the other two, and every other action leaves
  `Dataflow` alone. The publication of a deferred variable is the hard case: the arcs of
  the placeholder are under way in one thread (`Moved`) while others race to the redirect.
* `TaskGraphVersions!WaitSoundHolds` and `NothingForgottenHolds`: `Spec => []WaitSound` and
  `Spec => []NothingForgotten`, with the invariant `Services` (`ServicesHold`), relative to `Core` and
  `Versions`:
  - `Waiters` says that a client that waits for a variable does nothing else, that nobody overwrites or
    drops the variable meanwhile (what the calls of `TaskGraph` allow: no writer is launched beside
    a wait for the same variable), and that the producer is done when it comes to read; `Wakes`, that only
    a completed node has been woken.
  - `Serving` is the converse of `Claims`: every frame and every arc between a slot and a task is there
    for a task that reads what is in that slot. `Taken` says the same of who overwrites.

  A wait that ends reads from a node that is done, and a variable that nobody overwrites stands for its last
  version (`Currents`): so that version is in memory. A thread at rest has no frame, so that by
  `Core` the start_count of a task that has not started is the arcs it has on lists of nodes that are not
  done and the slots that do not count down to it; by `Serving` and `Taken` each of those is a
  version or a reader the dataflow makes it wait for as well. If it waits for nothing there, its
  start_count is zero, and a task with a start_count of zero has a frame that starts it.
* `ForwardingProofs!ForwardTyped` and `ResultKept`: the same invariant under functors,
  suspension and the release of returned variables. The engine's lemmas are cited for the
  steps that are the engine's; the steps of forwarding need `HoldsResult` beside it,
  that a forwarding task has its functor's var exactly from `Emplace` on and that only
  forwarders go through the stages. Without it `Attach` could not be shown to find a
  result to attach to, nor `DeleteForwarder` one to release. `ResultKept` is that fact.
* `FailuresProofs!MarkStays`: `Spec => []Inv`. `Inv` is the types, the shape of each frame, and
  two facts: a task whose body is ahead has an open list (`OpenAhead`), and a cancelled
  task that has not started has its bit, or the user who cancelled it still has it in
  hand (`Marked`). The second needs the first: `mark_failure` gives up on a task that is
  done, and only then. The first needs `Fit`, that completion frames are only for
  tasks whose body is behind. The store over `start_count` in `Emplace` does no harm
  because the body has started by then.
* `FailuresProofs!CancelSeen`: `Spec => CancelHeeded`, from `Marked` and the look at the
  word that precedes every body (`Begins`).
* `FailuresProofs!CountExact`: `Spec => []Core`. A task that waits has in `start_count` exactly
  one for each arc to it on an open list, one for each notification of it that some thread has
  still to make, and what its construction has yet to take off (`Counted`); it is completed
  by one thread. `Core` adds to `Inv` where on a stack a frame may be and what it says of the
  rest of the state (`Placed`: a start frame means that the count is zero, the arcs of a task
  are linked before its protection is taken off), and that nothing runs on the thread of a
  task whose body is ahead (`Resting`). Everything below needs it: that *the last*
  prerequisite is gone is a statement about a sum over all lists and all stacks. That no
  task has `start_count_mask` inputs is the one thing the width of the field asks for.
* `FailuresProofs!RefsCounted`: `Spec => []RefsExact`, that an exception has as many references
  as there are arcs and threads that hold it, with `Refs`, which adds that a task that has
  not thrown has none. `Typed` (`Spec => []TypeOK`) follows from both sums: neither count is
  ever taken below zero.
* `FailuresOutcomes!InputsMade`: `Spec => []InputsThere`, that bodies only run on values that were
  made. The invariant is `Outcomes`: as long as a task waits, each of its inputs has a value,
  or its arc or its notification is still to come, or the task is warned, which is that it
  has a failure bit or that a thread will set one *before* it takes the prerequisite off
  (`Settled`: the frame that does is behind the one that warns, on the same stack). When the
  count is zero nothing is still to come, and every thread that could have warned is past it.
  This is the argument why `notify_successors` marks a consumer before it counts it down.
* `FailuresOutcomes!OutcomeKept`: `Spec => OutcomeStays` from the same invariant: the frames that
  set a bit or add an exception are settled by the completion of their task, so that a task
  that is done has none ahead but a user's cancel.
* `FailuresOutcomes!SignalsKept`: `Spec => []SignalsInPlace`. The invariant is `Grounds`, that every
  mark has its reason. Of the state: what is on the list of a task as a signal was thrown by
  that task or one it depends on, the bit of an exception has a signal on the list, the bit of
  a user a cancel of the task or of one before it, and the bit of a dependency a source that
  ended with a failure. Of the stacks: the same for a mark that a thread is about to make,
  where the frame that puts an exception on a list comes right before its mark
  (`Given`). The list of a task is only taken when the task is done, and nobody adds to
  it once it runs: a signal that is there when the last prerequisite goes has had its mark
  (`MarkedInTime`, from `Outcomes`), so that a body does not start over one.
* `FailuresOutcomes!StatusTold`: `Spec => []StatusSound`. A task whose wait is over is done
  (`Given` again), so its bits have their reasons and its body has ended; and what was a reason
  once stays one (`Settling`): bodies that ended stay as they are, a failure of a task
  that is done is not taken back.
* `FailuresOutcomes!ExceptionWins`: `Spec => []RealExceptionWins`, though a task that failed
  already goes on without the rest. The invariant is `Knowing`: as long as a task waits or was
  skipped, for each result it reads (and the var it forwards) the mark of an exception is on the
  task or on its way to it (`Alarmed`), the producer ended without one (`Clear`), or what the
  producer came to is on its way with the notification (`Borne`) or its arc is in the list
  (`Listed`). No step takes an exception back or brings one to a task that ended without
  (`Steadfast`), and with `CameOut` nothing is on its way to a task that is done.
* `DataflowProofs!ConsistentAlways`: `Spec => []Consistent`, the conjunction of
  `OneWriter` (each version has one writer), `WrittenInOrder` (a variable holds
  version k exactly when the writers up to k are done), `ReadersFirst` (nobody starts
  to overwrite what is still to be read) and `SerialReads`. None of them is
  inductive alone: `SerialReads` survives the end of another task because that
  task would have had to wait (`ReadersFirst`), it survives the start of its own
  because the writers before it are done and no later one is (`WrittenInOrder`),
  and that in turn needs the versions to have one writer each.
* `Serializable`, `ConflictFree`, `VersionsInTurn` and `Typed` follow from it: bodies see the
  versions of program order, conflicting bodies never overlap, versions are
  neither skipped nor undone.

The assumptions on the constants of `Failures` are those of the code's use: finitely many tasks
and users, a task reads only tasks launched before it, fewer inputs than the field of
`start_count` has room for, and a var is returned by one functor.

The assumptions on those of `TaskGraph` are what its words have room for (`RoomAssumption`):
finitely many nodes and clients, fewer arguments in a call than the protection in `start_count`
stands for (`start_count_mask`, 2^27 - 1), and fewer consumers of one slot than
the producer's `INT_MAX/2` (1135). The code relies on both and checks neither: with more
arguments the protection would no longer keep a task from starting while it is set up (1868), with
more consumers they could bring a slot to zero before its producer has gone through it. No
program comes near either.

Model-checked only: `LifeExact` and, with it, who is freed when (`NoUseAfterFree`, `NoLeak`);
`AssertionsHold`; the invariants of `Forwarding` but for its types and `ResultKept`, because
a chain of forwarded variables (`Chain`) is defined by recursion over data, and the counts of the
engine under functors would need `Core` anew for clients that are tasks; and everything about
progress, which is out of the prover's reach. All safety properties of `Failures` and the
counts and versions of `TaskGraph` are theorems.

## The plan

Built: `Dataflow`, `TaskGraph`, `DeferredRace`, `OpenMPWait`, `StdWait`, `Forwarding`, `Examples`,
`VoidConversion`, `Failures`, their runs and the proofs above. What is left, in this order:

1. Proofs: lifetimes (`LifeExact`), which can cite `Core` for who holds a slot, and with them
   `NoUseAfterFree` and `NoLeak`; then the invariants of `Forwarding`.
2. Failures of deferred variables (the redirect of a placeholder with signals on its
   list), and the order in which `wait_and_get` rethrows along a chain.
3. The benchmarks' own code, which is independent of the library: `RapidStart` (a spin
   barrier over masks and an epoch) and the dependence patterns of the task bench.

## What is not modelled

Listed with its reason under "components" in `PROJECT.json`: the third-party
schedulers under the backends and in the task bench runners; compile-time type
machinery (`functor_info`, `var` traits); storage construction inside `result_state`;
the benchmarks with their command line, metrics, printing and harness; the other
variants in `src/examples`, which build graphs of the same shapes over other
containers; the build and the tests. Lifetimes under the throwing policy are those of
`TaskGraph` and `Forwarding`, which have no failures: that a skipped task gives back what
it holds is not checked. The width of the counters (27 bits of `start_count`, 14
bits of port) bounds the number of arguments of one call and of concurrent consumers
at sizes no instance reaches.
