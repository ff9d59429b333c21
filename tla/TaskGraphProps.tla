--------------------------- MODULE TaskGraphProps ---------------------------
(***************************************************************************)
(* The properties of TaskGraph, and the abstract dataflow it implements.   *)
(***************************************************************************)
EXTENDS TaskGraph, Stacks, FiniteSetsExt

(* The frames waiting in any thread, as <<thread, index, frame>>, those on node n, and
   those of thread x. *)
Frames == UNION {{<<x, i, todo[x][i]>> : i \in DOMAIN todo[x]} : x \in Threads}
On(fs, ops, n) == {f \in fs : f[3].node = n /\ f[3].op \in ops}
Ahead(x)       == {todo[x][i] : i \in DOMAIN todo[x]}
Amount(fs)     == MapThenSumSet(LAMBDA f : f[3].k, fs)

Alive(n) == node[n] = "alive"
Unbound(fs, t) == On(fs, {"bind"}, t) # {}

(* The arcs on open lists. *)
Lists == [n \in Nodes |-> IF head[n].tag = "open" THEN head[n].arcs ELSE <<>>]

(* Slots still to be handed to their next writer, or owner. *)
HeldSlots  == {s \in Nodes \X Port : s[2] \in Slots(s[1]) /\ countdown[s[1]][s[2]] > 0}
HeldFor(d) == Cardinality({s \in HeldSlots : nextWriter[s[1]][s[2]] = d})

(* The arcs that will tell t of a producer; the frames that are about to, or to put such an
   arc on a list; and those that hold back its protection, the one amount that is not 1. *)
ArcsTo(t)    == {a \in Arc : a.kind # "back_only" /\ a.node = t}
Notices(t)   == {f \in Frame : f.node = t /\ (f.op \in {"flow", "move"} \/ (f.op = "pre" /\ f.k = 1))}
Protecting(t) == {f \in Frame : f.node = t /\ (f.op = "bind" \/ (f.op = "pre" /\ f.k # 1))}

Coming(t) == Count(Lists, ArcsTo(t)) + Count(todo, Notices(t)) + HeldFor(Writer(t))

(* A task's start_count is exactly the prerequisites still to come: arcs waiting on or
   being notified by producers, slots it will overwrite, decrements under way, and the
   protection while setup is not over (assign_prerequisite, remove_prerequisite). *)
StartCountExact ==
  \A t \in Tasks : Alive(t) =>
    startCount[t] = Coming(t) + (IF Count(todo, Protecting(t)) = 0 THEN 0 ELSE Protection(t))

(* The frames that hold a slot for one consumer each, and those with what its producer
   takes, the one amount that is not 1: the share that frame f stands for. *)
Holders(n, p) == {f \in Frame : f.node = n /\ f.port = p /\ (f.op = "hold" \/ (f.op = "dec" /\ f.k = 1))}
Shares(n, p)  == {f \in Frame : f.node = n /\ f.port = p /\ (f.op = "out" \/ (f.op = "dec" /\ f.k # 1))}
Share(f)      == IF f.op = "out" THEN count[f.node][f.port] ELSE f.k

Held(n, p) == Count(Lists, {BackOnly(n, p)}) + Count(todo, Holders(n, p))
              + (IF nextWriter[n][p] = Ready THEN 1 ELSE 0)

(* Slot p of n counts its holders and, until the producer has gone through it, what the
   producer will take off. *)
Exact(n, p) ==
  /\ Count(todo, Shares(n, p)) = 0 => countdown[n][p] = Held(n, p)
  /\ \A x \in Threads : \A f \in Ahead(x) \cap Shares(n, p) :
       countdown[n][p] = Held(n, p) + Share(f)

(* A slot's countdown is exactly the consumers holding it, the count kept for the next
   writer and, until the producer has gone through the slot, what the producer will take. *)
CountdownExact ==
  \A n \in Nodes : \A p \in Slots(n) : Alive(n) =>
    IF n \in Tasks /\ phase[n] # "done" THEN countdown[n][p] = 1 ELSE Exact(n, p)

(* A node's life_count is exactly its holders: the execution, each slot not yet handed
   over, and whoever owns the storage of the variable it originates. *)
LifeExact ==
  LET fs == Frames IN
  \A n \in Nodes : Alive(n) /\ ~Unbound(fs, n) =>
    life[n] = (IF n \in Tasks /\ phase[n] = "pending" /\ todo[n] = <<>> THEN 1 ELSE 0)
              + Amount(On(fs, {"rel", "sub"}, n))
              + (IF On(fs, {"relall"}, n) # {} THEN refs[n] ELSE 0)
              + Cardinality({s \in HeldSlots : s[1] = n})
              + (IF IsVoid(n) THEN 0
                 ELSE (IF var[n].live \/ On(fs, {"return"}, n) # {} THEN 1 ELSE 0)
                      + HeldFor(Owner(n)))

(* Whatever a thread is still going to touch has not been freed: the node of each frame,
   the storage a running body uses, the value a waiting client will read. *)
NoUseAfterFree ==
  /\ \A x \in Threads : \A i \in DOMAIN todo[x] :
       LET f == todo[x][i] IN
       IF f.op \in {"join", "move"} THEN TRUE
       ELSE Alive(f.node) /\ (f.op \in {"wait", "block"} => Alive(var[f.node].cur))
  /\ \A t \in Tasks : phase[t] = "running" =>
       \A i \in DOMAIN args[t] : Alive(args[t][i].v)

(* The assertions of oox.h hold: next_writer is set once, no count goes below zero, a late
   consumer finds its slot held, a consumer takes back arcs until it starts, and no node
   dies with arcs on it. *)
AssertionsHold ==
  /\ \A x \in Threads : todo[x] # <<>> =>
       LET f == Head(todo[x]) IN
       CASE f.op = "late" -> countdown[f.node][f.port] >= 1
         [] f.op = "flow" -> head[f.node].tag = "open"
         [] f.op = "dec"  -> /\ countdown[f.node][f.port] >= f.k
                             /\ countdown[f.node][f.port] = f.k =>
                                  nextWriter[f.node][f.port].kind \notin {"null", "ready"}
         [] f.op = "pre"  -> startCount[f.node] >= f.k
         [] f.op = "sub"  -> life[f.node] >= f.k
         [] f.op \in {"hold", "move"} -> head[making[x]].tag = "open"
         [] f.op = "get"  -> head[var[f.node].cur].tag = "done"
         [] OTHER -> TRUE
  /\ \A v \in Nodes : var[v].live => nextWriter[var[v].cur][var[v].port].kind \in {"null", "ready"}
  /\ \A n \in Nodes : node[n] = "freed" /\ head[n].tag = "open" => head[n].arcs = <<>>

(* While a body runs, every variable it was given holds the version of program order. *)
SerialReads ==
  \A t \in Tasks : phase[t] = "running" =>
    \A i \in DOMAIN args[t] : mem[args[t][i].v] = want[t][i]

(* wait_and_get returns the value of the last writer launched before it. *)
WaitSound ==
  \A x \in Clients : At(x, "get") => mem[Cur(x).node] = last[Cur(x).node]

(***************************************************************************)
(* The dataflow the engine implements                                      *)
(***************************************************************************)
ReadsOf(t)  == {<<args[t][i].v, want[t][i]>> : i \in DOMAIN args[t] \ Writes(t)}
WritesOf(t) == {<<args[t][i].v, want[t][i] + 1>> : i \in Writes(t)}
               \cup (IF phase[t] = "idle" THEN {} ELSE {<<t, 1>>})

D == INSTANCE Dataflow WITH Vars <- Nodes,
                            reads <- [t \in Tasks |-> ReadsOf(t)],
                            writes <- [t \in Tasks |-> WritesOf(t)]

Quiet == \A x \in Threads : todo[x] = <<>>

(* With every variable dropped and every thread at rest, every node has been freed. *)
NoLeak == Quiet /\ (\A v \in Nodes : ~var[v].live) => \A n \in Nodes : ~Alive(n)

(* Threads only come to rest when no task launched could run by the dataflow: no
   notification of a task is lost. *)
NothingForgotten ==
  Quiet => \A t \in Tasks : phase[t] = "pending" => ~D!Unblocked(t)

(* A call a client made returns: wait is always woken, setup never gets stuck. *)
CallsReturn == \A x \in Clients : todo[x] # <<>> ~> todo[x] = <<>>

(* A task handed to oox::run runs to its end. *)
TasksComplete == \A t \in Tasks : phase[t] = "pending" ~> phase[t] = "done"

(* Every step of the engine is a step of the promise or leaves it alone. *)
ImplementsDataflow == D!Spec
=============================================================================
