--------------------------- MODULE ForwardingProps ---------------------------
(***************************************************************************)
(* The properties of Forwarding: a var whose task forwards stands for the  *)
(* end of its chain, and the chain holds together while anyone uses it.    *)
(***************************************************************************)
EXTENDS Forwarding, TaskGraphProps

(* A var with those it forwards to, and the one at the end, whose storage the value is in. *)
Chain[v \in Nodes] ==
  {v} \cup (IF v \in Tasks /\ result[v] # NoTask THEN Chain[result[v]] ELSE {})
End(v) == CHOOSE u \in Chain[v] : u \in Tasks => result[u] = NoTask

(* The value of v is there, as program order left it at every link beyond v itself. *)
There(v) ==
  /\ End(v) \notin Forwarders
  /\ \A u \in Chain[v] : Alive(u) /\ (u # v => mem[u] = last[u])

(* What consume() finds is the storage of a value, not another var. *)
ConsumesValue ==
  \A t \in Tasks : phase[t] = "running" =>
    \A i \in DOMAIN args[t] : Consumed(args[t][i].v) = End(args[t][i].v)

(* Whoever gets at a value through a chain, a body that runs or wait_and_get, finds the
   chain whole, the producer of its end done, and the version of program order. *)
ResultThere ==
  /\ ConsumesValue
  /\ \A t \in Tasks : phase[t] = "running" =>
       \A i \in DOMAIN args[t] : There(args[t][i].v) /\ mem[args[t][i].v] = want[t][i]
  /\ \A x \in Clients : At(x, "get") =>
       There(Cur(x).node) /\ mem[Cur(x).node] = last[Cur(x).node]

(* Nothing a thread or a held result still points to has been freed. *)
NothingDangling ==
  /\ NoUseAfterFree
  /\ \A f \in Forwarders : Alive(f) /\ result[f] # NoTask =>
       Alive(result[f]) /\ Alive(var[result[f]].cur)

(* A task that waits for its result to go on, and has not been spawned again. *)
Continues(t) == \/ stage[t] = "attach"
                \/ stage[t] = "suspended" /\ todo[t] = <<>>

(* A node's life_count is exactly its holders: those of LifeExact, and the continuation of
   a task that forwards. *)
ReferencesExact ==
  LET fs == Frames IN
  \A n \in Nodes : Alive(n) /\ ~Unbound(fs, n) =>
    life[n] = (IF n \in Tasks /\ phase[n] = "pending" /\ todo[n] = <<>> THEN 1 ELSE 0)
              + (IF n \in Tasks /\ Continues(n) THEN 1 ELSE 0)
              + Amount(On(fs, {"rel", "sub"}, n))
              + (IF On(fs, {"relall"}, n) # {} THEN refs[n] ELSE 0)
              + Cardinality({s \in HeldSlots : s[1] = n})
              + (IF IsVoid(n) THEN 0
                 ELSE (IF var[n].live \/ On(fs, {"return"}, n) # {} THEN 1 ELSE 0)
                      + HeldFor(Owner(n)))

(* With every variable of the application and every local dropped and every thread at
   rest, every node has been freed, down all the chains. *)
NothingLeft ==
  Quiet /\ (\A v \in Nodes : var[v].live => \E f \in Forwarders : result[f] = v)
    => \A n \in Nodes : ~Alive(n)

(* Threads only come to rest with every task launched done, none suspended for good.  But
   for waits every call and every task is a finite number of steps. *)
AllDone == Quiet => \A t \in Tasks : phase[t] \in {"idle", "done"}

(* One notification is on its way to each suspended task, and it is its last prerequisite. *)
ResumedOnce ==
  \A f \in Forwarders : stage[f] = "suspended" =>
    Count(Lists, ArcsTo(f)) + Count(todo, Notices(f)) = startCount[f]
    /\ (startCount[f] = 0 <=> At(f, "start"))

(* A reader that a functor left on the var it then returned.  Whoever overwrites the
   forwarded value later waits for the slot of the forwarding task, not for this one. *)
LeftReading(u, i) ==
  /\ ~args[u][i].w
  /\ \E f \in Forwarders : result[f] = args[u][i].v /\ By(u) = Functor[f]

(* The storage a running body writes to is not in use by another one, under whatever names
   the two know it, but for the readers above. *)
Exclusive ==
  \A t, u \in Tasks : t # u /\ phase[t] = "running" /\ phase[u] = "running" =>
    \A i \in Writes(t), j \in DOMAIN args[u] :
      End(args[t][i].v) = End(args[u][j].v) => LeftReading(u, j)
=============================================================================
