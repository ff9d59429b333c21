------------------------- MODULE TaskGraphVersions -------------------------
(***************************************************************************)
(* The versions of the variables: whoever reads one waits for it, whoever  *)
(* overwrites one has its slot, and variables, calls and redirects are up  *)
(* to date.  So bodies see the values of program order, the engine         *)
(* implements the dataflow that oox promises, who waits for a variable     *)
(* reads its last version, and no task is forgotten.                       *)
(***************************************************************************)
EXTENDS TaskGraphCounts

(***************************************************************************)
(* What holds in every state                                               *)
(***************************************************************************)
(* Slot p of n is that of version k of v: the value v was made with, the result of a task, or
   what a task makes of an argument. *)
Names(n, p, v, k) ==
  \/ p = 0 /\ v = n /\ k = One(n \in Tasks)
  \/ n \in Tasks /\ \E i \in Writes(n) : p = PortOf(n, i) /\ v = args[n][i].v /\ k = want[n][i] + 1

(* Task t waits on slot p of n or holds it, or whoever sets it up, publishes n or
   completes n is about to put it there. *)
Attaching == {"link", "hop", "late", "hold"}
Attaches(t, n, p) == \E x \in Clients : /\ making[x] = t
                                        /\ \E f \in Ahead(x) : f.op \in Attaching /\ f.node = n /\ f.port = p
Moved(t, n, p)    == \E x \in Clients : making[x] = n /\ F("move", t, p, 0) \in Ahead(x)
Turned(t, n, p)   == n \in Tasks /\ F("flow", t, p, 0) \in Ahead(n)
Listed(n, a)      == \E i \in DOMAIN Lists[n] : Lists[n][i] = a
Hangs(t, n, p) ==
  \/ Attaches(t, n, p) \/ Moved(t, n, p) \/ Turned(t, n, p)
  \/ Listed(n, FlowBack(t, p)) \/ Listed(t, BackOnly(n, p))

(* It waits for version k of v, a deferred one's first perhaps on the placeholder. *)
Awaits(t, v, k) == \E n \in Nodes : \E p \in Port : p \in Slots(n) /\ Names(n, p, v, k) /\ Hangs(t, n, p)
Parked(t, v)    == \/ Listed(v, FlowBack(t, 0))
                   \/ \E x \in Clients : making[x] = t /\ F("link", v, 0, 0) \in Ahead(x)
Has(t, v, k)    == Awaits(t, v, k) \/ (v \in Deferred /\ k = 1 /\ Parked(t, v))

(* The client that makes t is still to come to its argument i. *)
ToCome(t, i) == \E x \in Clients : making[x] = t /\ F("arg", t, i, 0) \in Ahead(x)

(* What task t does with argument i, which it reads or overwrites. *)
ReadsFrom(t, i)  == phase[t] = "done" \/ Has(t, args[t][i].v, want[t][i]) \/ ToCome(t, i)
Takes(t, n, p)   == nextWriter[n][p] = Writer(t)
WritesOver(t, i) ==
  IF ToCome(t, i)
  THEN want[t][i] + 1 = last[args[t][i].v]
  ELSE \E n \in Nodes : \E p \in Port : p \in Slots(n) /\ Names(n, p, args[t][i].v, want[t][i]) /\ Takes(t, n, p)
Claim(t, i) == IF i \in Writes(t) THEN WritesOver(t, i) ELSE ReadsFrom(t, i)

(* Its version: those of one variable are written one by one, and no newer one while
   somebody is to read the one before. *)
Dated(t, i) ==
  LET v == args[t][i].v
      k == want[t][i] IN
  /\ i \in Writes(t) => k < last[v] /\ (phase[t] = "done" <=> k < mem[v])
  /\ i \notin Writes(t) => (phase[t] # "done" => mem[v] <= k) /\ (v \in Deferred => k >= 1)
  /\ ~IsVoid(v) /\ v # t
  /\ v \in Tasks => k >= 1 /\ phase[v] # "idle"
Results(t) == IF phase[t] = "idle" THEN last[t] = 0 ELSE last[t] >= 1 /\ (phase[t] = "done" <=> mem[t] >= 1)
Alone(t, u) == \A i \in Writes(t), j \in Writes(u) :
                 args[t][i].v = args[u][j].v /\ want[t][i] = want[u][j] => t = u

(* What a call reads is the newest version, or the first of a deferred variable. *)
UpToDate(x) ==
  InRun(x) => \A i \in DOMAIN args[making[x]] \ Writes(making[x]) :
    LET v == args[making[x]][i].v
        k == want[making[x]][i] IN
    k = last[v] \/ (v \in Deferred /\ k = 1 /\ last[v] = 0)

(* A variable in use is in the slot of its newest version, but for one a client is
   about to take further. *)
Newest(v)  == last[v] - One(Opening(v))
Current(v) == InUse(v) => Names(var[v].cur, var[v].port, v, Newest(v))

(* A slot at its end without an owner is that of a task that returned void. *)
EndsVoid(n, p) == nextWriter[n][p] = NoOwner => p = 0 /\ IsVoid(n)

(* A placeholder that is still open is that of a deferred variable; one that is redirected
   leads to its first version. *)
Leading(v) ==
  /\ head[v].tag = "open" /\ Finished(v) => var[v].deferred
  /\ head[v].tag = "redirect" => Names(head[v].arcs[1].node, head[v].arcs[1].port, v, 1)

Claims   == \A t \in Tasks : \A i \in DOMAIN args[t] : Claim(t, i)
Dates    == /\ \A t \in Tasks : Results(t) /\ \A i \in DOMAIN args[t] : Dated(t, i)
            /\ \A t, u \in Tasks : Alone(t, u)
            /\ \A v \in Nodes : mem[v] <= last[v]
Reaching == \A x \in Clients : UpToDate(x)
Currents == \A v \in Nodes : Current(v)
Endings  == \A n \in Nodes : \A p \in Slots(n) : EndsVoid(n, p)
Heads    == \A v \in Deferred : Leading(v)

Versions == Claims /\ Dates /\ Reaching /\ Currents /\ Endings /\ Heads

(***************************************************************************)
(* The version a slot is of                                                *)
(***************************************************************************)
LEMMA NamesOf ==
  ASSUME Core, NEW n \in Nodes, NEW p \in Slots(n), NEW v, NEW k, Names(n, p, v, k)
  PROVE  /\ v \in Nodes /\ k \in Nat
         /\ p = 0 => v = n /\ k = One(n \in Tasks)
         /\ p # 0 => n \in Tasks /\ \E i \in Writes(n) : p = PortOf(n, i) /\ v = args[n][i].v /\ k = want[n][i] + 1
<1>0. TypeOK
  BY DEF Core
<1>1. CASE p = 0 /\ v = n /\ k = One(n \in Tasks)
  <2>1. k \in Nat
    BY <1>1 DEF One
  <2> QED
    BY <1>1, <2>1
<1>2. ASSUME n \in Tasks, NEW i \in Writes(n), p = PortOf(n, i), v = args[n][i].v, k = want[n][i] + 1
      PROVE  /\ v \in Nodes /\ k \in Nat /\ p # 0
  <2>1. i \in DOMAIN args[n] /\ PortOf(n, i) # 0
    BY <1>0, <1>2, WritesFinite, PortsApart
  <2>2. args[n][i].v \in Nodes
    BY <1>0, <1>2, <2>1, ArgOf
  <2>3. want[n][i] \in Nat
    <3>1. want[n] \in Seq(Nat) /\ Len(want[n]) = Len(args[n]) /\ args[n] \in Seq([v : Nodes, w : BOOLEAN])
      BY <1>0, <1>2 DEF TypeOK
    <3>2. i \in DOMAIN want[n]
      BY <2>1, <3>1
    <3> QED
      BY <3>1, <3>2, Member
  <2> QED
    BY <1>2, <2>1, <2>2, <2>3
<1> QED
  BY <1>1, <1>2 DEF Names

(* What is known of a want. *)
LEMMA WantIs ==
  ASSUME TypeOK, NEW t \in Tasks, NEW i \in DOMAIN args[t]
  PROVE  args[t][i].v \in Nodes /\ want[t][i] \in Nat
<1>1. want[t] \in Seq(Nat) /\ Len(want[t]) = Len(args[t]) /\ args[t] \in Seq([v : Nodes, w : BOOLEAN])
  BY DEF TypeOK
<1>2. i \in DOMAIN want[t]
  BY <1>1
<1> QED
  BY <1>1, <1>2, Member, ArgOf

LEMMA NamesDated ==
  ASSUME Core, Dates
  PROVE  /\ \A t \in Tasks : Results(t)
         /\ \A t \in Tasks : \A i \in DOMAIN args[t] : Dated(t, i)
         /\ \A t, u \in Tasks : Alone(t, u)
         /\ \A v \in Nodes : mem[v] <= last[v] /\ mem[v] \in Nat /\ last[v] \in Nat
BY DEF Core, TypeOK, Dates

(* No version is in two slots. *)
LEMMA NameOne ==
  ASSUME Core, Dates, NEW n \in Nodes, NEW p \in Slots(n), NEW m \in Nodes, NEW q \in Slots(m), NEW v, NEW k,
         Names(n, p, v, k), Names(m, q, v, k)
  PROVE  n = m /\ p = q
<1>0. TypeOK /\ Distinct
  BY DEF Core
<1>1. ASSUME NEW a \in Nodes, NEW b \in Slots(a), Names(a, b, v, k), NEW c \in Tasks, NEW i \in Writes(c),
             v = args[c][i].v, k = want[c][i] + 1, b = 0
      PROVE  FALSE
  <2>1. v = a /\ k = One(a \in Tasks) /\ v \in Nodes
    BY <1>1, NamesOf
  <2>2. i \in DOMAIN args[c] /\ want[c][i] \in Nat
    BY <1>0, <1>1, WritesFinite, WantIs
  <2>3. Dated(c, i)
    BY <1>1, <2>2, NamesDated
  <2>4. v \in Tasks => want[c][i] >= 1
    BY <1>1, <2>3 DEF Dated
  <2> QED
    BY <1>1, <2>1, <2>2, <2>4 DEF One
<1>2. ASSUME n \in Tasks, NEW i \in Writes(n), p = PortOf(n, i), v = args[n][i].v, k = want[n][i] + 1,
             m \in Tasks, NEW j \in Writes(m), q = PortOf(m, j), v = args[m][j].v, k = want[m][j] + 1
      PROVE  n = m /\ p = q
  <2>1. i \in DOMAIN args[n] /\ want[n][i] \in Nat /\ j \in DOMAIN args[m] /\ want[m][j] \in Nat
    BY <1>0, <1>2, WritesFinite, WantIs
  <2>2. want[n][i] = want[m][j] /\ args[n][i].v = args[m][j].v
    BY <1>2, <2>1
  <2>3. n = m
    BY <1>2, <2>2, NamesDated DEF Alone
  <2>4. args[n][i].w
    BY <1>2 DEF Writes
  <2>5. i = j
    BY <1>0, <1>2, <2>1, <2>2, <2>3, <2>4 DEF Distinct, Apart
  <2> QED
    BY <1>2, <2>3, <2>5
<1>3. CASE p = 0 /\ q = 0
  <2>1. v = n
    BY <1>3, NamesOf
  <2>2. v = m
    BY <1>3, NamesOf
  <2> QED
    BY <1>3, <2>1, <2>2
<1>4. CASE p = 0 /\ q # 0
  BY <1>1, <1>4, NamesOf
<1>5. CASE p # 0 /\ q = 0
  <2>1. n \in Tasks /\ \E i \in Writes(n) : p = PortOf(n, i) /\ v = args[n][i].v /\ k = want[n][i] + 1
    BY <1>5 DEF Names
  <2> QED
    BY <1>1, <1>5, <2>1
<1>6. CASE p # 0 /\ q # 0
  <2>1. n \in Tasks /\ \E i \in Writes(n) : p = PortOf(n, i) /\ v = args[n][i].v /\ k = want[n][i] + 1
    BY <1>6, NamesOf
  <2>2. m \in Tasks /\ \E j \in Writes(m) : q = PortOf(m, j) /\ v = args[m][j].v /\ k = want[m][j] + 1
    BY <1>6, NamesOf
  <2> QED
    BY <1>2, <2>1, <2>2
<1> QED
  BY <1>3, <1>4, <1>5, <1>6

(* The value a finished node has is there. *)
LEMMA NameDone ==
  ASSUME Core, Dates, NEW n \in Nodes, NEW p \in Slots(n), NEW v, NEW k, Names(n, p, v, k), Finished(n)
  PROVE  v \in Nodes /\ k \in Nat /\ k <= mem[v]
<1>0. TypeOK
  BY DEF Core
<1>1. v \in Nodes /\ k \in Nat /\ mem[v] \in Nat
  BY NamesOf, NamesDated
<1>2. CASE p = 0 /\ n \in Tasks
  <2>1. v = n /\ k = 1
    BY <1>2, NamesOf DEF One
  <2>2. phase[n] = "done" /\ Results(n)
    BY <1>2, NamesDated DEF Finished
  <2> QED
    BY <1>1, <2>1, <2>2 DEF Results
<1>3. CASE p = 0 /\ n \notin Tasks
  <2>1. k = 0
    BY <1>3, NamesOf DEF One
  <2> QED
    BY <1>1, <2>1
<1>4. CASE p # 0
  <2>1. n \in Tasks /\ \E i \in Writes(n) : p = PortOf(n, i) /\ v = args[n][i].v /\ k = want[n][i] + 1
    BY <1>4, NamesOf
  <2>2. PICK i \in Writes(n) : v = args[n][i].v /\ k = want[n][i] + 1
    BY <2>1
  <2>3. i \in DOMAIN args[n] /\ want[n][i] \in Nat
    BY <1>0, <2>1, <2>2, WritesFinite, WantIs
  <2>4. Dated(n, i) /\ phase[n] = "done"
    BY <2>1, <2>3, NamesDated DEF Finished
  <2>5. want[n][i] < mem[v]
    BY <2>2, <2>4 DEF Dated
  <2> QED
    BY <1>1, <2>2, <2>3, <2>5
<1> QED
  BY <1>2, <1>3, <1>4

(***************************************************************************)
(* A task that has been started                                            *)
(***************************************************************************)
LEMMA ListedArc ==
  ASSUME Core, NEW n \in Nodes, NEW a, Listed(n, a)
  PROVE  /\ a \in Arc /\ Apt(n, a) /\ head[n].tag = "open"
         /\ \A P : a \in P => Count(Lists, P) >= 1
<1>0. TypeOK /\ Linked
  BY DEF Core
<1>1. PICK i \in DOMAIN Lists[n] : Lists[n][i] = a
  BY DEF Listed
<1>2. Lists[n] \in Seq(Arc) /\ Lists \in Family(Nodes, Arc) /\ (head[n].tag # "open" => Lists[n] = <<>>)
  BY <1>0, Families
<1>3. a \in Arc
  BY <1>1, <1>2, Member
<1>4. Apt(n, a)
  BY <1>0, <1>1 DEF Linked
<1>5. head[n].tag = "open"
  BY <1>1, <1>2
<1>6. ASSUME NEW P, a \in P
      PROVE  Count(Lists, P) >= 1
  <2>1. Lists[n][i] \in P
    BY <1>1, <1>6
  <2> QED
    BY <1>2, <2>1, Finite, CountNone
<1> QED
  BY <1>3, <1>4, <1>5, <1>6

LEMMA ArcsAre ==
  ASSUME NEW n, NEW p, NEW t
  PROVE  /\ FlowBack(n, p).kind = "flow_back" /\ FlowBack(n, p).node = n /\ FlowBack(n, p).port = p
         /\ BackOnly(n, p).kind = "back_only" /\ BackOnly(n, p).node = n /\ BackOnly(n, p).port = p
         /\ FlowBack(n, p) \in Arc => FlowBack(n, p) \in ArcsTo(n)
BY DEF FlowBack, BackOnly, ArcsTo

LEMMA FrameFields ==
  ASSUME NEW op, NEW n, NEW p, NEW k
  PROVE  F(op, n, p, k).op = op /\ F(op, n, p, k).node = n /\ F(op, n, p, k).port = p /\ F(op, n, p, k).k = k
BY DEF F

(* A task without prerequisites is not on anyone's list, told by nobody, and set up. *)
LEMMA StartedAlone ==
  ASSUME Core, NEW t \in Tasks, startCount[t] = 0
  PROVE  /\ \A x \in Clients : making[x] = t => \A f \in Ahead(x) : f.op \notin Calling
         /\ \A n \in Nodes : \A p : ~Listed(n, FlowBack(t, p))
         /\ \A x \in Threads : \A f \in Ahead(x) : f.node = t => f.op \notin {"flow", "move"}
         /\ HeldFor(Writer(t)) = 0
<1>0. TypeOK /\ Placed /\ Bodies /\ Due /\ Callers
  BY DEF Core
<1>1. Counted(t)
  BY <1>0 DEF Due
<1>2. Protection(t) \in Int /\ Protection(t) >= 2
  BY <1>0, OwedRange
<1>3. /\ Count(Lists, ArcsTo(t)) \in Nat /\ Count(todo, Notices(t)) \in Nat /\ HeldFor(Writer(t)) \in Nat
  BY <1>0, CountNat, HeldForNat
<1>4. Coming(t) \in Nat /\ Coming(t) = Count(Lists, ArcsTo(t)) + Count(todo, Notices(t)) + HeldFor(Writer(t))
  BY <1>3 DEF Coming
<1>5. Coming(t) = 0
  BY <1>1, <1>2, <1>4 DEF Counted
<1>6. Count(Lists, ArcsTo(t)) = 0 /\ Count(todo, Notices(t)) = 0 /\ HeldFor(Writer(t)) = 0
  BY <1>3, <1>4, <1>5
<1>7. ASSUME NEW x \in Clients, making[x] = t, NEW f \in Ahead(x), f.op \in Calling
      PROVE  FALSE
  <2>1. startCount[making[x]] >= 1
    BY <1>0, <1>7, SettingUp
  <2> QED
    BY <1>7, <2>1
<1>8. ASSUME NEW n \in Nodes, NEW p, Listed(n, FlowBack(t, p))
      PROVE  FALSE
  <2>1. FlowBack(t, p) \in ArcsTo(t)
    BY <1>8, ListedArc, ArcsAre
  <2> QED
    BY <1>6, <1>8, <2>1, ListedArc
<1>9. ASSUME NEW x \in Threads, NEW f \in Ahead(x), f.node = t, f.op \in {"flow", "move"}
      PROVE  FALSE
  <2>1. f \in Frame
    BY <1>0, <1>9, AheadFits
  <2>2. f \in Notices(t)
    BY <1>9, <2>1 DEF Notices
  <2> QED
    BY <1>0, <1>6, <1>9, <2>2, TodoNone
<1> QED
  BY <1>6, <1>7, <1>8, <1>9

(* What it reads is there. *)
LEMMA ReadyReads ==
  ASSUME Core, Dates, Claims, NEW t \in Tasks, startCount[t] = 0, phase[t] # "done",
         NEW i \in DOMAIN args[t], i \notin Writes(t)
  PROVE  mem[args[t][i].v] = want[t][i]
<1> DEFINE v == args[t][i].v
           k == want[t][i]
<1>0. TypeOK
  BY DEF Core
<1>1. v \in Nodes /\ k \in Nat
  BY <1>0, WantIs
<1>2. ReadsFrom(t, i)
  BY DEF Claims, Claim
<1>3. ~ToCome(t, i)
  <2>1. ASSUME NEW x \in Clients, making[x] = t, F("arg", t, i, 0) \in Ahead(x)
        PROVE  FALSE
    <3>1. F("arg", t, i, 0).op \in Calling
      BY FrameFields DEF Calling, Asking
    <3> QED
      BY <2>1, <3>1, StartedAlone
  <2> QED
    BY <2>1 DEF ToCome
<1>4. ~Parked(t, v)
  <2>1. ~Listed(v, FlowBack(t, 0))
    BY <1>1, StartedAlone
  <2>2. ASSUME NEW x \in Clients, making[x] = t, F("link", v, 0, 0) \in Ahead(x)
        PROVE  FALSE
    <3>1. F("link", v, 0, 0).op \in Calling
      BY FrameFields DEF Calling, Asking
    <3> QED
      BY <2>2, <3>1, StartedAlone
  <2> QED
    BY <2>1, <2>2 DEF Parked
<1>5. Awaits(t, v, k)
  BY <1>2, <1>3, <1>4 DEF ReadsFrom, Has
<1>6. PICK n \in Nodes : \E p \in Port : p \in Slots(n) /\ Names(n, p, v, k) /\ Hangs(t, n, p)
  BY <1>5 DEF Awaits
<1>7. PICK p \in Port : p \in Slots(n) /\ Names(n, p, v, k) /\ Hangs(t, n, p)
  BY <1>6
<1> HIDE DEF v, k
<1>8. ~Attaches(t, n, p)
  <2>1. Attaching \subseteq Calling
    BY DEF Attaching, Calling, Asking
  <2> QED
    BY <2>1, StartedAlone DEF Attaches
<1>9. ~Moved(t, n, p)
  <2>1. F("move", t, p, 0).node = t /\ F("move", t, p, 0).op = "move" /\ Clients \subseteq Threads
    BY FrameFields, NodesApart
  <2> QED
    BY <2>1, StartedAlone DEF Moved
<1>10. ~Turned(t, n, p)
  <2>1. F("flow", t, p, 0).node = t /\ F("flow", t, p, 0).op = "flow" /\ Tasks \subseteq Threads
    BY FrameFields, NodesApart
  <2> QED
    BY <2>1, StartedAlone DEF Turned
<1>11. Listed(t, BackOnly(n, p))
  BY <1>7, <1>8, <1>9, <1>10, StartedAlone DEF Hangs
<1>12. Apt(t, BackOnly(n, p)) /\ t \in Nodes
  BY <1>11, ListedArc, NodesApart
<1>13. Finished(n)
  BY <1>12, ArcsAre DEF Apt
<1>14. k <= mem[v] /\ mem[v] \in Nat
  BY <1>1, <1>7, <1>13, NameDone, NamesDated
<1>15. mem[v] <= k
  BY NamesDated DEF Dated, v, k
<1>16. mem[v] = k
  BY <1>1, <1>14, <1>15
<1> QED
  BY <1>16 DEF v, k

(* The slot of what it overwrites is its own, and nobody holds it. *)
LEMMA ReadyWrites ==
  ASSUME Core, Dates, Claims, NEW t \in Tasks, startCount[t] = 0, NEW i \in Writes(t)
  PROVE  \E n \in Nodes : \E p \in Port :
           /\ p \in Slots(n) /\ Names(n, p, args[t][i].v, want[t][i]) /\ Takes(t, n, p)
           /\ Finished(n) /\ countdown[n][p] <= 0
<1>0. TypeOK /\ Tallies
  BY DEF Core
<1>1. i \in DOMAIN args[t]
  BY <1>0, WritesFinite
<1>2. WritesOver(t, i)
  BY <1>1 DEF Claims, Claim
<1>3. ~ToCome(t, i)
  <2>1. ASSUME NEW x \in Clients, making[x] = t, F("arg", t, i, 0) \in Ahead(x)
        PROVE  FALSE
    <3>1. F("arg", t, i, 0).op \in Calling
      BY FrameFields DEF Calling, Asking
    <3> QED
      BY <2>1, <3>1, StartedAlone
  <2> QED
    BY <2>1 DEF ToCome
<1>4. PICK n \in Nodes : \E p \in Port : p \in Slots(n) /\ Names(n, p, args[t][i].v, want[t][i]) /\ Takes(t, n, p)
  BY <1>2, <1>3 DEF WritesOver
<1>5. PICK p \in Port : p \in Slots(n) /\ Names(n, p, args[t][i].v, want[t][i]) /\ Takes(t, n, p)
  BY <1>4
<1>6. countdown[n][p] \in Int
  BY <1>0 DEF TypeOK
<1>7. ~(countdown[n][p] > 0)
  <2>1. SUFFICES ASSUME countdown[n][p] > 0
                 PROVE  FALSE
    OBVIOUS
  <2> DEFINE S == {s \in HeldSlots : nextWriter[s[1]][s[2]] = Writer(t)}
  <2>2. <<n, p>> \in S
    BY <1>5, <2>1 DEF HeldSlots, Takes
  <2>3. IsFiniteSet(S) /\ Cardinality(S) = 0
    BY HeldForNat, StartedAlone DEF HeldFor
  <2> HIDE DEF S
  <2> QED
    BY <2>2, <2>3, FS_EmptySet
<1>8. Finished(n)
  <2>1. Tallied(n, p)
    BY <1>0, <1>5 DEF Tallies
  <2> QED
    BY <1>7, <2>1 DEF Tallied
<1> QED
  BY <1>5, <1>6, <1>7, <1>8

(* A started body finds the versions it was launched with. *)
LEMMA SerialNow ==
  ASSUME Core, Dates, Claims, NEW t \in Tasks, startCount[t] = 0, phase[t] # "done", NEW i \in DOMAIN args[t]
  PROVE  mem[args[t][i].v] = want[t][i]
<1>0. TypeOK
  BY DEF Core
<1>1. CASE i \notin Writes(t)
  BY <1>1, ReadyReads
<1>2. CASE i \in Writes(t)
  <2>1. args[t][i].v \in Nodes /\ want[t][i] \in Nat
    BY <1>0, WantIs
  <2>2. PICK n \in Nodes : \E p \in Port :
           /\ p \in Slots(n) /\ Names(n, p, args[t][i].v, want[t][i]) /\ Takes(t, n, p)
           /\ Finished(n) /\ countdown[n][p] <= 0
    BY <1>2, ReadyWrites
  <2>3. want[t][i] <= mem[args[t][i].v]
    BY <2>2, NameDone
  <2>4. mem[args[t][i].v] \in Nat
    BY <2>1, NamesDated
  <2>5. ~(want[t][i] < mem[args[t][i].v])
    BY <1>2, NamesDated DEF Dated
  <2> QED
    BY <2>1, <2>3, <2>4, <2>5
<1> QED
  BY <1>1, <1>2

(***************************************************************************)
(* A task that is about to overwrite a version                             *)
(***************************************************************************)
(* The client that makes a task reads what is the newest. *)
LEMMA CallReads ==
  ASSUME Core, Dates, Reaching, NEW x \in Clients, InRun(x), NEW i \in DOMAIN args[making[x]],
         i \notin Writes(making[x])
  PROVE  ~(want[making[x]][i] < last[args[making[x]][i].v])
<1> DEFINE v == args[making[x]][i].v
           k == want[making[x]][i]
<1>0. TypeOK /\ Callers
  BY DEF Core
<1>1. making[x] \in Tasks
  BY <1>0 DEF Callers, Called
<1>2. v \in Nodes /\ k \in Nat /\ last[v] \in Nat
  BY <1>0, <1>1, WantIs, NamesDated
<1>3. k = last[v] \/ (k = 1 /\ last[v] = 0)
  BY DEF Reaching, UpToDate
<1> QED
  BY <1>2, <1>3

(* The frames of a body behind its functor let each of its slots go. *)
LEMMA OutAhead ==
  ASSUME Core, NEW n \in Tasks, phase[n] = "done", head[n].tag = "open", NEW p \in Slots(n)
  PROVE  \E f \in Ahead(n) : f \in Shares(n, p)
<1>0. TypeOK /\ Bodies
  BY DEF Core
<1>1. todo[n] = Tail(Tail(BodyFrames(n)))
  BY <1>0 DEF Bodies, Staged
<1>2. p \in Port /\ n \in Nodes /\ n \in Threads
  BY <1>0, WritesFinite, NodesApart
<1>3. \A f \in Frame : f.op \notin {"out", "dec"} => f \notin Outs(n, p)
  BY DEF Outs
<1>4. \A q : F("out", n, q, 0) \in Outs(n, p) <=> q = p
  BY <1>2 DEF F, Outs, Frame, BodyOps
<1>5. Number(todo[n], Outs(n, p)) = 1
  BY <1>0, <1>1, <1>3, <1>4, OutOnce
<1>6. todo[n] \in Seq(Frame)
  BY <1>0, <1>2, Families
<1>7. \E i \in DOMAIN todo[n] : todo[n][i] \in Outs(n, p)
  BY <1>5, <1>6, NumberNone
<1> QED
  BY <1>7, MarksAre DEF Ahead

(* A slot that counts nobody is held by nobody. *)
LEMMA NoHolders ==
  ASSUME Core, NEW n \in Nodes, NEW p \in Slots(n), Finished(n), countdown[n][p] <= 0
  PROVE  /\ \A m \in Nodes : ~Listed(m, BackOnly(n, p))
         /\ \A x \in Threads : \A f \in Ahead(x) : f \notin Shares(n, p) /\ f \notin Holders(n, p)
<1>0. TypeOK /\ Placed /\ Tallies
  BY DEF Core
<1>1. Tallied(n, p) /\ p \in Port
  BY <1>0, SlotsArePorts DEF Tallies
<1>2. Exact(n, p)
  BY <1>1 DEF Tallied
<1>3. countdown[n][p] \in Int /\ Held(n, p) \in Nat
  BY <1>0, <1>1, HeldNat DEF TypeOK
<1>4. ASSUME NEW x \in Threads, NEW f \in Ahead(x), f \in Shares(n, p)
      PROVE  FALSE
  <2>1. countdown[n][p] = Held(n, p) + Share(f)
    BY <1>2, <1>4 DEF Exact
  <2>2. Share(f) \in Int /\ Share(f) >= 1
    BY <1>0, <1>4, ShareSome
  <2> QED
    BY <1>3, <2>1, <2>2
<1>5. Count(todo, Shares(n, p)) = 0
  BY <1>0, <1>4, TodoNone
<1>6. Held(n, p) = 0
  BY <1>2, <1>3, <1>5 DEF Exact
<1>7. Count(Lists, {BackOnly(n, p)}) \in Nat /\ Count(todo, Holders(n, p)) \in Nat
  BY <1>0, CountNat
<1>8. Count(Lists, {BackOnly(n, p)}) = 0 /\ Count(todo, Holders(n, p)) = 0
  BY <1>6, <1>7 DEF Held
<1>9. ASSUME NEW m \in Nodes, Listed(m, BackOnly(n, p))
      PROVE  FALSE
  <2>1. Count(Lists, {BackOnly(n, p)}) >= 1
    BY <1>9, ListedArc
  <2> QED
    BY <1>8, <2>1
<1> QED
  BY <1>0, <1>4, <1>8, <1>9, TodoNone

(* Whoever reads what a started task is to overwrite is done. *)
LEMMA NoneLeft ==
  ASSUME Core, Dates, Claims, Reaching, Heads,
         NEW u \in Tasks, startCount[u] = 0, NEW j \in Writes(u), NEW t \in Tasks,
         NEW i \in DOMAIN args[t], i \notin Writes(t),
         args[t][i].v = args[u][j].v, want[t][i] = want[u][j]
  PROVE  phase[t] = "done"
<1> DEFINE v == args[t][i].v
           k == want[t][i]
<1>0. TypeOK /\ Placed /\ Bodies /\ Due /\ Stores /\ Firsts /\ Callers
  BY DEF Core
<1>1. j \in DOMAIN args[u] /\ v \in Nodes /\ k \in Nat /\ last[v] \in Nat /\ mem[v] \in Nat
  BY <1>0, WritesFinite, WantIs, NamesDated
<1>2. k < last[v]
  BY <1>1, NamesDated DEF Dated
<1>3. v \in Deferred => k >= 1
  BY <1>1, NamesDated DEF Dated
<1>4. PICK n \in Nodes : \E p \in Port :
           /\ p \in Slots(n) /\ Names(n, p, args[u][j].v, want[u][j]) /\ Takes(u, n, p)
           /\ Finished(n) /\ countdown[n][p] <= 0
  BY ReadyWrites
<1>5. PICK p \in Port :
           /\ p \in Slots(n) /\ Names(n, p, args[u][j].v, want[u][j]) /\ Takes(u, n, p)
           /\ Finished(n) /\ countdown[n][p] <= 0
  BY <1>4
<1>6. Names(n, p, v, k)
  BY <1>5
<1>7. SUFFICES ASSUME phase[t] # "done"
               PROVE  FALSE
  OBVIOUS
<1>8. ASSUME NEW x \in Clients, making[x] = t, NEW f \in Ahead(x), f.op \in Calling
      PROVE  FALSE
  <2>1. InRun(x)
    BY <1>0, <1>8, SettingUp
  <2> QED
    BY <1>2, <1>8, <2>1, CallReads
<1>9. ReadsFrom(t, i)
  BY DEF Claims, Claim
<1>10. ~ToCome(t, i)
  <2>1. F("arg", t, i, 0).op \in Calling
    BY FrameFields DEF Calling, Asking
  <2> QED
    BY <1>8, <2>1 DEF ToCome
<1>11. Has(t, v, k)
  BY <1>7, <1>9, <1>10 DEF ReadsFrom
<1> HIDE DEF v, k
<1>12. ~(v \in Deferred /\ k = 1 /\ Parked(t, v))
  <2>1. SUFFICES ASSUME v \in Deferred, k = 1, Parked(t, v)
                 PROVE  FALSE
    OBVIOUS
  <2>2. F("link", v, 0, 0).op \in Calling
    BY FrameFields DEF Calling, Asking
  <2>3. Listed(v, FlowBack(t, 0))
    BY <1>8, <2>1, <2>2 DEF Parked
  <2>4. head[v].tag = "open" /\ v \in Storage
    BY <1>1, <2>1, <2>3, ListedArc, ConstantsAssumption
  <2>5. Finished(v)
    <3>1. SUFFICES ASSUME ~Finished(v)
                   PROVE  FALSE
      OBVIOUS
    <3>2. head[v] = Open(<<>>)
      BY <1>0, <2>4, <3>1 DEF Stores, Stored
    <3>3. Lists[v] = <<>>
      BY <1>1, <3>2 DEF Lists, Open
    <3> QED
      BY <2>3, <3>3 DEF Listed
  <2>6. var[v].deferred
    BY <2>1, <2>4, <2>5 DEF Heads, Leading
  <2>7. last[v] = 0 \/ last[v] = 1
    BY <1>0, <1>1, <2>6 DEF Firsts, Put
  <2> QED
    BY <1>1, <1>2, <2>1, <2>7 DEF v, k
<1>13. Awaits(t, v, k)
  BY <1>11, <1>12 DEF Has
<1>14. PICK m \in Nodes : \E q \in Port : q \in Slots(m) /\ Names(m, q, v, k) /\ Hangs(t, m, q)
  BY <1>13 DEF Awaits
<1>15. PICK q \in Port : q \in Slots(m) /\ Names(m, q, v, k) /\ Hangs(t, m, q)
  BY <1>14
<1>16. m = n /\ q = p
  BY <1>5, <1>6, <1>15, NameOne
<1>17. Hangs(t, n, p)
  BY <1>15, <1>16
<1>18. ~Attaches(t, n, p)
  <2>1. Attaching \subseteq Calling
    BY DEF Attaching, Calling, Asking
  <2> QED
    BY <1>8, <2>1 DEF Attaches
<1>19. ~Moved(t, n, p)
  <2>1. SUFFICES ASSUME NEW x \in Clients, making[x] = n, F("move", t, p, 0) \in Ahead(x)
                 PROVE  FALSE
    BY DEF Moved
  <2>2. F("move", t, p, 0).op \in Calling
    BY FrameFields DEF Calling
  <2>3. n \in Tasks /\ phase[n] = "pending"
    BY <1>0, <2>1, <2>2, SettingUp
  <2> QED
    BY <1>5, <2>3 DEF Finished
<1>20. ~Turned(t, n, p)
  <2>1. SUFFICES ASSUME n \in Tasks, F("flow", t, p, 0) \in Ahead(n)
                 PROVE  FALSE
    BY DEF Turned
  <2>2. n \in Threads
    BY <2>1, NodesApart
  <2>3. PICK l \in DOMAIN todo[n] : todo[n][l] = F("flow", t, p, 0) /\ Lies(n, todo[n], l)
    BY <1>0, <2>1, <2>2, AheadFits
  <2>4. F("out", n, p, 0) \in After(todo[n], l)
    BY <2>3, FrameFields DEF Lies
  <2>5. F("out", n, p, 0) \in Ahead(n)
    BY <1>0, <2>2, <2>4, AfterAhead
  <2>6. F("out", n, p, 0) \in Frame
    BY <1>0, <2>2, <2>5, AheadFits
  <2>7. F("out", n, p, 0) \in Shares(n, p)
    BY <2>6, FrameFields DEF Shares
  <2> QED
    BY <1>5, <2>2, <2>5, <2>7, NoHolders
<1>21. ~Listed(n, FlowBack(t, p))
  <2>1. SUFFICES ASSUME Listed(n, FlowBack(t, p))
                 PROVE  FALSE
    OBVIOUS
  <2>2. head[n].tag = "open"
    BY <2>1, ListedArc
  <2>3. CASE n \in Tasks
    <3>1. phase[n] = "done"
      BY <1>5, <2>3 DEF Finished
    <3>2. \E f \in Ahead(n) : f \in Shares(n, p)
      BY <1>5, <2>2, <2>3, <3>1, OutAhead
    <3> QED
      BY <1>5, <2>3, <3>2, NoHolders, NodesApart
  <2>4. CASE n \notin Tasks
    <3>1. n \in Storage
      BY <2>4 DEF Nodes
    <3>2. p = 0
      BY <1>5, <2>4 DEF Slots
    <3>3. v = n /\ k = 0
      BY <1>5, <1>6, <2>4, <3>2, NamesOf DEF One
    <3>4. n \in Deferred
      BY <1>0, <1>5, <2>2, <3>1 DEF Stores, Stored, Done
    <3> QED
      BY <1>3, <3>3, <3>4 DEF v, k
  <2> QED
    BY <2>3, <2>4
<1>22. ~Listed(t, BackOnly(n, p))
  BY <1>5, NoHolders, NodesApart
<1> QED
  BY <1>17, <1>18, <1>19, <1>20, <1>21, <1>22 DEF Hangs

(***************************************************************************)
(* Steps that no version comes of                                          *)
(***************************************************************************)
LEMMA DatesKept ==
  ASSUME Core, Dates, UNCHANGED <<args, want, last, mem>>,
         \A t \in Tasks : /\ phase'[t] = "idle" <=> phase[t] = "idle"
                          /\ phase'[t] = "done" <=> phase[t] = "done"
  PROVE  Dates'
<1>1. ASSUME NEW t \in Tasks
      PROVE  Results(t)'
  BY <1>1, NamesDated DEF Results
<1>2. \A t : Writes(t)' = Writes(t)
  BY DEF Writes
<1>3. ASSUME NEW t \in Tasks, NEW i \in DOMAIN args[t]
      PROVE  Dated(t, i)'
  <2>1. Dated(t, i)
    BY <1>3, NamesDated
  <2> QED
    BY <1>2, <1>3, <2>1 DEF Dated, IsVoid
<1>4. ASSUME NEW t \in Tasks, NEW u \in Tasks
      PROVE  Alone(t, u)'
  <2>1. Alone(t, u)
    BY <1>4, NamesDated
  <2> QED
    BY <1>2, <2>1 DEF Alone
<1>5. \A v \in Nodes : mem'[v] <= last'[v]
  BY NamesDated
<1> QED
  BY <1>1, <1>3, <1>4, <1>5 DEF Dates

(***************************************************************************)
(* A functor returns                                                       *)
(***************************************************************************)
LEMMA FinishMem ==
  ASSUME Core, Dates, NEW t \in Tasks, Finish(t)
  PROVE  /\ phase[t] = "running" /\ startCount[t] = 0
         /\ phase'[t] = "done" /\ \A u \in Tasks : u # t => phase'[u] = phase[u]
         /\ UNCHANGED <<args, want, last>>
         /\ mem'[t] = 1
         /\ \A i \in Writes(t) : args[t][i].v # t /\ mem'[args[t][i].v] = want[t][i] + 1
         /\ \A v \in Nodes : v # t /\ (\A i \in Writes(t) : args[t][i].v # v) => mem'[v] = mem[v]
<1>0. TypeOK /\ Placed /\ Bodies /\ Distinct
  BY DEF Core
<1>1. todo[t] # <<>> /\ At(t, "finish")
  BY DEF Finish, At
<1>2. phase[t] = "running" /\ startCount[t] = 0
  BY <1>0, <1>1, WorkerStage DEF Bodies, Staged
<1>3. phase'[t] = "done" /\ \A u \in Tasks : u # t => phase'[u] = phase[u]
  BY <1>0 DEF Finish, TypeOK
<1>4. UNCHANGED <<args, want, last>>
  BY DEF Finish, setup
<1>5. mem' = [v \in Nodes |-> IF v = t THEN 1
                             ELSE IF \E i \in Writes(t) : args[t][i].v = v
                                  THEN want[t][CHOOSE i \in Writes(t) : args[t][i].v = v] + 1
                                  ELSE mem[v]]
  BY DEF Finish
<1>6. mem'[t] = 1
  BY <1>5, NodesApart
<1>7. ASSUME NEW i \in Writes(t)
      PROVE  args[t][i].v # t /\ mem'[args[t][i].v] = want[t][i] + 1
  <2>1. i \in DOMAIN args[t] /\ args[t][i].v \in Nodes
    BY <1>0, WritesFinite, WantIs
  <2>2. args[t][i].v # t
    BY <2>1, NamesDated DEF Dated
  <2>3. \A j \in Writes(t) : args[t][j].v = args[t][i].v => j = i
    <3>1. ASSUME NEW j \in Writes(t), args[t][j].v = args[t][i].v, j # i
          PROVE  FALSE
      <4>1. j \in DOMAIN args[t] /\ args[t][j].w
        BY <3>1 DEF Writes
      <4> QED
        BY <1>0, <2>1, <3>1, <4>1 DEF Distinct, Apart
    <3> QED
      BY <3>1
  <2>4. (CHOOSE j \in Writes(t) : args[t][j].v = args[t][i].v) = i
    BY <2>3
  <2> QED
    BY <1>5, <2>1, <2>2, <2>4
<1>8. ASSUME NEW v \in Nodes, v # t, \A i \in Writes(t) : args[t][i].v # v
      PROVE  mem'[v] = mem[v]
  BY <1>5, <1>8
<1> QED
  BY <1>2, <1>3, <1>4, <1>6, <1>7, <1>8

(* What t leaves in v: nothing, its result, or its version of an argument. *)
LEMMA FinishLeaves ==
  ASSUME Core, Dates, Claims, NEW t \in Tasks, Finish(t), NEW v \in Nodes
  PROVE  \/ v # t /\ (\A i \in Writes(t) : args[t][i].v # v) /\ mem'[v] = mem[v]
         \/ v = t /\ mem[t] = 0 /\ mem'[t] = 1
         \/ \E i \in Writes(t) : v = args[t][i].v /\ v # t /\ mem[v] = want[t][i] /\ mem'[v] = want[t][i] + 1
<1>0. TypeOK
  BY DEF Core
<1>1. CASE v = t
  <2>1. Results(t) /\ phase[t] = "running" /\ mem[t] \in Nat
    BY <1>1, FinishMem, NamesDated
  <2>2. mem[t] = 0
    BY <2>1 DEF Results
  <2> QED
    BY <1>1, <2>2, FinishMem
<1>2. ASSUME NEW i \in Writes(t), v = args[t][i].v
      PROVE  v # t /\ mem[v] = want[t][i] /\ mem'[v] = want[t][i] + 1
  <2>1. i \in DOMAIN args[t] /\ startCount[t] = 0 /\ phase[t] # "done"
    BY <1>0, WritesFinite, FinishMem
  <2> QED
    BY <1>2, <2>1, SerialNow, FinishMem
<1> QED
  BY <1>1, <1>2, FinishMem

LEMMA FinishDates ==
  ASSUME Core, TypeOK', Dates, Claims, Reaching, Heads, NEW t \in Tasks, Finish(t)
  PROVE  Dates'
<1>0. TypeOK /\ Distinct
  BY DEF Core
<1>1. /\ phase[t] = "running" /\ startCount[t] = 0 /\ phase'[t] = "done"
      /\ \A u \in Tasks : u # t => phase'[u] = phase[u]
      /\ args' = args /\ want' = want /\ last' = last
  BY FinishMem
<1>2. \A u : Writes(u)' = Writes(u)
  BY <1>1 DEF Writes
<1>3. \A v \in Nodes : mem[v] \in Nat /\ mem'[v] \in Nat /\ last[v] \in Nat
  BY <1>0 DEF TypeOK
<1>4. ASSUME NEW u \in Tasks
      PROVE  Results(u)'
  <2>0. Results(u) /\ u \in Nodes
    BY NamesDated, NodesApart
  <2>1. CASE u = t
    <3>1. last[t] >= 1 /\ mem'[t] = 1
      BY <1>1, <2>0, <2>1, FinishMem DEF Results
    <3> QED
      BY <1>1, <2>1, <3>1 DEF Results
  <2>2. CASE u # t /\ mem'[u] = mem[u]
    BY <1>1, <2>0, <2>2 DEF Results
  <2>3. CASE u # t /\ mem'[u] # mem[u]
    <3>1. PICK i \in Writes(t) : u = args[t][i].v /\ mem[u] = want[t][i] /\ mem'[u] = want[t][i] + 1
      BY <2>0, <2>3, FinishLeaves
    <3>2. i \in DOMAIN args[t]
      BY <1>0, WritesFinite
    <3>3. want[t][i] >= 1 /\ phase[u] # "idle"
      BY <3>1, <3>2, NamesDated DEF Dated
    <3>4. want[t][i] \in Nat
      BY <1>0, <3>2, WantIs
    <3>5. phase[u] = "done" /\ last[u] >= 1
      BY <2>0, <3>1, <3>3 DEF Results
    <3>6. phase'[u] = "done" /\ mem'[u] >= 1
      BY <1>1, <2>3, <3>1, <3>3, <3>4, <3>5
    <3> QED
      BY <1>1, <3>5, <3>6 DEF Results
  <2> QED
    BY <2>1, <2>2, <2>3
<1>5. ASSUME NEW u \in Tasks, NEW j \in DOMAIN args[u]
      PROVE  Dated(u, j)'
  <2> DEFINE v == args[u][j].v
             k == want[u][j]
  <2>0. Dated(u, j) /\ v \in Nodes /\ k \in Nat
    BY <1>0, <1>5, NamesDated, WantIs
  <2>1. j \in Writes(u) => k < last[v] /\ (phase'[u] = "done" <=> k < mem'[v])
    <3>1. SUFFICES ASSUME j \in Writes(u)
                   PROVE  phase'[u] = "done" <=> k < mem'[v]
      BY <2>0 DEF Dated
    <3>2. phase[u] = "done" <=> k < mem[v]
      BY <2>0, <3>1 DEF Dated
    <3>3. CASE u = t
      <4>1. mem'[v] = k + 1
        BY <3>1, <3>3, FinishMem
      <4> QED
        BY <1>1, <2>0, <3>3, <4>1
    <3>4. CASE u # t /\ mem'[v] = mem[v]
      BY <1>1, <3>2, <3>4
    <3>5. CASE u # t /\ v = t /\ mem[t] = 0 /\ mem'[t] = 1
      <4>1. k >= 1
        BY <2>0, <3>5 DEF Dated
      <4>2. ~(k < mem[v]) /\ ~(k < mem'[v])
        BY <2>0, <3>5, <4>1
      <4> QED
        BY <1>1, <3>2, <3>5, <4>2
    <3>6. ASSUME u # t, NEW i \in Writes(t), v = args[t][i].v, mem[v] = want[t][i], mem'[v] = want[t][i] + 1
          PROVE  phase'[u] = "done" <=> k < mem'[v]
      <4>1. k # want[t][i]
        BY <3>1, <3>6, NamesDated DEF Alone
      <4>2. want[t][i] \in Nat
        BY <1>0, <3>6, WritesFinite, WantIs
      <4>3. k < mem[v] <=> k < mem'[v]
        BY <2>0, <3>6, <4>1, <4>2
      <4> QED
        BY <1>1, <3>2, <3>6, <4>3
    <3> QED
      BY <2>0, <3>3, <3>4, <3>5, <3>6, FinishLeaves
  <2>2. j \notin Writes(u) => (phase'[u] # "done" => mem'[v] <= k)
    <3>1. SUFFICES ASSUME j \notin Writes(u), phase'[u] # "done"
                   PROVE  mem'[v] <= k
      OBVIOUS
    <3>2. u # t /\ phase[u] # "done"
      BY <1>1, <3>1
    <3>3. mem[v] <= k
      BY <2>0, <3>1, <3>2 DEF Dated
    <3>4. CASE mem'[v] = mem[v]
      BY <3>3, <3>4
    <3>5. CASE v = t /\ mem[t] = 0 /\ mem'[t] = 1
      <4>1. k >= 1
        BY <2>0, <3>5 DEF Dated
      <4> QED
        BY <2>0, <3>5, <4>1
    <3>6. ASSUME NEW i \in Writes(t), v = args[t][i].v, mem[v] = want[t][i], mem'[v] = want[t][i] + 1
          PROVE  mem'[v] <= k
      <4>1. want[t][i] \in Nat
        BY <1>0, <3>6, WritesFinite, WantIs
      <4>2. CASE k = want[t][i]
        <5>1. phase[u] = "done"
          BY <1>1, <3>1, <3>6, <4>2, NoneLeft
        <5> QED
          BY <3>2, <5>1
      <4>3. CASE k # want[t][i]
        BY <2>0, <3>3, <3>6, <4>1, <4>3
      <4> QED
        BY <4>2, <4>3
    <3> QED
      BY <2>0, <3>4, <3>5, <3>6, FinishLeaves
  <2>3. v \in Tasks => k >= 1 /\ phase'[v] # "idle"
    BY <1>1, <2>0 DEF Dated
  <2>4. (v \in Deferred /\ j \notin Writes(u) => k >= 1) /\ ~IsVoid(v) /\ v # u
    BY <2>0 DEF Dated
  <2> QED
    BY <1>1, <1>2, <2>1, <2>2, <2>3, <2>4 DEF Dated, IsVoid
<1>6. ASSUME NEW u \in Tasks, NEW w \in Tasks
      PROVE  Alone(u, w)'
  <2>1. Alone(u, w)
    BY <1>6, NamesDated
  <2> QED
    BY <1>1, <1>2, <2>1 DEF Alone
<1>7. ASSUME NEW v \in Nodes
      PROVE  mem'[v] <= last'[v]
  <2>1. mem[v] <= last[v]
    BY NamesDated
  <2>2. CASE mem'[v] = mem[v]
    BY <1>1, <2>1, <2>2
  <2>3. CASE v = t /\ mem[t] = 0 /\ mem'[t] = 1
    <3>1. last[t] >= 1
      BY <1>1, NamesDated DEF Results
    <3> QED
      BY <1>1, <2>3, <3>1
  <2>4. ASSUME NEW i \in Writes(t), v = args[t][i].v, mem'[v] = want[t][i] + 1
        PROVE  mem'[v] <= last'[v]
    <3>1. i \in DOMAIN args[t]
      BY <1>0, <2>4, WritesFinite
    <3>2. want[t][i] < last[v] /\ want[t][i] \in Nat
      BY <1>0, <2>4, <3>1, NamesDated, WantIs DEF Dated
    <3> QED
      BY <1>1, <1>3, <2>4, <3>2
  <2> QED
    BY <2>2, <2>3, <2>4, FinishLeaves
<1>8. \A u \in Tasks : \A j \in DOMAIN args'[u] : Dated(u, j)'
  BY <1>1, <1>5
<1> QED
  BY <1>4, <1>6, <1>7, <1>8 DEF Dates

(***************************************************************************)
(* A call is made                                                          *)
(***************************************************************************)
LEMMA LaunchMoves ==
  ASSUME Core, NEW x \in Clients, NEW t \in Tasks, NEW a \in ArgLists[t], Launch(x, t, a)
  PROVE  /\ ~InCall(x) /\ phase[t] = "idle" /\ args[t] = <<>> /\ Writes(t) = {} /\ todo[t] = <<>>
         /\ x \in Threads /\ t \in Threads /\ t \in Nodes /\ t # x
         /\ Ahead(x) = {} /\ ~InRun(x) /\ ~InUse(t)
         /\ UNCHANGED <<head, nextWriter, countdown, var, mem>>
         /\ args'[t] = a /\ making'[x] = t /\ phase'[t] = "pending"
         /\ \A u \in Tasks : u # t => args'[u] = args[u] /\ want'[u] = want[u] /\ phase'[u] = phase[u]
         /\ \A y \in Clients : y # x => making'[y] = making[y]
         /\ \A y \in Threads : y # x => todo'[y] = todo[y] /\ Ahead(y)' = Ahead(y)
         /\ \A f : f \in Ahead(x)' <=> \/ \E i \in DOMAIN a : f = F("arg", t, i, 0)
                                       \/ f = F("bind", t, 0, 0) \/ f = F("return", t, 0, 0)
         /\ InRun(x)'
<1> USE DEF ghost
<1>0. TypeOK /\ Bodies /\ Homes
  BY DEF Core
<1>1. ~InCall(x) /\ phase[t] = "idle"
  BY DEF Launch
<1>2. /\ x \in Threads /\ todo[x] = <<>> /\ Ahead(x) = {} /\ ~InRun(x)
      /\ t \in Nodes /\ t \in Threads /\ t # x
  <2>1. t # x
    BY ConstantsAssumption
  <2> QED
    BY <1>0, <1>1, <2>1, AtRest, NodesApart
<1>3. node[t] = "unborn" /\ todo[t] = <<>> /\ args[t] = <<>>
  BY <1>0, <1>1 DEF Bodies, Staged
<1>4. Writes(t) = {}
  BY <1>3 DEF Writes
<1>5. ~InUse(t)
  BY <1>0, <1>2, <1>3 DEF Homes, Settled
<1>6. /\ UNCHANGED <<head, nextWriter, countdown, var, mem>>
      /\ args' = [args EXCEPT ![t] = a] /\ making' = [making EXCEPT ![x] = t]
      /\ phase' = [phase EXCEPT ![t] = "pending"]
      /\ \A u \in Tasks : u # t => want'[u] = want[u]
  BY <1>0 DEF Launch, TypeOK
<1>7. /\ args'[t] = a /\ making'[x] = t /\ phase'[t] = "pending"
      /\ \A u \in Tasks : u # t => args'[u] = args[u] /\ want'[u] = want[u] /\ phase'[u] = phase[u]
      /\ \A y \in Clients : y # x => making'[y] = making[y]
  BY <1>0, <1>6 DEF TypeOK
<1>8. PICK n \in 0..MaxPort : n = Len(a)
  BY ConstantsAssumption
<1>9. a \in Seq([v : Nodes, w : BOOLEAN]) /\ DOMAIN a = 1..n
  <2>1. a \in Seq([v : Nodes, w : BOOLEAN])
    BY ConstantsAssumption
  <2> QED
    BY <1>8, <2>1
<1>10. PICK fs : fs = LaunchFrames(t, n)
  OBVIOUS
<1>11. /\ fs \in Seq(Frame) /\ Len(fs) = n + 2 /\ DOMAIN fs = 1..(n + 2)
       /\ \A i \in 1..n : fs[i] = F("arg", t, i, 0)
       /\ fs[n + 1] = F("bind", t, 0, 0) /\ fs[n + 2] = F("return", t, 0, 0)
  BY <1>10, LaunchFramesAre
<1>12. todo' = [todo EXCEPT ![x] = fs]
  BY <1>8, <1>10 DEF Launch, LaunchFrames
<1>13. /\ Ahead(x)' = {fs[i] : i \in DOMAIN fs}
       /\ \A y \in Threads : y # x => todo'[y] = todo[y] /\ Ahead(y)' = Ahead(y)
  BY <1>1, <1>11, <1>12, CallIs
<1>14. \A f : f \in Ahead(x)' <=> \/ \E i \in DOMAIN a : f = F("arg", t, i, 0)
                                  \/ f = F("bind", t, 0, 0) \/ f = F("return", t, 0, 0)
  <2>1. 1..(n + 2) = (1..n) \cup {n + 1, n + 2}
    BY <1>8
  <2> QED
    BY <1>9, <1>11, <1>13, <2>1
<1>15. InRun(x)'
  <2>1. F("return", t, 0, 0) \in Ahead(x)' /\ F("return", t, 0, 0).op = "return"
    BY <1>14, FrameFields
  <2>2. InRun(x)' <=> \E f \in Ahead(x)' : f.op = "return"
    BY DEF InRun, Ahead
  <2> QED
    BY <2>1, <2>2
<1> QED
  BY <1>1, <1>2, <1>3, <1>4, <1>5, <1>6, <1>7, <1>13, <1>14, <1>15

LEMMA LaunchSlots ==
  ASSUME Core, NEW x \in Clients, NEW t \in Tasks, NEW a \in ArgLists[t], Launch(x, t, a)
  PROVE  /\ \A u \in Nodes : u # t => /\ Slots(u)' = Slots(u) /\ Writes(u)' = Writes(u)
                                      /\ \A i : PortOf(u, i)' = PortOf(u, i)
         /\ Slots(t) = {0} /\ Writes(t)' = {i \in DOMAIN a : a[i].w}
<1>0. TypeOK
  BY DEF Core
<1>1. \A u \in Tasks : u # t => Slots(u)' = Slots(u) /\ Writes(u)' = Writes(u) /\ \A i : PortOf(u, i)' = PortOf(u, i)
  BY LaunchMoves, BodySame
<1>2. \A u : u \notin Tasks => Slots(u)' = Slots(u)
  BY DEF Slots
<1>3. \A u \in Nodes : u \notin Tasks => args'[u] = args[u]
  BY <1>0 DEF TypeOK, Launch
<1>4. \A u \in Nodes : u \notin Tasks => Writes(u)' = Writes(u)
  BY <1>3 DEF Writes
<1>5. \A u \in Nodes : u \notin Tasks => \A i : PortOf(u, i)' = PortOf(u, i)
  BY <1>4 DEF PortOf
<1>6. Writes(t)' = {i \in DOMAIN a : a[i].w}
  BY LaunchMoves DEF Writes
<1>7. Slots(t) = {0}
  <2>1. Writes(t) = {}
    BY LaunchMoves
  <2> QED
    BY <2>1, FS_EmptySet DEF Slots
<1> QED
  BY <1>1, <1>2, <1>4, <1>5, <1>6, <1>7

(* What a call may name. *)
LEMMA LaunchArgs ==
  ASSUME Core, NEW x \in Clients, NEW t \in Tasks, NEW a \in ArgLists[t], Launch(x, t, a), NEW i \in DOMAIN a
  PROVE  LET v == a[i].v IN
         /\ v \in Nodes /\ v # t /\ var[v].live /\ InUse(v) /\ ~IsVoid(v) /\ node[v] # "unborn"
         /\ a[i].w \in BOOLEAN /\ a[i] = [v |-> v, w |-> a[i].w]
         /\ a[i].w => MayWrite(x, v)
         /\ ~a[i].w => MayRead(x, v)
         /\ want'[t][i] = Version(v, a[i].w)
         /\ \A j \in DOMAIN a : i # j /\ a[j].v = v => ~a[i].w /\ ~a[j].w
<1>0. TypeOK /\ Homes
  BY DEF Core
<1>1. a \in Seq([v : Nodes, w : BOOLEAN])
  BY ConstantsAssumption
<1>2. a[i] \in [v : Nodes, w : BOOLEAN]
  BY <1>1, Member
<1>3. a[i].v \in Nodes /\ a[i].w \in BOOLEAN /\ a[i] = [v |-> a[i].v, w |-> a[i].w]
  BY <1>2
<1>4. Usable(x, a)
  BY DEF Launch
<1>5. /\ ~IsVoid(a[i].v)
      /\ a[i].w => MayWrite(x, a[i].v)
      /\ ~a[i].w => MayRead(x, a[i].v)
      /\ \A j \in DOMAIN a : i # j /\ a[j].v = a[i].v => ~a[i].w /\ ~a[j].w
  BY <1>4 DEF Usable
<1>6. var[a[i].v].live
  BY <1>3, <1>5 DEF MayWrite, MayRead
<1>7. InUse(a[i].v)
  BY <1>6 DEF InUse
<1>8. node[a[i].v] # "unborn" /\ a[i].v # t
  BY <1>0, <1>3, <1>7, LaunchMoves DEF Homes, Settled
<1>9. want'[t][i] = Version(a[i].v, a[i].w)
  <2>1. want'[t] = [j \in DOMAIN a |-> Version(a[j].v, a[j].w)]
    BY <1>0 DEF Launch, TypeOK
  <2> QED
    BY <2>1
<1> QED
  BY <1>3, <1>5, <1>6, <1>7, <1>8, <1>9

LEMMA LaunchLast ==
  ASSUME Core, NEW x \in Clients, NEW t \in Tasks, NEW a \in ArgLists[t], Launch(x, t, a)
  PROVE  /\ last'[t] = 1
         /\ \A i \in Writes(t)' : last'[a[i].v] = last[a[i].v] + 1
         /\ \A v \in Nodes : v # t /\ (\A i \in Writes(t)' : a[i].v # v) => last'[v] = last[v]
         /\ \A v \in Nodes : v # t => last'[v] = last[v] \/ last'[v] = last[v] + 1
<1>1. last' = [v \in Nodes |-> IF v = t THEN 1
                               ELSE IF \E i \in DOMAIN a : a[i] = [v |-> v, w |-> TRUE]
                                    THEN last[v] + 1 ELSE last[v]]
  BY DEF Launch
<1>2. Writes(t)' = {i \in DOMAIN a : a[i].w}
  BY LaunchSlots
<1>3. ASSUME NEW i \in Writes(t)'
      PROVE  last'[a[i].v] = last[a[i].v] + 1
  <2>1. i \in DOMAIN a /\ a[i].w
    BY <1>2
  <2>2. a[i].v \in Nodes /\ a[i].v # t /\ a[i] = [v |-> a[i].v, w |-> a[i].w] /\ a[i].w = TRUE
    BY <2>1, LaunchArgs
  <2>3. a[i] = [v |-> a[i].v, w |-> TRUE]
    BY <2>2
  <2> QED
    BY <1>1, <2>1, <2>2, <2>3
<1>4. ASSUME NEW v \in Nodes, v # t, \A i \in Writes(t)' : a[i].v # v
      PROVE  last'[v] = last[v]
  <2>1. ASSUME NEW i \in DOMAIN a, a[i] = [v |-> v, w |-> TRUE]
        PROVE  FALSE
    <3>1. a[i].v = v /\ a[i].w
      BY <2>1
    <3> QED
      BY <1>2, <1>4, <3>1
  <2> QED
    BY <1>1, <1>4, <2>1
<1> QED
  BY <1>1, <1>3, <1>4, NodesApart

LEMMA LaunchDates ==
  ASSUME Core, TypeOK', Dates, NEW x \in Clients, NEW t \in Tasks, NEW a \in ArgLists[t], Launch(x, t, a)
  PROVE  Dates'
<1>0. TypeOK /\ Bodies
  BY DEF Core
<1>1. /\ phase[t] = "idle" /\ args[t] = <<>> /\ Writes(t) = {} /\ t \in Nodes /\ mem' = mem
      /\ args'[t] = a /\ phase'[t] = "pending"
      /\ \A u \in Tasks : u # t => args'[u] = args[u] /\ want'[u] = want[u] /\ phase'[u] = phase[u]
      /\ \A u \in Tasks : u # t => Writes(u)' = Writes(u)
  BY LaunchMoves, LaunchSlots, NodesApart
<1>2. \A v \in Nodes : mem[v] \in Nat /\ last[v] \in Nat /\ mem[v] <= last[v]
  BY NamesDated
<1>3. last[t] = 0 /\ mem[t] = 0
  <2>1. last[t] = 0
    BY <1>1, NamesDated DEF Results
  <2> QED
    BY <1>1, <1>2, <2>1
<1>4. \A v \in Nodes : last[v] <= last'[v] /\ (last[v] >= 1 => last'[v] = last[v] \/ last'[v] = last[v] + 1)
  BY <1>1, <1>2, <1>3, LaunchLast
<1>5. ASSUME NEW u \in Tasks
      PROVE  Results(u)'
  <2>1. CASE u = t
    BY <1>1, <1>3, <2>1, LaunchLast DEF Results
  <2>2. CASE u # t
    <3>1. Results(u) /\ phase'[u] = phase[u] /\ mem'[u] = mem[u] /\ u \in Nodes
      BY <1>1, <2>2, NamesDated, NodesApart
    <3>2. phase[u] = "idle" => last'[u] = last[u]
      <4>1. SUFFICES ASSUME phase[u] = "idle", NEW i \in Writes(t)', a[i].v = u
                     PROVE  FALSE
        BY <2>2, <3>1, LaunchLast
      <4>2. i \in DOMAIN a
        BY <4>1, LaunchSlots
      <4>3. node[u] # "unborn"
        BY <4>1, <4>2, LaunchArgs
      <4> QED
        BY <1>0, <4>1, <4>3 DEF Bodies, Staged
    <3>3. last[u] >= 1 => last'[u] >= 1
      BY <1>2, <1>4, <3>1
    <3> QED
      BY <3>1, <3>2, <3>3 DEF Results
  <2> QED
    BY <2>1, <2>2
<1>6. ASSUME NEW u \in Tasks, u # t, NEW j \in DOMAIN args[u]
      PROVE  Dated(u, j)'
  <2>1. Dated(u, j) /\ args[u][j].v \in Nodes /\ want[u][j] \in Nat
    BY <1>0, <1>6, NamesDated, WantIs
  <2>2. PICK v, k : v = args[u][j].v /\ k = want[u][j]
    OBVIOUS
  <2>3. args'[u][j].v = v /\ want'[u][j] = k /\ phase'[u] = phase[u] /\ Writes(u)' = Writes(u)
    BY <1>1, <1>6, <2>2
  <2>4. k < last[v] => k < last'[v]
    BY <1>2, <1>4, <2>1, <2>2
  <2>5. v \in Tasks => phase'[v] # "idle"
    BY <1>1, <2>1, <2>2 DEF Dated
  <2> QED
    BY <1>1, <2>1, <2>2, <2>3, <2>4, <2>5 DEF Dated, IsVoid
<1>7. ASSUME NEW j \in DOMAIN a
      PROVE  Dated(t, j)'
  <2>1. PICK v, k : v = a[j].v /\ k = want'[t][j]
    OBVIOUS
  <2>2. /\ v \in Nodes /\ v # t /\ ~IsVoid(v) /\ node[v] # "unborn" /\ k = Version(v, a[j].w)
        /\ args'[t][j].v = v
    BY <1>1, <1>7, <2>1, LaunchArgs
  <2>3. j \in Writes(t)' <=> a[j].w
    BY <1>7, LaunchSlots
  <2>4. mem[v] \in Nat /\ last[v] \in Nat /\ mem[v] <= last[v]
    BY <1>2, <2>2
  <2>5. a[j].w => k = last[v]
    BY <2>2 DEF Version
  <2>6. ~a[j].w => IF v \in Deferred /\ last[v] = 0 THEN k = 1 ELSE k = last[v]
    BY <2>2 DEF Version
  <2>7. a[j].w => k < last'[v] /\ ~(k < mem'[v])
    <3>1. a[j].w => last'[v] = last[v] + 1
      BY <2>1, <2>3, LaunchLast
    <3> QED
      BY <1>1, <2>4, <2>5, <3>1
  <2>8. ~a[j].w => mem'[v] <= k /\ (v \in Deferred => k >= 1)
    BY <1>1, <2>4, <2>6
  <2>9. v \in Tasks => k >= 1 /\ phase'[v] # "idle"
    <3>1. SUFFICES ASSUME v \in Tasks
                   PROVE  k >= 1 /\ phase'[v] # "idle"
      OBVIOUS
    <3>2. phase[v] # "idle"
      BY <1>0, <2>2, <3>1 DEF Bodies, Staged
    <3>3. last[v] >= 1
      BY <3>1, <3>2, NamesDated DEF Results
    <3> QED
      BY <1>1, <2>2, <2>4, <2>5, <2>6, <3>1, <3>2, <3>3
  <2> QED
    BY <1>1, <2>1, <2>2, <2>3, <2>7, <2>8, <2>9 DEF Dated, IsVoid
<1>8. ASSUME NEW u \in Tasks, NEW w \in Tasks
      PROVE  Alone(u, w)'
  <2>1. ASSUME NEW b \in Tasks, b # t, NEW i \in Writes(b), NEW j \in Writes(t)',
               args[b][i].v = a[j].v, want[b][i] = want'[t][j]
        PROVE  FALSE
    <3>1. i \in DOMAIN args[b] /\ j \in DOMAIN a /\ a[j].w
      BY <1>0, <2>1, WritesFinite, LaunchSlots
    <3>2. want'[t][j] = last[a[j].v]
      BY <3>1, LaunchArgs DEF Version
    <3>3. want[b][i] < last[args[b][i].v]
      BY <2>1, <3>1, NamesDated DEF Dated
    <3>4. args[b][i].v \in Nodes /\ want[b][i] \in Nat
      BY <1>0, <2>1, <3>1, WantIs
    <3> QED
      BY <1>2, <2>1, <3>2, <3>3, <3>4
  <2>2. CASE u # t /\ w # t
    <3>1. Alone(u, w)
      BY NamesDated
    <3> QED
      BY <1>1, <2>2, <3>1 DEF Alone
  <2>3. CASE u = t /\ w # t
    BY <1>1, <2>1, <2>3 DEF Alone
  <2>4. CASE u # t /\ w = t
    BY <1>1, <2>1, <2>4 DEF Alone
  <2>5. CASE u = w
    BY <2>5 DEF Alone
  <2> QED
    BY <2>2, <2>3, <2>4, <2>5
<1>9. ASSUME NEW v \in Nodes
      PROVE  mem'[v] <= last'[v]
  <2>1. last'[v] \in Nat /\ mem[v] \in Nat /\ last[v] \in Nat
    BY <1>2 DEF TypeOK
  <2>2. mem'[v] = mem[v] /\ mem[v] <= last[v] /\ last[v] <= last'[v]
    BY <1>1, <1>2, <1>4
  <2> QED
    BY <2>1, <2>2
<1>10. \A u \in Tasks : \A j \in DOMAIN args'[u] : Dated(u, j)'
  BY <1>1, <1>6, <1>7
<1> QED
  BY <1>5, <1>8, <1>9, <1>10 DEF Dates

(***************************************************************************)
(* Steps that leave the slots their versions                               *)
(***************************************************************************)
Naming == \A n \in Nodes : \A p \in Slots(n) : /\ p \in Slots(n)'
                                               /\ \A v, k : Names(n, p, v, k) => Names(n, p, v, k)'

LEMMA NamingSame ==
  ASSUME args' = args, want' = want
  PROVE  Naming /\ \A n : Slots(n)' = Slots(n) /\ Writes(n)' = Writes(n) /\ \A i : PortOf(n, i)' = PortOf(n, i)
<1>1. \A n : Slots(n)' = Slots(n) /\ Writes(n)' = Writes(n) /\ \A i : PortOf(n, i)' = PortOf(n, i)
  BY DEF Slots, Writes, PortOf
<1>2. ASSUME NEW n \in Nodes, NEW p \in Slots(n), NEW v, NEW k, Names(n, p, v, k)
      PROVE  Names(n, p, v, k)'
  BY <1>1, <1>2 DEF Names, One
<1> QED
  BY <1>1, <1>2 DEF Naming

LEMMA NamingLaunch ==
  ASSUME Core, TypeOK', NEW x \in Clients, NEW t \in Tasks, NEW a \in ArgLists[t], Launch(x, t, a)
  PROVE  Naming
<1>0. TypeOK
  BY DEF Core
<1>1. ASSUME NEW n \in Nodes, NEW p \in Slots(n)
      PROVE  p \in Slots(n)'
  <2>1. CASE n # t
    BY <2>1, <1>1, LaunchSlots
  <2>2. CASE n = t
    <3>1. p = 0
      BY <1>1, <2>2, LaunchSlots
    <3>2. 0 \in Slots(t)'
      <4>1. PICK W : W = {i \in DOMAIN a : a[i].w}
        OBVIOUS
      <4>2. a \in Seq([v : Nodes, w : BOOLEAN])
        BY ConstantsAssumption
      <4>3. DOMAIN a = 1..Len(a) /\ Len(a) \in Nat
        BY <4>2
      <4>4. IsFiniteSet(W) /\ Cardinality(W) \in Nat
        <5>1. W \subseteq 1..Len(a) /\ IsFiniteSet(1..Len(a))
          BY <4>1, <4>3, FS_Interval
        <5> QED
          BY <5>1, FS_Subset, FS_CardinalityType
      <4>5. Slots(t)' = 0..Cardinality(W)
        BY <4>1, LaunchSlots DEF Slots
      <4> QED
        BY <4>4, <4>5
    <3> QED
      BY <2>2, <3>1, <3>2
  <2> QED
    BY <2>1, <2>2
<1>2. ASSUME NEW n \in Nodes, NEW p \in Slots(n), NEW v, NEW k, Names(n, p, v, k)
      PROVE  Names(n, p, v, k)'
  <2>1. CASE p = 0
    <3>1. v = n /\ k = One(n \in Tasks)
      BY <1>2, <2>1, NamesOf
    <3> QED
      BY <2>1, <3>1 DEF Names, One
  <2>2. CASE p # 0
    <3>1. n \in Tasks /\ \E i \in Writes(n) : p = PortOf(n, i) /\ v = args[n][i].v /\ k = want[n][i] + 1
      BY <1>2, <2>2, NamesOf
    <3>2. n # t
      BY <3>1, LaunchMoves
    <3>3. args'[n] = args[n] /\ want'[n] = want[n] /\ Writes(n)' = Writes(n) /\ \A i : PortOf(n, i)' = PortOf(n, i)
      BY <1>2, <3>1, <3>2, LaunchMoves, LaunchSlots
    <3> QED
      BY <3>1, <3>3 DEF Names
  <2> QED
    BY <2>1, <2>2
<1> QED
  BY <1>1, <1>2 DEF Naming

LEMMA EndingsKept ==
  ASSUME Core, Endings, args' = args,
         \A n \in Nodes : \A p \in Slots(n) : nextWriter'[n][p] = NoOwner => nextWriter[n][p] = NoOwner
  PROVE  Endings'
<1>1. \A n : Slots(n)' = Slots(n)
  BY SlotsStay
<1> QED
  BY <1>1 DEF Endings, EndsVoid, IsVoid, NoOwner

LEMMA HeadsKept ==
  ASSUME Core, Heads, Naming,
         \A v \in Deferred : /\ head'[v].tag = head[v].tag /\ (head[v].tag = "redirect" => head'[v] = head[v])
                             /\ var'[v].deferred = var[v].deferred
                             /\ Finished(v)' => Finished(v)
  PROVE  Heads'
<1>0. TypeOK /\ Bodies /\ Stores
  BY DEF Core
<1>1. ASSUME NEW v \in Deferred
      PROVE  Leading(v)'
  <2>1. Leading(v) /\ v \in Nodes
    BY ConstantsAssumption DEF Heads, Nodes
  <2>2. head'[v].tag = "open" /\ Finished(v)' => var'[v].deferred
    BY <2>1 DEF Leading
  <2>3. ASSUME head'[v].tag = "redirect"
        PROVE  Names(head[v].arcs[1].node, head[v].arcs[1].port, v, 1)'
    <3>1. head[v].tag = "redirect" /\ head'[v] = head[v]
      BY <2>3
    <3>2. PICK n, p : n = head[v].arcs[1].node /\ p = head[v].arcs[1].port
      OBVIOUS
    <3>3. Names(n, p, v, 1)
      BY <2>1, <3>1, <3>2 DEF Leading
    <3>4. n \in Nodes /\ p \in Slots(n)
      <4>1. PICK t \in Tasks : \E i \in Writes(t) : args[t][i].v = v /\ head[v] = Redirect(t, PortOf(t, i))
        BY <1>0, <2>1, <3>1, Redirects
      <4>2. PICK i \in Writes(t) : head[v] = Redirect(t, PortOf(t, i))
        BY <4>1
      <4>3. n = t /\ p = PortOf(t, i)
        BY <3>2, <4>2, RedirectIs
      <4> QED
        BY <1>0, <4>2, <4>3, PortsApart, NodesApart
    <3>5. Names(n, p, v, 1)'
      BY <3>3, <3>4 DEF Naming
    <3>6. head'[v].arcs[1].node = n /\ head'[v].arcs[1].port = p
      BY <3>1, <3>2
    <3> QED
      BY <3>5, <3>6 DEF Names
  <2> QED
    BY <2>2, <2>3 DEF Leading, Names
<1> QED
  BY <1>1 DEF Heads

LEMMA CurrentsKept ==
  ASSUME Core, Currents, Naming,
         \A v \in Nodes : InUse(v)' => /\ InUse(v) /\ var'[v].cur = var[v].cur /\ var'[v].port = var[v].port
                                       /\ Newest(v)' = Newest(v)
  PROVE  Currents'
<1>0. TypeOK /\ Bodies /\ Homes
  BY DEF Core
<1>1. ASSUME NEW v \in Nodes, InUse(v)'
      PROVE  Names(var[v].cur, var[v].port, v, Newest(v))'
  <2>1. PICK n, p, k : n = var[v].cur /\ p = var[v].port /\ k = Newest(v)
    OBVIOUS
  <2>2. n \in Nodes /\ p \in Slots(n)
    BY <1>0, <1>1, <2>1, SlotIs
  <2>3. Names(n, p, v, k)
    BY <1>1, <2>1 DEF Currents, Current
  <2>4. Names(n, p, v, k)'
    BY <2>2, <2>3 DEF Naming
  <2>5. var'[v].cur = n /\ var'[v].port = p /\ Newest(v)' = k
    BY <1>1, <2>1
  <2> QED
    BY <2>4, <2>5 DEF Names
<1> QED
  BY <1>1 DEF Currents, Current

LEMMA ReachingKept ==
  ASSUME Reaching, UNCHANGED <<args, want, last>>,
         \A x \in Clients : InRun(x)' => InRun(x) /\ making'[x] = making[x]
  PROVE  Reaching'
<1>1. \A n : Writes(n)' = Writes(n)
  BY NamingSame
<1> QED
  BY <1>1 DEF Reaching, UpToDate

(* A step of which no variable, no call and no redirect knows. *)
LEMMA RestKept ==
  ASSUME Core, Reaching, Currents, Endings, Heads, Undisturbed, want' = want,
         \A n \in Nodes : \A p \in Slots(n) : nextWriter'[n][p] = NoOwner => nextWriter[n][p] = NoOwner,
         \A n \in Storage : Finished(n)' => Finished(n)
  PROVE  Reaching' /\ Currents' /\ Endings' /\ Heads'
<1>1. UNCHANGED <<var, args, making, last>>
  BY DEF Undisturbed
<1>2. Naming
  BY <1>1, NamingSame
<1>3. Reaching'
  <2>1. \A x \in Clients : InRun(x)' => InRun(x) /\ making'[x] = making[x]
    BY <1>1, CallsAlike
  <2> QED
    BY <1>1, <2>1, ReachingKept
<1>4. Currents'
  <2>1. \A v \in Nodes : Newest(v)' = Newest(v)
    BY <1>1, UsesAlike DEF Newest, One
  <2> QED
    BY <1>1, <1>2, <2>1, UsesAlike, CurrentsKept
<1>5. Endings'
  BY <1>1, EndingsKept
<1>6. Heads'
  <2>1. \A v \in Deferred : v \in Storage /\ v \in Nodes
    BY ConstantsAssumption DEF Nodes
  <2>2. \A v \in Deferred : head'[v].tag = head[v].tag /\ (head[v].tag = "redirect" => head'[v] = head[v])
    BY <2>1 DEF Undisturbed
  <2> QED
    BY <1>1, <1>2, <2>1, <2>2, HeadsKept
<1> QED
  BY <1>3, <1>4, <1>5, <1>6

(***************************************************************************)
(* Who waits for what, after a step                                        *)
(***************************************************************************)
(* Thread x may lose frame g, and node m its list. *)
Passes(x, g, m) ==
  /\ \A y \in Threads : \A f \in Ahead(y) : f \in Ahead(y)' \/ (y = x /\ f = g)
  /\ \A y \in Clients : Ahead(y) # {} => making'[y] = making[y]
  /\ \A n \in Nodes : \A a : Listed(n, a) => Listed(n, a)' \/ n = m

(* Task t loses its hold of slot p of n with them. *)
Goes(x, g, t, n, p) ==
  \/ x \in Clients /\ making[x] = t /\ g.op \in Attaching /\ g.node = n /\ g.port = p
  \/ x \in Clients /\ making[x] = n /\ g = F("move", t, p, 0)
  \/ x = n /\ n \in Tasks /\ g = F("flow", t, p, 0)
Left(m, t, n, p) == \/ n = m /\ Listed(n, FlowBack(t, p))
                    \/ t = m /\ Listed(t, BackOnly(n, p))

LEMMA HangsOr ==
  ASSUME NEW x, NEW g, NEW m, Passes(x, g, m), NEW t \in Tasks, NEW n \in Nodes, NEW p, Hangs(t, n, p)
  PROVE  Hangs(t, n, p)' \/ Goes(x, g, t, n, p) \/ Left(m, t, n, p)
<1>1. /\ \A y \in Threads : \A f \in Ahead(y) : f \in Ahead(y)' \/ (y = x /\ f = g)
      /\ \A y \in Clients : Ahead(y) # {} => making'[y] = making[y]
      /\ \A l \in Nodes : \A a : Listed(l, a) => Listed(l, a)' \/ l = m
  BY DEF Passes
<1>2. Clients \subseteq Threads /\ Tasks \subseteq Threads /\ t \in Nodes
  BY NodesApart
<1>3. CASE Attaches(t, n, p)
  <2>1. PICK y \in Clients : making[y] = t /\ \E f \in Ahead(y) : f.op \in Attaching /\ f.node = n /\ f.port = p
    BY <1>3 DEF Attaches
  <2>2. PICK f \in Ahead(y) : f.op \in Attaching /\ f.node = n /\ f.port = p
    BY <2>1
  <2>3. making'[y] = t
    BY <1>1, <2>1, <2>2
  <2>4. CASE f \in Ahead(y)'
    <3>1. Attaches(t, n, p)'
      BY <2>1, <2>2, <2>3, <2>4 DEF Attaches, Attaching
    <3> QED
      BY <3>1 DEF Hangs
  <2>5. CASE y = x /\ f = g
    BY <2>1, <2>2, <2>5 DEF Goes
  <2> QED
    BY <1>1, <1>2, <2>4, <2>5
<1>4. CASE Moved(t, n, p)
  <2>0. F("move", t, p, 0)' = F("move", t, p, 0)
    BY DEF F
  <2>1. PICK y \in Clients : making[y] = n /\ F("move", t, p, 0) \in Ahead(y)
    BY <1>4 DEF Moved
  <2>2. making'[y] = n
    BY <1>1, <2>1
  <2>3. CASE F("move", t, p, 0) \in Ahead(y)'
    <3>1. Moved(t, n, p)'
      BY <2>0, <2>1, <2>2, <2>3 DEF Moved
    <3> QED
      BY <3>1 DEF Hangs
  <2>4. CASE y = x /\ F("move", t, p, 0) = g
    BY <2>1, <2>4 DEF Goes
  <2> QED
    BY <1>1, <1>2, <2>1, <2>3, <2>4
<1>5. CASE Turned(t, n, p)
  <2>0. F("flow", t, p, 0)' = F("flow", t, p, 0)
    BY DEF F
  <2>1. n \in Tasks /\ F("flow", t, p, 0) \in Ahead(n)
    BY <1>5 DEF Turned
  <2>2. CASE F("flow", t, p, 0) \in Ahead(n)'
    <3>1. Turned(t, n, p)'
      BY <2>0, <2>1, <2>2 DEF Turned
    <3> QED
      BY <3>1 DEF Hangs
  <2>3. CASE n = x /\ F("flow", t, p, 0) = g
    BY <2>1, <2>3 DEF Goes
  <2> QED
    BY <1>1, <1>2, <2>1, <2>2, <2>3
<1>6. CASE Listed(n, FlowBack(t, p))
  <2>1. Listed(n, FlowBack(t, p))' => Hangs(t, n, p)'
    BY DEF Hangs, FlowBack
  <2>2. \A a : Listed(n, a) => Listed(n, a)' \/ n = m
    BY <1>1
  <2>3. PICK a : a = FlowBack(t, p)
    OBVIOUS
  <2>4. Listed(n, a)' => Listed(n, FlowBack(t, p))'
    BY <2>3 DEF FlowBack
  <2> QED
    BY <1>6, <2>1, <2>2, <2>3, <2>4 DEF Left
<1>7. CASE Listed(t, BackOnly(n, p))
  <2>1. Listed(t, BackOnly(n, p))' => Hangs(t, n, p)'
    BY DEF Hangs, BackOnly
  <2>2. \A a : Listed(t, a) => Listed(t, a)' \/ t = m
    BY <1>1, <1>2
  <2>3. PICK a : a = BackOnly(n, p)
    OBVIOUS
  <2>4. Listed(t, a)' => Listed(t, BackOnly(n, p))'
    BY <2>3 DEF BackOnly
  <2> QED
    BY <1>7, <2>1, <2>2, <2>3, <2>4 DEF Left
<1> QED
  BY <1>3, <1>4, <1>5, <1>6, <1>7 DEF Hangs

LEMMA ParkedOr ==
  ASSUME NEW x, NEW g, NEW m, Passes(x, g, m), NEW t \in Tasks, NEW v \in Nodes, Parked(t, v)
  PROVE  \/ Parked(t, v)'
         \/ x \in Clients /\ making[x] = t /\ g = F("link", v, 0, 0)
         \/ v = m /\ Listed(v, FlowBack(t, 0))
<1>1. /\ \A y \in Threads : \A f \in Ahead(y) : f \in Ahead(y)' \/ (y = x /\ f = g)
      /\ \A y \in Clients : Ahead(y) # {} => making'[y] = making[y]
      /\ \A l \in Nodes : \A a : Listed(l, a) => Listed(l, a)' \/ l = m
  BY DEF Passes
<1>2. Clients \subseteq Threads
  BY NodesApart
<1>3. CASE Listed(v, FlowBack(t, 0))
  <2>1. PICK a : a = FlowBack(t, 0)
    OBVIOUS
  <2>2. Listed(v, a)' => Listed(v, FlowBack(t, 0))'
    BY <2>1 DEF FlowBack
  <2>3. Listed(v, a)' \/ v = m
    BY <1>1, <1>3, <2>1
  <2> QED
    BY <1>3, <2>2, <2>3 DEF Parked
<1>4. ASSUME NEW y \in Clients, making[y] = t, F("link", v, 0, 0) \in Ahead(y)
      PROVE  Parked(t, v)' \/ (y = x /\ g = F("link", v, 0, 0))
  <2>0. F("link", v, 0, 0)' = F("link", v, 0, 0)
    BY DEF F
  <2>1. making'[y] = t
    BY <1>1, <1>4
  <2>2. CASE F("link", v, 0, 0) \in Ahead(y)'
    BY <1>4, <2>0, <2>1, <2>2 DEF Parked
  <2> QED
    BY <1>1, <1>2, <1>4, <2>2
<1> QED
  BY <1>3, <1>4 DEF Parked

(* No argument comes to be set up that was not to be. *)
NoNewArgs == \A y \in Clients : /\ making'[y] = making[y]
                                /\ \A f : f.op = "arg" /\ f \in Ahead(y)' => f \in Ahead(y)

LEMMA ToComeBack ==
  ASSUME NoNewArgs, NEW t \in Tasks, NEW i, ToCome(t, i)'
  PROVE  ToCome(t, i)
<1>1. PICK y \in Clients : making'[y] = t /\ F("arg", t, i, 0)' \in Ahead(y)'
  BY DEF ToCome
<1>2. F("arg", t, i, 0)' = F("arg", t, i, 0) /\ F("arg", t, i, 0).op = "arg"
  BY DEF F
<1> QED
  BY <1>1, <1>2 DEF NoNewArgs, ToCome

LEMMA ToComeOr ==
  ASSUME NEW x, NEW g, NEW m, Passes(x, g, m), NEW t \in Tasks, NEW i, ToCome(t, i)
  PROVE  ToCome(t, i)' \/ (x \in Clients /\ making[x] = t /\ g = F("arg", t, i, 0))
<1>1. /\ \A y \in Threads : \A f \in Ahead(y) : f \in Ahead(y)' \/ (y = x /\ f = g)
      /\ \A y \in Clients : Ahead(y) # {} => making'[y] = making[y]
  BY DEF Passes
<1>2. PICK y \in Clients : making[y] = t /\ F("arg", t, i, 0) \in Ahead(y)
  BY DEF ToCome
<1>3. F("arg", t, i, 0)' = F("arg", t, i, 0)
  BY DEF F
<1>4. making'[y] = t /\ y \in Threads
  BY <1>1, <1>2, NodesApart
<1>5. CASE F("arg", t, i, 0) \in Ahead(y)'
  BY <1>2, <1>3, <1>4, <1>5 DEF ToCome
<1> QED
  BY <1>1, <1>2, <1>4, <1>5

(* What a task overwrites stays its own. *)
TakesStay == \A t \in Tasks : \A n \in Nodes : \A p \in Slots(n) : Takes(t, n, p) => Takes(t, n, p)'

LEMMA WritesKept ==
  ASSUME Core, Claims, Naming, NEW t \in Tasks, NEW i \in Writes(t), args'[t] = args[t], want'[t] = want[t],
         last'[args[t][i].v] = last[args[t][i].v], TakesStay, ToCome(t, i)' <=> ToCome(t, i)
  PROVE  WritesOver(t, i)'
<1>0. TypeOK
  BY DEF Core
<1>1. WritesOver(t, i)
  BY <1>0, WritesFinite DEF Claims, Claim
<1>2. CASE ToCome(t, i)
  BY <1>1, <1>2 DEF WritesOver
<1>3. CASE ~ToCome(t, i)
  <2>1. PICK v, k : v = args[t][i].v /\ k = want[t][i]
    OBVIOUS
  <2>2. PICK n \in Nodes : \E p \in Port : p \in Slots(n) /\ Names(n, p, v, k) /\ Takes(t, n, p)
    BY <1>1, <1>3, <2>1 DEF WritesOver
  <2>3. PICK p \in Port : p \in Slots(n) /\ Names(n, p, v, k) /\ Takes(t, n, p)
    BY <2>2
  <2>4. p \in Slots(n)' /\ Names(n, p, v, k)' /\ Takes(t, n, p)'
    BY <2>3 DEF Naming, TakesStay
  <2>5. args'[t][i].v = v /\ want'[t][i] = k
    BY <2>1
  <2>6. \E b \in Nodes : \E q \in Port : q \in Slots(b)' /\ Names(b, q, v, k)' /\ Takes(t, b, q)'
    BY <2>4
  <2>7. \E b \in Nodes : \E q \in Port : q \in Slots(b)' /\ Names(b, q, args[t][i].v, want[t][i])' /\ Takes(t, b, q)'
    BY <2>5, <2>6 DEF Names
  <2> QED
    BY <1>3, <2>7 DEF WritesOver
<1> QED
  BY <1>2, <1>3

(* Somebody who waits for version k of v still does. *)
LEMMA HasIf ==
  ASSUME TypeOK, Naming, NEW t, NEW v, NEW k, NEW n \in Nodes, NEW p \in Slots(n),
         Names(n, p, v, k), Hangs(t, n, p)'
  PROVE  Has(t, v, k)'
<1>1. p \in Slots(n)' /\ Names(n, p, v, k)' /\ p \in Port
  BY SlotsArePorts DEF Naming
<1> QED
  BY <1>1 DEF Has, Awaits

(* What task t reads. *)
Wants(t, v, k) == \E i \in DOMAIN args[t] \ Writes(t) : v = args[t][i].v /\ k = want[t][i]

(* A step in which whatever t loses it gets otherwise. *)
Regains(x, g, m) ==
  \A t \in Tasks : phase'[t] # "done" => \A v, k : Wants(t, v, k) =>
    /\ \A n \in Nodes : \A p \in Slots(n) :
         Names(n, p, v, k) /\ (Goes(x, g, t, n, p) \/ Left(m, t, n, p)) => Has(t, v, k)'
    /\ v \in Deferred /\ k = 1 /\ Parked(t, v) => Has(t, v, k)'
Follows == \A t \in Tasks : \A i \in DOMAIN args[t] \ Writes(t) :
             ToCome(t, i) => ToCome(t, i)' \/ Has(t, args[t][i].v, want[t][i])'

LEMMA ClaimsKept ==
  ASSUME Core, Claims, Naming, NEW x, NEW g, NEW m, Passes(x, g, m), UNCHANGED <<args, want>>,
         \A t \in Tasks : phase[t] = "done" => phase'[t] = "done",
         \A t \in Tasks : \A i \in Writes(t) : WritesOver(t, i)',
         Regains(x, g, m), Follows
  PROVE  Claims'
<1>0. TypeOK
  BY DEF Core
<1>1. \A t : Writes(t)' = Writes(t)
  BY DEF Writes
<1>2. ASSUME NEW t \in Tasks, NEW i \in DOMAIN args[t], i \notin Writes(t)
      PROVE  ReadsFrom(t, i)'
  <2>1. PICK v, k : v = args[t][i].v /\ k = want[t][i]
    OBVIOUS
  <2>2. ReadsFrom(t, i) /\ v \in Nodes
    BY <1>0, <1>2, <2>1, WantIs DEF Claims, Claim
  <2>3. Wants(t, v, k)
    BY <1>2, <2>1 DEF Wants
  <2>4. CASE phase'[t] = "done"
    BY <2>4 DEF ReadsFrom
  <2>5. CASE phase'[t] # "done" /\ ToCome(t, i)
    BY <1>2, <2>1, <2>5 DEF Follows, ReadsFrom
  <2>6. CASE phase'[t] # "done" /\ Has(t, v, k)
    <3>1. /\ \A n \in Nodes : \A p \in Slots(n) :
               Names(n, p, v, k) /\ (Goes(x, g, t, n, p) \/ Left(m, t, n, p)) => Has(t, v, k)'
          /\ v \in Deferred /\ k = 1 /\ Parked(t, v) => Has(t, v, k)'
      BY <2>3, <2>6 DEF Regains
    <3>2. ASSUME Awaits(t, v, k)
          PROVE  Has(t, v, k)'
      <4>1. PICK n \in Nodes : \E p \in Port : p \in Slots(n) /\ Names(n, p, v, k) /\ Hangs(t, n, p)
        BY <3>2 DEF Awaits
      <4>2. PICK p \in Port : p \in Slots(n) /\ Names(n, p, v, k) /\ Hangs(t, n, p)
        BY <4>1
      <4>3. Hangs(t, n, p)' \/ Goes(x, g, t, n, p) \/ Left(m, t, n, p)
        BY <4>2, HangsOr
      <4>4. Hangs(t, n, p)' => Has(t, v, k)'
        BY <1>0, <4>2, HasIf
      <4> QED
        BY <3>1, <4>2, <4>3, <4>4
    <3>3. Has(t, v, k)'
      BY <2>6, <3>1, <3>2 DEF Has
    <3>4. Has(t, v, k)' => Has(t, args[t][i].v, want[t][i])'
      <4>1. args'[t][i].v = v /\ want'[t][i] = k
        BY <2>1
      <4> QED
        BY ZenonT(60), <4>1 DEF Has, Awaits, Names, Parked, Listed, FlowBack, F, Hangs, Attaches, Moved, Turned, BackOnly
    <3> QED
      BY <3>3, <3>4 DEF ReadsFrom
  <2> QED
    BY <2>1, <2>2, <2>4, <2>5, <2>6 DEF ReadsFrom
<1>3. ASSUME NEW t \in Tasks, NEW i \in DOMAIN args[t]
      PROVE  Claim(t, i)'
  BY <1>1, <1>2, <1>3 DEF Claim
<1> QED
  BY <1>3 DEF Claims
(***************************************************************************)
(* Steps of a thread that goes on                                          *)
(***************************************************************************)
LEMMA PassesThen ==
  ASSUME TypeOK, NEW x \in Threads, todo[x] # <<>>, NEW fs \in Seq(Frame), Then(x, fs), making' = making,
         NEW m, \A n \in Nodes : \A a : Listed(n, a) => Listed(n, a)' \/ n = m
  PROVE  Passes(x, Cur(x), m)
<1>1. /\ Ahead(x) = {Cur(x)} \cup After(todo[x], 1)
      /\ Ahead(x)' = {fs[i] : i \in DOMAIN fs} \cup After(todo[x], 1)
      /\ \A y \in Threads : y # x => todo'[y] = todo[y] /\ Ahead(y)' = Ahead(y)
  BY AheadThen
<1>2. \A y \in Threads : \A f \in Ahead(y) : f \in Ahead(y)' \/ (y = x /\ f = Cur(x))
  BY <1>1
<1> QED
  BY <1>2 DEF Passes

LEMMA NoNewThen ==
  ASSUME TypeOK, NEW x \in Threads, todo[x] # <<>>, NEW fs \in Seq(Frame), Then(x, fs), making' = making,
         \A i \in DOMAIN fs : fs[i].op # "arg"
  PROVE  NoNewArgs
<1>1. /\ Ahead(x) = {Cur(x)} \cup After(todo[x], 1)
      /\ Ahead(x)' = {fs[i] : i \in DOMAIN fs} \cup After(todo[x], 1)
      /\ \A y \in Threads : y # x => todo'[y] = todo[y] /\ Ahead(y)' = Ahead(y)
  BY AheadThen
<1>2. ASSUME NEW y \in Clients, NEW f, f.op = "arg", f \in Ahead(y)'
      PROVE  f \in Ahead(y)
  BY <1>1, <1>2, NodesApart
<1> QED
  BY <1>2 DEF NoNewArgs

(* It keeps the claims, if whatever is lost with its frame or a list is made up for. *)
LEMMA ClaimsThen ==
  ASSUME Core, Claims, NEW x \in Threads, todo[x] # <<>>, NEW fs \in Seq(Frame), Then(x, fs),
         UNCHANGED <<args, want, making, last>>,
         Cur(x).op # "arg", \A i \in DOMAIN fs : fs[i].op # "arg",
         NEW m, \A n \in Nodes : \A a : Listed(n, a) => Listed(n, a)' \/ n = m,
         TakesStay, \A t \in Tasks : phase[t] = "done" => phase'[t] = "done",
         Regains(x, Cur(x), m)
  PROVE  Claims'
<1>0. TypeOK
  BY DEF Core
<1>1. Passes(x, Cur(x), m)
  BY <1>0, PassesThen
<1>2. NoNewArgs
  BY <1>0, NoNewThen
<1>3. Naming
  BY NamingSame
<1>4. \A t \in Tasks : \A i : ToCome(t, i)' => ToCome(t, i)
  BY <1>2, ToComeBack
<1>5. \A t \in Tasks : \A i : F("arg", t, i, 0).op = "arg"
  BY FrameFields
<1>6. \A t \in Tasks : \A i : ToCome(t, i) => ToCome(t, i)'
  BY <1>1, <1>5, ToComeOr
<1>7. ASSUME NEW t \in Tasks, NEW i \in Writes(t)
      PROVE  WritesOver(t, i)'
  <2>1. ToCome(t, i)' <=> ToCome(t, i)
    BY <1>4, <1>6
  <2> QED
    BY <1>3, <2>1, WritesKept
<1>8. Follows
  BY <1>6 DEF Follows
<1> QED
  BY <1>1, <1>3, <1>7, <1>8, ClaimsKept

LEMMA NoTaskIs == NoTask \notin Nodes
  BY ConstantsAssumption DEF NoTask, Nodes

(* Frames that nobody waits in. *)
Minding == Attaching \cup {"arg", "return", "move", "flow"}

LEMMA LosesNothing ==
  ASSUME Core, NEW x, NEW g, g.op \notin Attaching \cup {"move", "flow"}, Passes(x, g, NoTask)
  PROVE  Regains(x, g, NoTask)
<1>1. ASSUME NEW t \in Tasks, NEW v, NEW k, Wants(t, v, k)
      PROVE  /\ \A n \in Nodes : \A p \in Slots(n) : ~(Goes(x, g, t, n, p) \/ Left(NoTask, t, n, p))
             /\ v \in Deferred /\ k = 1 /\ Parked(t, v) => Has(t, v, k)'
  <2>1. ASSUME NEW n \in Nodes, NEW p \in Slots(n)
        PROVE  ~Goes(x, g, t, n, p) /\ ~Left(NoTask, t, n, p)
    <3>1. g # F("move", t, p, 0) /\ g # F("flow", t, p, 0)
      BY FrameFields
    <3> QED
      BY <3>1, NoTaskIs, NodesApart DEF Goes, Left
  <2>2. ASSUME v \in Deferred, k = 1, Parked(t, v)
        PROVE  Has(t, v, k)'
    <3>1. v \in Nodes
      BY <2>2, ConstantsAssumption DEF Nodes
    <3>2. g # F("link", v, 0, 0) /\ v # NoTask
      BY <3>1, FrameFields, NoTaskIs DEF Attaching
    <3>3. Parked(t, v)'
      BY <2>2, <3>1, <3>2, ParkedOr
    <3> QED
      BY <2>2, <3>3 DEF Has
  <2> QED
    BY <2>1, <2>2
<1> QED
  BY <1>1 DEF Regains

(* A step that no version, variable, list or claim knows of. *)
LEMMA QuietThen ==
  ASSUME Core, Versions, NEW x \in Threads, todo[x] # <<>>, NEW fs \in Seq(Frame), Then(x, fs),
         Cur(x).op \notin Minding, \A i \in DOMAIN fs : fs[i].op \notin {"arg", "return"},
         UNCHANGED <<head, var, args, making, last, want>>,
         \A n \in Nodes : node'[n] = "unborn" <=> node[n] = "unborn",
         \A n \in Nodes : \A p \in Slots(n) : \/ nextWriter'[n][p] = nextWriter[n][p]
                                              \/ nextWriter[n][p] = Null /\ nextWriter'[n][p] = Ready,
         \A n \in Storage : Finished(n)' => Finished(n),
         \A t \in Tasks : /\ phase[t] = "done" => phase'[t] = "done"
                          /\ phase[t] # "idle" => phase'[t] # "idle"
  PROVE  Claims' /\ Reaching' /\ Currents' /\ Endings' /\ Heads'
<1>0. TypeOK
  BY DEF Core
<1>1. Claims /\ Reaching /\ Currents /\ Endings /\ Heads
  BY DEF Versions
<1>2. \A n \in Nodes : \A a : Listed(n, a) => Listed(n, a)'
  BY DEF Listed, Lists
<1>3. Passes(x, Cur(x), NoTask)
  BY <1>0, <1>2, PassesThen
<1>4. NoNewArgs
  BY <1>0, NoNewThen
<1>5. Regains(x, Cur(x), NoTask)
  BY <1>3, LosesNothing DEF Minding
<1>6. TakesStay
  BY DEF TakesStay, Takes, Writer, Null
<1>7. Claims'
  BY <1>1, <1>2, <1>5, <1>6, ClaimsThen DEF Minding
<1>8. Undisturbed
  <2>1. \A n \in Nodes : \A p \in Slots(n) : Vacant(n, p) => Vacant(n, p)'
    BY DEF Vacant, Openable, Null, Ready
  <2> QED
    BY <2>1, UndisturbedThen DEF Minding
<1>9. \A n \in Nodes : \A p \in Slots(n) : nextWriter'[n][p] = NoOwner => nextWriter[n][p] = NoOwner
  BY DEF NoOwner, Ready
<1>10. Reaching' /\ Currents' /\ Endings' /\ Heads'
  BY <1>1, <1>8, <1>9, RestKept
<1> QED
  BY <1>7, <1>10
(* A step that loses no one's claim. *)
LEMMA ClaimsQuiet ==
  ASSUME Core, Claims, NEW x, NEW g, g.op \notin Minding, NoNewArgs, Passes(x, g, NoTask),
         UNCHANGED <<args, want, last>>, TakesStay, \A t \in Tasks : phase[t] = "done" => phase'[t] = "done"
  PROVE  Claims'
<1>1. Regains(x, g, NoTask)
  BY LosesNothing DEF Minding
<1>2. Naming
  BY NamingSame
<1>3. \A t \in Tasks : \A i : g # F("arg", t, i, 0)
  BY FrameFields DEF Minding
<1>4. \A t \in Tasks : \A i : ToCome(t, i)' <=> ToCome(t, i)
  BY <1>3, ToComeBack, ToComeOr
<1>5. \A t \in Tasks : \A i \in Writes(t) : WritesOver(t, i)'
  BY <1>2, <1>4, WritesKept
<1>6. Follows
  BY <1>4 DEF Follows
<1> QED
  BY <1>1, <1>2, <1>5, <1>6, ClaimsKept

(***************************************************************************)
(* Counting, waiting and waking                                            *)
(***************************************************************************)
LEMMA PlainVersions ==
  ASSUME Core, Versions, NEW x \in Threads, todo[x] # <<>>, NEW fs \in Seq(Frame), Then(x, fs),
         Cur(x).op \notin Minding, \A i \in DOMAIN fs : fs[i].op \notin {"arg", "return"},
         UNCHANGED <<head, nextWriter, var, args, making, ghost>>,
         \A n \in Nodes : node'[n] = "unborn" <=> node[n] = "unborn"
  PROVE  Versions'
<1> USE DEF ghost
<1>1. Claims' /\ Reaching' /\ Currents' /\ Endings' /\ Heads'
  <2>1. \A n : Finished(n)' <=> Finished(n)
    BY FinishedSame
  <2> QED
    BY <2>1, QuietThen
<1>2. Dates'
  BY DatesKept DEF Versions
<1> QED
  BY <1>1, <1>2 DEF Versions

LEMMA PopVersions ==
  ASSUME Core, Versions, NEW x \in Threads, todo[x] # <<>>, Then(x, <<>>), Cur(x).op \notin Minding,
         UNCHANGED <<head, nextWriter, var, args, making, ghost>>,
         \A n \in Nodes : node'[n] = "unborn" <=> node[n] = "unborn"
  PROVE  Versions'
<1>1. <<>> \in Seq(Frame) /\ DOMAIN <<>> = {}
  OBVIOUS
<1> QED
  BY <1>1, PlainVersions

LEMMA OneVersions ==
  ASSUME Core, Versions, NEW x \in Threads, todo[x] # <<>>, NEW f \in Frame, Then(x, <<f>>),
         Cur(x).op \notin Minding, f.op \notin {"arg", "return"},
         UNCHANGED <<head, nextWriter, var, args, making, ghost>>,
         \A n \in Nodes : node'[n] = "unborn" <=> node[n] = "unborn"
  PROVE  Versions'
<1>1. PICK fs : fs = <<f>>
  OBVIOUS
<1>2. fs \in Seq(Frame) /\ \A i \in DOMAIN fs : fs[i].op \notin {"arg", "return"}
  BY <1>1, OneIs
<1>3. Then(x, fs)
  BY <1>1
<1> QED
  BY <1>2, <1>3, PlainVersions

LEMMA WaitVersions ==
  ASSUME Core, Versions, NEW x \in Clients, Wait(x)
  PROVE  Versions'
<1>1. x \in Threads /\ todo[x] # <<>> /\ Cur(x).op = "wait" /\ Cur(x).node \in Nodes
  BY AtTop, NodesApart DEF Wait, Core
<1>2. F("block", Cur(x).node, 0, 0) \in Frame /\ F("block", Cur(x).node, 0, 0).op = "block"
  BY <1>1, NodesApart DEF F, Frame, WaitOps
<1>3. Then(x, <<>>) \/ Then(x, <<F("block", Cur(x).node, 0, 0)>>)
  BY DEF Wait
<1>4. UNCHANGED <<head, nextWriter, var, args, making, ghost, node>>
  BY DEF Wait, engine, setup
<1>5. Cur(x).op \notin Minding
  BY <1>1 DEF Minding, Attaching
<1> QED
  BY <1>1, <1>2, <1>3, <1>4, <1>5, PopVersions, OneVersions

LEMMA BlockVersions ==
  ASSUME Core, Versions, NEW x \in Clients, Block(x) \/ Get(x)
  PROVE  Versions'
<1>1. x \in Threads /\ todo[x] # <<>> /\ Cur(x).op \in {"block", "get"}
  BY AtTop, NodesApart DEF Block, Get, Core
<1>2. UNCHANGED <<head, nextWriter, var, args, making, ghost, node>> /\ Then(x, <<>>)
  BY DEF Block, Get, engine, setup
<1>3. Cur(x).op \notin Minding
  BY <1>1 DEF Minding, Attaching
<1> QED
  BY <1>1, <1>2, <1>3, PopVersions

LEMMA JoinVersions ==
  ASSUME Core, Versions, NEW x \in Threads, Join(x)
  PROVE  Versions'
<1>1. todo[x] # <<>> /\ Cur(x).op = "join"
  BY AtTop DEF Join, Core
<1>2. UNCHANGED <<head, nextWriter, var, args, making, ghost, node>> /\ Then(x, <<>>)
  BY DEF Join, engine, setup
<1>3. Cur(x).op \notin Minding
  BY <1>1 DEF Minding, Attaching
<1> QED
  BY <1>1, <1>2, <1>3, PopVersions

LEMMA RelVersions ==
  ASSUME Core, Versions, NEW x \in Threads, Rel(x)
  PROVE  Versions'
<1>1. todo[x] # <<>> /\ Cur(x).op \in {"rel", "relall"} /\ Cur(x).node \in Nodes /\ Cur(x).k \in Int
  BY AtTop DEF Rel, Core
<1>2. Fits(Cur(x)) /\ Cur(x) \in FrameOf(x)
  BY <1>1, TopLies DEF Core
<1>3. node[Cur(x).node] # "unborn"
  BY <1>1, <1>2 DEF Fits
<1>4. UNCHANGED <<head, nextWriter, var, args, making, ghost>>
  BY DEF Rel, setup
<1>5. PICK k \in Int : k = IF At(x, "relall") THEN refs[Cur(x).node] ELSE Cur(x).k
  <2>1. At(x, "relall") => Cur(x).node \in Tasks
    BY <1>2 DEF At, Cur, FrameOf
  <2>2. At(x, "relall") => refs[Cur(x).node] \in Int
    BY <2>1 DEF Core, TypeOK
  <2> QED
    BY <1>1, <2>2
<1>6. (Free(Cur(x).node) /\ Then(x, <<>>)) \/ (Then(x, <<F("sub", Cur(x).node, 0, k)>>) /\ node' = node)
  BY <1>5 DEF Rel
<1>7. \A m \in Nodes : node'[m] = "unborn" <=> node[m] = "unborn"
  BY <1>1, <1>3, <1>6, FreeBorn DEF Core
<1>8. F("sub", Cur(x).node, 0, k) \in Frame /\ F("sub", Cur(x).node, 0, k).op = "sub"
  BY <1>1, NodesApart DEF F, Frame, CountOps
<1>9. Cur(x).op \notin Minding
  BY <1>1 DEF Minding, Attaching
<1>10. CASE Then(x, <<>>)
  BY <1>1, <1>4, <1>7, <1>9, <1>10, PopVersions
<1>11. CASE Then(x, <<F("sub", Cur(x).node, 0, k)>>)
  BY <1>1, <1>4, <1>7, <1>8, <1>9, <1>11, OneVersions
<1> QED
  BY <1>6, <1>10, <1>11

LEMMA SubVersions ==
  ASSUME Core, Versions, NEW x \in Threads, Sub(x)
  PROVE  Versions'
<1>1. todo[x] # <<>> /\ Cur(x).op = "sub" /\ Cur(x).node \in Nodes
  BY AtTop DEF Sub, Core
<1>2. Fits(Cur(x))
  BY <1>1, TopLies DEF Core
<1>3. node[Cur(x).node] # "unborn"
  BY <1>1, <1>2 DEF Fits
<1>4. Free(Cur(x).node) \/ node' = node
  BY DEF Sub
<1>5. \A m \in Nodes : node'[m] = "unborn" <=> node[m] = "unborn"
  BY <1>1, <1>3, <1>4, FreeBorn DEF Core
<1>6. Cur(x).op \notin Minding
  BY <1>1 DEF Minding, Attaching
<1>7. UNCHANGED <<head, nextWriter, var, args, making, ghost>> /\ Then(x, <<>>)
  BY DEF Sub, setup
<1> QED
  BY <1>1, <1>5, <1>6, <1>7, PopVersions

LEMMA WakeupVersions ==
  ASSUME Core, Versions, NEW t \in Tasks, Wakeup(t)
  PROVE  Versions'
<1>1. t \in Threads /\ todo[t] # <<>> /\ Cur(t).op = "wakeup"
  BY AtTop, NodesApart DEF Wakeup, Core
<1>2. UNCHANGED <<head, nextWriter, var, args, making, ghost, node>> /\ Then(t, <<>>)
  BY DEF Wakeup, setup
<1>3. Cur(t).op \notin Minding
  BY <1>1 DEF Minding, Attaching
<1> QED
  BY <1>1, <1>2, <1>3, PopVersions

LEMMA DecVersions ==
  ASSUME Core, Versions, NEW x \in Threads, Dec(x)
  PROVE  Versions'
<1>1. At(x, "dec")
  BY DEF Dec
<1>2. todo[x] # <<>> /\ Cur(x).op = "dec"
  BY <1>1, AtTop DEF Core
<1>3. PICK fs \in Seq(Frame) :
        /\ Then(x, fs)
        /\ \A i \in DOMAIN fs : \/ fs[i].op = "pre" /\ fs[i].k = 1 /\ fs[i].node \in Tasks
                                \/ fs[i].op = "rel" /\ node[fs[i].node] # "unborn"
        /\ \A u \in Tasks : Number(fs, Notices(u)) =
                One(/\ countdown[Cur(x).node][Cur(x).port] = Cur(x).k
                    /\ nextWriter[Cur(x).node][Cur(x).port] = Writer(u))
  BY DecFrames
<1>4. \A i \in DOMAIN fs : fs[i].op \notin {"arg", "return"}
  BY <1>3
<1>5. Cur(x).op \notin Minding
  BY <1>2 DEF Minding, Attaching
<1>6. UNCHANGED <<head, nextWriter, var, args, making, ghost, node>>
  BY DEF Dec, setup
<1> QED
  BY <1>2, <1>3, <1>4, <1>5, <1>6, PlainVersions

LEMMA OutVersions ==
  ASSUME Core, Versions, NEW t \in Tasks, Out(t)
  PROVE  Versions'
<1> USE DEF setup, ghost
<1>1. /\ t \in Threads /\ t \in Nodes /\ todo[t] # <<>> /\ Cur(t).op = "out"
  BY AtTop, NodesApart DEF Out, Core
<1>2. PICK p \in Port : p = Cur(t).port
  BY AtTop, NodesApart DEF Out, Core
<1>3. PICK k \in Int : k = count[t][p] - Kept(t, p)
  <2>1. count[t][p] \in Int /\ Kept(t, p) \in Int
    BY <1>2 DEF Core, TypeOK, Kept
  <2> QED
    BY <2>1
<1>4. PICK g : g = F("dec", t, p, k)
  OBVIOUS
<1>5. g \in Frame /\ g.op = "dec"
  BY <1>1, <1>2, <1>3, <1>4 DEF F, Frame, CountOps
<1>6. PICK fs : fs = <<g>>
  OBVIOUS
<1>7. fs \in Seq(Frame) /\ \A i \in DOMAIN fs : fs[i].op \notin {"arg", "return"}
  BY <1>5, <1>6, OneIs
<1>8. /\ nextWriter' = [nextWriter EXCEPT ![t][p] = IF @ = Null THEN Ready ELSE @]
      /\ Then(t, fs)
      /\ UNCHANGED <<node, head, startCount, life, countdown, woken, count, refs, setup, ghost>>
  BY <1>2, <1>3, <1>4, <1>6 DEF Out
<1>9. \A m \in Nodes : \A q \in Slots(m) : \/ nextWriter'[m][q] = nextWriter[m][q]
                                           \/ nextWriter[m][q] = Null /\ nextWriter'[m][q] = Ready
  BY <1>1, <1>2, <1>8, SlotsArePorts DEF Core, TypeOK
<1>10. \A s \in Storage : Finished(s)' => Finished(s)
  <2>1. \A s \in Storage : s # t /\ s \in Nodes
    BY ConstantsAssumption DEF Nodes
  <2>2. \A s \in Storage : nextWriter'[s] = nextWriter[s]
    BY <1>8, <2>1 DEF Core, TypeOK
  <2> QED
    BY <1>8, <2>2 DEF Finished, Null
<1>11. Claims' /\ Reaching' /\ Currents' /\ Endings' /\ Heads'
  BY <1>1, <1>7, <1>8, <1>9, <1>10, QuietThen DEF Minding, Attaching
<1>12. Dates'
  BY <1>8, DatesKept DEF Versions
<1> QED
  BY <1>11, <1>12 DEF Versions
LEMMA StartVersions ==
  ASSUME Core, Versions, NEW t \in Tasks, Start(t)
  PROVE  Versions'
<1> USE DEF setup, engine
<1>1. t \in Threads /\ t \in Nodes /\ todo[t] # <<>> /\ Cur(t).op = "start" /\ At(t, "start")
  BY AtTop, NodesApart DEF Start, Core
<1>2. /\ phase' = [phase EXCEPT ![t] = "running"] /\ Then(t, <<>>)
      /\ UNCHANGED <<node, engine, setup, mem, last, want>>
  BY DEF Start
<1>3. phase[t] = "pending"
  BY <1>1, WorkerStage DEF Core
<1>4. phase'[t] = "running" /\ \A u \in Tasks : u # t => phase'[u] = phase[u]
  BY <1>2 DEF Core, TypeOK
<1>5. PICK fs : fs = <<>>
  OBVIOUS
<1>6. fs \in Seq(Frame) /\ DOMAIN fs = {} /\ Then(t, fs)
  BY <1>2, <1>5
<1>7. \A s \in Storage : Finished(s)' => Finished(s)
  BY <1>2, <1>3, <1>4 DEF Finished, Null
<1>8. Claims' /\ Reaching' /\ Currents' /\ Endings' /\ Heads'
  BY <1>1, <1>2, <1>3, <1>4, <1>6, <1>7, QuietThen DEF Minding, Attaching
<1>9. Dates'
  BY <1>2, <1>3, <1>4, DatesKept DEF Versions
<1> QED
  BY <1>8, <1>9 DEF Versions

LEMMA FinishVersions ==
  ASSUME Core, TypeOK', Versions, NEW t \in Tasks, Finish(t)
  PROVE  Versions'
<1> USE DEF setup
<1>1. t \in Threads /\ t \in Nodes /\ todo[t] # <<>> /\ Cur(t).op = "finish" /\ At(t, "finish")
  BY AtTop, NodesApart DEF Finish, Core
<1>2. /\ phase' = [phase EXCEPT ![t] = "done"] /\ Then(t, <<>>)
      /\ UNCHANGED <<node, head, startCount, life, nextWriter, woken, refs, setup, last, want>>
  BY DEF Finish
<1>3. phase'[t] = "done" /\ \A u \in Tasks : u # t => phase'[u] = phase[u]
  BY <1>2 DEF Core, TypeOK
<1>4. PICK fs : fs = <<>>
  OBVIOUS
<1>5. fs \in Seq(Frame) /\ DOMAIN fs = {} /\ Then(t, fs)
  BY <1>2, <1>4
<1>6. \A s \in Storage : Finished(s)' => Finished(s)
  <2>1. \A s \in Storage : s \notin Tasks
    BY ConstantsAssumption
  <2> QED
    BY <1>2, <2>1 DEF Finished, Null
<1>7. Claims' /\ Reaching' /\ Currents' /\ Endings' /\ Heads'
  BY <1>1, <1>2, <1>3, <1>5, <1>6, QuietThen DEF Minding, Attaching
<1>8. Dates'
  BY FinishDates DEF Versions
<1> QED
  BY <1>7, <1>8 DEF Versions

(* A thread that was at rest is given frames that nobody waits in. *)
LEMMA PreVersions ==
  ASSUME Core, Versions, NEW x \in Threads, Pre(x)
  PROVE  Versions'
<1> USE DEF setup, ghost
<1>1. /\ todo[x] # <<>> /\ Cur(x).op = "pre" /\ Cur(x) \in Ahead(x) /\ Cur(x) \in Frame /\ Fits(Cur(x))
  BY AtTop, TopLies DEF Pre, Core
<1>2. PICK d \in Nodes, k \in Int : d = Cur(x).node /\ k = Cur(x).k
  BY AtTop DEF Pre, Core
<1>3. d \in Tasks /\ d \in Threads /\ (k = 1 \/ k = Protection(d))
  BY <1>1, <1>2, NodesApart DEF Fits
<1>4. (Cur(x) \in Notices(d) <=> k = 1) /\ (Cur(x) \in Protecting(d) <=> k # 1)
  BY <1>1, <1>2 DEF Notices, Protecting
<1>5. todo[d] = <<>> /\ d # x
  BY <1>1, <1>3, <1>4, Expected DEF Core
<1>6. PICK spawns : spawns = (startCount[d] = k)
  OBVIOUS
<1>7. PICK fs : fs = IF spawns /\ SyncSpawn THEN <<F("join", d, 0, 0)>> ELSE <<>>
  OBVIOUS
<1>8. PICK bs : bs = IF spawns THEN BodyFrames(d) ELSE <<>>
  OBVIOUS
<1>9. fs \in Seq(Frame) /\ bs \in Seq(Frame) /\ \A i \in DOMAIN fs : fs[i].op = "join"
  <2>1. F("join", d, 0, 0) \in Frame /\ F("join", d, 0, 0).op = "join"
    BY NodesApart DEF F, Frame, CountOps
  <2>2. PICK j : j = F("join", d, 0, 0)
    OBVIOUS
  <2>3. <<j>> \in Seq(Frame) /\ \A i \in DOMAIN <<j>> : <<j>>[i].op = "join"
    BY <2>1, <2>2
  <2>4. fs = <<j>> \/ fs = <<>>
    BY <1>7, <2>2
  <2>5. BodyFrames(d) \in Seq(Frame)
    BY <1>3, BodyIs DEF Core
  <2>6. fs \in Seq(Frame) /\ \A i \in DOMAIN fs : fs[i].op = "join"
    <3>1. CASE fs = <<j>>
      BY <2>3, <3>1
    <3>2. CASE fs = <<>>
      BY <3>2
    <3> QED
      BY <2>4, <3>1, <3>2
  <2>7. bs = <<>> \/ bs = BodyFrames(d)
    BY <1>8
  <2>8. bs \in Seq(Frame)
    <3>1. <<>> \in Seq(Frame)
      BY Short
    <3> QED
      BY <2>5, <2>7, <3>1
  <2> QED
    BY <2>6, <2>8
<1>10. UNCHANGED <<node, head, life, nextWriter, countdown, woken, count, refs, setup, ghost>>
  BY DEF Pre
<1>11. Hands(x, fs, d, bs)
  <2>1. todo[x] \in Seq(Frame) /\ todo \in [Threads -> Seq(Frame)]
    BY DEF Core, TypeOK, FramesFit
  <2>2. CASE spawns
    <3>1. todo' = [todo EXCEPT ![x] = fs \o Tail(@), ![d] = bs]
      BY <1>2, <1>6, <1>7, <1>8, <2>2 DEF Pre
    <3> QED
      BY <1>3, <1>5, <2>1, <3>1 DEF Hands
  <2>3. CASE ~spawns
    <3>1. todo' = [todo EXCEPT ![x] = <<>> \o Tail(@)] /\ fs = <<>> /\ bs = <<>>
      BY <1>2, <1>6, <1>7, <1>8, <2>3 DEF Pre, Then
    <3> QED
      BY <1>3, <1>5, <2>1, <3>1 DEF Hands
  <2> QED
    BY <2>2, <2>3
<1>12. /\ Ahead(x) = {Cur(x)} \cup After(todo[x], 1) /\ Ahead(d) = {}
       /\ Ahead(x)' = {fs[i] : i \in DOMAIN fs} \cup After(todo[x], 1)
       /\ \A y \in Threads : y # x /\ y # d => todo'[y] = todo[y] /\ Ahead(y)' = Ahead(y)
  BY <1>1, <1>3, <1>5, <1>9, <1>11, HandsAhead DEF Core
<1>13. \A y \in Clients : y \in Threads /\ y # d
  BY <1>3, NodesApart
<1>14. Passes(x, Cur(x), NoTask)
  <2>1. \A y \in Threads : \A f \in Ahead(y) : f \in Ahead(y)' \/ (y = x /\ f = Cur(x))
    BY <1>12
  <2>2. \A n \in Nodes : \A a : Listed(n, a) => Listed(n, a)'
    BY <1>10 DEF Listed, Lists
  <2> QED
    BY <1>10, <2>1, <2>2 DEF Passes
<1>15. NoNewArgs
  BY <1>9, <1>10, <1>12, <1>13 DEF NoNewArgs
<1>16. TakesStay
  BY <1>10 DEF TakesStay, Takes, Writer
<1>17. Claims'
  BY <1>1, <1>10, <1>14, <1>15, <1>16, ClaimsQuiet DEF Minding, Attaching, Versions
<1>18. Undisturbed
  <2>1. \A u \in Nodes : \A q \in Slots(u) : Vacant(u, q) => Vacant(u, q)'
    BY <1>10, VacantSame
  <2>2. \A y \in Clients : \A f : f.op \in {"arg", "return"} => (f \in Ahead(y)' <=> f \in Ahead(y))
    BY <1>1, <1>9, <1>12, <1>13
  <2>3. ASSUME NEW y \in Clients, NEW i
        PROVE  ToWrite(y, i)' <=> ToWrite(y, i)
    <3>1. PICK f : f = F("arg", making[y], i, 0)
      OBVIOUS
    <3>2. f \in Ahead(y)' <=> f \in Ahead(y)
      BY <2>2, <3>1 DEF F
    <3>3. Writes(making[y])' = Writes(making[y]) /\ F("arg", making[y], i, 0)' = f
      BY <1>10, <3>1 DEF Writes, F
    <3> QED
      BY <3>1, <3>2, <3>3 DEF ToWrite
  <2> QED
    BY <1>10, <2>1, <2>2, <2>3 DEF Undisturbed
<1>19. Reaching' /\ Currents' /\ Endings' /\ Heads'
  <2>1. \A u : Finished(u)' <=> Finished(u)
    BY <1>10, FinishedSame
  <2>2. Reaching /\ Currents /\ Endings /\ Heads
    BY DEF Versions
  <2> QED
    BY <1>10, <1>18, <2>1, <2>2, RestKept
<1>20. Dates'
  BY <1>10, DatesKept DEF Versions
<1> QED
  BY <1>17, <1>19, <1>20 DEF Versions

(* A client that was at rest waits. *)
LEMMA WaitVarVersions ==
  ASSUME Core, Versions, NEW x \in Clients, NEW v \in Waitable, WaitVar(x, v)
  PROVE  Versions'
<1> USE DEF setup, ghost, engine
<1> DEFINE fs == <<F("wait", v, 0, 0), F("get", v, 0, 0)>>
<1>1. v \in Nodes /\ x \in Threads /\ ~InCall(x)
  BY ConstantsAssumption, NodesApart DEF WaitVar
<1>2. UNCHANGED <<node, engine, setup, ghost>> /\ todo' = [todo EXCEPT ![x] = fs]
  BY DEF WaitVar
<1>3. fs \in Seq(Frame) /\ DOMAIN fs = {1, 2} /\ \A i \in DOMAIN fs : fs[i].op \in {"wait", "get"}
  <2>1. F("wait", v, 0, 0) \in Frame /\ F("get", v, 0, 0) \in Frame
    BY <1>1, NodesApart DEF F, Frame, WaitOps
  <2>2. F("wait", v, 0, 0).op = "wait" /\ F("get", v, 0, 0).op = "get"
    BY DEF F
  <2> QED
    BY <2>1, <2>2, Short
<1> HIDE DEF fs
<1>4. /\ Ahead(x)' = {fs[i] : i \in DOMAIN fs} /\ Ahead(x) = {}
      /\ \A y \in Threads : y # x => todo'[y] = todo[y] /\ Ahead(y)' = Ahead(y)
  BY <1>1, <1>2, <1>3, CallIs, AtRest DEF Core
<1>5. \A y \in Clients : \A f : f.op \in {"arg", "return"} => (f \in Ahead(y)' <=> f \in Ahead(y))
  <2>1. \A f \in Ahead(x)' : f.op \in {"wait", "get"}
    BY <1>3, <1>4
  <2> QED
    BY <1>4, <2>1, NodesApart
<1>6. PICK g : g = F("get", v, 0, 0)
  OBVIOUS
<1>7. g.op \notin Minding
  BY <1>6, FrameFields DEF Minding, Attaching
<1>8. Passes(x, g, NoTask)
  <2>1. \A n \in Nodes : \A a : Listed(n, a) => Listed(n, a)'
    BY <1>2 DEF Listed, Lists
  <2> QED
    BY <1>2, <1>4, <2>1 DEF Passes
<1>9. NoNewArgs
  BY <1>2, <1>5 DEF NoNewArgs
<1>10. TakesStay
  BY <1>2 DEF TakesStay, Takes, Writer
<1>11. Claims'
  BY <1>2, <1>7, <1>8, <1>9, <1>10, ClaimsQuiet DEF Versions
<1>12. Undisturbed
  <2>1. \A u \in Nodes : \A q \in Slots(u) : Vacant(u, q) => Vacant(u, q)'
    BY <1>2, VacantSame
  <2>2. ASSUME NEW y \in Clients, NEW i
        PROVE  ToWrite(y, i)' <=> ToWrite(y, i)
    <3>1. PICK f : f = F("arg", making[y], i, 0)
      OBVIOUS
    <3>2. f \in Ahead(y)' <=> f \in Ahead(y)
      BY <1>5, <3>1 DEF F
    <3>3. Writes(making[y])' = Writes(making[y]) /\ F("arg", making[y], i, 0)' = f
      BY <1>2, <3>1 DEF Writes, F
    <3> QED
      BY <3>1, <3>2, <3>3 DEF ToWrite
  <2> QED
    BY <1>2, <1>5, <2>1, <2>2 DEF Undisturbed
<1>13. Reaching' /\ Currents' /\ Endings' /\ Heads'
  <2>1. \A u : Finished(u)' <=> Finished(u)
    BY <1>2, FinishedSame
  <2>2. Reaching /\ Currents /\ Endings /\ Heads
    BY DEF Versions
  <2> QED
    BY <1>2, <1>12, <2>1, <2>2, RestKept
<1>14. Dates'
  BY <1>2, DatesKept DEF Versions
<1> QED
  BY <1>11, <1>13, <1>14 DEF Versions
(***************************************************************************)
(* The arguments of a call are set up                                      *)
(***************************************************************************)
LEMMA ListedPush ==
  ASSUME TypeOK, NEW m \in Nodes, head[m].tag = "open", NEW a \in Arc, Push(m, a)
  PROVE  /\ Listed(m, a)' /\ \A n \in Nodes : \A b : Listed(n, b) => Listed(n, b)'
<1>1. Lists'[m] = <<a>> \o Lists[m] /\ \A n \in Nodes : n # m => Lists'[n] = Lists[n]
  BY PushLists
<1>2. PICK s \in Seq(Arc) : s = Lists[m]
  BY Families
<1>3. PICK r : r = <<a>> \o s
  OBVIOUS
<1>4. /\ 1 \in DOMAIN r /\ r[1] = a
      /\ \A i \in DOMAIN s : i + 1 \in DOMAIN r /\ r[i + 1] = s[i]
  BY <1>3
<1>5. Listed(m, a)'
  BY <1>1, <1>2, <1>3, <1>4 DEF Listed
<1>6. \A b : Listed(m, b) => Listed(m, b)'
  BY <1>1, <1>2, <1>3, <1>4 DEF Listed
<1>7. \A n \in Nodes : n # m => \A b : Listed(n, b) => Listed(n, b)'
  BY <1>1 DEF Listed
<1> QED
  BY <1>5, <1>6, <1>7

(* Whom a setup frame of x is about finds the slot again. *)
LEMMA RegainsHere ==
  ASSUME Core, NEW x \in Clients, NEW g, g.op \in Attaching, Passes(x, g, NoTask),
         NEW t \in Tasks, making[x] = t,
         NEW n \in Nodes, NEW p \in Port, g.node = n, g.port = p,
         \A v, k : Wants(t, v, k) /\ p \in Slots(n) /\ Names(n, p, v, k) => Has(t, v, k)',
         \A v \in Deferred : Wants(t, v, 1) /\ g = F("link", v, 0, 0) => Has(t, v, 1)'
  PROVE  Regains(x, g, NoTask)
<1>1. ASSUME NEW u \in Tasks, NEW v, NEW k, Wants(u, v, k)
      PROVE  /\ \A m \in Nodes : \A q \in Slots(m) :
                  Names(m, q, v, k) /\ (Goes(x, g, u, m, q) \/ Left(NoTask, u, m, q)) => Has(u, v, k)'
             /\ v \in Deferred /\ k = 1 /\ Parked(u, v) => Has(u, v, k)'
  <2>1. ASSUME NEW m \in Nodes, NEW q \in Slots(m), Names(m, q, v, k), Goes(x, g, u, m, q) \/ Left(NoTask, u, m, q)
        PROVE  Has(u, v, k)'
    <3>1. g # F("move", u, q, 0) /\ g # F("flow", u, q, 0)
      BY FrameFields DEF Attaching
    <3>2. u = t /\ m = n /\ q = p
      BY <2>1, <3>1, NoTaskIs, NodesApart DEF Goes, Left
    <3> QED
      BY <1>1, <2>1, <3>2
  <2>2. ASSUME v \in Deferred, k = 1, Parked(u, v)
        PROVE  Has(u, v, k)'
    <3>1. v \in Nodes /\ v # NoTask
      BY <2>2, NoTaskIs, ConstantsAssumption DEF Nodes
    <3>2. Parked(u, v)' \/ (making[x] = u /\ g = F("link", v, 0, 0))
      BY <2>2, <3>1, ParkedOr
    <3>3. CASE Parked(u, v)'
      BY <2>2, <3>3 DEF Has
    <3>4. CASE making[x] = u /\ g = F("link", v, 0, 0)
      BY <1>1, <2>2, <3>4
    <3> QED
      BY <3>2, <3>3, <3>4
  <2> QED
    BY <2>1, <2>2
<1> QED
  BY <1>1 DEF Regains

(* One goes on setting up. *)
LEMMA SetupVersions ==
  ASSUME Core, Versions, NEW x \in Clients, todo[x] # <<>>, NEW fs \in Seq(Frame), Then(x, fs),
         Cur(x).op \notin {"arg", "return"}, \A i \in DOMAIN fs : fs[i].op \notin {"arg", "return"},
         UNCHANGED <<node, nextWriter, var, args, making, ghost>>,
         \A n \in Nodes : \A a : Listed(n, a) => Listed(n, a)',
         \A n \in Nodes : head'[n] = head[n] \/ (head[n].tag = "open" /\ head'[n].tag = "open"),
         Regains(x, Cur(x), NoTask)
  PROVE  Versions'
<1> USE DEF ghost
<1>1. x \in Threads
  BY NodesApart
<1>2. TakesStay
  BY DEF TakesStay, Takes, Writer
<1>3. Claims'
  BY <1>1, <1>2, ClaimsThen DEF Versions
<1>4. Undisturbed
  <2>1. \A n \in Nodes : \A p \in Slots(n) : Vacant(n, p) => Vacant(n, p)'
    BY VacantSame
  <2> QED
    BY <1>1, <2>1, UndisturbedThen
<1>5. Reaching' /\ Currents' /\ Endings' /\ Heads'
  <2>1. \A u : Finished(u)' <=> Finished(u)
    BY FinishedSame
  <2>2. Reaching /\ Currents /\ Endings /\ Heads
    BY DEF Versions
  <2> QED
    BY <1>4, <2>1, <2>2, RestKept
<1>6. Dates'
  BY DatesKept DEF Versions
<1> QED
  BY <1>3, <1>5, <1>6 DEF Versions

(* It goes on with the frame g, for the same slot or where the list leads. *)
LEMMA OnwardVersions ==
  ASSUME Core, Versions, NEW x \in Clients, todo[x] # <<>>, NEW g \in Frame, Then(x, <<g>>),
         Cur(x).op \in Attaching, g.op \in Attaching,
         UNCHANGED <<node, head, nextWriter, var, args, making, ghost>>,
         \/ /\ g.node = Cur(x).node /\ g.port = Cur(x).port
            /\ \A v \in Deferred : Cur(x) # F("link", v, 0, 0)
         \/ /\ Cur(x).node \in Deferred /\ g.node \in Nodes /\ g.port \in Slots(g.node)
            /\ Names(g.node, g.port, Cur(x).node, 1)
  PROVE  Versions'
<1> USE DEF ghost
<1>1. x \in Threads /\ Attaching \subseteq Calling
  BY NodesApart DEF Attaching, Calling, Asking
<1>2. PICK t \in Tasks : t = making[x]
  BY <1>1, CallTop DEF At, Cur
<1>3. Cur(x).node \in Nodes /\ Cur(x).port \in Port
  BY <1>1, CallTop DEF At, Cur
<1>4. PICK n \in Nodes, p \in Port : n = Cur(x).node /\ p = Cur(x).port
  BY <1>3
<1>5. PICK fs : fs = <<g>>
  OBVIOUS
<1>6. fs \in Seq(Frame) /\ Then(x, fs) /\ DOMAIN fs = {1} /\ fs[1] = g /\ \A i \in DOMAIN fs : fs[i] = g
  BY <1>5, OneIs
<1>7. \A m \in Nodes : \A a : Listed(m, a) => Listed(m, a)'
  BY DEF Listed, Lists
<1>8. Passes(x, Cur(x), NoTask)
  BY <1>1, <1>6, <1>7, PassesThen DEF Core
<1>9. Hangs(t, g.node, g.port)'
  <2>1. Ahead(x)' = {fs[i] : i \in DOMAIN fs} \cup After(todo[x], 1)
    BY <1>1, <1>6, AheadThen DEF Core
  <2>2. g \in Ahead(x)'
    BY <1>6, <2>1
  <2>3. Attaches(t, g.node, g.port)'
    BY <1>2, <2>2 DEF Attaches
  <2> QED
    BY <2>3 DEF Hangs
<1>10. Naming
  BY NamingSame
<1>11. Regains(x, Cur(x), NoTask)
  <2>1. CASE g.node = Cur(x).node /\ g.port = Cur(x).port /\ \A v \in Deferred : Cur(x) # F("link", v, 0, 0)
    <3>1. ASSUME NEW v, NEW k, p \in Slots(n), Names(n, p, v, k)
          PROVE  Has(t, v, k)'
      BY <1>4, <1>9, <1>10, <2>1, <3>1, HasIf DEF Core
    <3> QED
      BY <1>2, <1>4, <1>8, <2>1, <3>1, RegainsHere
  <2>2. CASE /\ Cur(x).node \in Deferred /\ g.node \in Nodes /\ g.port \in Slots(g.node)
             /\ Names(g.node, g.port, Cur(x).node, 1)
    <3>1. Has(t, n, 1)'
      BY <1>4, <1>9, <1>10, <2>2, HasIf DEF Core
    <3>2. n \in Deferred /\ n \in Storage /\ n \notin Tasks
      BY <1>4, <2>2, ConstantsAssumption
    <3>3. ASSUME NEW v, NEW k, Wants(t, v, k), p \in Slots(n), Names(n, p, v, k)
          PROVE  FALSE
      <4>1. v = n /\ k = 0
        BY <3>2, <3>3 DEF Names, One, Slots
      <4>2. PICK i \in DOMAIN args[t] \ Writes(t) : v = args[t][i].v /\ k = want[t][i]
        BY <3>3 DEF Wants
      <4>3. Dated(t, i)
        BY <4>2 DEF Versions, Dates
      <4>4. want[t][i] >= 1
        BY <3>2, <4>1, <4>2, <4>3 DEF Dated
      <4> QED
        BY <4>1, <4>2, <4>4
    <3>4. ASSUME NEW v \in Deferred, Cur(x) = F("link", v, 0, 0)
          PROVE  Has(t, v, 1)'
      <4>1. v = n
        BY <1>4, <3>4, FrameFields
      <4> QED
        BY <3>1, <4>1
    <3> QED
      BY <1>2, <1>4, <1>8, <3>3, <3>4, RegainsHere
  <2> QED
    BY <2>1, <2>2
<1>12. Cur(x).op \notin {"arg", "return"} /\ \A i \in DOMAIN fs : fs[i].op \notin {"arg", "return"}
  BY <1>6 DEF Attaching
<1> QED
  BY <1>6, <1>7, <1>11, <1>12, SetupVersions

(* It hangs an arc where its task was to hang. *)
LEMMA HungVersions ==
  ASSUME Core, Versions, NEW x \in Clients, todo[x] # <<>>, Then(x, <<>>),
         Cur(x).op \in Attaching, NEW m \in Nodes, head[m].tag = "open", NEW a \in Arc, Push(m, a),
         UNCHANGED <<node, nextWriter, var, args, making, ghost>>,
         \/ m = Cur(x).node /\ a = FlowBack(making[x], Cur(x).port)
         \/ m = making[x] /\ a = BackOnly(Cur(x).node, Cur(x).port) /\ Cur(x).op = "hold"
  PROVE  Versions'
<1> USE DEF ghost
<1>1. x \in Threads /\ Attaching \subseteq Calling
  BY NodesApart DEF Attaching, Calling, Asking
<1>2. PICK t \in Tasks : t = making[x]
  BY <1>1, CallTop DEF At, Cur
<1>3. Cur(x).node \in Nodes /\ Cur(x).port \in Port
  BY <1>1, CallTop DEF At, Cur
<1>4. PICK n \in Nodes, p \in Port : n = Cur(x).node /\ p = Cur(x).port
  BY <1>3
<1>5. PICK fs : fs = <<>>
  OBVIOUS
<1>6. fs \in Seq(Frame) /\ Then(x, fs) /\ DOMAIN fs = {}
  BY <1>5
<1>7. Listed(m, a)' /\ \A b \in Nodes : \A e : Listed(b, e) => Listed(b, e)'
  BY ListedPush DEF Core
<1>8. Passes(x, Cur(x), NoTask)
  BY <1>1, <1>6, <1>7, PassesThen DEF Core
<1>9. FlowBack(t, p)' = FlowBack(t, p) /\ BackOnly(n, p)' = BackOnly(n, p)
  BY DEF FlowBack, BackOnly
<1>10. Hangs(t, n, p)'
  <2>1. CASE m = n /\ a = FlowBack(t, p)
    BY <1>7, <1>9, <2>1 DEF Hangs
  <2>2. CASE m = t /\ a = BackOnly(n, p)
    BY <1>7, <1>9, <2>2 DEF Hangs
  <2> QED
    BY <1>2, <1>4, <2>1, <2>2
<1>11. Naming
  BY NamingSame
<1>12. Regains(x, Cur(x), NoTask)
  <2>1. ASSUME NEW v, NEW k, p \in Slots(n), Names(n, p, v, k)
        PROVE  Has(t, v, k)'
    BY <1>10, <1>11, <2>1, HasIf DEF Core
  <2>2. ASSUME NEW v \in Deferred, Cur(x) = F("link", v, 0, 0)
        PROVE  Has(t, v, 1)'
    <3>1. v = n /\ p = 0 /\ Cur(x).op = "link"
      BY <1>4, <2>2, FrameFields
    <3>2. Listed(v, FlowBack(t, 0))'
      BY <1>2, <1>4, <1>7, <1>9, <3>1
    <3> QED
      BY <3>2 DEF Has, Parked
  <2> QED
    BY <1>2, <1>4, <1>8, <2>1, <2>2, RegainsHere
<1>13. Cur(x).op \notin {"arg", "return"} /\ \A i \in DOMAIN fs : fs[i].op \notin {"arg", "return"}
  BY <1>6 DEF Attaching
<1>14. \A u \in Nodes : head'[u] = head[u] \/ (head[u].tag = "open" /\ head'[u].tag = "open")
  BY PushLists DEF Core
<1> QED
  BY <1>6, <1>7, <1>12, <1>13, <1>14, SetupVersions
LEMMA LinkVersions ==
  ASSUME Core, Versions, NEW x \in Clients, Link(x)
  PROVE  Versions'
<1> USE DEF setup, engine
<1>1. At(x, "link") /\ x \in Threads /\ todo[x] # <<>> /\ Cur(x).op = "link" /\ Cur(x).node \in Nodes /\ Cur(x).port \in Port
  BY AtTop, NodesApart DEF Link, Core
<1>2. PICK n \in Nodes, p \in Port : n = Cur(x).node /\ p = Cur(x).port
  BY <1>1
<1>3. UNCHANGED <<node, nextWriter, var, args, making, ghost>>
  BY DEF Link
<1>4. Cur(x).op \in Attaching /\ making[x] \in Tasks
  BY <1>1, CallTop DEF Attaching, Calling, Asking
<1>5. CASE AddArc(x, n, p)
  <2>1. PICK a : a = FlowBack(making[x], p)
    OBVIOUS
  <2>2. a \in Arc /\ head[n].tag = "open" /\ Push(n, a) /\ Then(x, <<>>)
    BY <1>4, <1>5, <2>1, ArcTypes, NodesApart DEF AddArc
  <2> QED
    BY <1>1, <1>2, <1>3, <1>4, <2>1, <2>2, HungVersions
<1>6. CASE /\ head[n].tag = "redirect"
           /\ Then(x, <<F("hop", head[n].arcs[1].node, head[n].arcs[1].port, 0)>>)
           /\ UNCHANGED <<head, owed>>
  <2>1. PICK m, q : m = head[n].arcs[1].node /\ q = head[n].arcs[1].port
    OBVIOUS
  <2>2. /\ n \in Deferred
        /\ \E t \in Tasks : \E i \in Writes(t) : args[t][i].v = n /\ head[n] = Redirect(t, PortOf(t, i))
    BY <1>6, Redirects DEF Core
  <2>3. PICK t \in Tasks : \E i \in Writes(t) : args[t][i].v = n /\ head[n] = Redirect(t, PortOf(t, i))
    BY <2>2
  <2>4. PICK i \in Writes(t) : head[n] = Redirect(t, PortOf(t, i))
    BY <2>3
  <2>5. m = t /\ q = PortOf(t, i) /\ q \in Port /\ m \in Nodes /\ q \in Slots(m)
    BY <2>1, <2>4, RedirectIs, PortsApart, NodesApart DEF Core
  <2>6. Names(m, q, n, 1)
    BY <1>6, <2>1, <2>2 DEF Versions, Heads, Leading
  <2>7. PICK g : g = F("hop", m, q, 0)
    OBVIOUS
  <2>8. g \in Frame /\ g.op = "hop" /\ g.node = m /\ g.port = q
    BY <2>5, <2>7 DEF F, Frame, SetupOps
  <2>9. Then(x, <<g>>) /\ head' = head
    BY <1>6, <2>1, <2>7
  <2>10. g.op \in Attaching
    BY <2>8 DEF Attaching
  <2> QED
    BY <1>1, <1>2, <1>3, <1>4, <2>2, <2>5, <2>6, <2>8, <2>9, <2>10, OnwardVersions
<1>7. CASE /\ head[n].tag = "done" /\ Then(x, LateFrames(n, p)) /\ UNCHANGED <<head, owed>>
  <2>1. PICK g : g = F("late", n, p, 0)
    OBVIOUS
  <2>2. g \in Frame /\ g.op = "late" /\ g.node = n /\ g.port = p
    BY <2>1 DEF F, Frame, SetupOps
  <2>3. Then(x, <<g>>) /\ head' = head
    BY <1>7, <2>1 DEF LateFrames
  <2>4. ASSUME NEW v \in Deferred, Cur(x) = F("link", v, 0, 0)
        PROVE  FALSE
    <3>1. v = n /\ v \in Storage
      BY <1>2, <2>4, FrameFields, ConstantsAssumption
    <3>2. head[v].tag = "open" \/ Redirected(v)
      BY <2>4, <3>1 DEF Core, Stores, Stored
    <3>3. Redirected(v) => head[v].tag = "redirect"
      BY RedirectIs DEF Redirected
    <3> QED
      BY <1>7, <3>1, <3>2, <3>3
  <2>5. g.op \in Attaching
    BY <2>2 DEF Attaching
  <2> QED
    BY <1>1, <1>2, <1>3, <1>4, <2>2, <2>3, <2>4, <2>5, OnwardVersions
<1> QED
  BY <1>2, <1>5, <1>6, <1>7 DEF Link

LEMMA HopVersions ==
  ASSUME Core, Versions, NEW x \in Clients, Hop(x)
  PROVE  Versions'
<1> USE DEF setup, engine
<1>1. At(x, "hop") /\ x \in Threads /\ todo[x] # <<>> /\ Cur(x).op = "hop" /\ Cur(x).node \in Nodes /\ Cur(x).port \in Port
  BY AtTop, NodesApart DEF Hop, Core
<1>2. PICK n \in Nodes, p \in Port : n = Cur(x).node /\ p = Cur(x).port
  BY <1>1
<1>3. UNCHANGED <<node, nextWriter, var, args, making, ghost>>
  BY DEF Hop
<1>4. Cur(x).op \in Attaching /\ making[x] \in Tasks
  BY <1>1, CallTop DEF Attaching, Calling, Asking
<1>5. CASE AddArc(x, n, p)
  <2>1. PICK a : a = FlowBack(making[x], p)
    OBVIOUS
  <2>2. a \in Arc /\ head[n].tag = "open" /\ Push(n, a) /\ Then(x, <<>>)
    BY <1>4, <1>5, <2>1, ArcTypes, NodesApart DEF AddArc
  <2> QED
    BY <1>1, <1>2, <1>3, <1>4, <2>1, <2>2, HungVersions
<1>6. CASE Then(x, LateFrames(n, p)) /\ UNCHANGED <<head, owed>>
  <2>1. PICK g : g = F("late", n, p, 0)
    OBVIOUS
  <2>2. g \in Frame /\ g.op = "late" /\ g.node = n /\ g.port = p
    BY <2>1 DEF F, Frame, SetupOps
  <2>3. Then(x, <<g>>) /\ head' = head
    BY <1>6, <2>1 DEF LateFrames
  <2>4. \A v \in Deferred : Cur(x) # F("link", v, 0, 0)
    BY <1>1, FrameFields
  <2>5. g.op \in Attaching
    BY <2>2 DEF Attaching
  <2> QED
    BY <1>1, <1>2, <1>3, <1>4, <2>2, <2>3, <2>4, <2>5, OnwardVersions
<1> QED
  BY <1>2, <1>5, <1>6 DEF Hop

LEMMA LateVersions ==
  ASSUME Core, Versions, NEW x \in Clients, Late(x)
  PROVE  Versions'
<1> USE DEF setup, engine
<1>1. x \in Threads /\ todo[x] # <<>> /\ Cur(x).op = "late" /\ Cur(x).node \in Nodes /\ Cur(x).port \in Port
  BY AtTop, NodesApart DEF Late, Core
<1>2. UNCHANGED <<node, head, nextWriter, var, args, making, ghost>>
  BY DEF Late
<1>3. PICK g : g = F("hold", Cur(x).node, Cur(x).port, 0)
  OBVIOUS
<1>4. g \in Frame /\ g.op = "hold" /\ g.node = Cur(x).node /\ g.port = Cur(x).port
  BY <1>1, <1>3 DEF F, Frame, SetupOps
<1>5. Then(x, <<g>>)
  BY <1>3 DEF Late
<1>6. \A v \in Deferred : Cur(x) # F("link", v, 0, 0)
  BY <1>1, FrameFields
<1>7. Cur(x).op \in Attaching /\ g.op \in Attaching
  BY <1>1, <1>4 DEF Attaching
<1> QED
  BY <1>1, <1>2, <1>4, <1>5, <1>6, <1>7, OnwardVersions

LEMMA HoldVersions ==
  ASSUME Core, Versions, NEW x \in Clients, Hold(x)
  PROVE  Versions'
<1> USE DEF setup, engine
<1>1. At(x, "hold") /\ x \in Threads /\ todo[x] # <<>> /\ Cur(x).op = "hold" /\ Cur(x).node \in Nodes /\ Cur(x).port \in Port
  BY AtTop, NodesApart DEF Hold, Core
<1>2. UNCHANGED <<node, nextWriter, var, args, making, ghost>> /\ Then(x, <<>>)
  BY DEF Hold
<1>3. PICK m \in Nodes : m = making[x] /\ head[m].tag = "open"
  BY <1>1, CallTop DEF Calling
<1>4. PICK a : a = BackOnly(Cur(x).node, Cur(x).port)
  OBVIOUS
<1>5. a \in Arc /\ Push(m, a)
  BY <1>1, <1>3, <1>4, ArcTypes DEF Hold
<1>6. Cur(x).op \in Attaching
  BY <1>1 DEF Attaching
<1> QED
  BY <1>1, <1>2, <1>3, <1>4, <1>5, <1>6, HungVersions

LEMMA MoveVersions ==
  ASSUME Core, Versions, NEW x \in Clients, Move(x)
  PROVE  Versions'
<1> USE DEF setup, engine, ghost
<1>1. At(x, "move") /\ x \in Threads /\ todo[x] # <<>> /\ Cur(x).op = "move" /\ Cur(x).node \in Nodes /\ Cur(x).port \in Port
  BY AtTop, NodesApart DEF Move, Core
<1>2. UNCHANGED <<node, nextWriter, var, args, making, ghost>> /\ Then(x, <<>>)
  BY DEF Move
<1>3. PICK m \in Tasks : m = making[x] /\ head[m].tag = "open" /\ m \in Nodes
  BY <1>1, CallTop DEF Calling, Asking
<1>4. PICK c, p : c = Cur(x).node /\ p = Cur(x).port
  OBVIOUS
<1>5. PICK a : a = FlowBack(c, p)
  OBVIOUS
<1>6. a \in Arc /\ Push(m, a)
  BY <1>1, <1>3, <1>4, <1>5, ArcTypes DEF Move
<1>7. Listed(m, a)' /\ \A b \in Nodes : \A e : Listed(b, e) => Listed(b, e)'
  BY <1>3, <1>6, ListedPush DEF Core
<1>8. PICK fs : fs = <<>>
  OBVIOUS
<1>9. fs \in Seq(Frame) /\ Then(x, fs) /\ DOMAIN fs = {}
  BY <1>2, <1>8
<1>10. Passes(x, Cur(x), NoTask)
  BY <1>1, <1>2, <1>7, <1>9, PassesThen DEF Core
<1>11. Naming
  BY <1>2, NamingSame
<1>12. Regains(x, Cur(x), NoTask)
  <2>1. ASSUME NEW u \in Tasks, NEW v, NEW k, Wants(u, v, k)
        PROVE  /\ \A n \in Nodes : \A q \in Slots(n) :
                    Names(n, q, v, k) /\ (Goes(x, Cur(x), u, n, q) \/ Left(NoTask, u, n, q)) => Has(u, v, k)'
               /\ v \in Deferred /\ k = 1 /\ Parked(u, v) => Has(u, v, k)'
    <3>1. ASSUME NEW n \in Nodes, NEW q \in Slots(n), Names(n, q, v, k),
                 Goes(x, Cur(x), u, n, q) \/ Left(NoTask, u, n, q)
          PROVE  Has(u, v, k)'
      <4>1. Cur(x) # F("flow", u, q, 0) /\ Cur(x).op \notin Attaching
        BY <1>1, FrameFields DEF Attaching
      <4>2. making[x] = n /\ Cur(x) = F("move", u, q, 0)
        BY <3>1, <4>1, NoTaskIs, NodesApart DEF Goes, Left
      <4>3. n = m /\ c = u /\ p = q
        BY <1>3, <1>4, <4>2, FrameFields
      <4>4. a = FlowBack(u, q) /\ FlowBack(u, q)' = FlowBack(u, q)
        BY <1>5, <4>3 DEF FlowBack
      <4>5. Hangs(u, n, q)'
        BY <1>7, <4>3, <4>4 DEF Hangs
      <4> QED
        BY <1>11, <3>1, <4>5, HasIf DEF Core
    <3>2. ASSUME v \in Deferred, k = 1, Parked(u, v)
          PROVE  Has(u, v, k)'
      <4>1. v \in Nodes /\ v # NoTask
        BY <3>2, NoTaskIs, ConstantsAssumption DEF Nodes
      <4>2. Cur(x) # F("link", v, 0, 0)
        BY <1>1, FrameFields
      <4>3. Parked(u, v)'
        BY <1>10, <3>2, <4>1, <4>2, ParkedOr
      <4> QED
        BY <3>2, <4>3 DEF Has
    <3> QED
      BY <3>1, <3>2
  <2> QED
    BY <2>1 DEF Regains
<1>13. \A u \in Nodes : head'[u] = head[u] \/ (head[u].tag = "open" /\ head'[u].tag = "open")
  BY <1>3, <1>6, PushLists DEF Core
<1> QED
  BY <1>1, <1>2, <1>7, <1>9, <1>12, <1>13, SetupVersions

(* A reading argument: where a client finds the version it wants. *)
LEMMA ArgSlot ==
  ASSUME Core, Versions, NEW x \in Clients, InRun(x), NEW i \in DOMAIN args[making[x]],
         i \notin Writes(making[x])
  PROVE  LET v == args[making[x]][i].v
             k == want[making[x]][i] IN
         /\ v \in Nodes /\ InUse(v)
         /\ \/ Names(var[v].cur, var[v].port, v, k)
            \/ v \in Deferred /\ k = 1 /\ var[v].cur = v /\ var[v].port = 0
<1>1. PICK t \in Tasks : t = making[x]
  BY DEF Core, Callers, Called
<1>2. PICK v, k : v = args[t][i].v /\ k = want[t][i]
  OBVIOUS
<1>3. v \in Nodes /\ var[v].live /\ InUse(v) /\ Reads(x, v)
  BY <1>1, <1>2, ArgumentOf DEF Core
<1>4. k = last[v] \/ (v \in Deferred /\ k = 1 /\ last[v] = 0)
  BY <1>1, <1>2 DEF Versions, Reaching, UpToDate
<1>5. CASE v \in Deferred /\ k = 1 /\ last[v] = 0
  <2>1. SlotOf(v) = <<v, 0>>
    BY <1>3, <1>5 DEF Core, Firsts, Put
  <2> QED
    BY <1>1, <1>2, <1>3, <1>5, <2>1 DEF SlotOf
<1>6. CASE k = last[v] /\ ~Opening(v)
  <2>1. last[v] \in Nat
    BY <1>3 DEF Core, TypeOK
  <2>2. Newest(v) = k
    BY <1>6, <2>1 DEF Newest, One
  <2>3. Names(var[v].cur, var[v].port, v, k)
    BY <1>3, <2>2 DEF Versions, Currents, Current
  <2> QED
    BY <1>1, <1>2, <1>3, <2>3
<1>7. CASE k = last[v] /\ Opening(v)
  <2>1. PICK y \in Clients : \E j \in Writes(making[y]) :
           /\ making[y] \in Tasks /\ ToWrite(y, j) /\ args[making[y]][j].v = v
           /\ InRun(y) /\ Modifies(y, v) /\ phase[making[y]] = "pending" /\ head[making[y]].tag = "open"
           /\ Writing(y, j)
    BY <1>3, <1>7, OpeningIs DEF Core
  <2>2. PICK j \in Writes(making[y]) :
           /\ making[y] \in Tasks /\ ToWrite(y, j) /\ args[making[y]][j].v = v
           /\ InRun(y) /\ Modifies(y, v) /\ Writing(y, j)
    BY <2>1
  <2>3. y # x
    <3>1. ASSUME y = x
          PROVE  FALSE
      <4>1. j \in DOMAIN args[t] /\ args[t][j].w /\ args[t][j].v = args[t][i].v /\ j # i
        BY <1>1, <1>2, <2>2, <3>1 DEF Writes
      <4>2. Apart(t)
        BY DEF Core, Distinct
      <4> QED
        BY <1>1, <4>1, <4>2 DEF Apart
    <3> QED
      BY <3>1
  <2>4. v \in Deferred /\ last[v] <= 1 /\ last[v] >= 1 /\ last[v] \in Nat
    <3>1. Called(y)
      BY DEF Core, Callers
    <3>2. last[v] \in Nat
      BY <1>3 DEF Core, TypeOK
    <3> QED
      BY <1>3, <2>2, <2>3, <3>1, <3>2 DEF Called
  <2>5. var[v].cur = v
    <3>1. var[v].cur \in {v, making[y]}
      BY <1>3, <2>2, <2>4 DEF Core, Firsts, Put
    <3>2. var[v].cur # making[y]
      BY <2>2 DEF Writing
    <3> QED
      BY <3>1, <3>2
  <2>6. var[v].port = 0
    <3>1. v \notin Tasks
      BY <2>4, ConstantsAssumption
    <3>2. var[v].port \in Slots(v)
      BY <1>3, <2>5, SlotIs DEF Core
    <3> QED
      BY <3>1, <3>2 DEF Slots
  <2>7. k = 1
    BY <1>7, <2>4
  <2> QED
    BY <1>1, <1>2, <1>3, <2>4, <2>5, <2>6, <2>7
<1> QED
  BY <1>4, <1>5, <1>6, <1>7

LEMMA ReadArgVersions ==
  ASSUME Core, Versions, NEW x \in Clients, ReadArg(x)
  PROVE  Versions'
<1> USE DEF setup, engine, ghost
<1>1. /\ At(x, "arg") /\ x \in Threads /\ todo[x] # <<>> /\ Cur(x).op = "arg" /\ InRun(x) /\ Lies(x, todo[x], 1)
      /\ todo[x][1] = Cur(x)
  BY CallTop, AtArg DEF Calling, Asking
<1>2. PICK t \in Tasks : \E j : t = making[x] /\ j = Cur(x).port
  BY <1>1, CallTop DEF Calling, Asking
<1>3. PICK i : t = making[x] /\ i = Cur(x).port
  BY <1>2
<1>4. i \in DOMAIN args[t] /\ ~args[t][i].w /\ i \notin Writes(t)
  <2>1. i \in DOMAIN args[t]
    BY <1>1, <1>3, InSetup DEF Core, SetupOps
  <2> QED
    BY <1>3, <2>1, ReadArgSays DEF Writes
<1>5. PICK v, k : v = args[t][i].v /\ k = want[t][i]
  OBVIOUS
<1>6. /\ v \in Nodes /\ InUse(v)
      /\ \/ Names(var[v].cur, var[v].port, v, k)
         \/ v \in Deferred /\ k = 1 /\ var[v].cur = v /\ var[v].port = 0
  BY <1>1, <1>3, <1>4, <1>5, ArgSlot
<1>7. PICK n \in Nodes, p \in Port : n = var[v].cur /\ p = var[v].port /\ p \in Slots(n)
  BY <1>6, SlotIs DEF Core
<1>8. PICK g : g = F("link", n, p, 0)
  OBVIOUS
<1>9. g \in Frame /\ g.op = "link" /\ g.node = n /\ g.port = p
  BY <1>7, <1>8 DEF F, Frame, SetupOps
<1>10. PICK fs : fs = <<g>>
  BY Zenon
<1>11. fs \in Seq(Frame) /\ DOMAIN fs = {1} /\ fs[1] = g /\ \A j \in DOMAIN fs : fs[j] = g
  BY <1>9, <1>10, OneIs
<1>12. Then(x, fs) /\ UNCHANGED <<node, engine, setup, ghost>>
  BY Zenon, <1>3, <1>5, <1>7, <1>8, <1>10, ReadArgSays
<1>13. /\ Ahead(x) = {Cur(x)} \cup After(todo[x], 1)
       /\ Ahead(x)' = {fs[j] : j \in DOMAIN fs} \cup After(todo[x], 1)
       /\ \A y \in Threads : y # x => todo'[y] = todo[y] /\ Ahead(y)' = Ahead(y)
  BY <1>1, <1>11, <1>12, AheadThen DEF Core
<1>14. g \in Ahead(x)'
  BY <1>11, <1>13
<1>15. /\ \A f : f \in Ahead(x)' => f = g \/ f \in After(todo[x], 1)
       /\ \A f : f \in Ahead(x) => f = Cur(x) \/ f \in After(todo[x], 1)
       /\ \A f : f \in After(todo[x], 1) => f \in Ahead(x) /\ f \in Ahead(x)'
  BY <1>11, <1>13
<1>16. Passes(x, Cur(x), NoTask)
  <2>1. \A m \in Nodes : \A a : Listed(m, a) => Listed(m, a)'
    BY <1>12 DEF Listed, Lists
  <2> QED
    BY <1>1, <1>11, <1>12, <2>1, PassesThen DEF Core
<1>17. NoNewArgs
  <2>1. \A j \in DOMAIN fs : fs[j].op # "arg"
    BY <1>9, <1>11
  <2> QED
    BY <1>1, <1>11, <1>12, <2>1, NoNewThen DEF Core
<1>18. Naming
  BY <1>12, NamingSame
<1>19. Regains(x, Cur(x), NoTask)
  BY <1>1, <1>16, LosesNothing DEF Attaching
<1>20. Has(t, v, k)'
  <2>1. CASE Names(n, p, v, k)
    <3>1. Attaches(t, n, p)'
      BY <1>3, <1>9, <1>12, <1>14 DEF Attaches, Attaching
    <3>2. Hangs(t, n, p)'
      BY <3>1 DEF Hangs
    <3> QED
      BY <1>7, <1>18, <2>1, <3>2, HasIf DEF Core
  <2>2. CASE v \in Deferred /\ k = 1 /\ n = v /\ p = 0
    <3>1. F("link", v, 0, 0)' = g
      BY <1>8, <2>2 DEF F
    <3>2. Parked(t, v)'
      BY <1>3, <1>12, <1>14, <3>1 DEF Parked
    <3> QED
      BY <2>2, <3>2 DEF Has
  <2> QED
    BY <1>6, <1>7, <2>1, <2>2
<1>21. ASSUME NEW u \in Tasks, NEW j, ToCome(u, j), ~ToCome(u, j)'
       PROVE  u = t /\ j = i
  <2>1. making[x] = u /\ Cur(x) = F("arg", u, j, 0)
    BY <1>16, <1>21, ToComeOr
  <2> QED
    BY <1>3, <2>1, FrameFields
<1>22. Claims'
  <2>1. ASSUME NEW u \in Tasks, NEW j \in Writes(u)
        PROVE  WritesOver(u, j)'
    <3>1. ToCome(u, j)' <=> ToCome(u, j)
      BY <1>4, <1>17, <1>21, ToComeBack
    <3>2. TakesStay
      BY <1>12 DEF TakesStay, Takes, Writer
    <3> QED
      BY <1>12, <1>18, <3>1, <3>2, WritesKept DEF Versions
  <2>2. Has(t, args[t][i].v, want[t][i])'
    <3>1. args'[t][i].v = v /\ want'[t][i] = k
      BY <1>5, <1>12
    <3> QED
      BY <1>20, <3>1 DEF Has, Awaits, Names, Parked, Listed, FlowBack, F, Hangs, Attaches, Moved, Turned, BackOnly
  <2>3. Follows
    BY <1>21, <2>2 DEF Follows
  <2> QED
    BY <1>12, <1>16, <1>18, <1>19, <2>1, <2>3, ClaimsKept DEF Versions
<1>23. Undisturbed
  <2>1. \A m \in Nodes : \A q \in Slots(m) : Vacant(m, q) => Vacant(m, q)'
    BY <1>12, VacantSame
  <2>2. \A y \in Clients : \A f : f.op = "return" => (f \in Ahead(y)' <=> f \in Ahead(y))
    <3>1. \A f : f.op = "return" => (f \in Ahead(x)' <=> f \in Ahead(x))
      BY <1>1, <1>9, <1>15
    <3> QED
      BY <1>13, <3>1, NodesApart
  <2>3. ASSUME NEW y \in Clients, NEW j
        PROVE  ToWrite(y, j)' <=> ToWrite(y, j)
    <3>1. PICK f : f = F("arg", making[y], j, 0)
      OBVIOUS
    <3>2. F("arg", making[y], j, 0)' = f /\ Writes(making[y])' = Writes(making[y])
      BY <1>12, <3>1 DEF F, Writes
    <3>3. f.op = "arg" /\ f.port = j
      BY <3>1 DEF F
    <3>4. CASE y # x
      BY <1>12, <1>13, <3>1, <3>2, <3>4, NodesApart DEF ToWrite
    <3>5. CASE y = x
      <4>1. j \in Writes(making[x]) => f # Cur(x)
        BY <1>3, <1>4, <3>3
      <4>2. f # g
        BY <1>9, <3>3
      <4>3. j \in Writes(making[x]) => (f \in Ahead(x)' <=> f \in Ahead(x))
        BY <1>15, <4>1, <4>2
      <4> QED
        BY <1>12, <3>1, <3>2, <3>5, <4>3 DEF ToWrite
    <3> QED
      BY <3>4, <3>5
  <2> QED
    BY <1>12, <2>1, <2>2, <2>3 DEF Undisturbed
<1>24. Reaching' /\ Currents' /\ Endings' /\ Heads'
  <2>1. \A u : Finished(u)' <=> Finished(u)
    BY <1>12, FinishedSame
  <2>2. Reaching /\ Currents /\ Endings /\ Heads
    BY DEF Versions
  <2> QED
    BY <1>12, <1>23, <2>1, <2>2, RestKept
<1>25. Dates'
  BY <1>12, DatesKept DEF Versions
<1> QED
  BY <1>22, <1>24, <1>25 DEF Versions

(***************************************************************************)
(* A finished task tells its consumers                                     *)
(***************************************************************************)
LEMMA FlowVersions ==
  ASSUME Core, Versions, NEW t \in Tasks, Flow(t)
  PROVE  Versions'
<1> USE DEF setup, ghost
<1>0. TypeOK /\ Claims /\ Dates /\ Reaching /\ Currents /\ Endings /\ Heads
  BY DEF Core, Versions
<1>1. /\ t \in Threads /\ t \in Nodes /\ t \notin Clients /\ todo[t] # <<>> /\ Cur(t).op = "flow" /\ Cur(t) \in Ahead(t)
      /\ Cur(t) \in Frame /\ Fits(Cur(t)) /\ Lies(t, todo[t], 1) /\ todo[t][1] = Cur(t) /\ 1 \in DOMAIN todo[t]
  BY AtTop, TopLies, NodesApart DEF Flow, Core
<1>2. PICK c \in Nodes, p \in Port : c = Cur(t).node /\ p = Cur(t).port
  BY AtTop, NodesApart DEF Flow, Core
<1>3. c \in Tasks /\ p \in Slots(t)
  BY <1>1, <1>2 DEF Lies, Fits
<1>4. head[c].tag = "open"
  <2>1. Cur(t) \in Notices(c)
    BY <1>1, <1>2 DEF Notices
  <2> QED
    BY <1>1, <1>3, <2>1, Expected DEF Core
<1>5. PICK g : g = F("pre", c, 0, 1)
  OBVIOUS
<1>6. g \in Frame /\ g.op = "pre"
  BY <1>5, NodesApart DEF F, Frame, CountOps
<1>7. PICK fs : fs = <<g>>
  OBVIOUS
<1>8. fs \in Seq(Frame) /\ DOMAIN fs = {1} /\ \A i \in DOMAIN fs : fs[i] = g
  BY <1>6, <1>7, OneIs
<1>9. PICK a : a = BackOnly(t, p)
  OBVIOUS
<1>10. a \in Arc
  BY <1>1, <1>9, ArcTypes DEF BackOnly
<1>11. /\ Then(t, fs) /\ UNCHANGED <<node, nextWriter, var, args, making, phase, mem, last, want>>
  BY <1>2, <1>5, <1>7 DEF Flow
<1>12. \/ nextWriter[t][p] # NoOwner /\ Push(c, a)
       \/ nextWriter[t][p] = NoOwner /\ head' = head
  BY <1>2, <1>9 DEF Flow, TurnBack
<1>13. \A u \in Nodes : head'[u].tag = head[u].tag /\ (u # c => head'[u] = head[u])
  <2>1. CASE Push(c, a)
    BY <1>0, <1>4, <1>10, <2>1, PushLists
  <2> QED
    BY <1>12, <2>1
<1>14. /\ \A n \in Nodes : \A b : Listed(n, b) => Listed(n, b)'
       /\ nextWriter[t][p] # NoOwner => Listed(c, a)'
  <2>1. CASE Push(c, a)
    BY <1>0, <1>4, <1>10, <2>1, ListedPush
  <2>2. CASE nextWriter[t][p] = NoOwner /\ head' = head
    BY <2>2 DEF Listed, Lists
  <2> QED
    BY <1>12, <2>1, <2>2
<1>15. Passes(t, Cur(t), NoTask)
  BY <1>0, <1>1, <1>8, <1>11, <1>14, PassesThen
<1>16. Naming
  BY <1>11, NamingSame
<1>17. Regains(t, Cur(t), NoTask)
  <2>1. ASSUME NEW u \in Tasks, NEW v, NEW k, Wants(u, v, k)
        PROVE  /\ \A n \in Nodes : \A q \in Slots(n) :
                    Names(n, q, v, k) /\ (Goes(t, Cur(t), u, n, q) \/ Left(NoTask, u, n, q)) => Has(u, v, k)'
               /\ v \in Deferred /\ k = 1 /\ Parked(u, v) => Has(u, v, k)'
    <3>1. ASSUME NEW n \in Nodes, NEW q \in Slots(n), Names(n, q, v, k),
                 Goes(t, Cur(t), u, n, q) \/ Left(NoTask, u, n, q)
          PROVE  Has(u, v, k)'
      <4>1. n = t /\ Cur(t) = F("flow", u, q, 0)
        BY <1>1, <3>1, NoTaskIs, NodesApart DEF Goes, Left
      <4>2. u = c /\ q = p
        BY <1>2, <4>1, FrameFields
      <4>3. CASE nextWriter[t][p] # NoOwner
        <5>1. Listed(u, a)' /\ a = BackOnly(n, q) /\ BackOnly(n, q)' = BackOnly(n, q)
          BY <1>9, <1>14, <4>1, <4>2, <4>3 DEF BackOnly
        <5>2. Hangs(u, n, q)'
          BY <5>1 DEF Hangs
        <5> QED
          BY <1>0, <1>16, <3>1, <5>2, HasIf
      <4>4. CASE nextWriter[t][p] = NoOwner
        <5>1. p = 0 /\ IsVoid(t)
          BY <1>0, <1>1, <1>3, <4>4 DEF Endings, EndsVoid
        <5>2. v = t
          BY <1>1, <3>1, <4>1, <4>2, <5>1, NamesOf
        <5>3. PICK i \in DOMAIN args[u] : v = args[u][i].v
          BY <2>1 DEF Wants
        <5>4. Dated(u, i)
          BY <1>0 DEF Dates
        <5> QED
          BY <5>1, <5>2, <5>3, <5>4 DEF Dated
      <4> QED
        BY <4>3, <4>4
    <3>2. ASSUME v \in Deferred, k = 1, Parked(u, v)
          PROVE  Has(u, v, k)'
      <4>1. v \in Nodes /\ v # NoTask
        BY <3>2, NoTaskIs, ConstantsAssumption DEF Nodes
      <4>2. Parked(u, v)'
        BY <1>1, <1>15, <3>2, <4>1, ParkedOr
      <4> QED
        BY <3>2, <4>2 DEF Has
    <3> QED
      BY <3>1, <3>2
  <2> QED
    BY <2>1 DEF Regains
<1>18. Cur(t).op \notin {"arg", "return"} /\ \A i \in DOMAIN fs : fs[i].op \notin {"arg", "return"}
  BY <1>1, <1>6, <1>8
<1>19. Claims'
  <2>1. TakesStay
    BY <1>11 DEF TakesStay, Takes
  <2>2. \A n \in Nodes : \A b : Listed(n, b) => Listed(n, b)' \/ n = NoTask
    BY <1>14
  <2>3. Cur(t).op # "arg" /\ \A i \in DOMAIN fs : fs[i].op # "arg"
    BY <1>18
  <2> QED
    BY <1>0, <1>1, <1>8, <1>11, <1>17, <2>1, <2>2, <2>3, ClaimsThen
<1>20. Undisturbed
  <2>1. \A u \in Nodes : \A q \in Slots(u) : Vacant(u, q) => Vacant(u, q)'
    BY <1>11, VacantSame
  <2>2. \A u \in Nodes : \/ head'[u] = head[u]
                         \/ /\ head[u].tag = "open" /\ head'[u].tag \in {"open", "done"}
                            /\ u \in Storage => head'[u].tag = "open"
    BY <1>4, <1>13
  <2> QED
    BY <1>1, <1>8, <1>11, <1>18, <2>1, <2>2, UndisturbedThen
<1>21. Reaching' /\ Currents' /\ Endings' /\ Heads'
  <2>1. \A u : Finished(u)' <=> Finished(u)
    BY <1>11, FinishedSame
  <2> QED
    BY <1>0, <1>11, <1>20, <2>1, RestKept
<1>22. Dates'
  BY <1>0, <1>11, DatesKept
<1> QED
  BY <1>19, <1>21, <1>22 DEF Versions

LEMMA ExchangeVersions ==
  ASSUME Core, Versions, NEW t \in Tasks, Exchange(t)
  PROVE  Versions'
<1> USE DEF setup, ghost
<1>0. TypeOK /\ Claims /\ Dates /\ Reaching /\ Currents /\ Endings /\ Heads
  BY DEF Core, Versions
<1>1. /\ t \in Threads /\ t \in Nodes /\ t \notin Clients /\ t \notin Storage
      /\ todo[t] # <<>> /\ Cur(t).op = "exchange" /\ At(t, "exchange")
  BY AtTop, NodesApart, ConstantsAssumption DEF Exchange, Core
<1>2. phase[t] = "done" /\ head[t].tag = "open"
  BY <1>1, WorkerStage DEF Core
<1>3. PICK s \in Seq(Arc) : s = Lists[t]
  BY <1>1, Families DEF Core
<1>4. s = head[t].arcs /\ DOMAIN s = 1..Len(s) /\ Len(s) \in Nat
  BY <1>1, <1>2, <1>3, Families DEF Core
<1>5. PICK fs : fs = [i \in 1..Len(s) |-> ArcFrame(s[i])]
  OBVIOUS
<1>6. DOMAIN fs = DOMAIN s /\ \A i \in DOMAIN s : fs[i] = ArcFrame(s[i])
  BY <1>4, <1>5
<1>7. ASSUME NEW i \in DOMAIN s
      PROVE  fs[i] \in Frame /\ fs[i].op \in {"dec", "flow"}
  <2>1. PICK a \in Arc : a = s[i]
    BY <1>3, <1>7, Member
  <2>2. Apt(t, a)
    BY <1>1, <1>3, <1>7, <2>1 DEF Core, Linked
  <2>3. PICK f : f = ArcFrame(a)
    OBVIOUS
  <2>4. /\ f \in Frame
        /\ a.kind = "back_only" => f.op = "dec"
        /\ a.kind # "back_only" => f.op = "flow"
    BY <2>2, <2>3, ArcFrameIs
  <2>5. fs[i] = f
    BY <1>6, <1>7, <2>1, <2>3
  <2> QED
    BY <2>4, <2>5
<1>8. fs \in Seq(Frame)
  <2>1. \A i \in 1..Len(s) : fs[i] \in Frame
    BY <1>4, <1>7
  <2>2. fs \in [1..Len(s) -> Frame]
    BY <1>5, <2>1
  <2> QED
    BY <1>4, <2>2
<1>9. /\ head' = [head EXCEPT ![t] = Done] /\ Then(t, fs)
      /\ UNCHANGED <<node, nextWriter, var, args, making, phase, mem, last, want>>
  BY <1>4, <1>5 DEF Exchange
<1>10. head'[t] = Done /\ Done.tag = "done" /\ \A n \in Nodes : n # t => head'[n] = head[n]
  BY <1>1, <1>9 DEF Core, TypeOK, Done
<1>11. \A n \in Nodes : \A a : Listed(n, a) => Listed(n, a)' \/ n = t
  <2>1. \A n \in Nodes : n # t => Lists'[n] = Lists[n]
    BY <1>10 DEF Lists
  <2> QED
    BY <2>1 DEF Listed
<1>12. Passes(t, Cur(t), t)
  BY <1>0, <1>1, <1>8, <1>9, <1>11, PassesThen
<1>13. Naming
  BY <1>9, NamingSame
<1>14. ASSUME NEW u, NEW q, Listed(t, FlowBack(u, q))
       PROVE  Turned(u, t, q)'
  <2>1. PICK i \in DOMAIN s : s[i] = FlowBack(u, q)
    BY <1>3, <1>14 DEF Listed
  <2>2. fs[i] = F("flow", u, q, 0)
    BY <1>6, <2>1 DEF ArcFrame, FlowBack
  <2>3. fs[i] \in Ahead(t)'
    BY <1>0, <1>1, <1>6, <1>8, <1>9, AheadThen
  <2>4. F("flow", u, q, 0)' = F("flow", u, q, 0)
    BY DEF F
  <2> QED
    BY <2>2, <2>3, <2>4 DEF Turned
<1>15. Regains(t, Cur(t), t)
  <2>1. ASSUME NEW u \in Tasks, phase'[u] # "done", NEW v, NEW k, Wants(u, v, k)
        PROVE  /\ \A n \in Nodes : \A q \in Slots(n) :
                    Names(n, q, v, k) /\ (Goes(t, Cur(t), u, n, q) \/ Left(t, u, n, q)) => Has(u, v, k)'
               /\ v \in Deferred /\ k = 1 /\ Parked(u, v) => Has(u, v, k)'
    <3>1. u # t
      BY <1>2, <1>9, <2>1
    <3>2. ASSUME NEW n \in Nodes, NEW q \in Slots(n), Names(n, q, v, k),
                 Goes(t, Cur(t), u, n, q) \/ Left(t, u, n, q)
          PROVE  Has(u, v, k)'
      <4>1. Cur(t) # F("flow", u, q, 0)
        BY <1>1, FrameFields
      <4>2. n = t /\ Listed(t, FlowBack(u, q))
        BY <1>1, <3>1, <3>2, <4>1 DEF Goes, Left
      <4>3. Hangs(u, n, q)'
        BY <1>14, <4>2 DEF Hangs
      <4> QED
        BY <1>0, <1>13, <3>2, <4>3, HasIf
    <3>3. ASSUME v \in Deferred, k = 1, Parked(u, v)
          PROVE  Has(u, v, k)'
      <4>1. v \in Nodes /\ v # t
        BY <1>1, <3>3, ConstantsAssumption DEF Nodes
      <4>2. Parked(u, v)'
        BY <1>1, <1>12, <3>3, <4>1, ParkedOr
      <4> QED
        BY <3>3, <4>2 DEF Has
    <3> QED
      BY <3>2, <3>3
  <2> QED
    BY <2>1 DEF Regains
<1>16. Cur(t).op \notin {"arg", "return"} /\ \A i \in DOMAIN fs : fs[i].op \notin {"arg", "return"}
  BY <1>1, <1>6, <1>7
<1>17. Claims'
  <2>1. TakesStay
    BY <1>9 DEF TakesStay, Takes
  <2>2. Cur(t).op # "arg" /\ \A i \in DOMAIN fs : fs[i].op # "arg"
    BY <1>16
  <2> QED
    BY <1>0, <1>1, <1>8, <1>9, <1>11, <1>15, <2>1, <2>2, ClaimsThen
<1>18. Undisturbed
  <2>1. \A u \in Nodes : \A q \in Slots(u) : Vacant(u, q) => Vacant(u, q)'
    BY <1>9, VacantSame
  <2>2. \A u \in Nodes : \/ head'[u] = head[u]
                         \/ /\ head[u].tag = "open" /\ head'[u].tag \in {"open", "done"}
                            /\ u \in Storage => head'[u].tag = "open"
    BY <1>1, <1>2, <1>10
  <2> QED
    BY <1>1, <1>8, <1>9, <1>16, <2>1, <2>2, UndisturbedThen
<1>19. Reaching' /\ Currents' /\ Endings' /\ Heads'
  <2>1. \A u : Finished(u)' <=> Finished(u)
    BY <1>9, FinishedSame
  <2> QED
    BY <1>0, <1>9, <1>18, <2>1, RestKept
<1>20. Dates'
  BY <1>0, <1>9, DatesKept
<1> QED
  BY <1>17, <1>19, <1>20 DEF Versions

(***************************************************************************)
(* Variables are made, published and dropped                               *)
(***************************************************************************)
LEMMA OpeningSame ==
  ASSUME UNCHANGED <<args, making, last>>,
         \A y \in Clients : \A f : f.op = "arg" => (f \in Ahead(y)' <=> f \in Ahead(y))
  PROVE  \A v : (Opening(v)' <=> Opening(v)) /\ Newest(v)' = Newest(v)
<1>1. ASSUME NEW y \in Clients, NEW i
      PROVE  ToWrite(y, i)' <=> ToWrite(y, i)
  <2>1. PICK f : f = F("arg", making[y], i, 0)
    OBVIOUS
  <2>2. f \in Ahead(y)' <=> f \in Ahead(y)
    BY <2>1 DEF F
  <2>3. Writes(making[y])' = Writes(making[y]) /\ F("arg", making[y], i, 0)' = f
    BY <2>1 DEF Writes, F
  <2> QED
    BY <2>1, <2>2, <2>3 DEF ToWrite
<1>2. \A v : Opening(v)' <=> Opening(v)
  BY <1>1 DEF Opening
<1> QED
  BY <1>2 DEF Newest, One

LEMMA BindVersions ==
  ASSUME Core, Versions, NEW x \in Clients, Bind(x)
  PROVE  Versions'
<1> USE DEF setup, ghost
<1>1. /\ x \in Threads /\ todo[x] # <<>> /\ Cur(x).op = "bind" /\ Cur(x) \in Ahead(x) /\ Cur(x) = BindOf(x)
  <2>1. x \in Threads
    BY NodesApart
  <2>2. todo[x] # <<>> /\ Cur(x).op = "bind" /\ Cur(x) \in Ahead(x) /\ Lies(x, todo[x], 1) /\ todo[x][1] = Cur(x)
    BY <2>1, AtTop, TopLies DEF Bind, Core
  <2> QED
    BY <2>1, <2>2 DEF Lies
<1>2. PICK t \in Tasks : t = making[x]
  BY <1>1, SettingUp DEF Core
<1>3. InRun(x) /\ t \in Nodes
  BY <1>1, <1>2, SettingUp, NodesApart DEF Core
<1>4. var[t] = New(t)
  BY <1>2, <1>3 DEF Core, Callers, Called
<1>5. Protection(t) \in Int
  BY <1>2, OwedRange DEF Core
<1>6. PICK g : g = F("pre", t, 0, Protection(t))
  OBVIOUS
<1>7. g \in Frame /\ g.op = "pre"
  BY <1>3, <1>5, <1>6, NodesApart DEF F, Frame, CountOps
<1>8. Then(x, <<g>>) /\ UNCHANGED <<node, head, nextWriter, args, making, phase, mem, last, want>>
  BY <1>2, <1>6 DEF Bind
<1>9. var' = var
  <2>1. var' = [var EXCEPT ![t] = New(t)]
    BY <1>2 DEF Bind, New
  <2> QED
    BY <1>4, <2>1 DEF Core, TypeOK
<1>10. Cur(x).op \notin Minding
  BY <1>1 DEF Minding, Attaching
<1> QED
  BY <1>1, <1>7, <1>8, <1>9, <1>10, OneVersions

LEMMA ReturnVersions ==
  ASSUME Core, Versions, NEW x \in Clients, Return(x)
  PROVE  Versions'
<1> USE DEF setup, ghost
<1>0. TypeOK /\ Claims /\ Dates /\ Reaching /\ Currents /\ Endings /\ Heads
  BY DEF Core, Versions
<1>1. /\ x \in Threads /\ todo[x] # <<>> /\ Cur(x).op = "return" /\ Cur(x) \in Ahead(x)
      /\ Cur(x) = ReturnOf(x) /\ Len(todo[x]) = 1
  <2>1. x \in Threads
    BY NodesApart
  <2>2. todo[x] # <<>> /\ Cur(x).op = "return" /\ Cur(x) \in Ahead(x) /\ Lies(x, todo[x], 1) /\ todo[x][1] = Cur(x)
    BY <2>1, AtTop, TopLies DEF Return, Core
  <2> QED
    BY <2>1, <2>2 DEF Lies
<1>2. InRun(x)
  BY <1>1, RunAhead
<1>3. PICK t \in Tasks : t = making[x]
  BY <1>2 DEF Core, Callers, Called
<1>4. t \in Nodes /\ var[t] = New(t) /\ Cur(x) = F("return", t, 0, 0)
  BY <1>1, <1>2, <1>3, NodesApart DEF Core, Callers, Called, ReturnOf
<1>5. PICK fs : fs = <<>>
  OBVIOUS
<1>6. fs \in Seq(Frame) /\ DOMAIN fs = {}
  BY <1>5
<1>7. Then(x, fs) /\ UNCHANGED <<node, head, nextWriter, args, making, phase, mem, last, want>>
  BY <1>5 DEF Return, engine
<1>8. \A v \in Nodes : /\ var'[v].cur = var[v].cur /\ var'[v].port = var[v].port
                       /\ var'[v].deferred = var[v].deferred /\ (v # t => var'[v] = var[v])
  <2>1. var' = [var EXCEPT ![t] = [@ EXCEPT !.live = TRUE]]
    BY <1>3 DEF Return
  <2>2. var'[t] = [var[t] EXCEPT !.live = TRUE] /\ \A v \in Nodes : v # t => var'[v] = var[v]
    BY <1>4, <2>1 DEF Core, TypeOK
  <2> QED
    BY <1>4, <2>2 DEF New
<1>9. /\ Ahead(x) = {Cur(x)} /\ Ahead(x)' = {}
      /\ \A y \in Threads : y # x => Ahead(y)' = Ahead(y)
  <2>1. Ahead(x) = {Cur(x)} /\ After(todo[x], 1) = {}
    BY <1>0, <1>1, LastOne
  <2>2. Ahead(x)' = {fs[i] : i \in DOMAIN fs} \cup After(todo[x], 1)
    BY <1>0, <1>1, <1>6, <1>7, AheadThen
  <2>3. \A y \in Threads : y # x => Ahead(y)' = Ahead(y)
    BY <1>0, <1>1, <1>6, <1>7, AheadThen
  <2> QED
    BY <1>6, <2>1, <2>2, <2>3
<1>10. \A y \in Clients : \A f : f.op = "arg" => (f \in Ahead(y)' <=> f \in Ahead(y))
  BY <1>1, <1>9, NodesApart
<1>11. \A n \in Nodes : \A a : Listed(n, a) => Listed(n, a)'
  BY <1>7 DEF Listed, Lists
<1>12. Claims'
  <2>1. Passes(x, Cur(x), NoTask)
    BY <1>0, <1>1, <1>6, <1>7, <1>11, PassesThen
  <2>2. Cur(x).op \notin Attaching \cup {"move", "flow"} /\ Cur(x).op # "arg"
    BY <1>1 DEF Attaching
  <2>3. Regains(x, Cur(x), NoTask)
    BY <2>1, <2>2, LosesNothing
  <2>4. TakesStay
    BY <1>7 DEF TakesStay, Takes
  <2>5. \A n \in Nodes : \A a : Listed(n, a) => Listed(n, a)' \/ n = NoTask
    BY <1>11
  <2>6. \A i \in DOMAIN fs : fs[i].op # "arg"
    BY <1>6
  <2> QED
    BY <1>0, <1>1, <1>6, <1>7, <2>2, <2>3, <2>4, <2>5, <2>6, ClaimsThen
<1>13. Dates'
  BY <1>0, <1>7, DatesKept
<1>14. Naming
  BY <1>7, NamingSame
<1>15. Reaching'
  <2>1. \A y \in Clients : InRun(y)' => InRun(y) /\ making'[y] = making[y]
    <3>1. ASSUME NEW y \in Clients, InRun(y)'
          PROVE  InRun(y)
      <4>1. \E i \in DOMAIN todo'[y] : todo'[y][i].op = "return"
        BY <3>1 DEF InRun
      <4>2. PICK f \in Ahead(y)' : f.op = "return"
        BY <4>1 DEF Ahead
      <4>3. y # x
        BY <1>9, <4>2
      <4>4. f \in Ahead(y)
        BY <1>9, <4>2, <4>3, NodesApart
      <4> QED
        BY <4>2, <4>4, RunAhead
    <3> QED
      BY <1>7, <3>1
  <2> QED
    BY <1>0, <1>7, <2>1, ReachingKept
<1>16. Currents'
  <2>1. \A v : Newest(v)' = Newest(v)
    BY <1>7, <1>10, OpeningSame
  <2>2. ASSUME NEW v \in Nodes, InUse(v)'
        PROVE  InUse(v)
    <3>1. CASE v = t
      BY <1>1, <1>4, <3>1 DEF InUse
    <3>2. CASE v # t
      <4>1. F("return", v, 0, 0)' = F("return", v, 0, 0)
        BY DEF F
      <4>2. var'[v].live \/ \E y \in Clients : F("return", v, 0, 0) \in Ahead(y)'
        BY <2>2, <4>1 DEF InUse
      <4>3. \A y \in Clients : F("return", v, 0, 0) \in Ahead(y)' => F("return", v, 0, 0) \in Ahead(y)
        BY <1>9, NodesApart
      <4> QED
        BY <1>8, <3>2, <4>2, <4>3 DEF InUse
    <3> QED
      BY <3>1, <3>2
  <2> QED
    BY <1>0, <1>8, <1>14, <2>1, <2>2, CurrentsKept
<1>17. Endings'
  BY <1>0, <1>7, EndingsKept
<1>18. Heads'
  <2>1. \A v \in Deferred : v \in Nodes
    BY ConstantsAssumption DEF Nodes
  <2>2. \A v : Finished(v)' <=> Finished(v)
    BY <1>7, FinishedSame
  <2> QED
    BY <1>0, <1>7, <1>8, <1>14, <2>1, <2>2, HeadsKept
<1> QED
  BY <1>12, <1>13, <1>15, <1>16, <1>17, <1>18 DEF Versions

LEMMA InRunBack ==
  ASSUME NEW y, \A f : f.op = "return" /\ f \in Ahead(y)' => f \in Ahead(y), InRun(y)'
  PROVE  InRun(y)
<1>1. \E i \in DOMAIN todo'[y] : todo'[y][i].op = "return"
  BY DEF InRun
<1>2. PICK f \in Ahead(y)' : f.op = "return"
  BY <1>1 DEF Ahead
<1> QED
  BY <1>2, RunAhead

LEMMA InUseBack ==
  ASSUME NEW v, var'[v].live => var[v].live,
         \A y \in Clients : \A f : f.op = "return" /\ f \in Ahead(y)' => f \in Ahead(y), InUse(v)'
  PROVE  InUse(v)
<1>1. F("return", v, 0, 0)' = F("return", v, 0, 0) /\ F("return", v, 0, 0).op = "return"
  BY DEF F
<1>2. var'[v].live \/ \E y \in Clients : F("return", v, 0, 0) \in Ahead(y)'
  BY <1>1 DEF InUse
<1> QED
  BY <1>1, <1>2 DEF InUse

LEMMA DropVersions ==
  ASSUME Core, Versions, NEW x \in Clients, NEW v \in Nodes, Drop(x, v)
  PROVE  Versions'
<1> USE DEF ghost
<1>0. TypeOK /\ Claims /\ Dates /\ Reaching /\ Currents /\ Endings /\ Heads
  BY DEF Core, Versions
<1>1. ~InCall(x) /\ var[v].live
  BY DEF Drop, MayDrop
<1>2. x \in Threads /\ todo[x] = <<>> /\ Ahead(x) = {} /\ ~InRun(x)
  BY <1>1, AtRest DEF Core
<1>3. PICK n \in Nodes, p \in Port : n = var[v].cur /\ p = var[v].port
  BY DEF Core, TypeOK, OoxVar
<1>4. InUse(v) /\ p \in Slots(n) /\ Vacant(n, p) /\ node[n] # "unborn" /\ SlotOf(v) = <<n, p>>
  <2>1. InUse(v) /\ SlotOf(v) = <<n, p>>
    BY <1>1, <1>3 DEF InUse, SlotOf
  <2> QED
    BY <1>3, <2>1, SlotIs DEF Core
<1>5. PICK d : d = FinalOwner(v)
  OBVIOUS
<1>6. d # Null /\ (d = NoOwner => IsVoid(v)) /\ \A t : d # Writer(t)
  BY <1>5 DEF FinalOwner, NoOwner, Owner, Null, Writer
<1>7. PICK g : g = F("dec", n, p, 1)
  OBVIOUS
<1>8. g \in Frame /\ g.op = "dec"
  BY <1>7 DEF F, Frame, CountOps
<1>9. PICK fs : fs = IF nextWriter[n][p] = Ready THEN <<g>> ELSE <<>>
  OBVIOUS
<1>10. fs \in Seq(Frame) /\ \A i \in DOMAIN fs : fs[i] = g
  <2>1. CASE nextWriter[n][p] = Ready
    <3>1. fs = <<g>>
      BY <1>9, <2>1
    <3> QED
      BY <1>8, <3>1, OneIs
  <2>2. CASE nextWriter[n][p] # Ready
    <3>1. fs = <<>>
      BY <1>9, <2>2
    <3> QED
      BY <3>1
  <2> QED
    BY <2>1, <2>2
<1>11. /\ UNCHANGED <<node, head, args, making, phase, mem, last, want>>
       /\ todo' = [todo EXCEPT ![x] = fs]
       /\ nextWriter' = [nextWriter EXCEPT ![n][p] = d]
       /\ var' = [var EXCEPT ![v] = [@ EXCEPT !.live = FALSE]]
  BY <1>3, <1>5, <1>7, <1>9 DEF Drop
<1>12. /\ nextWriter'[n][p] = d
       /\ \A m \in Nodes, q \in Port : m # n \/ q # p => nextWriter'[m][q] = nextWriter[m][q]
  BY <1>11 DEF Core, TypeOK
<1>13. \A u \in Nodes : /\ var'[u].cur = var[u].cur /\ var'[u].port = var[u].port
                        /\ var'[u].deferred = var[u].deferred /\ (var'[u].live => var[u].live)
  <2>1. var'[v] = [var[v] EXCEPT !.live = FALSE] /\ \A u \in Nodes : u # v => var'[u] = var[u]
    BY <1>11 DEF Core, TypeOK
  <2>2. var[v] \in OoxVar
    BY DEF Core, TypeOK
  <2>3. ~var'[v].live /\ var'[v].cur = var[v].cur /\ var'[v].port = var[v].port /\ var'[v].deferred = var[v].deferred
    BY <2>1, <2>2 DEF OoxVar
  <2> QED
    BY <2>1, <2>3
<1>14. /\ Ahead(x)' = {fs[i] : i \in DOMAIN fs}
       /\ \A y \in Threads : y # x => Ahead(y)' = Ahead(y)
  BY <1>1, <1>10, <1>11, CallIs
<1>15. \A y \in Threads : \A f : f.op # "dec" => (f \in Ahead(y)' <=> f \in Ahead(y))
  BY <1>2, <1>8, <1>10, <1>14
<1>16. \A n1 \in Nodes : \A a : Listed(n1, a) => Listed(n1, a)'
  BY <1>11 DEF Listed, Lists
<1>17. Naming
  BY <1>11, NamingSame
<1>18. \A y \in Clients : y \in Threads
  BY NodesApart
<1>19. Claims'
  <2>1. Passes(x, g, NoTask)
    <3>1. \A y \in Threads : \A f \in Ahead(y) : f \in Ahead(y)'
      BY <1>2, <1>14
    <3> QED
      BY <1>11, <1>16, <3>1 DEF Passes
  <2>2. NoNewArgs
    BY <1>11, <1>15, <1>18 DEF NoNewArgs
  <2>3. TakesStay
    <3>1. ASSUME NEW t \in Tasks, NEW m \in Nodes, NEW q \in Slots(m), Takes(t, m, q)
          PROVE  Takes(t, m, q)'
      <4>1. m # n \/ q # p
        BY <1>4, <3>1 DEF Takes, Vacant, Openable, Null, Ready, Writer
      <4>2. q \in Port
        BY <1>0, SlotsArePorts
      <4>3. nextWriter'[m][q] = nextWriter[m][q]
        BY <1>12, <4>1, <4>2
      <4> QED
        BY <3>1, <4>3 DEF Takes, Writer
    <3> QED
      BY <3>1 DEF TakesStay
  <2>4. g.op \notin Minding
    BY <1>8 DEF Minding, Attaching
  <2> QED
    BY <1>0, <1>11, <2>1, <2>2, <2>3, <2>4, ClaimsQuiet
<1>20. Dates'
  BY <1>0, <1>11, DatesKept
<1>21. \A y \in Clients : \A f : f.op = "return" /\ f \in Ahead(y)' => f \in Ahead(y)
  BY <1>15, <1>18
<1>22. Reaching'
  <2>1. \A y \in Clients : InRun(y)' => InRun(y) /\ making'[y] = making[y]
    BY <1>11, <1>21, InRunBack
  <2> QED
    BY <1>0, <1>11, <2>1, ReachingKept
<1>23. Currents'
  <2>1. \A u : Newest(u)' = Newest(u)
    <3>1. \A y \in Clients : \A f : f.op = "arg" => (f \in Ahead(y)' <=> f \in Ahead(y))
      BY <1>15, <1>18
    <3> QED
      BY <1>11, <3>1, OpeningSame
  <2>2. \A u \in Nodes : InUse(u)' => InUse(u)
    BY <1>13, <1>21, InUseBack
  <2> QED
    BY <1>0, <1>13, <1>17, <2>1, <2>2, CurrentsKept
<1>24. Endings'
  <2>1. ASSUME NEW m \in Nodes, NEW q \in Slots(m), nextWriter'[m][q] = NoOwner
        PROVE  q = 0 /\ IsVoid(m)
    <3>1. q \in Port
      BY <1>0, SlotsArePorts
    <3>2. CASE m # n \/ q # p
      <4>1. nextWriter[m][q] = NoOwner
        BY <1>12, <2>1, <3>1, <3>2
      <4> QED
        BY <1>0, <2>1, <4>1 DEF Endings, EndsVoid
    <3>3. CASE m = n /\ q = p
      <4>1. IsVoid(v)
        BY <1>6, <1>12, <2>1, <3>3
      <4>2. CASE SlotOf(v) = <<v, 0>>
        BY <1>4, <3>3, <4>1, <4>2
      <4>3. ASSUME NEW i \in Writes(n), n \in Tasks, args[n][i].v = v
            PROVE  FALSE
        <5>1. i \in DOMAIN args[n]
          BY <1>0, <4>3, WritesFinite
        <5>2. Dated(n, i)
          BY <1>0, <4>3, <5>1 DEF Dates
        <5> QED
          BY <4>1, <4>3, <5>2 DEF Dated
      <4>4. \/ SlotOf(v) = <<v, 0>>
            \/ \E i \in Writes(n) : n \in Tasks /\ args[n][i].v = v
        BY <1>3, <1>4 DEF Core, Homes, Settled
      <4> QED
        BY <4>2, <4>3, <4>4
    <3> QED
      BY <3>2, <3>3
  <2>2. \A m : Slots(m)' = Slots(m)
    BY <1>11, SlotsStay
  <2> QED
    BY <2>1, <2>2 DEF Endings, EndsVoid, IsVoid, NoOwner
<1>25. Heads'
  <2>1. ASSUME NEW u \in Deferred
        PROVE  u \in Nodes /\ (Finished(u)' => Finished(u))
    <3>1. u \in Nodes /\ u \notin Tasks /\ u \in Storage
      BY ConstantsAssumption, NodesApart DEF Nodes
    <3>2. CASE u # n \/ p # 0
      <4>1. nextWriter'[u][0] = nextWriter[u][0]
        BY <1>12, <3>1, <3>2, NodesApart
      <4> QED
        BY <3>1, <4>1 DEF Finished, Null
    <3>3. CASE u = n /\ p = 0
      BY <1>4, <3>1, <3>3 DEF Core, Stores, Stored
    <3> QED
      BY <3>1, <3>2, <3>3
  <2> QED
    BY <1>0, <1>11, <1>13, <1>17, <2>1, HeadsKept
<1> QED
  BY <1>19, <1>20, <1>22, <1>23, <1>24, <1>25 DEF Versions

LEMMA CreateVersions ==
  ASSUME Core, Versions, NEW x \in Clients, NEW s \in Storage, Create(x, s)
  PROVE  Versions'
<1> USE DEF ghost
<1>0. TypeOK /\ Claims /\ Dates /\ Reaching /\ Currents /\ Endings /\ Heads
  BY DEF Core, Versions
<1>1. ~InCall(x) /\ node[s] = "unborn" /\ \A t \in Tasks : phase[t] = "idle"
  BY DEF Create, Allocate
<1>2. s \in Nodes /\ s \notin Tasks /\ 0 \in Slots(s)
  <2>1. s \in Nodes /\ s \notin Tasks
    BY ConstantsAssumption, NodesApart DEF Nodes
  <2> QED
    BY <1>0, <2>1, SlotsArePorts
<1>3. last[s] = 0
  BY <1>1 DEF Core, Stores, Stored
<1>4. \A y \in Clients : ~InRun(y)
  BY <1>1, NoCalls
<1>5. \A v : ~Opening(v)
  BY <1>1, NoCalls
<1>6. /\ UNCHANGED <<args, making, todo, phase, mem, last, want>>
      /\ head' = [head EXCEPT ![s] = IF s \in Deferred THEN Open(<<>>) ELSE Done]
      /\ nextWriter' = [nextWriter EXCEPT ![s][0] = Ready]
      /\ var' = [var EXCEPT ![s] = [live |-> TRUE, cur |-> s, port |-> 0, deferred |-> s \in Deferred]]
  BY DEF Create, Allocate
<1>7. /\ nextWriter'[s][0] = Ready
      /\ var'[s] = [live |-> TRUE, cur |-> s, port |-> 0, deferred |-> s \in Deferred]
      /\ head'[s] = IF s \in Deferred THEN Open(<<>>) ELSE Done
      /\ \A u \in Nodes : u # s => nextWriter'[u] = nextWriter[u] /\ var'[u] = var[u] /\ head'[u] = head[u]
      /\ \A u \in Nodes, q \in Port : u # s \/ q # 0 => nextWriter'[u][q] = nextWriter[u][q]
  BY <1>2, <1>6, NodesApart DEF Core, TypeOK
<1>8. Claims'
  <2>1. \A t \in Tasks : args[t] = <<>>
    BY <1>1 DEF Core, Bodies, Staged
  <2>2. \A t \in Tasks : args'[t] = <<>>
    BY <1>6, <2>1
  <2>3. \A t \in Tasks : DOMAIN args'[t] = {}
    BY <2>2
  <2> QED
    BY <2>3 DEF Claims
<1>9. Dates'
  BY <1>0, <1>6, DatesKept
<1>10. Reaching'
  <2>1. \A y \in Clients : InRun(y)' => InRun(y) /\ making'[y] = making[y]
    BY <1>6 DEF InRun
  <2> QED
    BY <1>0, <1>6, <2>1, ReachingKept
<1>11. Naming
  BY <1>6, NamingSame
<1>12. \A v : Newest(v)' = Newest(v)
  <2>1. \A y \in Clients : \A f : f.op = "arg" => (f \in Ahead(y)' <=> f \in Ahead(y))
    BY <1>6 DEF Ahead
  <2> QED
    BY <1>6, <2>1, OpeningSame
<1>13. Currents'
  <2>1. ASSUME NEW v \in Nodes, InUse(v)'
        PROVE  Names(var[v].cur, var[v].port, v, Newest(v))'
    <3>1. CASE v = s
      <4>1. PICK k : k = Newest(s)
        OBVIOUS
      <4>2. k = 0 /\ One(s \in Tasks) = 0 /\ Newest(s)' = 0
        <5>1. One(Opening(s)) = 0
          BY <1>5 DEF One
        <5>2. k = last[s] - One(Opening(s))
          BY <4>1 DEF Newest
        <5>3. k = 0
          BY <1>3, <5>1, <5>2
        <5>4. One(s \in Tasks) = 0
          BY <1>2 DEF One
        <5>5. Newest(s)' = k
          BY <1>12, <4>1
        <5> QED
          BY <5>3, <5>4, <5>5
      <4>3. One(s \in Tasks)' = 0
        BY <4>2 DEF One
      <4>4. var'[s].cur = s /\ var'[s].port = 0
        BY <1>7
      <4> QED
        BY <3>1, <4>2, <4>3, <4>4 DEF Names
    <3>2. CASE v # s
      <4>1. PICK n, p, k : n = var[v].cur /\ p = var[v].port /\ k = Newest(v)
        OBVIOUS
      <4>2. InUse(v)
        <5>1. \A y \in Clients : \A f : f.op = "return" /\ f \in Ahead(y)' => f \in Ahead(y)
          BY <1>6 DEF Ahead
        <5> QED
          BY <1>7, <2>1, <3>2, <5>1, InUseBack
      <4>3. n \in Nodes /\ p \in Slots(n)
        BY <4>1, <4>2, SlotIs DEF Core
      <4>4. Names(n, p, v, k)
        BY <1>0, <4>1, <4>2 DEF Currents, Current
      <4>5. Names(n, p, v, k)'
        BY <1>11, <4>3, <4>4 DEF Naming
      <4>6. var'[v].cur = n /\ var'[v].port = p /\ Newest(v)' = k
        BY <1>7, <1>12, <3>2, <4>1
      <4> QED
        BY <4>5, <4>6 DEF Names
    <3> QED
      BY <3>1, <3>2
  <2> QED
    BY <2>1 DEF Currents, Current
<1>14. Endings'
  <2>1. ASSUME NEW m \in Nodes, NEW q \in Slots(m), nextWriter'[m][q] = NoOwner
        PROVE  nextWriter[m][q] = NoOwner
    <3>1. q \in Port
      BY <1>0, SlotsArePorts
    <3>2. m # s \/ q # 0
      BY <1>7, <2>1 DEF NoOwner, Ready
    <3> QED
      BY <1>7, <2>1, <3>1, <3>2
  <2> QED
    BY <1>0, <1>6, <2>1, EndingsKept
<1>15. Heads'
  <2>1. ASSUME NEW v \in Deferred
        PROVE  Leading(v)'
    <3>1. v \in Nodes /\ v \in Storage
      BY ConstantsAssumption DEF Nodes
    <3>2. CASE v = s
      <4>1. head'[v].tag = "open" /\ var'[v].deferred
        <5>1. v \in Deferred /\ v = s
          BY <3>2
        <5>2. head'[v] = Open(<<>>)
          BY <1>7, <5>1
        <5>3. Open(<<>>).tag = "open"
          BY DEF Open
        <5>4. var'[v].deferred = (s \in Deferred)
          BY <1>7, <5>1
        <5> QED
          BY <5>1, <5>2, <5>3, <5>4
      <4> QED
        BY <4>1 DEF Leading
    <3>3. CASE v # s
      <4>1. Leading(v) /\ head'[v] = head[v] /\ var'[v] = var[v]
        BY <1>0, <1>7, <3>1, <3>3 DEF Heads
      <4>2. Finished(v)' <=> Finished(v)
        <5>1. v \notin Tasks /\ nextWriter'[v] = nextWriter[v]
          BY <1>7, <3>1, <3>3, ConstantsAssumption
        <5> QED
          BY <5>1 DEF Finished, Null
      <4>3. head[v].tag # "redirect"
        <5>1. head[v].tag = "redirect" => \E t \in Tasks : \E i \in Writes(t) : args[t][i].v = v
          BY <3>1, Redirects DEF Core
        <5>2. \A t \in Tasks : args[t] = <<>>
          BY <1>1 DEF Core, Bodies, Staged
        <5>3. \A t \in Tasks : Writes(t) = {}
          BY <5>2 DEF Writes
        <5> QED
          BY <5>1, <5>3
      <4> QED
        BY <4>1, <4>2, <4>3 DEF Leading
    <3> QED
      BY <3>2, <3>3
  <2> QED
    BY <2>1 DEF Heads
<1> QED
  BY <1>8, <1>9, <1>10, <1>13, <1>14, <1>15 DEF Versions

(***************************************************************************)
(* A task is launched                                                      *)
(***************************************************************************)
LEMMA HasStays ==
  ASSUME TypeOK, Naming, NEW x, NEW g, g.op \notin Attaching \cup {"move", "flow"}, Passes(x, g, NoTask),
         NEW t \in Tasks, NEW v, NEW k, Has(t, v, k)
  PROVE  Has(t, v, k)'
<1>1. CASE Awaits(t, v, k)
  <2>1. PICK n \in Nodes : \E p \in Port : p \in Slots(n) /\ Names(n, p, v, k) /\ Hangs(t, n, p)
    BY <1>1 DEF Awaits
  <2>2. PICK p \in Slots(n) : Names(n, p, v, k) /\ Hangs(t, n, p)
    BY <2>1
  <2>3. g # F("move", t, p, 0) /\ g # F("flow", t, p, 0)
    BY FrameFields
  <2>4. ~Goes(x, g, t, n, p) /\ ~Left(NoTask, t, n, p)
    BY <2>3, NoTaskIs, NodesApart DEF Goes, Left
  <2>5. Hangs(t, n, p)'
    BY <2>2, <2>4, HangsOr
  <2> QED
    BY <2>2, <2>5, HasIf
<1>2. CASE v \in Deferred /\ k = 1 /\ Parked(t, v)
  <2>1. v \in Nodes
    BY <1>2, ConstantsAssumption DEF Nodes
  <2>2. g # F("link", v, 0, 0) /\ v # NoTask
    BY <2>1, FrameFields, NoTaskIs DEF Attaching
  <2>3. Parked(t, v)'
    BY <1>2, <2>1, <2>2, ParkedOr
  <2> QED
    BY <1>2, <2>3 DEF Has
<1> QED
  BY <1>1, <1>2 DEF Has

LEMMA LaunchPorts ==
  ASSUME Core, NEW x \in Clients, NEW t \in Tasks, NEW a \in ArgLists[t], Launch(x, t, a)
  PROVE  Slots(t)' \subseteq Port
<1>1. PICK W : W = {i \in DOMAIN a : a[i].w}
  OBVIOUS
<1>2. a \in Seq([v : Nodes, w : BOOLEAN]) /\ Len(a) <= MaxPort /\ MaxPort \in Nat
  BY ConstantsAssumption
<1>3. DOMAIN a = 1..Len(a) /\ Len(a) \in Nat
  BY <1>2
<1>4. Cardinality(W) \in Nat /\ Cardinality(W) <= MaxPort
  <2>1. W \subseteq 1..Len(a) /\ IsFiniteSet(1..Len(a)) /\ Cardinality(1..Len(a)) = Len(a)
    BY SMTT(30), <1>1, <1>3, FS_Interval
  <2>2. IsFiniteSet(W) /\ Cardinality(W) <= Cardinality(1..Len(a))
    BY <2>1, FS_Subset
  <2> QED
    BY <1>2, <1>3, <2>1, <2>2, FS_CardinalityType
<1>5. Slots(t)' = 0..Cardinality(W)
  BY <1>1, LaunchSlots DEF Slots
<1> QED
  BY <1>2, <1>4, <1>5 DEF Port

(* The arguments of another call are to be set up as before. *)
LEMMA LaunchOthers ==
  ASSUME Core, NEW x \in Clients, NEW t \in Tasks, NEW a \in ArgLists[t], Launch(x, t, a)
  PROVE  /\ \A y \in Clients : y # x /\ InRun(y) => making[y] \in Tasks /\ making[y] # t
         /\ \A y \in Clients : y # x => (InRun(y)' <=> InRun(y))
         /\ \A u \in Tasks : u # t => \A i : ToCome(u, i)' <=> ToCome(u, i)
         /\ \A i \in DOMAIN a : ToCome(t, i)'
<1>1. \A y \in Clients : y # x /\ InRun(y) => making[y] \in Tasks /\ making[y] # t
  <2>1. phase[t] = "idle"
    BY LaunchMoves
  <2>2. ASSUME NEW y \in Clients, InRun(y)
        PROVE  making[y] \in Tasks /\ phase[making[y]] # "idle"
    <3>1. making[y] \in Tasks
      BY <2>2 DEF Core, Callers, Called
    <3>2. making[y] # NoTask
      BY <3>1, NoTaskIs, NodesApart
    <3> QED
      BY <3>1, <3>2 DEF Core, Callers, Called
  <2> QED
    BY <2>1, <2>2
<1>2. \A y \in Clients : y # x => Ahead(y)' = Ahead(y) /\ making'[y] = making[y] /\ todo'[y] = todo[y]
  BY LaunchMoves, NodesApart
<1>3. \A y \in Clients : y # x => (InRun(y)' <=> InRun(y))
  BY <1>2 DEF InRun
<1>4. ASSUME NEW u \in Tasks, u # t, NEW i
      PROVE  ToCome(u, i)' <=> ToCome(u, i)
  <2>1. PICK f : f = F("arg", u, i, 0)
    OBVIOUS
  <2>2. ToCome(u, i)' <=> \E y \in Clients : making'[y] = u /\ f \in Ahead(y)'
    BY <2>1 DEF ToCome, F
  <2>3. making'[x] # u /\ f \notin Ahead(x)
    BY <1>4, LaunchMoves
  <2> QED
    BY <1>2, <2>1, <2>2, <2>3 DEF ToCome
<1>5. ASSUME NEW i \in DOMAIN a
      PROVE  ToCome(t, i)'
  <2>1. PICK f : f = F("arg", t, i, 0)
    OBVIOUS
  <2>2. f \in Ahead(x)' /\ making'[x] = t
    BY <1>5, <2>1, LaunchMoves
  <2>3. F("arg", t, i, 0)' = f
    BY <2>1 DEF F
  <2> QED
    BY <2>2, <2>3 DEF ToCome
<1> QED
  BY <1>1, <1>3, <1>4, <1>5

(* Nobody else is about to write what the call writes. *)
LEMMA LaunchAlone ==
  ASSUME Core, NEW x \in Clients, NEW t \in Tasks, NEW a \in ArgLists[t], Launch(x, t, a),
         NEW j \in Writes(t)'
  PROVE  /\ \A y \in Clients : ~Modifies(y, a[j].v)
         /\ ~Opening(a[j].v)
         /\ \A y \in Clients \ {x} : Reads(y, a[j].v) => FirstWriter(a[j].v) /\ var[a[j].v].deferred
<1>1. j \in DOMAIN a /\ a[j].w
  BY LaunchSlots
<1>2. a[j].v \in Nodes /\ MayWrite(x, a[j].v)
  BY <1>1, LaunchArgs
<1>3. ~Modifies(x, a[j].v)
  BY LaunchMoves DEF Modifies, CallArgs
<1>4. \A y \in Clients : ~Modifies(y, a[j].v)
  BY <1>2, <1>3 DEF MayWrite
<1>5. ~Opening(a[j].v)
  BY <1>2, <1>4, OpeningIs DEF Core
<1> QED
  BY <1>2, <1>4, <1>5 DEF MayWrite

LEMMA LaunchClaims ==
  ASSUME Core, TypeOK', Versions, NEW x \in Clients, NEW t \in Tasks, NEW a \in ArgLists[t], Launch(x, t, a)
  PROVE  Claims'
<1>0. TypeOK /\ Claims /\ Dates
  BY DEF Core, Versions
<1>1. Naming
  BY NamingLaunch
<1>2. PICK g : g = F("rel", t, 0, 0)
  OBVIOUS
<1>3. g.op \notin Attaching \cup {"move", "flow"}
  BY <1>2, FrameFields DEF Attaching
<1>4. Passes(x, g, NoTask)
  <2>1. \A n \in Nodes : \A b : Listed(n, b) => Listed(n, b)'
    BY LaunchMoves DEF Listed, Lists
  <2>2. \A y \in Threads : \A f \in Ahead(y) : f \in Ahead(y)'
    BY LaunchMoves
  <2>3. \A y \in Clients : Ahead(y) # {} => making'[y] = making[y]
    BY LaunchMoves
  <2> QED
    BY <2>1, <2>2, <2>3 DEF Passes
<1>5. ASSUME NEW i \in DOMAIN a
      PROVE  Claim(t, i)'
  <2>1. ToCome(t, i)' /\ args'[t] = a
    BY <1>5, LaunchOthers, LaunchMoves
  <2>2. CASE i \in Writes(t)'
    <3>1. a[i].w /\ want'[t][i] = last[a[i].v] /\ last'[a[i].v] = last[a[i].v] + 1
      BY <1>5, <2>2, LaunchSlots, LaunchArgs, LaunchLast DEF Version
    <3> QED
      BY <2>1, <2>2, <3>1 DEF Claim, WritesOver
  <2> QED
    BY <2>1, <2>2 DEF Claim, ReadsFrom
<1>6. ASSUME NEW u \in Tasks, u # t, NEW i \in DOMAIN args[u]
      PROVE  Claim(u, i)'
  <2>0. u \in Nodes
    BY NodesApart
  <2>1. args'[u] = args[u] /\ want'[u] = want[u] /\ phase'[u] = phase[u] /\ Writes(u)' = Writes(u)
        /\ (ToCome(u, i)' <=> ToCome(u, i))
    BY <1>6, <2>0, LaunchMoves, LaunchSlots, LaunchOthers
  <2>2. PICK v, k : v = args[u][i].v /\ k = want[u][i]
    OBVIOUS
  <2>3. Claim(u, i)
    BY <1>0 DEF Claims
  <2>4. CASE i \notin Writes(u)
    <3>1. phase[u] = "done" \/ Has(u, v, k) \/ ToCome(u, i)
      BY <2>2, <2>3, <2>4 DEF Claim, ReadsFrom
    <3>2. Has(u, v, k) => Has(u, v, k)'
      BY <1>0, <1>1, <1>3, <1>4, HasStays
    <3>3. args'[u][i].v = v /\ want'[u][i] = k
      BY <2>1, <2>2
    <3>4. Has(u, v, k)' => Has(u, args[u][i].v, want[u][i])'
      BY <3>3 DEF Has, Awaits, Names, Parked
    <3> QED
      BY <2>1, <2>4, <3>1, <3>2, <3>4 DEF Claim, ReadsFrom
  <2>5. CASE i \in Writes(u) /\ ToCome(u, i)
    <3>1. k + 1 = last[v]
      BY <2>2, <2>3, <2>5 DEF Claim, WritesOver
    <3>2. PICK y \in Clients : making[y] = u /\ F("arg", u, i, 0) \in Ahead(y)
      BY <2>5 DEF ToCome
    <3>3. InRun(y)
      <4>1. F("arg", u, i, 0).op \in Calling /\ y \in Threads
        BY FrameFields, NodesApart DEF Calling, Asking
      <4> QED
        BY <3>2, <4>1, SettingUp DEF Core
    <3>4. v \in Nodes /\ InUse(v) /\ Modifies(y, v)
      BY <2>2, <2>5, <3>2, <3>3, ArgumentOf DEF Core
    <3>5. v # t
      BY <3>4, LaunchMoves
    <3>6. \A j \in Writes(t)' : a[j].v # v
      BY <3>4, LaunchAlone
    <3>7. last'[v] = last[v]
      BY <3>4, <3>5, <3>6, LaunchLast
    <3>8. args'[u][i].v = v /\ want'[u][i] = k
      BY <2>1, <2>2
    <3> QED
      BY <2>1, <2>5, <3>1, <3>7, <3>8 DEF Claim, WritesOver
  <2>6. CASE i \in Writes(u) /\ ~ToCome(u, i)
    <3>1. PICK n \in Nodes : \E p \in Port : p \in Slots(n) /\ Names(n, p, v, k) /\ Takes(u, n, p)
      BY <2>2, <2>3, <2>6 DEF Claim, WritesOver
    <3>2. PICK p \in Port : p \in Slots(n) /\ Names(n, p, v, k) /\ Takes(u, n, p)
      BY <3>1
    <3>3. p \in Slots(n)' /\ Names(n, p, v, k)'
      BY <1>1, <3>2 DEF Naming
    <3>4. Takes(u, n, p)'
      <4>1. nextWriter' = nextWriter
        BY LaunchMoves
      <4> QED
        BY <3>2, <4>1 DEF Takes, Writer
    <3>5. args'[u][i].v = v /\ want'[u][i] = k
      BY <2>1, <2>2
    <3>6. Names(n, p, args[u][i].v, want[u][i])'
      BY <3>3, <3>5 DEF Names
    <3> QED
      BY <2>1, <2>6, <3>3, <3>4, <3>6 DEF Claim, WritesOver
  <2> QED
    BY <2>4, <2>5, <2>6
<1>7. args'[t] = a /\ \A u \in Tasks : u # t => args'[u] = args[u]
  BY LaunchMoves
<1> QED
  BY <1>5, <1>6, <1>7 DEF Claims

LEMMA LaunchReaching ==
  ASSUME Core, TypeOK', Versions, NEW x \in Clients, NEW t \in Tasks, NEW a \in ArgLists[t], Launch(x, t, a)
  PROVE  Reaching'
<1>0. TypeOK /\ Reaching /\ Dates
  BY DEF Core, Versions
<1>1. ASSUME NEW y \in Clients, NEW u \in Tasks, u = making'[y], InRun(y)', NEW i \in DOMAIN args'[u], i \notin Writes(u)'
      PROVE  \/ want'[u][i] = last'[args'[u][i].v]
             \/ args'[u][i].v \in Deferred /\ want'[u][i] = 1 /\ last'[args'[u][i].v] = 0
  <2>1. CASE y = x
    <3>1. u = t /\ args'[t] = a /\ i \in DOMAIN a /\ i \notin Writes(t)'
      BY <1>1, <2>1, LaunchMoves
    <3>2. PICK v : v = a[i].v
      OBVIOUS
    <3>3. ~a[i].w
      BY <3>1, LaunchSlots
    <3>4. v \in Nodes /\ v # t /\ want'[t][i] = Version(v, a[i].w) /\ a[i].w \in BOOLEAN
      BY <3>1, <3>2, LaunchArgs
    <3>5. \A j \in DOMAIN a : i # j /\ a[j].v = v => ~a[j].w
      BY <3>1, <3>2, LaunchArgs
    <3>6. \A j \in Writes(t)' : a[j].v # v
      BY <3>1, <3>3, <3>5, LaunchSlots
    <3>7. last'[v] = last[v]
      BY <3>4, <3>6, LaunchLast
    <3> QED
      BY <3>1, <3>2, <3>3, <3>4, <3>7 DEF Version
  <2>2. CASE y # x
    <3>1. InRun(y) /\ making[y] = u /\ u # t
      BY <1>1, <2>2, LaunchOthers, LaunchMoves
    <3>2. args'[u] = args[u] /\ want'[u] = want[u] /\ Writes(u)' = Writes(u)
      BY <3>1, LaunchMoves, LaunchSlots, NodesApart
    <3>3. PICK v, k : v = args[u][i].v /\ k = want[u][i]
      OBVIOUS
    <3>4. i \in DOMAIN args[u] /\ i \notin Writes(u)
      BY <1>1, <3>2
    <3>5. k = last[v] \/ (v \in Deferred /\ k = 1 /\ last[v] = 0)
      BY <1>0, <3>1, <3>3, <3>4 DEF Reaching, UpToDate
    <3>6. v \in Nodes /\ InUse(v) /\ Reads(y, v)
      <4>1. ~args[u][i].w
        BY <3>1, <3>4, ArgumentOf DEF Core
      <4> QED
        BY <3>1, <3>3, <3>4, <4>1, ArgumentOf DEF Core
    <3>7. v # t
      BY <3>6, LaunchMoves
    <3>8. CASE \A j \in Writes(t)' : a[j].v # v
      <4>1. last'[v] = last[v]
        BY <3>6, <3>7, <3>8, LaunchLast
      <4> QED
        BY <3>2, <3>3, <3>5, <4>1
    <3>9. ASSUME NEW j \in Writes(t)', a[j].v = v
          PROVE  \/ want'[u][i] = last'[args'[u][i].v]
                 \/ args'[u][i].v \in Deferred /\ want'[u][i] = 1 /\ last'[args'[u][i].v] = 0
      <4>1. FirstWriter(v) /\ var[v].deferred /\ ~Opening(v)
        BY <2>2, <3>6, <3>9, LaunchAlone
      <4>2. v \in Deferred /\ last[v] = 0
        BY <3>6, <4>1 DEF Core, Firsts, Put
      <4>3. k >= 1
        BY <1>0, <3>3, <3>4, <4>2 DEF Dates, Dated
      <4>4. k = 1
        BY <3>5, <4>2, <4>3
      <4>5. last'[v] = 1
        BY <3>9, <4>2, LaunchLast
      <4> QED
        BY <3>2, <3>3, <4>4, <4>5
    <3> QED
      BY <3>8, <3>9
  <2> QED
    BY <2>1, <2>2
<1>2. ASSUME NEW y \in Clients, InRun(y)'
      PROVE  making'[y] \in Tasks
  <2>1. CASE y = x
    BY <2>1, LaunchMoves
  <2>2. CASE y # x
    BY <1>2, <2>2, LaunchOthers, LaunchMoves
  <2> QED
    BY <2>1, <2>2
<1>3. ASSUME NEW y \in Clients
      PROVE  UpToDate(y)'
  <2>1. SUFFICES ASSUME InRun(y)'
                 PROVE  UpToDate(y)'
    BY DEF UpToDate
  <2>2. PICK u \in Tasks : u = making'[y]
    BY <1>2, <2>1
  <2>3. Writes(making[y])' = Writes(u)'
    BY <2>2 DEF Writes
  <2>4. \A i \in DOMAIN args'[u] \ Writes(u)' :
          \/ want'[u][i] = last'[args'[u][i].v]
          \/ args'[u][i].v \in Deferred /\ want'[u][i] = 1 /\ last'[args'[u][i].v] = 0
    BY <1>1, <2>1, <2>2
  <2> QED
    BY <2>2, <2>3, <2>4 DEF UpToDate
<1> QED
  BY <1>3 DEF Reaching

LEMMA LaunchOpening ==
  ASSUME Core, TypeOK', Dates, NEW x \in Clients, NEW t \in Tasks, NEW a \in ArgLists[t], Launch(x, t, a)
  PROVE  /\ ~Opening(t)'
         /\ \A v \in Nodes : v # t => (Opening(v)' <=> Opening(v) \/ \E j \in Writes(t)' : a[j].v = v)
<1>1. ASSUME NEW v, NEW y \in Clients, y # x
      PROVE  (\E i \in DOMAIN args[making[y]] : ToWrite(y, i) /\ args[making[y]][i].v = v)'
             /\ making'[y] \in Tasks
             <=> making[y] \in Tasks /\ \E i \in DOMAIN args[making[y]] : ToWrite(y, i) /\ args[making[y]][i].v = v
  <2>1. PICK u : u = making[y]
    OBVIOUS
  <2>2. making'[y] = u /\ Ahead(y)' = Ahead(y)
    <3>1. y \in Clients /\ y \in Threads
      BY <1>1, NodesApart
    <3>2. /\ \A z \in Clients : z # x => making'[z] = making[z]
          /\ \A z \in Threads : z # x => Ahead(z)' = Ahead(z)
      BY LaunchMoves
    <3> QED
      BY <1>1, <2>1, <3>1, <3>2
  <2>3. ASSUME u \in Tasks, u # t
        PROVE  args'[u] = args[u] /\ Writes(u)' = Writes(u)
    BY <2>3, LaunchMoves, LaunchSlots, NodesApart
  <2>4. u \in Tasks => u # t
    <3>1. u \in Tasks => u # NoTask
      BY NoTaskIs, NodesApart
    <3>2. u \in Tasks => phase[u] # "idle"
      BY <2>1, <3>1 DEF Core, Callers, Called
    <3> QED
      BY <3>2, LaunchMoves
  <2>5. ASSUME u \in Tasks, NEW i
        PROVE  ToWrite(y, i)' <=> ToWrite(y, i)
    <3>1. Writes(making[y])' = Writes(making[y])
      <4>1. Writes(making[y])' = Writes(u)'
        BY <2>2 DEF Writes
      <4> QED
        BY <2>1, <2>3, <2>4, <2>5, <4>1
    <3>2. F("arg", making[y], i, 0)' = F("arg", making[y], i, 0)
      BY <2>1, <2>2 DEF F
    <3> QED
      BY <2>2, <3>1, <3>2 DEF ToWrite
  <2> QED
    BY <2>1, <2>2, <2>3, <2>4, <2>5
<1>2. ASSUME NEW i
      PROVE  ToWrite(x, i)' <=> i \in Writes(t)'
  <2>1. making'[x] = t
    BY LaunchMoves
  <2>2. Writes(making[x])' = Writes(t)'
    BY <2>1 DEF Writes
  <2>3. i \in DOMAIN a => F("arg", t, i, 0) \in Ahead(x)'
    BY LaunchMoves
  <2>4. i \in Writes(t)' => i \in DOMAIN a
    BY LaunchSlots
  <2>5. F("arg", making[x], i, 0)' = F("arg", t, i, 0)
    BY <2>1 DEF F
  <2> QED
    BY <2>2, <2>3, <2>4, <2>5 DEF ToWrite
<1>3. \A v : (\E i \in DOMAIN args[making[x]] : ToWrite(x, i) /\ args[making[x]][i].v = v)'
             <=> \E j \in Writes(t)' : a[j].v = v
  <2>1. making'[x] = t /\ args'[t] = a
    BY LaunchMoves
  <2>2. \A j \in Writes(t)' : j \in DOMAIN a
    BY LaunchSlots
  <2> QED
    BY <1>2, <2>1, <2>2
<1>4. \A i \in DOMAIN args[making[x]] : ~ToWrite(x, i)
  BY LaunchMoves DEF ToWrite
<1>5. ASSUME NEW v
      PROVE  Opening(v)' <=> Opening(v) \/ \E j \in Writes(t)' : a[j].v = v
  <2>1. making'[x] \in Tasks
    BY LaunchMoves
  <2> QED
    BY ZenonT(60), <1>1, <1>3, <1>4, <2>1 DEF Opening
<1>6. ~Opening(t)
  <2>1. t \in Nodes /\ ~InUse(t)
    BY LaunchMoves
  <2> QED
    BY <2>1, OpeningIs, Argument DEF Core
<1>7. \A j \in Writes(t)' : a[j].v # t
  BY LaunchSlots, LaunchArgs
<1> QED
  BY <1>5, <1>6, <1>7

LEMMA LaunchCurrents ==
  ASSUME Core, TypeOK', Versions, NEW x \in Clients, NEW t \in Tasks, NEW a \in ArgLists[t], Launch(x, t, a)
  PROVE  Currents'
<1>0. TypeOK /\ Currents /\ Dates
  BY DEF Core, Versions
<1>1. Naming
  BY NamingLaunch
<1>2. var' = var /\ t \in Nodes
  BY LaunchMoves
<1>3. ASSUME NEW v \in Nodes, InUse(v)'
      PROVE  Names(var[v].cur, var[v].port, v, Newest(v))'
  <2>1. CASE v = t
    <3>1. var[t] = New(t)
      <4>1. ~InUse(t) /\ phase[t] = "idle"
        BY LaunchMoves
      <4>2. node[t] = "unborn"
        BY <4>1 DEF Core, Bodies, Staged
      <4> QED
        BY <1>2, <4>1, <4>2 DEF Core, Homes, Settled
    <3>2. var'[v].cur = t /\ var'[v].port = 0
      BY <1>2, <2>1, <3>1 DEF New
    <3>3. Newest(v)' = 1
      <4>1. last'[t] = 1 /\ ~Opening(t)'
        BY <1>0, LaunchLast, LaunchOpening
      <4> QED
        BY <2>1, <4>1 DEF Newest, One
    <3>4. One(t \in Tasks)' = 1
      BY DEF One
    <3> QED
      BY <2>1, <3>2, <3>3, <3>4 DEF Names
  <2>2. CASE v # t
    <3>1. InUse(v)
      <4>1. F("return", v, 0, 0)' = F("return", v, 0, 0) /\ F("return", v, 0, 0) # F("return", t, 0, 0)
            /\ F("return", v, 0, 0) # F("bind", t, 0, 0) /\ \A i : F("return", v, 0, 0) # F("arg", t, i, 0)
        BY <2>2 DEF F
      <4>2. var[v].live \/ \E y \in Clients : F("return", v, 0, 0) \in Ahead(y)'
        BY <1>2, <1>3, <4>1 DEF InUse
      <4>3. F("return", v, 0, 0) \notin Ahead(x)'
        BY <4>1, LaunchMoves
      <4>4. \A y \in Clients : y # x => Ahead(y)' = Ahead(y)
        BY ZenonT(60), LaunchMoves, NodesApart
      <4> QED
        BY <4>2, <4>3, <4>4 DEF InUse
    <3>2. PICK n, p, k : n = var[v].cur /\ p = var[v].port /\ k = Newest(v)
      OBVIOUS
    <3>3. n \in Nodes /\ p \in Slots(n)
      BY <3>1, <3>2, SlotIs DEF Core
    <3>4. Names(n, p, v, k)
      BY <1>0, <3>1, <3>2 DEF Currents, Current
    <3>5. Names(n, p, v, k)'
      BY <1>1, <3>3, <3>4 DEF Naming
    <3>6. Newest(v)' = k
      <4>1. last[v] \in Nat
        BY <1>0 DEF TypeOK
      <4>2. CASE \A j \in Writes(t)' : a[j].v # v
        <5>1. last'[v] = last[v] /\ (Opening(v)' <=> Opening(v))
          BY <1>0, <2>2, <4>2, LaunchLast, LaunchOpening
        <5> QED
          BY <3>2, <5>1 DEF Newest, One
      <4>3. ASSUME NEW j \in Writes(t)', a[j].v = v
            PROVE  Newest(v)' = k
        <5>1. last'[v] = last[v] + 1
          BY <4>3, LaunchLast
        <5>2. Opening(v)'
          BY <1>0, <2>2, <4>3, LaunchOpening
        <5>3. ~Opening(v)
          BY <4>3, LaunchAlone
        <5> QED
          BY <3>2, <4>1, <5>1, <5>2, <5>3 DEF Newest, One
      <4> QED
        BY <4>2, <4>3
    <3>7. var'[v].cur = n /\ var'[v].port = p
      BY <1>2, <3>2
    <3> QED
      BY <3>5, <3>6, <3>7 DEF Names
  <2> QED
    BY <2>1, <2>2
<1> QED
  BY <1>3 DEF Currents, Current

LEMMA LaunchVersions ==
  ASSUME Core, TypeOK', Versions, NEW x \in Clients, NEW t \in Tasks, NEW a \in ArgLists[t], Launch(x, t, a)
  PROVE  Versions'
<1>0. TypeOK /\ Endings /\ Heads /\ Dates
  BY DEF Core, Versions
<1>1. UNCHANGED <<head, nextWriter, var>>
  BY LaunchMoves
<1>2. Endings'
  <2>1. ASSUME NEW n \in Nodes, NEW p \in Slots(n)', nextWriter'[n][p] = NoOwner
        PROVE  p = 0 /\ IsVoid(n)
    <3>1. n # t
      <4>1. p \in Slots(t)' => nextWriter[t][p] = Null
        BY LaunchPorts, LaunchMoves DEF Core, Bodies, Staged
      <4> QED
        BY <1>1, <2>1, <4>1 DEF Null, NoOwner
    <3>2. p \in Slots(n)
      BY <3>1, LaunchSlots
    <3> QED
      BY <1>0, <1>1, <2>1, <3>2 DEF Endings, EndsVoid
  <2> QED
    BY <2>1 DEF Endings, EndsVoid, IsVoid, NoOwner
<1>3. Heads'
  <2>1. \A v \in Deferred : v \in Nodes /\ v \notin Tasks
    BY ConstantsAssumption, NodesApart DEF Nodes
  <2>2. \A v \in Deferred : Finished(v)' => Finished(v)
    BY <1>1, <2>1 DEF Finished, Null
  <2> QED
    BY <1>0, <1>1, <2>2, NamingLaunch, HeadsKept
<1> QED
  BY <1>0, <1>2, <1>3, LaunchClaims, LaunchReaching, LaunchCurrents, LaunchDates DEF Versions

(***************************************************************************)
(* A deferred variable gets its first writer                               *)
(***************************************************************************)
LEMMA HeadKept ==
  ASSUME Core, Naming, NEW v \in Deferred, Leading(v), head'[v] = head[v],
         var'[v].deferred = var[v].deferred, Finished(v)' => Finished(v)
  PROVE  Leading(v)'
<1>1. TypeOK /\ Bodies /\ Stores /\ v \in Nodes
  BY ConstantsAssumption DEF Core, Nodes
<1>2. head'[v].tag = "open" /\ Finished(v)' => var'[v].deferred
  BY DEF Leading
<1>3. ASSUME head'[v].tag = "redirect"
      PROVE  Names(head[v].arcs[1].node, head[v].arcs[1].port, v, 1)'
  <2>1. head[v].tag = "redirect"
    BY <1>3
  <2>2. PICK n, p : n = head[v].arcs[1].node /\ p = head[v].arcs[1].port
    OBVIOUS
  <2>3. Names(n, p, v, 1)
    BY <2>1, <2>2 DEF Leading
  <2>4. n \in Nodes /\ p \in Slots(n)
    <3>1. PICK t \in Tasks : \E i \in Writes(t) : args[t][i].v = v /\ head[v] = Redirect(t, PortOf(t, i))
      BY <1>1, <2>1, Redirects
    <3>2. PICK i \in Writes(t) : head[v] = Redirect(t, PortOf(t, i))
      BY <3>1
    <3>3. n = t /\ p = PortOf(t, i)
      BY <2>2, <3>2, RedirectIs
    <3> QED
      BY <1>1, <3>2, <3>3, PortsApart, NodesApart
  <2>5. Names(n, p, v, 1)'
    BY <2>3, <2>4 DEF Naming
  <2>6. head'[v].arcs[1].node = n /\ head'[v].arcs[1].port = p
    BY ZenonT(60), <2>2
  <2> QED
    BY <2>5, <2>6 DEF Names
<1> QED
  BY <1>2, <1>3 DEF Leading, Names

(* What a client writes is the newest version of the variable. *)
LEMMA WriteTop ==
  ASSUME Core, Versions, NEW x \in Clients, At(x, "arg"), NEW t \in Tasks, t = making[x],
         NEW i \in DOMAIN args[t], i = Cur(x).port, args[t][i].w
  PROVE  LET v == args[t][i].v IN
         /\ v \in Nodes /\ InUse(v) /\ var[v].live /\ Modifies(x, v) /\ i \in Writes(t) /\ InRun(x) /\ v # t
         /\ Cur(x) = F("arg", t, i, 0) /\ ToCome(t, i) /\ Opening(v)
         /\ want[t][i] \in Nat /\ last[v] = want[t][i] + 1 /\ Newest(v) = want[t][i]
<1>0. TypeOK /\ Claims /\ Dates
  BY DEF Core, Versions
<1>1. x \in Threads /\ todo[x] # <<>> /\ Cur(x).op = "arg" /\ Cur(x) \in Ahead(x) /\ Cur(x) \in Frame
      /\ Fits(Cur(x)) /\ Lies(x, todo[x], 1) /\ todo[x][1] = Cur(x) /\ InRun(x)
  BY CallTop DEF Calling, Asking
<1>2. Cur(x) = F("arg", t, i, 0)
  BY <1>1 DEF Lies, Fits, F, Frame
<1>3. ToCome(t, i)
  BY <1>1, <1>2 DEF ToCome
<1>4. i \in Writes(t)
  BY DEF Writes
<1>5. PICK v \in Nodes : v = args[t][i].v
  BY <1>0, WantIs
<1>6. InUse(v) /\ var[v].live /\ Modifies(x, v)
  BY <1>1, <1>5, ArgumentOf DEF Core
<1>7. Opening(v)
  BY <1>1, <1>2, <1>4, <1>5 DEF Opening, ToWrite
<1>8. want[t][i] \in Nat
  BY <1>0, WantIs
<1>9. last[v] = want[t][i] + 1
  BY <1>0, <1>3, <1>4, <1>5 DEF Claims, Claim, WritesOver
<1>10. Newest(v) = want[t][i]
  BY <1>7, <1>8, <1>9 DEF Newest, One
<1>11. v # t
  BY <1>0, <1>5 DEF Dates, Dated
<1> QED
  BY <1>1, <1>2, <1>3, <1>4, <1>5, <1>6, <1>7, <1>8, <1>9, <1>10, <1>11

LEMMA RedirectVarVersions ==
  ASSUME Core, Versions, NEW x \in Clients, RedirectVar(x)
  PROVE  Versions'
<1> USE DEF ghost
<1>0. TypeOK /\ Claims /\ Dates /\ Reaching /\ Currents /\ Endings /\ Heads
  BY DEF Core, Versions
<1>1. x \in Threads /\ todo[x] # <<>> /\ At(x, "arg") /\ InRun(x)
  BY CallTop, AtArg DEF Calling, Asking
<1>2. PICK t \in Tasks : t = making[x] /\ t \in Nodes
  BY CallTop, AtArg DEF Calling, Asking
<1>3. PICK i \in DOMAIN args[t] : i = Cur(x).port
  BY <1>1, <1>2, InSetup DEF Core, SetupOps
<1>4. PICK v \in Nodes : v = args[t][i].v
  BY ArgOf DEF Core
<1>5. args[t][i].w /\ var[v].deferred
  BY <1>2, <1>3, <1>4, RedirectVarSays
<1>6. /\ Modifies(x, v) /\ var[v].live /\ i \in Writes(t) /\ ToCome(t, i)
      /\ want[t][i] \in Nat /\ last[v] = want[t][i] + 1
  BY <1>1, <1>2, <1>3, <1>4, <1>5, WriteTop
<1>7. v \in Deferred /\ SlotOf(v) = <<v, 0>> /\ head[v].tag = "open" /\ last[v] <= 1
  BY <1>5 DEF Core, Firsts, Put
<1>8. var[v].cur = v /\ v \in Storage /\ v \notin Tasks /\ Slots(v) = {0} /\ want[t][i] = 0
  <2>1. v \in Storage /\ v \notin Tasks
    BY <1>7, ConstantsAssumption
  <2> QED
    BY <1>6, <1>7, <2>1 DEF SlotOf, Slots
<1>9. PICK q \in Port : q = PortOf(t, i) /\ q \in Slots(t)
  BY <1>6, PortsApart DEF Core
<1>10. Names(t, q, v, 1)
  BY <1>4, <1>6, <1>8, <1>9 DEF Names
<1>11. PICK r \in Seq(Arc) : r = head[v].arcs /\ r = Lists[v]
  BY <1>7, Families DEF Core
<1>12. PICK fs : fs = Moves(r, q)
  OBVIOUS
<1>13. /\ head' = [head EXCEPT ![v] = Redirect(t, q)]
       /\ var' = [var EXCEPT ![v] = [@ EXCEPT !.deferred = FALSE]]
       /\ todo' = [todo EXCEPT ![x] = fs \o @]
       /\ UNCHANGED <<node, nextWriter, args, making, phase, mem, last, want>>
  BY Zenon, <1>2, <1>3, <1>4, <1>8, <1>9, <1>11, <1>12 DEF RedirectVar
<1>14. /\ head'[v] = Redirect(t, q) /\ \A n \in Nodes : n # v => head'[n] = head[n]
       /\ \A u \in Nodes : /\ var'[u].live = var[u].live /\ var'[u].cur = var[u].cur /\ var'[u].port = var[u].port
                           /\ u # v => var'[u] = var[u]
  <2>1. var[v] \in OoxVar
    BY DEF Core, TypeOK
  <2>2. var'[v] = [var[v] EXCEPT !.deferred = FALSE] /\ \A u \in Nodes : u # v => var'[u] = var[u]
    BY <1>13 DEF Core, TypeOK
  <2>3. var'[v].live = var[v].live /\ var'[v].cur = var[v].cur /\ var'[v].port = var[v].port
    BY <2>1, <2>2 DEF OoxVar
  <2>4. head'[v] = Redirect(t, q) /\ \A n \in Nodes : n # v => head'[n] = head[n]
    BY <1>13 DEF Core, TypeOK
  <2> QED
    BY <2>2, <2>3, <2>4
<1>15. /\ fs \in Seq(Frame) /\ DOMAIN fs = DOMAIN r
       /\ \A j \in DOMAIN r : fs[j] = F("move", r[j].node, q, 0) /\ fs[j].op = "move"
  BY <1>12, MovesAre
<1>16. /\ Ahead(x)' = {fs[j] : j \in DOMAIN fs} \cup Ahead(x)
       /\ \A y \in Threads : y # x => Ahead(y)' = Ahead(y)
  <2>1. Upon(todo', todo, x, fs)
    BY <1>13 DEF Upon
  <2> QED
    BY <1>1, <1>15, <2>1, UponAhead DEF Core
<1>17. \A y \in Threads : \A f : f.op # "move" => (f \in Ahead(y)' <=> f \in Ahead(y))
  BY <1>15, <1>16
<1>18. \A y \in Clients : y \in Threads
  BY NodesApart
<1>19. Naming
  BY <1>13, NamingSame
<1>20. PICK g : g = F("rel", t, 0, 0)
  OBVIOUS
<1>21. g.op = "rel" /\ \A u, n, p : g # F("move", u, p, 0) /\ g # F("flow", u, p, 0) /\ g # F("link", n, p, 0)
                                    /\ g # F("arg", u, p, 0)
  BY <1>20, FrameFields
<1>22. Passes(x, g, v)
  <2>1. \A n \in Nodes : n # v => Lists'[n] = Lists[n]
    BY <1>14 DEF Lists
  <2>2. \A n \in Nodes : \A a : Listed(n, a) => Listed(n, a)' \/ n = v
    BY <2>1 DEF Listed
  <2>3. \A y \in Threads : \A f \in Ahead(y) : f \in Ahead(y)'
    BY <1>16
  <2> QED
    BY <1>13, <2>2, <2>3 DEF Passes
<1>23. ASSUME NEW u, Listed(v, FlowBack(u, 0))
       PROVE  Hangs(u, t, q)'
  <2>1. PICK j \in DOMAIN r : r[j] = FlowBack(u, 0)
    BY <1>11, <1>23 DEF Listed
  <2>2. fs[j] = F("move", u, q, 0)
    BY <1>15, <2>1, ArcsAre
  <2>3. F("move", u, q, 0) \in Ahead(x)' /\ F("move", u, q, 0)' = F("move", u, q, 0)
    BY <1>15, <1>16, <2>2 DEF F
  <2>4. Moved(u, t, q)'
    BY <1>2, <1>13, <2>3 DEF Moved
  <2> QED
    BY <2>4 DEF Hangs
<1>24. Regains(x, g, v)
  <2>1. ASSUME NEW u \in Tasks, NEW w, NEW k, Wants(u, w, k)
        PROVE  /\ \A n \in Nodes : \A p \in Slots(n) :
                    ~(Names(n, p, w, k) /\ (Goes(x, g, u, n, p) \/ Left(v, u, n, p)))
               /\ w \in Deferred /\ k = 1 /\ Parked(u, w) => Has(u, w, k)'
    <3>1. ASSUME NEW n \in Nodes, NEW p \in Slots(n), Names(n, p, w, k),
                 Goes(x, g, u, n, p) \/ Left(v, u, n, p)
          PROVE  FALSE
      <4>1. n = v
        BY <1>8, <1>21, <3>1 DEF Goes, Left, Attaching
      <4>2. p = 0
        BY <1>8, <3>1, <4>1
      <4>3. w = v /\ k = 0
        BY <1>8, <3>1, <4>1, <4>2, NamesOf DEF One
      <4>4. PICK j \in DOMAIN args[u] \ Writes(u) : w = args[u][j].v /\ k = want[u][j]
        BY <2>1 DEF Wants
      <4>5. Dated(u, j)
        BY <1>0 DEF Dates
      <4> QED
        BY <1>7, <4>3, <4>4, <4>5 DEF Dated
    <3>2. ASSUME w \in Deferred, k = 1, Parked(u, w)
          PROVE  Has(u, w, k)'
      <4>1. w \in Nodes
        BY <3>2, ConstantsAssumption DEF Nodes
      <4>2. Parked(u, w)' \/ (w = v /\ Listed(v, FlowBack(u, 0)))
        BY <1>21, <1>22, <3>2, <4>1, ParkedOr
      <4>3. CASE Parked(u, w)'
        BY <3>2, <4>3 DEF Has
      <4>4. CASE w = v /\ Listed(v, FlowBack(u, 0))
        <5>1. Hangs(u, t, q)' /\ Names(t, q, w, k)
          BY <1>10, <1>23, <3>2, <4>4
        <5> QED
          BY <1>0, <1>2, <1>9, <1>19, <5>1, HasIf
      <4> QED
        BY <4>2, <4>3, <4>4
    <3> QED
      BY <3>1, <3>2
  <2> QED
    BY <2>1 DEF Regains
<1>25. \A u \in Tasks : \A j : ToCome(u, j)' <=> ToCome(u, j)
  <2>1. NoNewArgs
    BY <1>13, <1>17, <1>18 DEF NoNewArgs
  <2> QED
    BY <1>21, <1>22, <2>1, ToComeBack, ToComeOr
<1>26. Claims'
  <2>1. TakesStay
    BY <1>13 DEF TakesStay, Takes, Writer
  <2>2. \A u \in Tasks : \A j \in Writes(u) : WritesOver(u, j)'
    BY <1>0, <1>13, <1>19, <1>25, <2>1, WritesKept
  <2>3. Follows
    BY <1>25 DEF Follows
  <2>4. \A u \in Tasks : phase[u] = "done" => phase'[u] = "done"
    BY <1>13
  <2> QED
    BY <1>0, <1>13, <1>19, <1>22, <1>24, <2>2, <2>3, <2>4, ClaimsKept
<1>27. Dates'
  BY <1>0, <1>13, DatesKept
<1>28. \A y \in Clients : \A f : f.op = "return" /\ f \in Ahead(y)' => f \in Ahead(y)
  BY <1>17, <1>18
<1>29. Reaching'
  <2>1. \A y \in Clients : InRun(y)' => InRun(y) /\ making'[y] = making[y]
    BY <1>13, <1>28, InRunBack
  <2> QED
    BY <1>0, <1>13, <2>1, ReachingKept
<1>30. Currents'
  <2>1. \A u : Newest(u)' = Newest(u)
    <3>1. \A y \in Clients : \A f : f.op = "arg" => (f \in Ahead(y)' <=> f \in Ahead(y))
      BY <1>17, <1>18
    <3> QED
      BY <1>13, <3>1, OpeningSame
  <2>2. \A u \in Nodes : InUse(u)' => InUse(u)
    BY <1>14, <1>28, InUseBack
  <2> QED
    BY <1>0, <1>14, <1>19, <2>1, <2>2, CurrentsKept
<1>31. Endings'
  BY <1>0, <1>13, EndingsKept
<1>32. Heads'
  <2>1. ASSUME NEW u \in Deferred, u # v
        PROVE  Leading(u)'
    <3>1. u \in Nodes
      BY ConstantsAssumption DEF Nodes
    <3>2. Finished(u)' <=> Finished(u)
      BY <1>13, FinishedSame
    <3>3. Leading(u) /\ head'[u] = head[u] /\ var'[u] = var[u]
      BY <1>0, <1>14, <2>1, <3>1 DEF Heads
    <3> QED
      BY <1>19, <3>2, <3>3, HeadKept
  <2>2. Leading(v)'
    <3>1. head'[v].tag = "redirect" /\ head'[v].arcs[1].node = t /\ head'[v].arcs[1].port = q
      BY <1>14, RedirectIs
    <3>2. Names(t, q, v, 1)'
      BY <1>2, <1>9, <1>10, <1>19 DEF Naming
    <3>3. Names(head[v].arcs[1].node, head[v].arcs[1].port, v, 1)'
      BY <3>1, <3>2 DEF Names
    <3> QED
      BY <3>1, <3>3 DEF Leading
  <2> QED
    BY <2>1, <2>2 DEF Heads
<1> QED
  BY <1>26, <1>27, <1>29, <1>30, <1>31, <1>32 DEF Versions

(***************************************************************************)
(* A variable is taken over by its next writer                             *)
(***************************************************************************)
LEMMA WriteArgVersions ==
  ASSUME Core, Versions, NEW x \in Clients, WriteArg(x)
  PROVE  Versions'
<1> USE DEF ghost
<1>0. TypeOK /\ Claims /\ Dates /\ Reaching /\ Currents /\ Endings /\ Heads
  BY DEF Core, Versions
<1>1. /\ x \in Threads /\ todo[x] # <<>> /\ At(x, "arg") /\ InRun(x) /\ Cur(x).op = "arg"
      /\ Lies(x, todo[x], 1) /\ todo[x][1] = Cur(x)
  BY CallTop, AtArg DEF Calling, Asking
<1>2. PICK t \in Tasks : t = making[x] /\ t \in Nodes
  BY CallTop, AtArg DEF Calling, Asking
<1>3. PICK i \in DOMAIN args[t] : i = Cur(x).port
  BY SMTT(30), <1>1, <1>2, InSetup DEF Core, SetupOps
<1>4. PICK v \in Nodes : v = args[t][i].v
  BY ArgOf DEF Core
<1>5. args[t][i].w /\ ~var[v].deferred
  BY <1>2, <1>3, <1>4, WriteArgSays
<1>6. /\ Modifies(x, v) /\ InUse(v) /\ var[v].live /\ i \in Writes(t) /\ ToCome(t, i) /\ Opening(v)
      /\ Cur(x) = F("arg", t, i, 0)
      /\ want[t][i] \in Nat /\ last[v] = want[t][i] + 1 /\ Newest(v) = want[t][i]
  BY <1>1, <1>2, <1>3, <1>4, <1>5, WriteTop
<1>7. \A y \in Clients : making[y] = t => y = x
  <2>1. Called(x) /\ t # NoTask
    BY <1>2, NoTaskIs DEF Core, Callers
  <2> QED
    BY <1>2, <2>1 DEF Called
<1>8. PICK q \in Port : q = PortOf(t, i) /\ q \in Slots(t)
  BY <1>6, PortsApart DEF Core
<1>9. PICK n \in Nodes, p \in Port : n = var[v].cur /\ p = var[v].port
  BY DEF Core, TypeOK, OoxVar
<1>10. p \in Slots(n) /\ Vacant(n, p) /\ node[n] # "unborn"
  BY <1>6, <1>9, SlotIs DEF Core
<1>11. PICK d : d = Writer(t)
  OBVIOUS
<1>12. d # Null /\ d # Ready /\ d # NoOwner
  BY <1>2, <1>11, NoTaskIs DEF Writer, Null, Ready, NoOwner
<1>13. PICK g : g = F("dec", n, p, 1)
  OBVIOUS
<1>14. g \in Frame /\ g.op = "dec"
  BY <1>13 DEF F, Frame, CountOps
<1>15. PICK fs : fs = IF nextWriter[n][p] = Ready THEN <<g>> ELSE <<>>
  OBVIOUS
<1>16. fs \in Seq(Frame) /\ \A j \in DOMAIN fs : fs[j] = g
  <2>1. CASE nextWriter[n][p] = Ready
    <3>1. fs = <<g>>
      BY <1>15, <2>1
    <3> QED
      BY <1>14, <3>1, OneIs
  <2>2. CASE nextWriter[n][p] # Ready
    <3>1. fs = <<>>
      BY <1>15, <2>2
    <3> QED
      BY <3>1
  <2> QED
    BY <2>1, <2>2
<1>17. /\ Then(x, fs)
       /\ nextWriter' = [nextWriter EXCEPT ![n][p] = d]
       /\ var' = [var EXCEPT ![v] = [@ EXCEPT !.cur = t, !.port = q]]
       /\ UNCHANGED <<node, head, args, making, phase, mem, last, want>>
  BY Zenon, <1>2, <1>3, <1>4, <1>8, <1>9, <1>11, <1>13, <1>15 DEF WriteArg, SetNextWriter, Owe
<1>18. /\ nextWriter'[n][p] = d
       /\ \A m \in Nodes : \A k \in Port : m # n \/ k # p => nextWriter'[m][k] = nextWriter[m][k]
  BY <1>17 DEF Core, TypeOK
<1>19. /\ var'[v].cur = t /\ var'[v].port = q
       /\ \A u \in Nodes : /\ var'[u].live = var[u].live /\ var'[u].deferred = var[u].deferred
                           /\ u # v => var'[u] = var[u]
  <2>1. var'[v] = [var[v] EXCEPT !.cur = t, !.port = q] /\ \A u \in Nodes : u # v => var'[u] = var[u]
    BY <1>17 DEF Core, TypeOK
  <2>2. var[v] \in OoxVar
    BY DEF Core, TypeOK
  <2>3. /\ var'[v].live = var[v].live /\ var'[v].deferred = var[v].deferred
        /\ var'[v].cur = t /\ var'[v].port = q
    BY <2>1, <2>2 DEF OoxVar
  <2> QED
    BY <2>1, <2>3
<1>20. /\ Ahead(x) = {Cur(x)} \cup After(todo[x], 1)
       /\ Ahead(x)' = {fs[j] : j \in DOMAIN fs} \cup After(todo[x], 1)
       /\ \A y \in Threads : y # x => Ahead(y)' = Ahead(y)
  BY <1>1, <1>16, <1>17, AheadThen DEF Core
<1>21. \A y \in Clients : y \in Threads
  BY NodesApart
<1>22. /\ \A y \in Threads : \A f : f.op \notin {"dec", "arg"} => (f \in Ahead(y)' <=> f \in Ahead(y))
       /\ \A y \in Threads : \A f : f.op # "dec" /\ f \in Ahead(y)' => f \in Ahead(y)
       /\ \A y \in Threads : \A f : f # Cur(x) /\ f.op # "dec" => (f \in Ahead(y)' <=> f \in Ahead(y))
  BY <1>1, <1>14, <1>16, <1>20
<1>23. Naming
  BY <1>17, NamingSame
<1>24. Passes(x, Cur(x), NoTask)
  <2>1. \A m \in Nodes : \A a : Listed(m, a) => Listed(m, a)'
    BY <1>17 DEF Listed, Lists
  <2> QED
    BY <1>1, <1>16, <1>17, <2>1, PassesThen DEF Core
<1>25. NoNewArgs
  <2>1. \A j \in DOMAIN fs : fs[j].op # "arg"
    BY <1>14, <1>16
  <2> QED
    BY <1>1, <1>16, <1>17, <2>1, NoNewThen DEF Core
<1>26. Regains(x, Cur(x), NoTask)
  BY <1>1, <1>24, LosesNothing DEF Attaching
<1>27. \A u \in Tasks : \A j : u # t \/ j # i => (ToCome(u, j)' <=> ToCome(u, j))
  <2>1. ASSUME NEW u \in Tasks, NEW j, ToCome(u, j), ~ToCome(u, j)'
        PROVE  u = t /\ j = i
    <3>1. making[x] = u /\ Cur(x) = F("arg", u, j, 0)
      BY <1>24, <2>1, ToComeOr
    <3> QED
      BY <1>2, <1>3, <3>1, FrameFields
  <2> QED
    BY <1>25, <2>1, ToComeBack
<1>28. F("arg", t, i, 0) \notin Ahead(x)'
  <2>1. PICK f : f = F("arg", t, i, 0)
    OBVIOUS
  <2>2. f.op = "arg" /\ f.port = i /\ i \in Nat
    <3>1. F("arg", t, i, 0).op = "arg" /\ F("arg", t, i, 0).port = i
      BY FrameFields
    <3>2. args[t] \in Seq([v : Nodes, w : BOOLEAN])
      BY <1>0 DEF TypeOK
    <3>3. i \in Nat
      BY <3>2
    <3> QED
      BY <2>1, <3>1, <3>3
  <2>3. ASSUME f \in After(todo[x], 1)
        PROVE  FALSE
    <3>1. Cur(x).port < f.port
      BY <1>1, <2>2, <2>3 DEF Lies
    <3> QED
      BY <1>3, <2>2, <3>1
  <2>4. \A j \in DOMAIN fs : fs[j] # f
    BY <1>14, <1>16, <2>2
  <2>5. f \notin Ahead(x)'
    BY <1>20, <2>3, <2>4
  <2> QED
    BY <2>1, <2>5
<1>29. ~ToCome(t, i)'
  <2>1. ASSUME NEW y \in Clients, making'[y] = t, F("arg", t, i, 0)' \in Ahead(y)'
        PROVE  FALSE
    <3>1. y = x
      BY <1>7, <1>17, <2>1
    <3>2. F("arg", t, i, 0)' = F("arg", t, i, 0)
      BY DEF F
    <3> QED
      BY <1>28, <2>1, <3>1, <3>2
  <2> QED
    BY <2>1 DEF ToCome
<1>30. TakesStay
  <2>1. ASSUME NEW u \in Tasks, NEW m \in Nodes, NEW k \in Slots(m), Takes(u, m, k)
        PROVE  Takes(u, m, k)'
    <3>1. k \in Port
      BY <1>0, SlotsArePorts
    <3>2. m # n \/ k # p
      <4>1. Writer(u) # Null /\ Writer(u) # Ready
        BY DEF Writer, Null, Ready
      <4> QED
        BY <1>10, <2>1, <4>1 DEF Takes, Vacant, Openable
    <3>3. nextWriter'[m][k] = nextWriter[m][k]
      BY <1>18, <3>1, <3>2
    <3> QED
      BY <2>1, <3>3 DEF Takes, Writer
  <2> QED
    BY <2>1 DEF TakesStay
<1>31. Claims'
  <2>1. ASSUME NEW u \in Tasks, NEW j \in Writes(u)
        PROVE  WritesOver(u, j)'
    <3>1. CASE u # t \/ j # i
      <4>1. ToCome(u, j)' <=> ToCome(u, j)
        BY <1>27, <3>1
      <4> QED
        BY <1>0, <1>17, <1>23, <1>30, <4>1, WritesKept
    <3>2. CASE u = t /\ j = i
      <4>1. PICK k : k = want[t][i]
        OBVIOUS
      <4>2. Names(n, p, v, k)
        BY <1>0, <1>6, <1>9, <4>1 DEF Currents, Current
      <4>3. Names(n, p, v, k)' /\ p \in Slots(n)'
        BY <1>10, <1>23, <4>2 DEF Naming
      <4>4. Takes(t, n, p)'
        BY <1>11, <1>18 DEF Takes, Writer
      <4>5. args'[t][i].v = v /\ want'[t][i] = k
        BY <1>4, <1>17, <4>1
      <4>6. Names(n, p, args[t][i].v, want[t][i])'
        BY <4>3, <4>5 DEF Names
      <4>7. \E m \in Nodes : \E l \in Port :
              l \in Slots(m)' /\ Names(m, l, args[t][i].v, want[t][i])' /\ Takes(t, m, l)'
        BY <4>3, <4>4, <4>6
      <4> QED
        BY <1>29, <3>2, <4>7 DEF WritesOver
    <3> QED
      BY <3>1, <3>2
  <2>2. Follows
    BY <1>6, <1>27 DEF Follows
  <2>3. \A u \in Tasks : phase[u] = "done" => phase'[u] = "done"
    BY <1>17
  <2> QED
    BY <1>0, <1>17, <1>23, <1>24, <1>26, <2>1, <2>2, <2>3, ClaimsKept
<1>32. Dates'
  BY <1>0, <1>17, DatesKept
<1>33. \A y \in Clients : \A f : f.op = "return" /\ f \in Ahead(y)' => f \in Ahead(y)
  BY <1>21, <1>22
<1>34. Reaching'
  <2>1. \A y \in Clients : InRun(y)' => InRun(y) /\ making'[y] = making[y]
    BY <1>17, <1>33, InRunBack
  <2> QED
    BY <1>0, <1>17, <2>1, ReachingKept
<1>35. ASSUME NEW y \in Clients, NEW j
       PROVE  /\ ToWrite(y, j)' => ToWrite(y, j)
              /\ ToWrite(y, j) /\ (y # x \/ j # i) => ToWrite(y, j)'
              /\ y = x /\ j = i => ~ToWrite(y, j)'
  <2>1. PICK f : f = F("arg", making[y], j, 0)
    OBVIOUS
  <2>2. f.op = "arg" /\ f.port = j
    BY <2>1, FrameFields
  <2>3. F("arg", making[y], j, 0)' = f /\ Writes(making[y])' = Writes(making[y])
    BY <1>17, <2>1 DEF F, Writes
  <2>4. f \in Ahead(y)' => f \in Ahead(y)
    BY <1>21, <1>22, <2>2
  <2>5. y # x \/ j # i => (f \in Ahead(y) => f \in Ahead(y)')
    <3>1. CASE y # x
      BY <1>20, <1>21, <3>1
    <3>2. CASE y = x /\ j # i
      BY <1>1, <1>3, <1>22, <2>2, <3>2
    <3> QED
      BY <3>1, <3>2
  <2>6. y = x /\ j = i => f \notin Ahead(y)'
    BY <1>2, <1>28, <2>1
  <2> QED
    BY <2>1, <2>3, <2>4, <2>5, <2>6 DEF ToWrite
<1>36. ~Opening(v)'
  <2>1. ASSUME NEW y \in Clients, making[y] \in Tasks, NEW j \in DOMAIN args[making[y]],
               ToWrite(y, j)', args[making[y]][j].v = v
        PROVE  FALSE
    <3>1. ToWrite(y, j)
      BY <1>35, <2>1
    <3>2. j \in Writes(making[y])
      BY <3>1 DEF ToWrite
    <3>3. CASE y = x
      <4>1. j # i
        BY <1>35, <2>1, <3>3
      <4>2. Apart(t)
        BY DEF Core, Distinct
      <4> QED
        BY <1>2, <1>4, <1>5, <2>1, <3>3, <4>1, <4>2 DEF Apart
    <3>4. CASE y # x
      <4>1. InRun(y)
        <5>1. PICK f : f = F("arg", making[y], j, 0)
          OBVIOUS
        <5>2. f \in Ahead(y) /\ f.op = "arg"
          BY <3>1, <5>1, FrameFields DEF ToWrite
        <5> QED
          BY <5>2, SettingUp DEF Core, Calling, Asking
      <4>2. Modifies(y, v)
        BY <1>0, <2>1, <3>2, <4>1, ArgumentOf DEF Core
      <4>3. Called(x)
        BY DEF Core, Callers
      <4> QED
        BY <1>1, <1>6, <3>4, <4>2, <4>3 DEF Called
    <3> QED
      BY <3>3, <3>4
  <2>2. ASSUME Opening(v)'
        PROVE  FALSE
    <3>1. PICK y \in Clients : /\ making'[y] \in Tasks
                               /\ \E j \in DOMAIN args'[making'[y]] :
                                    ToWrite(y, j)' /\ args'[making'[y]][j].v = v
      BY <2>2 DEF Opening
    <3>2. PICK j \in DOMAIN args'[making'[y]] : ToWrite(y, j)' /\ args'[making'[y]][j].v = v
      BY <3>1
    <3>3. making[y] \in Tasks /\ j \in DOMAIN args[making[y]] /\ args[making[y]][j].v = v
      BY <1>17, <3>1, <3>2
    <3> QED
      BY <2>1, <3>2, <3>3
  <2> QED
    BY <2>2
<1>37. \A u \in Nodes : u # v => Newest(u)' = Newest(u)
  <2>1. ASSUME NEW u \in Nodes, u # v
        PROVE  Opening(u)' <=> Opening(u)
    <3>1. ASSUME NEW y \in Clients, making[y] \in Tasks, NEW j \in DOMAIN args[making[y]],
                 args[making[y]][j].v = u
          PROVE  ToWrite(y, j)' <=> ToWrite(y, j)
      <4>1. y # x \/ j # i
        BY <1>2, <1>4, <2>1, <3>1
      <4> QED
        BY <1>35, <4>1
    <3>2. Opening(u)' <=> \E y \in Clients : /\ making[y] \in Tasks
                                             /\ \E j \in DOMAIN args[making[y]] :
                                                  ToWrite(y, j)' /\ args[making[y]][j].v = u
      BY <1>17 DEF Opening
    <3>3. Opening(u) <=> \E y \in Clients : /\ making[y] \in Tasks
                                            /\ \E j \in DOMAIN args[making[y]] :
                                                 ToWrite(y, j) /\ args[making[y]][j].v = u
      BY DEF Opening
    <3> QED
      BY <3>1, <3>2, <3>3
  <2> QED
    BY <1>17, <2>1 DEF Newest, One
<1>38. Currents'
  <2>1. ASSUME NEW u \in Nodes, InUse(u)'
        PROVE  Names(var[u].cur, var[u].port, u, Newest(u))'
    <3>1. CASE u = v
      <4>1. PICK k : k = last[v]
        OBVIOUS
      <4>2. Names(t, q, v, k)
        BY <1>4, <1>6, <1>8, <4>1 DEF Names
      <4>3. Names(t, q, v, k)'
        BY <1>2, <1>8, <1>23, <4>2 DEF Naming
      <4>4. Newest(v)' = k
        <5>1. k \in Nat
          BY <1>6, <4>1
        <5> QED
          BY <1>17, <1>36, <4>1, <5>1 DEF Newest, One
      <4> QED
        BY <1>19, <3>1, <4>3, <4>4 DEF Names
    <3>2. CASE u # v
      <4>1. PICK m, k, z : m = var[u].cur /\ k = var[u].port /\ z = Newest(u)
        OBVIOUS
      <4>2. InUse(u)
        BY <1>19, <1>33, <2>1, InUseBack
      <4>3. m \in Nodes /\ k \in Slots(m)
        BY <4>1, <4>2, SlotIs DEF Core
      <4>4. Names(m, k, u, z)
        BY <1>0, <4>1, <4>2 DEF Currents, Current
      <4>5. Names(m, k, u, z)'
        BY <1>23, <4>3, <4>4 DEF Naming
      <4>6. var'[u].cur = m /\ var'[u].port = k /\ Newest(u)' = z
        BY <1>19, <1>37, <3>2, <4>1
      <4> QED
        BY <4>5, <4>6 DEF Names
    <3> QED
      BY <3>1, <3>2
  <2> QED
    BY <2>1 DEF Currents, Current
<1>39. Endings'
  <2>1. ASSUME NEW m \in Nodes, NEW k \in Slots(m), nextWriter'[m][k] = NoOwner
        PROVE  nextWriter[m][k] = NoOwner
    <3>1. k \in Port
      BY <1>0, SlotsArePorts
    <3> QED
      BY <1>12, <1>18, <2>1, <3>1
  <2> QED
    BY <1>0, <1>17, <2>1, EndingsKept
<1>40. Heads'
  <2>1. ASSUME NEW u \in Deferred, Finished(u)'
        PROVE  Finished(u)
    <3>1. u \in Storage /\ u \in Nodes /\ u \notin Tasks /\ 0 \in Port
      BY ConstantsAssumption, NodesApart DEF Nodes
    <3>2. CASE u = n
      <4>1. Stored(u)
        BY <3>1 DEF Core, Stores
      <4> QED
        BY <1>10, <3>2, <4>1 DEF Stored
    <3>3. CASE u # n
      <4>1. nextWriter'[u][0] = nextWriter[u][0]
        BY <1>18, <3>1, <3>3
      <4> QED
        BY <2>1, <3>1, <4>1 DEF Finished, Null
    <3> QED
      BY <3>2, <3>3
  <2>2. Deferred \subseteq Nodes
    BY ConstantsAssumption DEF Nodes
  <2> QED
    BY <1>0, <1>17, <1>19, <1>23, <2>1, <2>2, HeadsKept
<1> QED
  BY <1>31, <1>32, <1>34, <1>38, <1>39, <1>40 DEF Versions

(***************************************************************************)
(* Versions is an inductive invariant                                      *)
(***************************************************************************)
LEMMA StutterVersions ==
  ASSUME Core, Versions, UNCHANGED vars
  PROVE  Versions'
<1>0. TypeOK /\ Claims /\ Dates /\ Reaching /\ Currents /\ Endings /\ Heads
  BY DEF Core, Versions
<1>1. UNCHANGED <<node, head, nextWriter, var, args, making, todo, phase, mem, last, want>>
  BY DEF vars, engine, setup, ghost
<1>2. \A x : Ahead(x)' = Ahead(x)
  BY <1>1 DEF Ahead
<1>3. Naming
  BY <1>1, NamingSame
<1>4. \A n : Lists'[n] = Lists[n]
  BY <1>1 DEF Lists
<1>5. PICK g : g = F("rel", NoTask, 0, 0)
  OBVIOUS
<1>6. g.op = "rel" /\ \A u, p : g # F("arg", u, p, 0)
  BY <1>5, FrameFields
<1>7. Passes(NoTask, g, NoTask)
  BY <1>1, <1>2, <1>4 DEF Passes, Listed
<1>8. NoNewArgs
  BY <1>1, <1>2 DEF NoNewArgs
<1>9. \A u \in Tasks : \A j : ToCome(u, j)' <=> ToCome(u, j)
  BY <1>6, <1>7, <1>8, ToComeBack, ToComeOr
<1>10. Claims'
  <2>1. TakesStay
    BY <1>1 DEF TakesStay, Takes, Writer
  <2>2. \A u \in Tasks : \A j \in Writes(u) : WritesOver(u, j)'
    BY <1>0, <1>1, <1>3, <1>9, <2>1, WritesKept
  <2>3. Follows
    BY <1>9 DEF Follows
  <2>4. Regains(NoTask, g, NoTask)
    BY <1>6, <1>7, LosesNothing DEF Attaching
  <2>5. \A u \in Tasks : phase[u] = "done" => phase'[u] = "done"
    BY <1>1
  <2> QED
    BY <1>0, <1>1, <1>3, <1>7, <2>2, <2>3, <2>4, <2>5, ClaimsKept
<1>11. Dates'
  BY <1>0, <1>1, DatesKept
<1>12. \A y \in Clients : \A f : f.op = "return" /\ f \in Ahead(y)' => f \in Ahead(y)
  BY <1>2
<1>13. Reaching'
  <2>1. \A y \in Clients : InRun(y)' => InRun(y) /\ making'[y] = making[y]
    BY <1>1, <1>12, InRunBack
  <2> QED
    BY <1>0, <1>1, <2>1, ReachingKept
<1>14. Currents'
  <2>1. \A u : Newest(u)' = Newest(u)
    BY <1>1, <1>2, OpeningSame
  <2>2. \A u \in Nodes : InUse(u)' => InUse(u)
    BY <1>1, <1>12, InUseBack
  <2> QED
    BY <1>0, <1>1, <1>3, <2>1, <2>2, CurrentsKept
<1>15. Endings'
  BY <1>0, <1>1, EndingsKept
<1>16. Heads'
  <2>1. \A u : Finished(u)' <=> Finished(u)
    BY <1>1, FinishedSame
  <2> QED
    BY <1>0, <1>1, <1>3, <2>1, HeadsKept
<1> QED
  BY <1>10, <1>11, <1>13, <1>14, <1>15, <1>16 DEF Versions

LEMMA InitVersions == Init => Versions
<1> SUFFICES ASSUME Init
             PROVE  Versions
  OBVIOUS
<1>1. Core /\ TypeOK
  BY InitCore DEF Core
<1>2. /\ \A x \in Threads : todo[x] = <<>> /\ Ahead(x) = {} /\ DOMAIN todo[x] = {}
      /\ \A n \in Nodes : /\ head[n].tag = "open" /\ last[n] = 0 /\ mem[n] = 0 /\ ~var[n].live
                          /\ \A p \in Port : nextWriter[n][p] = Null
      /\ \A t \in Tasks : args[t] = <<>> /\ phase[t] = "idle" /\ last[t] = 0
  BY DEF Init, Ahead, Open, Nodes
<1>3. \A t \in Tasks : Writes(t) = {} /\ DOMAIN args[t] = {}
  BY <1>2 DEF Writes
<1>4. \A x \in Clients : x \in Threads
  BY NodesApart
<1>5. Claims
  BY <1>3 DEF Claims
<1>6. Dates
  BY <1>2, <1>3 DEF Dates, Results, Alone
<1>7. Reaching
  BY <1>2, <1>4 DEF Reaching, UpToDate, InRun
<1>8. Currents
  BY <1>2, <1>4 DEF Currents, Current, InUse
<1>9. Endings
  <2>1. \A n \in Nodes : Slots(n) \subseteq Port
    BY <1>1, SlotsArePorts
  <2> QED
    BY <1>2, <2>1 DEF Endings, EndsVoid, Null, NoOwner
<1>10. Heads
  <2>1. ASSUME NEW v \in Deferred
        PROVE  Leading(v)
    <3>1. v \in Nodes /\ v \notin Tasks /\ 0 \in Port
      BY ConstantsAssumption, NodesApart DEF Nodes
    <3>2. ~Finished(v) /\ head[v].tag = "open"
      BY <1>2, <3>1 DEF Finished
    <3> QED
      BY <3>2 DEF Leading
  <2> QED
    BY <2>1 DEF Heads
<1> QED
  BY <1>5, <1>6, <1>7, <1>8, <1>9, <1>10 DEF Versions

LEMMA NextVersions ==
  ASSUME Core, TypeOK', Versions, [Next]_vars
  PROVE  Versions'
<1>1. ASSUME NEW x \in Clients, Call(x)
      PROVE  Versions'
  <2>1. ASSUME NEW s \in Storage, Create(x, s)
        PROVE  Versions'
    BY <2>1, CreateVersions
  <2>2. ASSUME NEW t \in Tasks, NEW a \in ArgLists[t], Run(x, t, a)
        PROVE  Versions'
    BY <2>2, LaunchVersions DEF Run
  <2>3. ASSUME NEW v \in Nodes, Drop(x, v)
        PROVE  Versions'
    BY <2>3, DropVersions
  <2>4. ASSUME NEW v \in Waitable, WaitVar(x, v)
        PROVE  Versions'
    BY <2>4, WaitVarVersions
  <2> QED
    BY <1>1, <2>1, <2>2, <2>3, <2>4 DEF Call
<1>2. ASSUME NEW x \in Clients, ClientStep(x)
      PROVE  Versions'
  BY <1>2, ReadArgVersions, LinkVersions, HopVersions, LateVersions, HoldVersions, RedirectVarVersions,
     MoveVersions, WriteArgVersions, BindVersions, ReturnVersions, WaitVersions, BlockVersions DEF ClientStep
<1>3. ASSUME NEW x \in Threads, CountStep(x)
      PROVE  Versions'
  BY <1>3, PreVersions, JoinVersions, RelVersions, SubVersions, DecVersions DEF CountStep
<1>4. ASSUME NEW t \in Tasks, WorkerStep(t)
      PROVE  Versions'
  BY <1>4, StartVersions, FinishVersions, ExchangeVersions, FlowVersions, OutVersions, WakeupVersions
     DEF WorkerStep
<1>5. CASE Rest \/ UNCHANGED vars
  BY <1>5, StutterVersions DEF Rest
<1> QED
  BY <1>1, <1>2, <1>3, <1>4, <1>5 DEF Next

(* Versions is an inductive invariant, relative to Core. *)
THEOREM VersionsHold == Spec => []Versions
<1>1. Init => Versions
  BY InitVersions
<1>2. Core /\ Versions /\ [Next]_vars => Versions'
  <2>1. ASSUME Core, Versions, [Next]_vars
        PROVE  TypeOK'
    <3>1. TypeOK
      BY <2>1 DEF Core
    <3> QED
      BY <2>1, <3>1, NextType
  <2> QED
    BY <2>1, NextVersions
<1> QED
  BY <1>1, <1>2, CoreHolds, PTL DEF Spec

(* A parallel program reads what the serial one would: while a body runs, in every reachable
   state, each of its variables holds the version of program order (oox::run). *)
THEOREM SerialReadsHold == Spec => []SerialReads
<1>1. Core /\ Versions => SerialReads
  <2>1. ASSUME Core, Versions, NEW t \in Tasks, phase[t] = "running", NEW i \in DOMAIN args[t]
        PROVE  mem[args[t][i].v] = want[t][i]
    <3>1. startCount[t] = 0
      BY <2>1 DEF Core, Bodies, Staged
    <3>2. Dates /\ Claims /\ phase[t] # "done"
      BY <2>1 DEF Versions
    <3> QED
      BY <2>1, <3>1, <3>2, SerialNow
  <2> QED
    BY <2>1 DEF SerialReads
<1> QED
  BY <1>1, CoreHolds, VersionsHold, PTL

(***************************************************************************)
(* The engine implements the dataflow                                      *)
(***************************************************************************)
(* A started task waits for nobody. *)
LEMMA StartUnblocked ==
  ASSUME Core, Versions, NEW t \in Tasks, startCount[t] = 0, phase[t] = "pending"
  PROVE  D!Unblocked(t)
<1>0. TypeOK /\ Claims /\ Dates /\ Reaching /\ Heads /\ t \in Nodes
  BY NodesApart DEF Core, Versions
<1>1. /\ \A u \in Tasks : Results(u)
      /\ \A u \in Tasks : \A j \in DOMAIN args[u] : Dated(u, j)
      /\ \A v \in Nodes : mem[v] <= last[v] /\ mem[v] \in Nat /\ last[v] \in Nat
  BY <1>0, NamesDated
<1>2. ASSUME NEW i \in DOMAIN args[t]
      PROVE  args[t][i].v \in Nodes /\ want[t][i] \in Nat /\ mem[args[t][i].v] = want[t][i]
  BY <1>0, <1>2, WantIs, SerialNow
<1>3. \A u \in Tasks : \A j \in Writes(u) : j \in DOMAIN args[u] /\ want[u][j] \in Nat
  BY <1>0, WantIs DEF Writes
<1>4. ASSUME NEW u \in Tasks, NEW c \in WritesOf(u), c[1] \in Nodes, mem[c[1]] = c[2]
      PROVE  phase[u] = "done"
  <2>1. CASE \E j \in Writes(u) : c = <<args[u][j].v, want[u][j] + 1>>
    <3>1. PICK j \in Writes(u) : c = <<args[u][j].v, want[u][j] + 1>>
      BY <2>1
    <3>2. Dated(u, j) /\ want[u][j] \in Nat
      BY <1>1, <1>3
    <3>3. mem[args[u][j].v] = want[u][j] + 1
      BY <1>4, <3>1
    <3> QED
      BY <3>2, <3>3 DEF Dated
  <2>2. CASE phase[u] # "idle" /\ c = <<u, 1>>
    <3>1. Results(u)
      BY <1>1
    <3> QED
      BY <1>4, <2>2, <3>1 DEF Results
  <2> QED
    BY <2>1, <2>2 DEF WritesOf
<1>5. D!Written(t)
  <2>1. ASSUME NEW c \in ReadsOf(t)
        PROVE  c[2] <= last[c[1]]
    <3>1. PICK i \in DOMAIN args[t] \ Writes(t) : c = <<args[t][i].v, want[t][i]>>
      BY DEF ReadsOf
    <3> QED
      BY <1>1, <1>2, <3>1
  <2> QED
    BY <2>1 DEF D!Written
<1>6. ASSUME NEW u \in Tasks, NEW c \in ReadsOf(t), c \in WritesOf(u)
      PROVE  phase[u] = "done"
  <2>1. PICK i \in DOMAIN args[t] \ Writes(t) : c = <<args[t][i].v, want[t][i]>>
    BY <1>6 DEF ReadsOf
  <2>2. c[1] \in Nodes /\ mem[c[1]] = c[2]
    BY <1>2, <2>1
  <2> QED
    BY <1>4, <1>6, <2>2
<1>7. ASSUME NEW u \in Tasks, NEW c \in WritesOf(t), <<c[1], c[2] - 1>> \in WritesOf(u) \cup ReadsOf(u)
      PROVE  phase[u] = "done"
  <2>1. CASE \E i \in Writes(t) : c = <<args[t][i].v, want[t][i] + 1>>
    <3>1. PICK i \in Writes(t) : c = <<args[t][i].v, want[t][i] + 1>>
      BY <2>1
    <3>2. PICK v, k : v = args[t][i].v /\ k = want[t][i]
      OBVIOUS
    <3>3. v \in Nodes /\ k \in Nat /\ mem[v] = k
      BY <1>2, <1>3, <3>2
    <3>4. <<c[1], c[2] - 1>> = <<v, k>>
      BY <3>1, <3>2, <3>3
    <3>5. CASE <<v, k>> \in WritesOf(u)
      BY <1>4, <3>3, <3>5
    <3>6. CASE <<v, k>> \in ReadsOf(u)
      <4>1. PICK j \in DOMAIN args[u] \ Writes(u) : <<v, k>> = <<args[u][j].v, want[u][j]>>
        BY <3>6 DEF ReadsOf
      <4>2. args[u][j].v = args[t][i].v /\ want[u][j] = want[t][i]
        BY <3>2, <4>1
      <4> QED
        BY <1>0, <4>2, NoneLeft
    <3> QED
      BY <1>7, <3>4, <3>5, <3>6
  <2>2. CASE c = <<t, 1>>
    <3>1. <<c[1], c[2] - 1>> = <<t, 0>>
      BY <2>2
    <3>2. <<t, 0>> \notin WritesOf(u)
      <4>1. \A j \in Writes(u) : want[u][j] + 1 # 0
        BY <1>3
      <4> QED
        BY <4>1 DEF WritesOf
    <3>3. ASSUME <<t, 0>> \in ReadsOf(u)
          PROVE  FALSE
      <4>1. PICK j \in DOMAIN args[u] \ Writes(u) : <<t, 0>> = <<args[u][j].v, want[u][j]>>
        BY <3>3 DEF ReadsOf
      <4>2. Dated(u, j)
        BY <1>1
      <4> QED
        BY <4>1, <4>2 DEF Dated
    <3> QED
      BY <1>7, <3>1, <3>2, <3>3
  <2> QED
    BY <2>1, <2>2 DEF WritesOf
<1>8. \A u \in Tasks : D!After(t, u) => phase[u] = "done"
  BY <1>6, <1>7 DEF D!After
<1> QED
  BY <1>5, <1>8 DEF D!Unblocked

LEMMA InitImplements == Init => D!Init
<1> SUFFICES ASSUME Init
             PROVE  D!Init
  OBVIOUS
<1>1. /\ phase = [t \in Tasks |-> "idle"] /\ args = [t \in Tasks |-> <<>>]
      /\ last = [v \in Nodes |-> 0] /\ mem = [v \in Nodes |-> 0]
  BY DEF Init
<1>2. \A t \in Tasks : DOMAIN args[t] = {} /\ Writes(t) = {}
  BY <1>1 DEF Writes
<1>3. \A t \in Tasks : ReadsOf(t) = {} /\ WritesOf(t) = {}
  BY <1>1, <1>2 DEF ReadsOf, WritesOf
<1> QED
  BY <1>1, <1>3 DEF D!Init

LEMMA StartImplements ==
  ASSUME Core, Versions, NEW t \in Tasks, Start(t)
  PROVE  D!Start(t)
<1> USE DEF setup
<1>1. phase[t] = "pending" /\ startCount[t] = 0
  <2>1. t \in Threads /\ todo[t] # <<>> /\ At(t, "start")
    BY AtTop, NodesApart DEF Start, Core
  <2>2. phase[t] = "pending"
    BY <2>1, WorkerStage DEF Core
  <2> QED
    BY <2>1, <2>2 DEF Core, Bodies, Staged
<1>2. phase' = [phase EXCEPT ![t] = "running"] /\ UNCHANGED <<args, mem, last, want>>
  BY DEF Start
<1>3. \A u \in Tasks : phase'[u] = "idle" <=> phase[u] = "idle"
  BY <1>1, <1>2 DEF Core, TypeOK
<1>4. \A u \in Tasks : Writes(u)' = Writes(u)
  BY <1>2 DEF Writes
<1>5. \A u \in Tasks : ReadsOf(u)' = ReadsOf(u) /\ WritesOf(u)' = WritesOf(u)
  BY <1>2, <1>3, <1>4 DEF ReadsOf, WritesOf
<1>6. D!Unblocked(t)
  BY <1>1, StartUnblocked
<1> QED
  BY <1>1, <1>2, <1>5, <1>6 DEF D!Start

LEMMA FinishImplements ==
  ASSUME Core, TypeOK', Versions, NEW t \in Tasks, Finish(t)
  PROVE  D!Finish(t)
<1>0. TypeOK /\ Dates /\ Distinct /\ t \in Nodes
  BY NodesApart DEF Core, Versions
<1>1. /\ phase[t] = "running" /\ phase'[t] = "done" /\ UNCHANGED <<args, want, last>>
      /\ \A u \in Tasks : u # t => phase'[u] = phase[u]
      /\ mem'[t] = 1
      /\ \A i \in Writes(t) : args[t][i].v # t /\ mem'[args[t][i].v] = want[t][i] + 1
      /\ \A v \in Nodes : v # t /\ (\A i \in Writes(t) : args[t][i].v # v) => mem'[v] = mem[v]
  BY <1>0, FinishMem
<1>2. phase' = [phase EXCEPT ![t] = "done"]
  BY DEF Finish
<1>3. \A u \in Tasks : phase'[u] = "idle" <=> phase[u] = "idle"
  BY <1>1
<1>4. \A u \in Tasks : Writes(u)' = Writes(u)
  BY <1>1 DEF Writes
<1>5. \A u \in Tasks : ReadsOf(u)' = ReadsOf(u) /\ WritesOf(u)' = WritesOf(u)
  BY <1>1, <1>3, <1>4 DEF ReadsOf, WritesOf
<1>6. mem' = [v \in Nodes |-> mem'[v]]
  BY DEF TypeOK
<1>7. ASSUME NEW v \in Nodes
      PROVE  mem'[v] = IF \E k \in 1..last[v] : <<v, k>> \in WritesOf(t)
                       THEN CHOOSE k \in 1..last[v] : <<v, k>> \in WritesOf(t)
                       ELSE mem[v]
  <2>1. CASE v = t
    <3>1. \A k : <<v, k>> \in WritesOf(t) <=> k = 1
      BY <1>1, <2>1 DEF WritesOf
    <3>2. Results(t) /\ last[t] \in Nat
      BY <1>0 DEF Dates, TypeOK
    <3>3. 1 \in 1..last[v]
      BY <1>1, <2>1, <3>2 DEF Results
    <3> QED
      BY <1>1, <2>1, <3>1, <3>3
  <2>2. CASE \E i \in Writes(t) : args[t][i].v = v
    <3>1. PICK i \in Writes(t) : args[t][i].v = v
      BY <2>2
    <3>2. i \in DOMAIN args[t] /\ args[t][i].w
      BY DEF Writes
    <3>3. PICK m \in Nat : m = want[t][i]
      BY <1>0, <3>2, WantIs
    <3>4. \A j \in Writes(t) : args[t][j].v = v => j = i
      BY <1>0, <3>1, <3>2 DEF Distinct, Apart, Writes
    <3>5. \A k : <<v, k>> \in WritesOf(t) <=> k = m + 1
      BY <1>1, <3>1, <3>3, <3>4 DEF WritesOf
    <3>6. m < last[v] /\ last[v] \in Nat
      <4>1. Dated(t, i)
        BY <1>0, <3>2 DEF Dates
      <4> QED
        BY <1>0, <3>1, <3>3, <4>1 DEF Dated, TypeOK
    <3>7. m + 1 \in 1..last[v]
      BY <3>6
    <3>8. mem'[v] = m + 1
      BY <1>1, <3>1, <3>3
    <3> QED
      BY <3>5, <3>7, <3>8
  <2>3. CASE v # t /\ \A i \in Writes(t) : args[t][i].v # v
    <3>1. \A k : <<v, k>> \notin WritesOf(t)
      BY <2>3 DEF WritesOf
    <3> QED
      BY <1>1, <2>3, <3>1
  <2> QED
    BY <2>1, <2>2, <2>3
<1>8. mem' = [v \in Nodes |-> IF \E k \in 1..last[v] : <<v, k>> \in WritesOf(t)
                              THEN CHOOSE k \in 1..last[v] : <<v, k>> \in WritesOf(t)
                              ELSE mem[v]]
  BY <1>6, <1>7
<1> QED
  BY <1>1, <1>2, <1>5, <1>8 DEF D!Finish

LEMMA LaunchImplements ==
  ASSUME Core, TypeOK', Versions, NEW x \in Clients, NEW t \in Tasks, NEW a \in ArgLists[t], Launch(x, t, a)
  PROVE  D!Launch(t)
<1>0. TypeOK /\ Dates /\ Bodies /\ t \in Nodes
  BY NodesApart DEF Core, Versions
<1>1. /\ phase[t] = "idle" /\ args'[t] = a /\ phase'[t] = "pending"
      /\ \A u \in Tasks : u # t => args'[u] = args[u] /\ want'[u] = want[u] /\ phase'[u] = phase[u]
      /\ mem' = mem
  BY LaunchMoves
<1>2. phase' = [phase EXCEPT ![t] = "pending"]
  BY DEF Launch
<1>3. \A i \in DOMAIN a : /\ a[i].v \in Nodes /\ a[i].v # t /\ node[a[i].v] # "unborn"
                          /\ a[i].w \in BOOLEAN /\ a[i] = [v |-> a[i].v, w |-> a[i].w]
                          /\ want'[t][i] = Version(a[i].v, a[i].w)
                          /\ \A j \in DOMAIN a : i # j /\ a[j].v = a[i].v => ~a[i].w /\ ~a[j].w
  BY LaunchArgs
<1>4. Writes(t)' = {i \in DOMAIN a : a[i].w} /\ \A u \in Tasks : u # t => Writes(u)' = Writes(u)
  BY LaunchSlots, NodesApart
<1>5. last' = [v \in Nodes |-> IF v = t THEN 1
                              ELSE IF \E i \in DOMAIN a : a[i] = [v |-> v, w |-> TRUE]
                                   THEN last[v] + 1 ELSE last[v]]
  BY DEF Launch
<1>6. last[t] = 0
  BY <1>0, <1>1 DEF Dates, Results
<1>7. PICK R, W : R = {a[i].v : i \in {j \in DOMAIN a : ~a[j].w}} /\ W = {a[i].v : i \in {j \in DOMAIN a : a[j].w}}
  OBVIOUS
<1>8. R \in SUBSET Nodes /\ W \in SUBSET Nodes /\ R \cap W = {} /\ t \notin R \cup W
  <2>1. R \cap W = {}
    BY <1>3, <1>7
  <2> QED
    BY <1>3, <1>7, <2>1
<1>9. \A v \in R \cup W : v \in Tasks => phase[v] # "idle"
  BY <1>0, <1>3, <1>7 DEF Bodies, Staged
<1>10. /\ \A v : D!Current(v) = IF v \in Deferred /\ last[v] = 0 THEN 1 ELSE last[v]
       /\ \A v : Version(v, FALSE) = D!Current(v) /\ Version(v, TRUE) = last[v]
  BY DEF D!Current, Version
<1>11. ReadsOf(t)' = {<<v, D!Current(v)>> : v \in R}
  <2>1. ReadsOf(t)' = {<<a[i].v, want'[t][i]>> : i \in DOMAIN a \ {j \in DOMAIN a : a[j].w}}
    BY <1>1, <1>4 DEF ReadsOf
  <2>2. \A i \in DOMAIN a : ~a[i].w => want'[t][i] = D!Current(a[i].v)
    BY Zenon, <1>3, <1>10
  <2> QED
    BY <1>7, <2>1, <2>2
<1>12. WritesOf(t)' = {<<v, last[v] + 1>> : v \in W \cup {t}}
  <2>1. WritesOf(t)' = {<<a[i].v, want'[t][i] + 1>> : i \in {j \in DOMAIN a : a[j].w}} \cup {<<t, 1>>}
    BY <1>1, <1>4 DEF WritesOf
  <2>2. \A i \in DOMAIN a : a[i].w => want'[t][i] = last[a[i].v]
    BY <1>3, <1>10
  <2>3. <<t, last[t] + 1>> = <<t, 1>>
    BY <1>6
  <2>4. {<<a[i].v, want'[t][i] + 1>> : i \in {j \in DOMAIN a : a[j].w}} = {<<v, last[v] + 1>> : v \in W}
    BY <1>7, <2>2
  <2> QED
    BY <2>1, <2>3, <2>4
<1>13. \A u \in Tasks : u # t => ReadsOf(u)' = ReadsOf(u) /\ WritesOf(u)' = WritesOf(u)
  BY <1>1, <1>4 DEF ReadsOf, WritesOf
<1>14. last' = [v \in Nodes |-> IF v \in W \cup {t} THEN last[v] + 1 ELSE last[v]]
  <2>1. \A v \in Nodes : v \in W <=> \E i \in DOMAIN a : a[i] = [v |-> v, w |-> TRUE]
    <3>1. ASSUME NEW v \in Nodes, NEW i \in DOMAIN a, a[i] = [v |-> v, w |-> TRUE]
          PROVE  a[i].v = v /\ a[i].w
      BY <3>1
    <3>2. ASSUME NEW i \in DOMAIN a, a[i].w
          PROVE  a[i] = [v |-> a[i].v, w |-> TRUE]
      BY <1>3, <3>2
    <3> QED
      BY <1>7, <3>1, <3>2
  <2> QED
    BY <1>5, <1>6, <1>8, <2>1
<1>15. /\ [u \in Tasks |-> ReadsOf(u)]' = [[u \in Tasks |-> ReadsOf(u)] EXCEPT ![t] = {<<v, D!Current(v)>> : v \in R}]
       /\ [u \in Tasks |-> WritesOf(u)]' = [[u \in Tasks |-> WritesOf(u)] EXCEPT ![t] = {<<v, last[v] + 1>> : v \in W \cup {t}}]
  BY <1>11, <1>12, <1>13
<1> QED
  BY <1>1, <1>2, <1>8, <1>9, <1>14, <1>15 DEF D!Launch

(* Every other step leaves the promise alone. *)
LEMMA Unpromised ==
  ASSUME UNCHANGED <<args, phase, mem, last, want>>
  PROVE  UNCHANGED D!vars
<1>1. \A u \in Tasks : Writes(u)' = Writes(u)
  BY DEF Writes
<1>2. \A u \in Tasks : ReadsOf(u)' = ReadsOf(u) /\ WritesOf(u)' = WritesOf(u)
  BY <1>1 DEF ReadsOf, WritesOf
<1> QED
  BY <1>2 DEF D!vars

LEMMA NextImplements ==
  ASSUME Core, TypeOK', Versions, [Next]_vars
  PROVE  [D!Next]_D!vars
<1> USE DEF setup, engine, ghost
<1>1. ASSUME NEW x \in Clients, Call(x)
      PROVE  [D!Next]_D!vars
  <2>1. ASSUME NEW s \in Storage, Create(x, s)
        PROVE  UNCHANGED <<args, phase, mem, last, want>>
    BY <2>1 DEF Create, Allocate
  <2>2. ASSUME NEW t \in Tasks, NEW a \in ArgLists[t], Run(x, t, a)
        PROVE  D!Next
    BY <2>2, LaunchImplements DEF Run, D!Next
  <2>3. ASSUME NEW v \in Nodes, Drop(x, v)
        PROVE  UNCHANGED <<args, phase, mem, last, want>>
    BY <2>3 DEF Drop
  <2>4. ASSUME NEW v \in Waitable, WaitVar(x, v)
        PROVE  UNCHANGED <<args, phase, mem, last, want>>
    BY SMTT(30), <2>4 DEF WaitVar
  <2> QED
    BY <1>1, <2>1, <2>2, <2>3, <2>4, Unpromised DEF Call
<1>2. ASSUME NEW x \in Clients, ClientStep(x)
      PROVE  UNCHANGED <<args, phase, mem, last, want>>
  BY Zenon, <1>2 DEF ClientStep, ReadArg, Link, Hop, Late, Hold, RedirectVar, Move, WriteArg, Bind, Return, Wait,
              Block, Get
<1>3. ASSUME NEW x \in Threads, CountStep(x)
      PROVE  UNCHANGED <<args, phase, mem, last, want>>
  BY <1>3 DEF CountStep, Pre, Join, Rel, Sub, Dec
<1>4. ASSUME NEW t \in Tasks, WorkerStep(t)
      PROVE  [D!Next]_D!vars
  <2>1. CASE Start(t)
    BY <2>1, StartImplements DEF D!Next
  <2>2. CASE Finish(t)
    BY <2>2, FinishImplements DEF D!Next
  <2>3. CASE Exchange(t) \/ Flow(t) \/ Out(t) \/ Wakeup(t)
    <3>1. UNCHANGED <<args, phase, mem, last, want>>
      BY <2>3 DEF Exchange, Flow, Out, Wakeup
    <3> QED
      BY <3>1, Unpromised
  <2> QED
    BY <1>4, <2>1, <2>2, <2>3 DEF WorkerStep
<1>5. CASE Rest \/ UNCHANGED vars
  <2>1. UNCHANGED <<args, phase, mem, last, want>>
    BY <1>5 DEF Rest, vars
  <2> QED
    BY <2>1, Unpromised
<1> QED
  BY <1>1, <1>2, <1>3, <1>4, <1>5, Unpromised DEF Next

(* The engine keeps what oox promises of a graph of tasks: whatever it does, a body starts
   only after the writers of what it reads and overwrites and after the readers of what it
   overwrites (Dataflow). *)
THEOREM DataflowImplemented == Spec => ImplementsDataflow
<1>1. Core /\ Versions /\ [Next]_vars => [D!Next]_D!vars
  <2>1. ASSUME Core, Versions, [Next]_vars
        PROVE  TypeOK'
    <3>1. TypeOK
      BY <2>1 DEF Core
    <3> QED
      BY <2>1, <3>1, NextType
  <2> QED
    BY <2>1, NextImplements
<1> QED
  BY <1>1, InitImplements, CoreHolds, VersionsHold, PTL DEF Spec, ImplementsDataflow, D!Spec

(***************************************************************************)
(* Those who wait for a variable, and those who are told of a value        *)
(***************************************************************************)
(* A client that waits for v does nothing else, nobody overwrites or drops v meanwhile,
   and when it comes to read the value the producer is done. *)
Waiting(v)     == {<<F("wait", v, 0, 0), F("get", v, 0, 0)>>, <<F("block", v, 0, 0), F("get", v, 0, 0)>>,
                   <<F("get", v, 0, 0)>>}
Spared(v)      == var[v].live /\ \A y \in Clients : ~Modifies(y, v)
WaitsFor(x, v) == /\ todo[x] \in Waiting(v) /\ Spared(v)
                  /\ At(x, "get") => head[var[v].cur].tag = "done"

(* Task t reads what is in slot p of n, or the first value of the deferred variable whose
   placeholder n is. *)
Stands(t, n, p) ==
  \E i \in DOMAIN args[t] \ Writes(t) :
    \/ Names(n, p, args[t][i].v, want[t][i])
    \/ n \in Deferred /\ p = 0 /\ args[t][i].v = n /\ want[t][i] = 1

(* Every frame and every arc between a reader and a slot is there for such a reader, and
   only a value is held. *)
Serves(x, f) ==
  /\ f.op \in Attaching => Stands(making[x], f.node, f.port)
  /\ f.op = "move" => Stands(f.node, making[x], f.port)
  /\ f.op = "flow" => Stands(f.node, x, f.port)
  /\ f.op = "hold" => f.node \notin Deferred
ServesArc(n, a) ==
  IF a.kind = "back_only" THEN Stands(n, a.node, a.port) /\ a.node \notin Deferred
                          ELSE Stands(a.node, n, a.port)

(* A slot is turned over to a task that overwrites what is in it. *)
Overwrites(t, n, p) == p \in Slots(n) /\ \E i \in Writes(t) : Names(n, p, args[t][i].v, want[t][i])

Waiters == \A x \in Clients : Waited(x) # {} => \E v \in Nodes : WaitsFor(x, v)
Wakes   == \A n \in Nodes : woken[n] => head[n].tag = "done"
Serving == /\ \A x \in Threads : \A f \in Ahead(x) : Serves(x, f)
           /\ \A n \in Nodes : \A a : Listed(n, a) => ServesArc(n, a)
Taken   == \A t \in Tasks, n \in Nodes, p \in Port : Takes(t, n, p) => Overwrites(t, n, p)

Services == Waiters /\ Wakes /\ Serving /\ Taken

(***************************************************************************)
(* What a waiting client reads                                             *)
(***************************************************************************)
LEMMA WaitedIs == \A x, v : v \in Waited(x) <=> \E f \in Ahead(x) : f.op \in WaitOps /\ f.node = v
  BY DEF Waited, Ahead

(* Where a client that waits for v is. *)
LEMMA WaitingIs ==
  ASSUME NEW x, NEW v, todo[x] \in Waiting(v)
  PROVE  /\ todo[x] # <<>> /\ Cur(x).op \in WaitOps /\ Cur(x).node = v
         /\ \A f \in Ahead(x) : f.op \in WaitOps /\ f.node = v
         /\ Waited(x) = {v} /\ ~InRun(x)
         /\ At(x, "wait") => todo[x] = <<F("wait", v, 0, 0), F("get", v, 0, 0)>>
         /\ At(x, "block") => todo[x] = <<F("block", v, 0, 0), F("get", v, 0, 0)>>
         /\ At(x, "get") => todo[x] = <<F("get", v, 0, 0)>>
<1>1. PICK w, b, g : w = F("wait", v, 0, 0) /\ b = F("block", v, 0, 0) /\ g = F("get", v, 0, 0)
  OBVIOUS
<1>2. /\ w.op = "wait" /\ w.node = v /\ b.op = "block" /\ b.node = v /\ g.op = "get" /\ g.node = v
      /\ \A op \in {"wait", "block", "get"} : op \in WaitOps /\ op # "return"
  BY <1>1 DEF F, WaitOps
<1>3. PICK s : s = todo[x]
  OBVIOUS
<1>4. s = <<w, g>> \/ s = <<b, g>> \/ s = <<g>>
  BY <1>1, <1>3 DEF Waiting
<1>5. /\ s # <<>> /\ Head(s) \in {w, b, g} /\ g \in {s[i] : i \in DOMAIN s}
      /\ \A i \in DOMAIN s : s[i] \in {w, b, g}
      /\ Head(s) = w => s = <<w, g>>
      /\ Head(s) = b => s = <<b, g>>
      /\ Head(s) = g => s = <<g>>
  <2>1. CASE s = <<w, g>>
    BY <1>2, <2>1
  <2>2. CASE s = <<b, g>>
    BY <1>2, <2>2
  <2>3. CASE s = <<g>>
    BY <1>2, <2>3
  <2> QED
    BY <1>4, <2>1, <2>2, <2>3
<1>6. \A f \in Ahead(x) : f.op \in WaitOps /\ f.node = v
  BY <1>2, <1>3, <1>5 DEF Ahead
<1>7. Waited(x) = {v}
  <2>1. g \in Ahead(x)
    BY <1>3, <1>5 DEF Ahead
  <2> QED
    BY <1>2, <1>6, <2>1, WaitedIs
<1>8. ~InRun(x)
  BY <1>2, <1>3, <1>5 DEF InRun
<1>9. Cur(x) \in {w, b, g}
  BY <1>3, <1>5 DEF Cur
<1>10. Cur(x).op \in WaitOps /\ Cur(x).node = v
  BY <1>2, <1>9
<1>11. /\ At(x, "wait") => Head(s) = w
       /\ At(x, "block") => Head(s) = b
       /\ At(x, "get") => Head(s) = g
  BY <1>2, <1>3, <1>5 DEF At
<1> QED
  BY <1>1, <1>3, <1>5, <1>6, <1>7, <1>8, <1>10, <1>11

(* wait_and_get reads the version of the last writer. *)
LEMMA WaitedSound ==
  ASSUME Core, Versions, Waiters
  PROVE  WaitSound
<1>0. TypeOK /\ Dates /\ Currents
  BY DEF Core, Versions
<1>1. ASSUME NEW x \in Clients, At(x, "get")
      PROVE  mem[Cur(x).node] = last[Cur(x).node]
  <2>1. Waited(x) # {}
    <3>1. 1 \in DOMAIN todo[x] /\ todo[x][1].op = "get"
      <4>1. x \in Threads
        BY NodesApart
      <4> QED
        BY <1>0, <1>1, <4>1 DEF TypeOK, FramesFit, At
    <3> QED
      BY <3>1 DEF Waited, WaitOps
  <2>2. PICK v \in Nodes : WaitsFor(x, v)
    BY <2>1 DEF Waiters
  <2>3. Cur(x).node = v /\ Spared(v) /\ head[var[v].cur].tag = "done"
    BY <1>1, <2>2, WaitingIs DEF WaitsFor
  <2>4. InUse(v)
    BY <2>3 DEF Spared, InUse
  <2>5. PICK n, p : n = var[v].cur /\ p = var[v].port
    OBVIOUS
  <2>6. n \in Nodes /\ p \in Slots(n)
    BY <2>4, <2>5, SlotIs DEF Core
  <2>7. Finished(n)
    BY <2>3, <2>5, <2>6, DoneFinished DEF Core
  <2>8. Names(n, p, v, Newest(v))
    BY <1>0, <2>4, <2>5 DEF Currents, Current
  <2>9. Newest(v) <= mem[v]
    BY <1>0, <2>6, <2>7, <2>8, NameDone
  <2>10. ~Opening(v)
    <3>1. SUFFICES ASSUME Opening(v)
                   PROVE  FALSE
      OBVIOUS
    <3>2. \E y \in Clients : Modifies(y, v)
      BY <3>1, OpeningIs DEF Core
    <3> QED
      BY <2>3, <3>2 DEF Spared
  <2>11. Newest(v) = last[v]
    <3>1. One(Opening(v)) = 0
      BY <2>10 DEF One
    <3>2. last[v] \in Nat
      BY <1>0 DEF TypeOK
    <3> QED
      BY <3>1, <3>2 DEF Newest
  <2>12. mem[v] <= last[v] /\ mem[v] \in Nat /\ last[v] \in Nat
    BY <1>0, NamesDated
  <2> QED
    BY <2>3, <2>9, <2>11, <2>12
<1> QED
  BY <1>1 DEF WaitSound

(***************************************************************************)
(* No task is forgotten                                                    *)
(***************************************************************************)
(* A slot is that of one version. *)
LEMMA NamesOnce ==
  ASSUME Core, NEW n \in Nodes, NEW p \in Slots(n), NEW v, NEW k, NEW u, NEW m,
         Names(n, p, v, k), Names(n, p, u, m)
  PROVE  v = u /\ k = m
<1>0. TypeOK
  BY DEF Core
<1>1. CASE p = 0
  <2>1. n \in Tasks => \A i \in Writes(n) : PortOf(n, i) # 0
    BY <1>0, PortsApart
  <2> QED
    BY <1>1, <2>1 DEF Names
<1>2. CASE p # 0
  <2>1. n \in Tasks
    BY <1>2 DEF Names
  <2>2. PICK i \in Writes(n) : p = PortOf(n, i) /\ v = args[n][i].v /\ k = want[n][i] + 1
    BY <1>2 DEF Names
  <2>3. PICK j \in Writes(n) : p = PortOf(n, j) /\ u = args[n][j].v /\ m = want[n][j] + 1
    BY <1>2 DEF Names
  <2>4. i = j
    BY <1>0, <2>1, <2>2, <2>3, PortsApart
  <2> QED
    BY <2>2, <2>3, <2>4
<1> QED
  BY <1>1, <1>2

(* The version of a task's slot is one it writes. *)
LEMMA NamesWritten ==
  ASSUME Core, NEW n \in Tasks, NEW p \in Slots(n), NEW v, NEW k, Names(n, p, v, k), v = n => phase[n] # "idle"
  PROVE  <<v, k>> \in WritesOf(n)
<1>1. CASE p = 0 /\ v = n /\ k = One(n \in Tasks)
  <2>1. k = 1
    BY <1>1 DEF One
  <2> QED
    BY <1>1, <2>1 DEF WritesOf
<1>2. CASE \E i \in Writes(n) : p = PortOf(n, i) /\ v = args[n][i].v /\ k = want[n][i] + 1
  BY <1>2 DEF WritesOf
<1> QED
  BY <1>1, <1>2 DEF Names

(* At rest a task on whose list something hangs is not done. *)
LEMMA QuietOpen ==
  ASSUME Core, Quiet, NEW n \in Tasks, head[n].tag = "open"
  PROVE  phase[n] # "done"
<1>1. SUFFICES ASSUME phase[n] = "done"
               PROVE  FALSE
  OBVIOUS
<1>2. todo[n] = Tail(Tail(BodyFrames(n)))
  BY <1>1 DEF Core, Bodies, Staged
<1>3. Tail(Tail(BodyFrames(n))) # <<>>
  BY BodyIs DEF Core
<1>4. todo[n] = <<>>
  BY NodesApart DEF Quiet
<1> QED
  BY <1>2, <1>3, <1>4

(* At rest a task that hangs on a list waits for its node, or for a deferred variable that
   nobody has been launched to write. *)
LEMMA QuietReader ==
  ASSUME Core, Versions, Serving, Quiet, NEW t \in Tasks, NEW n \in Nodes, NEW a,
         Listed(n, a), a \in ArcsTo(t)
  PROVE  ~D!Unblocked(t)
<1>0. TypeOK /\ Dates /\ Heads
  BY DEF Core, Versions
<1>1. a \in Arc /\ Apt(n, a) /\ head[n].tag = "open"
  BY ListedArc
<1>2. PICK p : p = a.port
  OBVIOUS
<1>3. a.kind # "back_only" /\ a.node = t /\ p \in Slots(n)
  BY <1>1, <1>2 DEF ArcsTo, Apt
<1>4. Stands(t, n, p)
  BY <1>2, <1>3 DEF Serving, ServesArc
<1>5. PICK i \in DOMAIN args[t] \ Writes(t) :
        \/ Names(n, p, args[t][i].v, want[t][i])
        \/ n \in Deferred /\ p = 0 /\ args[t][i].v = n /\ want[t][i] = 1
  BY <1>4 DEF Stands
<1>6. PICK v, k : v = args[t][i].v /\ k = want[t][i]
  OBVIOUS
<1>7. v \in Nodes /\ k \in Nat /\ <<v, k>> \in ReadsOf(t)
  BY <1>0, <1>5, <1>6, WantIs DEF ReadsOf
<1>8. (v \in Deferred => k >= 1) /\ (v \in Tasks => phase[v] # "idle")
  <2>1. Dated(t, i)
    BY <1>0, <1>5 DEF Dates
  <2> QED
    BY <1>5, <1>6, <2>1 DEF Dated
<1>9. CASE n \in Tasks
  <2>1. Names(n, p, v, k)
    BY <1>5, <1>6, <1>9, ConstantsAssumption
  <2>2. <<v, k>> \in WritesOf(n)
    BY <1>3, <1>8, <1>9, <2>1, NamesWritten
  <2>3. D!After(t, n)
    <3>1. PICK c : c = <<v, k>>
      OBVIOUS
    <3>2. c \in ReadsOf(t) /\ c \in WritesOf(n)
      BY <1>7, <2>2, <3>1
    <3> QED
      BY <1>9, <3>2 DEF D!After
  <2>4. phase[n] # "done"
    BY <1>1, <1>9, QuietOpen
  <2> QED
    BY <1>9, <2>3, <2>4 DEF D!Unblocked
<1>10. CASE n \notin Tasks
  <2>1. n \in Storage /\ p = 0
    BY <1>3, <1>10 DEF Nodes, Slots
  <2>2. Finished(n)
    <3>1. SUFFICES ASSUME ~Finished(n)
                   PROVE  FALSE
      OBVIOUS
    <3>2. head[n] = Open(<<>>)
      BY <2>1, <3>1 DEF Core, Stores, Stored
    <3>3. Lists[n] = <<>>
      BY <3>2 DEF Lists, Open
    <3> QED
      BY <3>3 DEF Listed
  <2>3. n \in Deferred
    <3>1. Finished(n) /\ n \notin Deferred => head[n] = Done
      BY <2>1 DEF Core, Stores, Stored
    <3> QED
      BY <1>1, <2>2, <3>1 DEF Done
  <2>4. v = n /\ k = 1
    <3>1. ~Names(n, p, v, k)
      <4>1. SUFFICES ASSUME Names(n, p, v, k)
                     PROVE  FALSE
        OBVIOUS
      <4>2. v = n /\ k = 0
        BY <1>10, <4>1 DEF Names, One
      <4> QED
        BY <1>8, <2>3, <4>2
    <3> QED
      BY <1>5, <1>6, <3>1
  <2>5. var[n].deferred
    BY <1>0, <1>1, <2>2, <2>3 DEF Heads, Leading
  <2>6. ~Opening(n)
    <3>1. SUFFICES ASSUME Opening(n)
                   PROVE  FALSE
      OBVIOUS
    <3>2. \E x \in Clients : InRun(x)
      BY <3>1, OpeningIs DEF Core
    <3>3. \A x \in Clients : x \in Threads
      BY NodesApart
    <3> QED
      BY <3>2, <3>3 DEF Quiet, InRun
  <2>7. last[n] = 0
    BY <2>5, <2>6 DEF Core, Firsts, Put
  <2>8. ~D!Written(t)
    <3>1. ASSUME \A c \in ReadsOf(t) : c[2] <= last[c[1]]
          PROVE  FALSE
      <4>1. <<v, k>>[2] <= last[<<v, k>>[1]]
        BY <1>7, <3>1
      <4> QED
        BY <2>4, <2>7, <4>1
    <3> QED
      BY <3>1 DEF D!Written
  <2> QED
    BY <2>8 DEF D!Unblocked
<1> QED
  BY <1>9, <1>10

(* At rest a task that a slot is turned over to waits for its node, or for a reader. *)
LEMMA QuietWriter ==
  ASSUME Core, Versions, Serving, Taken, Quiet, NEW t \in Tasks, HeldFor(Writer(t)) # 0
  PROVE  ~D!Unblocked(t)
<1>0. TypeOK /\ Dates /\ Tallies
  BY DEF Core, Versions
<1>1. PICK n \in Nodes, p \in Port : p \in Slots(n) /\ countdown[n][p] > 0 /\ nextWriter[n][p] = Writer(t)
  <2>1. PICK S : S = {s \in HeldSlots : nextWriter[s[1]][s[2]] = Writer(t)}
    OBVIOUS
  <2>2. Cardinality(S) # 0
    BY <2>1 DEF HeldFor
  <2>3. S # {}
    BY <2>2, FS_EmptySet
  <2>4. PICK s \in HeldSlots : nextWriter[s[1]][s[2]] = Writer(t)
    BY <2>1, <2>3
  <2> QED
    BY <2>4 DEF HeldSlots
<1>2. PICK i \in Writes(t) : Names(n, p, args[t][i].v, want[t][i])
  BY <1>1 DEF Taken, Takes, Overwrites
<1>3. PICK v, k : v = args[t][i].v /\ k = want[t][i]
  OBVIOUS
<1>4. i \in DOMAIN args[t] /\ v \in Nodes /\ k \in Nat /\ <<v, k + 1>> \in WritesOf(t)
  BY <1>0, <1>3, WantIs DEF WritesOf, Writes
<1>5. \A u \in Tasks : <<v, k>> \in WritesOf(u) \cup ReadsOf(u) => D!After(t, u)
  <2>1. ASSUME NEW u \in Tasks, <<v, k>> \in WritesOf(u) \cup ReadsOf(u)
        PROVE  D!After(t, u)
    <3>1. PICK c : c = <<v, k + 1>>
      OBVIOUS
    <3>2. c \in WritesOf(t) /\ <<c[1], c[2] - 1>> = <<v, k>>
      BY <1>4, <3>1
    <3>3. <<c[1], c[2] - 1>> \in WritesOf(u) \cup ReadsOf(u)
      BY <2>1, <3>2
    <3> QED
      BY <3>2, <3>3 DEF D!After
  <2> QED
    BY <2>1
<1>6. v \in Tasks => phase[v] # "idle"
  <2>1. Dated(t, i)
    BY <1>0, <1>4 DEF Dates
  <2> QED
    BY <1>3, <2>1 DEF Dated
<1>7. CASE n \in Tasks /\ phase[n] # "done"
  <2>1. <<v, k>> \in WritesOf(n)
    BY <1>1, <1>2, <1>3, <1>6, <1>7, NamesWritten
  <2> QED
    BY <1>5, <1>7, <2>1 DEF D!Unblocked
<1>8. CASE ~(n \in Tasks /\ phase[n] # "done")
  <2>1. Tallied(n, p)
    BY <1>0, <1>1 DEF Tallies
  <2>2. Finished(n)
    <3>1. Writer(t) # Null
      BY DEF Writer, Null
    <3>2. n \notin Tasks => p = 0
      BY <1>1 DEF Slots
    <3> QED
      BY <1>1, <1>8, <3>1, <3>2 DEF Finished
  <2>3. \A P : Count(todo, P) = 0
    <3>1. \A x \in Threads : Ahead(x) = {}
      BY DEF Quiet, Ahead
    <3> QED
      BY <1>0, <3>1, TodoNone
  <2>4. countdown[n][p] = Held(n, p)
    BY <2>1, <2>2, <2>3 DEF Tallied, Exact
  <2>5. Held(n, p) = Count(Lists, {BackOnly(n, p)})
    <3>1. Count(todo, Holders(n, p)) = 0 /\ Writer(t) # Ready
      BY <2>3 DEF Writer, Ready
    <3>2. Count(Lists, {BackOnly(n, p)}) \in Nat
      BY <1>0, CountNat
    <3> QED
      BY <1>1, <3>1, <3>2 DEF Held
  <2>6. PICK m \in Nodes : Listed(m, BackOnly(n, p))
    <3>1. Count(Lists, {BackOnly(n, p)}) # 0
      BY <1>1, <2>4, <2>5
    <3> QED
      BY <1>0, <3>1, ListsNone DEF Listed
  <2>7. m \in Tasks /\ head[m].tag = "open" /\ Stands(m, n, p) /\ n \notin Deferred
    BY <2>6, ListedArc, ArcsAre DEF Apt, Serving, ServesArc
  <2>8. PICK j \in DOMAIN args[m] \ Writes(m) : Names(n, p, args[m][j].v, want[m][j])
    BY <2>7 DEF Stands
  <2>9. args[m][j].v = v /\ want[m][j] = k
    BY <1>1, <1>2, <1>3, <2>8, NamesOnce
  <2>10. <<v, k>> \in ReadsOf(m)
    BY <2>8, <2>9 DEF ReadsOf
  <2>11. phase[m] # "done"
    BY <2>7, QuietOpen
  <2> QED
    BY <1>5, <2>7, <2>10, <2>11 DEF D!Unblocked
<1> QED
  BY <1>7, <1>8

(* When everyone is at rest, no task that was launched could run. *)
LEMMA NoneForgotten ==
  ASSUME Core, Versions, Serving, Taken
  PROVE  NothingForgotten
<1>0. TypeOK
  BY DEF Core
<1>1. ASSUME Quiet, NEW t \in Tasks, phase[t] = "pending"
      PROVE  ~D!Unblocked(t)
  <2>1. todo[t] = <<>> /\ \A x \in Threads : Ahead(x) = {}
    BY <1>1, NodesApart DEF Quiet, Ahead
  <2>2. startCount[t] # 0
    BY <1>1, <2>1 DEF Core, Bodies, Staged
  <2>3. \A P : Count(todo, P) = 0
    BY <1>0, <2>1, TodoNone
  <2>4. startCount[t] = Coming(t)
    <3>1. Guards(t) = 0
      BY <2>3 DEF Guards
    <3>2. startCount[t] = Coming(t) + (IF Guards(t) = 0 THEN 0 ELSE Protection(t))
      BY DEF Core, Due, Counted
    <3>3. Coming(t) \in Nat
      <4>1. Count(Lists, ArcsTo(t)) \in Nat /\ Count(todo, Notices(t)) \in Nat
        BY <1>0, CountNat
      <4>2. HeldFor(Writer(t)) \in Nat
        BY HeldForNat
      <4> QED
        BY <4>1, <4>2 DEF Coming
    <3> QED
      BY <3>1, <3>2, <3>3
  <2>5. Count(Lists, ArcsTo(t)) # 0 \/ HeldFor(Writer(t)) # 0
    BY <2>2, <2>3, <2>4 DEF Coming
  <2>6. CASE Count(Lists, ArcsTo(t)) # 0
    <3>1. PICK n \in Nodes : \E i \in DOMAIN Lists[n] : Lists[n][i] \in ArcsTo(t)
      BY <1>0, <2>6, ListsNone
    <3> QED
      BY <1>1, <3>1, QuietReader DEF Listed
  <2>7. CASE HeldFor(Writer(t)) # 0
    BY <1>1, <2>7, QuietWriter
  <2> QED
    BY <2>5, <2>6, <2>7
<1> QED
  BY <1>1 DEF NothingForgotten

(***************************************************************************)
(* Steps: who waits, and who is served                                     *)
(***************************************************************************)
Sought(v) == \E y \in Clients : v \in Waited(y)
Sparing   == \A v \in Nodes : Spared(v) /\ Sought(v) => var'[v].live /\ var'[v].cur = var[v].cur
Standing  == \A t \in Tasks, n \in Nodes, p \in Port : Stands(t, n, p) => Stands(t, n, p)'

LEMMA ServesPlain ==
  ASSUME NEW x, NEW f, f.op \notin Attaching \cup {"move", "flow"}
  PROVE  Serves(x, f)
BY DEF Serves, Attaching

LEMMA SameArguments ==
  ASSUME UNCHANGED <<args, want>>
  PROVE  /\ Standing
         /\ \A t, n, p : Stands(t, n, p)' <=> Stands(t, n, p)
         /\ \A t, n, p : Overwrites(t, n, p)' <=> Overwrites(t, n, p)
<1>1. \A u \in Tasks : Writes(u)' = Writes(u)
  BY DEF Writes
<1>2. \A u : Writes(u)' = Writes(u)
  BY DEF Writes
<1>3. \A u, i : PortOf(u, i)' = PortOf(u, i)
  BY <1>2 DEF PortOf
<1>4. \A n, p, v, k : Names(n, p, v, k)' <=> Names(n, p, v, k)
  BY <1>2, <1>3 DEF Names
<1>5. \A t, n, p : Stands(t, n, p)' <=> Stands(t, n, p)
  BY <1>2, <1>4 DEF Stands
<1>6. \A t, n, p : Overwrites(t, n, p)' <=> Overwrites(t, n, p)
  BY <1>2, <1>4 DEF Overwrites, Slots
<1> QED
  BY <1>5, <1>6 DEF Standing

(* Frames and arcs that were for a reader still are. *)
LEMMA ServingKept ==
  ASSUME Core, Serving, Standing,
         \A y \in Clients : Ahead(y) # {} => making'[y] = making[y],
         \A y \in Threads : \A f \in Ahead(y)' : f \in Ahead(y) \/ Serves(y, f)',
         \A n \in Nodes : \A a : Listed(n, a)' => Listed(n, a) \/ ServesArc(n, a)'
  PROVE  Serving'
<1>0. TypeOK /\ Placed
  BY DEF Core
<1>1. ASSUME NEW y \in Threads, NEW f \in Ahead(y)
      PROVE  Serves(y, f)'
  <2>1. Serves(y, f) /\ Fits(f) /\ f \in Frame /\ f \in FrameOf(y)
    BY <1>0, <1>1, AheadFits DEF Serving
  <2>2. f.node \in Nodes /\ f.port \in Port
    BY <2>1 DEF Frame
  <2>3. ASSUME f.op \in Attaching \cup {"move"}
        PROVE  y \in Clients /\ making[y] \in Tasks /\ making'[y] = making[y]
    BY <1>1, <2>1, <2>3 DEF FrameOf, Attaching, SetupOps
  <2>4. f.op \in Attaching => Stands(making[y], f.node, f.port)'
    BY <2>1, <2>2, <2>3 DEF Serves, Standing
  <2>5. f.op = "move" => Stands(f.node, making[y], f.port)'
    <3>1. f.op = "move" => f.node \in Tasks /\ making[y] \in Nodes
      BY <2>1, <2>3, NodesApart DEF Fits
    <3> QED
      BY <2>1, <2>2, <2>3, <3>1 DEF Serves, Standing
  <2>6. f.op = "flow" => Stands(f.node, y, f.port)'
    <3>1. ASSUME f.op = "flow"
          PROVE  y \in Nodes /\ f.node \in Tasks
      <4>1. y \in Tasks
        <5>1. PICK i \in DOMAIN todo[y] : todo[y][i] = f /\ Lies(y, todo[y], i)
          BY <1>0, <1>1, AheadFits
        <5> QED
          BY <3>1, <5>1 DEF Lies, BodyOps
      <4> QED
        BY <2>1, <3>1, <4>1, NodesApart DEF Fits
    <3> QED
      BY <2>1, <2>2, <3>1 DEF Serves, Standing
  <2> QED
    BY <2>1, <2>4, <2>5, <2>6 DEF Serves
<1>2. ASSUME NEW n \in Nodes, NEW a, Listed(n, a)
      PROVE  ServesArc(n, a)'
  <2>1. a \in Arc /\ Apt(n, a) /\ ServesArc(n, a)
    BY <1>2, ListedArc DEF Serving
  <2>2. a.node \in Nodes /\ a.port \in Port
    BY <2>1 DEF Arc
  <2>3. CASE a.kind = "back_only"
    <3>1. n \in Tasks /\ Stands(n, a.node, a.port) /\ a.node \notin Deferred
      BY <2>1, <2>3 DEF Apt, ServesArc
    <3>2. Stands(n, a.node, a.port)'
      BY <2>2, <3>1 DEF Standing
    <3> QED
      BY <2>3, <3>1, <3>2 DEF ServesArc
  <2>4. CASE a.kind # "back_only"
    <3>1. a.node \in Tasks /\ Stands(a.node, n, a.port)
      BY <2>1, <2>4 DEF Apt, ServesArc
    <3>2. Stands(a.node, n, a.port)'
      BY <2>2, <3>1 DEF Standing
    <3> QED
      BY <2>4, <3>2 DEF ServesArc
  <2> QED
    BY <2>3, <2>4
<1> QED
  BY <1>1, <1>2 DEF Serving

(* Those who wait still do. *)
LEMMA WaitersKept ==
  ASSUME Waiters,
         \A y \in Clients : Waited(y)' # {} => Waited(y) # {} /\ todo'[y] = todo[y],
         \A v \in Nodes : Spared(v) /\ Sought(v) => Spared(v)' /\ var'[v].cur = var[v].cur,
         \A v \in Nodes : \A n : n = var[v].cur => (head[n].tag = "done" => head'[n].tag = "done")
  PROVE  Waiters'
<1>1. ASSUME NEW y \in Clients, Waited(y)' # {}
      PROVE  \E v \in Nodes : WaitsFor(y, v)'
  <2>1. Waited(y) # {} /\ todo'[y] = todo[y]
    BY <1>1
  <2>2. PICK v \in Nodes : WaitsFor(y, v)
    BY <2>1 DEF Waiters
  <2>3. Spared(v) /\ Sought(v) /\ todo[y] \in Waiting(v)
    BY <2>2, WaitingIs DEF WaitsFor, Sought
  <2>4. Spared(v)' /\ var'[v].cur = var[v].cur
    BY <2>3
  <2>5. PICK n : n = var[v].cur
    OBVIOUS
  <2>6. At(y, "get")' => head'[n].tag = "done"
    <3>1. At(y, "get")' <=> At(y, "get")
      BY <2>1 DEF At
    <3> QED
      BY <2>2, <2>5, <3>1 DEF WaitsFor
  <2>7. todo'[y] \in Waiting(v)'
    BY <2>1, <2>3 DEF Waiting
  <2> QED
    BY <2>4, <2>5, <2>6, <2>7 DEF WaitsFor
<1> QED
  BY <1>1 DEF Waiters

(* Nobody comes to overwrite a variable but by a call. *)
LEMMA ModifiesBack ==
  ASSUME UNCHANGED <<args, making>>, NEW y, NEW v,
         \A f : f.op = "return" /\ f \in Ahead(y)' => f \in Ahead(y), Modifies(y, v)'
  PROVE  Modifies(y, v)
<1>1. InRun(y)' => InRun(y)
  BY InRunBack
<1> QED
  BY <1>1 DEF Modifies, CallArgs

(* A step of thread x, which does not wait, that adds frames and arcs that serve. *)
LEMMA ServicesStep ==
  ASSUME Core, Services, NEW x \in Threads,
         x \in Clients => todo[x] = <<>> \/ Cur(x).op \notin WaitOps,
         UNCHANGED <<args, want, making>>,
         \A y \in Clients : y # x => todo'[y] = todo[y],
         \A y \in Threads : \A f \in Ahead(y)' :
           f \in Ahead(y) \/ (f.op \notin WaitOps \cup {"return"} /\ Serves(y, f)'),
         \A n \in Nodes : \A a : Listed(n, a)' => Listed(n, a) \/ ServesArc(n, a)',
         Sparing,
         \A n \in Nodes : head[n].tag = "done" => head'[n].tag = "done",
         \A n \in Nodes : woken'[n] => woken[n] \/ head'[n].tag = "done",
         \A t \in Tasks, n \in Nodes, p \in Port : Takes(t, n, p)' => Takes(t, n, p) \/ Overwrites(t, n, p)
  PROVE  Services'
<1>0. TypeOK /\ Waiters /\ Wakes /\ Serving /\ Taken
  BY DEF Core, Services
<1>1. \A y \in Clients : y \in Threads
  BY NodesApart
<1>2. Waiters'
  <2>1. ASSUME NEW y \in Clients, Waited(y)' # {}
        PROVE  Waited(y) # {} /\ todo'[y] = todo[y]
    <3>1. PICK f \in Ahead(y)' : f.op \in WaitOps
      <4>1. \E i \in DOMAIN todo'[y] : todo'[y][i].op \in WaitOps
        BY <2>1 DEF Waited
      <4> QED
        BY <4>1 DEF Ahead
    <3>2. f \in Ahead(y)
      BY <1>1, <3>1
    <3>3. Waited(y) # {}
      BY <3>1, <3>2, WaitedIs
    <3>4. y # x
      <4>1. PICK v \in Nodes : WaitsFor(y, v)
        BY <1>0, <3>3 DEF Waiters
      <4>2. todo[y] # <<>> /\ Cur(y).op \in WaitOps
        BY <4>1, WaitingIs DEF WaitsFor
      <4> QED
        BY <4>2
    <3> QED
      BY <3>3, <3>4
  <2>2. ASSUME NEW v \in Nodes, Spared(v), Sought(v)
        PROVE  Spared(v)' /\ var'[v].cur = var[v].cur
    <3>1. var'[v].live /\ var'[v].cur = var[v].cur
      BY <2>2 DEF Sparing
    <3>2. ASSUME NEW y \in Clients, Modifies(y, v)'
          PROVE  FALSE
      <4>1. \A f : f.op = "return" /\ f \in Ahead(y)' => f \in Ahead(y)
        BY <1>1
      <4>2. Modifies(y, v)
        BY <3>2, <4>1, ModifiesBack
      <4> QED
        BY <2>2, <4>2 DEF Spared
    <3> QED
      BY <3>1, <3>2 DEF Spared
  <2>3. \A v \in Nodes : var[v].cur \in Nodes
    BY <1>0 DEF TypeOK, OoxVar
  <2> QED
    BY <1>0, <2>1, <2>2, <2>3, WaitersKept
<1>3. Wakes'
  BY <1>0 DEF Wakes
<1>4. Serving'
  BY <1>0, SameArguments, ServingKept
<1>5. Taken'
  BY <1>0, SameArguments DEF Taken
<1> QED
  BY <1>2, <1>3, <1>4, <1>5 DEF Services

(* The same of one that goes on with frames fs. *)
LEMMA ServicesThen ==
  ASSUME Core, Services, NEW x \in Threads, todo[x] # <<>>, Cur(x).op \notin WaitOps,
         NEW fs \in Seq(Frame), Then(x, fs), UNCHANGED <<args, want, making>>,
         \A j \in DOMAIN fs : fs[j].op \notin WaitOps \cup {"return"} /\ Serves(x, fs[j])',
         \A n \in Nodes : \A a : Listed(n, a)' => Listed(n, a) \/ ServesArc(n, a)',
         Sparing,
         \A n \in Nodes : head[n].tag = "done" => head'[n].tag = "done",
         \A n \in Nodes : woken'[n] => woken[n] \/ head'[n].tag = "done",
         \A t \in Tasks, n \in Nodes, p \in Port : Takes(t, n, p)' => Takes(t, n, p) \/ Overwrites(t, n, p)
  PROVE  Services'
<1>1. /\ Ahead(x)' = {fs[i] : i \in DOMAIN fs} \cup After(todo[x], 1)
      /\ After(todo[x], 1) \subseteq Ahead(x)
      /\ \A y \in Threads : y # x => todo'[y] = todo[y] /\ Ahead(y)' = Ahead(y)
  BY AheadThen DEF Core
<1>2. \A y \in Clients : y # x => todo'[y] = todo[y]
  BY <1>1, NodesApart
<1>3. \A y \in Threads : \A f \in Ahead(y)' :
        f \in Ahead(y) \/ (f.op \notin WaitOps \cup {"return"} /\ Serves(y, f)')
  BY <1>1
<1> QED
  BY <1>2, <1>3, ServicesStep

(* ... and changes nothing that anybody waits for. *)
LEMMA PlainServices ==
  ASSUME Core, Services, NEW x \in Threads, todo[x] # <<>>, Cur(x).op \notin WaitOps,
         NEW fs \in Seq(Frame), Then(x, fs), UNCHANGED <<head, nextWriter, var, args, making, woken, want>>,
         \A j \in DOMAIN fs : fs[j].op \notin WaitOps \cup Minding
  PROVE  Services'
<1>1. \A j \in DOMAIN fs : fs[j].op \notin WaitOps \cup {"return"} /\ Serves(x, fs[j])'
  <2>1. \A j \in DOMAIN fs : fs[j].op \notin Attaching \cup {"move", "flow"} /\ fs[j].op # "return"
    BY DEF Minding
  <2>2. \A j \in DOMAIN fs : Serves(x, fs[j])'
    BY <2>1 DEF Serves, Attaching
  <2> QED
    BY <2>1, <2>2
<1>2. \A n \in Nodes : \A a : Listed(n, a)' => Listed(n, a)
  BY DEF Listed, Lists
<1>3. Sparing
  BY DEF Sparing, Spared
<1>4. \A t \in Tasks, n \in Nodes, p \in Port : Takes(t, n, p)' => Takes(t, n, p)
  BY DEF Takes, Writer
<1> QED
  BY <1>1, <1>2, <1>3, <1>4, ServicesThen

LEMMA PopServices ==
  ASSUME Core, Services, NEW x \in Threads, todo[x] # <<>>, Cur(x).op \notin WaitOps, Then(x, <<>>),
         UNCHANGED <<head, nextWriter, var, args, making, woken, want>>
  PROVE  Services'
<1>1. <<>> \in Seq(Frame) /\ DOMAIN <<>> = {}
  OBVIOUS
<1> QED
  BY <1>1, PlainServices

LEMMA OneServices ==
  ASSUME Core, Services, NEW x \in Threads, todo[x] # <<>>, Cur(x).op \notin WaitOps,
         NEW f \in Frame, Then(x, <<f>>), f.op \notin WaitOps \cup Minding,
         UNCHANGED <<head, nextWriter, var, args, making, woken, want>>
  PROVE  Services'
<1>1. PICK fs : fs = <<f>>
  OBVIOUS
<1>2. fs \in Seq(Frame) /\ \A i \in DOMAIN fs : fs[i].op \notin WaitOps \cup Minding
  BY <1>1, OneIs
<1>3. Then(x, fs)
  BY <1>1
<1> QED
  BY <1>2, <1>3, PlainServices

LEMMA JoinServices ==
  ASSUME Core, Services, NEW x \in Threads, Join(x)
  PROVE  Services'
<1>1. todo[x] # <<>> /\ Cur(x).op = "join"
  BY AtTop DEF Join, Core
<1>2. UNCHANGED <<head, nextWriter, var, args, making, woken, want>> /\ Then(x, <<>>)
  BY DEF Join, engine, setup, ghost
<1>3. Cur(x).op \notin WaitOps
  BY <1>1 DEF WaitOps
<1> QED
  BY <1>1, <1>2, <1>3, PopServices

LEMMA RelServices ==
  ASSUME Core, Services, NEW x \in Threads, Rel(x)
  PROVE  Services'
<1>1. todo[x] # <<>> /\ Cur(x).op \in {"rel", "relall"} /\ Cur(x).node \in Nodes /\ Cur(x).k \in Int
  BY AtTop DEF Rel, Core
<1>2. UNCHANGED <<head, nextWriter, var, args, making, woken, want>>
  BY DEF Rel, setup, ghost
<1>3. PICK k \in Int : k = IF At(x, "relall") THEN refs[Cur(x).node] ELSE Cur(x).k
  <2>1. Cur(x) \in FrameOf(x)
    BY <1>1, TopLies DEF Core
  <2>2. At(x, "relall") => Cur(x).node \in Tasks
    BY <2>1 DEF At, Cur, FrameOf
  <2>3. At(x, "relall") => refs[Cur(x).node] \in Int
    BY <2>2 DEF Core, TypeOK
  <2> QED
    BY <1>1, <2>3
<1>4. PICK g : g = F("sub", Cur(x).node, 0, k)
  OBVIOUS
<1>5. g \in Frame /\ g.op \notin WaitOps \cup Minding
  BY <1>1, <1>4, NodesApart DEF F, Frame, CountOps, WaitOps, Minding, Attaching
<1>6. Then(x, <<>>) \/ Then(x, <<g>>)
  BY <1>3, <1>4 DEF Rel
<1>7. Cur(x).op \notin WaitOps
  BY <1>1 DEF WaitOps
<1> QED
  BY <1>1, <1>2, <1>5, <1>6, <1>7, PopServices, OneServices

LEMMA SubServices ==
  ASSUME Core, Services, NEW x \in Threads, Sub(x)
  PROVE  Services'
<1>1. todo[x] # <<>> /\ Cur(x).op = "sub"
  BY AtTop DEF Sub, Core
<1>2. UNCHANGED <<head, nextWriter, var, args, making, woken, want>> /\ Then(x, <<>>)
  BY DEF Sub, setup, ghost
<1>3. Cur(x).op \notin WaitOps
  BY <1>1 DEF WaitOps
<1> QED
  BY <1>1, <1>2, <1>3, PopServices

LEMMA DecServices ==
  ASSUME Core, Services, NEW x \in Threads, Dec(x)
  PROVE  Services'
<1>1. At(x, "dec")
  BY DEF Dec
<1>2. todo[x] # <<>> /\ Cur(x).op = "dec"
  BY <1>1, AtTop DEF Core
<1>3. PICK fs \in Seq(Frame) :
        /\ Then(x, fs)
        /\ \A i \in DOMAIN fs : \/ fs[i].op = "pre" /\ fs[i].k = 1 /\ fs[i].node \in Tasks
                                \/ fs[i].op = "rel" /\ node[fs[i].node] # "unborn"
        /\ \A u \in Tasks : Number(fs, Notices(u)) =
                One(/\ countdown[Cur(x).node][Cur(x).port] = Cur(x).k
                    /\ nextWriter[Cur(x).node][Cur(x).port] = Writer(u))
  BY DecFrames
<1>4. \A i \in DOMAIN fs : fs[i].op \in {"pre", "rel"}
  BY <1>3
<1>5. \A i \in DOMAIN fs : fs[i].op \notin WaitOps \cup Minding
  BY <1>4 DEF WaitOps, Minding, Attaching
<1>6. Cur(x).op \notin WaitOps
  BY <1>2 DEF WaitOps
<1>7. UNCHANGED <<head, nextWriter, var, args, making, woken, want>>
  BY DEF Dec, setup, ghost
<1> QED
  BY <1>2, <1>3, <1>5, <1>6, <1>7, PlainServices

LEMMA StartServices ==
  ASSUME Core, Services, NEW t \in Tasks, Start(t) \/ Finish(t)
  PROVE  Services'
<1>1. t \in Threads /\ todo[t] # <<>> /\ Cur(t).op \in {"start", "finish"}
  BY AtTop, NodesApart DEF Start, Finish, Core
<1>2. UNCHANGED <<head, nextWriter, var, args, making, woken, want>> /\ Then(t, <<>>)
  BY DEF Start, Finish, engine, setup
<1>3. Cur(t).op \notin WaitOps
  BY <1>1 DEF WaitOps
<1> QED
  BY <1>1, <1>2, <1>3, PopServices

(* Nothing that anybody waits for is touched. *)
LEMMA VarSame ==
  ASSUME var' = var
  PROVE  Sparing
BY DEF Sparing, Spared

LEMMA ListsSame ==
  ASSUME head' = head
  PROVE  \A n \in Nodes : \A a : Listed(n, a)' => Listed(n, a)
BY DEF Listed, Lists

LEMMA TakesSame ==
  ASSUME nextWriter' = nextWriter
  PROVE  \A t \in Tasks, n \in Nodes, p \in Port : Takes(t, n, p)' => Takes(t, n, p)
BY DEF Takes, Writer

LEMMA WakeupServices ==
  ASSUME Core, Services, NEW t \in Tasks, Wakeup(t)
  PROVE  Services'
<1>1. t \in Threads /\ todo[t] # <<>> /\ Cur(t).op = "wakeup"
  BY AtTop, NodesApart DEF Wakeup, Core
<1>2. UNCHANGED <<head, nextWriter, var, args, making, want>> /\ Then(t, <<>>)
  BY DEF Wakeup, setup, ghost
<1>3. Cur(t).op \notin WaitOps
  BY <1>1 DEF WaitOps
<1>4. head[t].tag = "done"
  BY <1>1, WorkerStage DEF Core
<1>5. \A n \in Nodes : woken'[n] => woken[n] \/ head'[n].tag = "done"
  <2>1. woken' = [woken EXCEPT ![t] = TRUE] /\ woken \in [Nodes -> BOOLEAN]
    BY DEF Wakeup, Core, TypeOK
  <2> QED
    BY <1>2, <1>4, <2>1
<1>6. PICK fs : fs = <<>>
  OBVIOUS
<1>7. fs \in Seq(Frame) /\ DOMAIN fs = {} /\ Then(t, fs)
  BY <1>2, <1>6
<1>8. /\ Sparing
      /\ \A n \in Nodes : \A a : Listed(n, a)' => Listed(n, a)
      /\ \A u \in Tasks, n \in Nodes, p \in Port : Takes(u, n, p)' => Takes(u, n, p)
  BY <1>2, VarSame, ListsSame, TakesSame
<1> QED
  BY <1>1, <1>2, <1>3, <1>5, <1>7, <1>8, ServicesThen

LEMMA OutServices ==
  ASSUME Core, Services, NEW t \in Tasks, Out(t)
  PROVE  Services'
<1>1. t \in Threads /\ t \in Nodes /\ todo[t] # <<>> /\ Cur(t).op = "out"
  BY AtTop, NodesApart DEF Out, Core
<1>2. PICK p \in Port : p = Cur(t).port
  BY AtTop, NodesApart DEF Out, Core
<1>3. PICK k \in Int : k = count[t][p] - Kept(t, p)
  <2>1. count[t][p] \in Int /\ Kept(t, p) \in Int
    BY <1>2 DEF Core, TypeOK, Kept
  <2> QED
    BY <2>1
<1>4. PICK g : g = F("dec", t, p, k)
  OBVIOUS
<1>5. g \in Frame /\ g.op = "dec"
  BY <1>1, <1>2, <1>3, <1>4 DEF F, Frame, CountOps
<1>6. g.op \notin WaitOps \cup {"return"} /\ Serves(t, g)'
  BY <1>5 DEF WaitOps, Serves, Attaching
<1>7. PICK fs : fs = <<g>>
  OBVIOUS
<1>8. fs \in Seq(Frame) /\ \A i \in DOMAIN fs : fs[i] = g
  BY <1>5, <1>7, OneIs
<1>9. \A i \in DOMAIN fs : fs[i].op \notin WaitOps \cup {"return"} /\ Serves(t, fs[i])'
  BY <1>6, <1>8
<1>10. /\ nextWriter' = [nextWriter EXCEPT ![t][p] = IF @ = Null THEN Ready ELSE @]
       /\ Then(t, fs)
       /\ UNCHANGED <<head, var, args, making, woken, want>>
  BY <1>2, <1>3, <1>4, <1>7 DEF Out, setup, ghost
<1>11. \A u \in Tasks, n \in Nodes, q \in Port : Takes(u, n, q)' => Takes(u, n, q)
  <2>1. \A n \in Nodes, q \in Port : nextWriter'[n][q] = nextWriter[n][q] \/ nextWriter'[n][q] = Ready
    BY <1>1, <1>2, <1>10 DEF Core, TypeOK
  <2>2. \A u : Writer(u) # Ready /\ Writer(u)' = Writer(u)
    BY DEF Writer, Ready
  <2> QED
    BY <2>1, <2>2 DEF Takes
<1>12. Sparing /\ \A n \in Nodes : \A a : Listed(n, a)' => Listed(n, a)
  BY <1>10, VarSame, ListsSame
<1>13. Cur(t).op \notin WaitOps
  BY <1>1 DEF WaitOps
<1> QED
  BY <1>1, <1>8, <1>9, <1>10, <1>11, <1>12, <1>13, ServicesThen

LEMMA BindServices ==
  ASSUME Core, Services, NEW x \in Clients, Bind(x)
  PROVE  Services'
<1>1. /\ x \in Threads /\ todo[x] # <<>> /\ Cur(x).op = "bind" /\ Cur(x) \in Ahead(x)
  BY AtTop, TopLies, NodesApart DEF Bind, Core
<1>2. PICK t \in Tasks : t = making[x]
  BY <1>1, SettingUp DEF Core
<1>3. InRun(x) /\ t \in Nodes
  BY <1>1, <1>2, SettingUp, NodesApart DEF Core
<1>4. var[t] = New(t)
  BY <1>2, <1>3 DEF Core, Callers, Called
<1>5. Protection(t) \in Int
  BY <1>2, OwedRange DEF Core
<1>6. PICK g : g = F("pre", t, 0, Protection(t))
  OBVIOUS
<1>7. g \in Frame /\ g.op = "pre"
  BY <1>3, <1>5, <1>6, NodesApart DEF F, Frame, CountOps
<1>8. Then(x, <<g>>) /\ UNCHANGED <<head, nextWriter, args, making, woken, want>>
  BY <1>2, <1>6 DEF Bind, ghost
<1>9. var' = var
  <2>1. var' = [var EXCEPT ![t] = New(t)]
    BY <1>2 DEF Bind, New
  <2> QED
    BY <1>4, <2>1 DEF Core, TypeOK
<1>10. Cur(x).op \notin WaitOps /\ g.op \notin WaitOps \cup Minding
  BY <1>1, <1>7 DEF WaitOps, Minding, Attaching
<1> QED
  BY <1>1, <1>7, <1>8, <1>9, <1>10, OneServices

LEMMA ReturnServices ==
  ASSUME Core, Services, NEW x \in Clients, Return(x)
  PROVE  Services'
<1>1. x \in Threads /\ todo[x] # <<>> /\ Cur(x).op = "return" /\ Cur(x) \in Ahead(x)
  BY AtTop, TopLies, NodesApart DEF Return, Core
<1>2. InRun(x)
  BY <1>1, RunAhead
<1>3. PICK t \in Tasks : t = making[x]
  BY <1>2 DEF Core, Callers, Called
<1>4. PICK fs : fs = <<>>
  OBVIOUS
<1>5. fs \in Seq(Frame) /\ DOMAIN fs = {}
  BY <1>4
<1>6. Then(x, fs) /\ UNCHANGED <<head, nextWriter, args, making, woken, want>>
  BY <1>4 DEF Return, engine, ghost
<1>7. Sparing
  <2>1. var' = [var EXCEPT ![t] = [@ EXCEPT !.live = TRUE]]
    BY <1>3 DEF Return
  <2>2. t \in Nodes /\ var[t] \in OoxVar
    BY NodesApart DEF Core, TypeOK
  <2>3. var'[t] = [var[t] EXCEPT !.live = TRUE] /\ \A v \in Nodes : v # t => var'[v] = var[v]
    BY <2>1, <2>2 DEF Core, TypeOK
  <2>4. var'[t].live /\ var'[t].cur = var[t].cur
    BY <2>2, <2>3 DEF OoxVar
  <2> QED
    BY <2>3, <2>4 DEF Sparing, Spared
<1>8. /\ \A n \in Nodes : \A a : Listed(n, a)' => Listed(n, a)
      /\ \A u \in Tasks, n \in Nodes, q \in Port : Takes(u, n, q)' => Takes(u, n, q)
  BY <1>6, ListsSame, TakesSame
<1>9. Cur(x).op \notin WaitOps
  BY <1>1 DEF WaitOps
<1> QED
  BY <1>1, <1>5, <1>6, <1>7, <1>8, <1>9, ServicesThen

LEMMA PreServices ==
  ASSUME Core, Services, NEW x \in Threads, Pre(x)
  PROVE  Services'
<1>1. /\ todo[x] # <<>> /\ Cur(x).op = "pre" /\ Cur(x) \in Ahead(x) /\ Cur(x) \in Frame /\ Fits(Cur(x))
  BY AtTop, TopLies DEF Pre, Core
<1>2. PICK d \in Nodes, k \in Int : d = Cur(x).node /\ k = Cur(x).k
  BY AtTop DEF Pre, Core
<1>3. d \in Tasks /\ d \in Threads /\ (k = 1 \/ k = Protection(d))
  BY <1>1, <1>2, NodesApart DEF Fits
<1>4. (Cur(x) \in Notices(d) <=> k = 1) /\ (Cur(x) \in Protecting(d) <=> k # 1)
  BY <1>1, <1>2 DEF Notices, Protecting
<1>5. todo[d] = <<>> /\ d # x
  BY <1>1, <1>3, <1>4, Expected DEF Core
<1>6. PICK j : j = F("join", d, 0, 0)
  OBVIOUS
<1>7. j \in Frame /\ j.op = "join"
  BY <1>6, NodesApart DEF F, Frame, CountOps
<1>8. UNCHANGED <<head, nextWriter, var, args, making, woken, want>>
  BY DEF Pre, setup, ghost
<1>9. todo \in [Threads -> Seq(Frame)] /\ todo[x] \in Seq(Frame) /\ BodyFrames(d) \in Seq(Frame) /\ <<>> \in Seq(Frame)
  <2>1. TypeOK
    BY DEF Core
  <2>2. todo \in [Threads -> Seq(Frame)] /\ todo[x] \in Seq(Frame)
    BY <2>1 DEF TypeOK, FramesFit
  <2>3. BodyFrames(d) \in Seq(Frame)
    BY <1>3, <2>1, BodyIs
  <2> QED
    BY <2>2, <2>3
<1>10. PICK bs \in Seq(Frame), fs \in Seq(Frame) :
         /\ Hands(x, fs, d, bs)
         /\ fs = <<>> \/ fs = <<j>>
         /\ bs = <<>> \/ bs = BodyFrames(d)
  <2>1. CASE startCount[d] = k
    <3>1. PICK fs : fs = IF SyncSpawn THEN <<F("join", d, 0, 0)>> ELSE <<>>
      OBVIOUS
    <3>2. fs = <<>> \/ fs = <<j>>
      BY <1>6, <3>1
    <3>3. <<j>> \in Seq(Frame)
      BY <1>7, Short
    <3>4. fs \in Seq(Frame)
      BY <1>9, <3>2, <3>3
    <3>5. todo' = [todo EXCEPT ![x] = fs \o Tail(@), ![d] = BodyFrames(d)]
      BY <1>2, <2>1, <3>1 DEF Pre
    <3>6. Hands(x, fs, d, BodyFrames(d))
      BY <1>3, <1>5, <1>9, <3>5 DEF Hands
    <3> QED
      BY <1>9, <3>2, <3>4, <3>6
  <2>2. CASE startCount[d] # k
    <3>1. todo' = [todo EXCEPT ![x] = <<>> \o Tail(@)]
      BY <1>2, <2>2 DEF Pre, Then
    <3>2. Hands(x, <<>>, d, <<>>)
      BY <1>3, <1>5, <1>9, <3>1 DEF Hands
    <3> QED
      BY <1>9, <3>2
  <2> QED
    BY <2>1, <2>2
<1>11. /\ Ahead(x) = {Cur(x)} \cup After(todo[x], 1)
       /\ Ahead(x)' = {fs[i] : i \in DOMAIN fs} \cup After(todo[x], 1)
       /\ Ahead(d)' = {bs[i] : i \in DOMAIN bs}
       /\ \A y \in Threads : y # x /\ y # d => todo'[y] = todo[y] /\ Ahead(y)' = Ahead(y)
  BY <1>1, <1>3, <1>5, <1>10, HandsAhead DEF Core
<1>12. \A i \in DOMAIN fs : fs[i].op = "join"
  <2>1. CASE fs = <<>>
    BY <2>1
  <2>2. CASE fs = <<j>>
    BY <1>7, <2>2, OneIs
  <2> QED
    BY <1>10, <2>1, <2>2
<1>13. \A i \in DOMAIN bs : bs[i].op \in BodyOps \cup CountOps /\ bs[i].op # "flow"
  <2>1. CASE bs = <<>>
    BY <2>1
  <2>2. CASE bs = BodyFrames(d)
    <3>1. \A i \in DOMAIN BodyFrames(d) : BodyFrames(d)[i] \in Bodily(d)
      BY <1>3, BodyFrame DEF Core
    <3> QED
      BY <2>2, <3>1 DEF Bodily, Closing, BodyOps, CountOps
  <2> QED
    BY <1>10, <2>1, <2>2
<1>14. \A y \in Threads : \A f \in Ahead(y)' : f \in Ahead(y) \/ (f.op \notin WaitOps \cup {"return"} /\ Serves(y, f)')
  <2>1. ASSUME NEW y \in Threads, NEW f \in Ahead(y)', f \notin Ahead(y)
        PROVE  f.op \in BodyOps \cup CountOps /\ f.op # "flow"
    <3>1. CASE y = x
      BY <1>11, <1>12, <2>1, <3>1 DEF CountOps
    <3>2. CASE y = d
      BY <1>11, <1>13, <2>1, <3>2
    <3> QED
      BY <1>11, <2>1, <3>1, <3>2
  <2>2. \A y, f : f.op \in BodyOps \cup CountOps /\ f.op # "flow" =>
          f.op \notin WaitOps \cup {"return"} \cup Attaching \cup {"move", "flow", "hold"}
    BY DEF BodyOps, CountOps, WaitOps, Attaching
  <2>3. \A y, f : f.op \notin Attaching \cup {"move", "flow", "hold"} => Serves(y, f)'
    BY DEF Serves
  <2> QED
    BY <2>1, <2>2, <2>3
<1>15. \A y \in Clients : y # x => todo'[y] = todo[y]
  <2>1. \A y \in Clients : y \in Threads /\ y # d
    BY <1>3, NodesApart
  <2> QED
    BY <1>11, <2>1
<1>16. /\ Sparing
       /\ \A n \in Nodes : \A a : Listed(n, a)' => Listed(n, a)
       /\ \A u \in Tasks, n \in Nodes, q \in Port : Takes(u, n, q)' => Takes(u, n, q)
  BY <1>8, VarSame, ListsSame, TakesSame
<1>17. Cur(x).op \notin WaitOps
  BY <1>1 DEF WaitOps
<1> QED
  BY <1>8, <1>14, <1>15, <1>16, <1>17, ServicesStep

(***************************************************************************)
(* Steps of those who wait                                                 *)
(***************************************************************************)
(* Client x goes on waiting for v, or has waited. *)
LEMMA WaitOn ==
  ASSUME Core, Services, NEW x \in Clients, NEW v \in Nodes, Spared(v),
         UNCHANGED <<head, nextWriter, var, args, making, woken, want>>,
         \A y \in Threads : y # x => todo'[y] = todo[y],
         todo'[x] = <<>> \/ todo'[x] \in Waiting(v),
         At(x, "get")' => head[var[v].cur].tag = "done"
  PROVE  Services'
<1>0. TypeOK /\ Waiters /\ Wakes /\ Serving /\ Taken
  BY DEF Core, Services
<1>1. \A y \in Clients : y \in Threads
  BY NodesApart
<1>2. \A f \in Ahead(x)' : f.op \in WaitOps
  <2>1. CASE todo'[x] = <<>>
    BY <2>1 DEF Ahead
  <2>2. CASE todo'[x] \in Waiting(v)
    <3>1. PICK w, b, g : w = F("wait", v, 0, 0) /\ b = F("block", v, 0, 0) /\ g = F("get", v, 0, 0)
      OBVIOUS
    <3>2. w.op \in WaitOps /\ b.op \in WaitOps /\ g.op \in WaitOps
      BY <3>1, FrameFields DEF WaitOps
    <3>3. todo'[x] = <<w, g>> \/ todo'[x] = <<b, g>> \/ todo'[x] = <<g>>
      BY <2>2, <3>1 DEF Waiting
    <3>4. \A i \in DOMAIN todo'[x] : todo'[x][i] \in {w, b, g}
      <4>1. CASE todo'[x] = <<w, g>>
        BY <4>1
      <4>2. CASE todo'[x] = <<b, g>>
        BY <4>2
      <4>3. CASE todo'[x] = <<g>>
        BY <4>3
      <4> QED
        BY <3>3, <4>1, <4>2, <4>3
    <3> QED
      BY <3>2, <3>4 DEF Ahead
  <2> QED
    BY <2>1, <2>2
<1>3. \A y \in Threads : y # x => Ahead(y)' = Ahead(y)
  BY DEF Ahead
<1>4. \A y \in Clients : \A f : f.op = "return" /\ f \in Ahead(y)' => f \in Ahead(y)
  <2>1. \A f : f.op = "return" => f.op \notin WaitOps
    BY DEF WaitOps
  <2> QED
    BY <1>1, <1>2, <1>3, <2>1
<1>5. \A u \in Nodes : Spared(u) => Spared(u)'
  <2>1. ASSUME NEW u \in Nodes, Spared(u), NEW y \in Clients, Modifies(y, u)'
        PROVE  FALSE
    <3>1. Modifies(y, u)
      BY <1>4, <2>1, ModifiesBack
    <3> QED
      BY <2>1, <3>1 DEF Spared
  <2> QED
    BY <2>1 DEF Spared
<1>6. Waiters'
  <2>1. ASSUME NEW y \in Clients, Waited(y)' # {}
        PROVE  \E u \in Nodes : WaitsFor(y, u)'
    <3>1. CASE y = x
      <4>1. todo'[x] # <<>>
        BY <2>1, <3>1 DEF Waited
      <4>2. todo'[x] \in Waiting(v)'
        BY <4>1 DEF Waiting
      <4>3. Spared(v)' /\ head'[var'[v].cur].tag = head[var[v].cur].tag
        BY <1>5
      <4> QED
        BY <3>1, <4>2, <4>3 DEF WaitsFor
    <3>2. CASE y # x
      <4>1. todo'[y] = todo[y]
        BY <1>1, <3>2
      <4>2. Waited(y) # {}
        BY <2>1, <4>1 DEF Waited
      <4>3. PICK u \in Nodes : WaitsFor(y, u)
        BY <1>0, <4>2 DEF Waiters
      <4>4. todo'[y] \in Waiting(u)' /\ (At(y, "get")' <=> At(y, "get"))
        BY <4>1, <4>3 DEF WaitsFor, Waiting, At
      <4>5. Spared(u)'
        BY <1>5, <4>3 DEF WaitsFor
      <4> QED
        BY <4>3, <4>4, <4>5 DEF WaitsFor
    <3> QED
      BY <3>1, <3>2
  <2> QED
    BY <2>1 DEF Waiters
<1>7. Wakes'
  BY <1>0 DEF Wakes
<1>8. Serving'
  <2>1. \A y \in Threads : \A f \in Ahead(y)' : f \in Ahead(y) \/ Serves(y, f)'
    <3>1. \A f : f.op \in WaitOps => Serves(x, f)'
      BY DEF WaitOps, Serves, Attaching
    <3> QED
      BY <1>2, <1>3, <3>1
  <2>2. \A n \in Nodes : \A a : Listed(n, a)' => Listed(n, a)
    BY ListsSame
  <2>3. Standing
    BY SameArguments
  <2> QED
    BY <1>0, <2>1, <2>2, <2>3, ServingKept
<1>9. Taken'
  BY <1>0, SameArguments, TakesSame DEF Taken
<1> QED
  BY <1>6, <1>7, <1>8, <1>9 DEF Services

LEMMA WaitVarServices ==
  ASSUME Core, Services, NEW x \in Clients, NEW v \in Waitable, WaitVar(x, v)
  PROVE  Services'
<1>1. v \in Nodes /\ x \in Threads /\ ~InCall(x) /\ MayWait(x, v)
  BY ConstantsAssumption, NodesApart DEF WaitVar
<1>2. UNCHANGED <<head, nextWriter, var, args, making, woken, want>>
  BY DEF WaitVar, engine, setup, ghost
<1>3. PICK fs : fs = <<F("wait", v, 0, 0), F("get", v, 0, 0)>>
  OBVIOUS
<1>4. todo'[x] = fs /\ \A y \in Threads : y # x => todo'[y] = todo[y]
  <2>1. todo' = [todo EXCEPT ![x] = fs] /\ todo \in [Threads -> Seq(Frame)]
    BY <1>3 DEF WaitVar, Core, TypeOK, FramesFit
  <2> QED
    BY <1>1, <2>1
<1>5. Spared(v)
  <2>1. \A u : ~Modifies(x, u)
    BY <1>1, AtRest DEF Core
  <2> QED
    BY <1>1, <2>1 DEF MayWait, Spared
<1>6. todo'[x] \in Waiting(v)
  BY <1>3, <1>4 DEF Waiting
<1>7. ~At(x, "get")'
  <2>1. Head(fs) = F("wait", v, 0, 0)
    BY <1>3
  <2>2. Head(fs).op = "wait"
    BY <2>1, FrameFields
  <2> QED
    BY <1>4, <2>2 DEF At
<1> QED
  BY <1>1, <1>2, <1>4, <1>5, <1>6, <1>7, WaitOn

(* A client that waits: what for, and where it goes on. *)
LEMMA WaitingNow ==
  ASSUME Core, Services, NEW x \in Clients, NEW op \in WaitOps, At(x, op)
  PROVE  /\ x \in Threads /\ todo[x] # <<>> /\ Cur(x).node \in Nodes /\ Spared(Cur(x).node)
         /\ op = "wait" => todo[x] = <<F("wait", Cur(x).node, 0, 0), F("get", Cur(x).node, 0, 0)>>
         /\ op = "block" => todo[x] = <<F("block", Cur(x).node, 0, 0), F("get", Cur(x).node, 0, 0)>>
         /\ op = "get" => todo[x] = <<F("get", Cur(x).node, 0, 0)>>
<1>1. x \in Threads /\ todo[x] # <<>> /\ Cur(x).op = op
  <2>1. x \in Threads
    BY NodesApart
  <2> QED
    BY <2>1, AtTop DEF Core
<1>2. Cur(x) \in Ahead(x)
  BY <1>1, TopLies DEF Core
<1>3. Waited(x) # {}
  BY <1>1, <1>2, WaitedIs
<1>4. PICK v \in Nodes : WaitsFor(x, v)
  BY <1>3 DEF Services, Waiters
<1>5. todo[x] \in Waiting(v) /\ Spared(v)
  BY <1>4 DEF WaitsFor
<1>6. Cur(x).node = v
  BY <1>5, WaitingIs
<1>7. /\ op = "wait" => todo[x] = <<F("wait", v, 0, 0), F("get", v, 0, 0)>>
      /\ op = "block" => todo[x] = <<F("block", v, 0, 0), F("get", v, 0, 0)>>
      /\ op = "get" => todo[x] = <<F("get", v, 0, 0)>>
  BY <1>5, WaitingIs
<1> QED
  BY <1>1, <1>5, <1>6, <1>7

(* Two frames, the first run. *)
LEMMA SecondLeft ==
  ASSUME TypeOK, NEW x \in Threads, NEW w, NEW g, todo[x] = <<w, g>>, NEW fs \in Seq(Frame), Then(x, fs)
  PROVE  /\ todo'[x] = fs \o <<g>>
         /\ \A y \in Threads : y # x => todo'[y] = todo[y]
<1>1. todo \in [Threads -> Seq(Frame)]
  BY DEF TypeOK, FramesFit
<1>2. PICK s : s = todo[x]
  OBVIOUS
<1>3. s \in Seq(Frame) /\ s = <<w, g>>
  BY <1>1, <1>2
<1>4. Tail(s) = <<g>>
  BY <1>3
<1>5. todo'[x] = fs \o Tail(s)
  BY <1>1, <1>2 DEF Then
<1> QED
  BY <1>1, <1>4, <1>5 DEF Then

LEMMA WaitServices ==
  ASSUME Core, Services, NEW x \in Clients, Wait(x)
  PROVE  Services'
<1>1. At(x, "wait") /\ "wait" \in WaitOps
  BY DEF Wait, WaitOps
<1>2. PICK v : v = Cur(x).node
  OBVIOUS
<1>3. PICK w, b, g : w = F("wait", v, 0, 0) /\ b = F("block", v, 0, 0) /\ g = F("get", v, 0, 0)
  OBVIOUS
<1>4. x \in Threads /\ v \in Nodes /\ Spared(v) /\ todo[x] = <<w, g>>
  BY <1>1, <1>2, <1>3, WaitingNow
<1>5. UNCHANGED <<head, nextWriter, var, args, making, woken, want>>
  BY DEF Wait, engine, setup, ghost
<1>6. b \in Frame /\ g \in Frame /\ b.op = "block"
  BY <1>3, <1>4, NodesApart DEF F, Frame, WaitOps
<1>7. CASE head[var[v].cur].tag = "done"
  <2>1. PICK fs : fs = <<>>
    OBVIOUS
  <2>2. fs \in Seq(Frame) /\ Then(x, fs)
    BY <1>2, <1>7, <2>1 DEF Wait
  <2>3. todo'[x] = fs \o <<g>> /\ \A y \in Threads : y # x => todo'[y] = todo[y]
    BY <1>4, <2>2, SecondLeft DEF Core
  <2>4. todo'[x] = <<g>>
    <3>1. fs \o <<g>> = <<g>>
      BY <2>1
    <3> QED
      BY <2>3, <3>1
  <2>5. todo'[x] \in Waiting(v)
    BY <1>3, <2>4 DEF Waiting
  <2> QED
    BY <1>4, <1>5, <1>7, <2>3, <2>5, WaitOn
<1>8. CASE head[var[v].cur].tag # "done"
  <2>1. PICK fs : fs = <<b>>
    OBVIOUS
  <2>2. fs \in Seq(Frame) /\ Then(x, fs)
    BY <1>2, <1>3, <1>6, <1>8, <2>1 DEF Wait
  <2>3. todo'[x] = fs \o <<g>> /\ \A y \in Threads : y # x => todo'[y] = todo[y]
    BY <1>4, <2>2, SecondLeft DEF Core
  <2>4. todo'[x] = <<b, g>>
    <3>1. PICK gs, bg : gs = <<g>> /\ bg = <<b, g>>
      OBVIOUS
    <3>2. gs \in Seq(Frame) /\ bg \in Seq(Frame) /\ Len(bg) = 2 /\ bg[1] = b /\ bg[2] = g
      BY <1>6, <3>1
    <3>3. Len(fs) = 1 /\ fs[1] = b /\ Len(gs) = 1 /\ gs[1] = g
      BY <2>1, <3>1
    <3>4. /\ fs \o gs \in Seq(Frame) /\ Len(fs \o gs) = 2
          /\ (fs \o gs)[1] = b /\ (fs \o gs)[2] = g
      <4>1. \A p \in Seq(Frame), q \in Seq(Frame) :
              /\ p \o q \in Seq(Frame) /\ Len(p \o q) = Len(p) + Len(q)
              /\ \A i \in 1..Len(p) : (p \o q)[i] = p[i]
              /\ \A i \in 1..Len(q) : (p \o q)[Len(p) + i] = q[i]
        OBVIOUS
      <4>2. PICK r : r = fs \o gs
        OBVIOUS
      <4>3. /\ r \in Seq(Frame) /\ Len(r) = Len(fs) + Len(gs)
            /\ \A i \in 1..Len(fs) : r[i] = fs[i]
            /\ \A i \in 1..Len(gs) : r[Len(fs) + i] = gs[i]
        BY <2>2, <3>2, <4>1, <4>2
      <4>4. Len(r) = 2 /\ r[1] = b
        BY <3>3, <4>3
      <4>5. r[1 + 1] = g
        BY <3>3, <4>3
      <4> QED
        BY <4>2, <4>3, <4>4, <4>5
    <3>5. fs \o gs = bg
      BY <3>2, <3>4
    <3> QED
      BY <2>3, <3>1, <3>5
  <2>5. todo'[x] \in Waiting(v)
    BY <1>3, <2>4 DEF Waiting
  <2>6. ~At(x, "get")'
    BY <1>6, <2>4 DEF At
  <2> QED
    BY <1>4, <1>5, <2>3, <2>5, <2>6, WaitOn
<1> QED
  BY <1>7, <1>8

LEMMA BlockServices ==
  ASSUME Core, Services, NEW x \in Clients, Block(x)
  PROVE  Services'
<1>1. At(x, "block") /\ "block" \in WaitOps
  BY DEF Block, WaitOps
<1>2. PICK v : v = Cur(x).node
  OBVIOUS
<1>3. PICK b, g : b = F("block", v, 0, 0) /\ g = F("get", v, 0, 0)
  OBVIOUS
<1>4. x \in Threads /\ v \in Nodes /\ Spared(v) /\ todo[x] = <<b, g>>
  BY <1>1, <1>2, <1>3, WaitingNow
<1>5. UNCHANGED <<head, nextWriter, var, args, making, woken, want>>
  BY DEF Block, engine, setup, ghost
<1>6. head[var[v].cur].tag = "done"
  <2>1. var[v].cur \in Nodes
    BY <1>4 DEF Core, TypeOK, OoxVar
  <2> QED
    BY <1>2, <2>1 DEF Block, Services, Wakes
<1>7. PICK fs : fs = <<>>
  OBVIOUS
<1>8. fs \in Seq(Frame) /\ Then(x, fs)
  BY <1>7 DEF Block
<1>9. todo'[x] = fs \o <<g>> /\ \A y \in Threads : y # x => todo'[y] = todo[y]
  BY <1>4, <1>8, SecondLeft DEF Core
<1>10. todo'[x] = <<g>>
  <2>1. fs \o <<g>> = <<g>>
    BY <1>7
  <2> QED
    BY <1>9, <2>1
<1>11. todo'[x] \in Waiting(v)
  BY <1>3, <1>10 DEF Waiting
<1> QED
  BY <1>4, <1>5, <1>6, <1>9, <1>11, WaitOn

LEMMA GetServices ==
  ASSUME Core, Services, NEW x \in Clients, Get(x)
  PROVE  Services'
<1>1. At(x, "get") /\ "get" \in WaitOps
  BY DEF Get, WaitOps
<1>2. PICK v, g : v = Cur(x).node /\ g = F("get", v, 0, 0)
  OBVIOUS
<1>3. x \in Threads /\ v \in Nodes /\ Spared(v) /\ todo[x] = <<g>>
  BY <1>1, <1>2, WaitingNow
<1>4. UNCHANGED <<head, nextWriter, var, args, making, woken, want>> /\ Then(x, <<>>)
  BY DEF Get, engine, setup, ghost
<1>5. todo'[x] = <<>> /\ \A y \in Threads : y # x => todo'[y] = todo[y]
  <2>1. todo \in [Threads -> Seq(Frame)]
    BY DEF Core, TypeOK, FramesFit
  <2>2. PICK s : s = todo[x]
    OBVIOUS
  <2>3. <<>> \o Tail(s) = <<>>
    BY <1>3, <2>2
  <2> QED
    BY <1>3, <1>4, <2>1, <2>2, <2>3 DEF Then
<1>6. ~At(x, "get")'
  BY <1>5 DEF At
<1> QED
  BY <1>3, <1>4, <1>5, <1>6, WaitOn

(***************************************************************************)
(* Steps that hand a reader its slot                                       *)
(***************************************************************************)
LEMMA SameServes ==
  ASSUME UNCHANGED <<args, want, making>>
  PROVE  /\ \A y, f : Serves(y, f)' <=> Serves(y, f)
         /\ \A n, a : ServesArc(n, a)' <=> ServesArc(n, a)
<1>1. \A t, n, p : Stands(t, n, p)' <=> Stands(t, n, p)
  BY SameArguments
<1> QED
  BY <1>1 DEF Serves, ServesArc

LEMMA ListedBack ==
  ASSUME TypeOK, NEW m \in Nodes, head[m].tag = "open", NEW a \in Arc, Push(m, a)
  PROVE  \A n \in Nodes : \A b : Listed(n, b)' => Listed(n, b) \/ (n = m /\ b = a)
<1>1. Lists'[m] = <<a>> \o Lists[m] /\ \A n \in Nodes : n # m => Lists'[n] = Lists[n]
  BY PushLists
<1>2. PICK s \in Seq(Arc) : s = Lists[m]
  BY Families
<1>3. PICK r : r = <<a>> \o s
  OBVIOUS
<1>4. \A i \in DOMAIN r : r[i] = a \/ \E j \in DOMAIN s : r[i] = s[j]
  <2>1. ASSUME NEW i \in DOMAIN r
        PROVE  r[i] = a \/ \E j \in DOMAIN s : r[i] = s[j]
    <3>1. i \in 1..(Len(s) + 1) /\ Len(s) \in Nat
      BY <1>3, <2>1
    <3>2. CASE i = 1
      BY <1>3, <3>2
    <3>3. CASE i # 1
      <4>1. i - 1 \in DOMAIN s /\ r[i] = s[i - 1]
        BY <1>3, <3>1, <3>3
      <4> QED
        BY <4>1
    <3> QED
      BY <3>2, <3>3
  <2> QED
    BY <2>1
<1>5. \A b : Listed(m, b)' => Listed(m, b) \/ b = a
  BY <1>1, <1>2, <1>3, <1>4 DEF Listed
<1>6. \A n \in Nodes : n # m => \A b : Listed(n, b)' => Listed(n, b)
  BY <1>1 DEF Listed
<1> QED
  BY <1>5, <1>6

(* Thread x goes on with frames that serve, and may hang an arc that serves on node m. *)
LEMMA HandingServices ==
  ASSUME Core, Services, NEW x \in Threads, todo[x] # <<>>, Cur(x).op \notin WaitOps,
         NEW fs \in Seq(Frame), Then(x, fs), UNCHANGED <<nextWriter, var, args, making, woken, want>>,
         \A j \in DOMAIN fs : fs[j].op \notin WaitOps \cup {"return"} /\ Serves(x, fs[j]),
         NEW m \in Nodes, NEW a \in Arc,
         head' = head \/ (head[m].tag = "open" /\ Push(m, a) /\ ServesArc(m, a))
  PROVE  Services'
<1>1. \A j \in DOMAIN fs : fs[j].op \notin WaitOps \cup {"return"} /\ Serves(x, fs[j])'
  <2>1. \A f : Serves(x, f)' <=> Serves(x, f)
    BY SameServes
  <2> QED
    BY <2>1
<1>2. \A n \in Nodes : \A b : Listed(n, b)' => Listed(n, b) \/ ServesArc(n, b)'
  <2>1. CASE head' = head
    BY <2>1, ListsSame
  <2>2. CASE head[m].tag = "open" /\ Push(m, a) /\ ServesArc(m, a)
    <3>1. \A n \in Nodes : \A b : Listed(n, b)' => Listed(n, b) \/ (n = m /\ b = a)
      BY <2>2, ListedBack DEF Core
    <3>2. ServesArc(m, a)'
      BY <2>2, SameServes
    <3> QED
      BY <3>1, <3>2
  <2> QED
    BY <2>1, <2>2
<1>3. \A n \in Nodes : head[n].tag = "done" => head'[n].tag = "done"
  <2>1. CASE head' = head
    BY <2>1
  <2>2. CASE head[m].tag = "open" /\ Push(m, a)
    BY <2>2, PushLists DEF Core
  <2> QED
    BY <2>1, <2>2
<1>4. Sparing /\ \A t \in Tasks, n \in Nodes, p \in Port : Takes(t, n, p)' => Takes(t, n, p)
  BY VarSame, TakesSame
<1> QED
  BY <1>1, <1>2, <1>3, <1>4, ServicesThen

LEMMA OnwardServices ==
  ASSUME Core, Services, NEW x \in Threads, todo[x] # <<>>, Cur(x).op \notin WaitOps,
         NEW g \in Frame, Then(x, <<g>>), UNCHANGED <<head, nextWriter, var, args, making, woken, want>>,
         g.op \notin WaitOps \cup {"return"}, Serves(x, g)
  PROVE  Services'
<1>1. PICK fs : fs = <<g>>
  OBVIOUS
<1>2. fs \in Seq(Frame) /\ \A j \in DOMAIN fs : fs[j] = g
  BY <1>1, OneIs
<1>3. \A j \in DOMAIN fs : fs[j].op \notin WaitOps \cup {"return"} /\ Serves(x, fs[j])
  BY <1>2
<1>4. Then(x, fs)
  BY <1>1
<1>5. PICK m \in Nodes, a \in Arc : a = BackOnly(m, 0)
  <2>1. g.node \in Nodes
    BY DEF Frame
  <2>2. BackOnly(g.node, 0) \in Arc
    BY <2>1, ArcTypes, NodesApart
  <2> QED
    BY <2>1, <2>2
<1> QED
  BY <1>2, <1>3, <1>4, HandingServices

LEMMA HungServices ==
  ASSUME Core, Services, NEW x \in Threads, todo[x] # <<>>, Cur(x).op \notin WaitOps,
         Then(x, <<>>), UNCHANGED <<nextWriter, var, args, making, woken, want>>,
         NEW m \in Nodes, NEW a \in Arc, head[m].tag = "open", Push(m, a), ServesArc(m, a)
  PROVE  Services'
<1>1. PICK fs : fs = <<>>
  OBVIOUS
<1>2. fs \in Seq(Frame) /\ DOMAIN fs = {} /\ Then(x, fs)
  BY <1>1
<1> QED
  BY <1>2, HandingServices

(* What the frame at the top of a thread is there for. *)
LEMMA ServedNow ==
  ASSUME Core, Services, NEW x \in Threads, NEW op, At(x, op)
  PROVE  todo[x] # <<>> /\ Cur(x).op = op /\ Serves(x, Cur(x))
<1>1. todo[x] # <<>> /\ Cur(x).op = op /\ Cur(x) \in Ahead(x)
  BY AtTop, TopLies DEF Core
<1> QED
  BY <1>1 DEF Services, Serving

(* A node that is done is not the placeholder of a deferred variable. *)
LEMMA DoneNotDeferred ==
  ASSUME Core, NEW n \in Nodes, head[n].tag = "done"
  PROVE  n \notin Deferred
<1>1. ASSUME n \in Deferred
      PROVE  FALSE
  <2>1. n \in Storage
    BY <1>1, ConstantsAssumption
  <2>2. head[n].tag = "open" \/ Redirected(n)
    BY <1>1, <2>1 DEF Core, Stores, Stored
  <2>3. Redirected(n) => head[n].tag = "redirect"
    BY RedirectIs DEF Redirected
  <2> QED
    BY <2>2, <2>3
<1> QED
  BY <1>1

(* A reader of a placeholder reads where the placeholder leads. *)
LEMMA StandsOn ==
  ASSUME Core, Versions, NEW t \in Tasks, NEW n \in Deferred, NEW p, NEW m, NEW q, Names(m, q, n, 1), Stands(t, n, p)
  PROVE  Stands(t, m, q)
<1>1. PICK i \in DOMAIN args[t] \ Writes(t) :
         \/ Names(n, p, args[t][i].v, want[t][i])
         \/ n \in Deferred /\ p = 0 /\ args[t][i].v = n /\ want[t][i] = 1
  BY DEF Stands
<1>2. Dated(t, i)
  BY <1>1 DEF Versions, Dates
<1>3. args[t][i].v \in Deferred => want[t][i] >= 1
  BY <1>1, <1>2 DEF Dated
<1>4. n \notin Tasks
  BY ConstantsAssumption
<1>5. ~Names(n, p, args[t][i].v, want[t][i])
  BY <1>3, <1>4 DEF Names, One
<1>6. args[t][i].v = n /\ want[t][i] = 1
  BY <1>1, <1>5
<1>7. Names(m, q, args[t][i].v, want[t][i])
  BY <1>6
<1> QED
  BY <1>1, <1>7 DEF Stands

LEMMA LinkServices ==
  ASSUME Core, Versions, Services, NEW x \in Clients, Link(x)
  PROVE  Services'
<1> USE DEF setup, engine, ghost
<1>1. At(x, "link") /\ x \in Threads /\ todo[x] # <<>> /\ Cur(x).op = "link" /\ Cur(x).node \in Nodes /\ Cur(x).port \in Port
  BY AtTop, NodesApart DEF Link, Core
<1>2. PICK n \in Nodes, p \in Port : n = Cur(x).node /\ p = Cur(x).port
  BY <1>1
<1>3. UNCHANGED <<nextWriter, var, args, making, woken, want>>
  BY DEF Link
<1>4. PICK t \in Tasks : t = making[x]
  BY <1>1, CallTop DEF Calling, Asking
<1>5. Stands(t, n, p) /\ Cur(x).op \notin WaitOps
  <2>1. Serves(x, Cur(x))
    BY <1>1, ServedNow
  <2> QED
    BY <1>1, <1>2, <1>4, <2>1 DEF Serves, Attaching, WaitOps
<1>6. CASE AddArc(x, n, p)
  <2>1. PICK a : a = FlowBack(t, p)
    OBVIOUS
  <2>2. a \in Arc /\ head[n].tag = "open" /\ Push(n, a) /\ Then(x, <<>>)
    BY <1>4, <1>6, <2>1, ArcTypes, NodesApart DEF AddArc
  <2>3. ServesArc(n, a)
    BY <1>5, <2>1, ArcsAre DEF ServesArc
  <2> QED
    BY <1>1, <1>3, <1>5, <2>2, <2>3, HungServices
<1>7. CASE /\ head[n].tag = "redirect"
           /\ Then(x, <<F("hop", head[n].arcs[1].node, head[n].arcs[1].port, 0)>>)
           /\ UNCHANGED <<head, owed>>
  <2>1. PICK m, q : m = head[n].arcs[1].node /\ q = head[n].arcs[1].port
    OBVIOUS
  <2>2. /\ n \in Deferred
        /\ \E u \in Tasks : \E i \in Writes(u) : args[u][i].v = n /\ head[n] = Redirect(u, PortOf(u, i))
    BY <1>7, Redirects DEF Core
  <2>3. PICK u \in Tasks : \E i \in Writes(u) : args[u][i].v = n /\ head[n] = Redirect(u, PortOf(u, i))
    BY <2>2
  <2>4. PICK i \in Writes(u) : head[n] = Redirect(u, PortOf(u, i))
    BY <2>3
  <2>5. q \in Port /\ m \in Nodes
    BY <2>1, <2>4, RedirectIs, PortsApart, NodesApart DEF Core
  <2>6. Names(m, q, n, 1)
    BY <1>7, <2>1, <2>2 DEF Versions, Heads, Leading
  <2>7. PICK g : g = F("hop", m, q, 0)
    OBVIOUS
  <2>8. g \in Frame /\ g.op = "hop" /\ g.node = m /\ g.port = q
    BY <2>5, <2>7 DEF F, Frame, SetupOps
  <2>9. Then(x, <<g>>) /\ head' = head
    BY <1>7, <2>1, <2>7
  <2>10. Stands(t, m, q)
    BY <1>5, <2>2, <2>6, StandsOn
  <2>11. Serves(x, g) /\ g.op \notin WaitOps \cup {"return"}
    BY <1>4, <2>8, <2>10 DEF Serves, Attaching, WaitOps
  <2> QED
    BY <1>1, <1>3, <1>5, <2>8, <2>9, <2>11, OnwardServices
<1>8. CASE /\ head[n].tag = "done" /\ Then(x, LateFrames(n, p)) /\ UNCHANGED <<head, owed>>
  <2>1. PICK g : g = F("late", n, p, 0)
    OBVIOUS
  <2>2. g \in Frame /\ g.op = "late" /\ g.node = n /\ g.port = p
    BY <2>1 DEF F, Frame, SetupOps
  <2>3. Then(x, <<g>>) /\ head' = head
    BY <1>8, <2>1 DEF LateFrames
  <2>4. Serves(x, g) /\ g.op \notin WaitOps \cup {"return"}
    BY <1>4, <1>5, <2>2 DEF Serves, Attaching, WaitOps
  <2> QED
    BY <1>1, <1>3, <1>5, <2>2, <2>3, <2>4, OnwardServices
<1> QED
  BY <1>2, <1>6, <1>7, <1>8 DEF Link

LEMMA HopServices ==
  ASSUME Core, Services, NEW x \in Clients, Hop(x)
  PROVE  Services'
<1> USE DEF setup, engine, ghost
<1>1. At(x, "hop") /\ x \in Threads /\ todo[x] # <<>> /\ Cur(x).op = "hop" /\ Cur(x).node \in Nodes /\ Cur(x).port \in Port
  BY AtTop, NodesApart DEF Hop, Core
<1>2. PICK n \in Nodes, p \in Port : n = Cur(x).node /\ p = Cur(x).port
  BY <1>1
<1>3. UNCHANGED <<nextWriter, var, args, making, woken, want>>
  BY DEF Hop
<1>4. PICK t \in Tasks : t = making[x]
  BY <1>1, CallTop DEF Calling, Asking
<1>5. Stands(t, n, p) /\ Cur(x).op \notin WaitOps
  <2>1. Serves(x, Cur(x))
    BY <1>1, ServedNow
  <2> QED
    BY <1>1, <1>2, <1>4, <2>1 DEF Serves, Attaching, WaitOps
<1>6. CASE AddArc(x, n, p)
  <2>1. PICK a : a = FlowBack(t, p)
    OBVIOUS
  <2>2. a \in Arc /\ head[n].tag = "open" /\ Push(n, a) /\ Then(x, <<>>)
    BY <1>4, <1>6, <2>1, ArcTypes, NodesApart DEF AddArc
  <2>3. ServesArc(n, a)
    BY <1>5, <2>1, ArcsAre DEF ServesArc
  <2> QED
    BY <1>1, <1>3, <1>5, <2>2, <2>3, HungServices
<1>7. CASE Then(x, LateFrames(n, p)) /\ UNCHANGED <<head, owed>>
  <2>1. PICK g : g = F("late", n, p, 0)
    OBVIOUS
  <2>2. g \in Frame /\ g.op = "late" /\ g.node = n /\ g.port = p
    BY <2>1 DEF F, Frame, SetupOps
  <2>3. Then(x, <<g>>) /\ head' = head
    BY <1>7, <2>1 DEF LateFrames
  <2>4. Serves(x, g) /\ g.op \notin WaitOps \cup {"return"}
    BY <1>4, <1>5, <2>2 DEF Serves, Attaching, WaitOps
  <2> QED
    BY <1>1, <1>3, <1>5, <2>2, <2>3, <2>4, OnwardServices
<1> QED
  BY <1>2, <1>6, <1>7 DEF Hop

LEMMA LateServices ==
  ASSUME Core, Services, NEW x \in Clients, Late(x)
  PROVE  Services'
<1> USE DEF setup, engine, ghost
<1>1. At(x, "late") /\ x \in Threads /\ todo[x] # <<>> /\ Cur(x).op = "late" /\ Cur(x).node \in Nodes /\ Cur(x).port \in Port
  BY AtTop, NodesApart DEF Late, Core
<1>2. UNCHANGED <<head, nextWriter, var, args, making, woken, want>>
  BY DEF Late
<1>3. PICK g : g = F("hold", Cur(x).node, Cur(x).port, 0)
  OBVIOUS
<1>4. g \in Frame /\ g.op = "hold" /\ g.node = Cur(x).node /\ g.port = Cur(x).port
  BY <1>1, <1>3 DEF F, Frame, SetupOps
<1>5. Then(x, <<g>>)
  BY <1>3 DEF Late
<1>6. Cur(x).node \notin Deferred
  <2>1. Fits(Cur(x))
    BY <1>1, TopLies DEF Core
  <2> QED
    BY <1>1, <2>1, DoneNotDeferred DEF Fits
<1>7. Serves(x, g) /\ g.op \notin WaitOps \cup {"return"} /\ Cur(x).op \notin WaitOps
  <2>1. Serves(x, Cur(x))
    BY <1>1, ServedNow
  <2> QED
    BY <1>1, <1>4, <1>6, <2>1 DEF Serves, Attaching, WaitOps
<1> QED
  BY <1>1, <1>2, <1>4, <1>5, <1>7, OnwardServices

LEMMA HoldServices ==
  ASSUME Core, Services, NEW x \in Clients, Hold(x)
  PROVE  Services'
<1> USE DEF setup, engine, ghost
<1>1. At(x, "hold") /\ x \in Threads /\ todo[x] # <<>> /\ Cur(x).op = "hold" /\ Cur(x).node \in Nodes /\ Cur(x).port \in Port
  BY AtTop, NodesApart DEF Hold, Core
<1>2. UNCHANGED <<nextWriter, var, args, making, woken, want>> /\ Then(x, <<>>)
  BY DEF Hold
<1>3. PICK m \in Nodes : m = making[x] /\ head[m].tag = "open"
  BY <1>1, CallTop DEF Calling
<1>4. PICK n \in Nodes, p \in Port : n = Cur(x).node /\ p = Cur(x).port
  BY <1>1
<1>5. PICK a : a = BackOnly(n, p)
  OBVIOUS
<1>6. a \in Arc /\ Push(m, a)
  BY <1>3, <1>4, <1>5, ArcTypes DEF Hold
<1>7. Stands(m, n, p) /\ n \notin Deferred /\ Cur(x).op \notin WaitOps
  <2>1. Serves(x, Cur(x))
    BY <1>1, ServedNow
  <2> QED
    BY <1>1, <1>3, <1>4, <2>1 DEF Serves, Attaching, WaitOps
<1>8. ServesArc(m, a)
  BY <1>5, <1>7, ArcsAre DEF ServesArc
<1> QED
  BY <1>1, <1>2, <1>3, <1>6, <1>7, <1>8, HungServices

LEMMA MoveServices ==
  ASSUME Core, Services, NEW x \in Clients, Move(x)
  PROVE  Services'
<1> USE DEF setup, engine, ghost
<1>1. At(x, "move") /\ x \in Threads /\ todo[x] # <<>> /\ Cur(x).op = "move" /\ Cur(x).node \in Nodes /\ Cur(x).port \in Port
  BY AtTop, NodesApart DEF Move, Core
<1>2. UNCHANGED <<nextWriter, var, args, making, woken, want>> /\ Then(x, <<>>)
  BY DEF Move
<1>3. PICK m \in Nodes : m = making[x] /\ head[m].tag = "open"
  BY <1>1, CallTop DEF Calling
<1>4. PICK c \in Nodes, p \in Port : c = Cur(x).node /\ p = Cur(x).port
  BY <1>1
<1>5. PICK a : a = FlowBack(c, p)
  OBVIOUS
<1>6. a \in Arc /\ Push(m, a)
  BY <1>3, <1>4, <1>5, ArcTypes DEF Move
<1>7. Stands(c, m, p) /\ Cur(x).op \notin WaitOps
  <2>1. Serves(x, Cur(x))
    BY <1>1, ServedNow
  <2> QED
    BY <1>1, <1>3, <1>4, <2>1 DEF Serves, WaitOps
<1>8. ServesArc(m, a)
  BY <1>5, <1>7, ArcsAre DEF ServesArc
<1> QED
  BY <1>1, <1>2, <1>3, <1>6, <1>7, <1>8, HungServices

LEMMA ReadArgServices ==
  ASSUME Core, Versions, Services, NEW x \in Clients, ReadArg(x)
  PROVE  Services'
<1> USE DEF setup, engine, ghost
<1>1. At(x, "arg") /\ x \in Threads /\ todo[x] # <<>> /\ Cur(x).op = "arg" /\ InRun(x)
  BY CallTop, AtArg DEF Calling, Asking
<1>2. PICK t \in Tasks : \E j : t = making[x] /\ j = Cur(x).port
  BY <1>1, CallTop DEF Calling, Asking
<1>3. PICK i : t = making[x] /\ i = Cur(x).port
  BY <1>2
<1>4. i \in DOMAIN args[t] /\ ~args[t][i].w /\ i \notin Writes(t)
  <2>1. i \in DOMAIN args[t]
    BY <1>1, <1>3, InSetup DEF Core, SetupOps
  <2> QED
    BY <1>3, <2>1, ReadArgSays DEF Writes
<1>5. PICK v, k : v = args[t][i].v /\ k = want[t][i]
  BY SMTT(30)
<1>6. /\ v \in Nodes /\ InUse(v)
      /\ \/ Names(var[v].cur, var[v].port, v, k)
         \/ v \in Deferred /\ k = 1 /\ var[v].cur = v /\ var[v].port = 0
  BY <1>1, <1>3, <1>4, <1>5, ArgSlot
<1>7. PICK n \in Nodes, p \in Port : n = var[v].cur /\ p = var[v].port
  BY <1>6, SlotIs DEF Core
<1>8. PICK g : g = F("link", n, p, 0)
  OBVIOUS
<1>9. g \in Frame /\ g.op = "link" /\ g.node = n /\ g.port = p
  BY SMTT(30), <1>7, <1>8 DEF F, Frame, SetupOps
<1>10. Then(x, <<g>>) /\ UNCHANGED <<head, nextWriter, var, args, making, woken, want>>
  BY ZenonT(60), <1>3, <1>5, <1>7, <1>8, ReadArgSays
<1>11. Stands(t, n, p)
  BY <1>4, <1>5, <1>6, <1>7 DEF Stands
<1>12. Serves(x, g) /\ g.op \notin WaitOps \cup {"return"} /\ Cur(x).op \notin WaitOps
  BY <1>1, <1>3, <1>9, <1>11 DEF Serves, Attaching, WaitOps
<1> QED
  BY <1>1, <1>9, <1>10, <1>12, OnwardServices

LEMMA FlowServices ==
  ASSUME Core, Services, NEW t \in Tasks, Flow(t)
  PROVE  Services'
<1> USE DEF setup, ghost
<1>1. /\ At(t, "flow") /\ t \in Threads /\ t \in Nodes /\ t \notin Deferred /\ todo[t] # <<>> /\ Cur(t).op = "flow"
      /\ Cur(t) \in Ahead(t) /\ Cur(t) \in Frame /\ Fits(Cur(t)) /\ Cur(t).node \in Nodes /\ Cur(t).port \in Port
  BY AtTop, TopLies, NodesApart, ConstantsAssumption DEF Flow, Core
<1>2. PICK c \in Nodes, p \in Port : c = Cur(t).node /\ p = Cur(t).port
  BY <1>1
<1>3. Stands(c, t, p) /\ Cur(t).op \notin WaitOps /\ c \in Tasks
  <2>1. Serves(t, Cur(t))
    BY <1>1, ServedNow
  <2> QED
    BY <1>1, <1>2, <2>1 DEF Serves, WaitOps, Fits
<1>4. head[c].tag = "open"
  <2>1. Cur(t) \in Notices(c)
    BY <1>1, <1>2 DEF Notices
  <2> QED
    BY <1>1, <1>3, <2>1, Expected DEF Core
<1>5. PICK g : g = F("pre", c, 0, 1)
  OBVIOUS
<1>6. g \in Frame /\ g.op \notin WaitOps \cup {"return"} /\ Serves(t, g)
  BY <1>5, NodesApart DEF F, Frame, CountOps, WaitOps, Serves, Attaching
<1>7. PICK fs : fs = <<g>>
  OBVIOUS
<1>8. fs \in Seq(Frame) /\ \A i \in DOMAIN fs : fs[i] = g
  BY <1>6, <1>7, OneIs
<1>9. PICK a : a = BackOnly(t, p)
  OBVIOUS
<1>10. a \in Arc /\ ServesArc(c, a)
  BY <1>1, <1>3, <1>9, ArcTypes, ArcsAre DEF ServesArc
<1>11. Then(t, fs) /\ UNCHANGED <<nextWriter, var, args, making, woken, want>>
  BY <1>2, <1>5, <1>7 DEF Flow
<1>12. head' = head \/ Push(c, a)
  BY <1>2, <1>9 DEF Flow
<1>13. \A i \in DOMAIN fs : fs[i].op \notin WaitOps \cup {"return"} /\ Serves(t, fs[i])
  BY <1>6, <1>8
<1> QED
  BY <1>1, <1>3, <1>4, <1>8, <1>10, <1>11, <1>12, <1>13, HandingServices

LEMMA ExchangeServices ==
  ASSUME Core, Services, NEW t \in Tasks, Exchange(t)
  PROVE  Services'
<1> USE DEF setup, ghost
<1>1. /\ t \in Threads /\ t \in Nodes /\ todo[t] # <<>> /\ Cur(t).op = "exchange" /\ At(t, "exchange")
  BY AtTop, NodesApart DEF Exchange, Core
<1>2. phase[t] = "done" /\ head[t].tag = "open"
  BY <1>1, WorkerStage DEF Core
<1>3. PICK s \in Seq(Arc) : s = Lists[t]
  BY <1>1, Families DEF Core
<1>4. s = head[t].arcs /\ DOMAIN s = 1..Len(s) /\ Len(s) \in Nat
  BY <1>1, <1>2, <1>3, Families DEF Core
<1>5. PICK fs : fs = [i \in 1..Len(s) |-> ArcFrame(s[i])]
  OBVIOUS
<1>6. DOMAIN fs = DOMAIN s /\ \A i \in DOMAIN s : fs[i] = ArcFrame(s[i])
  BY <1>4, <1>5
<1>7. ASSUME NEW i \in DOMAIN s
      PROVE  fs[i] \in Frame /\ fs[i].op \notin WaitOps \cup {"return"} /\ Serves(t, fs[i])
  <2>1. PICK a \in Arc : a = s[i]
    BY <1>3, <1>7, Member
  <2>2. Apt(t, a) /\ Listed(t, a)
    BY <1>1, <1>3, <1>7, <2>1 DEF Core, Linked, Listed
  <2>3. PICK f : f = ArcFrame(a)
    OBVIOUS
  <2>4. /\ f \in Frame
        /\ a.kind = "back_only" => f.op = "dec"
        /\ a.kind # "back_only" => f.op = "flow" /\ f.node = a.node /\ f.port = a.port
    BY <2>2, <2>3, ArcFrameIs
  <2>5. fs[i] = f
    BY <1>6, <1>7, <2>1, <2>3
  <2>6. ServesArc(t, a)
    BY <1>1, <2>2 DEF Services, Serving
  <2>7. CASE a.kind = "back_only"
    BY <2>4, <2>5, <2>7 DEF Serves, Attaching, WaitOps
  <2>8. CASE a.kind # "back_only"
    BY <2>4, <2>5, <2>6, <2>8 DEF Serves, ServesArc, Attaching, WaitOps
  <2> QED
    BY <2>4, <2>5, <2>7, <2>8
<1>8. fs \in Seq(Frame)
  <2>1. \A i \in 1..Len(s) : fs[i] \in Frame
    BY <1>4, <1>7
  <2>2. fs \in [1..Len(s) -> Frame]
    BY <1>5, <2>1
  <2> QED
    BY <1>4, <2>2
<1>9. /\ head' = [head EXCEPT ![t] = Done] /\ Then(t, fs)
      /\ UNCHANGED <<nextWriter, var, args, making, woken, want>>
  BY <1>4, <1>5 DEF Exchange
<1>10. head'[t] = Done /\ Done.tag = "done" /\ \A n \in Nodes : n # t => head'[n] = head[n]
  BY <1>1, <1>9 DEF Core, TypeOK, Done
<1>11. \A n \in Nodes : \A a : Listed(n, a)' => Listed(n, a)
  <2>1. \A n \in Nodes : n # t => Lists'[n] = Lists[n]
    BY <1>10 DEF Lists
  <2>2. Lists'[t] = <<>>
    BY <1>1, <1>10 DEF Lists
  <2>3. \A a : ~Listed(t, a)'
    BY <2>2 DEF Listed
  <2>4. \A n \in Nodes : n # t => \A a : Listed(n, a)' => Listed(n, a)
    BY <2>1 DEF Listed
  <2> QED
    BY <2>3, <2>4
<1>12. \A i \in DOMAIN fs : fs[i].op \notin WaitOps \cup {"return"} /\ Serves(t, fs[i])'
  <2>1. \A f : Serves(t, f)' <=> Serves(t, f)
    BY <1>9, SameServes
  <2> QED
    BY <1>6, <1>7, <2>1
<1>13. Sparing /\ \A u \in Tasks, n \in Nodes, p \in Port : Takes(u, n, p)' => Takes(u, n, p)
  BY <1>9, VarSame, TakesSame
<1>14. \A n \in Nodes : head[n].tag = "done" => head'[n].tag = "done"
  BY <1>10
<1>15. woken' = woken /\ Cur(t).op \notin WaitOps
  BY <1>1, <1>9 DEF WaitOps
<1> QED
  BY <1>1, <1>8, <1>9, <1>11, <1>12, <1>13, <1>14, <1>15, ServicesThen

(***************************************************************************)
(* Variables are made and dropped                                          *)
(***************************************************************************)
LEMMA CreateServices ==
  ASSUME Core, Services, NEW x \in Clients, NEW s \in Storage, Create(x, s)
  PROVE  Services'
<1> USE DEF ghost
<1>1. ~InCall(x) /\ node[s] = "unborn"
  BY DEF Create, Allocate
<1>2. x \in Threads /\ todo[x] = <<>> /\ s \in Nodes /\ s \notin Tasks
  BY <1>1, AtRest, ConstantsAssumption, NodesApart DEF Core, Nodes
<1>3. /\ UNCHANGED <<args, making, todo, woken, want>>
      /\ head' = [head EXCEPT ![s] = IF s \in Deferred THEN Open(<<>>) ELSE Done]
      /\ nextWriter' = [nextWriter EXCEPT ![s][0] = Ready]
      /\ var' = [var EXCEPT ![s] = [live |-> TRUE, cur |-> s, port |-> 0, deferred |-> s \in Deferred]]
  BY DEF Create, Allocate
<1>4. /\ nextWriter'[s][0] = Ready
      /\ head'[s] = IF s \in Deferred THEN Open(<<>>) ELSE Done
      /\ \A u \in Nodes : u # s => var'[u] = var[u] /\ head'[u] = head[u]
      /\ \A u \in Nodes, q \in Port : u # s \/ q # 0 => nextWriter'[u][q] = nextWriter[u][q]
  BY <1>2, <1>3, NodesApart DEF Core, TypeOK
<1>5. head[s] = Open(<<>>)
  BY <1>1 DEF Core, Stores, Stored
<1>6. head[s].tag = "open"
  BY <1>5 DEF Open
<1>7. \A n \in Nodes : \A a : Listed(n, a)' => Listed(n, a)
  <2>1. \A n \in Nodes : n # s => Lists'[n] = Lists[n]
    BY <1>4 DEF Lists
  <2>2. Lists'[s] = <<>>
    BY <1>2, <1>4 DEF Lists, Open, Done
  <2>3. \A a : ~Listed(s, a)'
    BY <2>2 DEF Listed
  <2>4. \A n \in Nodes : n # s => \A a : Listed(n, a)' => Listed(n, a)
    BY <2>1 DEF Listed
  <2> QED
    BY <2>3, <2>4
<1>8. Sparing
  <2>1. ASSUME NEW v \in Nodes, Spared(v)
        PROVE  v # s
    <3>1. InUse(v)
      BY <2>1 DEF Spared, InUse
    <3>2. node[v] # "unborn"
      BY <3>1 DEF Core, Homes, Settled
    <3> QED
      BY <1>1, <3>2
  <2>2. \A v \in Nodes : Spared(v) => var[v].live
    BY DEF Spared
  <2> QED
    BY <1>4, <2>1, <2>2 DEF Sparing
<1>9. \A n \in Nodes : head[n].tag = "done" => head'[n].tag = "done"
  BY <1>4, <1>6
<1>10. \A t \in Tasks, n \in Nodes, p \in Port : Takes(t, n, p)' => Takes(t, n, p)
  <2>1. \A t : Writer(t) # Ready /\ Writer(t)' = Writer(t)
    BY DEF Writer, Ready
  <2>2. \A n \in Nodes, p \in Port : nextWriter'[n][p] = nextWriter[n][p] \/ nextWriter'[n][p] = Ready
    BY <1>4
  <2> QED
    BY <2>1, <2>2 DEF Takes
<1>11. \A y \in Threads : \A f \in Ahead(y)' : f \in Ahead(y)
  BY <1>3 DEF Ahead
<1>12. /\ \A y \in Clients : y # x => todo'[y] = todo[y]
       /\ \A n \in Nodes : woken'[n] => woken[n]
  BY <1>3
<1> QED
  BY <1>2, <1>3, <1>7, <1>8, <1>9, <1>10, <1>11, <1>12, ServicesStep

LEMMA DropServices ==
  ASSUME Core, Services, NEW x \in Clients, NEW v \in Nodes, Drop(x, v)
  PROVE  Services'
<1> USE DEF ghost
<1>1. ~InCall(x) /\ var[v].live /\ \A y \in Clients \ {x} : v \notin Waited(y)
  BY DEF Drop, MayDrop
<1>2. x \in Threads /\ todo[x] = <<>> /\ Ahead(x) = {}
  BY <1>1, AtRest DEF Core
<1>3. PICK n \in Nodes, p \in Port : n = var[v].cur /\ p = var[v].port
  BY DEF Core, TypeOK, OoxVar
<1>4. PICK d : d = FinalOwner(v)
  OBVIOUS
<1>5. \A t : d # Writer(t) /\ Writer(t)' = Writer(t)
  BY <1>4 DEF FinalOwner, NoOwner, Owner, Writer
<1>6. PICK g : g = F("dec", n, p, 1)
  OBVIOUS
<1>7. g \in Frame /\ g.op \notin WaitOps \cup {"return"} /\ Serves(x, g)
  BY <1>6 DEF F, Frame, CountOps, WaitOps, Serves, Attaching
<1>8. PICK fs : fs = IF nextWriter[n][p] = Ready THEN <<g>> ELSE <<>>
  OBVIOUS
<1>9. fs \in Seq(Frame) /\ \A i \in DOMAIN fs : fs[i] = g
  <2>1. CASE nextWriter[n][p] = Ready
    <3>1. fs = <<g>>
      BY <1>8, <2>1
    <3> QED
      BY <1>7, <3>1, OneIs
  <2>2. CASE nextWriter[n][p] # Ready
    <3>1. fs = <<>>
      BY <1>8, <2>2
    <3> QED
      BY <3>1
  <2> QED
    BY <2>1, <2>2
<1>10. /\ UNCHANGED <<head, args, making, woken, want>>
       /\ todo' = [todo EXCEPT ![x] = fs]
       /\ nextWriter' = [nextWriter EXCEPT ![n][p] = d]
       /\ var' = [var EXCEPT ![v] = [@ EXCEPT !.live = FALSE]]
  BY <1>3, <1>4, <1>6, <1>8 DEF Drop
<1>11. \A m \in Nodes, q \in Port : nextWriter'[m][q] = nextWriter[m][q] \/ nextWriter'[m][q] = d
  BY <1>10 DEF Core, TypeOK
<1>12. \A u \in Nodes : u # v => var'[u] = var[u]
  BY <1>10 DEF Core, TypeOK
<1>13. /\ Ahead(x)' = {fs[i] : i \in DOMAIN fs}
       /\ \A y \in Threads : y # x => todo'[y] = todo[y] /\ Ahead(y)' = Ahead(y)
  BY <1>1, <1>9, <1>10, CallIs
<1>14. ~Sought(v)
  <2>1. v \notin Waited(x)
    BY <1>2, WaitedIs
  <2> QED
    BY <1>1, <2>1 DEF Sought
<1>15. Sparing
  <2>1. \A u \in Nodes : Spared(u) => var[u].live
    BY DEF Spared
  <2> QED
    BY <1>12, <1>14, <2>1 DEF Sparing
<1>16. \A y \in Threads : \A f \in Ahead(y)' : f \in Ahead(y) \/ (f.op \notin WaitOps \cup {"return"} /\ Serves(y, f)')
  <2>1. \A f : Serves(x, f)' <=> Serves(x, f)
    BY <1>10, SameServes
  <2> QED
    BY <1>7, <1>9, <1>13, <2>1
<1>17. \A t \in Tasks, m \in Nodes, q \in Port : Takes(t, m, q)' => Takes(t, m, q)
  BY <1>5, <1>11 DEF Takes
<1>18. \A m \in Nodes : \A a : Listed(m, a)' => Listed(m, a)
  BY <1>10, ListsSame
<1>19. /\ \A y \in Clients : y # x => todo'[y] = todo[y]
       /\ \A m \in Nodes : woken'[m] => woken[m]
       /\ \A m \in Nodes : head[m].tag = "done" => head'[m].tag = "done"
  BY <1>10, <1>13, NodesApart
<1> QED
  BY <1>2, <1>10, <1>15, <1>16, <1>17, <1>18, <1>19, ServicesStep

(***************************************************************************)
(* Variables are written                                                   *)
(***************************************************************************)
LEMMA RedirectVarServices ==
  ASSUME Core, Versions, Services, NEW x \in Clients, RedirectVar(x)
  PROVE  Services'
<1> USE DEF ghost
<1>1. x \in Threads /\ todo[x] # <<>> /\ At(x, "arg") /\ Cur(x).op = "arg"
  BY CallTop, AtArg DEF Calling, Asking
<1>2. PICK t \in Tasks : t = making[x] /\ t \in Nodes
  BY CallTop, AtArg DEF Calling, Asking
<1>3. PICK i \in DOMAIN args[t] : i = Cur(x).port
  BY <1>1, <1>2, InSetup DEF Core, SetupOps
<1>4. PICK v \in Nodes : v = args[t][i].v
  BY ArgOf DEF Core
<1>5. args[t][i].w /\ var[v].deferred
  BY <1>2, <1>3, <1>4, RedirectVarSays
<1>6. /\ var[v].live /\ i \in Writes(t) /\ want[t][i] \in Nat /\ last[v] = want[t][i] + 1
  BY <1>1, <1>2, <1>3, <1>4, <1>5, WriteTop
<1>7. v \in Deferred /\ SlotOf(v) = <<v, 0>> /\ head[v].tag = "open" /\ last[v] <= 1
  BY <1>5 DEF Core, Firsts, Put
<1>8. var[v].cur = v /\ v \notin Tasks /\ want[t][i] = 0
  <2>1. v \notin Tasks
    BY <1>7, ConstantsAssumption
  <2> QED
    BY <1>6, <1>7, <2>1 DEF SlotOf
<1>9. PICK q \in Port : q = PortOf(t, i) /\ q \in Slots(t)
  BY <1>6, PortsApart DEF Core
<1>10. Names(t, q, v, 1)
  BY <1>4, <1>6, <1>8, <1>9 DEF Names
<1>11. PICK r \in Seq(Arc) : r = head[v].arcs /\ r = Lists[v]
  BY <1>7, Families DEF Core
<1>12. PICK fs : fs = Moves(r, q)
  OBVIOUS
<1>13. /\ head' = [head EXCEPT ![v] = Redirect(t, q)]
       /\ var' = [var EXCEPT ![v] = [@ EXCEPT !.deferred = FALSE]]
       /\ todo' = [todo EXCEPT ![x] = fs \o @]
       /\ UNCHANGED <<nextWriter, args, making, woken, want>>
  BY Zenon, <1>2, <1>3, <1>4, <1>8, <1>9, <1>11, <1>12 DEF RedirectVar
<1>14. /\ head'[v] = Redirect(t, q) /\ \A n \in Nodes : n # v => head'[n] = head[n]
       /\ \A u \in Nodes : var'[u].live = var[u].live /\ var'[u].cur = var[u].cur
  <2>1. var[v] \in OoxVar
    BY DEF Core, TypeOK
  <2>2. var'[v] = [var[v] EXCEPT !.deferred = FALSE] /\ \A u \in Nodes : u # v => var'[u] = var[u]
    BY <1>13 DEF Core, TypeOK
  <2>3. var'[v].live = var[v].live /\ var'[v].cur = var[v].cur
    BY <2>1, <2>2 DEF OoxVar
  <2>4. head'[v] = Redirect(t, q) /\ \A n \in Nodes : n # v => head'[n] = head[n]
    BY <1>13 DEF Core, TypeOK
  <2> QED
    BY <2>2, <2>3, <2>4
<1>15. /\ fs \in Seq(Frame) /\ DOMAIN fs = DOMAIN r
       /\ \A j \in DOMAIN r : fs[j].op = "move" /\ fs[j].node = r[j].node /\ fs[j].port = q
  BY <1>12, MovesAre
<1>16. /\ Ahead(x)' = {fs[j] : j \in DOMAIN fs} \cup Ahead(x)
       /\ \A y \in Threads : y # x => todo'[y] = todo[y] /\ Ahead(y)' = Ahead(y)
  <2>1. Upon(todo', todo, x, fs)
    BY <1>13 DEF Upon
  <2> QED
    BY <1>1, <1>15, <2>1, UponAhead DEF Core
<1>17. ASSUME NEW j \in DOMAIN r
       PROVE  fs[j].op \notin WaitOps \cup {"return"} /\ Serves(x, fs[j])
  <2>1. PICK a \in Arc : a = r[j]
    BY <1>17, Member
  <2>2. Listed(v, a)
    BY <1>11, <1>17, <2>1 DEF Listed
  <2>3. Apt(v, a) /\ ServesArc(v, a)
    BY <2>2, ListedArc DEF Services, Serving
  <2>4. a.kind # "back_only" /\ a.node \in Tasks
    BY <1>8, <2>3 DEF Apt
  <2>5. Stands(a.node, v, a.port)
    BY <2>3, <2>4 DEF ServesArc
  <2>6. Stands(a.node, t, q)
    BY <1>7, <1>10, <2>4, <2>5, StandsOn
  <2> QED
    BY <1>2, <1>15, <1>17, <2>1, <2>6 DEF Serves, Attaching, WaitOps
<1>18. \A y \in Threads : \A f \in Ahead(y)' : f \in Ahead(y) \/ (f.op \notin WaitOps \cup {"return"} /\ Serves(y, f)')
  <2>1. \A f : Serves(x, f)' <=> Serves(x, f)
    BY <1>13, SameServes
  <2> QED
    BY <1>15, <1>16, <1>17, <2>1
<1>19. \A n \in Nodes : \A a : Listed(n, a)' => Listed(n, a)
  <2>1. \A n \in Nodes : n # v => Lists'[n] = Lists[n]
    BY <1>14 DEF Lists
  <2>2. Lists'[v] = <<>>
    BY <1>14 DEF Lists, Redirect
  <2>3. \A a : ~Listed(v, a)'
    BY <2>2 DEF Listed
  <2>4. \A n \in Nodes : n # v => \A a : Listed(n, a)' => Listed(n, a)
    BY <2>1 DEF Listed
  <2> QED
    BY <2>3, <2>4
<1>20. Sparing
  BY <1>14 DEF Sparing, Spared
<1>21. \A u \in Tasks, n \in Nodes, p \in Port : Takes(u, n, p)' => Takes(u, n, p)
  BY <1>13, TakesSame
<1>22. /\ \A n \in Nodes : head[n].tag = "done" => head'[n].tag = "done"
       /\ \A n \in Nodes : woken'[n] => woken[n]
       /\ \A y \in Clients : y # x => todo'[y] = todo[y]
       /\ Cur(x).op \notin WaitOps
  <2>1. Cur(x).op \notin WaitOps
    BY <1>1 DEF WaitOps
  <2>2. \A y \in Clients : y # x => todo'[y] = todo[y]
    BY <1>16, NodesApart
  <2> QED
    BY <1>7, <1>13, <1>14, <2>1, <2>2
<1> QED
  BY <1>1, <1>13, <1>18, <1>19, <1>20, <1>21, <1>22, ServicesStep

LEMMA WriteArgServices ==
  ASSUME Core, Versions, Services, NEW x \in Clients, WriteArg(x)
  PROVE  Services'
<1> USE DEF ghost
<1>1. x \in Threads /\ todo[x] # <<>> /\ At(x, "arg") /\ Cur(x).op = "arg"
  BY CallTop, AtArg DEF Calling, Asking
<1>2. PICK t \in Tasks : t = making[x] /\ t \in Nodes
  BY SMTT(30), CallTop, AtArg DEF Calling, Asking
<1>3. PICK i \in DOMAIN args[t] : i = Cur(x).port
  BY <1>1, <1>2, InSetup DEF Core, SetupOps
<1>4. PICK v \in Nodes : v = args[t][i].v
  BY ArgOf DEF Core
<1>5. args[t][i].w /\ ~var[v].deferred
  BY <1>2, <1>3, <1>4, WriteArgSays
<1>6. Modifies(x, v) /\ InUse(v) /\ i \in Writes(t) /\ Newest(v) = want[t][i]
  BY <1>1, <1>2, <1>3, <1>4, <1>5, WriteTop
<1>7. PICK q \in Port : q = PortOf(t, i)
  BY <1>6, PortsApart DEF Core
<1>8. PICK n \in Nodes, p \in Port : n = var[v].cur /\ p = var[v].port
  BY DEF Core, TypeOK, OoxVar
<1>9. p \in Slots(n) /\ Names(n, p, v, want[t][i])
  <2>1. p \in Slots(n)
    BY <1>6, <1>8, SlotIs DEF Core
  <2>2. Names(var[v].cur, var[v].port, v, Newest(v))
    BY <1>6 DEF Versions, Currents, Current
  <2> QED
    BY <1>6, <1>8, <2>1, <2>2
<1>10. PICK d : d = Writer(t)
  OBVIOUS
<1>11. PICK g : g = F("dec", n, p, 1)
  OBVIOUS
<1>12. g \in Frame /\ g.op \notin WaitOps \cup {"return"} /\ Serves(x, g)
  BY <1>11 DEF F, Frame, CountOps, WaitOps, Serves, Attaching
<1>13. PICK fs : fs = IF nextWriter[n][p] = Ready THEN <<g>> ELSE <<>>
  OBVIOUS
<1>14. fs \in Seq(Frame) /\ \A j \in DOMAIN fs : fs[j] = g
  <2>1. CASE nextWriter[n][p] = Ready
    <3>1. fs = <<g>>
      BY <1>13, <2>1
    <3> QED
      BY <1>12, <3>1, OneIs
  <2>2. CASE nextWriter[n][p] # Ready
    <3>1. fs = <<>>
      BY <1>13, <2>2
    <3> QED
      BY <3>1
  <2> QED
    BY <2>1, <2>2
<1>15. /\ Then(x, fs)
       /\ nextWriter' = [nextWriter EXCEPT ![n][p] = d]
       /\ var' = [var EXCEPT ![v] = [@ EXCEPT !.cur = t, !.port = q]]
       /\ UNCHANGED <<head, args, making, woken, want>>
  BY Zenon, <1>2, <1>3, <1>4, <1>7, <1>8, <1>10, <1>11, <1>13 DEF WriteArg, SetNextWriter, Owe
<1>16. /\ nextWriter'[n][p] = d
       /\ \A m \in Nodes : \A k \in Port : m # n \/ k # p => nextWriter'[m][k] = nextWriter[m][k]
       /\ \A u \in Nodes : u # v => var'[u] = var[u]
  BY <1>15 DEF Core, TypeOK
<1>17. Sparing
  <2>1. \A u \in Nodes : Spared(u) => var[u].live /\ u # v
    BY <1>6 DEF Spared
  <2> QED
    BY <1>16, <2>1 DEF Sparing
<1>18. \A u \in Tasks, m \in Nodes, k \in Port : Takes(u, m, k)' => Takes(u, m, k) \/ Overwrites(u, m, k)
  <2>1. ASSUME NEW u \in Tasks, NEW m \in Nodes, NEW k \in Port, Takes(u, m, k)', ~Takes(u, m, k)
        PROVE  Overwrites(u, m, k)
    <3>1. nextWriter'[m][k] = Writer(u) /\ nextWriter[m][k] # Writer(u)
      BY <2>1 DEF Takes, Writer
    <3>2. m = n /\ k = p
      BY <1>16, <3>1
    <3>3. u = t
      BY <1>10, <1>16, <3>1, <3>2 DEF Writer
    <3> QED
      BY <1>4, <1>6, <1>9, <3>2, <3>3 DEF Overwrites
  <2> QED
    BY <2>1
<1>19. \A j \in DOMAIN fs : fs[j].op \notin WaitOps \cup {"return"} /\ Serves(x, fs[j])'
  <2>1. \A f : Serves(x, f)' <=> Serves(x, f)
    BY <1>15, SameServes
  <2> QED
    BY <1>12, <1>14, <2>1
<1>20. \A m \in Nodes : \A a : Listed(m, a)' => Listed(m, a)
  BY <1>15, ListsSame
<1>21. /\ \A m \in Nodes : head[m].tag = "done" => head'[m].tag = "done"
       /\ \A m \in Nodes : woken'[m] => woken[m]
       /\ Cur(x).op \notin WaitOps
  BY <1>1, <1>15 DEF WaitOps
<1> QED
  BY <1>1, <1>14, <1>15, <1>17, <1>18, <1>19, <1>20, <1>21, ServicesThen

(***************************************************************************)
(* A task is launched                                                      *)
(***************************************************************************)
LEMMA NamesASlot ==
  ASSUME TypeOK, NEW n \in Nodes, NEW p, NEW v, NEW k, Names(n, p, v, k)
  PROVE  p \in Slots(n)
<1>1. CASE p = 0
  BY <1>1, SlotsArePorts
<1>2. CASE p # 0
  BY <1>2, PortsApart DEF Names
<1> QED
  BY <1>1, <1>2

LEMMA LaunchStanding ==
  ASSUME Core, TypeOK', NEW x \in Clients, NEW t \in Tasks, NEW a \in ArgLists[t], Launch(x, t, a)
  PROVE  /\ Standing
         /\ \A u \in Tasks, n \in Nodes, p \in Port : Overwrites(u, n, p) => Overwrites(u, n, p)'
<1>0. TypeOK /\ Naming
  BY NamingLaunch DEF Core
<1>1. /\ args[t] = <<>> /\ Writes(t) = {}
      /\ \A u \in Tasks : u # t => args'[u] = args[u] /\ want'[u] = want[u]
  BY LaunchMoves
<1>2. \A u \in Tasks : u # t => Writes(u)' = Writes(u)
  BY LaunchSlots, NodesApart
<1>3. \A n \in Nodes : \A p, v, k : Names(n, p, v, k) => Names(n, p, v, k)'
  BY <1>0, NamesASlot DEF Naming
<1>4. ASSUME NEW u \in Tasks, NEW n \in Nodes, NEW p \in Port, Stands(u, n, p)
      PROVE  Stands(u, n, p)'
  <2>1. PICK i \in DOMAIN args[u] \ Writes(u) :
           \/ Names(n, p, args[u][i].v, want[u][i])
           \/ n \in Deferred /\ p = 0 /\ args[u][i].v = n /\ want[u][i] = 1
    BY <1>4 DEF Stands
  <2>2. u # t
    BY <1>1, <2>1
  <2>3. args'[u] = args[u] /\ want'[u] = want[u] /\ Writes(u)' = Writes(u)
    BY <1>1, <1>2, <2>2
  <2>4. i \in DOMAIN args'[u] \ Writes(u)'
    BY <2>1, <2>3
  <2>5. PICK v, k : v = args[u][i].v /\ k = want[u][i]
    OBVIOUS
  <2>6. v = args'[u][i].v /\ k = want'[u][i]
    BY <2>3, <2>5
  <2>7. CASE Names(n, p, v, k)
    <3>1. Names(n, p, v, k)'
      BY <1>3, <2>7
    <3>2. Names(n, p, args[u][i].v, want[u][i])'
      BY <2>6, <3>1 DEF Names
    <3> QED
      BY <2>4, <3>2 DEF Stands
  <2>8. CASE n \in Deferred /\ p = 0 /\ v = n /\ k = 1
    BY <2>4, <2>6, <2>8 DEF Stands
  <2> QED
    BY <2>1, <2>5, <2>7, <2>8
<1>5. ASSUME NEW u \in Tasks, NEW n \in Nodes, NEW p \in Port, Overwrites(u, n, p)
      PROVE  Overwrites(u, n, p)'
  <2>1. p \in Slots(n) /\ p \in Slots(n)'
    BY <1>0, <1>5 DEF Overwrites, Naming
  <2>2. PICK i \in Writes(u) : Names(n, p, args[u][i].v, want[u][i])
    BY <1>5 DEF Overwrites
  <2>3. u # t
    BY <1>1, <2>2
  <2>4. args'[u] = args[u] /\ want'[u] = want[u] /\ Writes(u)' = Writes(u)
    BY <1>1, <1>2, <2>3
  <2>5. PICK v, k : v = args[u][i].v /\ k = want[u][i]
    OBVIOUS
  <2>6. v = args'[u][i].v /\ k = want'[u][i]
    BY <2>4, <2>5
  <2>7. Names(n, p, v, k)'
    BY <1>3, <2>2, <2>5
  <2>8. Names(n, p, args[u][i].v, want[u][i])'
    BY <2>6, <2>7 DEF Names
  <2>9. i \in Writes(u)'
    BY <2>2, <2>4
  <2> QED
    BY <2>1, <2>8, <2>9 DEF Overwrites
<1> QED
  BY <1>4, <1>5 DEF Standing

LEMMA LaunchSpared ==
  ASSUME Core, NEW x \in Clients, NEW t \in Tasks, NEW a \in ArgLists[t], Launch(x, t, a),
         NEW v \in Nodes, Spared(v), Sought(v)
  PROVE  Spared(v)'
<1>1. /\ Ahead(x) = {} /\ var' = var /\ args'[t] = a /\ making'[x] = t
      /\ \A u \in Tasks : u # t => args'[u] = args[u]
      /\ \A y \in Clients : y # x => making'[y] = making[y]
  BY LaunchMoves
<1>2. ASSUME NEW y \in Clients, y # x, Modifies(y, v)'
      PROVE  FALSE
  <2>1. CallArgs(y)' # {}
    BY <1>2 DEF Modifies
  <2>2. InRun(y)'
    BY <2>1 DEF CallArgs
  <2>3. InRun(y) /\ making[y] \in Tasks /\ making[y] # t
    BY <1>2, <2>2, LaunchOthers
  <2>4. args'[making[y]] = args[making[y]] /\ making'[y] = making[y]
    BY <1>1, <1>2, <2>3
  <2>5. CallArgs(y)' = CallArgs(y)
    BY <2>2, <2>3, <2>4 DEF CallArgs
  <2>6. Modifies(y, v)
    BY <1>2, <2>5 DEF Modifies
  <2> QED
    BY <2>6 DEF Spared
<1>3. ASSUME Modifies(x, v)'
      PROVE  FALSE
  <2>1. CallArgs(x)' \subseteq {a[i] : i \in DOMAIN a}
    BY <1>1 DEF CallArgs
  <2>2. [v |-> v, w |-> TRUE] \in {a[i] : i \in DOMAIN a}
    BY <1>3, <2>1 DEF Modifies
  <2>3. PICK i \in DOMAIN a : a[i] = [v |-> v, w |-> TRUE]
    BY <2>2
  <2>4. a[i].w /\ a[i].v = v
    BY <2>3
  <2>5. MayWrite(x, v)
    BY <2>4, LaunchArgs
  <2>6. \A y \in Clients \ {x} : v \notin Waited(y)
    BY <2>5 DEF MayWrite
  <2>7. v \notin Waited(x)
    BY <1>1, WaitedIs
  <2> QED
    BY <2>6, <2>7 DEF Sought
<1>4. var'[v].live
  BY <1>1 DEF Spared
<1> QED
  BY <1>2, <1>3, <1>4 DEF Spared

LEMMA LaunchServices ==
  ASSUME Core, TypeOK', Services, NEW x \in Clients, NEW t \in Tasks, NEW a \in ArgLists[t], Launch(x, t, a)
  PROVE  Services'
<1>0. Waiters /\ Wakes /\ Serving /\ Taken
  BY DEF Services
<1>1. /\ Ahead(x) = {} /\ UNCHANGED <<head, nextWriter, var>>
      /\ \A y \in Clients : y # x => making'[y] = making[y]
      /\ \A y \in Threads : y # x => todo'[y] = todo[y] /\ Ahead(y)' = Ahead(y)
      /\ \A f : f \in Ahead(x)' => \/ \E i \in DOMAIN a : f = F("arg", t, i, 0)
                                   \/ f = F("bind", t, 0, 0) \/ f = F("return", t, 0, 0)
  BY LaunchMoves
<1>2. \A f : f \in Ahead(x)' => f.op \in {"arg", "bind", "return"}
  BY <1>1, FrameFields
<1>3. \A y \in Clients : y \in Threads
  BY NodesApart
<1>4. woken' = woken
  BY DEF Launch
<1>5. Waiters'
  <2>1. ASSUME NEW y \in Clients, Waited(y)' # {}
        PROVE  Waited(y) # {} /\ todo'[y] = todo[y]
    <3>1. PICK f \in Ahead(y)' : f.op \in WaitOps
      <4>1. \E i \in DOMAIN todo'[y] : todo'[y][i].op \in WaitOps
        BY <2>1 DEF Waited
      <4> QED
        BY <4>1 DEF Ahead
    <3>2. y # x
      BY <1>2, <3>1 DEF WaitOps
    <3>3. f \in Ahead(y) /\ todo'[y] = todo[y]
      BY <1>1, <1>3, <3>1, <3>2
    <3> QED
      BY <3>1, <3>3, WaitedIs
  <2>2. \A v \in Nodes : Spared(v) /\ Sought(v) => Spared(v)' /\ var'[v].cur = var[v].cur
    BY <1>1, LaunchSpared
  <2>3. \A v \in Nodes : \A n : n = var[v].cur => (head[n].tag = "done" => head'[n].tag = "done")
    BY <1>1
  <2> QED
    BY <1>0, <2>1, <2>2, <2>3, WaitersKept
<1>6. Wakes'
  BY <1>0, <1>1, <1>4 DEF Wakes
<1>7. Serving'
  <2>1. \A y \in Clients : Ahead(y) # {} => making'[y] = making[y]
    BY <1>1
  <2>2. \A f \in Ahead(x)' : Serves(x, f)'
    BY <1>2 DEF Serves, Attaching
  <2>3. \A y \in Threads : \A f \in Ahead(y)' : f \in Ahead(y) \/ Serves(y, f)'
    BY <1>1, <2>2
  <2>4. \A n \in Nodes : \A b : Listed(n, b)' => Listed(n, b)
    BY <1>1, ListsSame
  <2>5. Standing
    BY LaunchStanding
  <2> QED
    BY <1>0, <2>1, <2>3, <2>4, <2>5, ServingKept
<1>8. Taken'
  <2>1. ASSUME NEW u \in Tasks, NEW n \in Nodes, NEW p \in Port, Takes(u, n, p)'
        PROVE  Overwrites(u, n, p)'
    <3>1. Takes(u, n, p)
      BY <1>1, <2>1, TakesSame
    <3> QED
      BY <1>0, <3>1, LaunchStanding DEF Taken
  <2> QED
    BY <2>1 DEF Taken
<1> QED
  BY <1>5, <1>6, <1>7, <1>8 DEF Services

(***************************************************************************)
(* Services is an inductive invariant                                      *)
(***************************************************************************)
LEMMA InitServices == Init => Services
<1> SUFFICES ASSUME Init
             PROVE  Services
  OBVIOUS
<1>1. /\ \A x \in Threads : todo[x] = <<>> /\ Ahead(x) = {} /\ DOMAIN todo[x] = {}
      /\ \A n \in Nodes : /\ head[n] = Open(<<>>) /\ ~woken[n]
                          /\ \A p \in Port : nextWriter[n][p] = Null
  BY DEF Init, Ahead
<1>2. \A x \in Clients : x \in Threads
  BY NodesApart
<1>3. Waiters
  BY <1>1, <1>2 DEF Waiters, Waited
<1>4. Wakes
  BY <1>1 DEF Wakes
<1>5. Serving
  <2>1. \A n \in Nodes : \A a : ~Listed(n, a)
    <3>1. \A n \in Nodes : Lists[n] = <<>>
      BY <1>1 DEF Lists, Open
    <3> QED
      BY <3>1 DEF Listed
  <2> QED
    BY <1>1, <2>1 DEF Serving
<1>6. Taken
  <2>1. \A t \in Tasks : Writer(t) # Null
    BY DEF Writer, Null
  <2> QED
    BY <1>1, <2>1 DEF Taken, Takes
<1> QED
  BY <1>3, <1>4, <1>5, <1>6 DEF Services

LEMMA StutterServices ==
  ASSUME Core, Services, UNCHANGED vars
  PROVE  Services'
<1>0. Waiters /\ Wakes /\ Serving /\ Taken
  BY DEF Services
<1>1. UNCHANGED <<head, nextWriter, var, args, making, todo, woken, want>>
  BY DEF vars, engine, setup, ghost
<1>2. \A y : Ahead(y)' = Ahead(y) /\ Waited(y)' = Waited(y)
  BY <1>1 DEF Ahead, Waited
<1>3. Waiters'
  <2>1. \A y \in Clients : Waited(y)' # {} => Waited(y) # {} /\ todo'[y] = todo[y]
    BY <1>1, <1>2
  <2>2. \A y, v : Modifies(y, v)' => Modifies(y, v)
    BY <1>1, <1>2, ModifiesBack
  <2>3. \A v \in Nodes : Spared(v) /\ Sought(v) => Spared(v)' /\ var'[v].cur = var[v].cur
    BY <1>1, <2>2 DEF Spared
  <2>4. \A v \in Nodes : \A n : n = var[v].cur => (head[n].tag = "done" => head'[n].tag = "done")
    BY <1>1
  <2> QED
    BY <1>0, <2>1, <2>3, <2>4, WaitersKept
<1>4. Wakes'
  BY <1>0, <1>1 DEF Wakes
<1>5. Serving'
  <2>1. \A y \in Clients : Ahead(y) # {} => making'[y] = making[y]
    BY <1>1
  <2>2. \A y \in Threads : \A f \in Ahead(y)' : f \in Ahead(y) \/ Serves(y, f)'
    BY <1>2
  <2>3. \A n \in Nodes : \A a : Listed(n, a)' => Listed(n, a)
    BY <1>1, ListsSame
  <2>4. Standing
    BY <1>1, SameArguments
  <2> QED
    BY <1>0, <2>1, <2>2, <2>3, <2>4, ServingKept
<1>6. Taken'
  <2>1. \A t \in Tasks, n \in Nodes, p \in Port : Takes(t, n, p)' => Takes(t, n, p)
    BY <1>1, TakesSame
  <2>2. \A t, n, p : Overwrites(t, n, p)' <=> Overwrites(t, n, p)
    BY <1>1, SameArguments
  <2> QED
    BY <1>0, <2>1, <2>2 DEF Taken
<1> QED
  BY <1>3, <1>4, <1>5, <1>6 DEF Services

LEMMA NextServices ==
  ASSUME Core, TypeOK', Versions, Services, [Next]_vars
  PROVE  Services'
<1>1. ASSUME NEW x \in Clients, Call(x)
      PROVE  Services'
  <2>1. ASSUME NEW s \in Storage, Create(x, s)
        PROVE  Services'
    BY <2>1, CreateServices
  <2>2. ASSUME NEW t \in Tasks, NEW a \in ArgLists[t], Run(x, t, a)
        PROVE  Services'
    BY <2>2, LaunchServices DEF Run
  <2>3. ASSUME NEW v \in Nodes, Drop(x, v)
        PROVE  Services'
    BY <2>3, DropServices
  <2>4. ASSUME NEW v \in Waitable, WaitVar(x, v)
        PROVE  Services'
    BY <2>4, WaitVarServices
  <2> QED
    BY <1>1, <2>1, <2>2, <2>3, <2>4 DEF Call
<1>2. ASSUME NEW x \in Clients, ClientStep(x)
      PROVE  Services'
  BY <1>2, ReadArgServices, LinkServices, HopServices, LateServices, HoldServices, RedirectVarServices,
     MoveServices, WriteArgServices, BindServices, ReturnServices, WaitServices, BlockServices, GetServices
     DEF ClientStep
<1>3. ASSUME NEW x \in Threads, CountStep(x)
      PROVE  Services'
  BY <1>3, PreServices, JoinServices, RelServices, SubServices, DecServices DEF CountStep
<1>4. ASSUME NEW t \in Tasks, WorkerStep(t)
      PROVE  Services'
  BY <1>4, StartServices, ExchangeServices, FlowServices, OutServices, WakeupServices DEF WorkerStep
<1>5. CASE Rest \/ UNCHANGED vars
  BY <1>5, StutterServices DEF Rest
<1> QED
  BY <1>1, <1>2, <1>3, <1>4, <1>5 DEF Next

(* Services is an inductive invariant, relative to Core and Versions. *)
THEOREM ServicesHold == Spec => []Services
<1>1. Init => Services
  BY InitServices
<1>2. Core /\ Versions /\ Services /\ [Next]_vars => Services'
  <2>1. ASSUME Core, Versions, Services, [Next]_vars
        PROVE  TypeOK'
    <3>1. TypeOK
      BY <2>1 DEF Core
    <3> QED
      BY <2>1, <3>1, NextType
  <2> QED
    BY <2>1, NextServices
<1> QED
  BY <1>1, <1>2, CoreHolds, VersionsHold, PTL DEF Spec

(* Who waits reads the last version: when wait_and_get of a var comes to read the value, in
   every reachable state, the version in memory is the one the last writer of program order
   launched leaves there, however many readers and writers are under way. *)
THEOREM WaitSoundHolds == Spec => []WaitSound
<1>1. Core /\ Versions /\ Services => WaitSound
  BY WaitedSound DEF Services
<1> QED
  BY <1>1, CoreHolds, VersionsHold, ServicesHold, PTL

(* No notification is lost: in every reachable state in which no thread has a frame left, none
   of the tasks that were launched and did not start could start by the dataflow. *)
THEOREM NothingForgottenHolds == Spec => []NothingForgotten
<1>1. Core /\ Versions /\ Services => NothingForgotten
  BY NoneForgotten DEF Services
<1> QED
  BY <1>1, CoreHolds, VersionsHold, ServicesHold, PTL
=============================================================================
