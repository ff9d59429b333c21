--------------------------- MODULE TaskGraphProofs ---------------------------
(***************************************************************************)
(* The engine keeps its types for any variables, tasks, clients and        *)
(* argument lists: every frame a thread is given is one it can run, every  *)
(* port it computes exists, and no field of a node takes a foreign value.  *)
(* Then the invariant of its counts, Core: what it says, what follows from *)
(* it, and the steps of a client that sets up a task's arguments.          *)
(***************************************************************************)
EXTENDS TaskGraphProps, StacksProofs, FiniteSetTheorems, TLAPS

(***************************************************************************)
(* Frames                                                                  *)
(***************************************************************************)
(* A step that leaves the arguments alone takes no frame away from a thread. *)
LEMMA FramesStay ==
  ASSUME TypeOK, NEW x \in Threads, args' = args, making' = making,
         \A t \in Tasks : phase[t] # "idle" => phase'[t] # "idle"
  PROVE  FrameOf(x) \subseteq FrameOf(x)'
  BY DEF FrameOf

LEMMA SeqGrows ==
  ASSUME NEW S, NEW T, S \subseteq T, NEW s \in Seq(S)
  PROVE  s \in Seq(T)
  OBVIOUS

LEMMA ConcatTail ==
  ASSUME NEW S, NEW s \in Seq(S), s # <<>>, NEW r \in Seq(S)
  PROVE  r \o Tail(s) \in Seq(S) /\ Head(s) \in S /\ r \o s \in Seq(S)
  OBVIOUS

LEMMA FrameIsFrame == \A x : FrameOf(x) \subseteq Frame
  BY DEF FrameOf

(* Going on with frames of its own leaves every thread with frames of its own. *)
LEMMA ThenFrames ==
  ASSUME TypeOK, NEW x \in Threads, todo[x] # <<>>, NEW fs \in Seq(FrameOf(x)), Then(x, fs),
         args' = args, making' = making,
         \A t \in Tasks : phase[t] # "idle" => phase'[t] # "idle"
  PROVE  FramesFit'
<1>1. todo[x] \in Seq(FrameOf(x)) /\ todo \in [Threads -> Seq(Frame)]
  BY DEF TypeOK, FramesFit
<1>2. fs \o Tail(todo[x]) \in Seq(FrameOf(x))
  BY <1>1, ConcatTail
<1>3. todo' = [todo EXCEPT ![x] = fs \o Tail(todo[x])]
  BY DEF Then
<1>4. fs \o Tail(todo[x]) \in Seq(Frame)
  BY <1>2, FrameIsFrame, SeqGrows
<1>5. todo' \in [Threads -> Seq(Frame)]
  BY <1>1, <1>3, <1>4
<1>6. ASSUME NEW y \in Threads
      PROVE  todo'[y] \in Seq(FrameOf(y)')
  <2>1. todo'[y] \in Seq(FrameOf(y))
    BY <1>1, <1>2, <1>3 DEF TypeOK, FramesFit
  <2> QED
    BY <2>1, FramesStay, SeqGrows
<1> QED
  BY <1>5, <1>6 DEF FramesFit

(* Returning from a frame. *)
LEMMA PopFrames ==
  ASSUME TypeOK, NEW x \in Threads, todo[x] # <<>>, Then(x, <<>>),
         args' = args, making' = making,
         \A t \in Tasks : phase[t] # "idle" => phase'[t] # "idle"
  PROVE  FramesFit'
<1>1. <<>> \in Seq(FrameOf(x))
  OBVIOUS
<1> QED
  BY <1>1, ThenFrames

(* Going on with one frame. *)
LEMMA NextFrame ==
  ASSUME TypeOK, NEW x \in Threads, todo[x] # <<>>, NEW f \in FrameOf(x), Then(x, <<f>>),
         args' = args, making' = making,
         \A t \in Tasks : phase[t] # "idle" => phase'[t] # "idle"
  PROVE  FramesFit'
<1>1. <<f>> \in Seq(FrameOf(x))
  OBVIOUS
<1> QED
  BY <1>1, ThenFrames

(* The innermost frame of a thread. *)
LEMMA CurFrame ==
  ASSUME TypeOK, NEW x \in Threads, todo[x] # <<>>
  PROVE  Cur(x) \in FrameOf(x) /\ Cur(x) \in Frame
  BY ConcatTail, FrameIsFrame DEF TypeOK, FramesFit, Cur

(* A frame that is neither of setup nor a release of all fits any thread. *)
LEMMA PlainFrame ==
  ASSUME NEW x \in Threads, NEW op \in (WaitOps \cup BodyOps \cup CountOps) \ {"relall"},
         NEW n \in Nodes, NEW p \in Port, NEW k \in Int
  PROVE  F(op, n, p, k) \in FrameOf(x)
  BY DEF F, FrameOf, Frame, SetupOps, WaitOps, BodyOps, CountOps

LEMMA OneFrame ==
  ASSUME NEW S, NEW f \in S
  PROVE  <<f>> \in Seq(S) /\ <<>> \in Seq(S)
  OBVIOUS

(***************************************************************************)
(* The helpers                                                             *)
(***************************************************************************)
LEMMA Numbers == StartMask \in Int /\ Half \in Int
  BY SMT DEF StartMask, Half

LEMMA NodesApart ==
  /\ Tasks \subseteq Nodes /\ Tasks \subseteq Threads /\ Clients \subseteq Threads
  /\ Tasks \subseteq Nat /\ 0 \in Port
  /\ MaxPort \in Nat /\ Clients \cap Tasks = {}
<1>1. Tasks \subseteq Nodes /\ Tasks \subseteq Threads /\ Clients \subseteq Threads
  BY DEF Nodes, Threads
<1>2. MaxPort \in Nat /\ Tasks \subseteq Nat /\ Clients \cap Tasks = {}
  BY ConstantsAssumption
<1>3. 0 \in Port
  BY <1>2 DEF Port
<1> QED
  BY <1>1, <1>2, <1>3

LEMMA ArcsOf ==
  ASSUME TypeOK, NEW n \in Nodes
  PROVE  /\ head[n].arcs \in Seq(Arc)
         /\ head[n].tag = "redirect" => head[n].arcs[1] \in Arc
<1>1. head[n] \in ArcHead
  BY DEF TypeOK
<1>2. \A b \in Arc : <<b>> \in Seq(Arc) /\ <<b>>[1] \in Arc
  OBVIOUS
<1> QED
  BY <1>1, <1>2 DEF ArcHead

LEMMA ArcTypes ==
  ASSUME NEW n \in Nodes, NEW p \in Port
  PROVE  /\ FlowBack(n, p) \in Arc /\ BackOnly(n, p) \in Arc /\ FlowOnly(n, p) \in Arc
         /\ Redirect(n, p) \in ArcHead
  BY DEF FlowBack, BackOnly, FlowOnly, Arc, Redirect, ArcHead

(* add_arc leaves an open list of arcs. *)
LEMMA PushHead ==
  ASSUME TypeOK, NEW n \in Nodes, NEW a \in Arc, Push(n, a)
  PROVE  head' \in [Nodes -> ArcHead]
<1>1. <<a>> \o head[n].arcs \in Seq(Arc)
  BY ArcsOf, OneFrame
<1>2. Open(<<a>> \o head[n].arcs) \in ArcHead
  BY <1>1 DEF Open, ArcHead
<1> QED
  BY <1>2 DEF Push, TypeOK

(* A task has as many ports as it has writing arguments, and one for its result. *)
LEMMA SlotCount ==
  ASSUME TypeOK, NEW t \in Tasks
  PROVE  /\ Cardinality(Slots(t)) \in 1..(MaxPort + 1)
         /\ \A i \in DOMAIN args[t] : PortOf(t, i) \in Port
<1>1. Len(args[t]) \in Nat /\ Len(args[t]) <= MaxPort /\ DOMAIN args[t] = 1..Len(args[t])
  BY DEF TypeOK
<1>2. IsFiniteSet(1..Len(args[t])) /\ Cardinality(1..Len(args[t])) = Len(args[t])
  BY <1>1, FS_Interval
<1>3. ASSUME NEW S \in SUBSET (1..Len(args[t]))
      PROVE  Cardinality(S) \in 0..MaxPort
  <2>1. IsFiniteSet(S) /\ Cardinality(S) <= Len(args[t])
    BY <1>2, FS_Subset
  <2>2. Cardinality(S) \in Nat
    BY <2>1, FS_CardinalityType
  <2> QED
    BY <1>1, <2>1, <2>2, NodesApart
<1>4. \A i \in DOMAIN args[t] : PortOf(t, i) \in Port
  <2>1. \A i : {j \in Writes(t) : j <= i} \in SUBSET (1..Len(args[t]))
    BY <1>1 DEF Writes
  <2> QED
    BY <2>1, <1>3 DEF PortOf, Port
<1>5. Cardinality(Writes(t)) \in 0..MaxPort
  BY <1>1, <1>3 DEF Writes
<1>6. Slots(t) = 0..Cardinality(Writes(t))
  BY DEF Slots
<1>7. Cardinality(Slots(t)) = Cardinality(Writes(t)) + 1
  BY <1>5, <1>6, FS_Interval, NodesApart
<1> QED
  BY <1>4, <1>5, <1>7, NodesApart

LEMMA BodyFramesType ==
  ASSUME TypeOK, NEW t \in Tasks
  PROVE  BodyFrames(t) \in Seq(FrameOf(t))
<1> DEFINE S == FrameOf(t)
<1>1. /\ F("start", t, 0, 0) \in S /\ F("finish", t, 0, 0) \in S /\ F("exchange", t, 0, 0) \in S
      /\ F("wakeup", t, 0, 0) \in S /\ F("rel", t, 0, 1) \in S
  BY NodesApart, PlainFrame DEF WaitOps, BodyOps, CountOps
<1>2. F("relall", t, 0, 0) \in S
  BY NodesApart DEF F, FrameOf, Frame, SetupOps, BodyOps
<1>3. Cardinality(Slots(t)) \in Nat /\ \A i \in 1..Cardinality(Slots(t)) : i - 1 \in Port
  BY SlotCount, NodesApart DEF Port
<1>4. \A i \in 1..Cardinality(Slots(t)) : F("out", t, i - 1, 0) \in S
  BY <1>3, NodesApart, PlainFrame DEF WaitOps, BodyOps, CountOps
<1>5. OutFrames(t) \in Seq(S)
  BY <1>3, <1>4 DEF OutFrames
<1> HIDE DEF S
<1>6. <<F("start", t, 0, 0), F("finish", t, 0, 0), F("exchange", t, 0, 0)>> \in Seq(S)
  BY <1>1
<1>7. <<F("wakeup", t, 0, 0), F("relall", t, 0, 0), F("rel", t, 0, 1)>> \in Seq(S)
  BY <1>1, <1>2
<1>8. BodyFrames(t) \in Seq(S)
  BY <1>5, <1>6, <1>7 DEF BodyFrames
<1> QED
  BY <1>8 DEF S

LEMMA NextCallType ==
  ASSUME NEW x \in Threads, NEW n \in Nodes, NEW d \in NextWriter
  PROVE  NextCall(n, d) \in Seq(FrameOf(x)) /\ Returned(n, d) \in Int
<1>1. d.kind \in {"writer", "owner"} => d.node \in Nodes
  BY DEF NextWriter
<1>2. d.kind \in {"writer", "owner"} =>
        F("pre", d.node, 0, 1) \in FrameOf(x) /\ F("rel", d.node, 0, 1) \in FrameOf(x)
  <2>1. ASSUME NEW m \in Nodes
        PROVE  F("pre", m, 0, 1) \in FrameOf(x) /\ F("rel", m, 0, 1) \in FrameOf(x)
    BY PlainFrame, NodesApart DEF WaitOps, BodyOps, CountOps
  <2> QED
    BY <1>1, <2>1
<1>3. <<>> \in Seq(FrameOf(x))
  OBVIOUS
<1>4. d.kind = "writer" => <<F("pre", d.node, 0, 1)>> \in Seq(FrameOf(x))
  BY <1>2, OneFrame
<1>5. d.kind = "owner" => <<F("rel", d.node, 0, 1)>> \in Seq(FrameOf(x))
  BY <1>2, OneFrame
<1> QED
  BY <1>3, <1>4, <1>5 DEF NextCall, Returned

(***************************************************************************)
(* Counting                                                                *)
(***************************************************************************)
LEMMA PreType ==
  ASSUME TypeOK, NEW x \in Threads, Pre(x)
  PROVE  TypeOK'
<1> DEFINE d == Cur(x).node
           rest == (IF SyncSpawn THEN <<F("join", d, 0, 0)>> ELSE <<>>) \o Tail(todo[x])
<1>1. todo[x] # <<>> /\ d \in Nodes /\ Cur(x).k \in Int /\ args' = args /\ making' = making /\ phase' = phase
  BY CurFrame DEF Pre, At, Frame, setup, ghost
<1>2. rest \in Seq(FrameOf(x))
  <2>1. F("join", d, 0, 0) \in FrameOf(x)
    <3> HIDE DEF d
    <3> QED
      BY <1>1, PlainFrame, NodesApart DEF WaitOps, BodyOps, CountOps
  <2>2. <<F("join", d, 0, 0)>> \in Seq(FrameOf(x)) /\ <<>> \in Seq(FrameOf(x))
    BY <2>1, OneFrame
  <2>3. todo[x] \in Seq(FrameOf(x))
    BY DEF TypeOK, FramesFit
  <2> HIDE DEF d
  <2> QED
    BY <1>1, <2>2, <2>3, ConcatTail
<1>3. FramesFit'
  <2>1. CASE startCount[d] = Cur(x).k
    <3>1. todo' = [todo EXCEPT ![x] = rest, ![d] = BodyFrames(d)]
      BY <2>1 DEF Pre
    <3>2. d \in Threads => BodyFrames(d) \in Seq(FrameOf(d))
      <4>1. d \in Threads => d \in Tasks
        BY <1>1, ConstantsAssumption DEF Threads, Nodes
      <4> QED
        BY <4>1, BodyFramesType
    <3>3. ASSUME NEW y \in Threads
          PROVE  todo'[y] \in Seq(FrameOf(y))
      <4> HIDE DEF d, rest
      <4>1. CASE y = d
        BY <3>1, <3>2, <4>1 DEF TypeOK, FramesFit
      <4>2. CASE y # d /\ y = x
        BY <3>1, <1>2, <4>2 DEF TypeOK, FramesFit
      <4>3. CASE y # d /\ y # x
        BY <3>1, <4>3 DEF TypeOK, FramesFit
      <4> QED
        BY <4>1, <4>2, <4>3
    <3>4. \A y \in Threads : todo'[y] \in Seq(Frame) /\ todo'[y] \in Seq(FrameOf(y)')
      BY <3>3, <1>1, FrameIsFrame, FramesStay, SeqGrows
    <3>5. todo' \in [Threads -> Seq(Frame)]
      <4> HIDE DEF d, rest
      <4> QED
        BY <3>1, <3>4 DEF TypeOK, FramesFit
    <3> QED
      BY <3>4, <3>5 DEF FramesFit
  <2>2. CASE startCount[d] # Cur(x).k
    <3>1. Then(x, <<>>)
      BY <2>2 DEF Pre
    <3> QED
      BY <3>1, <1>1, PopFrames
  <2> QED
    BY <2>1, <2>2
<1>4. startCount' \in [Nodes -> Int]
  BY <1>1 DEF Pre, TypeOK
<1> QED
  BY <1>3, <1>4 DEF TypeOK, Pre, setup, ghost

LEMMA JoinType ==
  ASSUME TypeOK, NEW x \in Threads, Join(x)
  PROVE  TypeOK'
<1>1. FramesFit'
  BY PopFrames DEF Join, At, setup, ghost
<1> QED
  BY <1>1 DEF TypeOK, Join, engine, setup, ghost

(* Freeing a node leaves it with a state and a count. *)
LEMMA FreeType ==
  ASSUME TypeOK, NEW n \in Nodes, Free(n)
  PROVE  node' \in [Nodes -> {"unborn", "alive", "freed"}] /\ life' \in [Nodes -> Int]
  BY DEF TypeOK, Free

LEMMA RelType ==
  ASSUME TypeOK, NEW x \in Threads, Rel(x)
  PROVE  TypeOK'
<1> DEFINE n == Cur(x).node
           k == IF At(x, "relall") THEN refs[n] ELSE Cur(x).k
<1>1. todo[x] # <<>> /\ n \in Nodes
  BY CurFrame DEF Rel, At, Frame
<1>2. k \in Int
  <2>1. Cur(x) \in FrameOf(x) /\ Cur(x).k \in Int
    BY <1>1, CurFrame DEF Frame
  <2>2. At(x, "relall") => n \in Tasks
    BY <2>1 DEF FrameOf, At, Cur
  <2> QED
    BY <2>1, <2>2 DEF TypeOK
<1>3. F("sub", n, 0, k) \in FrameOf(x)
  <2> HIDE DEF n, k
  <2> QED
    BY <1>1, <1>2, PlainFrame, NodesApart DEF WaitOps, BodyOps, CountOps
<1>4. \/ Free(n) /\ Then(x, <<>>)
      \/ Then(x, <<F("sub", n, 0, k)>>) /\ UNCHANGED <<node, life>>
  BY DEF Rel
<1>5. args' = args /\ making' = making /\ phase' = phase
  BY DEF Rel, setup, ghost
<1>6. FramesFit'
  <2> HIDE DEF n, k
  <2> QED
    BY <1>1, <1>3, <1>4, <1>5, PopFrames, NextFrame
<1>7. node' \in [Nodes -> {"unborn", "alive", "freed"}] /\ life' \in [Nodes -> Int]
  <2> HIDE DEF n, k
  <2> QED
    BY <1>1, <1>4, FreeType DEF TypeOK
<1> QED
  BY <1>6, <1>7 DEF TypeOK, Rel, setup, ghost

LEMMA SubType ==
  ASSUME TypeOK, NEW x \in Threads, Sub(x)
  PROVE  TypeOK'
<1>1. todo[x] # <<>> /\ Cur(x).node \in Nodes /\ Cur(x).k \in Int
  BY CurFrame DEF Sub, At, Frame
<1>2. FramesFit'
  BY <1>1, PopFrames DEF Sub, setup, ghost
<1>3. node' \in [Nodes -> {"unborn", "alive", "freed"}] /\ life' \in [Nodes -> Int]
  <2>1. CASE life[Cur(x).node] - Cur(x).k = 0
    BY <1>1, <2>1, FreeType DEF Sub
  <2>2. CASE life[Cur(x).node] - Cur(x).k # 0
    BY SMTT(30), <1>1, <2>2 DEF Sub, TypeOK
  <2> QED
    BY <2>1, <2>2
<1> QED
  BY <1>2, <1>3 DEF TypeOK, Sub, setup, ghost

LEMMA DecType ==
  ASSUME TypeOK, NEW x \in Threads, Dec(x)
  PROVE  TypeOK'
<1> DEFINE n == Cur(x).node
           p == Cur(x).port
           d == nextWriter[n][p]
<1>1. todo[x] # <<>> /\ n \in Nodes /\ p \in Port /\ Cur(x).k \in Int
  BY CurFrame DEF Dec, At, Frame
<1>2. d \in NextWriter
  BY <1>1 DEF TypeOK
<1>3. NextCall(n, d) \in Seq(FrameOf(x)) /\ Returned(n, d) \in Int
  <2> HIDE DEF n, d
  <2> QED
    BY <1>1, <1>2, NextCallType
<1>4. NextCall(n, d) \o <<F("rel", n, 0, Returned(n, d))>> \in Seq(FrameOf(x))
  <2> HIDE DEF n, d
  <2>1. F("rel", n, 0, Returned(n, d)) \in FrameOf(x)
    BY <1>1, <1>3, PlainFrame, NodesApart DEF WaitOps, BodyOps, CountOps
  <2>2. <<F("rel", n, 0, Returned(n, d))>> \in Seq(FrameOf(x))
    BY <2>1, OneFrame
  <2> QED
    BY <1>3, <2>2
<1>5. \/ Then(x, <<>>) /\ UNCHANGED refs
      \/ refs' = [refs EXCEPT ![n] = @ + Returned(n, d)] /\ Then(x, NextCall(n, d))
      \/ Then(x, NextCall(n, d) \o <<F("rel", n, 0, Returned(n, d))>>) /\ UNCHANGED refs
  BY DEF Dec
<1>6. args' = args /\ making' = making /\ phase' = phase
  BY DEF Dec, setup, ghost
<1>7. FramesFit'
  <2> HIDE DEF n, d
  <2> QED
    BY <1>1, <1>3, <1>4, <1>5, <1>6, PopFrames, ThenFrames
<1>8. refs' \in [Tasks -> Int]
  <2> HIDE DEF n, d
  <2> QED
    BY <1>3, <1>5 DEF TypeOK
<1>9. countdown' \in [Nodes -> [Port -> Int]]
  BY <1>1 DEF Dec, TypeOK
<1> QED
  BY <1>7, <1>8, <1>9 DEF TypeOK, Dec, setup, ghost

(***************************************************************************)
(* Workers                                                                 *)
(***************************************************************************)
LEMMA StartType ==
  ASSUME TypeOK, NEW t \in Tasks, Start(t)
  PROVE  TypeOK'
<1>1. /\ todo[t] # <<>> /\ t \in Threads /\ Then(t, <<>>) /\ args' = args /\ making' = making
      /\ phase' = [phase EXCEPT ![t] = "running"]
  BY NodesApart DEF Start, At, setup
<1>2. phase' \in [Tasks -> {"idle", "pending", "running", "done"}]
      /\ \A u \in Tasks : phase[u] # "idle" => phase'[u] # "idle"
  BY <1>1 DEF TypeOK
<1>3. FramesFit'
  BY <1>1, <1>2, PopFrames
<1> QED
  BY <1>2, <1>3 DEF TypeOK, Start, engine, setup

(* What notify_successors leaves in a slot is a count. *)
LEMMA CountdownsType ==
  ASSUME NEW t \in Tasks, NEW S, NEW c \in [S -> [Port -> Int]], S = Nodes \/ S = Tasks
  PROVE  Countdowns(t, c) \in [S -> [Port -> Int]]
<1>1. t \in S
  BY NodesApart
<1>2. c[t] \in [Port -> Int]
  BY <1>1
<1>3. [p \in Port |-> IF p \in Slots(t) THEN Half ELSE c[t][p]] \in [Port -> Int]
  BY <1>2, Numbers
<1> QED
  BY <1>1, <1>3 DEF Countdowns

LEMMA FinishType ==
  ASSUME TypeOK, NEW t \in Tasks, Finish(t)
  PROVE  TypeOK'
<1>1. /\ todo[t] # <<>> /\ t \in Threads /\ Then(t, <<>>) /\ args' = args /\ making' = making
      /\ phase' = [phase EXCEPT ![t] = "done"]
  BY NodesApart DEF Finish, At, setup
<1>2. phase' \in [Tasks -> {"idle", "pending", "running", "done"}]
      /\ \A u \in Tasks : phase[u] # "idle" => phase'[u] # "idle"
  BY <1>1 DEF TypeOK
<1>3. FramesFit'
  BY <1>1, <1>2, PopFrames
<1>4. countdown' \in [Nodes -> [Port -> Int]] /\ count' \in [Tasks -> [Port -> Int]]
  <2>1. countdown' = Countdowns(t, countdown) /\ count' = Countdowns(t, count)
    BY DEF Finish
  <2>2. countdown \in [Nodes -> [Port -> Int]] /\ count \in [Tasks -> [Port -> Int]]
    BY DEF TypeOK
  <2>3. Countdowns(t, countdown) \in [Nodes -> [Port -> Int]]
    BY <2>2, CountdownsType
  <2>4. Countdowns(t, count) \in [Tasks -> [Port -> Int]]
    BY <2>2, CountdownsType
  <2> QED
    BY <2>1, <2>3, <2>4
<1>5. mem' \in [Nodes -> Nat]
  <2>1. ASSUME NEW v \in Nodes, \E i \in Writes(t) : args[t][i].v = v
        PROVE  want[t][CHOOSE i \in Writes(t) : args[t][i].v = v] + 1 \in Nat
    <3> DEFINE j == CHOOSE i \in Writes(t) : args[t][i].v = v
    <3>1. j \in Writes(t)
      BY <2>1
    <3>2. want[t] \in Seq(Nat) /\ args[t] \in Seq([v : Nodes, w : BOOLEAN]) /\ Len(want[t]) = Len(args[t])
      BY DEF TypeOK
    <3>3. j \in 1..Len(want[t])
      BY <3>1, <3>2 DEF Writes
    <3> HIDE DEF j
    <3>4. want[t][j] \in Nat
      BY <3>2, <3>3
    <3>5. want[t][j] + 1 \in Nat
      BY <3>4
    <3> QED
      BY <3>5 DEF j
  <2> QED
    BY <2>1 DEF Finish, TypeOK
<1> QED
  BY <1>2, <1>3, <1>4, <1>5 DEF TypeOK, Finish, setup

LEMMA ExchangeType ==
  ASSUME TypeOK, NEW t \in Tasks, Exchange(t)
  PROVE  TypeOK'
<1> DEFINE r == head[t].arcs
           fs == [i \in 1..Len(r) |-> ArcFrame(r[i])]
<1>1. /\ todo[t] # <<>> /\ t \in Threads /\ t \in Nodes /\ Then(t, fs)
      /\ args' = args /\ making' = making /\ phase' = phase
  BY NodesApart DEF Exchange, At, setup, ghost
<1>2. r \in Seq(Arc)
  BY <1>1, ArcsOf
<1>3. ASSUME NEW b \in Arc
      PROVE  ArcFrame(b) \in FrameOf(t)
  <2>1. b.node \in Nodes /\ b.port \in Port
    BY DEF Arc
  <2>2. F("dec", b.node, b.port, 1) \in FrameOf(t) /\ F("flow", b.node, b.port, 0) \in FrameOf(t)
    BY <1>1, <2>1, PlainFrame DEF WaitOps, BodyOps, CountOps
  <2>3. F("pre", b.node, 0, 1) \in FrameOf(t)
    <3>1. 0 \in Port
      BY NodesApart
    <3> QED
      BY <1>1, <2>1, <3>1, PlainFrame DEF WaitOps, BodyOps, CountOps
  <2> QED
    BY <2>2, <2>3 DEF ArcFrame
<1>4. fs \in Seq(FrameOf(t))
  <2> HIDE DEF r
  <2> QED
    BY <1>2, <1>3
<1>5. FramesFit'
  <2> HIDE DEF fs
  <2> QED
    BY <1>1, <1>4, ThenFrames
<1>6. head' \in [Nodes -> ArcHead]
  <2>1. Done \in ArcHead
    BY DEF Done, ArcHead
  <2> QED
    BY <2>1 DEF Exchange, TypeOK
<1> QED
  BY <1>5, <1>6 DEF TypeOK, Exchange, setup, ghost

LEMMA FlowType ==
  ASSUME TypeOK, NEW t \in Tasks, Flow(t)
  PROVE  TypeOK'
<1> DEFINE c == Cur(t).node
           p == Cur(t).port
<1>1. /\ todo[t] # <<>> /\ t \in Threads /\ t \in Nodes /\ Then(t, <<F("pre", c, 0, 1)>>)
      /\ args' = args /\ making' = making /\ phase' = phase
  BY NodesApart DEF Flow, At, setup, ghost
<1>2. c \in Nodes /\ p \in Port
  BY <1>1, CurFrame DEF Frame
<1>3. FramesFit'
  <2> HIDE DEF c
  <2>1. F("pre", c, 0, 1) \in FrameOf(t)
    BY <1>1, <1>2, PlainFrame, NodesApart DEF WaitOps, BodyOps, CountOps
  <2> QED
    BY <1>1, <2>1, NextFrame
<1>4. head' \in [Nodes -> ArcHead] /\ count' \in [Tasks -> [Port -> Int]]
  <2>1. CASE TurnBack(t, p)
    <3>1. Push(c, BackOnly(t, p)) /\ count' = [count EXCEPT ![t][p] = @ - 1]
      BY <2>1 DEF Flow
    <3> HIDE DEF c, p
    <3>2. head' \in [Nodes -> ArcHead]
      BY <1>1, <1>2, <3>1, ArcTypes, PushHead
    <3>3. count' \in [Tasks -> [Port -> Int]]
      BY <1>2, <3>1 DEF TypeOK
    <3> QED
      BY <3>2, <3>3
  <2>2. CASE ~TurnBack(t, p)
    BY <2>2 DEF Flow, TypeOK
  <2> QED
    BY <2>1, <2>2
<1> QED
  BY <1>3, <1>4 DEF TypeOK, Flow, setup, ghost

LEMMA NextWriterTypes ==
  /\ Null \in NextWriter /\ Ready \in NextWriter /\ NoOwner \in NextWriter
  /\ \A n \in Nodes : Owner(n) \in NextWriter /\ Writer(n) \in NextWriter
  BY DEF Null, Ready, NoOwner, Owner, Writer, NextWriter

LEMMA OutType ==
  ASSUME TypeOK, NEW t \in Tasks, Out(t)
  PROVE  TypeOK'
<1> DEFINE p == Cur(t).port
           k == count[t][p] - Kept(t, p)
<1>1. /\ todo[t] # <<>> /\ t \in Threads /\ t \in Nodes /\ Then(t, <<F("dec", t, p, k)>>)
      /\ args' = args /\ making' = making /\ phase' = phase
  BY NodesApart DEF Out, At, setup, ghost
<1>2. p \in Port
  BY <1>1, CurFrame DEF Frame
<1>3. k \in Int
  BY <1>2 DEF TypeOK, Kept
<1>4. FramesFit'
  <2> HIDE DEF p, k
  <2>1. F("dec", t, p, k) \in FrameOf(t)
    BY <1>1, <1>2, <1>3, PlainFrame DEF WaitOps, BodyOps, CountOps
  <2> QED
    BY <1>1, <2>1, NextFrame
<1>5. nextWriter' \in [Nodes -> [Port -> NextWriter]]
  <2>1. nextWriter' = [nextWriter EXCEPT ![t][p] = IF @ = Null THEN Ready ELSE @]
    BY DEF Out
  <2> HIDE DEF p
  <2> QED
    BY <1>1, <1>2, <2>1, NextWriterTypes DEF TypeOK
<1> QED
  BY <1>4, <1>5 DEF TypeOK, Out, setup, ghost

LEMMA WakeupType ==
  ASSUME TypeOK, NEW t \in Tasks, Wakeup(t)
  PROVE  TypeOK'
<1>1. FramesFit'
  BY PopFrames, NodesApart DEF Wakeup, At, setup, ghost
<1>2. woken' \in [Nodes -> BOOLEAN]
  BY DEF Wakeup, TypeOK
<1> QED
  BY <1>1, <1>2 DEF TypeOK, Wakeup, setup, ghost

(***************************************************************************)
(* Clients: the setup of the arguments                                     *)
(***************************************************************************)
(* A client running a frame of setup is launching a task. *)
LEMMA InSetup ==
  ASSUME TypeOK, NEW x \in Clients, NEW op \in SetupOps, At(x, op)
  PROVE  /\ x \in Threads /\ todo[x] # <<>>
         /\ making[x] \in Tasks /\ making[x] \in Nodes /\ phase[making[x]] # "idle"
         /\ Cur(x).node \in Nodes /\ Cur(x).port \in Port
         /\ op = "arg" => Cur(x).port \in DOMAIN args[making[x]]
<1>1. x \in Threads /\ todo[x] # <<>> /\ Cur(x).op = op
  BY NodesApart DEF At, Cur
<1>2. Cur(x) \in FrameOf(x) /\ Cur(x) \in Frame
  BY <1>1, CurFrame
<1> QED
  BY <1>1, <1>2, NodesApart DEF FrameOf, Frame

LEMMA SetupFrame ==
  ASSUME NEW x \in Clients, making[x] \in Tasks, phase[making[x]] # "idle",
         NEW op \in SetupOps \ {"arg"}, NEW n \in Nodes, NEW p \in Port, NEW k \in Int
  PROVE  F(op, n, p, k) \in FrameOf(x)
  BY DEF F, FrameOf, Frame, SetupOps

LEMMA SeqElement ==
  ASSUME NEW S, NEW s \in Seq(S), NEW i \in DOMAIN s
  PROVE  s[i] \in S
  OBVIOUS

(* What the steps that take an argument say, with its task, its place and its variable
   named. *)
LEMMA AtArg ==
  ASSUME NEW x, ReadArg(x) \/ RedirectVar(x) \/ WriteArg(x)
  PROVE  At(x, "arg")
  BY Zenon DEF ReadArg, RedirectVar, WriteArg

LEMMA ReadArgSays ==
  ASSUME NEW x, ReadArg(x), NEW t, t = making[x], NEW i, i = Cur(x).port, NEW v, v = args[t][i].v
  PROVE  /\ ~args[t][i].w /\ Then(x, <<F("link", var[v].cur, var[v].port, 0)>>)
         /\ UNCHANGED <<node, engine, setup, ghost>>
  BY Zenon DEF ReadArg

LEMMA RedirectVarSays ==
  ASSUME NEW x, RedirectVar(x), NEW t, t = making[x], NEW i, i = Cur(x).port, NEW v, v = args[t][i].v
  PROVE  /\ args[t][i].w /\ var[v].deferred
         /\ head' = [head EXCEPT ![var[v].cur] = Redirect(t, PortOf(t, i))]
         /\ var' = [var EXCEPT ![v] = [@ EXCEPT !.deferred = FALSE]]
         /\ todo' = [todo EXCEPT ![x] = Moves(head[var[v].cur].arcs, PortOf(t, i)) \o @]
         /\ UNCHANGED <<node, startCount, life, nextWriter, countdown, woken, count, refs, args, owed, making>>
         /\ UNCHANGED ghost
  BY Zenon DEF RedirectVar

LEMMA WriteArgSays ==
  ASSUME NEW x, WriteArg(x), NEW t, t = making[x], NEW i, i = Cur(x).port, NEW v, v = args[t][i].v
  PROVE  /\ args[t][i].w /\ ~var[v].deferred
         /\ SetNextWriter(x, var[v].cur, var[v].port, Writer(t)) /\ Owe(t, 1)
         /\ var' = [var EXCEPT ![v] = [@ EXCEPT !.cur = t, !.port = PortOf(t, i)]]
         /\ UNCHANGED <<node, head, startCount, life, countdown, woken, count, refs, args, making>>
         /\ UNCHANGED ghost
  BY Zenon DEF WriteArg

(* An argument names a variable; the var stands for a port of a node. *)
LEMMA ArgOf ==
  ASSUME TypeOK, NEW t \in Tasks, NEW i \in DOMAIN args[t]
  PROVE  /\ args[t][i].v \in Nodes /\ PortOf(t, i) \in Port
         /\ var[args[t][i].v].cur \in Nodes /\ var[args[t][i].v].port \in Port
<1>0. \A v \in Nodes : var[v].cur \in Nodes /\ var[v].port \in Port
  BY DEF TypeOK, OoxVar
<1>1. args[t] \in Seq([v : Nodes, w : BOOLEAN])
  BY DEF TypeOK
<1>2. args[t][i] \in [v : Nodes, w : BOOLEAN]
  BY <1>1, SeqElement
<1>3. args[t][i].v \in Nodes
  BY <1>2
<1> QED
  BY <1>0, <1>3, SlotCount

LEMMA ReadArgType ==
  ASSUME TypeOK, NEW x \in Clients, ReadArg(x)
  PROVE  TypeOK'
<1> DEFINE v == args[making[x]][Cur(x).port].v
<1>1. /\ Then(x, <<F("link", var[v].cur, var[v].port, 0)>>)
      /\ args' = args /\ making' = making /\ phase' = phase
  BY ReadArgSays DEF setup, ghost
<1>2. /\ x \in Threads /\ todo[x] # <<>> /\ making[x] \in Tasks /\ phase[making[x]] # "idle"
      /\ Cur(x).port \in DOMAIN args[making[x]]
  BY InSetup, AtArg DEF SetupOps
<1>3. var[v].cur \in Nodes /\ var[v].port \in Port
  BY <1>2, ArgOf
<1>4. FramesFit'
  <2> HIDE DEF v
  <2>1. F("link", var[v].cur, var[v].port, 0) \in FrameOf(x)
    BY <1>2, <1>3, SetupFrame DEF SetupOps
  <2> QED
    BY <1>1, <1>2, <2>1, NextFrame
<1> QED
  BY <1>4 DEF TypeOK, ReadArg, engine, setup, ghost

(* Hanging an arc on a producer. *)
LEMMA AddArcType ==
  ASSUME TypeOK, NEW x \in Clients, NEW n \in Nodes, NEW p \in Port, AddArc(x, n, p),
         x \in Threads, todo[x] # <<>>, making[x] \in Tasks, making[x] \in Nodes,
         args' = args, making' = making, phase' = phase
  PROVE  head' \in [Nodes -> ArcHead] /\ owed' \in [Tasks -> Int] /\ FramesFit'
<1>1. Push(n, FlowBack(making[x], p)) /\ owed' = [owed EXCEPT ![making[x]] = @ + 1] /\ Then(x, <<>>)
  BY DEF AddArc, Owe
<1>2. head' \in [Nodes -> ArcHead]
  BY <1>1, ArcTypes, PushHead
<1>3. owed' \in [Tasks -> Int]
  BY SMTT(30), <1>1 DEF TypeOK
<1>4. FramesFit'
  BY <1>1, PopFrames
<1> QED
  BY <1>2, <1>3, <1>4

LEMMA LateFramesType ==
  ASSUME NEW x \in Clients, making[x] \in Tasks, phase[making[x]] # "idle",
         NEW n \in Nodes, NEW p \in Port
  PROVE  LateFrames(n, p) \in Seq(FrameOf(x))
<1>1. F("late", n, p, 0) \in FrameOf(x)
  BY SetupFrame DEF SetupOps
<1> QED
  BY <1>1, OneFrame DEF LateFrames

LEMMA LinkType ==
  ASSUME TypeOK, NEW x \in Clients, Link(x)
  PROVE  TypeOK'
<1> DEFINE n == Cur(x).node
           p == Cur(x).port
           b == head[n].arcs[1]
<1>1. /\ x \in Threads /\ todo[x] # <<>> /\ making[x] \in Tasks /\ making[x] \in Nodes
      /\ phase[making[x]] # "idle" /\ n \in Nodes /\ p \in Port
  BY InSetup DEF Link, SetupOps
<1>2. args' = args /\ making' = making /\ phase' = phase
  BY DEF Link, ghost
<1>3. \/ AddArc(x, n, p)
      \/ /\ head[n].tag = "redirect" /\ Then(x, <<F("hop", b.node, b.port, 0)>>)
         /\ UNCHANGED <<head, owed>>
      \/ Then(x, LateFrames(n, p)) /\ UNCHANGED <<head, owed>>
  BY DEF Link
<1>4. head[n].tag = "redirect" => b.node \in Nodes /\ b.port \in Port
  BY <1>1, ArcsOf DEF Arc
<1>5. head' \in [Nodes -> ArcHead] /\ owed' \in [Tasks -> Int] /\ FramesFit'
  <2> HIDE DEF n, p, b
  <2>1. CASE AddArc(x, n, p)
    BY <1>1, <1>2, <2>1, AddArcType
  <2>2. CASE /\ head[n].tag = "redirect" /\ Then(x, <<F("hop", b.node, b.port, 0)>>)
             /\ UNCHANGED <<head, owed>>
    <3>1. F("hop", b.node, b.port, 0) \in FrameOf(x)
      BY <1>1, <1>4, <2>2, SetupFrame DEF SetupOps
    <3>2. FramesFit'
      BY <1>1, <1>2, <2>2, <3>1, NextFrame
    <3> QED
      BY <2>2, <3>2 DEF TypeOK
  <2>3. CASE Then(x, LateFrames(n, p)) /\ UNCHANGED <<head, owed>>
    <3>1. FramesFit'
      BY <1>1, <1>2, <2>3, LateFramesType, ThenFrames
    <3> QED
      BY <2>3, <3>1 DEF TypeOK
  <2> QED
    BY <1>3, <2>1, <2>2, <2>3
<1> QED
  BY <1>5 DEF TypeOK, Link, ghost

LEMMA HopType ==
  ASSUME TypeOK, NEW x \in Clients, Hop(x)
  PROVE  TypeOK'
<1> DEFINE n == Cur(x).node
           p == Cur(x).port
<1>1. /\ x \in Threads /\ todo[x] # <<>> /\ making[x] \in Tasks /\ making[x] \in Nodes
      /\ phase[making[x]] # "idle" /\ n \in Nodes /\ p \in Port
  BY InSetup DEF Hop, SetupOps
<1>2. args' = args /\ making' = making /\ phase' = phase
  BY DEF Hop, ghost
<1>3. \/ AddArc(x, n, p)
      \/ Then(x, LateFrames(n, p)) /\ UNCHANGED <<head, owed>>
  BY DEF Hop
<1>4. head' \in [Nodes -> ArcHead] /\ owed' \in [Tasks -> Int] /\ FramesFit'
  <2> HIDE DEF n, p
  <2>1. CASE AddArc(x, n, p)
    BY <1>1, <1>2, <2>1, AddArcType
  <2>2. CASE Then(x, LateFrames(n, p)) /\ UNCHANGED <<head, owed>>
    <3>1. FramesFit'
      BY <1>1, <1>2, <2>2, LateFramesType, ThenFrames
    <3> QED
      BY <2>2, <3>1 DEF TypeOK
  <2> QED
    BY <1>3, <2>1, <2>2
<1> QED
  BY <1>4 DEF TypeOK, Hop, ghost

LEMMA LateType ==
  ASSUME TypeOK, NEW x \in Clients, Late(x)
  PROVE  TypeOK'
<1> DEFINE n == Cur(x).node
           p == Cur(x).port
<1>1. /\ x \in Threads /\ todo[x] # <<>> /\ making[x] \in Tasks
      /\ phase[making[x]] # "idle" /\ n \in Nodes /\ p \in Port
  BY InSetup DEF Late, SetupOps
<1>2. Then(x, <<F("hold", n, p, 0)>>) /\ args' = args /\ making' = making /\ phase' = phase
  BY DEF Late, setup, ghost
<1>3. FramesFit'
  <2> HIDE DEF n, p
  <2>1. F("hold", n, p, 0) \in FrameOf(x)
    BY <1>1, SetupFrame DEF SetupOps
  <2> QED
    BY <1>1, <1>2, <2>1, NextFrame
<1>4. countdown' \in [Nodes -> [Port -> Int]]
  BY SMTT(30), <1>1 DEF Late, TypeOK
<1> QED
  BY <1>3, <1>4 DEF TypeOK, Late, setup, ghost

LEMMA HoldType ==
  ASSUME TypeOK, NEW x \in Clients, Hold(x)
  PROVE  TypeOK'
<1>1. /\ x \in Threads /\ todo[x] # <<>> /\ making[x] \in Nodes
      /\ Cur(x).node \in Nodes /\ Cur(x).port \in Port
  BY InSetup DEF Hold, SetupOps
<1>2. FramesFit'
  BY <1>1, PopFrames DEF Hold, setup, ghost
<1>3. head' \in [Nodes -> ArcHead]
  BY <1>1, ArcTypes, PushHead DEF Hold
<1> QED
  BY <1>2, <1>3 DEF TypeOK, Hold, setup, ghost

LEMMA MoveType ==
  ASSUME TypeOK, NEW x \in Clients, Move(x)
  PROVE  TypeOK'
<1>1. /\ x \in Threads /\ todo[x] # <<>> /\ making[x] \in Nodes
      /\ Cur(x).node \in Nodes /\ Cur(x).port \in Port
  BY InSetup DEF Move, SetupOps
<1>2. FramesFit'
  BY <1>1, PopFrames DEF Move, setup, ghost
<1>3. head' \in [Nodes -> ArcHead]
  BY <1>1, ArcTypes, PushHead DEF Move
<1> QED
  BY <1>2, <1>3 DEF TypeOK, Move, setup, ghost

(* Moving a var on leaves a var. *)
LEMMA VarEdits ==
  ASSUME NEW r \in OoxVar, NEW n \in Nodes, NEW p \in Port, NEW b \in BOOLEAN
  PROVE  /\ [r EXCEPT !.live = b] \in OoxVar
         /\ [r EXCEPT !.deferred = b] \in OoxVar
         /\ [r EXCEPT !.cur = n, !.port = p] \in OoxVar
<1>1. [r EXCEPT !.live = b] \in OoxVar
  BY DEF OoxVar
<1>2. [r EXCEPT !.deferred = b] \in OoxVar
  BY DEF OoxVar
<1>3. [r EXCEPT !.cur = n, !.port = p] \in OoxVar
  BY Zenon DEF OoxVar
<1> QED
  BY <1>1, <1>2, <1>3

LEMMA VarUpdate ==
  ASSUME TypeOK, NEW v \in Nodes, NEW e \in OoxVar, var' = [var EXCEPT ![v] = e]
  PROVE  var' \in [Nodes -> OoxVar]
  BY DEF TypeOK

LEMMA RedirectVarType ==
  ASSUME TypeOK, NEW x \in Clients, RedirectVar(x)
  PROVE  TypeOK'
<1> DEFINE i == Cur(x).port
           t == making[x]
           v == args[t][i].v
           r == head[var[v].cur].arcs
           p == PortOf(t, i)
           S == FrameOf(x)
<1>1. /\ x \in Threads /\ todo[x] # <<>> /\ t \in Tasks /\ t \in Nodes /\ phase[t] # "idle"
      /\ i \in DOMAIN args[t]
  BY InSetup, AtArg DEF SetupOps
<1>2. v \in Nodes /\ p \in Port /\ var[v].cur \in Nodes
  BY <1>1, ArgOf
<1>3. r \in Seq(Arc)
  BY <1>2, ArcsOf
<1>4. /\ head' = [head EXCEPT ![var[v].cur] = Redirect(t, p)]
      /\ todo' = [todo EXCEPT ![x] = Moves(r, p) \o todo[x]]
      /\ args' = args /\ making' = making /\ phase' = phase
  BY Zenon DEF RedirectVar, ghost
<1>5. head' \in [Nodes -> ArcHead]
  <2> HIDE DEF i, t, v, p
  <2> QED
    BY <1>1, <1>2, <1>4, ArcTypes DEF TypeOK
<1>6. var' \in [Nodes -> OoxVar]
  <2> DEFINE e == [var[v] EXCEPT !.deferred = FALSE]
  <2>1. var' = [var EXCEPT ![v] = e]
    BY Zenon DEF RedirectVar
  <2>2. var[v] \in OoxVar
    BY Zenon, <1>2 DEF TypeOK
  <2>3. e \in OoxVar
    BY Zenon, <1>1, <1>2, <2>2, VarEdits
  <2> HIDE DEF e, v
  <2> QED
    BY <1>2, <2>1, <2>3, VarUpdate
<1>7. Moves(r, p) \o todo[x] \in Seq(S)
  <2>1. \A m \in Nodes : F("move", m, p, 0) \in S
    <3> HIDE DEF p, i
    <3> QED
      BY <1>1, <1>2, SetupFrame DEF SetupOps
  <2>2. \A j \in 1..Len(r) : r[j].node \in Nodes
    <3> HIDE DEF r
    <3>1. \A j \in 1..Len(r) : r[j] \in Arc
      BY <1>3, SeqElement
    <3> QED
      BY <3>1 DEF Arc
  <2>3. Moves(r, p) \in Seq(S)
    <3> HIDE DEF r, p, S
    <3> QED
      BY <1>3, <2>1, <2>2 DEF Moves
  <2>4. todo[x] \in Seq(S)
    BY <1>1 DEF TypeOK, FramesFit
  <2> HIDE DEF r, p, S
  <2> QED
    BY <1>1, <2>3, <2>4, ConcatTail
<1>8. FramesFit'
  <2> HIDE DEF r, p
  <2>1. \A y \in Threads : todo'[y] \in Seq(FrameOf(y))
    BY <1>1, <1>4, <1>7 DEF TypeOK, FramesFit
  <2>2. \A y \in Threads : todo'[y] \in Seq(Frame) /\ todo'[y] \in Seq(FrameOf(y)')
    BY <2>1, <1>4, FrameIsFrame, FramesStay, SeqGrows
  <2>3. todo' \in [Threads -> Seq(Frame)]
    BY Zenon, <1>4, <2>2 DEF TypeOK, FramesFit
  <2> QED
    BY <2>2, <2>3 DEF FramesFit
<1> QED
  BY Zenon, <1>5, <1>6, <1>8 DEF TypeOK, RedirectVar, ghost

(* A slot handed to its next writer or final owner. *)
LEMMA NextWriterUpdate ==
  ASSUME TypeOK, NEW n \in Nodes, NEW p \in Port, NEW d \in NextWriter
  PROVE  [nextWriter EXCEPT ![n][p] = d] \in [Nodes -> [Port -> NextWriter]]
  BY DEF TypeOK

LEMMA WriteArgType ==
  ASSUME TypeOK, NEW x \in Clients, WriteArg(x)
  PROVE  TypeOK'
<1> DEFINE i == Cur(x).port
           t == making[x]
           v == args[t][i].v
           n == var[v].cur
           p == var[v].port
           q == PortOf(t, i)
<1>1. /\ x \in Threads /\ todo[x] # <<>> /\ t \in Tasks /\ t \in Nodes /\ phase[t] # "idle"
      /\ i \in DOMAIN args[t]
  BY InSetup, AtArg DEF SetupOps
<1>2. v \in Nodes /\ q \in Port /\ n \in Nodes /\ p \in Port
  BY <1>1, ArgOf
<1>3. /\ nextWriter' = [nextWriter EXCEPT ![n][p] = Writer(t)]
      /\ Then(x, IF nextWriter[n][p] = Ready THEN <<F("dec", n, p, 1)>> ELSE <<>>)
      /\ owed' = [owed EXCEPT ![t] = @ + 1]
      /\ args' = args /\ making' = making /\ phase' = phase
  BY Zenon DEF WriteArg, SetNextWriter, Owe, ghost
<1>4. nextWriter' \in [Nodes -> [Port -> NextWriter]]
  <2> HIDE DEF t, n, p
  <2> QED
    BY <1>1, <1>2, <1>3, NextWriterTypes, NextWriterUpdate
<1>5. owed' \in [Tasks -> Int]
  <2>1. owed' = [owed EXCEPT ![t] = owed[t] + 1] /\ t \in Tasks
    BY Zenon, <1>1, <1>3
  <2> HIDE DEF t
  <2> QED
    <3>1. owed \in [Tasks -> Int]
      BY DEF TypeOK
    <3> QED
      BY <2>1, <3>1
<1>6. var' \in [Nodes -> OoxVar]
  <2> DEFINE e == [var[v] EXCEPT !.cur = t, !.port = q]
  <2>1. var' = [var EXCEPT ![v] = e]
    BY Zenon DEF WriteArg
  <2>2. var[v] \in OoxVar
    BY <1>2 DEF TypeOK
  <2>3. e \in OoxVar
    BY <1>1, <1>2, <2>2, VarEdits
  <2> HIDE DEF e, v
  <2> QED
    BY <1>2, <2>1, <2>3, VarUpdate
<1>7. FramesFit'
  <2> HIDE DEF n, p
  <2>1. F("dec", n, p, 1) \in FrameOf(x)
    BY <1>1, <1>2, PlainFrame DEF WaitOps, BodyOps, CountOps
  <2> QED
    BY <1>1, <1>3, <2>1, PopFrames, NextFrame
<1> QED
  BY Zenon, <1>4, <1>5, <1>6, <1>7 DEF TypeOK, WriteArg, ghost

LEMMA BindType ==
  ASSUME TypeOK, NEW x \in Clients, Bind(x)
  PROVE  TypeOK'
<1> DEFINE t == making[x]
<1>1. x \in Threads /\ todo[x] # <<>> /\ t \in Tasks /\ t \in Nodes /\ phase[t] # "idle"
  BY InSetup DEF Bind, SetupOps
<1>2. /\ life' = [life EXCEPT ![t] = BindLife(t)]
      /\ var' = [var EXCEPT ![t] = [live |-> FALSE, cur |-> t, port |-> 0, deferred |-> FALSE]]
      /\ Then(x, <<F("pre", t, 0, Protection(t))>>)
      /\ args' = args /\ making' = making /\ phase' = phase
  BY DEF Bind, ghost
<1>3. Protection(t) \in Int
  <2>1. owed[t] \in Int
    BY <1>1 DEF TypeOK
  <2> QED
    BY <2>1, Numbers DEF Protection
<1>4. BindLife(t) \in Int
  <2>1. Cardinality(Slots(t)) \in 1..(MaxPort + 1)
    BY <1>1, SlotCount
  <2> QED
    BY <2>1, NodesApart DEF BindLife
<1> HIDE DEF t
<1>5. life' \in [Nodes -> Int]
  BY <1>1, <1>2, <1>4 DEF TypeOK
<1>6. var' \in [Nodes -> OoxVar]
  BY <1>1, <1>2, NodesApart DEF TypeOK, OoxVar
<1>7. FramesFit'
  <2>1. F("pre", t, 0, Protection(t)) \in FrameOf(x)
    BY <1>1, <1>3, PlainFrame, NodesApart DEF WaitOps, BodyOps, CountOps
  <2> QED
    BY <1>1, <1>2, <2>1, NextFrame
<1> QED
  BY <1>5, <1>6, <1>7 DEF TypeOK, Bind, ghost

LEMMA ReturnType ==
  ASSUME TypeOK, NEW x \in Clients, Return(x)
  PROVE  TypeOK'
<1>1. x \in Threads /\ todo[x] # <<>> /\ making[x] \in Nodes
  BY InSetup DEF Return, SetupOps
<1>2. FramesFit'
  BY <1>1, PopFrames DEF Return, ghost
<1>3. var' \in [Nodes -> OoxVar]
  <2> DEFINE e == [var[making[x]] EXCEPT !.live = TRUE]
  <2>1. var' = [var EXCEPT ![making[x]] = e]
    BY DEF Return
  <2>2. var[making[x]] \in OoxVar
    BY <1>1 DEF TypeOK
  <2>3. e \in OoxVar
    BY <1>1, <2>2, NodesApart, VarEdits
  <2> HIDE DEF e
  <2> QED
    BY <1>1, <2>1, <2>3, VarUpdate
<1> QED
  BY <1>2, <1>3 DEF TypeOK, Return, engine, ghost

(***************************************************************************)
(* Clients: their calls                                                    *)
(***************************************************************************)
(* A thread at rest is given frames of its own. *)
LEMMA CallFrames ==
  ASSUME TypeOK, NEW x \in Threads, NEW fs \in Seq(FrameOf(x)),
         todo' = [todo EXCEPT ![x] = fs], args' = args, making' = making, phase' = phase
  PROVE  FramesFit'
<1>1. \A y \in Threads : todo'[y] \in Seq(FrameOf(y))
  BY DEF TypeOK, FramesFit
<1>2. \A y \in Threads : todo'[y] \in Seq(Frame) /\ todo'[y] \in Seq(FrameOf(y)')
  BY <1>1, FrameIsFrame, FramesStay, SeqGrows
<1> QED
  BY <1>2 DEF TypeOK, FramesFit

(* A step that touches neither the frames nor the arguments. *)
LEMMA FramesKept ==
  ASSUME TypeOK, todo' = todo, args' = args, making' = making, phase' = phase
  PROVE  FramesFit'
<1>1. \A y \in Threads : todo'[y] \in Seq(FrameOf(y)')
  BY FramesStay, SeqGrows DEF TypeOK, FramesFit
<1> QED
  BY <1>1 DEF TypeOK, FramesFit

LEMMA AllocateType ==
  ASSUME TypeOK, NEW x \in Clients, NEW s \in Storage, Allocate(x, s)
  PROVE  TypeOK'
<1>1. s \in Nodes
  BY DEF Nodes
<1>2. FramesFit'
  BY FramesKept DEF Allocate, ghost
<1>3. head' \in [Nodes -> ArcHead]
  <2>1. Open(<<>>) \in ArcHead /\ Done \in ArcHead
    BY DEF Open, Done, ArcHead
  <2> QED
    BY <2>1 DEF Allocate, TypeOK
<1>4. nextWriter' \in [Nodes -> [Port -> NextWriter]]
  BY <1>1, NodesApart, NextWriterTypes, NextWriterUpdate DEF Allocate
<1>5. var' \in [Nodes -> OoxVar]
  <2> DEFINE e == [live |-> TRUE, cur |-> s, port |-> 0, deferred |-> s \in Deferred]
  <2>1. e \in OoxVar
    BY <1>1, NodesApart DEF OoxVar
  <2>2. var' = [var EXCEPT ![s] = e]
    BY DEF Allocate
  <2> HIDE DEF e
  <2> QED
    BY <1>1, <2>1, <2>2, VarUpdate
<1>6. node' \in [Nodes -> {"unborn", "alive", "freed"}] /\ life' \in [Nodes -> Int]
  <2>1. node' = [node EXCEPT ![s] = "alive"] /\ life' = [life EXCEPT ![s] = 2]
    BY DEF Allocate
  <2>2. node' \in [Nodes -> {"unborn", "alive", "freed"}]
    BY <1>1, <2>1 DEF TypeOK
  <2>3. life' \in [Nodes -> Int]
    BY <1>1, <2>1 DEF TypeOK
  <2> QED
    BY <2>2, <2>3
<1> QED
  BY <1>2, <1>3, <1>4, <1>5, <1>6 DEF TypeOK, Allocate, ghost

LEMMA DropType ==
  ASSUME TypeOK, NEW x \in Clients, NEW v \in Nodes, Drop(x, v)
  PROVE  TypeOK'
<1> DEFINE n == var[v].cur
           p == var[v].port
<1>1. /\ nextWriter' = [nextWriter EXCEPT ![n][p] = FinalOwner(v)]
      /\ todo' = [todo EXCEPT ![x] = IF nextWriter[n][p] = Ready THEN <<F("dec", n, p, 1)>> ELSE <<>>]
      /\ args' = args /\ making' = making /\ phase' = phase
  BY DEF Drop, ghost
<1>2. var[v] \in OoxVar
  BY DEF TypeOK
<1>3. n \in Nodes /\ p \in Port
  BY <1>2 DEF OoxVar
<1>4. nextWriter' \in [Nodes -> [Port -> NextWriter]]
  <2> HIDE DEF n, p
  <2>1. FinalOwner(v) \in NextWriter
    BY NextWriterTypes DEF FinalOwner
  <2> QED
    BY <1>1, <1>3, <2>1, NextWriterUpdate
<1>5. FramesFit'
  <2> DEFINE fs == IF nextWriter[n][p] = Ready THEN <<F("dec", n, p, 1)>> ELSE <<>>
  <2> HIDE DEF n, p
  <2>1. F("dec", n, p, 1) \in FrameOf(x)
    BY <1>3, PlainFrame, NodesApart DEF WaitOps, BodyOps, CountOps
  <2>2. fs \in Seq(FrameOf(x))
    BY <2>1, OneFrame
  <2>3. todo' = [todo EXCEPT ![x] = fs]
    BY <1>1
  <2> HIDE DEF fs
  <2> QED
    BY <1>1, <2>2, <2>3, NodesApart, CallFrames
<1>6. var' \in [Nodes -> OoxVar]
  <2> DEFINE e == [var[v] EXCEPT !.live = FALSE]
  <2>1. var' = [var EXCEPT ![v] = e]
    BY DEF Drop
  <2>2. e \in OoxVar
    BY <1>2, <1>3, VarEdits
  <2> HIDE DEF e
  <2> QED
    BY <2>1, <2>2, VarUpdate
<1> QED
  BY <1>4, <1>5, <1>6 DEF TypeOK, Drop, ghost

LEMMA WaitVarType ==
  ASSUME TypeOK, NEW x \in Clients, NEW v \in Waitable, WaitVar(x, v)
  PROVE  TypeOK'
<1>1. x \in Threads /\ v \in Nodes
  BY ConstantsAssumption, NodesApart
<1>2. F("wait", v, 0, 0) \in FrameOf(x) /\ F("get", v, 0, 0) \in FrameOf(x)
  BY <1>1, PlainFrame, NodesApart DEF WaitOps, BodyOps, CountOps
<1>3. <<F("wait", v, 0, 0), F("get", v, 0, 0)>> \in Seq(FrameOf(x))
  BY <1>2
<1>4. FramesFit'
  BY <1>1, <1>3, CallFrames DEF WaitVar, setup, ghost
<1> QED
  BY <1>4 DEF TypeOK, WaitVar, engine, setup, ghost

LEMMA WaitType ==
  ASSUME TypeOK, NEW x \in Clients, Wait(x)
  PROVE  TypeOK'
<1> DEFINE v == Cur(x).node
<1>1. x \in Threads /\ todo[x] # <<>> /\ v \in Nodes
  BY CurFrame, NodesApart DEF Wait, At, Frame
<1>2. F("block", v, 0, 0) \in FrameOf(x)
  <2> HIDE DEF v
  <2> QED
    BY <1>1, PlainFrame, NodesApart DEF WaitOps, BodyOps, CountOps
<1>3. Then(x, <<>>) \/ Then(x, <<F("block", v, 0, 0)>>)
  BY DEF Wait
<1>4. FramesFit'
  <2> HIDE DEF v
  <2>1. args' = args /\ making' = making /\ phase' = phase
    BY DEF Wait, setup, ghost
  <2> QED
    BY <1>1, <1>2, <1>3, <2>1, PopFrames, NextFrame
<1> QED
  BY <1>4 DEF TypeOK, Wait, engine, setup, ghost

LEMMA BlockType ==
  ASSUME TypeOK, NEW x \in Clients, Block(x) \/ Get(x)
  PROVE  TypeOK'
<1>1. x \in Threads /\ todo[x] # <<>> /\ Then(x, <<>>) /\ UNCHANGED <<node, engine, setup, ghost>>
  BY NodesApart DEF Block, Get, At
<1>2. FramesFit'
  BY <1>1, PopFrames DEF setup, ghost
<1> QED
  BY <1>1, <1>2 DEF TypeOK, engine, setup, ghost

LEMMA LaunchType ==
  ASSUME TypeOK, NEW x \in Clients, NEW t \in Tasks, NEW a \in ArgLists[t], Launch(x, t, a)
  PROVE  TypeOK'
<1> DEFINE fs == [i \in 1..Len(a) |-> F("arg", t, i, 0)] \o <<F("bind", t, 0, 0), F("return", t, 0, 0)>>
           ws == [i \in DOMAIN a |-> Version(a[i].v, a[i].w)]
<1>1. /\ a \in Seq([v : Nodes, w : BOOLEAN]) /\ Len(a) <= MaxPort /\ Len(a) \in Nat
      /\ DOMAIN a = 1..Len(a)
  <2>1. a \in Seq([v : Nodes, w : BOOLEAN]) /\ Len(a) <= MaxPort
    BY ConstantsAssumption
  <2> QED
    BY <2>1
<1>2. /\ phase[t] = "idle" /\ phase' = [phase EXCEPT ![t] = "pending"]
      /\ args' = [args EXCEPT ![t] = a] /\ making' = [making EXCEPT ![x] = t]
      /\ todo' = [todo EXCEPT ![x] = fs] /\ want' = [want EXCEPT ![t] = ws]
  BY DEF Launch
<1>3. x \in Threads /\ t \in Nodes /\ t \in Threads
  BY NodesApart
<1>4. /\ args' \in [Tasks -> Seq([v : Nodes, w : BOOLEAN])]
      /\ making' \in [Clients -> Tasks \cup {NoTask}]
      /\ phase' \in [Tasks -> {"idle", "pending", "running", "done"}]
      /\ args'[t] = a /\ making'[x] = t /\ phase'[t] = "pending"
  <2> HIDE DEF fs, ws
  <2> QED
    BY <1>1, <1>2 DEF TypeOK
<1>5. fs \in Seq(FrameOf(x)') /\ fs \in Seq(Frame)
  <2>1. ASSUME NEW i \in 1..Len(a)
        PROVE  F("arg", t, i, 0) \in FrameOf(x)'
    <3>1. i \in Port
      BY <1>1, NodesApart DEF Port
    <3> HIDE DEF fs, ws
    <3> QED
      BY <1>1, <1>3, <1>4, <3>1 DEF F, FrameOf, Frame, SetupOps
  <2>2. F("bind", t, 0, 0) \in FrameOf(x)' /\ F("return", t, 0, 0) \in FrameOf(x)'
    <3> HIDE DEF fs, ws
    <3> QED
      BY <1>3, <1>4, NodesApart DEF F, FrameOf, Frame, SetupOps
  <2>3. FrameOf(x)' \subseteq Frame
    BY DEF FrameOf
  <2> DEFINE S == FrameOf(x)'
  <2> HIDE DEF S
  <2>4. fs \in Seq(S)
    <3>1. [i \in 1..Len(a) |-> F("arg", t, i, 0)] \in Seq(S)
      BY <1>1, <2>1 DEF S
    <3>2. <<F("bind", t, 0, 0), F("return", t, 0, 0)>> \in Seq(S)
      BY <2>2 DEF S
    <3> QED
      BY <3>1, <3>2
  <2>5. S \subseteq Frame
    BY <2>3 DEF S
  <2>6. fs \in Seq(Frame)
    BY <2>4, <2>5, SeqGrows
  <2> QED
    BY <2>4, <2>6 DEF S
<1>6. FramesFit'
  <2>1. ASSUME NEW y \in Threads, y # x
        PROVE  FrameOf(y) \subseteq FrameOf(y)'
    <3>1. ASSUME NEW f \in FrameOf(y)
          PROVE  f \in FrameOf(y)'
      <4>1. CASE f.op \in SetupOps
        <5>1. y \in Clients /\ making[y] \in Tasks /\ making[y] # t /\ phase[making[y]] # "idle"
          BY <1>2, <4>1 DEF FrameOf
        <5>2. /\ making'[y] = making[y] /\ args'[making[y]] = args[making[y]]
              /\ phase'[making[y]] = phase[making[y]]
          <6> HIDE DEF fs, ws
          <6> QED
            BY <1>2, <2>1, <5>1 DEF TypeOK
        <5> QED
          BY <5>1, <5>2 DEF FrameOf
      <4>2. CASE f.op \notin SetupOps
        <5>1. f.op # "arg"
          BY <4>2 DEF SetupOps
        <5> QED
          BY <4>2, <5>1 DEF FrameOf
      <4> QED
        BY <4>1, <4>2
    <3> QED
      BY <3>1
  <2> HIDE DEF fs, ws
  <2>2. ASSUME NEW y \in Threads
        PROVE  todo'[y] \in Seq(FrameOf(y)')
    <3>1. CASE y = x
      BY <1>2, <1>5, <3>1 DEF TypeOK, FramesFit
    <3>2. CASE y # x
      <4>1. todo'[y] \in Seq(FrameOf(y))
        BY <1>2, <3>2 DEF TypeOK, FramesFit
      <4> QED
        BY <4>1, <2>1, <3>2, SeqGrows
    <3> QED
      BY <3>1, <3>2
  <2>3. todo' \in [Threads -> Seq(Frame)]
    BY <1>2, <1>5 DEF TypeOK, FramesFit
  <2> QED
    BY <2>2, <2>3 DEF FramesFit
<1>7. want' \in [Tasks -> Seq(Nat)] /\ \A u \in Tasks : Len(args'[u]) <= MaxPort /\ Len(want'[u]) = Len(args'[u])
  <2>1. \A i \in DOMAIN a : Version(a[i].v, a[i].w) \in Nat
    <3>1. \A i \in DOMAIN a : a[i] \in [v : Nodes, w : BOOLEAN]
      BY <1>1, SeqElement
    <3>2. \A i \in DOMAIN a : a[i].v \in Nodes
      BY <3>1
    <3>3. \A v \in Nodes : last[v] \in Nat
      BY DEF TypeOK
    <3>4. \A v \in Nodes : \A w : Version(v, w) \in Nat
      BY <3>3 DEF Version
    <3> QED
      BY <3>2, <3>4
  <2>2. ws \in Seq(Nat) /\ Len(ws) = Len(a)
    BY <1>1, <2>1
  <2> HIDE DEF fs, ws
  <2> QED
    BY <1>1, <1>2, <2>2 DEF TypeOK
<1>8. last' \in [Nodes -> Nat]
  BY DEF Launch, TypeOK
<1>9. node' \in [Nodes -> {"unborn", "alive", "freed"}] /\ startCount' \in [Nodes -> Int]
  <2>1. node' = [node EXCEPT ![t] = "alive"] /\ startCount' = [startCount EXCEPT ![t] = StartMask]
    BY DEF Launch
  <2> HIDE DEF fs, ws
  <2> QED
    BY <2>1, Numbers DEF TypeOK
<1> QED
  BY <1>4, <1>6, <1>7, <1>8, <1>9 DEF TypeOK, Launch

(***************************************************************************)
(* The theorem                                                             *)
(***************************************************************************)
LEMMA InitType == Init => TypeOK
<1> SUFFICES ASSUME Init
             PROVE  TypeOK
  OBVIOUS
<1>1. Open(<<>>) \in ArcHead /\ Null \in NextWriter
  BY NextWriterTypes DEF Open, ArcHead
<1>2. var \in [Nodes -> OoxVar]
  BY NodesApart DEF Init, OoxVar
<1>3. FramesFit
  BY DEF Init, FramesFit
<1>4. \A t \in Tasks : Len(args[t]) <= MaxPort /\ Len(want[t]) = Len(args[t])
  BY NodesApart DEF Init
<1> QED
  BY <1>1, <1>2, <1>3, <1>4 DEF Init, TypeOK

LEMMA NextType ==
  ASSUME TypeOK, [Next]_vars
  PROVE  TypeOK'
<1>1. CASE UNCHANGED vars
  <2>1. FramesFit'
    BY <1>1, FramesKept DEF vars, setup, ghost
  <2> QED
    BY <1>1, <2>1 DEF TypeOK, vars, engine, setup, ghost
<1>2. ASSUME NEW x \in Clients, Call(x)
      PROVE  TypeOK'
  BY <1>2, AllocateType, LaunchType, DropType, WaitVarType DEF Call, Create, Run
<1>3. ASSUME NEW x \in Clients, ClientStep(x)
      PROVE  TypeOK'
  BY <1>3, ReadArgType, LinkType, HopType, LateType, HoldType, RedirectVarType, MoveType,
     WriteArgType, BindType, ReturnType, WaitType, BlockType DEF ClientStep
<1>4. ASSUME NEW x \in Threads, CountStep(x)
      PROVE  TypeOK'
  BY <1>4, PreType, JoinType, RelType, SubType, DecType DEF CountStep
<1>5. ASSUME NEW t \in Tasks, WorkerStep(t)
      PROVE  TypeOK'
  BY <1>5, StartType, FinishType, ExchangeType, FlowType, OutType, WakeupType DEF WorkerStep
<1> QED
  BY <1>1, <1>2, <1>3, <1>4, <1>5 DEF Next, Rest

(* Whatever the graph, every frame, port and word of the engine is of its kind. *)
THEOREM Typed == Spec => []TypeOK
  BY InitType, NextType, PTL DEF Spec

-----------------------------------------------------------------------------
(***************************************************************************)
(* What holds in every state of the engine, for any variables, tasks,      *)
(* clients and argument lists: Core, an inductive invariant that says      *)
(* where every thread is, what its frames mean and what every count of a   *)
(* slot or a task stands for.  Here are its definition, what follows from  *)
(* it, how a step that leaves something alone keeps it, and the steps of   *)
(* a client that sets up the arguments of a task.                          *)
(***************************************************************************)

(***************************************************************************)
(* What holds in every state                                               *)
(***************************************************************************)
SlotOf(v)  == <<var[v].cur, var[v].port>>
Openable   == {Null, Ready}
Vacant(n, p) == nextWriter[n][p] \in Openable

(* A node that has a value, or is about to notify of it. *)
Finished(n) == IF n \in Tasks THEN phase[n] = "done" ELSE nextWriter[n][0] # Null

BindOf(x)   == F("bind", making[x], 0, 0)
ReturnOf(x) == F("return", making[x], 0, 0)

Asking  == {"arg", "link", "hop"}
Calling == Asking \cup {"late", "hold", "move"}

(* A reading argument of the call x is in names v, whose slot is that of p of n; for a
   deferred v, where the redirect leads. *)
Leads(v, n, p) == \/ SlotOf(v) = <<n, p>>
                  \/ SlotOf(v) = <<v, 0>> /\ head[v] = Redirect(n, p)
Finds(x, n, p) == \E v \in Nodes : Reads(x, v) /\ Leads(v, n, p)
Begins(x, n, p) ==
  \/ Finds(x, n, p)
  \/ /\ p = 0 /\ head[n].tag = "redirect" /\ Reads(x, n)
     /\ Leads(n, head[n].arcs[1].node, head[n].arcs[1].port)

(* What the rest of the state is while a thread has a frame ahead of it... *)
Fits(f) ==
  /\ f.op \in {"pre", "flow", "move"} => f.node \in Tasks
  /\ f.op = "pre" => f.k = 1 \/ f.k = Protection(f.node)
  /\ f.op \in {"dec", "hold"} => Finished(f.node) /\ f.port \in Slots(f.node)
  /\ f.op = "dec" => f.k >= 1
  /\ f.op = "arg" => f.k = 0
  /\ f.op = "late" => head[f.node].tag = "done"
  /\ f.op \in {"rel", "sub", "relall"} => node[f.node] # "unborn"

(* ... and where on a stack s of thread x it is. *)
Lies(x, s, i) ==
  /\ s[i].op \in Calling => BindOf(x) \in After(s, i)
  /\ s[i].op = "arg" => /\ s[i].node = making[x]
                        /\ \A g \in After(s, i) : g.op = "arg" => s[i].port < g.port
  /\ s[i].op = "move" => s[i].port \in Slots(making[x])
  /\ s[i].op = "bind" => s[i] = BindOf(x) /\ ReturnOf(x) \in After(s, i)
  /\ s[i].op = "return" => s[i] = ReturnOf(x) /\ i = Len(s)
  /\ s[i].op \in BodyOps \ {"flow"} => s[i].node = x
  /\ s[i].op \in BodyOps => x \in Tasks
  /\ s[i].op = "out" => s[i].port \in Slots(x)
  /\ s[i].op = "flow" => s[i].port \in Slots(x) /\ F("out", x, s[i].port, 0) \in After(s, i)

Placed == \A x \in Threads : \A i \in DOMAIN todo[x] : Fits(todo[x][i]) /\ Lies(x, todo[x], i)

(* What an arc on the list of n stands for. *)
Apt(n, a) ==
  /\ a.kind # "back_only" => a.kind = "flow_back" /\ a.node \in Tasks /\ a.port \in Slots(n)
  /\ a.kind = "back_only" => n \in Tasks /\ Finished(a.node) /\ a.port \in Slots(a.node)

Linked == \A n \in Nodes : \A i \in DOMAIN Lists[n] : Apt(n, Lists[n][i])

(* Where the writer that took over a deferred variable stands. *)
Redirected(v) ==
  \E t \in Tasks : \E i \in Writes(t) : args[t][i].v = v /\ head[v] = Redirect(t, PortOf(t, i))

(* How far a task is, and where its thread is in its body. *)
Staged(t) ==
  /\ phase[t] = "idle" <=> node[t] = "unborn"
  /\ phase[t] = "idle" => /\ todo[t] = <<>> /\ args[t] = <<>>
                          /\ startCount[t] = 0 /\ owed[t] = 0
                          /\ \A p \in Port : nextWriter[t][p] = Null /\ countdown[t][p] = 1
  /\ phase[t] = "pending" => /\ startCount[t] = 0 <=> todo[t] # <<>>
                             /\ todo[t] \in {<<>>, BodyFrames(t)}
  /\ phase[t] \in {"running", "done"} => startCount[t] = 0
  /\ phase[t] = "running" => todo[t] = Tail(BodyFrames(t))
  /\ phase[t] = "done" /\ head[t].tag = "open" => todo[t] = Tail(Tail(BodyFrames(t)))
  /\ phase[t] = "done" /\ head[t].tag # "open" =>
       \A f \in Ahead(t) : f.op \notin {"start", "finish", "exchange"}
  /\ phase[t] # "done" => head[t].tag = "open"
  /\ head[t].tag \in {"open", "done"}

(* Storage that is not made yet, is there, or passes its readers on. *)
Stored(s) ==
  /\ node[s] = "unborn" <=> ~Finished(s)
  /\ ~Finished(s) => head[s] = Open(<<>>) /\ countdown[s][0] = 1 /\ last[s] = 0
  /\ Finished(s) /\ s \notin Deferred => head[s] = Done
  /\ s \in Deferred => head[s].tag = "open" \/ Redirected(s)

(* Which variables there are, and whose slots they are in. *)
New(v)   == [live |-> FALSE, cur |-> v, port |-> 0, deferred |-> FALSE]
InUse(v) == var[v].live \/ \E x \in Clients : F("return", v, 0, 0) \in Ahead(x)
Settled(v) ==
  /\ ~InUse(v) /\ node[v] = "unborn" => var[v] = New(v)
  /\ InUse(v) => node[v] # "unborn" /\ Vacant(var[v].cur, var[v].port)
  /\ InUse(v) => \/ SlotOf(v) = <<v, 0>>
                 \/ \E i \in Writes(var[v].cur) : /\ var[v].cur \in Tasks
                                                  /\ args[var[v].cur][i].v = v
                                                  /\ var[v].port = PortOf(var[v].cur, i)

(* A client that is about to write argument i of the task it makes. *)
ToWrite(x, i) == F("arg", making[x], i, 0) \in Ahead(x) /\ i \in Writes(making[x])
Opening(v)    == \E x \in Clients : /\ making[x] \in Tasks
                                    /\ \E i \in DOMAIN args[making[x]] :
                                         ToWrite(x, i) /\ args[making[x]][i].v = v

(* Deferred variables, until they are given their first writer. *)
Put(v) ==
  /\ var[v].deferred => /\ v \in Deferred /\ SlotOf(v) = <<v, 0>> /\ head[v].tag = "open"
                        /\ last[v] = 0 \/ (last[v] = 1 /\ Opening(v))
  /\ v \in Deferred /\ var[v].live /\ last[v] = 0 => var[v].deferred
  /\ var[v].live /\ SlotOf(v) = <<v, 0>> /\ head[v].tag = "redirect" => Opening(v)
  /\ \A x \in Clients : v \in Deferred /\ Modifies(x, v) /\ last[v] <= 1 =>
       /\ var[v].cur \in {v, making[x]}
       /\ var[v].deferred \/ head[v].tag = "redirect"

(* A client in a call, and what the others may do meanwhile. *)
Writing(x, i) ==
  LET t == making[x]
      v == args[t][i].v IN
  /\ var[v].cur # t /\ Vacant(t, PortOf(t, i))
  /\ SlotOf(v) = <<v, 0>> /\ head[v].tag = "redirect" => head[v].arcs[1].node = t
Called(x) ==
  /\ making[x] # NoTask =>
       phase[making[x]] # "idle" /\ \A y \in Clients : making[y] = making[x] => y = x
  /\ InRun(x) =>
       /\ making[x] \in Tasks /\ var[making[x]] = New(making[x])
       /\ \A i \in DOMAIN args[making[x]] : var[args[making[x]][i].v].live
       /\ \A v \in Nodes : Modifies(x, v) => last[v] >= 1
       /\ \A y \in Clients \ {x} : \A v \in Nodes : Modifies(x, v) =>
            /\ ~Modifies(y, v)
            /\ Reads(y, v) => v \in Deferred /\ last[v] <= 1
       /\ \A i \in Writes(making[x]) : ToWrite(x, i) => Writing(x, i)
       /\ owed[making[x]] + Number(todo[x], {f \in Frame : f.op \in Asking}) <= Len(args[making[x]])
  /\ \A f \in Ahead(x) : /\ f.op = "link" => Begins(x, f.node, f.port)
                         /\ f.op \in {"hop", "late"} => Finds(x, f.node, f.port)
                         /\ f.op = "hop" => f.node \in Tasks

(* No argument list names what it writes twice. *)
Apart(t) == \A i, j \in DOMAIN args[t] : i # j /\ args[t][i].v = args[t][j].v => ~args[t][i].w

(* The counts: of prerequisites, and of those who hold a slot. *)
Guards(t) == Count(todo, Protecting(t))
Counted(t) ==
  /\ owed[t] \in 0..Len(args[t])
  /\ Guards(t) <= 1
  /\ Coming(t) <= owed[t]
  /\ startCount[t] = Coming(t) + (IF Guards(t) = 0 THEN 0 ELSE Protection(t))

Outs(n, p)   == {f \in Frame : f.op = "out" /\ f.node = n /\ f.port = p}
Turning(n, p) == {f \in Frame : f.op = "flow" /\ f.port = p}
Named(d) == /\ d.kind = "writer" => d.node \in Tasks
            /\ d.kind = "owner" => node[d.node] # "unborn"
Tallied(n, p) ==
  /\ Named(nextWriter[n][p])
  /\ ~Finished(n) => countdown[n][p] = 1 /\ nextWriter[n][p] # Ready
  /\ Finished(n) => Exact(n, p)
  /\ Count(todo, Shares(n, p)) <= 1
  /\ Count(todo, Outs(n, p)) > 0 => nextWriter[n][p] # Ready
  /\ Finished(n) /\ Count(todo, Outs(n, p)) = 0 => nextWriter[n][p] # Null
  /\ n \in Tasks /\ Finished(n) /\ Count(todo, Outs(n, p)) > 0 =>
       /\ count[n][p] >= Number(todo[n], Turning(n, p)) + 3
       /\ head[n].tag = "open" => count[n][p] = Half

Bodies   == \A t \in Tasks : Staged(t)
Distinct == \A t \in Tasks : Apart(t)
Due      == \A t \in Tasks : Counted(t)
Stores   == \A s \in Storage : Stored(s)
Homes    == \A v \in Nodes : Settled(v)
Firsts   == \A v \in Nodes : Put(v)
Callers    == \A x \in Clients : Called(x)
Tallies  == \A n \in Nodes : \A p \in Slots(n) : Tallied(n, p)

Core == /\ TypeOK /\ Placed /\ Linked /\ Bodies /\ Distinct /\ Due
        /\ Stores /\ Homes /\ Firsts /\ Callers /\ Tallies

(***************************************************************************)
(* Stacks and lists                                                        *)
(***************************************************************************)
LEMMA Finite == /\ IsFiniteSet(Nodes) /\ IsFiniteSet(Threads) /\ IsFiniteSet(Tasks)
                /\ IsFiniteSet(Port) /\ IsFiniteSet(Nodes \X Port)
<1>1. IsFiniteSet(Tasks) /\ IsFiniteSet(Nodes) /\ IsFiniteSet(Clients)
  BY RoomAssumption, NodesApart, FS_Subset
<1>2. IsFiniteSet(Threads)
  BY <1>1, FS_Union DEF Threads
<1>3. IsFiniteSet(Port)
  BY NodesApart, FS_Interval DEF Port
<1> QED
  BY <1>1, <1>2, <1>3, FS_Product

LEMMA Member ==
  ASSUME NEW S, NEW s \in Seq(S), NEW i \in DOMAIN s
  PROVE  s[i] \in S
  OBVIOUS

LEMMA Short ==
  ASSUME NEW S
  PROVE  /\ <<>> \in Seq(S)
         /\ \A f \in S : <<f>> \in Seq(S)
         /\ \A f, g \in S : <<f, g>> \in Seq(S)
  OBVIOUS

LEMMA Families ==
  ASSUME TypeOK
  PROVE  /\ todo \in Family(Threads, Frame) /\ Lists \in Family(Nodes, Arc)
         /\ \A x \in Threads : todo[x] \in Seq(Frame)
         /\ \A n \in Nodes : Lists[n] \in Seq(Arc) /\ (head[n].tag = "open" => Lists[n] = head[n].arcs)
                             /\ (head[n].tag # "open" => Lists[n] = <<>>)
<1>1. \A x \in Threads : todo[x] \in Seq(Frame)
  BY DEF TypeOK, FramesFit
<1>2. todo \in Family(Threads, Frame)
  BY <1>1 DEF TypeOK, FramesFit, Family
<1>3. \A n \in Nodes : head[n].arcs \in Seq(Arc)
  BY ArcsOf
<1>4. Lists \in Family(Nodes, Arc)
  BY <1>3 DEF Lists, Family
<1> QED
  BY <1>1, <1>2, <1>3, <1>4 DEF Lists

(* The counts of a thread that goes on. *)
LEMMA ThenCount ==
  ASSUME TypeOK, NEW x \in Threads, todo[x] # <<>>, NEW fs \in Seq(Frame), Then(x, fs), NEW P
  PROVE  /\ Count(todo', P) \in Nat /\ Count(todo, P) \in Nat /\ Number(fs, P) \in Nat
         /\ Count(todo', P) = Count(todo, P) - One(Cur(x) \in P) + Number(fs, P)
<1>1. todo \in Family(Threads, Frame) /\ IsFiniteSet(Threads)
  BY Families, Finite
<1>2. Onward(todo', todo, x, fs)
  BY DEF Then, Onward
<1> QED
  BY <1>1, <1>2, CountThen DEF Cur

(* The counts of the lists when an arc is put on one. *)
LEMMA PushCount ==
  ASSUME TypeOK, NEW n \in Nodes, head[n].tag = "open", NEW a \in Arc, Push(n, a), NEW P
  PROVE  /\ Count(Lists', P) \in Nat /\ Count(Lists, P) \in Nat
         /\ Count(Lists', P) = Count(Lists, P) + One(a \in P)
<1> DEFINE fs == <<a>>
<1>1. Lists \in Family(Nodes, Arc) /\ IsFiniteSet(Nodes) /\ Lists[n] = head[n].arcs
  BY Families, Finite
<1>2. fs \in Seq(Arc) /\ Number(fs, P) = One(a \in P)
  BY Short, NumberOne
<1>3. Upon(Lists', Lists, n, fs)
  BY <1>1 DEF Push, Open, Lists, TypeOK, Upon
<1> HIDE DEF fs
<1>4. /\ Count(Lists', P) \in Nat /\ Count(Lists, P) \in Nat
      /\ Count(Lists', P) = Count(Lists, P) + Number(fs, P)
  BY <1>1, <1>2, <1>3, CountOnto
<1> QED
  BY <1>2, <1>4

LEMMA CountNat ==
  ASSUME TypeOK, NEW P
  PROVE  Count(todo, P) \in Nat /\ Count(Lists, P) \in Nat
  BY Families, Finite, CountType

(* No frame of P waits, or some does. *)
LEMMA TodoNone ==
  ASSUME TypeOK, NEW P
  PROVE  /\ Count(todo, P) = 0 <=> \A x \in Threads : Ahead(x) \cap P = {}
         /\ \A x \in Threads : \A f \in Ahead(x) : f \in P => Count(todo, P) >= 1
<1>1. /\ Count(todo, P) = 0 <=> \A x \in Threads : \A i \in DOMAIN todo[x] : todo[x][i] \notin P
      /\ \A x \in Threads : \A i \in DOMAIN todo[x] : todo[x][i] \in P => Count(todo, P) >= 1
  BY Families, Finite, CountNone
<1> QED
  BY <1>1 DEF Ahead

(* At most one does: two that do are the same. *)
LEMMA TodoOne ==
  ASSUME TypeOK, NEW P, Count(todo, P) <= 1, NEW x \in Threads, NEW y \in Threads,
         NEW f \in Ahead(x) \cap P, NEW g \in Ahead(y) \cap P
  PROVE  x = y /\ f = g
<1>1. \A i \in DOMAIN todo[x], j \in DOMAIN todo[y] :
         todo[x][i] \in P /\ todo[y][j] \in P => x = y /\ i = j
  BY Families, Finite, CountNone
<1> QED
  BY <1>1 DEF Ahead

LEMMA ListsNone ==
  ASSUME TypeOK, NEW P
  PROVE  Count(Lists, P) = 0 <=> \A n \in Nodes : \A i \in DOMAIN Lists[n] : Lists[n][i] \notin P
  BY Families, Finite, CountNone

(* What a thread that goes on has ahead of it. *)
LEMMA AheadThen ==
  ASSUME TypeOK, NEW x \in Threads, todo[x] # <<>>, NEW fs \in Seq(Frame), Then(x, fs)
  PROVE  /\ Ahead(x) = {Cur(x)} \cup After(todo[x], 1)
         /\ Ahead(x)' = {fs[i] : i \in DOMAIN fs} \cup After(todo[x], 1)
         /\ \A y \in Threads : y # x => todo'[y] = todo[y] /\ Ahead(y)' = Ahead(y)
<1> DEFINE s == todo[x]
           r == fs \o Tail(s)
<1>1. s \in Seq(Frame)
  BY Families
<1>2. /\ s[1] = Head(s) /\ 1 \in DOMAIN s
      /\ \A i \in DOMAIN s : i # 1 => i - 1 \in DOMAIN Tail(s) /\ (i - 1) + 1 = i
      /\ \A i \in DOMAIN Tail(s) : i + 1 \in DOMAIN s /\ Tail(s)[i] = s[i + 1]
      /\ After(s, 1) = {Tail(s)[i] : i \in DOMAIN Tail(s)} /\ Tail(s) \in Seq(Frame)
  BY <1>1, Behind
<1>3. \A i \in DOMAIN s : i = 1 \/ s[i] \in After(s, 1)
  <2>1. ASSUME NEW i \in DOMAIN s, i # 1
        PROVE  s[i] \in After(s, 1)
    <3>1. i - 1 \in DOMAIN Tail(s) /\ Tail(s)[i - 1] = s[i]
      BY <1>2, <2>1
    <3> QED
      BY <1>2, <3>1
  <2> QED
    BY <2>1
<1>4. Ahead(x) = {Cur(x)} \cup After(todo[x], 1)
  <2>1. \A f \in After(s, 1) : \E i \in DOMAIN s : f = s[i]
    BY <1>2
  <2> QED
    BY SMTT(30), <1>2, <1>3, <2>1 DEF Ahead, Cur
<1>5. OnTopOf(r, fs, Tail(s))
  BY <1>2, OnTop
<1>6. todo'[x] = r /\ \A y \in Threads : y # x => todo'[y] = todo[y]
  BY DEF Then, TypeOK, FramesFit
<1>7. {r[i] : i \in DOMAIN r} = {fs[i] : i \in DOMAIN fs} \cup After(s, 1)
  <2> HIDE DEF r, s
  <2>1. \A i \in DOMAIN r : (\E j \in DOMAIN fs : r[i] = fs[j]) \/ (\E j \in DOMAIN Tail(s) : r[i] = Tail(s)[j])
    BY <1>5 DEF OnTopOf
  <2>2. \A j \in DOMAIN fs : \E i \in DOMAIN r : r[i] = fs[j]
    BY <1>5 DEF OnTopOf
  <2>3. \A j \in DOMAIN Tail(s) : \E i \in DOMAIN r : r[i] = Tail(s)[j]
    BY <1>5 DEF OnTopOf
  <2>4. After(s, 1) = {Tail(s)[i] : i \in DOMAIN Tail(s)}
    BY <1>2
  <2> QED
    BY <2>1, <2>2, <2>3, <2>4
<1> HIDE DEF r
<1>8. Ahead(x)' = {r[i] : i \in DOMAIN r}
  BY <1>6 DEF Ahead
<1> QED
  BY SMTT(30), <1>4, <1>6, <1>7, <1>8 DEF Ahead

(***************************************************************************)
(* Slots                                                                   *)
(***************************************************************************)
(* Where i comes in a set of numbers. *)
Rank(S, i) == Cardinality({j \in S : j <= i})

LEMMA Ranks ==
  ASSUME NEW S \in SUBSET Nat, IsFiniteSet(S)
  PROVE  /\ Cardinality(S) \in Nat
         /\ \A i \in S : Rank(S, i) \in 1..Cardinality(S)
         /\ \A i, j \in S : Rank(S, i) = Rank(S, j) => i = j
<1>1. \A T \in SUBSET S : IsFiniteSet(T) /\ Cardinality(T) \in Nat /\ Cardinality(T) <= Cardinality(S)
  BY FS_Subset, FS_CardinalityType
<1>2. \A i : {j \in S : j <= i} \in SUBSET S
  OBVIOUS
<1>3. ASSUME NEW i \in S
      PROVE  Rank(S, i) \in 1..Cardinality(S)
  <2> DEFINE T == {j \in S : j <= i}
  <2>1. i \in T /\ IsFiniteSet(T) /\ Cardinality(T) \in Nat /\ Cardinality(T) <= Cardinality(S)
    BY <1>1, <1>2
  <2>2. Cardinality(T) # 0
    BY <2>1, FS_EmptySet
  <2>3. Cardinality(S) \in Nat
    BY <1>1
  <2> HIDE DEF T
  <2>4. Cardinality(T) \in 1..Cardinality(S)
    BY <2>1, <2>2, <2>3
  <2> QED
    BY <2>4 DEF Rank, T
<1>4. ASSUME NEW i \in S, NEW j \in S, i < j
      PROVE  Rank(S, i) < Rank(S, j)
  <2> DEFINE T == {k \in S : k <= i}
             U == {k \in S : k <= j}
  <2>1. T \in SUBSET U /\ IsFiniteSet(U)
    <3>1. T \subseteq U
      <4>1. \A k \in S : k \in Nat
        OBVIOUS
      <4>2. \A k \in S : k <= i => k <= j
        BY <1>4, <4>1
      <4> QED
        BY <4>2
    <3> QED
      BY <3>1, <1>1, <1>2
  <2>2. j \in U /\ j \notin T
    BY <1>4
  <2>3. Cardinality(T) <= Cardinality(U) /\ Cardinality(T) # Cardinality(U)
    <3> HIDE DEF T, U
    <3> QED
      BY <2>1, <2>2, FS_Subset
  <2>4. Cardinality(T) \in Nat /\ Cardinality(U) \in Nat
    BY <1>1, <1>2
  <2> HIDE DEF T, U
  <2>5. Cardinality(T) < Cardinality(U)
    BY <2>3, <2>4
  <2> QED
    BY <2>5 DEF Rank, T, U
<1>5. ASSUME NEW i \in S, NEW j \in S, Rank(S, i) = Rank(S, j)
      PROVE  i = j
  <2>1. Rank(S, i) \in Nat /\ Rank(S, j) \in Nat /\ i \in Nat /\ j \in Nat
    BY <1>3
  <2>2. ~(i < j) /\ ~(j < i)
    BY <1>4, <1>5, <2>1
  <2> QED
    BY <2>1, <2>2
<1>6. Cardinality(S) \in Nat
  BY <1>1
<1> QED
  BY <1>3, <1>5, <1>6

LEMMA WritesFinite ==
  ASSUME TypeOK, NEW t \in Tasks
  PROVE  /\ Writes(t) \in SUBSET Nat /\ IsFiniteSet(Writes(t)) /\ Writes(t) \subseteq DOMAIN args[t]
         /\ Cardinality(Writes(t)) \in 0..MaxPort /\ Slots(t) = 0..Cardinality(Writes(t))
         /\ Slots(t) \subseteq Port /\ 0 \in Slots(t)
<1>1. Len(args[t]) \in Nat /\ Len(args[t]) <= MaxPort /\ DOMAIN args[t] = 1..Len(args[t])
  BY DEF TypeOK
<1>2. Writes(t) \in SUBSET (1..Len(args[t]))
  BY <1>1 DEF Writes
<1>3. IsFiniteSet(1..Len(args[t])) /\ Cardinality(1..Len(args[t])) = Len(args[t])
  BY <1>1, FS_Interval
<1>4. IsFiniteSet(Writes(t)) /\ Cardinality(Writes(t)) \in Nat /\ Cardinality(Writes(t)) <= Len(args[t])
  BY <1>2, <1>3, FS_Subset, FS_CardinalityType
<1>5. Cardinality(Writes(t)) \in 0..MaxPort /\ MaxPort \in Nat
  BY <1>1, <1>4, NodesApart
<1>6. Slots(t) = 0..Cardinality(Writes(t))
  BY DEF Slots
<1> QED
  BY <1>1, <1>2, <1>4, <1>5, <1>6 DEF Port

(* The writing arguments have slots of their own, beside that of the result. *)
LEMMA PortsApart ==
  ASSUME TypeOK, NEW t \in Tasks
  PROVE  /\ \A i \in Writes(t) : PortOf(t, i) \in Slots(t) /\ PortOf(t, i) # 0 /\ PortOf(t, i) \in Port
         /\ \A i, j \in Writes(t) : PortOf(t, i) = PortOf(t, j) => i = j
<1>1. Writes(t) \in SUBSET Nat /\ IsFiniteSet(Writes(t)) /\ Slots(t) = 0..Cardinality(Writes(t)) /\ Slots(t) \subseteq Port
  BY WritesFinite
<1>2. /\ Cardinality(Writes(t)) \in Nat
      /\ \A i \in Writes(t) : Rank(Writes(t), i) \in 1..Cardinality(Writes(t))
      /\ \A i, j \in Writes(t) : Rank(Writes(t), i) = Rank(Writes(t), j) => i = j
  BY <1>1, Ranks
<1>3. \A i : PortOf(t, i) = Rank(Writes(t), i)
  BY DEF PortOf, Rank
<1> QED
  BY <1>1, <1>2, <1>3

LEMMA SlotsArePorts ==
  ASSUME TypeOK, NEW n \in Nodes
  PROVE  Slots(n) \subseteq Port /\ 0 \in Slots(n)
  BY WritesFinite, NodesApart DEF Slots

(***************************************************************************)
(* What a frame ahead of a thread says                                     *)
(***************************************************************************)
LEMMA AheadFits ==
  ASSUME TypeOK, Placed, NEW x \in Threads, NEW f \in Ahead(x)
  PROVE  /\ Fits(f) /\ f \in Frame /\ f \in FrameOf(x)
         /\ \E i \in DOMAIN todo[x] : todo[x][i] = f /\ Lies(x, todo[x], i)
<1>1. PICK i \in DOMAIN todo[x] : todo[x][i] = f
  BY DEF Ahead
<1>2. Fits(todo[x][i]) /\ Lies(x, todo[x], i)
  BY DEF Placed
<1>3. todo[x][i] \in FrameOf(x)
  BY Member DEF TypeOK, FramesFit
<1>4. f \in FrameOf(x) /\ f \in Frame /\ Fits(f)
  BY <1>1, <1>2, <1>3, FrameIsFrame
<1> QED
  BY <1>1, <1>2, <1>4

LEMMA AfterAhead ==
  ASSUME TypeOK, NEW x \in Threads, NEW i \in DOMAIN todo[x]
  PROVE  After(todo[x], i) \subseteq Ahead(x)
<1>1. DOMAIN todo[x] = 1..Len(todo[x]) /\ Len(todo[x]) \in Nat
  BY Families
<1> QED
  BY <1>1 DEF After, Ahead

LEMMA TopLies ==
  ASSUME TypeOK, Placed, NEW x \in Threads, todo[x] # <<>>
  PROVE  /\ Cur(x) \in Ahead(x) /\ Fits(Cur(x)) /\ Cur(x) \in FrameOf(x) /\ Cur(x) \in Frame
         /\ 1 \in DOMAIN todo[x] /\ todo[x][1] = Cur(x) /\ Lies(x, todo[x], 1)
<1>1. todo[x] \in Seq(Frame)
  BY Families
<1>2. 1 \in DOMAIN todo[x] /\ todo[x][1] = Cur(x)
  BY <1>1, Behind DEF Cur
<1>3. Cur(x) \in Ahead(x)
  BY <1>2 DEF Ahead
<1>4. Fits(Cur(x)) /\ Cur(x) \in FrameOf(x) /\ Cur(x) \in Frame
  BY <1>3, AheadFits
<1>5. Lies(x, todo[x], 1)
  BY <1>2 DEF Placed
<1> QED
  BY <1>2, <1>3, <1>4, <1>5

(***************************************************************************)
(* Tasks still to be started                                               *)
(***************************************************************************)
LEMMA OwedRange ==
  ASSUME TypeOK, Due, NEW t \in Tasks
  PROVE  owed[t] \in 0..MaxPort /\ Protection(t) \in Int /\ Protection(t) >= 2
<1>1. owed[t] \in 0..Len(args[t]) /\ Len(args[t]) <= MaxPort /\ Len(args[t]) \in Nat
  BY DEF Due, Counted, TypeOK
<1>2. MaxPort \in Nat /\ MaxPort + 1 < StartMask /\ StartMask \in Int
  BY NodesApart, RoomAssumption, Numbers
<1> QED
  BY <1>1, <1>2 DEF Protection

LEMMA HeldForNat ==
  ASSUME NEW d
  PROVE  HeldFor(d) \in Nat /\ IsFiniteSet({s \in HeldSlots : nextWriter[s[1]][s[2]] = d})
<1>1. {s \in HeldSlots : nextWriter[s[1]][s[2]] = d} \in SUBSET (Nodes \X Port)
  BY DEF HeldSlots
<1>2. IsFiniteSet({s \in HeldSlots : nextWriter[s[1]][s[2]] = d})
  BY <1>1, Finite, FS_Subset
<1> QED
  BY <1>2, FS_CardinalityType DEF HeldFor

(* Someone is still to tell a task of a prerequisite, or to take its protection off. *)
LEMMA Expected ==
  ASSUME TypeOK, Bodies, Due, NEW t \in Tasks, NEW x \in Threads, NEW f \in Ahead(x),
         f \in Notices(t) \/ f \in Protecting(t)
  PROVE  /\ startCount[t] >= 1 /\ phase[t] = "pending" /\ todo[t] = <<>> /\ head[t].tag = "open"
         /\ f \in Notices(t) => Count(todo, Notices(t)) >= 1 /\ Coming(t) >= 1
         /\ f \in Protecting(t) => Guards(t) = 1 /\ startCount[t] = Coming(t) + Protection(t)
<1>1. /\ Count(todo, Notices(t)) \in Nat /\ Count(Lists, ArcsTo(t)) \in Nat /\ HeldFor(Writer(t)) \in Nat
      /\ Guards(t) \in Nat
  BY CountNat, HeldForNat DEF Guards
<1>2. /\ f \in Notices(t) => Count(todo, Notices(t)) >= 1
      /\ f \in Protecting(t) => Guards(t) >= 1
  BY TodoNone DEF Guards
<1>3. Guards(t) <= 1 /\ startCount[t] = Coming(t) + (IF Guards(t) = 0 THEN 0 ELSE Protection(t))
  BY DEF Due, Counted
<1>4. Protection(t) \in Int /\ Protection(t) >= 2
  BY OwedRange
<1>5. Coming(t) = Count(Lists, ArcsTo(t)) + Count(todo, Notices(t)) + HeldFor(Writer(t))
  BY DEF Coming
<1>6. /\ f \in Notices(t) => Coming(t) >= 1
      /\ f \in Protecting(t) => Guards(t) = 1 /\ startCount[t] = Coming(t) + Protection(t)
      /\ Coming(t) \in Nat
  BY <1>1, <1>2, <1>3, <1>5
<1>7. startCount[t] >= 1 /\ startCount[t] # 0
  BY <1>1, <1>3, <1>4, <1>6
<1>8. phase[t] = "pending" /\ todo[t] = <<>> /\ head[t].tag = "open"
  BY <1>7 DEF Bodies, Staged, TypeOK
<1> QED
  BY <1>2, <1>6, <1>7, <1>8

(***************************************************************************)
(* Callers, and the slots their arguments are in                             *)
(***************************************************************************)
LEMMA RunAhead == \A x : InRun(x) <=> \E f \in Ahead(x) : f.op = "return"
  BY DEF InRun, Ahead

(* A client that sets up the arguments of a task is in a call that has not bound it. *)
LEMMA SettingUp ==
  ASSUME TypeOK, Placed, Bodies, Due, Callers, NEW x \in Clients, NEW f \in Ahead(x),
         f.op \in Calling \/ f.op = "bind"
  PROVE  LET t == making[x] IN
         /\ BindOf(x) \in Ahead(x) /\ InRun(x) /\ t \in Tasks /\ t \in Nodes /\ x \in Threads
         /\ BindOf(x) \in Protecting(t)
         /\ phase[t] = "pending" /\ todo[t] = <<>> /\ head[t].tag = "open" /\ startCount[t] >= 1
         /\ Guards(t) = 1 /\ startCount[t] = Coming(t) + Protection(t)
<1>1. x \in Threads
  BY NodesApart
<1>2. BindOf(x) \in Ahead(x)
  <2>1. PICK i \in DOMAIN todo[x] : todo[x][i] = f /\ Lies(x, todo[x], i)
    BY <1>1, AheadFits
  <2>2. f.op \in Calling => BindOf(x) \in After(todo[x], i)
    BY <2>1 DEF Lies
  <2>3. f.op = "bind" => f = BindOf(x)
    BY <2>1 DEF Lies
  <2> QED
    BY <1>1, <2>2, <2>3, AfterAhead
<1>3. InRun(x)
  <2>1. PICK i \in DOMAIN todo[x] : todo[x][i] = BindOf(x) /\ Lies(x, todo[x], i)
    BY <1>1, <1>2, AheadFits
  <2>2. BindOf(x).op = "bind"
    BY DEF BindOf, F
  <2>3. ReturnOf(x) \in Ahead(x)
    BY <1>1, <2>1, <2>2, AfterAhead DEF Lies
  <2>4. ReturnOf(x).op = "return"
    BY DEF ReturnOf, F
  <2> QED
    BY <2>3, <2>4, RunAhead
<1>4. making[x] \in Tasks
  BY <1>3 DEF Callers, Called
<1>5. BindOf(x) \in Protecting(making[x])
  <2>1. BindOf(x) \in Frame
    BY <1>1, <1>2, AheadFits
  <2> QED
    BY <2>1 DEF BindOf, F, Protecting
<1> QED
  BY <1>1, <1>2, <1>3, <1>4, <1>5, Expected, NodesApart

(* An argument of a call. *)
LEMMA Argument ==
  ASSUME TypeOK, Callers, NEW x \in Clients, NEW v, Reads(x, v) \/ Modifies(x, v)
  PROVE  /\ InRun(x) /\ making[x] \in Tasks /\ v \in Nodes /\ var[v].live /\ InUse(v)
         /\ Modifies(x, v) => \E i \in Writes(making[x]) : args[making[x]][i].v = v
<1>1. InRun(x)
  BY DEF Reads, Modifies, CallArgs
<1>2. making[x] \in Tasks /\ \A i \in DOMAIN args[making[x]] : var[args[making[x]][i].v].live
  BY <1>1 DEF Callers, Called
<1>3. PICK i \in DOMAIN args[making[x]] : args[making[x]][i] = [v |-> v, w |-> Modifies(x, v)]
                                          \/ args[making[x]][i] = [v |-> v, w |-> FALSE]
                                          \/ args[making[x]][i] = [v |-> v, w |-> TRUE]
  BY <1>1 DEF Reads, Modifies, CallArgs
<1>4. args[making[x]][i] \in [v : Nodes, w : BOOLEAN]
  <2>1. args[making[x]] \in Seq([v : Nodes, w : BOOLEAN])
    BY <1>2 DEF TypeOK
  <2> QED
    BY <2>1, Member
<1>5. v \in Nodes /\ var[v].live
  BY <1>2, <1>3, <1>4
<1>6. Modifies(x, v) => \E j \in DOMAIN args[making[x]] : args[making[x]][j] = [v |-> v, w |-> TRUE]
  BY <1>1 DEF Modifies, CallArgs
<1>7. Modifies(x, v) => \E j \in Writes(making[x]) : args[making[x]][j].v = v
  BY <1>6 DEF Writes
<1> QED
  BY <1>1, <1>2, <1>5, <1>7 DEF InUse

LEMMA ArgumentOf ==
  ASSUME TypeOK, Callers, NEW x \in Clients, InRun(x), NEW i \in DOMAIN args[making[x]]
  PROVE  LET v == args[making[x]][i].v IN
         /\ v \in Nodes /\ var[v].live /\ InUse(v) /\ making[x] \in Tasks
         /\ args[making[x]][i].w <=> i \in Writes(making[x])
         /\ args[making[x]][i].w => Modifies(x, v)
         /\ ~args[making[x]][i].w => Reads(x, v)
<1>1. making[x] \in Tasks /\ \A j \in DOMAIN args[making[x]] : var[args[making[x]][j].v].live
  BY DEF Callers, Called
<1>2. args[making[x]][i] \in [v : Nodes, w : BOOLEAN]
  <2>1. args[making[x]] \in Seq([v : Nodes, w : BOOLEAN])
    BY <1>1 DEF TypeOK
  <2> QED
    BY <2>1, Member
<1>3. args[making[x]][i] \in CallArgs(x)
  BY DEF CallArgs
<1>4. args[making[x]][i] = [v |-> args[making[x]][i].v, w |-> args[making[x]][i].w]
  BY <1>2
<1>5. /\ args[making[x]][i].w => [v |-> args[making[x]][i].v, w |-> TRUE] \in CallArgs(x)
      /\ ~args[making[x]][i].w => [v |-> args[making[x]][i].v, w |-> FALSE] \in CallArgs(x)
  BY <1>2, <1>3, <1>4
<1> QED
  BY <1>1, <1>2, <1>5 DEF InUse, Writes, Reads, Modifies

LEMMA RedirectIs ==
  ASSUME NEW n, NEW p
  PROVE  /\ Redirect(n, p).tag = "redirect" /\ Redirect(n, p).arcs[1].node = n
         /\ Redirect(n, p).arcs[1].port = p
         /\ \A m, q : Redirect(n, p) = Redirect(m, q) => n = m /\ p = q
<1>1. \A m, q : /\ Redirect(m, q).tag = "redirect" /\ Redirect(m, q).arcs[1].node = m
                /\ Redirect(m, q).arcs[1].port = q
  BY DEF Redirect, FlowBack
<1> QED
  BY <1>1

(* What a list is redirected to. *)
LEMMA Redirects ==
  ASSUME TypeOK, Bodies, Stores, NEW n \in Nodes, head[n].tag = "redirect"
  PROVE  /\ n \in Deferred /\ n \in Storage /\ Finished(n)
         /\ \E t \in Tasks : \E i \in Writes(t) : args[t][i].v = n /\ head[n] = Redirect(t, PortOf(t, i))
<1>1. n \in Storage
  BY DEF Bodies, Staged, Nodes
<1>2. Stored(n)
  BY <1>1 DEF Stores
<1>3. Finished(n)
  BY <1>2 DEF Stored, Open
<1>4. n \in Deferred
  BY <1>2, <1>3 DEF Stored, Done
<1>5. Redirected(n)
  BY <1>2, <1>4 DEF Stored
<1> QED
  BY <1>1, <1>3, <1>4, <1>5 DEF Redirected

(* The slot of a variable in use is one of a node that is there. *)
LEMMA SlotIs ==
  ASSUME TypeOK, Bodies, Homes, NEW v \in Nodes, InUse(v)
  PROVE  LET n == var[v].cur
             p == var[v].port IN
         /\ n \in Nodes /\ p \in Port /\ p \in Slots(n) /\ node[n] # "unborn" /\ Vacant(n, p)
         /\ p = 0 => n = v
         /\ n = v \/ (n \in Tasks /\ \E i \in Writes(n) : args[n][i].v = v /\ p = PortOf(n, i))
<1>1. var[v] \in OoxVar /\ Settled(v)
  BY DEF TypeOK, Homes
<1>2. var[v].cur \in Nodes /\ var[v].port \in Port
  BY <1>1 DEF OoxVar
<1>3. CASE SlotOf(v) = <<v, 0>>
  <2>1. var[v].cur = v /\ var[v].port = 0
    BY <1>3 DEF SlotOf
  <2> QED
    BY <1>1, <1>2, <2>1, SlotsArePorts DEF Settled
<1>4. ASSUME NEW i \in Writes(var[v].cur), var[v].cur \in Tasks, args[var[v].cur][i].v = v,
             var[v].port = PortOf(var[v].cur, i)
      PROVE  /\ var[v].port \in Slots(var[v].cur) /\ node[var[v].cur] # "unborn" /\ var[v].port # 0
  <2>1. args[var[v].cur] # <<>>
    BY <1>4 DEF Writes
  <2>2. phase[var[v].cur] # "idle" /\ node[var[v].cur] # "unborn"
    BY <1>4, <2>1 DEF Bodies, Staged
  <2> QED
    BY <1>4, <2>2, PortsApart
<1>5. CASE SlotOf(v) # <<v, 0>>
  <2>1. PICK i \in Writes(var[v].cur) : /\ var[v].cur \in Tasks /\ args[var[v].cur][i].v = v
                                        /\ var[v].port = PortOf(var[v].cur, i)
    BY <1>1, <1>5 DEF Settled
  <2> QED
    BY <1>1, <1>2, <1>4, <2>1 DEF Settled
<1> QED
  BY <1>3, <1>5

(* Two variables are never in one slot. *)
LEMMA SlotsApart ==
  ASSUME TypeOK, Bodies, Homes, NEW u \in Nodes, NEW v \in Nodes, InUse(u), InUse(v),
         var[u].cur = var[v].cur, var[u].port = var[v].port
  PROVE  u = v
<1> DEFINE n == var[v].cur
           p == var[v].port
<1>1. /\ p = 0 => n = v
      /\ n = v \/ (n \in Tasks /\ \E i \in Writes(n) : args[n][i].v = v /\ p = PortOf(n, i))
  BY SlotIs
<1>2. /\ p = 0 => n = u
      /\ n = u \/ (n \in Tasks /\ \E i \in Writes(n) : args[n][i].v = u /\ p = PortOf(n, i))
  BY SlotIs
<1>3. SlotOf(v) = <<v, 0>> \/ p # 0
  BY <1>1 DEF SlotOf
<1>4. /\ SlotOf(v) = <<v, 0>> => p = 0
      /\ SlotOf(u) = <<u, 0>> => p = 0
  BY DEF SlotOf
<1>5. Settled(u) /\ Settled(v)
  BY DEF Homes
<1>6. CASE p = 0
  BY <1>1, <1>2, <1>6
<1>7. CASE p # 0
  <2>1. PICK i \in Writes(n) : n \in Tasks /\ args[n][i].v = v /\ p = PortOf(n, i)
    BY <1>4, <1>5, <1>7 DEF Settled
  <2>2. PICK j \in Writes(n) : args[n][j].v = u /\ p = PortOf(n, j)
    BY <1>4, <1>5, <1>7 DEF Settled
  <2>3. i = j
    BY <2>1, <2>2, PortsApart
  <2> QED
    BY <2>1, <2>2, <2>3
<1> QED
  BY <1>6, <1>7

(* Where a reading argument finds its slot. *)
LEMMA FindsSlot ==
  ASSUME TypeOK, Bodies, Stores, Homes, Callers, NEW x \in Clients, NEW n, NEW p, Finds(x, n, p)
  PROVE  /\ n \in Nodes /\ p \in Slots(n) /\ p \in Port
         /\ \E v \in Nodes : Reads(x, v) /\ Leads(v, n, p)
<1>1. PICK v \in Nodes : Reads(x, v) /\ Leads(v, n, p)
  BY DEF Finds
<1>2. InUse(v)
  BY <1>1, Argument
<1>3. CASE SlotOf(v) = <<n, p>>
  <2>1. var[v].cur = n /\ var[v].port = p
    BY <1>3 DEF SlotOf
  <2> QED
    BY <1>1, <1>2, <2>1, SlotIs
<1>4. CASE head[v] = Redirect(n, p)
  <2>1. head[v].tag = "redirect"
    BY <1>4, RedirectIs
  <2>2. PICK t \in Tasks : \E i \in Writes(t) : args[t][i].v = v /\ head[v] = Redirect(t, PortOf(t, i))
    BY <2>1, Redirects
  <2>3. PICK i \in Writes(t) : args[t][i].v = v /\ head[v] = Redirect(t, PortOf(t, i))
    BY <2>2
  <2>4. PICK q : q = PortOf(t, i)
    OBVIOUS
  <2>5. Redirect(n, p) = Redirect(t, q)
    BY <1>4, <2>3, <2>4
  <2>6. n = t /\ p = PortOf(t, i)
    BY <2>4, <2>5, RedirectIs
  <2> QED
    BY <1>1, <2>6, PortsApart, NodesApart
<1> QED
  BY <1>1, <1>3, <1>4 DEF Leads

LEMMA DoneFinished ==
  ASSUME TypeOK, Bodies, Stores, NEW n \in Nodes, head[n].tag = "done"
  PROVE  Finished(n) /\ node[n] # "unborn"
<1>1. CASE n \in Tasks
  BY <1>1 DEF Bodies, Staged, Finished
<1>2. CASE n \notin Tasks
  <2>1. Stored(n)
    BY <1>2 DEF Stores, Nodes
  <2> QED
    BY <2>1 DEF Stored, Open
<1> QED
  BY <1>1, <1>2

LEMMA FinishedBorn ==
  ASSUME TypeOK, Bodies, Stores, NEW n \in Nodes, Finished(n)
  PROVE  node[n] # "unborn"
  BY DEF Bodies, Staged, Stores, Stored, Finished, Nodes

(* A variable that a client is about to give its first writer. *)
LEMMA OpeningIs ==
  ASSUME TypeOK, Placed, Bodies, Due, Callers, NEW v \in Nodes, Opening(v)
  PROVE  \E x \in Clients : \E i \in Writes(making[x]) :
           /\ making[x] \in Tasks /\ ToWrite(x, i) /\ args[making[x]][i].v = v
           /\ InRun(x) /\ Modifies(x, v) /\ phase[making[x]] = "pending" /\ head[making[x]].tag = "open"
           /\ Writing(x, i)
<1>1. PICK x \in Clients : making[x] \in Tasks /\ \E i \in DOMAIN args[making[x]] :
                             ToWrite(x, i) /\ args[making[x]][i].v = v
  BY DEF Opening
<1>2. PICK i \in DOMAIN args[making[x]] : ToWrite(x, i) /\ args[making[x]][i].v = v
  BY <1>1
<1>3. F("arg", making[x], i, 0) \in Ahead(x) /\ i \in Writes(making[x])
  BY <1>2 DEF ToWrite
<1>4. F("arg", making[x], i, 0).op \in Calling
  BY DEF F, Calling, Asking
<1>5. InRun(x) /\ phase[making[x]] = "pending" /\ head[making[x]].tag = "open"
  BY <1>3, <1>4, SettingUp
<1>6. Modifies(x, v)
  BY <1>2, <1>3, <1>5, ArgumentOf
<1>7. Writing(x, i)
  BY <1>2, <1>3, <1>5 DEF Callers, Called
<1> QED
  BY <1>1, <1>2, <1>3, <1>5, <1>6, <1>7

(* A late consumer finds a slot that has no next writer yet. *)
LEMMA LateSlot ==
  ASSUME TypeOK, Placed, Bodies, Due, Stores, Homes, Firsts, Callers,
         NEW x \in Clients, NEW f \in Ahead(x), f.op = "late"
  PROVE  LET n == f.node
             p == f.port IN
         /\ n \in Nodes /\ p \in Slots(n) /\ p \in Port /\ Vacant(n, p) /\ Finished(n)
         /\ head[n].tag = "done"
<1> DEFINE n == f.node
           p == f.port
<1>1. Fits(f) /\ Finds(x, n, p)
  BY AheadFits, NodesApart DEF Callers, Called
<1>2. head[n].tag = "done"
  BY <1>1 DEF Fits
<1>3. PICK v \in Nodes : Reads(x, v) /\ Leads(v, n, p)
  BY <1>1 DEF Finds
<1>4. InUse(v) /\ var[v].live
  BY <1>3, Argument
<1>5. n \in Nodes /\ p \in Slots(n) /\ p \in Port
  BY <1>1, FindsSlot
<1>6. SlotOf(v) = <<n, p>>
  <2>1. SUFFICES ASSUME SlotOf(v) = <<v, 0>>, head[v] = Redirect(n, p)
                 PROVE  FALSE
    BY <1>3 DEF Leads
  <2>2. head[v].tag = "redirect" /\ head[v].arcs[1].node = n
    BY <2>1, RedirectIs
  <2>3. Opening(v)
    BY <1>4, <2>1, <2>2 DEF Firsts, Put
  <2>4. PICK y \in Clients : \E i \in Writes(making[y]) :
           /\ args[making[y]][i].v = v /\ head[making[y]].tag = "open" /\ Writing(y, i)
    BY <2>3, OpeningIs
  <2>5. PICK i \in Writes(making[y]) :
           /\ args[making[y]][i].v = v /\ head[making[y]].tag = "open" /\ Writing(y, i)
    BY <2>4
  <2>6. n = making[y]
    BY <2>1, <2>2, <2>5 DEF Writing
  <2> QED
    BY <1>2, <2>5, <2>6
<1>7. var[v].cur = n /\ var[v].port = p
  BY <1>6 DEF SlotOf
<1>8. Vacant(n, p)
  BY <1>4, <1>7 DEF Homes, Settled
<1> QED
  BY <1>2, <1>5, <1>8, DoneFinished

(***************************************************************************)
(* Those who hold a slot                                                   *)
(***************************************************************************)
LEMMA HeldNat ==
  ASSUME TypeOK, NEW n \in Nodes, NEW p
  PROVE  /\ Held(n, p) \in Nat
         /\ nextWriter[n][p] = Ready => Held(n, p) >= 1
<1>1. Count(Lists, {BackOnly(n, p)}) \in Nat /\ Count(todo, Holders(n, p)) \in Nat
  BY CountNat
<1> QED
  BY <1>1 DEF Held

(* The share of a producer is never all of nothing. *)
LEMMA ShareSome ==
  ASSUME TypeOK, Placed, Tallies, NEW n \in Nodes, NEW p \in Slots(n), Finished(n),
         NEW x \in Threads, NEW f \in Ahead(x) \cap Shares(n, p)
  PROVE  /\ Share(f) \in Int /\ Share(f) >= 1
         /\ f.op = "out" => Share(f) >= 3 /\ x = n /\ n \in Tasks
<1>1. f \in Frame /\ Fits(f) /\ (f.op = "out" => f.node = x /\ x \in Tasks)
  BY AheadFits DEF Lies, BodyOps
<1>2. f.node = n /\ f.port = p /\ (f.op = "out" \/ f.op = "dec")
  BY DEF Shares
<1>3. CASE f.op = "out"
  <2>1. f \in Outs(n, p) /\ n \in Tasks /\ x = n
    BY <1>1, <1>2, <1>3 DEF Outs
  <2>2. Count(todo, Outs(n, p)) >= 1 /\ Count(todo, Outs(n, p)) \in Nat
    BY <2>1, TodoNone, CountNat
  <2>3. count[n][p] >= Number(todo[n], Turning(n, p)) + 3
    BY <2>1, <2>2 DEF Tallies, Tallied
  <2>4. Number(todo[n], Turning(n, p)) \in Nat
    BY <2>1, Families, NumberType, NodesApart
  <2>5. count[n][p] \in Int
    BY <2>1, SlotsArePorts DEF TypeOK
  <2> QED
    BY <1>2, <1>3, <2>1, <2>3, <2>4, <2>5 DEF Share
<1>4. CASE f.op = "dec"
  BY <1>1, <1>4 DEF Share, Fits, Frame
<1> QED
  BY <1>2, <1>3, <1>4

(* A slot that waits for its next writer is held. *)
LEMMA VacantCount ==
  ASSUME TypeOK, Placed, Tallies, NEW n \in Nodes, NEW p \in Slots(n), Vacant(n, p)
  PROVE  countdown[n][p] \in Int /\ countdown[n][p] >= 1
<1>1. Tallied(n, p) /\ p \in Port
  BY SlotsArePorts DEF Tallies
<1>2. countdown[n][p] \in Int
  BY <1>1 DEF TypeOK
<1>3. CASE ~Finished(n)
  BY <1>1, <1>2, <1>3 DEF Tallied
<1>4. CASE Finished(n)
  <2>1. Exact(n, p) /\ Held(n, p) \in Nat /\ (nextWriter[n][p] = Ready => Held(n, p) >= 1)
    BY <1>1, <1>4, HeldNat DEF Tallied
  <2>2. ASSUME NEW x \in Threads, NEW f \in Ahead(x) \cap Shares(n, p)
        PROVE  countdown[n][p] >= 1
    <3>1. countdown[n][p] = Held(n, p) + Share(f)
      BY <2>1 DEF Exact
    <3>2. Share(f) \in Int /\ Share(f) >= 1
      BY <1>4, ShareSome
    <3> QED
      BY <2>1, <3>1, <3>2
  <2>3. CASE nextWriter[n][p] = Ready
    <3>1. Count(todo, Shares(n, p)) = 0 => countdown[n][p] = Held(n, p)
      BY <2>1 DEF Exact
    <3> QED
      BY <1>2, <2>1, <2>2, <2>3, <3>1, TodoNone
  <2>4. CASE nextWriter[n][p] = Null
    <3>1. Count(todo, Outs(n, p)) # 0
      BY <1>1, <1>4, <2>4 DEF Tallied
    <3>2. PICK x \in Threads : Ahead(x) \cap Outs(n, p) # {}
      BY <3>1, TodoNone
    <3>3. PICK f \in Ahead(x) : f \in Outs(n, p)
      BY <3>2
    <3>4. f \in Shares(n, p)
      BY <3>3 DEF Outs, Shares
    <3> QED
      BY <1>2, <2>2, <3>3, <3>4
  <2> QED
    BY <2>3, <2>4 DEF Vacant, Openable
<1> QED
  BY <1>3, <1>4

(***************************************************************************)
(* How far a worker is                                                     *)
(***************************************************************************)
(* r is s behind a, b and c. *)
Peeled(r, S, a, b, c, s) ==
  /\ r \in Seq(S) /\ r # <<>> /\ Head(r) = a
  /\ Tail(r) \in Seq(S) /\ Tail(r) # <<>> /\ Head(Tail(r)) = b
  /\ Tail(Tail(r)) \in Seq(S) /\ Tail(Tail(r)) # <<>> /\ Head(Tail(Tail(r))) = c
  /\ Tail(r) = <<b, c>> \o s /\ Tail(Tail(r)) = <<c>> \o s /\ Tail(Tail(Tail(r))) = s

LEMMA Peel ==
  ASSUME NEW S, NEW a \in S, NEW b \in S, NEW c \in S, NEW s \in Seq(S)
  PROVE  Peeled(<<a, b, c>> \o s, S, a, b, c, s)
<1> DEFINE r == <<a, b, c>> \o s
<1>1. r \in Seq(S) /\ Len(r) = 3 + Len(s) /\ Len(s) \in Nat
  OBVIOUS
<1>2. r # <<>> /\ Head(r) = a
  BY <1>1
<1>3. Tail(r) = <<b, c>> \o s
  <2>1. Tail(r) \in Seq(S) /\ <<b, c>> \o s \in Seq(S) /\ Len(Tail(r)) = Len(<<b, c>> \o s)
    BY <1>1
  <2>2. \A i \in 1..Len(Tail(r)) : Tail(r)[i] = (<<b, c>> \o s)[i]
    BY <1>1
  <2> QED
    BY <2>1, <2>2
<1>4. Tail(<<b, c>> \o s) = <<c>> \o s
  <2>1. Tail(<<b, c>> \o s) \in Seq(S) /\ <<c>> \o s \in Seq(S) /\ Len(Tail(<<b, c>> \o s)) = Len(<<c>> \o s)
    BY <1>1
  <2>2. \A i \in 1..Len(<<c>> \o s) : Tail(<<b, c>> \o s)[i] = (<<c>> \o s)[i]
    BY <1>1
  <2> QED
    BY <2>1, <2>2
<1>5. Tail(<<c>> \o s) = s
  <2>1. Tail(<<c>> \o s) \in Seq(S) /\ Len(Tail(<<c>> \o s)) = Len(s)
    BY <1>1
  <2>2. \A i \in 1..Len(s) : Tail(<<c>> \o s)[i] = s[i]
    BY <1>1
  <2> QED
    BY <2>1, <2>2
<1>6. /\ <<b, c>> \o s # <<>> /\ Head(<<b, c>> \o s) = b /\ <<b, c>> \o s \in Seq(S)
      /\ <<c>> \o s # <<>> /\ Head(<<c>> \o s) = c /\ <<c>> \o s \in Seq(S)
  BY <1>1
<1> HIDE DEF r
<1>7. Peeled(r, S, a, b, c, s)
  BY <1>1, <1>2, <1>3, <1>4, <1>5, <1>6 DEF Peeled
<1> QED
  BY <1>7 DEF r

(* What comes behind the frames that a body starts with. *)
Rest3(t) == OutFrames(t) \o <<F("wakeup", t, 0, 0), F("relall", t, 0, 0), F("rel", t, 0, 1)>>

LEMMA BodyIs ==
  ASSUME TypeOK, NEW t \in Tasks
  PROVE  LET r == BodyFrames(t) IN
         /\ r = <<F("start", t, 0, 0), F("finish", t, 0, 0), F("exchange", t, 0, 0)>> \o Rest3(t)
         /\ Rest3(t) \in Seq(Frame) /\ r \in Seq(Frame)
         /\ r # <<>> /\ Head(r) = F("start", t, 0, 0)
         /\ Tail(r) # <<>> /\ Head(Tail(r)) = F("finish", t, 0, 0)
         /\ Tail(Tail(r)) # <<>> /\ Head(Tail(Tail(r))) = F("exchange", t, 0, 0)
         /\ Tail(Tail(Tail(r))) = Rest3(t) /\ Tail(Tail(r)) = <<F("exchange", t, 0, 0)>> \o Rest3(t)
<1> DEFINE a == F("start", t, 0, 0)
           b == F("finish", t, 0, 0)
           c == F("exchange", t, 0, 0)
<1>1. /\ a \in Frame /\ b \in Frame /\ c \in Frame
      /\ F("wakeup", t, 0, 0) \in Frame /\ F("relall", t, 0, 0) \in Frame /\ F("rel", t, 0, 1) \in Frame
  BY NodesApart DEF F, Frame, BodyOps, CountOps
<1>2. Cardinality(Slots(t)) \in Nat /\ \A i \in 1..Cardinality(Slots(t)) : i - 1 \in Port
  BY SlotCount, NodesApart DEF Port
<1>3. \A i \in 1..Cardinality(Slots(t)) : F("out", t, i - 1, 0) \in Frame
  BY <1>2, NodesApart DEF F, Frame, BodyOps
<1>4. OutFrames(t) \in Seq(Frame)
  BY <1>2, <1>3 DEF OutFrames
<1>5. Rest3(t) \in Seq(Frame)
  <2> DEFINE w == F("wakeup", t, 0, 0)
             y == F("relall", t, 0, 0)
             z == F("rel", t, 0, 1)
  <2>1. w \in Frame /\ y \in Frame /\ z \in Frame
    BY <1>1
  <2> HIDE DEF w, y, z
  <2>2. <<w, y, z>> \in Seq(Frame)
    BY <2>1
  <2>3. OutFrames(t) \o <<w, y, z>> \in Seq(Frame)
    BY <1>4, <2>2
  <2> QED
    BY <2>3 DEF Rest3, w, y, z
<1>6. BodyFrames(t) = <<a, b, c>> \o Rest3(t)
  <2> DEFINE w == <<F("wakeup", t, 0, 0), F("relall", t, 0, 0), F("rel", t, 0, 1)>>
             o == OutFrames(t)
  <2>1. o \in Seq(Frame) /\ w \in Seq(Frame) /\ <<a, b, c>> \in Seq(Frame)
    BY <1>1, <1>4
  <2>2. BodyFrames(t) = <<a, b, c>> \o o \o w /\ Rest3(t) = o \o w
    BY DEF BodyFrames, Rest3
  <2>3. \A r1, r2, r3 \in Seq(Frame) : r1 \o r2 \o r3 = r1 \o (r2 \o r3)
    OBVIOUS
  <2> HIDE DEF w, o
  <2> QED
    BY SMTT(30), <2>1, <2>2, <2>3
<1> HIDE DEF a, b, c
<1>8. PICK s : s = Rest3(t)
  OBVIOUS
<1> DEFINE r == <<a, b, c>> \o s
<1>9. /\ r \in Seq(Frame) /\ r # <<>> /\ Head(r) = a
      /\ Tail(r) # <<>> /\ Head(Tail(r)) = b
      /\ Tail(Tail(r)) # <<>> /\ Head(Tail(Tail(r))) = c
      /\ Tail(Tail(r)) = <<c>> \o s /\ Tail(Tail(Tail(r))) = s
  <2>1. a \in Frame /\ b \in Frame /\ c \in Frame /\ s \in Seq(Frame)
    BY <1>1, <1>5, <1>8 DEF a, b, c
  <2>2. Peeled(r, Frame, a, b, c, s)
    BY <2>1, Peel
  <2> HIDE DEF r
  <2> QED
    BY <2>2 DEF Peeled
<1>10. r = BodyFrames(t)
  BY <1>6, <1>8
<1> HIDE DEF r
<1> QED
  BY <1>5, <1>6, <1>8, <1>9, <1>10 DEF a, b, c

(* From the frame a task's own thread is in to how far the task is. *)
LEMMA WorkerStage ==
  ASSUME TypeOK, Placed, Bodies, NEW t \in Tasks, todo[t] # <<>>
  PROVE  /\ At(t, "start") => phase[t] = "pending" /\ todo[t] = BodyFrames(t) /\ startCount[t] = 0
         /\ At(t, "finish") => phase[t] = "running" /\ todo[t] = Tail(BodyFrames(t))
         /\ At(t, "exchange") => /\ phase[t] = "done" /\ head[t].tag = "open"
                                 /\ todo[t] = Tail(Tail(BodyFrames(t)))
         /\ Cur(t).op \notin {"start", "finish", "exchange"} =>
              phase[t] = "done" /\ head[t].tag = "done"
         /\ Cur(t).op \in {"start", "finish", "exchange"} => Cur(t) = F(Cur(t).op, t, 0, 0)
         /\ phase[t] # "idle"
<1>1. Staged(t) /\ head[t].tag \in {"open", "done"} /\ phase[t] \in {"idle", "pending", "running", "done"}
  BY DEF Bodies, Staged, TypeOK
<1>2. \A op, k : F(op, t, 0, k).op = op
  BY DEF F
<1>3. /\ Head(BodyFrames(t)) = F("start", t, 0, 0) /\ Head(Tail(BodyFrames(t))) = F("finish", t, 0, 0)
      /\ Head(Tail(Tail(BodyFrames(t)))) = F("exchange", t, 0, 0)
  BY BodyIs
<1>4. Cur(t) \in Ahead(t) /\ Cur(t) = Head(todo[t]) /\ \A op : At(t, op) <=> Cur(t).op = op
  BY TopLies, NodesApart DEF Cur, At
<1>5. phase[t] = "pending" => todo[t] = BodyFrames(t) /\ startCount[t] = 0 /\ Cur(t) = F("start", t, 0, 0)
  BY <1>1, <1>3, <1>4 DEF Staged
<1>6. phase[t] = "running" => todo[t] = Tail(BodyFrames(t)) /\ Cur(t) = F("finish", t, 0, 0)
  BY <1>1, <1>3, <1>4 DEF Staged
<1>7. phase[t] = "done" /\ head[t].tag = "open" =>
        todo[t] = Tail(Tail(BodyFrames(t))) /\ Cur(t) = F("exchange", t, 0, 0)
  BY <1>1, <1>3, <1>4 DEF Staged
<1>8. phase[t] = "done" /\ head[t].tag # "open" => Cur(t).op \notin {"start", "finish", "exchange"}
  BY <1>1, <1>4 DEF Staged
<1>9. phase[t] # "idle"
  BY <1>1 DEF Staged
<1> QED
  BY <1>1, <1>2, <1>4, <1>5, <1>6, <1>7, <1>8, <1>9

(***************************************************************************)
(* Steps: what a thread has ahead of it still fits                         *)
(***************************************************************************)
(* Nothing that was finished, done or born ceases to be. *)
Steady ==
  /\ \A n \in Nodes : Slots(n) \subseteq Slots(n)' /\ (Finished(n) => Finished(n)' /\ Slots(n)' = Slots(n))
  /\ \A n \in Nodes : head[n].tag = "done" => head'[n].tag = "done"
  /\ \A n \in Nodes : node[n] # "unborn" => node'[n] # "unborn"

(* Only a task that is being set up comes to owe more. *)
Owing == \A t \in Tasks : \/ owed'[t] = owed[t]
                          \/ \E x \in Clients : making[x] = t /\ \E g \in Ahead(x) : g.op \in Calling

LEMMA FitsKept ==
  ASSUME Core, Steady, Owing, NEW y \in Threads, NEW f \in Ahead(y)
  PROVE  Fits(f)'
<1>1. Fits(f) /\ f \in Frame /\ f.node \in Nodes
  BY AheadFits DEF Core, Frame
<1>2. f.op = "pre" /\ f.k # 1 => owed'[f.node] = owed[f.node]
  <2>1. SUFFICES ASSUME f.op = "pre", f.k # 1, owed'[f.node] # owed[f.node]
                 PROVE  FALSE
    OBVIOUS
  <2>2. f.node \in Tasks
    BY <1>1, <2>1 DEF Fits
  <2>3. PICK x \in Clients : making[x] = f.node /\ \E g \in Ahead(x) : g.op \in Calling
    BY <2>1, <2>2 DEF Owing
  <2>4. PICK g \in Ahead(x) : g.op \in Calling
    BY <2>3
  <2>5. BindOf(x) \in Ahead(x) /\ BindOf(x) \in Protecting(f.node) /\ Guards(f.node) = 1 /\ x \in Threads
    BY <2>3, <2>4, SettingUp DEF Core
  <2>6. f \in Protecting(f.node)
    BY <1>1, <2>1 DEF Protecting
  <2>7. f = BindOf(x)
    BY <2>5, <2>6, TodoOne DEF Core, Guards
  <2> QED
    BY <2>1, <2>7 DEF BindOf, F
<1>3. f.op = "pre" => f.k = 1 \/ f.k = Protection(f.node)'
  BY <1>1, <1>2 DEF Fits, Protection
<1>4. f.op \in {"dec", "hold"} => Finished(f.node)' /\ f.port \in Slots(f.node)'
  BY <1>1 DEF Fits, Steady
<1>5. f.op = "late" => head'[f.node].tag = "done"
  BY <1>1 DEF Fits, Steady
<1>6. f.op \in {"rel", "sub", "relall"} => node'[f.node] # "unborn"
  BY <1>1 DEF Fits, Steady
<1> QED
  BY <1>1, <1>3, <1>4, <1>5, <1>6 DEF Fits

(* Frames fs that x may have on top of those of B. *)
Sits(x, fs, B) ==
  \A i \in DOMAIN fs :
    /\ fs[i].op \notin {"arg", "bind", "return"}
    /\ fs[i].op \in Calling => BindOf(x) \in B
    /\ fs[i].op = "move" => fs[i].port \in Slots(making[x])
    /\ fs[i].op \in BodyOps \ {"flow"} => fs[i].node = x
    /\ fs[i].op \in BodyOps => x \in Tasks
    /\ fs[i].op = "out" => fs[i].port \in Slots(x)
    /\ fs[i].op = "flow" => fs[i].port \in Slots(x) /\ F("out", x, fs[i].port, 0) \in B

(* r is fs and then frames of s, B among those behind fs. *)
Carries(r, fs, B, s) ==
  \A i \in DOMAIN r :
    \/ i \in DOMAIN fs /\ r[i] = fs[i] /\ B \subseteq After(r, i)
    \/ \E j \in DOMAIN s : r[i] = s[j] /\ After(r, i) = After(s, j) /\ (j = Len(s) => i = Len(r))

LEMMA LiesHere ==
  ASSUME Core, NEW x \in Threads, NEW r, NEW fs, NEW B, Carries(r, fs, B, todo[x]), Sits(x, fs, B)
  PROVE  \A i \in DOMAIN r : Lies(x, r, i)
<1>1. SUFFICES ASSUME NEW i \in DOMAIN r
               PROVE  Lies(x, r, i)
  OBVIOUS
<1>2. CASE i \in DOMAIN fs /\ r[i] = fs[i] /\ B \subseteq After(r, i)
  BY <1>2 DEF Sits, Lies
<1>3. ASSUME NEW j \in DOMAIN todo[x], r[i] = todo[x][j], After(r, i) = After(todo[x], j),
             j = Len(todo[x]) => i = Len(r)
      PROVE  Lies(x, r, i)
  <2>1. Lies(x, todo[x], j)
    BY DEF Core, Placed
  <2> QED
    BY <1>3, <2>1 DEF Lies
<1> QED
  BY <1>2, <1>3 DEF Carries

LEMMA LiesKept ==
  ASSUME args' = args, making' = making, NEW x, NEW r, NEW i
  PROVE  Lies(x, r, i) => Lies(x, r, i)'
<1>1. /\ BindOf(x)' = BindOf(x) /\ ReturnOf(x)' = ReturnOf(x)
      /\ Slots(x)' = Slots(x) /\ Slots(making[x])' = Slots(making[x])
  BY DEF BindOf, ReturnOf, Slots, Writes
<1> QED
  BY <1>1 DEF Lies

LEMMA PlacedStep ==
  ASSUME Core, Steady, Owing, args' = args, making' = making, NEW x \in Threads,
         NEW r, Replaced(todo', todo, x, r), NEW fs, NEW B,
         Carries(r, fs, B, todo[x]), Sits(x, fs, B), \A i \in DOMAIN fs : Fits(fs[i])'
  PROVE  Placed'
<1>1. /\ todo'[x] = r
      /\ \A y \in Threads : y # x => todo'[y] = todo[y]
  BY DEF Replaced, Core, TypeOK, FramesFit
<1>2. ASSUME NEW i \in DOMAIN r
      PROVE  Fits(r[i])'
  <2>1. CASE i \in DOMAIN fs /\ r[i] = fs[i]
    <3>1. Fits(fs[i])'
      BY <2>1
    <3>2. PICK f : f = fs[i]
      OBVIOUS
    <3>3. PICK g : g = r[i]
      OBVIOUS
    <3>4. Fits(f)'
      BY <3>1, <3>2 DEF Fits, Finished, Slots, Writes, Protection
    <3>5. Fits(g)'
      BY <2>1, <3>2, <3>3, <3>4
    <3> QED
      BY <3>3, <3>5
  <2>2. ASSUME NEW j \in DOMAIN todo[x], r[i] = todo[x][j]
        PROVE  Fits(r[i])'
    <3>1. PICK f : f = r[i]
      OBVIOUS
    <3>2. f \in Ahead(x)
      BY <2>2, <3>1 DEF Ahead
    <3>3. Fits(f)'
      BY <3>2, FitsKept
    <3> QED
      BY <3>1, <3>3
  <2> QED
    BY <2>1, <2>2 DEF Carries
<1>3. ASSUME NEW i \in DOMAIN r
      PROVE  Lies(x, r, i)'
  BY LiesHere, LiesKept
<1>4. ASSUME NEW i \in DOMAIN todo'[x]
      PROVE  Fits(todo[x][i])' /\ Lies(x, todo[x], i)'
  <2>1. todo'[x] = r /\ i \in DOMAIN r
    BY <1>1, <1>4
  <2>2. PICK f : f = r[i]
    OBVIOUS
  <2>3. Fits(f)'
    BY <1>2, <2>1, <2>2
  <2>4. Fits(todo[x][i])'
    BY <2>1, <2>2, <2>3 DEF Fits, Finished, Slots, Writes, Protection
  <2>5. Lies(x, r, i)'
    BY <1>3, <2>1
  <2>6. Lies(x, todo[x], i)'
    BY Zenon, <2>1, <2>5 DEF Lies, Slots, Writes, BindOf, ReturnOf
  <2> QED
    BY <2>4, <2>6
<1>5. ASSUME NEW y \in Threads, y # x, NEW i \in DOMAIN todo'[y]
      PROVE  Fits(todo[y][i])' /\ Lies(y, todo[y], i)'
  <2>1. todo'[y] = todo[y] /\ i \in DOMAIN todo[y] /\ todo[y][i] \in Ahead(y)
    BY <1>1, <1>5 DEF Ahead
  <2>2. PICK f : f = todo[y][i]
    OBVIOUS
  <2>3. PICK s : s = todo[y]
    OBVIOUS
  <2>4. Lies(y, s, i)
    BY <2>1, <2>3 DEF Core, Placed
  <2>5. Fits(f)' /\ Lies(y, s, i)'
    BY <2>1, <2>2, <2>4, FitsKept, LiesKept
  <2> QED
    BY <2>1, <2>2, <2>3, <2>5 DEF Fits, Finished, Slots, Writes, Protection, Lies, BindOf, ReturnOf
<1> QED
  BY <1>4, <1>5 DEF Placed

LEMMA SteadyIf ==
  ASSUME args' = args, \A t \in Tasks : phase[t] = "done" => phase'[t] = "done",
         \A n \in Storage : nextWriter[n][0] # Null => nextWriter'[n][0] # Null,
         \A n \in Nodes : head[n].tag = "done" => head'[n].tag = "done",
         \A n \in Nodes : node[n] # "unborn" => node'[n] # "unborn"
  PROVE  Steady
<1>1. \A n \in Nodes : Slots(n)' = Slots(n)
  BY DEF Slots, Writes
<1>2. \A n \in Nodes : Finished(n) => Finished(n)'
  BY DEF Finished, Nodes
<1> QED
  BY <1>1, <1>2 DEF Steady

LEMMA CarriesThen ==
  ASSUME TypeOK, NEW x \in Threads, todo[x] # <<>>, NEW fs \in Seq(Frame), Then(x, fs)
  PROVE  \E r : Replaced(todo', todo, x, r) /\ Carries(r, fs, After(todo[x], 1), todo[x])
<1> DEFINE s == todo[x]
           r == fs \o Tail(s)
<1>1. s \in Seq(Frame)
  BY Families
<1>2. \A i \in DOMAIN r : Fresh(r, i, fs, s) \/ \E j \in DOMAIN s : Stale(r, i, s, j)
  BY <1>1, GoesOn
<1>3. Replaced(todo', todo, x, r)
  BY DEF Then, Replaced
<1> HIDE DEF r
<1>4. Carries(r, fs, After(s, 1), s)
  BY <1>2 DEF Carries, Fresh, Stale
<1> QED
  BY <1>3, <1>4

(* A thread goes on with frames that fit. *)
LEMMA PlacedThen ==
  ASSUME Core, Steady, Owing, args' = args, making' = making, NEW x \in Threads, todo[x] # <<>>,
         NEW fs \in Seq(Frame), Then(x, fs), Sits(x, fs, After(todo[x], 1)),
         \A i \in DOMAIN fs : Fits(fs[i])'
  PROVE  Placed'
<1>1. PICK r : Replaced(todo', todo, x, r) /\ Carries(r, fs, After(todo[x], 1), todo[x])
  BY CarriesThen DEF Core
<1> QED
  BY <1>1, PlacedStep

(* It returns from a call. *)
LEMMA PlacedPop ==
  ASSUME Core, Steady, Owing, args' = args, making' = making, NEW x \in Threads, todo[x] # <<>>,
         Then(x, <<>>)
  PROVE  Placed'
<1>1. <<>> \in Seq(Frame) /\ DOMAIN <<>> = {}
  OBVIOUS
<1>2. Sits(x, <<>>, After(todo[x], 1))
  BY <1>1 DEF Sits
<1> QED
  BY <1>1, <1>2, PlacedThen

(* It goes on with one frame. *)
LEMMA PlacedOne ==
  ASSUME Core, Steady, Owing, args' = args, making' = making, NEW x \in Threads, todo[x] # <<>>,
         NEW f \in Frame, Then(x, <<f>>), Fits(f)',
         f.op \notin {"arg", "bind", "return", "move"} \cup BodyOps,
         f.op \in Calling => BindOf(x) \in After(todo[x], 1)
  PROVE  Placed'
<1> DEFINE fs == <<f>>
<1>1. fs \in Seq(Frame) /\ DOMAIN fs = {1} /\ fs[1] = f
  OBVIOUS
<1> HIDE DEF fs
<1>2. Sits(x, fs, After(todo[x], 1))
  BY <1>1 DEF Sits, BodyOps
<1>3. \A i \in DOMAIN fs : Fits(fs[i])'
  <2>1. ASSUME NEW i \in DOMAIN fs
        PROVE  Fits(fs[i])'
    <3>1. PICK g : g = fs[i]
      OBVIOUS
    <3>2. g = f
      BY <1>1, <3>1
    <3>3. Fits(g)'
      BY <3>2
    <3> QED
      BY <3>1, <3>3
  <2> QED
    BY <2>1
<1>4. Then(x, fs)
  BY DEF fs
<1> QED
  BY <1>1, <1>2, <1>3, <1>4, PlacedThen

(* It goes on over what was there. *)
LEMMA PlacedUpon ==
  ASSUME Core, Steady, Owing, args' = args, making' = making, NEW x \in Threads,
         NEW fs \in Seq(Frame), Upon(todo', todo, x, fs), Sits(x, fs, Ahead(x)),
         \A i \in DOMAIN fs : Fits(fs[i])'
  PROVE  Placed'
<1> DEFINE s == todo[x]
           r == fs \o s
<1>1. s \in Seq(Frame)
  BY Families DEF Core
<1>2. r \in Seq(Frame) /\ OnTopOf(r, fs, s)
  BY <1>1, OnTop
<1>3. Replaced(todo', todo, x, r)
  BY DEF Upon, Replaced
<1> HIDE DEF r
<1>4. Len(r) \in Nat /\ Len(fs) \in Nat /\ Len(s) \in Nat
  BY <1>1, <1>2
<1>5. Carries(r, fs, Ahead(x), s)
  <2>1. ASSUME NEW i \in DOMAIN fs
        PROVE  r[i] = fs[i] /\ Ahead(x) \subseteq After(r, i)
    BY <1>2 DEF OnTopOf, Ahead
  <2>2. ASSUME NEW j \in DOMAIN s, NEW i, i = Len(fs) + j
        PROVE  r[i] = s[j] /\ After(r, i) = After(s, j) /\ (j = Len(s) => i = Len(r))
    BY <1>2, <2>2 DEF OnTopOf
  <2>3. \A i \in DOMAIN r : i \in DOMAIN fs \/ \E j \in DOMAIN s : i = Len(fs) + j
    BY <1>2 DEF OnTopOf
  <2> QED
    BY <2>1, <2>2, <2>3 DEF Carries
<1> QED
  BY <1>3, <1>5, PlacedStep

(***************************************************************************)
(* Lists, bodies, arguments                                                *)
(***************************************************************************)
LEMMA AptKept ==
  ASSUME Core, Steady, NEW n \in Nodes, NEW a \in Arc, Apt(n, a)
  PROVE  Apt(n, a)'
<1>1. a.node \in Nodes
  BY DEF Arc
<1>2. Slots(n) \subseteq Slots(n)' /\ (Finished(a.node) => Finished(a.node)' /\ Slots(a.node)' = Slots(a.node))
  BY <1>1 DEF Steady
<1> QED
  BY <1>2 DEF Apt

LEMMA LinkedStep ==
  ASSUME Core, Steady, TypeOK',
         \A n \in Nodes : \A i \in DOMAIN Lists'[n] : \A a \in Arc : a = Lists'[n][i] =>
           (\E j \in DOMAIN Lists[n] : a = Lists[n][j]) \/ Apt(n, a)'
  PROVE  Linked'
<1>1. \A n \in Nodes : Lists'[n] \in Seq(Arc)
  <2>1. \A n \in Nodes : head'[n].arcs \in Seq(Arc)
    <3>1. \A n \in Nodes : head'[n] \in ArcHead
      BY DEF TypeOK
    <3>2. \A b \in Arc : <<b>> \in Seq(Arc)
      OBVIOUS
    <3> QED
      BY Zenon, <3>1, <3>2 DEF ArcHead
  <2> QED
    BY <2>1 DEF Lists
<1>2. ASSUME NEW n \in Nodes, NEW i \in DOMAIN Lists'[n], NEW a \in Arc, a = Lists'[n][i]
      PROVE  Apt(n, a)'
  <2>1. ASSUME NEW j \in DOMAIN Lists[n], a = Lists[n][j]
        PROVE  Apt(n, a)'
    <3>1. Apt(n, a)
      BY <2>1 DEF Core, Linked
    <3> QED
      BY <3>1, AptKept
  <2> QED
    BY <1>2, <2>1
<1>3. ASSUME NEW n \in Nodes, NEW i \in DOMAIN Lists'[n]
      PROVE  Apt(n, Lists[n][i])'
  <2>1. PICK a \in Arc : a = Lists'[n][i]
    BY <1>1, Member
  <2>2. Apt(n, a)'
    BY <1>2, <2>1
  <2> QED
    BY <2>1, <2>2 DEF Apt, Finished, Slots, Writes
<1> QED
  BY <1>3 DEF Linked

LEMMA LinkedSame ==
  ASSUME Core, Steady, TypeOK', Lists' = Lists
  PROVE  Linked'
  BY LinkedStep

(* What putting an arc on an open list does to the lists. *)
LEMMA PushLists ==
  ASSUME TypeOK, NEW m \in Nodes, head[m].tag = "open", NEW a \in Arc, Push(m, a)
  PROVE  /\ Lists'[m] = <<a>> \o Lists[m] /\ \A n \in Nodes : n # m => Lists'[n] = Lists[n]
         /\ \A n \in Nodes : head'[n].tag = head[n].tag /\ (n # m => head'[n] = head[n])
         /\ \A i \in DOMAIN Lists'[m] : Lists'[m][i] = a \/ \E j \in DOMAIN Lists[m] : Lists'[m][i] = Lists[m][j]
<1>1. /\ Lists'[m] = <<a>> \o head[m].arcs /\ \A n \in Nodes : n # m => Lists'[n] = Lists[n]
      /\ \A n \in Nodes : head'[n].tag = head[n].tag /\ (n # m => head'[n] = head[n])
  BY DEF Push, Open, Lists, TypeOK
<1>2. Lists[m] = head[m].arcs /\ Lists[m] \in Seq(Arc) /\ <<a>> \in Seq(Arc)
  BY Families
<1> DEFINE r == <<a>> \o Lists[m]
<1>3. OnTopOf(r, <<a>>, Lists[m])
  BY <1>2, OnTop
<1>4. Len(<<a>>) = 1 /\ DOMAIN <<a>> = {1} /\ <<a>>[1] = a
  OBVIOUS
<1> HIDE DEF r
<1>5. \A i \in DOMAIN r : r[i] = a \/ \E j \in DOMAIN Lists[m] : r[i] = Lists[m][j]
  BY <1>3, <1>4 DEF OnTopOf
<1>6. Lists'[m] = r
  BY <1>1, <1>2 DEF r
<1> QED
  BY <1>1, <1>2, <1>5, <1>6

LEMMA LinkedPush ==
  ASSUME Core, Steady, TypeOK', NEW m \in Nodes, head[m].tag = "open", NEW a \in Arc, Push(m, a), Apt(m, a)'
  PROVE  Linked'
<1>1. /\ \A n \in Nodes : n # m => Lists'[n] = Lists[n]
      /\ \A i \in DOMAIN Lists'[m] : Lists'[m][i] = a \/ \E j \in DOMAIN Lists[m] : Lists'[m][i] = Lists[m][j]
  BY PushLists DEF Core
<1>2. ASSUME NEW n \in Nodes, NEW i \in DOMAIN Lists'[n], NEW b \in Arc, b = Lists'[n][i]
      PROVE  (\E j \in DOMAIN Lists[n] : b = Lists[n][j]) \/ Apt(n, b)'
  <2>1. CASE n # m
    BY <1>1, <1>2, <2>1
  <2>2. CASE n = m /\ b = a
    BY <2>2
  <2> QED
    BY <1>1, <1>2, <2>1, <2>2
<1> QED
  BY <1>2, LinkedStep

LEMMA BodySame ==
  ASSUME NEW t \in Tasks, args'[t] = args[t]
  PROVE  /\ Writes(t)' = Writes(t) /\ Slots(t)' = Slots(t) /\ BodyFrames(t)' = BodyFrames(t)
         /\ \A i : PortOf(t, i)' = PortOf(t, i)
  BY DEF Writes, Slots, BodyFrames, OutFrames, PortOf

(* A task whose own thread and stage stay as they are. *)
LEMMA StagedKept ==
  ASSUME Core, NEW t \in Tasks, todo'[t] = todo[t], phase'[t] = phase[t], startCount'[t] = startCount[t],
         args'[t] = args[t], node'[t] = "unborn" <=> node[t] = "unborn", head'[t].tag = head[t].tag,
         phase[t] = "idle" => /\ owed'[t] = owed[t] /\ nextWriter'[t] = nextWriter[t]
                              /\ countdown'[t] = countdown[t]
  PROVE  Staged(t)'
<1>1. Staged(t)
  BY DEF Core, Bodies
<1>2. BodyFrames(t)' = BodyFrames(t)
  BY BodySame
<1> QED
  BY <1>1, <1>2 DEF Staged, Ahead

(* A worker that is notifying goes on. *)
LEMMA StagedOn ==
  ASSUME Core, NEW t \in Tasks, todo[t] # <<>>, NEW fs \in Seq(Frame), Then(t, fs),
         \A i \in DOMAIN fs : fs[i].op \notin {"start", "finish", "exchange"},
         Cur(t).op \notin {"start", "finish", "exchange"},
         phase'[t] = phase[t], startCount'[t] = startCount[t],
         node'[t] = "unborn" <=> node[t] = "unborn", head'[t].tag = head[t].tag
  PROVE  Staged(t)'
<1>1. phase[t] = "done" /\ head[t].tag = "done"
  BY WorkerStage DEF Core
<1>2. Staged(t)
  BY DEF Core, Bodies
<1>3. \A f \in Ahead(t) : f.op \notin {"start", "finish", "exchange"}
  BY <1>1, <1>2 DEF Staged
<1>4. /\ Ahead(t) = {Cur(t)} \cup After(todo[t], 1)
      /\ Ahead(t)' = {fs[i] : i \in DOMAIN fs} \cup After(todo[t], 1)
  BY AheadThen, NodesApart DEF Core
<1>5. \A f \in Ahead(t)' : f.op \notin {"start", "finish", "exchange"}
  BY <1>3, <1>4
<1> QED
  BY <1>1, <1>2, <1>5 DEF Staged

(* No task comes to another stage. *)
LEMMA BodiesThen ==
  ASSUME Core, NEW x \in Threads, todo[x] # <<>>, NEW fs \in Seq(Frame), Then(x, fs),
         \A i \in DOMAIN fs : fs[i].op \notin {"start", "finish", "exchange"},
         Cur(x).op \notin {"start", "finish", "exchange"},
         args' = args, phase' = phase, startCount' = startCount,
         \A t \in Tasks : /\ node'[t] = "unborn" <=> node[t] = "unborn"
                          /\ head'[t].tag = head[t].tag
                          /\ phase[t] = "idle" => /\ owed'[t] = owed[t] /\ nextWriter'[t] = nextWriter[t]
                                                  /\ countdown'[t] = countdown[t]
  PROVE  Bodies'
<1>1. \A y \in Threads : y # x => todo'[y] = todo[y]
  BY AheadThen DEF Core
<1>2. ASSUME NEW t \in Tasks
      PROVE  Staged(t)'
  <2>1. CASE t # x
    BY <1>1, <2>1, StagedKept, NodesApart
  <2>2. CASE t = x
    BY <2>2, StagedOn
  <2> QED
    BY <2>1, <2>2
<1> QED
  BY <1>2 DEF Bodies

LEMMA DistinctSame ==
  ASSUME Core, args' = args
  PROVE  Distinct'
  BY DEF Core, Distinct, Apart

(***************************************************************************)
(* The counts of a step                                                    *)
(***************************************************************************)
LEMMA HeldForSame ==
  ASSUME NEW d,
         \A n \in Nodes : \A p \in Port :
           (p \in Slots(n)' /\ countdown'[n][p] > 0 /\ nextWriter'[n][p] = d)
             <=> (p \in Slots(n) /\ countdown[n][p] > 0 /\ nextWriter[n][p] = d)
  PROVE  HeldFor(d)' = HeldFor(d)
<1> DEFINE A == {s \in HeldSlots : nextWriter[s[1]][s[2]] = d}
<1>1. A' = A
  <2>1. \A s \in Nodes \X Port : s \in A' <=> s \in A
    BY DEF HeldSlots
  <2>2. A' \subseteq Nodes \X Port /\ A \subseteq Nodes \X Port
    BY DEF HeldSlots
  <2> QED
    BY <2>1, <2>2
<1> QED
  BY <1>1 DEF HeldFor

LEMMA HeldForSlots ==
  ASSUME NEW d, args' = args, countdown' = countdown, nextWriter' = nextWriter
  PROVE  HeldFor(d)' = HeldFor(d)
<1>1. \A n : Slots(n)' = Slots(n)
  BY DEF Slots, Writes
<1> QED
  BY <1>1, HeldForSame

(* A slot that is no longer held for d, or comes to be. *)
LEMMA HeldForLess ==
  ASSUME NEW d, NEW m \in Nodes, NEW q \in Port, q \in Slots(m), countdown[m][q] > 0, nextWriter[m][q] = d,
         ~(countdown'[m][q] > 0 /\ nextWriter'[m][q] = d),
         \A n \in Nodes : \A p \in Port : n # m \/ p # q =>
           ((p \in Slots(n)' /\ countdown'[n][p] > 0 /\ nextWriter'[n][p] = d)
             <=> (p \in Slots(n) /\ countdown[n][p] > 0 /\ nextWriter[n][p] = d))
  PROVE  HeldFor(d)' = HeldFor(d) - 1
<1> DEFINE A == {s \in HeldSlots : nextWriter[s[1]][s[2]] = d}
           c == <<m, q>>
<1>1. A' = A \ {c} /\ c \in A
  <2>1. \A s \in Nodes \X Port : s \in A' <=> s \in A /\ s # c
    <3>1. ASSUME NEW n \in Nodes, NEW p \in Port
          PROVE  <<n, p>> \in A' <=> <<n, p>> \in A /\ <<n, p>> # c
      BY DEF HeldSlots
    <3> QED
      BY <3>1
  <2>2. A' \subseteq Nodes \X Port /\ A \subseteq Nodes \X Port
    BY DEF HeldSlots
  <2>3. c \in A
    BY DEF HeldSlots
  <2> QED
    BY <2>1, <2>2, <2>3
<1>2. IsFiniteSet(A) /\ Cardinality(A) \in Nat
  BY HeldForNat DEF HeldFor
<1>3. Cardinality(A \ {c}) = Cardinality(A) - 1
  <2> HIDE DEF A, c
  <2> QED
    BY <1>1, <1>2, FS_RemoveElement
<1> QED
  BY <1>1, <1>3 DEF HeldFor

LEMMA HeldForMore ==
  ASSUME NEW d, NEW m \in Nodes, NEW q \in Port, q \in Slots(m)', countdown'[m][q] > 0, nextWriter'[m][q] = d,
         nextWriter[m][q] # d,
         \A n \in Nodes : \A p \in Port : n # m \/ p # q =>
           ((p \in Slots(n)' /\ countdown'[n][p] > 0 /\ nextWriter'[n][p] = d)
             <=> (p \in Slots(n) /\ countdown[n][p] > 0 /\ nextWriter[n][p] = d))
  PROVE  HeldFor(d)' = HeldFor(d) + 1
<1> DEFINE A == {s \in HeldSlots : nextWriter[s[1]][s[2]] = d}
           c == <<m, q>>
<1>1. A' = A \cup {c} /\ c \notin A
  <2>1. \A s \in Nodes \X Port : s \in A' <=> s \in A \/ s = c
    <3>1. ASSUME NEW n \in Nodes, NEW p \in Port
          PROVE  <<n, p>> \in A' <=> <<n, p>> \in A \/ <<n, p>> = c
      BY DEF HeldSlots
    <3> QED
      BY <3>1
  <2>2. A' \subseteq Nodes \X Port /\ A \subseteq Nodes \X Port /\ c \in Nodes \X Port
    BY DEF HeldSlots
  <2>3. c \notin A
    OBVIOUS
  <2> QED
    BY <2>1, <2>2, <2>3
<1>2. IsFiniteSet(A) /\ Cardinality(A) \in Nat
  BY HeldForNat DEF HeldFor
<1>3. Cardinality(A \cup {c}) = Cardinality(A) + 1
  <2> HIDE DEF A, c
  <2> QED
    BY <1>1, <1>2, FS_AddElement
<1> QED
  BY <1>1, <1>3 DEF HeldFor

LEMMA NoticeOps ==
  ASSUME NEW f, NEW t
  PROVE  /\ f.op \notin {"flow", "move", "pre"} => f \notin Notices(t)
         /\ f.op \notin {"bind", "pre"} => f \notin Protecting(t)
         /\ Notices(t)' = Notices(t) /\ Protecting(t)' = Protecting(t) /\ ArcsTo(t)' = ArcsTo(t)
  BY DEF Notices, Protecting, ArcsTo

LEMMA CountedKept ==
  ASSUME Core, NEW t \in Tasks, owed'[t] = owed[t], args'[t] = args[t], startCount'[t] = startCount[t],
         Count(todo', Protecting(t)) = Count(todo, Protecting(t)), Coming(t)' = Coming(t)
  PROVE  Counted(t)'
<1>1. Counted(t)
  BY DEF Core, Due
<1>2. Guards(t)' = Guards(t) /\ Protection(t)' = Protection(t)
  BY NoticeOps DEF Guards, Protection
<1> QED
  BY <1>1, <1>2 DEF Counted

LEMMA ThenNone ==
  ASSUME TypeOK, NEW x \in Threads, todo[x] # <<>>, NEW fs \in Seq(Frame), Then(x, fs), NEW P,
         Cur(x) \notin P, \A i \in DOMAIN fs : fs[i] \notin P
  PROVE  Count(todo', P) = Count(todo, P)
<1>1. Number(fs, P) = 0
  BY NumberNone
<1> QED
  BY <1>1, ThenCount DEF One

(* A step that concerns no task's prerequisites. *)
LEMMA DueThen ==
  ASSUME Core, NEW x \in Threads, todo[x] # <<>>, NEW fs \in Seq(Frame), Then(x, fs),
         Cur(x).op \notin {"flow", "move", "pre", "bind"},
         \A i \in DOMAIN fs : fs[i].op \notin {"flow", "move", "pre", "bind"},
         owed' = owed, args' = args, startCount' = startCount,
         \A t \in Tasks : /\ Count(Lists', ArcsTo(t)) = Count(Lists, ArcsTo(t))
                          /\ HeldFor(Writer(t))' = HeldFor(Writer(t))
  PROVE  Due'
<1>1. ASSUME NEW t \in Tasks
      PROVE  Counted(t)'
  <2>1. Count(todo', Notices(t)) = Count(todo, Notices(t))
    BY NoticeOps, ThenNone DEF Core
  <2>2. Count(todo', Protecting(t)) = Count(todo, Protecting(t))
    BY NoticeOps, ThenNone DEF Core
  <2>3. Coming(t)' = Coming(t)
    BY <2>1, NoticeOps DEF Coming
  <2> QED
    BY <2>2, <2>3, CountedKept
<1> QED
  BY <1>1 DEF Due

(* The frames that say something of slot p of n. *)
Marks(n, p) == {f \in Frame : f.op \in {"hold", "dec", "out"} /\ f.node = n /\ f.port = p}

LEMMA MarksAre ==
  ASSUME NEW n, NEW p
  PROVE  /\ Holders(n, p) \subseteq Marks(n, p) /\ Shares(n, p) \subseteq Marks(n, p)
         /\ Outs(n, p) \subseteq Shares(n, p) /\ Outs(n, p) \subseteq Marks(n, p)
         /\ Holders(n, p)' = Holders(n, p) /\ Shares(n, p)' = Shares(n, p) /\ Outs(n, p)' = Outs(n, p)
         /\ Turning(n, p)' = Turning(n, p) /\ BackOnly(n, p)' = BackOnly(n, p)
  BY DEF Marks, Holders, Shares, Outs, Turning, BackOnly

LEMMA TalliedKept ==
  ASSUME Core, TypeOK', NEW n \in Nodes, NEW p \in Slots(n), Finished(n)' <=> Finished(n),
         countdown'[n][p] = countdown[n][p], nextWriter'[n][p] = nextWriter[n][p],
         Count(Lists', {BackOnly(n, p)}) = Count(Lists, {BackOnly(n, p)}),
         \A P \in SUBSET Marks(n, p) : Count(todo', P) = Count(todo, P),
         \A y \in Threads : Ahead(y)' \cap Marks(n, p) \subseteq Ahead(y),
         n \in Tasks => /\ count'[n][p] = count[n][p]
                        /\ Number(todo'[n], Turning(n, p)) <= Number(todo[n], Turning(n, p))
                        /\ head'[n].tag = "open" => head[n].tag = "open",
         \A m \in Nodes : node[m] # "unborn" => node'[m] # "unborn"
  PROVE  Tallied(n, p)'
<1>1. Tallied(n, p)
  BY DEF Core, Tallies
<1>2. /\ Count(todo', Holders(n, p)) = Count(todo, Holders(n, p))
      /\ Count(todo', Shares(n, p)) = Count(todo, Shares(n, p))
      /\ Count(todo', Outs(n, p)) = Count(todo, Outs(n, p))
  BY MarksAre
<1>3. Held(n, p)' = Held(n, p)
  BY <1>2, MarksAre DEF Held
<1>4. ASSUME Exact(n, p)
      PROVE  Exact(n, p)'
  <2>1. Count(todo', Shares(n, p)) = 0 => countdown'[n][p] = Held(n, p)'
    BY <1>2, <1>3, <1>4 DEF Exact
  <2>2. ASSUME NEW y \in Threads, NEW f \in Ahead(y)' \cap Shares(n, p)
        PROVE  countdown'[n][p] = Held(n, p)' + Share(f)'
    <3>1. f \in Ahead(y) \cap Shares(n, p) /\ f.node = n /\ f.port = p
      BY <2>2, MarksAre DEF Shares
    <3>2. countdown[n][p] = Held(n, p) + Share(f)
      BY <1>4, <3>1 DEF Exact
    <3>3. f.op = "out" => n \in Tasks
      BY <3>1, AheadFits DEF Core, Lies, BodyOps
    <3>4. Share(f)' = Share(f)
      BY <3>1, <3>3 DEF Share
    <3> QED
      BY <1>3, <3>2, <3>4
  <2> QED
    BY <2>1, <2>2, MarksAre DEF Exact
<1>5. Named(nextWriter[n][p])'
  <2>1. nextWriter[n][p] \in NextWriter
    BY ZenonT(60), SlotsArePorts DEF Core, TypeOK
  <2>2. nextWriter[n][p].kind = "owner" => nextWriter[n][p].node \in Nodes
    BY <2>1 DEF NextWriter
  <2> QED
    BY <1>1, <2>2 DEF Tallied, Named
<1>6. n \in Tasks =>
        /\ Number(todo'[n], Turning(n, p)) \in Nat /\ Number(todo[n], Turning(n, p)) \in Nat
        /\ count[n][p] \in Int
  <2>1. n \in Tasks => todo[n] \in Seq(Frame) /\ todo'[n] \in Seq(Frame)
    BY NodesApart DEF Core, TypeOK, FramesFit
  <2> QED
    BY <2>1, NumberType, SlotsArePorts DEF Core, TypeOK
<1>7. n \in Tasks /\ Finished(n)' /\ Count(todo', Outs(n, p)) > 0 =>
        /\ count'[n][p] >= Number(todo'[n], Turning(n, p)) + 3
        /\ head'[n].tag = "open" => count'[n][p] = Half
  BY <1>1, <1>2, <1>6 DEF Tallied
<1> QED
  BY <1>1, <1>2, <1>4, <1>5, <1>7, MarksAre DEF Tallied

(* A slot that the frames a thread is in and goes on with are not about. *)
LEMMA TalliedThen ==
  ASSUME Core, TypeOK', NEW x \in Threads, todo[x] # <<>>, NEW fs \in Seq(Frame), Then(x, fs),
         NEW n \in Nodes, NEW p \in Slots(n), Finished(n)' <=> Finished(n),
         countdown'[n][p] = countdown[n][p], nextWriter'[n][p] = nextWriter[n][p],
         Count(Lists', {BackOnly(n, p)}) = Count(Lists, {BackOnly(n, p)}),
         Cur(x) \notin Marks(n, p),
         \A i \in DOMAIN fs : fs[i] \notin Marks(n, p) /\ (n = x => fs[i] \notin Turning(n, p)),
         n \in Tasks => /\ count'[n][p] = count[n][p]
                        /\ head'[n].tag = "open" => head[n].tag = "open",
         \A m \in Nodes : node[m] # "unborn" => node'[m] # "unborn"
  PROVE  Tallied(n, p)'
<1>1. \A P \in SUBSET Marks(n, p) : Count(todo', P) = Count(todo, P)
  BY ThenNone DEF Core
<1>2. /\ Ahead(x) = {Cur(x)} \cup After(todo[x], 1)
      /\ Ahead(x)' = {fs[i] : i \in DOMAIN fs} \cup After(todo[x], 1)
      /\ \A y \in Threads : y # x => todo'[y] = todo[y] /\ Ahead(y)' = Ahead(y)
  BY AheadThen DEF Core
<1>3. \A y \in Threads : Ahead(y)' \cap Marks(n, p) \subseteq Ahead(y)
  BY <1>2
<1>4. n \in Tasks => Number(todo'[n], Turning(n, p)) <= Number(todo[n], Turning(n, p))
  <2>1. CASE n = x
    <3> DEFINE s == todo[x]
               P == Turning(n, p)
    <3>1. s \in Seq(Frame) /\ Tail(s) \in Seq(Frame)
      BY Families, Behind DEF Core
    <3>2. Number(s, P) = One(Head(s) \in P) + Number(Tail(s), P) /\ Number(Tail(s), P) \in Nat
      BY <3>1, NumberTail, NumberType
    <3>3. Number(fs, P) = 0
      BY <2>1, NumberNone
    <3>4. Number(fs \o Tail(s), P) = Number(fs, P) + Number(Tail(s), P)
      BY Zenon, <3>1, NumberCat
    <3>5. todo'[n] = fs \o Tail(s)
      BY <2>1 DEF Then, Core, TypeOK, FramesFit
    <3> QED
      BY <2>1, <3>2, <3>3, <3>4, <3>5 DEF One
  <2>2. CASE n # x
    <3>1. n \in Tasks => todo[n] \in Seq(Frame) /\ todo'[n] = todo[n]
      BY <1>2, <2>2, Families, NodesApart DEF Core
    <3>2. n \in Tasks => Number(todo[n], Turning(n, p)) \in Nat
      BY <3>1, NumberType
    <3> QED
      BY <3>1, <3>2
  <2> QED
    BY <2>1, <2>2
<1> QED
  BY <1>1, <1>3, <1>4, TalliedKept

(***************************************************************************)
(* Steps that leave the variables and the calls alone                      *)
(***************************************************************************)
Undisturbed ==
  /\ UNCHANGED <<var, args, making, last>>
  /\ \A n \in Nodes : node'[n] = "unborn" <=> node[n] = "unborn"
  /\ \A n \in Nodes : \A p \in Slots(n) : Vacant(n, p) => Vacant(n, p)'
  /\ \A n \in Nodes : \/ head'[n] = head[n]
                      \/ /\ head[n].tag = "open" /\ head'[n].tag \in {"open", "done"}
                         /\ n \in Storage => head'[n].tag = "open"
  /\ \A t \in Tasks : phase[t] # "idle" => phase'[t] # "idle"
  /\ \A y \in Clients : \A f : f.op = "return" => (f \in Ahead(y)' <=> f \in Ahead(y))
  /\ \A y \in Clients : \A i : ToWrite(y, i)' <=> ToWrite(y, i)

LEMMA StoresKept ==
  ASSUME Core, Undisturbed,
         \A s \in Storage : /\ Finished(s)' <=> Finished(s)
                            /\ Finished(s) \/ (head'[s] = head[s] /\ countdown'[s] = countdown[s])
  PROVE  Stores'
<1>1. ASSUME NEW s \in Storage
      PROVE  Stored(s)'
  <2>1. Stored(s) /\ s \in Nodes
    BY DEF Core, Stores, Nodes
  <2>2. /\ node'[s] = "unborn" <=> node[s] = "unborn"
        /\ last' = last /\ args' = args
        /\ head'[s] = head[s] \/ (head[s].tag = "open" /\ head'[s].tag = "open")
    BY <2>1 DEF Undisturbed
  <2>3. head'[s] = head[s] /\ Redirected(s) => Redirected(s)'
    BY <2>2 DEF Redirected, Writes, PortOf
  <2>4. CASE head'[s] = head[s]
    BY <2>1, <2>2, <2>3, <2>4 DEF Stored
  <2>5. CASE head[s].tag = "open" /\ head'[s].tag = "open"
    <3>1. Done.tag = "done"
      BY DEF Done
    <3>2. Finished(s) => s \in Deferred
      BY <2>1, <2>5, <3>1 DEF Stored
    <3> QED
      BY <2>1, <2>2, <2>5, <3>2 DEF Stored
  <2> QED
    BY <2>2, <2>4, <2>5
<1> QED
  BY <1>1 DEF Stores

LEMMA CallsAlike ==
  ASSUME Undisturbed, NEW y \in Clients
  PROVE  /\ InRun(y)' <=> InRun(y)
         /\ \A v : (Reads(y, v)' <=> Reads(y, v)) /\ (Modifies(y, v)' <=> Modifies(y, v))
<1>1. InRun(y)' <=> InRun(y)
  <2>1. InRun(y) <=> \E f \in Ahead(y) : f.op = "return"
    BY DEF InRun, Ahead
  <2>2. InRun(y)' <=> \E f \in Ahead(y)' : f.op = "return"
    BY DEF InRun, Ahead
  <2> QED
    BY <2>1, <2>2 DEF Undisturbed
<1> QED
  BY <1>1 DEF Undisturbed, Reads, Modifies, CallArgs

LEMMA UsesAlike ==
  ASSUME Undisturbed, NEW v
  PROVE  /\ InUse(v)' <=> InUse(v)
         /\ Opening(v)' <=> Opening(v)
         /\ SlotOf(v)' = SlotOf(v)
<1>1. \A y \in Clients : F("return", v, 0, 0) \in Ahead(y)' <=> F("return", v, 0, 0) \in Ahead(y)
  BY DEF Undisturbed, F
<1> QED
  BY <1>1 DEF Undisturbed, InUse, Opening, SlotOf

LEMMA HomesKept ==
  ASSUME Core, Undisturbed
  PROVE  Homes'
<1>1. ASSUME NEW v \in Nodes
      PROVE  Settled(v)'
  <2>2. Settled(v) /\ (InUse(v)' <=> InUse(v)) /\ SlotOf(v)' = SlotOf(v)
    BY UsesAlike DEF Core, Homes
  <2>3. InUse(v) => nextWriter'[var[v].cur][var[v].port] \in Openable'
    <3>1. InUse(v) => var[v].cur \in Nodes /\ var[v].port \in Slots(var[v].cur) /\ Vacant(var[v].cur, var[v].port)
      BY SlotIs DEF Core
    <3>2. \A n \in Nodes : \A p \in Slots(n) : Vacant(n, p) => nextWriter'[n][p] \in Openable'
      BY DEF Undisturbed, Vacant
    <3> QED
      BY <3>1, <3>2
  <2> QED
    BY SMTT(30), <2>2, <2>3 DEF Settled, Undisturbed, Writes, PortOf, Vacant, New
<1> QED
  BY <1>1 DEF Homes

LEMMA FirstsKept ==
  ASSUME Core, Undisturbed
  PROVE  Firsts'
<1>1. ASSUME NEW v \in Nodes
      PROVE  Put(v)'
  <2>1. Put(v) /\ (Opening(v)' <=> Opening(v)) /\ SlotOf(v)' = SlotOf(v)
    BY UsesAlike DEF Core, Firsts
  <2>2. /\ \A y \in Clients : Modifies(y, v)' <=> Modifies(y, v)
        /\ head'[v].tag = "redirect" <=> head[v].tag = "redirect"
        /\ v \in Deferred /\ head[v].tag = "open" => head'[v].tag = "open"
        /\ var' = var /\ last' = last /\ making' = making
    BY CallsAlike, ConstantsAssumption DEF Undisturbed
  <2> QED
    BY <2>1, <2>2 DEF Put
<1> QED
  BY <1>1 DEF Firsts

LEMMA FindsKept ==
  ASSUME Core, Undisturbed, NEW y \in Clients, NEW n, NEW p
  PROVE  /\ Finds(y, n, p) => Finds(y, n, p)'
         /\ Begins(y, n, p) => Begins(y, n, p)'
<1>1. \A v \in Nodes : head[v].tag = "redirect" => head'[v] = head[v]
  BY DEF Undisturbed
<1>2. \A v \in Nodes : \A m, q : Leads(v, m, q) => Leads(v, m, q)'
  <2>1. ASSUME NEW v \in Nodes, NEW m, NEW q, Leads(v, m, q)
        PROVE  Leads(v, m, q)'
    <3>1. head[v] = Redirect(m, q) => head'[v] = Redirect(m, q)'
      BY <1>1, RedirectIs DEF Redirect, FlowBack
    <3> QED
      BY <2>1, <3>1, UsesAlike DEF Leads
  <2> QED
    BY <2>1
<1>3. \A v : Reads(y, v)' <=> Reads(y, v)
  BY CallsAlike
<1>4. Finds(y, n, p) => Finds(y, n, p)'
  BY <1>2, <1>3 DEF Finds
<1>5. ASSUME p = 0, head[n].tag = "redirect", Reads(y, n), Leads(n, head[n].arcs[1].node, head[n].arcs[1].port)
      PROVE  Begins(y, n, p)'
  <2>1. n \in Nodes
    BY <1>5, Argument DEF Core
  <2>2. head'[n] = head[n]
    BY <1>1, <1>5, <2>1
  <2>3. Leads(n, head[n].arcs[1].node, head[n].arcs[1].port)'
    BY SMTT(30), <1>2, <1>5, <2>1, <2>2
  <2> QED
    BY <1>3, <1>5, <2>2, <2>3 DEF Begins
<1> QED
  BY <1>4, <1>5 DEF Begins

Asks == {f \in Frame : f.op \in Asking}

LEMMA WritingKept ==
  ASSUME Core, Undisturbed, NEW x \in Clients, InRun(x), NEW i \in Writes(making[x]), Writing(x, i)
  PROVE  Writing(x, i)'
<1>1. making[x] \in Tasks /\ making[x] \in Nodes
  BY NodesApart DEF Core, Callers, Called
<1>2. nextWriter'[making[x]][PortOf(making[x], i)] \in Openable'
  <2>1. PortOf(making[x], i) \in Slots(making[x]) /\ Vacant(making[x], PortOf(making[x], i))
    BY <1>1, PortsApart DEF Core, Writing
  <2>2. \A n \in Nodes : \A p \in Slots(n) : Vacant(n, p) => nextWriter'[n][p] \in Openable'
    BY DEF Undisturbed, Vacant
  <2> QED
    BY <1>1, <2>1, <2>2
<1>3. Writes(making[x]) \subseteq DOMAIN args[making[x]]
  BY DEF Writes
<1>4. args[making[x]][i].v \in Nodes
  BY <1>1, <1>3, ArgOf DEF Core
<1>5. head'[args[making[x]][i].v].tag = "redirect" => head'[args[making[x]][i].v] = head[args[making[x]][i].v]
  BY <1>4 DEF Undisturbed
<1>6. UNCHANGED <<var, args, making>>
  BY DEF Undisturbed
<1> QED
  BY <1>2, <1>5, <1>6 DEF Writing, SlotOf, PortOf, Writes, Vacant

LEMMA CallsKept ==
  ASSUME Core, Undisturbed,
         \A x \in Clients : InRun(x) => owed'[making[x]] + Number(todo'[x], Asks) <= Len(args[making[x]]),
         \A x \in Clients : \A f \in Ahead(x)' : f.op \in {"link", "hop", "late"} =>
           \/ f \in Ahead(x)
           \/ /\ f.op = "link" => Begins(x, f.node, f.port)
              /\ f.op \in {"hop", "late"} => Finds(x, f.node, f.port)
              /\ f.op = "hop" => f.node \in Tasks
  PROVE  Callers'
<1>1. ASSUME NEW x \in Clients
      PROVE  Called(x)'
  <2>1. Called(x) /\ UNCHANGED <<var, args, making, last>> /\ (InRun(x)' <=> InRun(x))
    BY CallsAlike DEF Core, Callers, Undisturbed
  <2>2. making[x] # NoTask => making[x] \in Tasks
    BY DEF Core, TypeOK
  <2>3. making[x] # NoTask =>
          phase'[making[x]] # "idle" /\ \A y \in Clients : making[y] = making[x] => y = x
    BY <2>1, <2>2 DEF Called, Undisturbed
  <2>4. InRun(x) => /\ making[x] \in Tasks /\ var[making[x]] = New(making[x])
                    /\ \A i \in DOMAIN args[making[x]] : var[args[making[x]][i].v].live
                    /\ \A v \in Nodes : Modifies(x, v) => last[v] >= 1
                    /\ \A y \in Clients \ {x} : \A v \in Nodes : Modifies(x, v) =>
                         /\ ~Modifies(y, v)
                         /\ Reads(y, v) => v \in Deferred /\ last[v] <= 1
    BY <2>1 DEF Called
  <2>5. \A y \in Clients : \A v : (Reads(y, v)' <=> Reads(y, v)) /\ (Modifies(y, v)' <=> Modifies(y, v))
    BY CallsAlike
  <2>6. ASSUME InRun(x), NEW i \in Writes(making[x]), ToWrite(x, i)
        PROVE  Writing(x, i)'
    <3>1. Writing(x, i)
      BY <2>1, <2>6 DEF Called
    <3> QED
      BY <2>6, <3>1, WritingKept
  <2>7. InRun(x) => \A i \in Writes(making[x])' : ToWrite(x, i)' => Writing(x, i)'
    BY <2>1, <2>6 DEF Writes, Undisturbed
  <2>8. ASSUME NEW f \in Ahead(x)'
        PROVE  /\ f.op = "link" => Begins(x, f.node, f.port)'
               /\ f.op \in {"hop", "late"} => Finds(x, f.node, f.port)'
               /\ f.op = "hop" => f.node \in Tasks
    <3>1. f \in Ahead(x) => /\ f.op = "link" => Begins(x, f.node, f.port)
                            /\ f.op \in {"hop", "late"} => Finds(x, f.node, f.port)
                            /\ f.op = "hop" => f.node \in Tasks
      BY <2>1 DEF Called
    <3> QED
      BY <2>8, <3>1, FindsKept
  <2>9. InRun(x) => owed'[making[x]] + Number(todo'[x], Asks') <= Len(args[making[x]])
    BY DEF Asks
  <2>10. /\ making'[x] # NoTask => phase'[making'[x]] # "idle" /\ \A y \in Clients : making'[y] = making'[x] => y = x
         /\ InRun(x)' => /\ making'[x] \in Tasks /\ var'[making'[x]] = New(making[x])'
                         /\ \A i \in DOMAIN args'[making'[x]] : var'[args'[making'[x]][i].v].live
                         /\ \A v \in Nodes : Modifies(x, v)' => last'[v] >= 1
                         /\ \A y \in Clients \ {x} : \A v \in Nodes : Modifies(x, v)' =>
                              /\ ~Modifies(y, v)'
                              /\ Reads(y, v)' => v \in Deferred /\ last'[v] <= 1
                         /\ \A i \in Writes(making[x])' : ToWrite(x, i)' => Writing(x, i)'
                         /\ owed'[making'[x]] + Number(todo'[x], Asks') <= Len(args'[making'[x]])
    BY <2>1, <2>3, <2>4, <2>5, <2>7, <2>9 DEF New
  <2> QED
    BY <2>8, <2>10 DEF Called, Asks
<1> QED
  BY <1>1 DEF Callers

(***************************************************************************)
(* Steps of a thread that goes on                                          *)
(***************************************************************************)
LEMMA AheadAlike ==
  ASSUME Core, NEW x \in Threads, todo[x] # <<>>, NEW fs \in Seq(Frame), Then(x, fs),
         Cur(x).op \notin {"arg", "return"}, \A i \in DOMAIN fs : fs[i].op \notin {"arg", "return"}
  PROVE  \A y \in Threads : \A f : f.op \in {"arg", "return"} => (f \in Ahead(y)' <=> f \in Ahead(y))
<1>1. /\ Ahead(x) = {Cur(x)} \cup After(todo[x], 1)
      /\ Ahead(x)' = {fs[i] : i \in DOMAIN fs} \cup After(todo[x], 1)
      /\ \A y \in Threads : y # x => todo'[y] = todo[y] /\ Ahead(y)' = Ahead(y)
  BY AheadThen DEF Core
<1> QED
  BY <1>1

LEMMA UndisturbedThen ==
  ASSUME Core, NEW x \in Threads, todo[x] # <<>>, NEW fs \in Seq(Frame), Then(x, fs),
         Cur(x).op \notin {"arg", "return"}, \A i \in DOMAIN fs : fs[i].op \notin {"arg", "return"},
         UNCHANGED <<var, args, making, last>>,
         \A n \in Nodes : node'[n] = "unborn" <=> node[n] = "unborn",
         \A n \in Nodes : \A p \in Slots(n) : Vacant(n, p) => Vacant(n, p)',
         \A n \in Nodes : \/ head'[n] = head[n]
                          \/ /\ head[n].tag = "open" /\ head'[n].tag \in {"open", "done"}
                             /\ n \in Storage => head'[n].tag = "open",
         \A t \in Tasks : phase[t] # "idle" => phase'[t] # "idle"
  PROVE  Undisturbed
<1>1. \A y \in Threads : \A f : f.op \in {"arg", "return"} => (f \in Ahead(y)' <=> f \in Ahead(y))
  BY AheadAlike
<1>2. ASSUME NEW y \in Clients, NEW i
      PROVE  ToWrite(y, i)' <=> ToWrite(y, i)
  <2>1. F("arg", making[y], i, 0) \in Ahead(y)' <=> F("arg", making[y], i, 0) \in Ahead(y)
    <3>1. PICK f : f = F("arg", making[y], i, 0)
      OBVIOUS
    <3>2. f.op = "arg" /\ y \in Threads
      BY <3>1, NodesApart DEF F
    <3>3. f \in Ahead(y)' <=> f \in Ahead(y)
      BY <1>1, <3>2
    <3> QED
      BY <3>1, <3>3
  <2>2. Writes(making[y])' = Writes(making[y]) /\ F("arg", making[y], i, 0)' = F("arg", making[y], i, 0)
    BY DEF Writes, F
  <2> QED
    BY <2>1, <2>2 DEF ToWrite
<1>3. \A y \in Clients : \A f : f.op = "return" => (f \in Ahead(y)' <=> f \in Ahead(y))
  <2>1. Clients \subseteq Threads
    BY DEF Threads
  <2> QED
    BY <1>1, <2>1
<1> QED
  BY <1>2, <1>3 DEF Undisturbed

LEMMA AsksAre ==
  ASSUME NEW x, NEW f \in Frame
  PROVE  f \in Asks <=> f.op \in {"arg", "link", "hop"}
  BY DEF Asks, Asking

LEMMA OwedThen ==
  ASSUME Core, NEW x \in Threads, todo[x] # <<>>, NEW fs \in Seq(Frame), Then(x, fs), owed' = owed,
         Number(fs, Asks) <= One(Cur(x) \in Asks)
  PROVE  \A y \in Clients : InRun(y) => owed'[making[y]] + Number(todo'[y], Asks) <= Len(args[making[y]])
<1>1. ASSUME NEW y \in Clients, InRun(y)
      PROVE  owed'[making[y]] + Number(todo'[y], Asks) <= Len(args[making[y]])
  <2>1. /\ owed[making[y]] + Number(todo[y], Asks) <= Len(args[making[y]]) /\ making[y] \in Tasks
    BY <1>1 DEF Core, Callers, Called, Asks
  <2>2. owed[making[y]] \in Int /\ Len(args[making[y]]) \in Nat
    BY <2>1 DEF Core, TypeOK
  <2>3. todo[y] \in Seq(Frame) /\ todo[x] \in Seq(Frame) /\ Tail(todo[x]) \in Seq(Frame)
    BY Families, NodesApart DEF Core
  <2>4. /\ Number(todo[y], Asks) \in Nat /\ Number(fs, Asks) \in Nat /\ Number(Tail(todo[x]), Asks) \in Nat
    BY <2>3, NumberType
  <2>5. Number(todo[x], Asks) = One(Cur(x) \in Asks) + Number(Tail(todo[x]), Asks)
    BY <2>3, NumberTail DEF Cur
  <2>6. Number(fs \o Tail(todo[x]), Asks) = Number(fs, Asks) + Number(Tail(todo[x]), Asks)
    BY <2>3, NumberCat
  <2>7. todo'[y] = IF y = x THEN fs \o Tail(todo[x]) ELSE todo[y]
    BY NodesApart DEF Then, Core, TypeOK, FramesFit
  <2>8. One(Cur(x) \in Asks) \in Int
    BY DEF One
  <2>9. Number(todo'[y], Asks) <= Number(todo[y], Asks) /\ Number(todo'[y], Asks) \in Nat
    BY <2>4, <2>5, <2>6, <2>7, <2>8
  <2> QED
    BY <2>1, <2>2, <2>4, <2>9
<1> QED
  BY <1>1

LEMMA NoAsks ==
  ASSUME NEW fs \in Seq(Frame), \A i \in DOMAIN fs : fs[i].op \notin Asking, NEW b
  PROVE  Number(fs, Asks) <= One(b)
<1>1. Number(fs, Asks) = 0
  BY NumberNone DEF Asks
<1> QED
  BY <1>1 DEF One

(* A thread goes on with frames that are no argument's. *)
LEMMA CallsThen ==
  ASSUME Core, Undisturbed, NEW x \in Threads, todo[x] # <<>>, NEW fs \in Seq(Frame), Then(x, fs), owed' = owed,
         \A i \in DOMAIN fs : fs[i].op \notin {"arg", "link", "hop", "late"}
  PROVE  Callers'
<1>1. Number(fs, Asks) <= One(Cur(x) \in Asks)
  BY NoAsks DEF Asking
<1>2. \A y \in Clients : InRun(y) => owed'[making[y]] + Number(todo'[y], Asks) <= Len(args[making[y]])
  BY <1>1, OwedThen
<1>3. /\ Ahead(x) = {Cur(x)} \cup After(todo[x], 1)
      /\ Ahead(x)' = {fs[i] : i \in DOMAIN fs} \cup After(todo[x], 1)
      /\ \A y \in Threads : y # x => todo'[y] = todo[y] /\ Ahead(y)' = Ahead(y)
  BY AheadThen DEF Core
<1>4. \A y \in Clients : \A f \in Ahead(y)' : f.op \in {"link", "hop", "late"} => f \in Ahead(y)
  BY <1>3, NodesApart
<1> QED
  BY <1>2, <1>4, CallsKept

(***************************************************************************)
(* Steps that concern no count                                             *)
(***************************************************************************)
Plain == {"wait", "block", "get", "join", "rel", "relall", "sub", "wakeup"}

LEMMA Calm ==
  ASSUME Core, TypeOK', NEW x \in Threads, todo[x] # <<>>, NEW fs \in Seq(Frame), Then(x, fs),
         Cur(x).op \in Plain,
         \A i \in DOMAIN fs : fs[i].op \in {"block", "sub"} /\ Fits(fs[i])',
         UNCHANGED <<head, startCount, nextWriter, countdown, count, setup, ghost>>,
         \A n \in Nodes : node'[n] = "unborn" <=> node[n] = "unborn"
  PROVE  Core'
<1> USE DEF setup, ghost
<1>1. Steady
  BY SteadyIf
<1>2. Owing
  BY DEF Owing
<1>3. /\ Cur(x).op \notin {"flow", "move", "pre", "bind", "hold", "dec", "out", "arg", "return",
                           "start", "finish", "exchange"}
      /\ \A i \in DOMAIN fs : fs[i].op \notin {"flow", "move", "pre", "bind", "hold", "dec", "out", "arg", "return",
                                                "start", "finish", "exchange", "link", "hop", "late"}
  BY DEF Plain
<1>4. Placed'
  <2>1. Sits(x, fs, After(todo[x], 1))
    BY DEF Sits, Calling, Asking, BodyOps
  <2> QED
    BY <1>1, <1>2, <2>1, PlacedThen
<1>5. Linked'
  BY <1>1, LinkedSame DEF Lists
<1>6. Bodies'
  <2>1. \A t \in Tasks : node'[t] = "unborn" <=> node[t] = "unborn"
    BY NodesApart
  <2> QED
    BY <1>3, <2>1, BodiesThen
<1>7. Distinct'
  BY DistinctSame
<1>8. Due'
  <2>1. Lists' = Lists
    BY DEF Lists
  <2>2. \A t \in Tasks : HeldFor(Writer(t))' = HeldFor(Writer(t))
    <3>1. ASSUME NEW t \in Tasks
          PROVE  HeldFor(Writer(t))' = HeldFor(Writer(t))
      <4>1. PICK d : d = Writer(t)
        OBVIOUS
      <4>2. HeldFor(d)' = HeldFor(d)
        BY HeldForSlots
      <4> QED
        BY <4>1, <4>2 DEF Writer, HeldFor, HeldSlots
    <3> QED
      BY <3>1
  <2> QED
    BY <1>3, <2>1, <2>2, DueThen
<1>9. Undisturbed
  <2>1. \A n \in Nodes : \A p \in Slots(n) : Vacant(n, p) => Vacant(n, p)'
    BY DEF Vacant, Openable, Null, Ready
  <2> QED
    BY <1>3, <2>1, UndisturbedThen
<1>10. Stores'
  <2>1. \A s \in Storage : Finished(s)' <=> Finished(s)
    BY DEF Finished, Null
  <2> QED
    BY <1>9, <2>1, StoresKept
<1>11. Homes' /\ Firsts'
  BY <1>9, HomesKept, FirstsKept
<1>12. Callers'
  BY <1>3, <1>9, CallsThen
<1>13. Tallies'
  <2>1. ASSUME NEW n \in Nodes, NEW p \in Slots(n)
        PROVE  Tallied(n, p)'
    <3>1. Finished(n)' <=> Finished(n)
      BY DEF Finished, Null
    <3>2. Cur(x) \notin Marks(n, p) /\ \A i \in DOMAIN fs : fs[i] \notin Marks(n, p) /\ fs[i] \notin Turning(n, p)
      BY <1>3 DEF Marks, Turning
    <3>3. Lists' = Lists
      BY DEF Lists
    <3> QED
      BY <3>1, <3>2, <3>3, TalliedThen
  <2>2. \A n \in Nodes : Slots(n)' = Slots(n)
    BY DEF Slots, Writes
  <2> QED
    BY <2>1, <2>2 DEF Tallies
<1> QED
  BY <1>4, <1>5, <1>6, <1>7, <1>8, <1>10, <1>11, <1>12, <1>13 DEF Core

LEMMA AtTop ==
  ASSUME TypeOK, NEW x \in Threads, NEW op, At(x, op)
  PROVE  todo[x] # <<>> /\ Cur(x).op = op /\ Cur(x).node \in Nodes /\ Cur(x).port \in Port /\ Cur(x).k \in Int
<1>1. todo[x] # <<>> /\ Cur(x).op = op
  BY DEF At, Cur
<1> QED
  BY <1>1, CurFrame DEF Frame

LEMMA CalmPop ==
  ASSUME Core, TypeOK', NEW x \in Threads, todo[x] # <<>>, Then(x, <<>>), Cur(x).op \in Plain,
         UNCHANGED <<head, startCount, nextWriter, countdown, count, setup, ghost>>,
         \A n \in Nodes : node'[n] = "unborn" <=> node[n] = "unborn"
  PROVE  Core'
<1>1. <<>> \in Seq(Frame) /\ DOMAIN <<>> = {}
  OBVIOUS
<1> QED
  BY <1>1, Calm

LEMMA CalmOne ==
  ASSUME Core, TypeOK', NEW x \in Threads, todo[x] # <<>>, NEW f \in Frame, Then(x, <<f>>), Cur(x).op \in Plain,
         f.op \in {"block", "sub"}, f.op = "sub" => node'[f.node] # "unborn",
         UNCHANGED <<head, startCount, nextWriter, countdown, count, setup, ghost>>,
         \A n \in Nodes : node'[n] = "unborn" <=> node[n] = "unborn"
  PROVE  Core'
<1> DEFINE fs == <<f>>
<1>1. fs \in Seq(Frame) /\ DOMAIN fs = {1} /\ fs[1] = f /\ Then(x, fs)
  OBVIOUS
<1> HIDE DEF fs
<1>2. ASSUME NEW i \in DOMAIN fs
      PROVE  fs[i].op \in {"block", "sub"} /\ Fits(fs[i])'
  <2>1. PICK g : g = fs[i]
    OBVIOUS
  <2>2. g = f
    BY <1>1, <2>1
  <2>3. Fits(g)'
    BY <2>2 DEF Fits
  <2> QED
    BY <2>1, <2>2, <2>3 DEF Fits, Finished, Slots, Writes, Protection
<1>3. \A i \in DOMAIN fs : fs[i].op \in {"block", "sub"} /\ Fits(fs[i])'
  BY <1>2
<1> QED
  BY <1>1, <1>3, Calm

LEMMA WaitCore ==
  ASSUME Core, TypeOK', NEW x \in Clients, Wait(x)
  PROVE  Core'
<1>1. x \in Threads /\ todo[x] # <<>> /\ Cur(x).op = "wait" /\ Cur(x).node \in Nodes
  BY AtTop, NodesApart DEF Wait, Core
<1>2. F("block", Cur(x).node, 0, 0) \in Frame /\ F("block", Cur(x).node, 0, 0).op = "block"
  BY <1>1, NodesApart DEF F, Frame, WaitOps
<1>3. Then(x, <<>>) \/ Then(x, <<F("block", Cur(x).node, 0, 0)>>)
  BY DEF Wait
<1> QED
  BY <1>1, <1>2, <1>3, CalmPop, CalmOne DEF Wait, Plain, engine

LEMMA BlockCore ==
  ASSUME Core, TypeOK', NEW x \in Clients, Block(x) \/ Get(x)
  PROVE  Core'
<1>1. x \in Threads /\ todo[x] # <<>> /\ Cur(x).op \in {"block", "get"}
  BY AtTop, NodesApart DEF Block, Get, Core
<1> QED
  BY <1>1, CalmPop DEF Block, Get, Plain, engine

LEMMA JoinCore ==
  ASSUME Core, TypeOK', NEW x \in Threads, Join(x)
  PROVE  Core'
<1>1. todo[x] # <<>> /\ Cur(x).op = "join"
  BY AtTop DEF Join, Core
<1> QED
  BY <1>1, CalmPop DEF Join, Plain, engine

LEMMA FreeBorn ==
  ASSUME TypeOK, NEW n \in Nodes, node[n] # "unborn", Free(n) \/ node' = node
  PROVE  \A m \in Nodes : node'[m] = "unborn" <=> node[m] = "unborn"
  BY DEF Free, TypeOK

LEMMA RelCore ==
  ASSUME Core, TypeOK', NEW x \in Threads, Rel(x)
  PROVE  Core'
<1>1. todo[x] # <<>> /\ Cur(x).op \in {"rel", "relall"} /\ Cur(x).node \in Nodes /\ Cur(x).k \in Int
  BY AtTop DEF Rel, Core
<1>2. Fits(Cur(x)) /\ Cur(x) \in FrameOf(x)
  BY <1>1, TopLies DEF Core
<1>3. node[Cur(x).node] # "unborn"
  BY <1>1, <1>2 DEF Fits
<1>4. UNCHANGED <<head, startCount, nextWriter, countdown, count, setup, ghost>>
  BY DEF Rel
<1>5. PICK k \in Int : k = IF At(x, "relall") THEN refs[Cur(x).node] ELSE Cur(x).k
  <2>1. At(x, "relall") => Cur(x).node \in Tasks
    BY <1>2 DEF At, Cur, FrameOf
  <2>2. At(x, "relall") => refs[Cur(x).node] \in Int
    BY <2>1 DEF Core, TypeOK
  <2> QED
    BY <1>1, <2>2
<1>6. (Free(Cur(x).node) /\ Then(x, <<>>)) \/ (Then(x, <<F("sub", Cur(x).node, 0, k)>>) /\ node' = node)
  BY <1>5 DEF Rel
<1>7. \A m \in Nodes : node'[m] = "unborn" <=> node[m] = "unborn"
  BY <1>1, <1>3, <1>6, FreeBorn DEF Core
<1>8. F("sub", Cur(x).node, 0, k) \in Frame /\ F("sub", Cur(x).node, 0, k).op = "sub"
      /\ F("sub", Cur(x).node, 0, k).node = Cur(x).node
  BY <1>1, NodesApart DEF F, Frame, CountOps
<1>9. Cur(x).op \in Plain
  BY <1>1 DEF Plain
<1>10. CASE Then(x, <<>>)
  BY <1>1, <1>4, <1>7, <1>9, <1>10, CalmPop
<1>11. CASE Then(x, <<F("sub", Cur(x).node, 0, k)>>) /\ node' = node
  BY <1>1, <1>3, <1>4, <1>7, <1>8, <1>9, <1>11, CalmOne
<1> QED
  BY <1>6, <1>10, <1>11

LEMMA SubCore ==
  ASSUME Core, TypeOK', NEW x \in Threads, Sub(x)
  PROVE  Core'
<1>1. todo[x] # <<>> /\ Cur(x).op = "sub" /\ Cur(x).node \in Nodes
  BY AtTop DEF Sub, Core
<1>2. Fits(Cur(x))
  BY <1>1, TopLies DEF Core
<1>3. node[Cur(x).node] # "unborn"
  BY <1>1, <1>2 DEF Fits
<1>4. Free(Cur(x).node) \/ node' = node
  BY DEF Sub
<1>5. \A m \in Nodes : node'[m] = "unborn" <=> node[m] = "unborn"
  BY <1>1, <1>3, <1>4, FreeBorn DEF Core
<1> QED
  BY <1>1, <1>5, CalmPop DEF Sub, Plain

LEMMA WakeupCore ==
  ASSUME Core, TypeOK', NEW t \in Tasks, Wakeup(t)
  PROVE  Core'
<1>1. t \in Threads /\ todo[t] # <<>> /\ Cur(t).op = "wakeup"
  BY AtTop, NodesApart DEF Wakeup, Core
<1> QED
  BY <1>1, CalmPop DEF Wakeup, Plain

(***************************************************************************)
(* A client that was at rest makes a call                                  *)
(***************************************************************************)
LEMMA AtRest ==
  ASSUME TypeOK, NEW x \in Clients, ~InCall(x)
  PROVE  x \in Threads /\ todo[x] = <<>> /\ Ahead(x) = {} /\ ~InRun(x)
         /\ \A v : ~Reads(x, v) /\ ~Modifies(x, v)
<1>1. x \in Threads /\ todo[x] = <<>>
  BY NodesApart DEF InCall
<1>2. Ahead(x) = {}
  BY <1>1 DEF Ahead
<1>3. ~InRun(x)
  BY <1>2, RunAhead
<1> QED
  BY <1>1, <1>2, <1>3 DEF Reads, Modifies, CallArgs

(* The frames of the call are all it has ahead of it. *)
LEMMA CallIs ==
  ASSUME Core, NEW x \in Clients, ~InCall(x), NEW fs \in Seq(Frame), todo' = [todo EXCEPT ![x] = fs]
  PROVE  /\ Upon(todo', todo, x, fs) /\ todo'[x] = fs /\ Ahead(x)' = {fs[i] : i \in DOMAIN fs}
         /\ \A y \in Threads : y # x => todo'[y] = todo[y] /\ Ahead(y)' = Ahead(y)
         /\ \A t \in Tasks : todo'[t] = todo[t]
         /\ \A P : /\ Count(todo', P) \in Nat /\ Count(todo, P) \in Nat /\ Number(fs, P) \in Nat
                   /\ Count(todo', P) = Count(todo, P) + Number(fs, P)
<1>1. x \in Threads /\ todo[x] = <<>>
  BY AtRest DEF Core
<1>2. fs \o todo[x] = fs
  BY <1>1
<1>3. Upon(todo', todo, x, fs)
  BY <1>2 DEF Upon
<1>4. todo'[x] = fs /\ \A y \in Threads : y # x => todo'[y] = todo[y]
  BY <1>1 DEF Core, TypeOK, FramesFit
<1>5. \A P : /\ Count(todo', P) \in Nat /\ Count(todo, P) \in Nat /\ Number(fs, P) \in Nat
             /\ Count(todo', P) = Count(todo, P) + Number(fs, P)
  <2>1. todo \in Family(Threads, Frame) /\ IsFiniteSet(Threads)
    BY Families, Finite DEF Core
  <2> QED
    BY <1>1, <1>3, <2>1, CountOnto
<1>6. \A t \in Tasks : t \in Threads /\ t # x
  BY NodesApart
<1> QED
  BY <1>3, <1>4, <1>5, <1>6 DEF Ahead

LEMMA WaitVarCore ==
  ASSUME Core, TypeOK', NEW x \in Clients, NEW v \in Waitable, WaitVar(x, v)
  PROVE  Core'
<1> USE DEF setup, ghost, engine
<1> DEFINE fs == <<F("wait", v, 0, 0), F("get", v, 0, 0)>>
<1>1. v \in Nodes /\ x \in Threads /\ ~InCall(x)
  BY ConstantsAssumption, NodesApart DEF WaitVar
<1>2. UNCHANGED <<node, engine, setup, ghost>> /\ todo' = [todo EXCEPT ![x] = fs]
  BY DEF WaitVar
<1>3. fs \in Seq(Frame) /\ DOMAIN fs = {1, 2} /\ \A i \in DOMAIN fs : fs[i].op \in {"wait", "get"}
  <2>1. F("wait", v, 0, 0) \in Frame /\ F("get", v, 0, 0) \in Frame
    BY <1>1, NodesApart DEF F, Frame, WaitOps
  <2>2. F("wait", v, 0, 0).op = "wait" /\ F("get", v, 0, 0).op = "get"
    BY DEF F
  <2> QED
    BY <2>1, <2>2, Short
<1> HIDE DEF fs
<1>4. Steady /\ Owing
  BY <1>2, SteadyIf DEF Owing
<1>5. /\ Upon(todo', todo, x, fs) /\ todo'[x] = fs /\ Ahead(x)' = {fs[i] : i \in DOMAIN fs}
      /\ \A y \in Threads : y # x => todo'[y] = todo[y] /\ Ahead(y)' = Ahead(y)
      /\ \A t \in Tasks : todo'[t] = todo[t]
      /\ \A P : /\ Count(todo', P) \in Nat /\ Count(todo, P) \in Nat /\ Number(fs, P) \in Nat
                /\ Count(todo', P) = Count(todo, P) + Number(fs, P)
  BY <1>1, <1>2, <1>3, CallIs
<1>6. Placed'
  <2>1. Sits(x, fs, Ahead(x)) /\ \A i \in DOMAIN fs : Fits(fs[i])'
    BY <1>3 DEF Sits, Fits, Calling, Asking, BodyOps
  <2> QED
    BY <1>1, <1>2, <1>3, <1>4, <1>5, <2>1, PlacedUpon
<1>7. Linked'
  BY <1>2, <1>4, LinkedSame DEF Lists
<1>8. Bodies'
  <2>1. ASSUME NEW t \in Tasks
        PROVE  Staged(t)'
    BY <1>2, <1>5, StagedKept
  <2> QED
    BY <2>1 DEF Bodies
<1>9. Distinct'
  BY <1>2, DistinctSame
<1>10. \A P : (\A i \in DOMAIN fs : fs[i] \notin P) => Count(todo', P) = Count(todo, P)
  BY <1>3, <1>5, NumberNone
<1>11. Due'
  <2>1. ASSUME NEW t \in Tasks
        PROVE  Counted(t)'
    <3>1. \A i \in DOMAIN fs : fs[i] \notin Notices(t) /\ fs[i] \notin Protecting(t)
      BY <1>3, NoticeOps
    <3>2. Coming(t)' = Coming(t)
      <4>1. HeldFor(Writer(t))' = HeldFor(Writer(t))
        BY <1>2 DEF HeldFor, HeldSlots, Writer, Slots, Writes
      <4> QED
        BY <1>2, <1>10, <3>1, <4>1, NoticeOps DEF Coming, Lists
    <3> QED
      BY <1>2, <1>10, <3>1, <3>2, CountedKept
  <2> QED
    BY <2>1 DEF Due
<1>12. Undisturbed
  <2>1. \A n \in Nodes : \A p \in Slots(n) : Vacant(n, p) => Vacant(n, p)'
    BY <1>2 DEF Vacant, Openable, Null, Ready
  <2>2. Ahead(x) = {} /\ \A f \in Ahead(x)' : f.op \in {"wait", "get"}
    BY <1>1, <1>3, <1>5, AtRest DEF Core
  <2>3. \A y \in Clients : \A f : f.op \in {"arg", "return"} => (f \in Ahead(y)' <=> f \in Ahead(y))
    BY <1>5, <2>2, NodesApart
  <2>4. ASSUME NEW y \in Clients, NEW i
        PROVE  ToWrite(y, i)' <=> ToWrite(y, i)
    <3>1. PICK f : f = F("arg", making[y], i, 0)
      OBVIOUS
    <3>2. f \in Ahead(y)' <=> f \in Ahead(y)
      BY <2>3, <3>1 DEF F
    <3>3. F("arg", making[y], i, 0)' = f /\ Writes(making[y])' = Writes(making[y])
      BY <1>2, <3>1 DEF F, Writes
    <3> QED
      BY <3>1, <3>2, <3>3 DEF ToWrite
  <2> QED
    BY <1>2, <2>1, <2>3, <2>4 DEF Undisturbed
<1>13. Stores'
  BY <1>2, <1>12, StoresKept DEF Finished, Null
<1>14. Homes' /\ Firsts'
  BY <1>12, HomesKept, FirstsKept
<1>15. Callers'
  <2>1. \A y \in Clients : InRun(y) => y # x
    BY <1>1, AtRest DEF Core
  <2>2. \A y \in Clients : InRun(y) => owed'[making[y]] + Number(todo'[y], Asks) <= Len(args[making[y]])
    BY <1>2, <1>5, <2>1, NodesApart DEF Core, Callers, Called, Asks
  <2>3. \A y \in Clients : \A f \in Ahead(y)' : f.op \in {"link", "hop", "late"} => f \in Ahead(y)
    <3>1. \A f \in Ahead(x)' : f.op \notin {"link", "hop", "late"}
      BY <1>3, <1>5
    <3>2. \A y \in Clients : y # x => Ahead(y)' = Ahead(y)
      BY <1>5, NodesApart
    <3> QED
      BY <3>1, <3>2
  <2> QED
    BY <1>12, <2>2, <2>3, CallsKept
<1>16. Tallies'
  <2>1. ASSUME NEW n \in Nodes, NEW p \in Slots(n)
        PROVE  Tallied(n, p)'
    <3>1. \A i \in DOMAIN fs : fs[i] \notin Marks(n, p)
      BY <1>3 DEF Marks
    <3>2. \A P \in SUBSET Marks(n, p) : Count(todo', P) = Count(todo, P)
      BY <1>10, <3>1
    <3>3. \A y \in Threads : Ahead(y)' \cap Marks(n, p) \subseteq Ahead(y)
      BY <1>5, <3>1
    <3>4. n \in Tasks => Number(todo'[n], Turning(n, p)) <= Number(todo[n], Turning(n, p))
      <4>1. n \in Tasks => todo[n] \in Seq(Frame) /\ todo'[n] = todo[n]
        BY <1>5, Families, NodesApart DEF Core
      <4>2. n \in Tasks => Number(todo[n], Turning(n, p)) \in Nat
        BY <4>1, NumberType
      <4> QED
        BY <4>1, <4>2
    <3>5. Finished(n)' <=> Finished(n)
      BY <1>2 DEF Finished, Null
    <3>6. Count(Lists', {BackOnly(n, p)}) = Count(Lists, {BackOnly(n, p)})
      BY <1>2 DEF Lists
    <3> QED
      BY <1>2, <3>2, <3>3, <3>4, <3>5, <3>6, TalliedKept
  <2>2. \A n \in Nodes : Slots(n)' = Slots(n)
    BY <1>2 DEF Slots, Writes
  <2> QED
    BY <2>1, <2>2 DEF Tallies
<1> QED
  BY <1>6, <1>7, <1>8, <1>9, <1>11, <1>13, <1>14, <1>15, <1>16 DEF Core

(***************************************************************************)
(* The arguments of a call are set up                                      *)
(***************************************************************************)
LEMMA SlotsStay ==
  ASSUME args' = args
  PROVE  \A n : Slots(n)' = Slots(n)
  BY DEF Slots, Writes

LEMMA HeldForStays ==
  ASSUME args' = args, countdown' = countdown, nextWriter' = nextWriter, NEW t
  PROVE  HeldFor(Writer(t))' = HeldFor(Writer(t))
<1>1. \A n : Slots(n)' = Slots(n)
  BY SlotsStay
<1>2. Writer(t)' = Writer(t)
  BY DEF Writer
<1> QED
  BY <1>1, <1>2 DEF HeldFor, HeldSlots

LEMMA OneIs ==
  ASSUME NEW S, NEW f \in S, NEW fs, fs = <<f>>
  PROVE  fs \in Seq(S) /\ DOMAIN fs = {1} /\ fs[1] = f /\ \A i \in DOMAIN fs : fs[i] = f
  OBVIOUS

(* What a client still asks for. *)
LEMMA AskOn ==
  ASSUME Core, TypeOK', NEW x \in Clients, todo[x] # <<>>, NEW g \in Frame, Then(x, <<g>>),
         Cur(x).op \in Asking, Cur(x).op = "arg" => Cur(x).port \notin Writes(making[x]),
         g.op \in {"link", "hop", "late"}, g.op = "link" => Begins(x, g.node, g.port),
         g.op \in {"hop", "late"} => Finds(x, g.node, g.port), g.op = "hop" => g.node \in Tasks,
         g.op = "late" => head[g.node].tag = "done",
         UNCHANGED <<node, engine, setup, ghost>>
  PROVE  Core'
<1> USE DEF setup, ghost, engine
<1>1. x \in Threads
  BY NodesApart
<1>2. PICK fs : fs = <<g>>
  OBVIOUS
<1>3. fs \in Seq(Frame) /\ Then(x, fs) /\ \A i \in DOMAIN fs : fs[i] = g
  BY <1>2, OneIs
<1>4. Steady /\ Owing
  BY SteadyIf DEF Owing
<1>5. /\ Cur(x).op \notin {"flow", "move", "pre", "bind", "hold", "dec", "out", "return", "start", "finish", "exchange"}
      /\ g.op \notin {"flow", "move", "pre", "bind", "hold", "dec", "out", "arg", "return", "start", "finish", "exchange"}
  BY DEF Asking
<1>6. BindOf(x) \in After(todo[x], 1) /\ Cur(x) \in Ahead(x) /\ Cur(x) \in Frame
  <2>1. Lies(x, todo[x], 1) /\ todo[x][1] = Cur(x) /\ Cur(x) \in Ahead(x) /\ Cur(x) \in Frame
    BY <1>1, TopLies DEF Core
  <2> QED
    BY <2>1 DEF Lies, Calling
<1>7. Placed'
  <2>1. Fits(g)'
    BY <1>5 DEF Fits
  <2> QED
    BY <1>1, <1>4, <1>6, <2>1, PlacedOne DEF BodyOps
<1>8. Linked'
  BY <1>4, LinkedSame DEF Lists
<1>9. Bodies'
  BY <1>1, <1>3, <1>5, BodiesThen
<1>10. Distinct'
  BY DistinctSame
<1>11. Due'
  <2>1. \A t \in Tasks : HeldFor(Writer(t))' = HeldFor(Writer(t))
    BY HeldForStays
  <2>2. Lists' = Lists
    BY DEF Lists
  <2> QED
    BY <1>1, <1>3, <1>5, <2>1, <2>2, DueThen
<1>12. /\ Ahead(x) = {Cur(x)} \cup After(todo[x], 1)
       /\ Ahead(x)' = {fs[i] : i \in DOMAIN fs} \cup After(todo[x], 1)
       /\ \A y \in Threads : y # x => todo'[y] = todo[y] /\ Ahead(y)' = Ahead(y)
  BY <1>1, <1>3, AheadThen DEF Core
<1>13. /\ \A f : f \in Ahead(x)' => f = g \/ f \in After(todo[x], 1)
       /\ \A f : f \in Ahead(x) => f = Cur(x) \/ f \in After(todo[x], 1)
       /\ \A f : f \in After(todo[x], 1) => f \in Ahead(x) /\ f \in Ahead(x)'
  BY <1>3, <1>12
<1>14. Undisturbed
  <2>1. \A n \in Nodes : \A p \in Slots(n) : Vacant(n, p) => Vacant(n, p)'
    BY DEF Vacant, Openable, Null, Ready
  <2>2. \A y \in Clients : \A f : f.op = "return" => (f \in Ahead(y)' <=> f \in Ahead(y))
    <3>1. \A f : f.op = "return" => (f \in Ahead(x)' <=> f \in Ahead(x))
      BY <1>5, <1>13
    <3> QED
      BY <1>12, <3>1, NodesApart
  <2>3. ASSUME NEW y \in Clients, NEW i
        PROVE  ToWrite(y, i)' <=> ToWrite(y, i)
    <3>1. PICK f : f = F("arg", making[y], i, 0)
      OBVIOUS
    <3>2. F("arg", making[y], i, 0)' = f /\ Writes(making[y])' = Writes(making[y])
      BY <3>1 DEF F, Writes
    <3>3. f.op = "arg" /\ f.port = i
      BY <3>1 DEF F
    <3>4. CASE y # x
      BY <1>12, <3>1, <3>2, <3>4, NodesApart DEF ToWrite
    <3>5. CASE y = x
      <4>1. i \in Writes(making[x]) => f # Cur(x)
        BY <3>3
      <4>2. f # g
        BY <1>5, <3>3
      <4>3. i \in Writes(making[x]) => (f \in Ahead(x)' <=> f \in Ahead(x))
        BY <1>13, <4>1, <4>2
      <4> QED
        BY <3>1, <3>2, <3>5, <4>3 DEF ToWrite
    <3> QED
      BY <3>4, <3>5
  <2> QED
    BY <2>1, <2>2, <2>3 DEF Undisturbed
<1>15. Stores'
  BY <1>14, StoresKept DEF Finished, Null
<1>16. Homes' /\ Firsts'
  BY <1>14, HomesKept, FirstsKept
<1>17. Callers'
  <2>1. Number(fs, Asks) <= One(Cur(x) \in Asks)
    <3>1. Number(fs, Asks) = One(g \in Asks)
      BY <1>2, NumberOne
    <3>2. Cur(x) \in Asks
      BY <1>6 DEF Asks
    <3> QED
      BY <3>1, <3>2 DEF One
  <2>2. \A y \in Clients : InRun(y) => owed'[making[y]] + Number(todo'[y], Asks) <= Len(args[making[y]])
    BY <1>1, <1>3, <2>1, OwedThen
  <2>3. ASSUME NEW y \in Clients, NEW f \in Ahead(y)', f.op \in {"link", "hop", "late"}
        PROVE  \/ f \in Ahead(y)
               \/ /\ f.op = "link" => Begins(y, f.node, f.port)
                  /\ f.op \in {"hop", "late"} => Finds(y, f.node, f.port)
                  /\ f.op = "hop" => f.node \in Tasks
    <3>1. y # x => f \in Ahead(y)
      BY <1>12, <2>3, NodesApart
    <3>2. y = x => f = g \/ f \in Ahead(y)
      BY <1>13, <2>3
    <3> QED
      BY <3>1, <3>2
  <2> QED
    BY <1>14, <2>2, <2>3, CallsKept
<1>18. Tallies'
  <2>1. ASSUME NEW n \in Nodes, NEW p \in Slots(n)
        PROVE  Tallied(n, p)'
    <3>1. Finished(n)' <=> Finished(n)
      BY DEF Finished, Null
    <3>2. Cur(x) \notin Marks(n, p) /\ g \notin Marks(n, p) /\ g \notin Turning(n, p)
      BY <1>5 DEF Marks, Turning
    <3>3. Lists' = Lists
      BY DEF Lists
    <3> QED
      BY <1>1, <1>3, <3>1, <3>2, <3>3, TalliedThen
  <2> QED
    BY <2>1, SlotsStay DEF Tallies
<1> QED
  BY <1>7, <1>8, <1>9, <1>10, <1>11, <1>15, <1>16, <1>17, <1>18 DEF Core

LEMMA ReadArgCore ==
  ASSUME Core, TypeOK', NEW x \in Clients, ReadArg(x)
  PROVE  Core'
<1>1. At(x, "arg") /\ x \in Threads /\ todo[x] # <<>> /\ Cur(x).op = "arg"
  BY AtTop, NodesApart, AtArg DEF Core
<1>2. making[x] \in Tasks /\ Cur(x).port \in DOMAIN args[making[x]]
  BY <1>1, InSetup DEF Core, SetupOps
<1>3. PICK i \in DOMAIN args[making[x]] : i = Cur(x).port
  BY <1>2
<1>4. PICK v \in Nodes : v = args[making[x]][i].v
  BY <1>2, ArgOf DEF Core
<1>5. PICK g : g = F("link", var[v].cur, var[v].port, 0)
  OBVIOUS
<1>6. g.op = "link" /\ g.node = var[v].cur /\ g.port = var[v].port
  BY <1>5 DEF F
<1>7. var[v].cur \in Nodes /\ var[v].port \in Port
  BY Zenon DEF Core, TypeOK, OoxVar
<1>8. g \in Frame
  BY <1>5, <1>7 DEF F, Frame, SetupOps
<1>9. ~args[making[x]][i].w /\ Then(x, <<g>>) /\ UNCHANGED <<node, engine, setup, ghost>>
  BY Zenon, <1>3, <1>4, <1>5, ReadArgSays
<1>10. InRun(x)
  <2>1. Cur(x) \in Ahead(x)
    BY <1>1, TopLies DEF Core
  <2> QED
    BY <1>1, <2>1, SettingUp DEF Core, Calling, Asking
<1>11. Reads(x, v) /\ i \notin Writes(making[x])
  BY <1>4, <1>9, <1>10, ArgumentOf DEF Core
<1>12. Begins(x, g.node, g.port)
  BY <1>6, <1>11 DEF Begins, Finds, Leads, SlotOf
<1> QED
  BY <1>1, <1>3, <1>6, <1>8, <1>9, <1>11, <1>12, AskOn DEF Asking

LEMMA RedirectsTo ==
  ASSUME TypeOK, Bodies, Stores, NEW v \in Nodes, NEW n, NEW p, head[v] = Redirect(n, p)
  PROVE  /\ n \in Tasks /\ v \in Storage /\ v \in Deferred /\ Finished(v) /\ n \notin Storage
         /\ \E i \in Writes(n) : args[n][i].v = v /\ p = PortOf(n, i)
<1>1. head[v].tag = "redirect"
  BY RedirectIs
<1>2. PICK t \in Tasks : \E i \in Writes(t) : args[t][i].v = v /\ head[v] = Redirect(t, PortOf(t, i))
  BY <1>1, Redirects
<1>3. PICK i \in Writes(t) : args[t][i].v = v /\ head[v] = Redirect(t, PortOf(t, i))
  BY <1>2
<1>4. PICK q : q = PortOf(t, i)
  OBVIOUS
<1>5. Redirect(n, p) = Redirect(t, q)
  BY <1>3, <1>4
<1>6. n = t /\ p = q
  BY <1>5, RedirectIs
<1> QED
  BY <1>1, <1>3, <1>4, <1>6, Redirects, ConstantsAssumption

(* An arc is hung on a producer that is not done. *)
LEMMA AddArcCore ==
  ASSUME Core, TypeOK', NEW x \in Clients, todo[x] # <<>>, Cur(x).op \in {"link", "hop"},
         NEW n \in Nodes, NEW p \in Port, Begins(x, n, p), AddArc(x, n, p),
         UNCHANGED <<node, startCount, life, nextWriter, countdown, woken, count, refs, var, args, making, ghost>>
  PROVE  Core'
<1> USE DEF ghost
<1>0. PICK t : t = making[x]
  OBVIOUS
<1>a. PICK a : a = FlowBack(t, p)
  OBVIOUS
<1>1. x \in Threads /\ Cur(x) \in Ahead(x) /\ Cur(x) \in Frame
  BY TopLies, NodesApart DEF Core
<1>2. Finds(x, n, p)
  BY DEF Begins, AddArc
<1>3. p \in Slots(n)
  BY <1>2, FindsSlot DEF Core
<1>4. /\ InRun(x) /\ t \in Tasks /\ t \in Nodes /\ phase[t] = "pending" /\ Guards(t) = 1
      /\ startCount[t] = Coming(t) + Protection(t)
  BY <1>0, <1>1, SettingUp DEF Core, Calling, Asking
<1>5. a \in Arc /\ a.kind = "flow_back" /\ a.node = t /\ a.port = p
  BY <1>4, <1>a, ArcTypes DEF FlowBack
<1>6. /\ head[n].tag = "open" /\ Push(n, a) /\ owed' = [owed EXCEPT ![t] = @ + 1] /\ Then(x, <<>>)
  BY <1>0, <1>a DEF AddArc, Owe
<1>7. PICK fs : fs = <<>>
  OBVIOUS
<1>8. fs \in Seq(Frame) /\ DOMAIN fs = {} /\ Then(x, fs)
  BY <1>6, <1>7
<1>9. /\ \A m \in Nodes : head'[m].tag = head[m].tag /\ (m # n => head'[m] = head[m])
  BY <1>5, <1>6, PushLists DEF Core
<1>10. Steady
  BY <1>9, SteadyIf
<1>11. owed'[t] = owed[t] + 1 /\ \A u \in Tasks : u # t => owed'[u] = owed[u]
  BY <1>4, <1>6 DEF Core, TypeOK
<1>12. Owing
  BY <1>0, <1>1, <1>11 DEF Owing, Calling, Asking
<1>13. Placed'
  BY <1>1, <1>6, <1>10, <1>12, PlacedPop
<1>14. Linked'
  <2>1. Apt(n, a)'
    BY <1>3, <1>4, <1>5, SlotsStay DEF Apt
  <2> QED
    BY <1>5, <1>6, <1>10, <2>1, LinkedPush
<1>15. Bodies'
  <2>1. ASSUME NEW u \in Tasks
        PROVE  /\ node'[u] = "unborn" <=> node[u] = "unborn"
               /\ head'[u].tag = head[u].tag
               /\ phase[u] = "idle" => /\ owed'[u] = owed[u] /\ nextWriter'[u] = nextWriter[u]
                                       /\ countdown'[u] = countdown[u]
    BY <1>4, <1>9, <1>11, NodesApart
  <2> QED
    BY <1>1, <1>8, <2>1, BodiesThen
<1>16. Distinct'
  BY DistinctSame
<1>17. /\ owed[t] + Number(todo[x], Asks) <= Len(args[t]) /\ \A y \in Clients : making[y] = t => y = x
       /\ \A y \in Clients : InRun(y) => owed[making[y]] + Number(todo[y], Asks) <= Len(args[making[y]])
                                         /\ making[y] \in Tasks
  <2>1. t # NoTask
    BY <1>4, ConstantsAssumption DEF NoTask
  <2> QED
    BY <1>0, <1>4, <2>1 DEF Core, Callers, Called, Asks
<1>18. /\ Number(todo[x], Asks) = 1 + Number(Tail(todo[x]), Asks)
       /\ Number(Tail(todo[x]), Asks) \in Nat /\ Number(todo[x], Asks) \in Nat
       /\ todo'[x] = Tail(todo[x])
  <2>1. todo[x] \in Seq(Frame) /\ Tail(todo[x]) \in Seq(Frame)
    BY <1>1, Families DEF Core
  <2>2. Cur(x) \in Asks
    BY <1>1 DEF Asks, Asking
  <2>3. todo'[x] = Tail(todo[x])
    <3>1. todo'[x] = <<>> \o Tail(todo[x])
      BY <1>1, <1>6 DEF Then, Core, TypeOK, FramesFit
    <3> QED
      BY <2>1, <3>1
  <2>4. Number(todo[x], Asks) = One(Head(todo[x]) \in Asks) + Number(Tail(todo[x]), Asks)
    BY <2>1, NumberTail
  <2>5. Number(Tail(todo[x]), Asks) \in Nat /\ Number(todo[x], Asks) \in Nat
    BY <2>1, NumberType
  <2>6. One(Head(todo[x]) \in Asks) = 1
    BY <2>2 DEF One, Cur
  <2> QED
    BY <2>3, <2>4, <2>5, <2>6
<1>19. owed[t] \in Int /\ Len(args[t]) \in Nat /\ owed[t] \in 0..Len(args[t])
  BY <1>4 DEF Core, TypeOK, Due, Counted
<1>20. Due'
  <2>1. ASSUME NEW u \in Tasks
        PROVE  Counted(u)'
    <3>1. Count(todo', Notices(u)) = Count(todo, Notices(u)) /\ Count(todo', Protecting(u)) = Count(todo, Protecting(u))
      BY <1>1, <1>8, NoticeOps, ThenNone DEF Core
    <3>2. HeldFor(Writer(u))' = HeldFor(Writer(u))
      BY HeldForStays
    <3>3. /\ Count(Lists', ArcsTo(u)) = Count(Lists, ArcsTo(u)) + One(a \in ArcsTo(u))
          /\ Count(Lists, ArcsTo(u)) \in Nat
      BY <1>5, <1>6, PushCount DEF Core
    <3>4. a \in ArcsTo(u) <=> u = t
      BY <1>5 DEF ArcsTo
    <3>5. CASE u # t
      <4>1. Coming(u)' = Coming(u)
        BY <3>1, <3>2, <3>3, <3>4, <3>5, NoticeOps DEF Coming, One
      <4> QED
        BY <1>11, <3>1, <3>5, <4>1, CountedKept
    <3>6. CASE u = t
      <4>1. Coming(u)' = Coming(u) + 1
        <5>1. Count(todo, Notices(u)) \in Nat /\ HeldFor(Writer(u)) \in Nat
          BY CountNat, HeldForNat DEF Core
        <5> QED
          BY <3>1, <3>2, <3>3, <3>4, <3>6, <5>1, NoticeOps DEF Coming, One
      <4>2. Coming(u) \in Nat
        <5>1. Count(todo, Notices(u)) \in Nat /\ HeldFor(Writer(u)) \in Nat
          BY CountNat, HeldForNat DEF Core
        <5> QED
          BY <3>3, <5>1 DEF Coming
      <4>3. Guards(u)' = 1
        BY <1>4, <3>1, <3>6, NoticeOps DEF Guards
      <4>4. Protection(u)' = Protection(u) - 1 /\ Protection(u) \in Int
        BY <1>11, <1>19, <3>6, Numbers DEF Protection
      <4>5. Coming(u) <= owed[u] /\ startCount[u] = Coming(u) + Protection(u)
        BY <1>4, <3>6 DEF Core, Due, Counted
      <4>6. startCount'[u] = Coming(u)' + Protection(u)' /\ Coming(u)' <= owed'[u]
        BY <1>11, <1>19, <3>6, <4>1, <4>2, <4>4, <4>5
      <4>7. owed'[u] \in 0..Len(args'[u])
        BY <1>11, <1>17, <1>18, <1>19, <3>6
      <4> QED
        BY <4>3, <4>6, <4>7 DEF Counted
    <3> QED
      BY <3>5, <3>6
  <2> QED
    BY <2>1 DEF Due
<1>21. Undisturbed
  <2>1. \A m \in Nodes : \A q \in Slots(m) : Vacant(m, q) => Vacant(m, q)'
    BY DEF Vacant, Openable, Null, Ready
  <2>2. \A m \in Nodes : \/ head'[m] = head[m]
                         \/ /\ head[m].tag = "open" /\ head'[m].tag \in {"open", "done"}
                            /\ m \in Storage => head'[m].tag = "open"
    BY <1>6, <1>9
  <2> QED
    BY <1>1, <1>8, <2>1, <2>2, UndisturbedThen
<1>22. Stores'
  <2>1. n \in Storage => Finished(n)
    <3>1. PICK v \in Nodes : Reads(x, v) /\ Leads(v, n, p)
      BY <1>2 DEF Finds
    <3>2. InUse(v)
      BY <3>1, Argument DEF Core
    <3>3. CASE SlotOf(v) = <<n, p>>
      <4>1. var[v].cur = n
        BY <3>3 DEF SlotOf
      <4>2. node[n] # "unborn"
        BY <3>2, <4>1, SlotIs DEF Core
      <4> QED
        BY <4>2 DEF Core, Stores, Stored
    <3>4. CASE head[v] = Redirect(n, p)
      BY <3>4, RedirectsTo DEF Core
    <3> QED
      BY <3>1, <3>3, <3>4 DEF Leads
  <2>2. \A s \in Storage : Finished(s) \/ (head'[s] = head[s] /\ countdown'[s] = countdown[s])
    BY <1>9, <2>1 DEF Nodes
  <2> QED
    BY <1>21, <2>2, StoresKept DEF Finished, Null
<1>23. Homes' /\ Firsts'
  BY <1>21, HomesKept, FirstsKept
<1>24. Callers'
  <2>1. \A y \in Threads : y # x => todo'[y] = todo[y] /\ Ahead(y)' = Ahead(y)
    BY <1>1, <1>8, AheadThen DEF Core
  <2>2. ASSUME NEW y \in Clients, InRun(y)
        PROVE  owed'[making[y]] + Number(todo'[y], Asks) <= Len(args[making[y]])
    <3>1. CASE y = x
      BY SMTT(30), <1>0, <1>11, <1>17, <1>18, <1>19, <3>1
    <3>2. CASE y # x
      <4>1. making[y] # t /\ making[y] \in Tasks
        BY <1>17, <2>2, <3>2
      <4> QED
        BY <1>11, <1>17, <2>1, <2>2, <3>2, <4>1, NodesApart
    <3> QED
      BY <3>1, <3>2
  <2>3. \A f \in Ahead(x)' : f \in Ahead(x)
    BY <1>1, <1>8, AheadThen DEF Core
  <2>4. \A y \in Clients : \A f \in Ahead(y)' : f.op \in {"link", "hop", "late"} => f \in Ahead(y)
    BY <2>1, <2>3, NodesApart
  <2> QED
    BY <1>21, <2>2, <2>4, CallsKept
<1>25. Tallies'
  <2>1. ASSUME NEW m \in Nodes, NEW q \in Slots(m)
        PROVE  Tallied(m, q)'
    <3>1. Finished(m)' <=> Finished(m)
      BY DEF Finished, Null
    <3>2. Cur(x) \notin Marks(m, q)
      BY DEF Marks
    <3>3. Count(Lists', {BackOnly(m, q)}) = Count(Lists, {BackOnly(m, q)})
      <4>1. a \notin {BackOnly(m, q)}
        BY <1>5 DEF BackOnly
      <4>2. Count(Lists', {BackOnly(m, q)}) = Count(Lists, {BackOnly(m, q)}) + One(a \in {BackOnly(m, q)})
            /\ Count(Lists, {BackOnly(m, q)}) \in Nat
        BY <1>5, <1>6, PushCount DEF Core
      <4> QED
        BY <4>1, <4>2 DEF One
    <3> QED
      BY <1>1, <1>8, <1>9, <3>1, <3>2, <3>3, TalliedThen
  <2> QED
    BY <2>1, SlotsStay DEF Tallies
<1> QED
  BY <1>13, <1>14, <1>15, <1>16, <1>20, <1>22, <1>23, <1>24, <1>25 DEF Core

LEMMA LinkCore ==
  ASSUME Core, TypeOK', NEW x \in Clients, Link(x)
  PROVE  Core'
<1>1. At(x, "link") /\ x \in Threads /\ todo[x] # <<>> /\ Cur(x).op = "link" /\ Cur(x).node \in Nodes /\ Cur(x).port \in Port
  BY AtTop, NodesApart DEF Link, Core
<1>2. PICK n \in Nodes, p \in Port : n = Cur(x).node /\ p = Cur(x).port
  BY <1>1
<1>3. Begins(x, n, p)
  <2>1. Cur(x) \in Ahead(x)
    BY <1>1, TopLies DEF Core
  <2> QED
    BY <1>1, <1>2, <2>1 DEF Core, Callers, Called
<1>4. CASE AddArc(x, n, p)
  BY <1>1, <1>3, <1>4, AddArcCore DEF Link
<1>5. CASE /\ head[n].tag = "redirect"
           /\ Then(x, <<F("hop", head[n].arcs[1].node, head[n].arcs[1].port, 0)>>)
           /\ UNCHANGED <<head, owed>>
  <2>1. PICK m, q : m = head[n].arcs[1].node /\ q = head[n].arcs[1].port
    OBVIOUS
  <2>2. /\ n \in Storage
        /\ \E t \in Tasks : \E i \in Writes(t) : args[t][i].v = n /\ head[n] = Redirect(t, PortOf(t, i))
    BY <1>5, Redirects DEF Core
  <2>3. PICK t \in Tasks : \E i \in Writes(t) : args[t][i].v = n /\ head[n] = Redirect(t, PortOf(t, i))
    BY <2>2
  <2>4. PICK i \in Writes(t) : head[n] = Redirect(t, PortOf(t, i))
    BY <2>3
  <2>5. m = t /\ q = PortOf(t, i) /\ q \in Port /\ m \in Nodes /\ m \in Tasks /\ head[n] = Redirect(m, q)
    BY <2>1, <2>4, RedirectIs, PortsApart, NodesApart DEF Core
  <2>6. n \notin Tasks
    BY <2>2, ConstantsAssumption
  <2>7. Finds(x, m, q)
    <3>1. ASSUME NEW v \in Nodes, Reads(x, v), Leads(v, n, p)
          PROVE  Finds(x, m, q)
      <4>1. InUse(v)
        BY <3>1, Argument DEF Core
      <4>2. CASE SlotOf(v) = <<n, p>>
        <5>1. var[v].cur = n /\ var[v].port = p
          BY <4>2 DEF SlotOf
        <5>2. n = v /\ p \in Slots(n)
          BY <2>6, <4>1, <5>1, SlotIs DEF Core
        <5>3. p = 0
          BY <2>6, <5>2 DEF Slots
        <5>4. Leads(v, m, q)
          BY <2>5, <4>2, <5>2, <5>3 DEF Leads
        <5> QED
          BY <3>1, <5>4 DEF Finds
      <4>3. CASE head[v] = Redirect(n, p)
        BY <2>6, <4>3, RedirectsTo DEF Core
      <4> QED
        BY <3>1, <4>2, <4>3 DEF Leads
    <3>2. ASSUME Reads(x, n), Leads(n, head[n].arcs[1].node, head[n].arcs[1].port)
          PROVE  Finds(x, m, q)
      BY <2>1, <3>2 DEF Finds
    <3> QED
      BY <1>3, <3>1, <3>2 DEF Begins, Finds
  <2>8. PICK g : g = F("hop", m, q, 0)
    OBVIOUS
  <2>9. g \in Frame /\ g.op = "hop" /\ g.node = m /\ g.port = q
    BY <2>5, <2>8 DEF F, Frame, SetupOps
  <2>10. Then(x, <<g>>) /\ UNCHANGED <<node, engine, setup, ghost>>
    BY <1>5, <2>1, <2>8 DEF Link, engine, setup
  <2> QED
    BY <1>1, <2>5, <2>7, <2>9, <2>10, AskOn DEF Asking
<1>6. CASE /\ head[n].tag = "done" /\ Then(x, LateFrames(n, p)) /\ UNCHANGED <<head, owed>>
  <2>1. PICK g : g = F("late", n, p, 0)
    OBVIOUS
  <2>2. g \in Frame /\ g.op = "late" /\ g.node = n /\ g.port = p
    BY <2>1 DEF F, Frame, SetupOps
  <2>3. Then(x, <<g>>) /\ UNCHANGED <<node, engine, setup, ghost>>
    BY <1>6, <2>1 DEF Link, engine, setup, LateFrames
  <2>4. Finds(x, n, p)
    BY <1>3, <1>6 DEF Begins
  <2> QED
    BY <1>1, <1>6, <2>2, <2>3, <2>4, AskOn DEF Asking
<1> QED
  BY <1>2, <1>4, <1>5, <1>6 DEF Link

LEMMA HopCore ==
  ASSUME Core, TypeOK', NEW x \in Clients, Hop(x)
  PROVE  Core'
<1>1. At(x, "hop") /\ x \in Threads /\ todo[x] # <<>> /\ Cur(x).op = "hop" /\ Cur(x).node \in Nodes /\ Cur(x).port \in Port
  BY AtTop, NodesApart DEF Hop, Core
<1>2. PICK n \in Nodes, p \in Port : n = Cur(x).node /\ p = Cur(x).port
  BY <1>1
<1>3. Finds(x, n, p) /\ n \in Tasks
  <2>1. Cur(x) \in Ahead(x)
    BY <1>1, TopLies DEF Core
  <2> QED
    BY <1>1, <1>2, <2>1 DEF Core, Callers, Called
<1>4. CASE AddArc(x, n, p)
  BY <1>1, <1>3, <1>4, AddArcCore DEF Hop, Begins
<1>5. CASE head[n].tag # "open" /\ Then(x, LateFrames(n, p)) /\ UNCHANGED <<head, owed>>
  <2>1. PICK g : g = F("late", n, p, 0)
    OBVIOUS
  <2>2. g \in Frame /\ g.op = "late" /\ g.node = n /\ g.port = p
    BY <2>1 DEF F, Frame, SetupOps
  <2>3. Then(x, <<g>>) /\ UNCHANGED <<node, engine, setup, ghost>>
    BY <1>5, <2>1 DEF Hop, engine, setup, LateFrames
  <2>4. head[n].tag = "done"
    BY <1>3, <1>5 DEF Core, Bodies, Staged
  <2> QED
    BY <1>1, <1>3, <2>2, <2>3, <2>4, AskOn DEF Asking
<1> QED
  BY <1>2, <1>4, <1>5 DEF Hop

LEMMA VacantSame ==
  ASSUME nextWriter' = nextWriter
  PROVE  \A n, p : Vacant(n, p)' <=> Vacant(n, p)
  BY DEF Vacant, Openable, Null, Ready

LEMMA FinishedSame ==
  ASSUME nextWriter' = nextWriter, phase' = phase
  PROVE  \A n : Finished(n)' <=> Finished(n)
  BY DEF Finished, Null

(* A client in the middle of an argument. *)
LEMMA CallTop ==
  ASSUME Core, NEW x \in Clients, NEW op \in Calling, At(x, op)
  PROVE  LET t == making[x] IN
         /\ x \in Threads /\ todo[x] # <<>> /\ Cur(x).op = op /\ Cur(x) \in Ahead(x) /\ Cur(x) \in Frame
         /\ Cur(x).node \in Nodes /\ Cur(x).port \in Port /\ Fits(Cur(x)) /\ Lies(x, todo[x], 1)
         /\ todo[x][1] = Cur(x) /\ BindOf(x) \in After(todo[x], 1)
         /\ InRun(x) /\ t \in Tasks /\ t \in Nodes /\ phase[t] = "pending" /\ todo[t] = <<>>
         /\ head[t].tag = "open" /\ startCount[t] >= 1 /\ Guards(t) = 1
         /\ startCount[t] = Coming(t) + Protection(t)
<1>1. x \in Threads /\ todo[x] # <<>> /\ Cur(x).op = op /\ Cur(x).node \in Nodes /\ Cur(x).port \in Port
  BY AtTop, NodesApart DEF Core
<1>2. /\ Cur(x) \in Ahead(x) /\ Cur(x) \in Frame /\ Fits(Cur(x)) /\ Lies(x, todo[x], 1) /\ todo[x][1] = Cur(x)
  BY <1>1, TopLies DEF Core
<1>3. BindOf(x) \in After(todo[x], 1)
  BY <1>1, <1>2 DEF Lies
<1>4. LET t == making[x] IN
      /\ InRun(x) /\ t \in Tasks /\ t \in Nodes /\ phase[t] = "pending" /\ todo[t] = <<>>
      /\ head[t].tag = "open" /\ startCount[t] >= 1 /\ Guards(t) = 1
      /\ startCount[t] = Coming(t) + Protection(t)
  BY <1>1, <1>2, SettingUp DEF Core
<1> QED
  BY <1>1, <1>2, <1>3, <1>4

(* A slot that is held by e more, or by as many but differently. *)
LEMMA TalliedBy ==
  ASSUME Core, NEW n \in Nodes, NEW p \in Slots(n), Finished(n), Finished(n)', NEW e \in Int,
         countdown'[n][p] = countdown[n][p] + e, Held(n, p)' = Held(n, p) + e,
         Count(todo', Shares(n, p)) = Count(todo, Shares(n, p)),
         Count(todo', Outs(n, p)) = Count(todo, Outs(n, p)),
         \A y \in Threads : Ahead(y)' \cap Shares(n, p) \subseteq Ahead(y),
         Named(nextWriter[n][p])',
         Count(todo, Outs(n, p)) > 0 => nextWriter'[n][p] # Ready,
         Count(todo, Outs(n, p)) = 0 => nextWriter'[n][p] # Null,
         n \in Tasks => /\ count'[n][p] = count[n][p]
                        /\ Number(todo'[n], Turning(n, p)) = Number(todo[n], Turning(n, p))
                        /\ head'[n].tag = "open" => head[n].tag = "open"
  PROVE  Tallied(n, p)'
<1>1. Tallied(n, p) /\ Exact(n, p)
  BY DEF Core, Tallies, Tallied
<1>2. Held(n, p) \in Nat /\ countdown[n][p] \in Int
  BY HeldNat, SlotsArePorts DEF Core, TypeOK
<1>3. Exact(n, p)'
  <2>1. Count(todo', Shares(n, p)) = 0 => countdown'[n][p] = Held(n, p)'
    BY <1>1, <1>2 DEF Exact
  <2>2. ASSUME NEW y \in Threads, NEW f \in Ahead(y)' \cap Shares(n, p)
        PROVE  countdown'[n][p] = Held(n, p)' + Share(f)'
    <3>1. f \in Ahead(y) \cap Shares(n, p) /\ f.node = n /\ f.port = p
      BY <2>2 DEF Shares
    <3>2. countdown[n][p] = Held(n, p) + Share(f) /\ Share(f) \in Int
      BY <1>1, <3>1, ShareSome DEF Exact, Core
    <3>3. f.op = "out" => n \in Tasks
      BY <3>1, AheadFits DEF Core, Lies, BodyOps
    <3>4. Share(f)' = Share(f)
      BY <3>1, <3>3 DEF Share
    <3> QED
      BY <1>2, <3>2, <3>4
  <2> QED
    BY <2>1, <2>2, MarksAre DEF Exact
<1>4. /\ Count(todo', Shares(n, p)') <= 1
      /\ Count(todo', Outs(n, p)') > 0 => nextWriter'[n][p] # Ready
      /\ Count(todo', Outs(n, p)') = 0 => nextWriter'[n][p] # Null
      /\ n \in Tasks /\ Count(todo', Outs(n, p)') > 0 =>
           /\ count'[n][p] >= Number(todo'[n], Turning(n, p)') + 3
           /\ head'[n].tag = "open" => count'[n][p] = Half'
  BY <1>1, MarksAre DEF Tallied, Half
<1> QED
  BY <1>3, <1>4 DEF Tallied, Ready, Null

LEMMA NamedStays ==
  ASSUME Core, NEW n \in Nodes, NEW p \in Slots(n), nextWriter'[n][p] = nextWriter[n][p],
         \A m \in Nodes : node[m] # "unborn" => node'[m] # "unborn"
  PROVE  Named(nextWriter[n][p])'
<1>1. nextWriter[n][p] \in NextWriter /\ Tallied(n, p)
  BY SlotsArePorts DEF Core, TypeOK, Tallies
<1>2. nextWriter[n][p].kind = "owner" => nextWriter[n][p].node \in Nodes
  BY <1>1 DEF NextWriter
<1> QED
  BY <1>1, <1>2 DEF Tallied, Named

LEMMA LateCore ==
  ASSUME Core, TypeOK', NEW x \in Clients, Late(x)
  PROVE  Core'
<1> USE DEF ghost, setup
<1>1. /\ x \in Threads /\ todo[x] # <<>> /\ Cur(x).op = "late" /\ Cur(x) \in Ahead(x)
      /\ BindOf(x) \in After(todo[x], 1)
  BY CallTop DEF Late, Calling
<1>2. PICK n \in Nodes, p \in Port : n = Cur(x).node /\ p = Cur(x).port
  BY CallTop DEF Late, Calling
<1>3. p \in Slots(n) /\ Vacant(n, p) /\ Finished(n)
  BY <1>1, <1>2, LateSlot DEF Core
<1>4. PICK g : g = F("hold", n, p, 0)
  OBVIOUS
<1>5. g \in Frame /\ g.op = "hold" /\ g.node = n /\ g.port = p
  BY <1>4 DEF F, Frame, SetupOps
<1>6. PICK fs : fs = <<g>>
  OBVIOUS
<1>7. fs \in Seq(Frame) /\ Then(x, fs) /\ Then(x, <<g>>) /\ \A i \in DOMAIN fs : fs[i] = g
  BY <1>2, <1>4, <1>5, <1>6, OneIs DEF Late
<1>8. /\ countdown' = [countdown EXCEPT ![n][p] = @ + 1]
      /\ UNCHANGED <<node, head, startCount, life, nextWriter, woken, count, refs, setup, ghost>>
  BY <1>2 DEF Late
<1>9. /\ countdown'[n][p] = countdown[n][p] + 1 /\ countdown[n][p] \in Int
      /\ \A m \in Nodes : m # n => countdown'[m] = countdown[m]
      /\ \A m \in Nodes, q \in Port : m # n \/ q # p => countdown'[m][q] = countdown[m][q]
  BY <1>8 DEF Core, TypeOK
<1>10. Steady /\ Owing
  BY <1>8, SteadyIf DEF Owing
<1>11. Placed'
  <2>1. Fits(g)'
    BY <1>3, <1>5, <1>8, FinishedSame, SlotsStay DEF Fits
  <2> QED
    BY <1>1, <1>5, <1>7, <1>8, <1>10, <2>1, PlacedOne DEF BodyOps
<1>12. Linked'
  BY <1>8, <1>10, LinkedSame DEF Lists
<1>13. Bodies'
  <2>1. ASSUME NEW t \in Tasks
        PROVE  /\ node'[t] = "unborn" <=> node[t] = "unborn"
               /\ head'[t].tag = head[t].tag
               /\ phase[t] = "idle" => /\ owed'[t] = owed[t] /\ nextWriter'[t] = nextWriter[t]
                                       /\ countdown'[t] = countdown[t]
    BY <1>3, <1>8, <1>9, NodesApart DEF Finished
  <2> QED
    BY <1>1, <1>5, <1>7, <1>8, <2>1, BodiesThen
<1>14. Distinct'
  BY <1>8, DistinctSame
<1>15. Due'
  <2>1. ASSUME NEW t \in Tasks
        PROVE  HeldFor(Writer(t))' = HeldFor(Writer(t))
    <3>1. PICK d : d = Writer(t)
      OBVIOUS
    <3>2. nextWriter[n][p] # d
      BY <1>3, <3>1 DEF Vacant, Openable, Null, Ready, Writer
    <3>3. \A m \in Nodes : \A q \in Port :
            (q \in Slots(m)' /\ countdown'[m][q] > 0 /\ nextWriter'[m][q] = d)
              <=> (q \in Slots(m) /\ countdown[m][q] > 0 /\ nextWriter[m][q] = d)
      BY <1>8, <1>9, <3>2, SlotsStay
    <3>4. HeldFor(d)' = HeldFor(d)
      BY <3>3, HeldForSame
    <3> QED
      BY <3>1, <3>4 DEF HeldFor, HeldSlots, Writer
  <2>2. Lists' = Lists
    BY <1>8 DEF Lists
  <2> QED
    BY <1>1, <1>5, <1>7, <1>8, <2>1, <2>2, DueThen
<1>16. Undisturbed
  <2>1. \A m \in Nodes : \A q \in Slots(m) : Vacant(m, q) => Vacant(m, q)'
    BY <1>8, VacantSame
  <2> QED
    BY <1>1, <1>5, <1>7, <1>8, <2>1, UndisturbedThen
<1>17. Stores'
  <2>1. \A s \in Storage : /\ Finished(s)' <=> Finished(s)
                           /\ Finished(s) \/ (head'[s] = head[s] /\ countdown'[s] = countdown[s])
    BY <1>3, <1>8, <1>9, FinishedSame DEF Nodes
  <2> QED
    BY <1>16, <2>1, StoresKept
<1>18. Homes' /\ Firsts'
  BY <1>16, HomesKept, FirstsKept
<1>19. Callers'
  <2>1. \A i \in DOMAIN fs : fs[i].op \notin {"arg", "link", "hop", "late"}
    BY <1>5, <1>7
  <2> QED
    BY <1>1, <1>7, <1>8, <1>16, <2>1, CallsThen
<1>20. Tallied(n, p)'
  <2>1. \A P : Count(todo', P) = Count(todo, P) - One(Cur(x) \in P) + One(g \in P) /\ Count(todo, P) \in Nat
    BY ZenonT(60), <1>1, <1>6, <1>7, ThenCount, NumberOne DEF Core
  <2>2. /\ Cur(x) \notin Marks(n, p) /\ g \notin Shares(n, p) /\ g \in Holders(n, p) /\ g \notin Turning(n, p)
    BY <1>1, <1>5 DEF Marks, Shares, Holders, Turning
  <2>3. /\ Count(todo', Shares(n, p)) = Count(todo, Shares(n, p))
        /\ Count(todo', Outs(n, p)) = Count(todo, Outs(n, p))
        /\ Count(todo', Holders(n, p)) = Count(todo, Holders(n, p)) + 1
    BY <2>1, <2>2, MarksAre DEF One
  <2>4. Held(n, p)' = Held(n, p) + 1
    <3>1. Lists' = Lists /\ BackOnly(n, p)' = BackOnly(n, p) /\ Holders(n, p)' = Holders(n, p) /\ Ready' = Ready
      BY <1>8, MarksAre DEF Lists, Ready
    <3>2. Count(Lists, {BackOnly(n, p)}) \in Nat /\ Count(todo, Holders(n, p)) \in Nat
      BY CountNat DEF Core
    <3> QED
      BY <1>8, <2>3, <3>1, <3>2 DEF Held
  <2>5. /\ Ahead(x) = {Cur(x)} \cup After(todo[x], 1)
        /\ Ahead(x)' = {fs[i] : i \in DOMAIN fs} \cup After(todo[x], 1)
        /\ \A y \in Threads : y # x => todo'[y] = todo[y] /\ Ahead(y)' = Ahead(y)
    BY <1>1, <1>7, AheadThen DEF Core
  <2>6. \A y \in Threads : Ahead(y)' \cap Shares(n, p) \subseteq Ahead(y)
    BY <1>7, <2>2, <2>5
  <2>7. n \in Tasks => todo'[n] = todo[n]
    BY <2>5, NodesApart
  <2>8. Named(nextWriter[n][p])'
    BY <1>3, <1>8, NamedStays
  <2>9. /\ Count(todo, Outs(n, p)) > 0 => nextWriter'[n][p] # Ready
        /\ Count(todo, Outs(n, p)) = 0 => nextWriter'[n][p] # Null
    BY <1>3, <1>8 DEF Core, Tallies, Tallied
  <2>10. Finished(n)'
    BY <1>3, <1>8, FinishedSame
  <2> QED
    BY <1>3, <1>8, <1>9, <2>3, <2>4, <2>6, <2>7, <2>8, <2>9, <2>10, TalliedBy
<1>21. Tallies'
  <2>1. ASSUME NEW m \in Nodes, NEW q \in Slots(m), m # n \/ q # p
        PROVE  Tallied(m, q)'
    <3>1. Finished(m)' <=> Finished(m)
      BY <1>8, FinishedSame
    <3>2. Cur(x) \notin Marks(m, q) /\ \A i \in DOMAIN fs : fs[i] \notin Marks(m, q) /\ fs[i] \notin Turning(m, q)
      BY <1>1, <1>5, <1>7, <2>1 DEF Marks, Turning
    <3>3. Lists' = Lists
      BY <1>8 DEF Lists
    <3>4. countdown'[m][q] = countdown[m][q]
      BY <1>9, <2>1, SlotsArePorts DEF Core
    <3> QED
      BY <1>1, <1>7, <1>8, <3>1, <3>2, <3>3, <3>4, TalliedThen
  <2> QED
    BY <1>8, <1>20, <2>1, SlotsStay DEF Tallies
<1> QED
  BY <1>11, <1>12, <1>13, <1>14, <1>15, <1>17, <1>18, <1>19, <1>21 DEF Core

LEMMA HoldCore ==
  ASSUME Core, TypeOK', NEW x \in Clients, Hold(x)
  PROVE  Core'
<1> USE DEF ghost, setup
<1>1. /\ x \in Threads /\ todo[x] # <<>> /\ Cur(x).op = "hold" /\ Cur(x) \in Ahead(x) /\ Fits(Cur(x))
      /\ Cur(x) \in Frame
  BY CallTop DEF Hold, Calling
<1>2. PICK n \in Nodes, p \in Port : n = Cur(x).node /\ p = Cur(x).port
  BY CallTop DEF Hold, Calling
<1>3. p \in Slots(n) /\ Finished(n)
  BY <1>1, <1>2 DEF Fits
<1>4. PICK m \in Tasks : m = making[x] /\ m \in Nodes /\ head[m].tag = "open" /\ phase[m] = "pending" /\ todo[m] = <<>>
  BY CallTop DEF Hold, Calling
<1>5. PICK a : a = BackOnly(n, p)
  OBVIOUS
<1>6. a \in Arc /\ a.kind = "back_only" /\ a.node = n /\ a.port = p
  BY <1>5, ArcTypes DEF BackOnly
<1>7. PICK fs : fs = <<>>
  OBVIOUS
<1>8. fs \in Seq(Frame) /\ DOMAIN fs = {} /\ Then(x, fs) /\ Then(x, <<>>) /\ Push(m, a)
  BY <1>2, <1>4, <1>5, <1>7 DEF Hold
<1>9. UNCHANGED <<node, startCount, life, nextWriter, countdown, woken, count, refs, setup, ghost>>
  BY DEF Hold
<1>10. \A u \in Nodes : head'[u].tag = head[u].tag /\ (u # m => head'[u] = head[u])
  BY <1>4, <1>6, <1>8, PushLists DEF Core
<1>11. Steady /\ Owing
  BY <1>9, <1>10, SteadyIf DEF Owing
<1>12. Placed'
  BY <1>1, <1>8, <1>9, <1>11, PlacedPop
<1>13. \A u : Finished(u)' <=> Finished(u)
  BY <1>9, FinishedSame
<1>14. Linked'
  <2>1. Apt(m, a)'
    BY <1>3, <1>4, <1>6, <1>9, <1>13, SlotsStay DEF Apt
  <2> QED
    BY <1>4, <1>6, <1>8, <1>11, <2>1, LinkedPush
<1>15. Bodies'
  <2>1. ASSUME NEW t \in Tasks
        PROVE  /\ node'[t] = "unborn" <=> node[t] = "unborn"
               /\ head'[t].tag = head[t].tag
               /\ phase[t] = "idle" => /\ owed'[t] = owed[t] /\ nextWriter'[t] = nextWriter[t]
                                       /\ countdown'[t] = countdown[t]
    BY <1>9, <1>10, NodesApart
  <2> QED
    BY <1>1, <1>8, <1>9, <2>1, BodiesThen
<1>16. Distinct'
  BY <1>9, DistinctSame
<1>17. \A P : Count(Lists', P) = Count(Lists, P) + One(a \in P) /\ Count(Lists, P) \in Nat
  BY <1>4, <1>6, <1>8, PushCount DEF Core
<1>18. Due'
  <2>1. \A t \in Tasks : /\ Count(Lists', ArcsTo(t)) = Count(Lists, ArcsTo(t))
                         /\ HeldFor(Writer(t))' = HeldFor(Writer(t))
    <3>1. ASSUME NEW t \in Tasks
          PROVE  /\ Count(Lists', ArcsTo(t)) = Count(Lists, ArcsTo(t))
                 /\ HeldFor(Writer(t))' = HeldFor(Writer(t))
      <4>1. a \notin ArcsTo(t)
        BY <1>6 DEF ArcsTo
      <4> QED
        BY <1>9, <1>17, <4>1, HeldForStays DEF One
    <3> QED
      BY <3>1
  <2> QED
    BY <1>1, <1>8, <1>9, <2>1, DueThen
<1>19. Undisturbed
  <2>1. \A u \in Nodes : \A q \in Slots(u) : Vacant(u, q) => Vacant(u, q)'
    BY <1>9, VacantSame
  <2>2. \A u \in Nodes : \/ head'[u] = head[u]
                         \/ /\ head[u].tag = "open" /\ head'[u].tag \in {"open", "done"}
                            /\ u \in Storage => head'[u].tag = "open"
    BY <1>4, <1>10
  <2> QED
    BY <1>1, <1>8, <1>9, <2>1, <2>2, UndisturbedThen
<1>20. Stores'
  <2>1. \A s \in Storage : s # m /\ s \in Nodes
    BY <1>4, ConstantsAssumption DEF Nodes
  <2>2. \A s \in Storage : /\ Finished(s)' <=> Finished(s)
                           /\ Finished(s) \/ (head'[s] = head[s] /\ countdown'[s] = countdown[s])
    BY <1>9, <1>10, <1>13, <2>1
  <2> QED
    BY <1>19, <2>2, StoresKept
<1>21. Homes' /\ Firsts'
  BY <1>19, HomesKept, FirstsKept
<1>22. Callers'
  BY <1>1, <1>8, <1>9, <1>19, CallsThen
<1>23. Tallied(n, p)'
  <2>1. \A P : Count(todo', P) = Count(todo, P) - One(Cur(x) \in P) /\ Count(todo, P) \in Nat
    <3>1. \A P : Number(fs, P) = 0
      BY <1>7, NumberEmpty
    <3>2. \A P : /\ Count(todo', P) = Count(todo, P) - One(Cur(x) \in P) + Number(fs, P)
                 /\ Count(todo, P) \in Nat /\ Count(todo', P) \in Nat
      BY <1>1, <1>8, ThenCount DEF Core
    <3> QED
      BY <3>1, <3>2 DEF One
  <2>2. Cur(x) \notin Shares(n, p) /\ Cur(x) \in Holders(n, p)
    BY <1>1, <1>2 DEF Shares, Holders
  <2>3. /\ Count(todo', Shares(n, p)) = Count(todo, Shares(n, p))
        /\ Count(todo', Outs(n, p)) = Count(todo, Outs(n, p))
        /\ Count(todo', Holders(n, p)) = Count(todo, Holders(n, p)) - 1
    BY <2>1, <2>2, MarksAre DEF One
  <2>4. Held(n, p)' = Held(n, p) + 0
    <3>1. BackOnly(n, p)' = BackOnly(n, p) /\ Holders(n, p)' = Holders(n, p) /\ Ready' = Ready
      BY MarksAre DEF Ready
    <3>2. Count(Lists', {BackOnly(n, p)}) = Count(Lists, {BackOnly(n, p)}) + 1
      BY <1>5, <1>17 DEF One
    <3>3. Count(Lists, {BackOnly(n, p)}) \in Nat /\ Count(todo, Holders(n, p)) \in Nat
      BY CountNat DEF Core
    <3> QED
      BY <1>9, <2>3, <3>1, <3>2, <3>3 DEF Held
  <2>5. /\ Ahead(x) = {Cur(x)} \cup After(todo[x], 1)
        /\ Ahead(x)' = {fs[i] : i \in DOMAIN fs} \cup After(todo[x], 1)
        /\ \A y \in Threads : y # x => todo'[y] = todo[y] /\ Ahead(y)' = Ahead(y)
    BY <1>1, <1>8, AheadThen DEF Core
  <2>6. \A y \in Threads : Ahead(y)' \cap Shares(n, p) \subseteq Ahead(y)
    BY <1>8, <2>5
  <2>7. n \in Tasks => todo'[n] = todo[n]
    BY <2>5, NodesApart
  <2>8. Named(nextWriter[n][p])'
    BY <1>3, <1>9, NamedStays
  <2>9. /\ Count(todo, Outs(n, p)) > 0 => nextWriter'[n][p] # Ready
        /\ Count(todo, Outs(n, p)) = 0 => nextWriter'[n][p] # Null
    BY <1>3, <1>9 DEF Core, Tallies, Tallied
  <2>10. countdown'[n][p] = countdown[n][p] + 0
    <3>1. p \in Port
      BY <1>3, SlotsArePorts DEF Core
    <3>2. countdown[n][p] \in Int
      BY <3>1 DEF Core, TypeOK
    <3> QED
      BY <1>9, <3>2
  <2>11. n \in Tasks => /\ count'[n][p] = count[n][p]
                        /\ Number(todo'[n], Turning(n, p)) = Number(todo[n], Turning(n, p))
                        /\ head'[n].tag = "open" => head[n].tag = "open"
    BY <1>9, <1>10, <2>7
  <2>12. Finished(n)'
    BY <1>3, <1>13
  <2> QED
    BY <1>3, <2>3, <2>4, <2>6, <2>8, <2>9, <2>10, <2>11, <2>12, TalliedBy
<1>24. Tallies'
  <2>1. ASSUME NEW u \in Nodes, NEW q \in Slots(u), u # n \/ q # p
        PROVE  Tallied(u, q)'
    <3>1. Cur(x) \notin Marks(u, q)
      BY <1>2, <2>1 DEF Marks
    <3>2. Count(Lists', {BackOnly(u, q)}) = Count(Lists, {BackOnly(u, q)})
      <4>1. a \notin {BackOnly(u, q)}
        BY <1>6, <2>1 DEF BackOnly
      <4> QED
        BY <1>17, <4>1 DEF One
    <3> QED
      BY <1>1, <1>8, <1>9, <1>10, <1>13, <3>1, <3>2, TalliedThen
  <2> QED
    BY <1>9, <1>23, <2>1, SlotsStay DEF Tallies
<1> QED
  BY <1>12, <1>14, <1>15, <1>16, <1>18, <1>20, <1>21, <1>22, <1>24 DEF Core

LEMMA MoveCore ==
  ASSUME Core, TypeOK', NEW x \in Clients, Move(x)
  PROVE  Core'
<1> USE DEF ghost, setup
<1>1. /\ x \in Threads /\ todo[x] # <<>> /\ Cur(x).op = "move" /\ Cur(x) \in Ahead(x) /\ Fits(Cur(x))
      /\ Cur(x) \in Frame
  BY CallTop DEF Move, Calling
<1>2. PICK c \in Nodes, p \in Port : c = Cur(x).node /\ p = Cur(x).port
  BY CallTop DEF Move, Calling
<1>4. PICK m \in Tasks : m = making[x] /\ m \in Nodes /\ head[m].tag = "open" /\ phase[m] = "pending" /\ todo[m] = <<>>
  BY CallTop DEF Move, Calling
<1>3. c \in Tasks /\ p \in Slots(m)
  <2>1. Lies(x, todo[x], 1) /\ todo[x][1] = Cur(x)
    BY CallTop DEF Move, Calling
  <2> QED
    BY <1>1, <1>2, <1>4, <2>1 DEF Fits, Lies
<1>5. PICK a : a = FlowBack(c, p)
  OBVIOUS
<1>6. a \in Arc /\ a.kind = "flow_back" /\ a.node = c /\ a.port = p
  BY <1>5, ArcTypes DEF FlowBack
<1>7. PICK fs : fs = <<>>
  OBVIOUS
<1>8. fs \in Seq(Frame) /\ DOMAIN fs = {} /\ Then(x, fs) /\ Then(x, <<>>) /\ Push(m, a)
  BY <1>2, <1>4, <1>5, <1>7 DEF Move
<1>9. UNCHANGED <<node, startCount, life, nextWriter, countdown, woken, count, refs, setup, ghost>>
  BY DEF Move
<1>10. \A u \in Nodes : head'[u].tag = head[u].tag /\ (u # m => head'[u] = head[u])
  BY <1>4, <1>6, <1>8, PushLists DEF Core
<1>11. Steady /\ Owing
  BY <1>9, <1>10, SteadyIf DEF Owing
<1>12. Placed'
  BY <1>1, <1>8, <1>9, <1>11, PlacedPop
<1>13. \A u : Finished(u)' <=> Finished(u)
  BY <1>9, FinishedSame
<1>14. Linked'
  <2>1. Apt(m, a)'
    BY <1>3, <1>4, <1>6, <1>9, <1>13, SlotsStay DEF Apt
  <2> QED
    BY <1>4, <1>6, <1>8, <1>11, <2>1, LinkedPush
<1>15. Bodies'
  <2>1. ASSUME NEW t \in Tasks
        PROVE  /\ node'[t] = "unborn" <=> node[t] = "unborn"
               /\ head'[t].tag = head[t].tag
               /\ phase[t] = "idle" => /\ owed'[t] = owed[t] /\ nextWriter'[t] = nextWriter[t]
                                       /\ countdown'[t] = countdown[t]
    BY <1>9, <1>10, NodesApart
  <2> QED
    BY <1>1, <1>8, <1>9, <2>1, BodiesThen
<1>16. Distinct'
  BY <1>9, DistinctSame
<1>17. \A P : Count(Lists', P) = Count(Lists, P) + One(a \in P) /\ Count(Lists, P) \in Nat
  BY <1>4, <1>6, <1>8, PushCount DEF Core
<1>18. Due'
  <2>1. ASSUME NEW t \in Tasks
        PROVE  Counted(t)'
    <3>1. \A P : Count(todo', P) = Count(todo, P) - One(Cur(x) \in P) /\ Count(todo, P) \in Nat
      <4>1. \A P : Number(fs, P) = 0
        BY <1>7, NumberEmpty
      <4>2. \A P : /\ Count(todo', P) = Count(todo, P) - One(Cur(x) \in P) + Number(fs, P)
                   /\ Count(todo, P) \in Nat /\ Count(todo', P) \in Nat
        BY <1>1, <1>8, ThenCount DEF Core
      <4> QED
        BY <4>1, <4>2 DEF One
    <3>2. Cur(x) \in Notices(t) <=> t = c
      BY <1>1, <1>2 DEF Notices
    <3>3. a \in ArcsTo(t) <=> t = c
      BY <1>6 DEF ArcsTo
    <3>4. Cur(x) \notin Protecting(t)
      BY <1>1 DEF Protecting
    <3>5. Count(todo', Protecting(t)) = Count(todo, Protecting(t))
      BY <3>1, <3>4 DEF One
    <3>6. Count(Lists', ArcsTo(t)) + Count(todo', Notices(t)) = Count(Lists, ArcsTo(t)) + Count(todo, Notices(t))
      BY <1>17, <3>1, <3>2, <3>3 DEF One
    <3>7. HeldFor(Writer(t))' = HeldFor(Writer(t))
      BY <1>9, HeldForStays
    <3>8. Coming(t)' = Coming(t)
      BY <3>6, <3>7, NoticeOps DEF Coming
    <3> QED
      BY <1>9, <3>5, <3>8, CountedKept
  <2> QED
    BY <2>1 DEF Due
<1>19. Undisturbed
  <2>1. \A u \in Nodes : \A q \in Slots(u) : Vacant(u, q) => Vacant(u, q)'
    BY <1>9, VacantSame
  <2>2. \A u \in Nodes : \/ head'[u] = head[u]
                         \/ /\ head[u].tag = "open" /\ head'[u].tag \in {"open", "done"}
                            /\ u \in Storage => head'[u].tag = "open"
    BY <1>4, <1>10
  <2> QED
    BY <1>1, <1>8, <1>9, <2>1, <2>2, UndisturbedThen
<1>20. Stores'
  <2>1. \A s \in Storage : s # m /\ s \in Nodes
    BY <1>4, ConstantsAssumption DEF Nodes
  <2>2. \A s \in Storage : /\ Finished(s)' <=> Finished(s)
                           /\ Finished(s) \/ (head'[s] = head[s] /\ countdown'[s] = countdown[s])
    BY <1>9, <1>10, <1>13, <2>1
  <2> QED
    BY <1>19, <2>2, StoresKept
<1>21. Homes' /\ Firsts'
  BY <1>19, HomesKept, FirstsKept
<1>22. Callers'
  BY <1>1, <1>8, <1>9, <1>19, CallsThen
<1>24. Tallies'
  <2>1. ASSUME NEW u \in Nodes, NEW q \in Slots(u)
        PROVE  Tallied(u, q)'
    <3>1. Cur(x) \notin Marks(u, q)
      BY <1>1 DEF Marks
    <3>2. Count(Lists', {BackOnly(u, q)}) = Count(Lists, {BackOnly(u, q)})
      <4>1. a \notin {BackOnly(u, q)}
        BY <1>6 DEF BackOnly
      <4> QED
        BY <1>17, <4>1 DEF One
    <3> QED
      BY <1>1, <1>8, <1>9, <1>10, <1>13, <3>1, <3>2, TalliedThen
  <2> QED
    BY <1>9, <2>1, SlotsStay DEF Tallies
<1> QED
  BY <1>12, <1>14, <1>15, <1>16, <1>18, <1>20, <1>21, <1>22, <1>24 DEF Core

(***************************************************************************)
(* A deferred variable is given its first writer                           *)
(***************************************************************************)
LEMMA UponAhead ==
  ASSUME TypeOK, NEW x \in Threads, NEW fs \in Seq(Frame), Upon(todo', todo, x, fs)
  PROVE  /\ todo'[x] = fs \o todo[x] /\ Ahead(x)' = {fs[i] : i \in DOMAIN fs} \cup Ahead(x)
         /\ \A y \in Threads : y # x => todo'[y] = todo[y] /\ Ahead(y)' = Ahead(y)
         /\ \A P : /\ Count(todo', P) \in Nat /\ Count(todo, P) \in Nat /\ Number(fs, P) \in Nat
                   /\ Count(todo', P) = Count(todo, P) + Number(fs, P)
<1>1. todo'[x] = fs \o todo[x] /\ \A y \in Threads : y # x => todo'[y] = todo[y]
  BY DEF Upon, TypeOK, FramesFit
<1>2. \A P : /\ Count(todo', P) \in Nat /\ Count(todo, P) \in Nat /\ Number(fs, P) \in Nat
             /\ Count(todo', P) = Count(todo, P) + Number(fs, P)
  <2>1. todo \in Family(Threads, Frame) /\ IsFiniteSet(Threads)
    BY Families, Finite
  <2> QED
    BY <2>1, CountOnto
<1>3. Ahead(x)' = {fs[i] : i \in DOMAIN fs} \cup Ahead(x)
  <2> DEFINE r == fs \o todo[x]
  <2>1. todo[x] \in Seq(Frame)
    BY Families
  <2>2. OnTopOf(r, fs, todo[x])
    BY <2>1, OnTop
  <2> HIDE DEF r
  <2>3. \A i \in DOMAIN r : (\E j \in DOMAIN fs : r[i] = fs[j]) \/ (\E j \in DOMAIN todo[x] : r[i] = todo[x][j])
    BY <2>2 DEF OnTopOf
  <2>4. \A j \in DOMAIN fs : \E i \in DOMAIN r : r[i] = fs[j]
    BY <2>2 DEF OnTopOf
  <2>5. \A j \in DOMAIN todo[x] : \E i \in DOMAIN r : r[i] = todo[x][j]
    BY <2>2 DEF OnTopOf
  <2>6. {r[i] : i \in DOMAIN r} = {fs[i] : i \in DOMAIN fs} \cup {todo[x][i] : i \in DOMAIN todo[x]}
    BY <2>3, <2>4, <2>5
  <2> QED
    BY <1>1, <2>6 DEF Ahead, r
<1> QED
  BY <1>1, <1>2, <1>3 DEF Ahead

LEMMA MovesAre ==
  ASSUME NEW r \in Seq(Arc), NEW q \in Port
  PROVE  LET fs == Moves(r, q) IN
         /\ fs \in Seq(Frame) /\ DOMAIN fs = DOMAIN r
         /\ \A j \in DOMAIN r : /\ fs[j] = F("move", r[j].node, q, 0) /\ fs[j].op = "move" /\ fs[j] \in Frame
                                /\ fs[j].node = r[j].node /\ fs[j].port = q /\ r[j] \in Arc
<1>1. DOMAIN r = 1..Len(r) /\ Len(r) \in Nat
  OBVIOUS
<1>2. \A j \in DOMAIN r : r[j] \in Arc /\ r[j].node \in Nodes
  <2>1. \A a \in Arc : a.node \in Nodes
    BY DEF Arc
  <2>2. \A j \in DOMAIN r : r[j] \in Arc
    OBVIOUS
  <2> QED
    BY <2>1, <2>2
<1>3. \A j \in DOMAIN r : F("move", r[j].node, q, 0) \in Frame
  BY <1>2 DEF F, Frame, SetupOps
<1>4. Moves(r, q) = [j \in 1..Len(r) |-> F("move", r[j].node, q, 0)]
  BY DEF Moves
<1>5. Moves(r, q) \in Seq(Frame) /\ DOMAIN Moves(r, q) = DOMAIN r
  BY <1>1, <1>3, <1>4
<1> QED
  BY <1>1, <1>2, <1>3, <1>4, <1>5 DEF F

LEMMA RedirectVarCore ==
  ASSUME Core, TypeOK', NEW x \in Clients, RedirectVar(x)
  PROVE  Core'
<1> USE DEF ghost
<1>1. /\ x \in Threads /\ todo[x] # <<>> /\ Cur(x).op = "arg" /\ Cur(x) \in Ahead(x) /\ At(x, "arg")
      /\ BindOf(x) \in Ahead(x) /\ InRun(x)
  <2>1. /\ x \in Threads /\ todo[x] # <<>> /\ Cur(x).op = "arg" /\ Cur(x) \in Ahead(x) /\ InRun(x)
        /\ At(x, "arg")
    BY CallTop, AtArg DEF Calling, Asking
  <2> QED
    BY <2>1, SettingUp DEF Core, Calling, Asking
<1>2. PICK t \in Tasks : t = making[x] /\ t \in Nodes
  BY CallTop, AtArg DEF Calling, Asking
<1>3. PICK i \in DOMAIN args[t] : i = Cur(x).port
  BY <1>1, <1>2, InSetup DEF Core, SetupOps
<1>4. PICK v \in Nodes : v = args[t][i].v
  BY ArgOf DEF Core
<1>5. args[t][i].w /\ var[v].deferred /\ i \in Writes(t)
  BY <1>2, <1>3, <1>4, RedirectVarSays DEF Writes
<1>6. Modifies(x, v) /\ InUse(v) /\ var[v].live /\ last[v] >= 1
  BY <1>1, <1>2, <1>4, <1>5, ArgumentOf DEF Core, Callers, Called
<1>7. v \in Deferred /\ SlotOf(v) = <<v, 0>> /\ head[v].tag = "open" /\ last[v] = 1
  BY <1>5, <1>6 DEF Core, Firsts, Put
<1>8. var[v].cur = v /\ var[v].port = 0 /\ v \in Storage /\ v \notin Tasks
  BY <1>7, ConstantsAssumption DEF SlotOf
<1>9. Finished(v)
  <2>1. node[v] # "unborn"
    BY <1>6 DEF Core, Homes, Settled
  <2> QED
    BY <1>8, <2>1 DEF Core, Stores, Stored
<1>10. PICK q \in Port : q = PortOf(t, i) /\ q \in Slots(t)
  BY <1>5, PortsApart DEF Core
<1>11. PICK r \in Seq(Arc) : r = head[v].arcs /\ r = Lists[v]
  BY <1>7, Families DEF Core
<1>12. PICK fs : fs = Moves(r, q)
  OBVIOUS
<1>13. /\ head' = [head EXCEPT ![v] = Redirect(t, q)]
       /\ var' = [var EXCEPT ![v] = [@ EXCEPT !.deferred = FALSE]]
       /\ todo' = [todo EXCEPT ![x] = fs \o @]
       /\ UNCHANGED <<node, startCount, life, nextWriter, countdown, woken, count, refs,
                      args, owed, making, ghost>>
  BY Zenon, <1>2, <1>3, <1>4, <1>8, <1>10, <1>11, <1>12 DEF RedirectVar
<1>14. /\ head'[v] = Redirect(t, q) /\ \A n \in Nodes : n # v => head'[n] = head[n]
       /\ \A u \in Nodes : /\ var'[u].live = var[u].live /\ var'[u].cur = var[u].cur /\ var'[u].port = var[u].port
                           /\ u # v => var'[u] = var[u]
       /\ ~var'[v].deferred
  <2>1. var[v] \in OoxVar
    BY DEF Core, TypeOK
  <2>2. var'[v] = [var[v] EXCEPT !.deferred = FALSE] /\ \A u \in Nodes : u # v => var'[u] = var[u]
    BY <1>13 DEF Core, TypeOK
  <2>3. /\ ~var'[v].deferred
        /\ var'[v].live = var[v].live /\ var'[v].cur = var[v].cur /\ var'[v].port = var[v].port
    BY <2>1, <2>2 DEF OoxVar
  <2>4. head'[v] = Redirect(t, q) /\ \A n \in Nodes : n # v => head'[n] = head[n]
    BY <1>13 DEF Core, TypeOK
  <2> QED
    BY <2>2, <2>3, <2>4
<1>15. /\ fs \in Seq(Frame) /\ DOMAIN fs = DOMAIN r
       /\ \A j \in DOMAIN r : /\ fs[j] = F("move", r[j].node, q, 0) /\ fs[j].op = "move" /\ fs[j] \in Frame
                              /\ fs[j].node = r[j].node /\ fs[j].port = q /\ r[j] \in Arc
  BY <1>12, MovesAre
<1>16. \A j \in DOMAIN r : r[j].kind = "flow_back" /\ r[j].node \in Tasks
  BY <1>8, <1>11 DEF Core, Linked, Apt
<1>17. Upon(todo', todo, x, fs)
  BY <1>13 DEF Upon
<1>18. /\ Ahead(x)' = {fs[j] : j \in DOMAIN fs} \cup Ahead(x)
       /\ \A y \in Threads : y # x => todo'[y] = todo[y] /\ Ahead(y)' = Ahead(y)
       /\ \A P : /\ Count(todo', P) \in Nat /\ Count(todo, P) \in Nat /\ Number(fs, P) \in Nat
                 /\ Count(todo', P) = Count(todo, P) + Number(fs, P)
       /\ todo'[x] = fs \o todo[x]
  BY <1>1, <1>15, <1>17, UponAhead DEF Core
<1>19. Steady
  <2>1. \A n \in Nodes : head[n].tag = "done" => head'[n].tag = "done"
    BY <1>7, <1>14
  <2> QED
    BY <1>13, <2>1, SteadyIf
<1>20. Owing
  BY <1>13 DEF Owing
<1>21. Placed'
  <2>1. Sits(x, fs, Ahead(x))
    BY <1>1, <1>2, <1>10, <1>15 DEF Sits, BodyOps
  <2>2. ASSUME NEW j \in DOMAIN fs
        PROVE  Fits(fs[j])'
    <3>1. PICK f : f = fs[j]
      OBVIOUS
    <3>2. f.op = "move" /\ f.node \in Tasks
      BY <1>15, <1>16, <3>1
    <3>3. Fits(f)'
      BY <3>2 DEF Fits
    <3> QED
      BY <3>1, <3>3 DEF Fits, Finished, Slots, Writes, Protection
  <2> QED
    BY <1>1, <1>13, <1>15, <1>17, <1>19, <1>20, <2>1, <2>2, PlacedUpon
<1>22. Lists' = [Lists EXCEPT ![v] = <<>>]
  <2>1. head'[v].tag # "open"
    BY <1>14, RedirectIs
  <2> QED
    BY <1>14, <2>1 DEF Lists
<1>23. Linked'
  <2>1. Lists'[v] = <<>> /\ \A n \in Nodes : n # v => Lists'[n] = Lists[n]
    BY <1>22 DEF Lists
  <2>2. DOMAIN Lists'[v] = {}
    BY <2>1
  <2> QED
    BY <1>19, <2>1, <2>2, LinkedStep
<1>24. \A u \in Tasks : todo'[u] = todo[u] /\ head'[u] = head[u] /\ u # x
  BY <1>8, <1>14, <1>18, NodesApart
<1>25. Bodies'
  <2>1. ASSUME NEW u \in Tasks
        PROVE  Staged(u)'
    BY <1>13, <1>24, StagedKept
  <2> QED
    BY <2>1 DEF Bodies
<1>26. Distinct'
  BY <1>13, DistinctSame
<1>27. \A P : /\ Count(Lists', P) = Count(Lists, P) - Number(r, P)
              /\ Number(r, P) \in Nat /\ Count(Lists, P) \in Nat
  <2>1. Lists \in Family(Nodes, Arc) /\ IsFiniteSet(Nodes) /\ <<>> \in Seq(Arc)
    BY Families, Finite, Short DEF Core
  <2>2. PICK c \in Seq(Arc) : c = <<>>
    BY <2>1
  <2>3. Replaced(Lists', Lists, v, c)
    BY <1>22, <2>2 DEF Replaced
  <2>4. \A P : /\ Number(r, P) \in Nat /\ Count(Lists, P) \in Nat /\ Number(c, P) \in Nat
               /\ Count(Lists', P) = Count(Lists, P) - Number(r, P) + Number(c, P)
    BY <1>11, <2>1, <2>3, CountAs
  <2>5. \A P : Number(c, P) = 0
    BY <2>2, NumberEmpty
  <2> QED
    BY <2>4, <2>5
<1>28. Due'
  <2>1. ASSUME NEW u \in Tasks
        PROVE  Counted(u)'
    <3>1. Number(fs, Protecting(u)) = 0
      <4>1. \A j \in DOMAIN fs : fs[j] \notin Protecting(u)
        BY <1>15 DEF Protecting
      <4> QED
        BY <1>15, <4>1, NumberNone
    <3>2. Number(fs, Notices(u)) = Number(r, ArcsTo(u))
      <4>1. \A j \in DOMAIN fs : fs[j] \in Notices(u) <=> r[j] \in ArcsTo(u)
        BY <1>15, <1>16 DEF Notices, ArcsTo
      <4> QED
        BY <1>15, <4>1, NumberSame
    <3>3. HeldFor(Writer(u))' = HeldFor(Writer(u))
      BY <1>13, HeldForStays
    <3>4. Count(todo', Notices(u)) = Count(todo, Notices(u)) + Number(fs, Notices(u))
          /\ Count(todo, Notices(u)) \in Nat
      BY <1>18
    <3>5. Count(Lists', ArcsTo(u)) = Count(Lists, ArcsTo(u)) - Number(r, ArcsTo(u))
          /\ Count(Lists, ArcsTo(u)) \in Nat /\ Number(r, ArcsTo(u)) \in Nat
      BY <1>27
    <3>6. Coming(u)' = Coming(u)
      <4>1. Count(Lists', ArcsTo(u)) + Count(todo', Notices(u)) = Count(Lists, ArcsTo(u)) + Count(todo, Notices(u))
        BY <3>2, <3>4, <3>5
      <4> QED
        BY <3>3, <4>1, NoticeOps DEF Coming
    <3>7. Count(todo', Protecting(u)) = Count(todo, Protecting(u))
      BY <1>18, <3>1
    <3> QED
      BY <1>13, <3>6, <3>7, CountedKept
  <2> QED
    BY <2>1 DEF Due
<1>29. \A u : Finished(u)' <=> Finished(u)
  BY <1>13, FinishedSame
<1>30. Stores'
  <2>1. ASSUME NEW s \in Storage, s # v
        PROVE  Stored(s)'
    <3>1. Stored(s) /\ head'[s] = head[s]
      BY <1>14, <2>1 DEF Core, Stores, Nodes
    <3>2. Redirected(s) => Redirected(s)'
      BY <1>13, <3>1 DEF Redirected, Writes, PortOf
    <3> QED
      BY <1>13, <1>29, <3>1, <3>2 DEF Stored
  <2>2. Stored(v)'
    <3>1. Redirected(v)'
      <4>1. i \in Writes(t)' /\ args'[t][i].v = v /\ PortOf(t, i)' = q
        BY <1>4, <1>5, <1>10, <1>13 DEF Writes, PortOf
      <4>2. head'[v] = Redirect(t, PortOf(t, i))'
        BY <1>14, <4>1 DEF Redirect, FlowBack
      <4> QED
        BY <4>1, <4>2 DEF Redirected
    <3>2. Stored(v)
      BY <1>8 DEF Core, Stores
    <3> QED
      BY <1>7, <1>9, <1>13, <1>29, <3>1, <3>2 DEF Stored
  <2> QED
    BY <2>1, <2>2 DEF Stores
<1>31. /\ \A y \in Clients : \A f : f.op # "move" => (f \in Ahead(y)' <=> f \in Ahead(y))
       /\ \A y \in Clients : \A f \in Ahead(y) : f \in Ahead(y)'
  BY SMTT(30), <1>15, <1>18, NodesApart
<1>32. \A y \in Clients : \A j : ToWrite(y, j)' <=> ToWrite(y, j)
  <2>1. ASSUME NEW y \in Clients, NEW j
        PROVE  ToWrite(y, j)' <=> ToWrite(y, j)
    <3>1. PICK f : f = F("arg", making[y], j, 0)
      OBVIOUS
    <3>2. f \in Ahead(y)' <=> f \in Ahead(y)
      BY <1>31, <3>1 DEF F
    <3>3. F("arg", making[y], j, 0)' = f /\ Writes(making[y])' = Writes(making[y])
      BY <1>13, <3>1 DEF F, Writes
    <3> QED
      BY <3>1, <3>2, <3>3 DEF ToWrite
  <2> QED
    BY <2>1
<1>33. \A u : (InUse(u)' <=> InUse(u)) \/ u \notin Nodes
  <2>1. ASSUME NEW u \in Nodes
        PROVE  InUse(u)' <=> InUse(u)
    <3>1. \A y \in Clients : F("return", u, 0, 0) \in Ahead(y)' <=> F("return", u, 0, 0) \in Ahead(y)
      BY <1>31 DEF F
    <3> QED
      BY <1>14, <3>1 DEF InUse
  <2> QED
    BY <2>1
<1>34. \A u \in Nodes : SlotOf(u)' = SlotOf(u)
  BY <1>14 DEF SlotOf
<1>35. Homes'
  <2>1. ASSUME NEW u \in Nodes
        PROVE  Settled(u)'
    <3>1. Settled(u) /\ (InUse(u)' <=> InUse(u)) /\ SlotOf(u)' = SlotOf(u)
      BY <1>33, <1>34 DEF Core, Homes
    <3>2. ~InUse(u) => var'[u] = var[u]
      BY <1>6, <1>14
    <3>3. /\ var'[u].cur = var[u].cur /\ var'[u].port = var[u].port /\ node' = node /\ nextWriter' = nextWriter
          /\ args' = args
      BY <1>13, <1>14
    <3> QED
      BY <3>1, <3>2, <3>3 DEF Settled, Vacant, Openable, Null, Ready, Writes, PortOf, New
  <2> QED
    BY <2>1 DEF Homes
<1>36. \A y \in Clients : InRun(y)' <=> InRun(y)
  <2>1. ASSUME NEW y \in Clients
        PROVE  InRun(y)' <=> InRun(y)
    <3>1. InRun(y) <=> \E f \in Ahead(y) : f.op = "return"
      BY DEF InRun, Ahead
    <3>2. InRun(y)' <=> \E f \in Ahead(y)' : f.op = "return"
      BY DEF InRun, Ahead
    <3> QED
      BY <1>31, <3>1, <3>2
  <2> QED
    BY <2>1
<1>37. \A y \in Clients : \A u : (Reads(y, u)' <=> Reads(y, u)) /\ (Modifies(y, u)' <=> Modifies(y, u))
  BY <1>13, <1>36 DEF Reads, Modifies, CallArgs
<1>38. \A u : Opening(u)' <=> Opening(u)
  BY <1>13, <1>32 DEF Opening
<1>39. Opening(v)
  <2>1. Cur(x) = F("arg", making[x], i, 0)
    <3>1. Cur(x) \in Frame /\ Fits(Cur(x)) /\ Lies(x, todo[x], 1) /\ todo[x][1] = Cur(x)
      BY <1>1, TopLies DEF Core
    <3>2. Cur(x).node = making[x] /\ Cur(x).port = i /\ Cur(x).k = 0
      BY <1>1, <1>3, <3>1 DEF Lies, Fits
    <3> QED
      BY <1>1, <3>1, <3>2 DEF Frame, F
  <2> QED
    BY <1>1, <1>2, <1>4, <1>5, <2>1 DEF Opening, ToWrite
<1>40. Firsts'
  <2>1. ASSUME NEW u \in Nodes, u # v
        PROVE  Put(u)'
    <3>1. Put(u) /\ head'[u] = head[u] /\ var'[u] = var[u] /\ last' = last /\ making' = making
      BY <1>13, <1>14, <2>1 DEF Core, Firsts
    <3> QED
      BY <1>34, <1>37, <1>38, <3>1 DEF Put
  <2>2. Put(v)'
    <3>1. head'[v].tag = "redirect" /\ last'[v] = 1 /\ ~var'[v].deferred
      BY <1>7, <1>13, <1>14, RedirectIs
    <3>2. \A y \in Clients : v \in Deferred /\ Modifies(y, v) /\ last[v] <= 1 => var[v].cur \in {v, making[y]}
      BY DEF Core, Firsts, Put
    <3> QED
      BY <1>8, <1>13, <1>14, <1>37, <1>38, <1>39, <3>1, <3>2 DEF Put
  <2> QED
    BY <2>1, <2>2 DEF Firsts
<1>41. \A y \in Clients : \A n, p : Finds(y, n, p) => Finds(y, n, p)'
  <2>1. ASSUME NEW y \in Clients, NEW n, NEW p, Finds(y, n, p)
        PROVE  Finds(y, n, p)'
    <3>1. PICK u \in Nodes : Reads(y, u) /\ Leads(u, n, p)
      BY <2>1 DEF Finds
    <3>2. head[u] = Redirect(n, p) => head'[u] = Redirect(n, p)'
      BY <1>7, <1>14, RedirectIs DEF Redirect, FlowBack
    <3>3. Leads(u, n, p)'
      BY <1>34, <3>1, <3>2 DEF Leads
    <3> QED
      BY <1>37, <3>1, <3>3 DEF Finds
  <2> QED
    BY <2>1
<1>42. \A y \in Clients : \A n, p : Begins(y, n, p) => Begins(y, n, p)'
  <2>1. ASSUME NEW y \in Clients, NEW n, NEW p, p = 0, head[n].tag = "redirect", Reads(y, n),
               Leads(n, head[n].arcs[1].node, head[n].arcs[1].port)
        PROVE  Begins(y, n, p)'
    <3>1. n \in Nodes /\ n # v
      BY <1>7, <2>1, Argument DEF Core
    <3>2. head'[n] = head[n]
      BY <1>14, <3>1
    <3>3. Reads(y, n)'
      BY <1>37, <2>1
    <3>4. PICK m, k : m = head[n].arcs[1].node /\ k = head[n].arcs[1].port
      OBVIOUS
    <3>5. Leads(n, m, k)
      BY <2>1, <3>4
    <3>6. Leads(n, m, k)'
      BY <1>34, <3>1, <3>2, <3>5 DEF Leads, Redirect, FlowBack
    <3> QED
      BY <2>1, <3>2, <3>3, <3>4, <3>6 DEF Begins, Leads
  <2> QED
    BY <1>41, <2>1 DEF Begins
<1>43. ASSUME NEW y \in Clients, InRun(y), NEW j \in Writes(making[y]), ToWrite(y, j)
       PROVE  Writing(y, j)'
  <2>1. Writing(y, j) /\ making[y] \in Tasks
    BY <1>43 DEF Core, Callers, Called
  <2>2. PICK u \in Nodes : u = args[making[y]][j].v
    <3>1. Writes(making[y]) \subseteq DOMAIN args[making[y]]
      BY DEF Writes
    <3> QED
      BY <2>1, <3>1, ArgOf DEF Core
  <2>3. u # v \/ y = x
    <3>1. Modifies(y, u)
      BY <1>43, <2>2, ArgumentOf DEF Core, Writes
    <3> QED
      BY ZenonT(60), <1>1, <1>6, <3>1 DEF Core, Callers, Called
  <2>4. u # v => head'[u] = head[u]
    BY <1>14
  <2>5. u = v => head'[u].arcs[1].node = making[y]
    BY SMTT(30), <1>2, <1>14, <2>3, RedirectIs
  <2>6. SlotOf(u) = <<u, 0>> /\ head'[u].tag = "redirect" => head'[u].arcs[1].node = making[y]
    BY <2>1, <2>2, <2>4, <2>5 DEF Writing
  <2> QED
    BY <1>13, <1>14, <1>34, <2>1, <2>2, <2>6 DEF Writing, Vacant, Openable, Null, Ready, PortOf, Writes
<1>44. Callers'
  <2>1. ASSUME NEW y \in Clients
        PROVE  Called(y)'
    <3>1. Called(y)
      BY DEF Core, Callers
    <3>2. InRun(y) => owed'[making[y]] + Number(todo'[y], Asks) <= Len(args[making[y]])
      <4>1. InRun(y) => owed[making[y]] + Number(todo[y], Asks) <= Len(args[making[y]])
        BY <3>1 DEF Called, Asks
      <4>2. Number(todo'[x], Asks) = Number(todo[x], Asks)
        <5>1. \A j \in DOMAIN fs : fs[j] \notin Asks
          BY <1>15 DEF Asks, Asking
        <5>2. Number(fs, Asks) = 0
          BY <1>15, <5>1, NumberNone
        <5>3. todo[x] \in Seq(Frame)
          BY <1>1, Families DEF Core
        <5>4. Number(todo'[x], Asks) = Number(fs, Asks) + Number(todo[x], Asks)
          BY <1>15, <1>18, <5>3, NumberCat
        <5>5. Number(todo[x], Asks) \in Nat
          BY <5>3, NumberType
        <5> QED
          BY <5>2, <5>4, <5>5
      <4>3. y # x => todo'[y] = todo[y]
        BY <1>18, NodesApart
      <4> QED
        BY <1>13, <4>1, <4>2, <4>3
    <3>3. \A f \in Ahead(y)' : /\ f.op = "link" => Begins(y, f.node, f.port)'
                               /\ f.op \in {"hop", "late"} => Finds(y, f.node, f.port)'
                               /\ f.op = "hop" => f.node \in Tasks
      <4>1. \A f \in Ahead(y) : /\ f.op = "link" => Begins(y, f.node, f.port)
                                /\ f.op \in {"hop", "late"} => Finds(y, f.node, f.port)
                                /\ f.op = "hop" => f.node \in Tasks
        BY <3>1 DEF Called
      <4> QED
        BY <1>31, <1>41, <1>42, <4>1
    <3>4. InRun(y) => /\ making[y] \in Tasks /\ var'[making[y]] = New(making[y])'
                      /\ \A j \in DOMAIN args[making[y]] : var'[args[making[y]][j].v].live
      <4>1. InRun(y) => /\ making[y] \in Tasks /\ var[making[y]] = New(making[y])
                        /\ \A j \in DOMAIN args[making[y]] : var[args[making[y]][j].v].live
        BY <3>1 DEF Called
      <4>2. making[y] \in Tasks => making[y] # v /\ making[y] \in Nodes
        BY <1>8, NodesApart
      <4>3. \A j \in DOMAIN args[making[y]] : making[y] \in Tasks => args[making[y]][j].v \in Nodes
        BY ArgOf DEF Core
      <4> QED
        BY <1>13, <1>14, <4>1, <4>2, <4>3 DEF New
    <3>5. InRun(y) => \A u \in Nodes : Modifies(y, u) => last[u] >= 1
      BY <3>1 DEF Called
    <3>6. InRun(y) => \A z \in Clients \ {y} : \A u \in Nodes : Modifies(y, u) =>
                        /\ ~Modifies(z, u)
                        /\ Reads(z, u) => u \in Deferred /\ last[u] <= 1
      BY <3>1 DEF Called
    <3>7. InRun(y) => \A j \in Writes(making[y])' : ToWrite(y, j)' => Writing(y, j)'
      BY <1>13, <1>32, <1>43 DEF Writes
    <3>8. making[y] # NoTask => phase[making[y]] # "idle" /\ \A z \in Clients : making[z] = making[y] => z = y
      BY <3>1 DEF Called
    <3>9. /\ making'[y] # NoTask => phase'[making'[y]] # "idle" /\ \A z \in Clients : making'[z] = making'[y] => z = y
          /\ InRun(y)' => /\ making'[y] \in Tasks /\ var'[making'[y]] = New(making[y])'
                          /\ \A j \in DOMAIN args'[making'[y]] : var'[args'[making'[y]][j].v].live
                          /\ \A u \in Nodes : Modifies(y, u)' => last'[u] >= 1
                          /\ \A z \in Clients \ {y} : \A u \in Nodes : Modifies(y, u)' =>
                               /\ ~Modifies(z, u)'
                               /\ Reads(z, u)' => u \in Deferred /\ last'[u] <= 1
                          /\ \A j \in Writes(making[y])' : ToWrite(y, j)' => Writing(y, j)'
                          /\ owed'[making'[y]] + Number(todo'[y], Asks') <= Len(args'[making'[y]])
      BY <1>13, <1>36, <1>37, <3>2, <3>4, <3>5, <3>6, <3>7, <3>8 DEF Asks
    <3> QED
      BY <3>3, <3>9 DEF Called, Asks
  <2> QED
    BY <2>1 DEF Callers
<1>45. Tallies'
  <2>1. ASSUME NEW n \in Nodes, NEW p \in Slots(n)
        PROVE  Tallied(n, p)'
    <3>1. \A j \in DOMAIN fs : fs[j] \notin Marks(n, p)
      BY <1>15 DEF Marks
    <3>2. ASSUME NEW P \in SUBSET Marks(n, p)
          PROVE  Count(todo', P) = Count(todo, P)
      <4>1. Number(fs, P) = 0
        BY <1>15, <3>1, NumberNone
      <4> QED
        BY <1>18, <4>1
    <3>3. \A y \in Threads : Ahead(y)' \cap Marks(n, p) \subseteq Ahead(y)
      BY <1>18, <3>1
    <3>4. n \in Tasks => /\ count'[n][p] = count[n][p]
                         /\ Number(todo'[n], Turning(n, p)) <= Number(todo[n], Turning(n, p))
                         /\ head'[n].tag = "open" => head[n].tag = "open"
      <4>1. n \in Tasks => todo[n] \in Seq(Frame)
        BY Families, NodesApart DEF Core
      <4>2. n \in Tasks => Number(todo[n], Turning(n, p)) \in Nat
        BY <4>1, NumberType
      <4> QED
        BY <1>13, <1>24, <4>2
    <3>5. Count(Lists', {BackOnly(n, p)}) = Count(Lists, {BackOnly(n, p)})
      <4>1. \A j \in DOMAIN r : r[j] \notin {BackOnly(n, p)}
        BY <1>16 DEF BackOnly
      <4>2. Number(r, {BackOnly(n, p)}) = 0
        BY <4>1, NumberNone
      <4> QED
        BY <1>27, <4>2
    <3> QED
      BY <1>13, <1>29, <3>2, <3>3, <3>4, <3>5, TalliedKept
  <2> QED
    BY <1>13, <2>1, SlotsStay DEF Tallies
<1> QED
  BY <1>21, <1>23, <1>25, <1>26, <1>28, <1>30, <1>35, <1>40, <1>44, <1>45 DEF Core
=============================================================================
