-------------------------- MODULE TaskGraphCounts --------------------------
(***************************************************************************)
(* The steps of the task's own thread, of the counts, and of the client    *)
(* that makes, publishes or drops a variable keep Core too; so start_count *)
(* and countdown are exact in every state.                                 *)
(***************************************************************************)
EXTENDS TaskGraphProofs

(***************************************************************************)
(* A task's own thread: its functor                                        *)
(***************************************************************************)
LEMMA Popped ==
  ASSUME TypeOK, NEW x \in Threads, todo[x] # <<>>, Then(x, <<>>)
  PROVE  /\ todo'[x] = Tail(todo[x]) /\ todo[x] \in Seq(Frame)
         /\ Ahead(x) = {Cur(x)} \cup After(todo[x], 1) /\ Ahead(x)' = After(todo[x], 1)
         /\ \A y \in Threads : Ahead(y)' \subseteq Ahead(y)
         /\ \A y \in Threads : y # x => todo'[y] = todo[y] /\ Ahead(y)' = Ahead(y)
         /\ \A P : /\ Count(todo, P) \in Nat /\ Count(todo', P) \in Nat
                   /\ Count(todo', P) = Count(todo, P) - One(Cur(x) \in P)
<1>1. PICK fs : fs = <<>>
  OBVIOUS
<1>2. fs \in Seq(Frame) /\ DOMAIN fs = {} /\ Then(x, fs) /\ \A P : Number(fs, P) = 0
  BY <1>1, NumberEmpty
<1>3. todo[x] \in Seq(Frame) /\ todo \in Family(Threads, Frame)
  BY Families
<1>4. todo'[x] = Tail(todo[x])
  <2>1. Tail(todo[x]) \in Seq(Frame)
    BY <1>3, Behind
  <2>2. todo' = [todo EXCEPT ![x] = <<>> \o Tail(@)]
    BY DEF Then
  <2>3. todo'[x] = <<>> \o Tail(todo[x])
    BY <2>2 DEF TypeOK, FramesFit
  <2> QED
    BY <2>1, <2>3
<1>5. /\ Ahead(x) = {Cur(x)} \cup After(todo[x], 1)
      /\ Ahead(x)' = {fs[i] : i \in DOMAIN fs} \cup After(todo[x], 1)
      /\ \A y \in Threads : y # x => todo'[y] = todo[y] /\ Ahead(y)' = Ahead(y)
  BY <1>2, AheadThen
<1>6. Ahead(x)' = After(todo[x], 1)
  BY <1>2, <1>5
<1>7. \A P : /\ Count(todo, P) \in Nat /\ Count(todo', P) \in Nat
             /\ Count(todo', P) = Count(todo, P) - One(Cur(x) \in P)
  <2>1. \A P : /\ Count(todo', P) \in Nat /\ Count(todo, P) \in Nat
               /\ Count(todo', P) = Count(todo, P) - One(Cur(x) \in P) + Number(fs, P)
    BY <1>2, ThenCount
  <2> QED
    BY <1>2, <2>1 DEF One
<1> QED
  BY <1>3, <1>4, <1>5, <1>6, <1>7

LEMMA StartCore ==
  ASSUME Core, TypeOK', NEW t \in Tasks, Start(t)
  PROVE  Core'
<1> USE DEF setup, engine
<1>1. t \in Threads /\ t \in Nodes /\ todo[t] # <<>> /\ Cur(t).op = "start" /\ At(t, "start")
  BY AtTop, NodesApart DEF Start, Core
<1>2. /\ phase' = [phase EXCEPT ![t] = "running"] /\ Then(t, <<>>)
      /\ UNCHANGED <<node, engine, setup, mem, last, want>>
  BY DEF Start
<1>3. phase[t] = "pending" /\ todo[t] = BodyFrames(t) /\ startCount[t] = 0
  BY <1>1, WorkerStage DEF Core
<1>4. phase'[t] = "running" /\ \A u \in Tasks : u # t => phase'[u] = phase[u]
  BY <1>2 DEF Core, TypeOK
<1>5. PICK fs : fs = <<>>
  OBVIOUS
<1>6. fs \in Seq(Frame) /\ DOMAIN fs = {} /\ Then(t, fs)
  BY <1>2, <1>5
<1>7. /\ todo'[t] = Tail(todo[t]) /\ \A y \in Threads : y # t => todo'[y] = todo[y]
  BY <1>1, <1>2, Popped DEF Core
<1>8. \A u : Slots(u)' = Slots(u)
  BY <1>2, SlotsStay
<1>9. \A n : Finished(n)' <=> Finished(n)
  BY <1>2, <1>3, <1>4 DEF Finished, Null
<1>10. Steady /\ Owing
  BY <1>2, <1>3, <1>4, SteadyIf DEF Owing
<1>11. Placed'
  BY <1>1, <1>2, <1>10, PlacedPop
<1>12. Linked'
  BY <1>2, <1>10, LinkedSame DEF Lists
<1>13. Bodies'
  <2>1. Staged(t)'
    <3>1. Staged(t)
      BY DEF Core, Bodies
    <3>2. BodyFrames(t)' = BodyFrames(t)
      BY <1>2, BodySame
    <3> QED
      BY <1>2, <1>3, <1>4, <1>7, <3>1, <3>2 DEF Staged
  <2>2. ASSUME NEW u \in Tasks, u # t
        PROVE  Staged(u)'
    BY <1>2, <1>4, <1>7, <2>2, StagedKept, NodesApart
  <2> QED
    BY <2>1, <2>2 DEF Bodies
<1>14. Distinct'
  BY <1>2, DistinctSame
<1>15. Due'
  <2>1. ASSUME NEW u \in Tasks
        PROVE  HeldFor(Writer(u))' = HeldFor(Writer(u))
    BY <1>2, HeldForStays
  <2>2. Lists' = Lists
    BY <1>2 DEF Lists
  <2> QED
    BY <1>1, <1>2, <1>6, <2>1, <2>2, DueThen
<1>16. Undisturbed
  <2>1. \A m \in Nodes : \A q \in Slots(m) : Vacant(m, q) => Vacant(m, q)'
    BY <1>2, VacantSame
  <2>2. \A u \in Tasks : phase[u] # "idle" => phase'[u] # "idle"
    BY <1>4
  <2> QED
    BY <1>1, <1>2, <1>6, <2>1, <2>2, UndisturbedThen
<1>17. Stores'
  BY <1>2, <1>9, <1>16, StoresKept
<1>18. Homes' /\ Firsts'
  BY <1>16, HomesKept, FirstsKept
<1>19. Callers'
  BY <1>1, <1>2, <1>6, <1>16, CallsThen
<1>20. Tallies'
  <2>1. ASSUME NEW m \in Nodes, NEW q \in Slots(m)
        PROVE  Tallied(m, q)'
    <3>1. Cur(t) \notin Marks(m, q)
      BY <1>1 DEF Marks
    <3>2. Lists' = Lists
      BY <1>2 DEF Lists
    <3> QED
      BY <1>1, <1>2, <1>6, <1>9, <3>1, <3>2, TalliedThen
  <2> QED
    BY <1>8, <2>1 DEF Tallies
<1> QED
  BY <1>11, <1>12, <1>13, <1>14, <1>15, <1>17, <1>18, <1>19, <1>20 DEF Core

(* All of P is in one sequence of a family. *)
LEMMA CountLone ==
  ASSUME NEW X, IsFiniteSet(X), NEW S, NEW s \in Family(X, S), NEW x \in X, NEW P,
         \A y \in X : y # x => \A i \in DOMAIN s[y] : s[y][i] \notin P
  PROVE  Count(s, P) = Number(s[x], P)
<1>1. PICK c : c = <<>>
  OBVIOUS
<1>2. c \in Seq(S) /\ DOMAIN c = {} /\ Number(c, P) = 0
  BY <1>1, NumberEmpty
<1>3. PICK r : r = [s EXCEPT ![x] = c]
  OBVIOUS
<1>4. DOMAIN s = X
  BY DEF Family
<1>5. r[x] = c /\ \A y \in X : y # x => r[y] = s[y]
  BY <1>3, <1>4
<1>8. Replaced(r, s, x, c)
  BY <1>3 DEF Replaced
<1>9. c \in Seq(S)
  BY <1>2
<1>6. /\ r \in Family(X, S) /\ Count(s, P) \in Nat /\ Number(s[x], P) \in Nat
      /\ Count(r, P) = Count(s, P) - Number(s[x], P) + Number(c, P)
  BY <1>8, <1>9, CountAs
<1>7. Count(r, P) = 0
  <2>1. \A y \in X : \A i \in DOMAIN r[y] : r[y][i] \notin P
    BY <1>2, <1>5
  <2> QED
    BY <1>6, <2>1, CountNone
<1> QED
  BY <1>2, <1>6, <1>7

(* The frames of a body, and those behind its first three. *)
Closing(t) == {f \in Frame : f.node = t /\ (f.op \in {"wakeup", "relall", "rel"} \/ (f.op = "out" /\ f.port \in Slots(t)))}
Bodily(t)  == Closing(t) \cup {f \in Frame : f.node = t /\ f.op \in {"start", "finish", "exchange"}}

LEMMA BodyFrame ==
  ASSUME TypeOK, NEW t \in Tasks
  PROVE  /\ Rest3(t) \in Seq(Closing(t)) /\ \A i \in DOMAIN Rest3(t) : Rest3(t)[i] \in Closing(t)
         /\ BodyFrames(t) \in Seq(Bodily(t)) /\ \A i \in DOMAIN BodyFrames(t) : BodyFrames(t)[i] \in Bodily(t)
<1>1. PICK C : C = Closing(t)
  OBVIOUS
<1>2. PICK m : m = Cardinality(Slots(t))
  OBVIOUS
<1>3. m \in 1..(MaxPort + 1) /\ MaxPort \in Nat /\ Slots(t) = 0..(m - 1)
  <2>1. PICK c : c = Cardinality(Writes(t))
    OBVIOUS
  <2>2. Slots(t) = 0..c /\ c \in 0..MaxPort /\ MaxPort \in Nat
    BY <2>1, WritesFinite, NodesApart
  <2>3. Cardinality(0..c) = c - 0 + 1
    BY <2>2, FS_Interval
  <2> QED
    BY <1>2, <2>2, <2>3
<1>4. t \in Nodes /\ \A op \in {"out", "start", "finish", "exchange", "wakeup", "relall", "rel"} :
        \A q \in Port, k \in {0, 1} :
          /\ F(op, t, q, k) \in Frame /\ F(op, t, q, k).op = op /\ F(op, t, q, k).node = t
          /\ F(op, t, q, k).port = q
  BY NodesApart DEF F, Frame, BodyOps, CountOps
<1>5. OutFrames(t) \in Seq(C)
  <2>1. ASSUME NEW i \in 1..m
        PROVE  F("out", t, i - 1, 0) \in C
    <3>1. i - 1 \in Port /\ i - 1 \in Slots(t)
      BY <1>3 DEF Port
    <3> QED
      BY <1>1, <1>4, <3>1 DEF Closing
  <2> QED
    BY <1>2, <1>3, <2>1 DEF OutFrames
<1>6. PICK f1, f2, f3 : f1 = F("wakeup", t, 0, 0) /\ f2 = F("relall", t, 0, 0) /\ f3 = F("rel", t, 0, 1)
  OBVIOUS
<1>7. f1 \in C /\ f2 \in C /\ f3 \in C
  BY <1>1, <1>4, <1>6, NodesApart DEF Closing
<1>8. <<f1, f2, f3>> \in Seq(C)
  BY <1>7
<1>9. Rest3(t) = OutFrames(t) \o <<f1, f2, f3>>
  BY <1>6 DEF Rest3
<1>10. Rest3(t) \in Seq(C)
  BY <1>5, <1>8, <1>9
<1>11. PICK B : B = Bodily(t)
  OBVIOUS
<1>12. C \subseteq B
  BY <1>1, <1>11 DEF Bodily
<1>13. PICK g1, g2, g3 : g1 = F("start", t, 0, 0) /\ g2 = F("finish", t, 0, 0) /\ g3 = F("exchange", t, 0, 0)
  OBVIOUS
<1>14. g1 \in B /\ g2 \in B /\ g3 \in B
  BY <1>4, <1>11, <1>13, NodesApart DEF Bodily
<1>15. <<g1, g2, g3>> \in Seq(B) /\ Rest3(t) \in Seq(B)
  BY <1>10, <1>12, <1>14
<1>16. BodyFrames(t) = <<g1, g2, g3>> \o Rest3(t)
  BY <1>13, BodyIs
<1>17. BodyFrames(t) \in Seq(B)
  BY <1>15, <1>16
<1> QED
  BY <1>1, <1>10, <1>11, <1>17, Member

LEMMA BodyNoFlow ==
  ASSUME TypeOK, NEW t \in Tasks
  PROVE  \A i \in DOMAIN BodyFrames(t) : BodyFrames(t)[i].op # "flow"
  BY BodyFrame DEF Bodily, Closing

(* What a body still has to do once its functor has returned: one frame for each slot. *)
LEMMA OutOnce ==
  ASSUME TypeOK, NEW t \in Tasks, NEW p \in Slots(t), NEW P,
         \A f \in Frame : f.op \notin {"out", "dec"} => f \notin P,
         \A q : F("out", t, q, 0) \in P <=> q = p
  PROVE  Number(Tail(Tail(BodyFrames(t))), P) = 1
<1>1. PICK m : m = Cardinality(Slots(t))
  OBVIOUS
<1>2. m \in 1..(MaxPort + 1) /\ MaxPort \in Nat
  BY <1>1, SlotCount, NodesApart
<1>3. Slots(t) = 0..(m - 1)
  <2>1. PICK c : c = Cardinality(Writes(t))
    OBVIOUS
  <2>2. Slots(t) = 0..c /\ c \in 0..MaxPort
    BY <2>1, WritesFinite
  <2>3. Cardinality(0..c) = c - 0 + 1
    BY <1>2, <2>2, FS_Interval
  <2> QED
    BY <1>1, <1>2, <2>2, <2>3
<1>4. PICK o : o = OutFrames(t)
  OBVIOUS
<1>5. o = [i \in 1..m |-> F("out", t, i - 1, 0)]
  BY <1>1, <1>4 DEF OutFrames
<1>6. t \in Nodes /\ \A op \in {"out", "exchange", "wakeup", "relall", "rel"} : \A q \in Port, k \in {0, 1} :
        /\ F(op, t, q, k) \in Frame /\ F(op, t, q, k).op = op /\ F(op, t, q, k).node = t
  BY NodesApart DEF F, Frame, BodyOps, CountOps
<1>7. o \in Seq(Frame)
  <2>1. \A i \in 1..m : i - 1 \in Port
    BY <1>2 DEF Port
  <2>2. \A i \in 1..m : F("out", t, i - 1, 0) \in Frame
    BY <1>6, <2>1
  <2> QED
    BY <1>2, <1>5, <2>2
<1>8. Number(o, P) = 1
  <2>1. p + 1 \in 1..m /\ p \in Int
    BY <1>2, <1>3
  <2>2. Places(o, P) = {p + 1}
    <3>1. ASSUME NEW i \in 1..m
          PROVE  o[i] \in P <=> i = p + 1
      BY <1>5, <2>1
    <3> QED
      BY <1>5, <2>1, <3>1 DEF Places
  <2> QED
    BY <2>2, FS_Singleton DEF Number
<1>9. PICK e : e = <<F("exchange", t, 0, 0)>>
  OBVIOUS
<1>10. PICK w : w = <<F("wakeup", t, 0, 0), F("relall", t, 0, 0), F("rel", t, 0, 1)>>
  OBVIOUS
<1>11. /\ \A i \in DOMAIN e : e[i] \in Frame /\ e[i] \notin P
       /\ \A i \in DOMAIN w : w[i] \in Frame /\ w[i] \notin P
       /\ e \in Seq(Frame) /\ w \in Seq(Frame)
  <2>1. F("exchange", t, 0, 0) \in Frame /\ F("exchange", t, 0, 0) \notin P
    BY <1>6, NodesApart
  <2>2. F("wakeup", t, 0, 0) \in Frame /\ F("wakeup", t, 0, 0) \notin P
    BY <1>6, NodesApart
  <2>3. F("relall", t, 0, 0) \in Frame /\ F("relall", t, 0, 0) \notin P
    BY <1>6, NodesApart
  <2>4. F("rel", t, 0, 1) \in Frame /\ F("rel", t, 0, 1) \notin P
    BY <1>6, NodesApart
  <2>5. PICK f1, f2, f3 : f1 = F("wakeup", t, 0, 0) /\ f2 = F("relall", t, 0, 0) /\ f3 = F("rel", t, 0, 1)
    OBVIOUS
  <2>6. w = <<f1, f2, f3>> /\ f1 \in Frame /\ f2 \in Frame /\ f3 \in Frame
        /\ f1 \notin P /\ f2 \notin P /\ f3 \notin P
    BY <1>10, <2>2, <2>3, <2>4, <2>5
  <2>7. PICK g : g = F("exchange", t, 0, 0)
    OBVIOUS
  <2>8. e = <<g>> /\ g \in Frame /\ g \notin P
    BY <1>9, <2>1, <2>7
  <2> QED
    BY <2>6, <2>8
<1>12. Number(e, P) = 0 /\ Number(w, P) = 0
  BY <1>11, NumberNone
<1>13. Number(o \o w, P) = 1 + 0 /\ o \o w \in Seq(Frame)
  BY <1>7, <1>8, <1>11, <1>12, NumberCat
<1>14. PICK u \in Seq(Frame) : u = o \o w
  BY <1>13
<1>15. Number(e \o u, P) = Number(e, P) + Number(u, P)
  BY <1>11, NumberCat
<1>16. Tail(Tail(BodyFrames(t))) = e \o u
  BY <1>4, <1>9, <1>10, <1>14, BodyIs DEF Rest3
<1>17. Number(u, P) = 1
  BY <1>13, <1>14
<1>18. Number(e \o u, P) = 1
  BY <1>12, <1>15, <1>17
<1> QED
  BY <1>16, <1>18

(* Nothing is known of a slot before its value is there. *)
LEMMA Untouched ==
  ASSUME Core, NEW n \in Nodes, NEW p \in Slots(n), ~Finished(n)
  PROVE  /\ Held(n, p) = 0 /\ nextWriter[n][p] # Ready /\ countdown[n][p] = 1
         /\ \A y \in Threads : \A f \in Ahead(y) : f \in Marks(n, p) => f.op = "out" /\ y = n
<1>1. nextWriter[n][p] # Ready /\ countdown[n][p] = 1
  BY DEF Core, Tallies, Tallied
<1>2. ASSUME NEW y \in Threads, NEW f \in Ahead(y), f \in Marks(n, p)
      PROVE  f.op = "out" /\ y = n
  <2>1. Fits(f) /\ \E i \in DOMAIN todo[y] : todo[y][i] = f /\ Lies(y, todo[y], i)
    BY AheadFits DEF Core
  <2>2. f.op = "out"
    BY <1>2, <2>1 DEF Marks, Fits
  <2> QED
    BY <1>2, <2>1, <2>2 DEF Marks, Lies, BodyOps
<1>3. Count(todo, Holders(n, p)) = 0
  <2>1. \A y \in Threads : Ahead(y) \cap Holders(n, p) = {}
    BY <1>2, MarksAre DEF Holders
  <2> QED
    BY <2>1, TodoNone DEF Core
<1>4. Count(Lists, {BackOnly(n, p)}) = 0
  <2>1. ASSUME NEW m \in Nodes, NEW i \in DOMAIN Lists[m]
        PROVE  Lists[m][i] \notin {BackOnly(n, p)}
    <3>1. Apt(m, Lists[m][i])
      BY DEF Core, Linked
    <3>2. BackOnly(n, p).kind = "back_only" /\ BackOnly(n, p).node = n
      BY DEF BackOnly
    <3> QED
      BY <3>1, <3>2 DEF Apt
  <2> QED
    BY <2>1, ListsNone DEF Core
<1> QED
  BY <1>1, <1>2, <1>3, <1>4 DEF Held

LEMMA HalfIs == Half \in Int /\ Half > 0 /\ Half >= 3
  BY DEF Half

LEMMA FinishCore ==
  ASSUME Core, TypeOK', NEW t \in Tasks, Finish(t)
  PROVE  Core'
<1> USE DEF setup
<1>1. t \in Threads /\ t \in Nodes /\ todo[t] # <<>> /\ Cur(t).op = "finish" /\ At(t, "finish")
  BY AtTop, NodesApart DEF Finish, Core
<1>2. /\ phase' = [phase EXCEPT ![t] = "done"] /\ Then(t, <<>>)
      /\ countdown' = Countdowns(t, countdown) /\ count' = Countdowns(t, count)
      /\ UNCHANGED <<node, head, startCount, life, nextWriter, woken, refs, setup, last, want>>
  BY DEF Finish
<1>3. phase[t] = "running" /\ todo[t] = Tail(BodyFrames(t)) /\ head[t].tag = "open" /\ startCount[t] = 0
  BY <1>1, WorkerStage DEF Core, Bodies, Staged
<1>4. phase'[t] = "done" /\ \A u \in Tasks : u # t => phase'[u] = phase[u]
  BY <1>2 DEF Core, TypeOK
<1>5. PICK fs : fs = <<>>
  OBVIOUS
<1>6. fs \in Seq(Frame) /\ DOMAIN fs = {} /\ Then(t, fs)
  BY <1>2, <1>5
<1>7. /\ todo'[t] = Tail(todo[t]) /\ \A y \in Threads : y # t => todo'[y] = todo[y] /\ Ahead(y)' = Ahead(y)
      /\ \A y \in Threads : Ahead(y)' \subseteq Ahead(y)
      /\ \A P : /\ Count(todo, P) \in Nat /\ Count(todo', P) \in Nat
                /\ Count(todo', P) = Count(todo, P) - One(Cur(t) \in P)
  BY <1>1, <1>2, Popped DEF Core
<1>8. \A u : Slots(u)' = Slots(u)
  BY <1>2, SlotsStay
<1>9. \A n : n # t => (Finished(n)' <=> Finished(n))
  BY <1>2, <1>4 DEF Finished, Null
<1>10. ~Finished(t) /\ Finished(t)'
  BY <1>3, <1>4 DEF Finished
<1>11. /\ \A q \in Slots(t) : countdown'[t][q] = Half /\ count'[t][q] = Half
       /\ \A n \in Nodes : n # t => countdown'[n] = countdown[n]
       /\ \A n \in Tasks : n # t => count'[n] = count[n]
       /\ \A q \in Port \ Slots(t) : countdown'[t][q] = countdown[t][q]
  <2>1. Slots(t) \subseteq Port
    BY WritesFinite DEF Core
  <2> QED
    BY <1>1, <1>2, <2>1 DEF Core, TypeOK, Countdowns
<1>12. Steady /\ Owing
  BY <1>2, <1>4, SteadyIf DEF Owing
<1>13. Placed'
  BY <1>1, <1>2, <1>12, PlacedPop
<1>14. Linked'
  BY <1>2, <1>12, LinkedSame DEF Lists
<1>15. Bodies'
  <2>1. Staged(t)'
    <3>1. Staged(t)
      BY DEF Core, Bodies
    <3>2. BodyFrames(t)' = BodyFrames(t)
      BY <1>2, BodySame
    <3> QED
      BY <1>2, <1>3, <1>4, <1>7, <3>1, <3>2 DEF Staged
  <2>2. ASSUME NEW u \in Tasks, u # t
        PROVE  Staged(u)'
    BY <1>2, <1>4, <1>7, <1>11, <2>2, StagedKept, NodesApart
  <2> QED
    BY <2>1, <2>2 DEF Bodies
<1>16. Distinct'
  BY <1>2, DistinctSame
<1>17. Due'
  <2>1. ASSUME NEW u \in Tasks
        PROVE  HeldFor(Writer(u))' = HeldFor(Writer(u))
    <3>1. PICK d : d = Writer(u)
      OBVIOUS
    <3>2. \A q \in Slots(t) : countdown[t][q] = 1
      BY <1>1, <1>10, Untouched
    <3>3. ASSUME NEW n \in Nodes, NEW q \in Port
          PROVE  (q \in Slots(n)' /\ countdown'[n][q] > 0 /\ nextWriter'[n][q] = d)
                   <=> (q \in Slots(n) /\ countdown[n][q] > 0 /\ nextWriter[n][q] = d)
      <4>1. CASE n = t
        BY <1>2, <1>8, <1>11, <3>2, <4>1, HalfIs
      <4>2. CASE n # t
        BY <1>2, <1>8, <1>11, <4>2
      <4> QED
        BY <4>1, <4>2
    <3>4. HeldFor(d)' = HeldFor(d)
      BY <3>3, HeldForSame
    <3> QED
      BY <3>1, <3>4 DEF HeldFor, HeldSlots, Writer
  <2>2. Lists' = Lists
    BY <1>2 DEF Lists
  <2> QED
    BY <1>1, <1>2, <1>6, <2>1, <2>2, DueThen
<1>18. Undisturbed
  <2>1. \A m \in Nodes : \A q \in Slots(m) : Vacant(m, q) => Vacant(m, q)'
    BY <1>2, VacantSame
  <2>2. \A u \in Tasks : phase[u] # "idle" => phase'[u] # "idle"
    BY <1>4
  <2> QED
    BY <1>1, <1>2, <1>6, <2>1, <2>2, UndisturbedThen
<1>19. Stores'
  <2>1. \A s \in Storage : s # t /\ s \in Nodes
    BY ConstantsAssumption DEF Nodes
  <2> QED
    BY <1>2, <1>9, <1>11, <1>18, <2>1, StoresKept
<1>20. Homes' /\ Firsts'
  BY <1>18, HomesKept, FirstsKept
<1>21. Callers'
  BY <1>1, <1>2, <1>6, <1>18, CallsThen
<1>22. ASSUME NEW p \in Slots(t)
       PROVE  Tallied(t, p)'
  <2>1. /\ Held(t, p) = 0 /\ nextWriter[t][p] # Ready
        /\ \A y \in Threads : \A f \in Ahead(y) : f \in Marks(t, p) => f.op = "out" /\ y = t
    BY <1>1, <1>10, Untouched
  <2>2. Held(t, p)' = 0
    <3>1. BackOnly(t, p)' = BackOnly(t, p) /\ Holders(t, p)' = Holders(t, p) /\ Ready' = Ready
      BY MarksAre DEF Ready
    <3>2. Cur(t) \notin Holders(t, p)
      BY <1>1 DEF Holders
    <3>3. Count(todo', Holders(t, p)) = Count(todo, Holders(t, p))
      BY <1>7, <3>2 DEF One
    <3>4. Lists' = Lists
      BY <1>2 DEF Lists
    <3> QED
      BY <1>2, <2>1, <3>1, <3>3, <3>4 DEF Held
  <2>3. ASSUME NEW P, P = Shares(t, p) \/ P = Outs(t, p)
        PROVE  Count(todo', P) = 1
    <3>1. Number(Tail(Tail(BodyFrames(t))), P) = 1
      <4>1. \A f \in Frame : f.op \notin {"out", "dec"} => f \notin P
        BY <2>3 DEF Shares, Outs
      <4>2. \A q : F("out", t, q, 0) \in P => q = p
        BY <2>3 DEF Shares, Outs, F
      <4>3. F("out", t, p, 0) \in Frame
        BY <1>1, SlotsArePorts DEF Core, F, Frame, BodyOps
      <4>4. F("out", t, p, 0) \in P
        BY <2>3, <4>3 DEF Shares, Outs, F
      <4>5. \A q : F("out", t, q, 0) \in P <=> q = p
        BY <4>2, <4>4
      <4> QED
        BY <4>1, <4>5, OutOnce DEF Core
    <3>2. \A y \in Threads : y # t => \A i \in DOMAIN todo'[y] : todo'[y][i] \notin P
      <4>1. ASSUME NEW y \in Threads, y # t, NEW i \in DOMAIN todo'[y]
            PROVE  todo'[y][i] \notin P
        <5>1. todo'[y][i] \in Ahead(y)
          BY <1>7, <4>1 DEF Ahead
        <5>2. P \subseteq Marks(t, p)
          BY <2>3, MarksAre
        <5> QED
          BY <2>1, <4>1, <5>1, <5>2
      <4> QED
        BY <4>1
    <3>3. todo' \in Family(Threads, Frame) /\ IsFiniteSet(Threads)
      BY Families, Finite DEF TypeOK, FramesFit, Family
    <3>4. Count(todo', P) = Number(todo'[t], P)
      BY <1>1, <3>2, <3>3, CountLone
    <3> QED
      BY <1>3, <1>7, <3>1, <3>4
  <2>4. Count(todo', Shares(t, p)) = 1 /\ Count(todo', Outs(t, p)) = 1
    BY <2>3
  <2>5. \A y \in Threads : \A f \in Ahead(y)' \cap Shares(t, p) : f.op = "out" /\ f.node = t /\ f.port = p
    <3>1. \A y \in Threads : \A f \in Ahead(y)' \cap Shares(t, p) : f \in Ahead(y) /\ f \in Marks(t, p)
      BY <1>7, MarksAre
    <3> QED
      BY <2>1, <3>1 DEF Marks
  <2>6. Exact(t, p)'
    <3>1. \A y \in Threads : \A f \in Ahead(y)' \cap Shares(t, p) : Share(f)' = Half
      BY <1>11, <2>5 DEF Share
    <3>2. countdown'[t][p] = Half
      BY <1>11
    <3>3. \A y \in Threads : \A f \in Ahead(y)' \cap Shares(t, p)' : countdown'[t][p] = Held(t, p)' + Share(f)'
      BY <2>2, <3>1, <3>2, MarksAre, HalfIs
    <3>4. ~(Count(todo', Shares(t, p)') = 0)
      BY <2>4, MarksAre
    <3> QED
      BY <3>3, <3>4 DEF Exact
  <2>7. Number(todo'[t], Turning(t, p)) = 0
    <3>1. \A i \in DOMAIN todo'[t] : todo'[t][i] \notin Turning(t, p)
      <4>1. ASSUME NEW i \in DOMAIN todo'[t], todo'[t][i] \in Turning(t, p)
            PROVE  FALSE
        <5>1. PICK f : f = todo'[t][i]
          OBVIOUS
        <5>2. f \in Ahead(t)' /\ f.op = "flow"
          BY <4>1, <5>1 DEF Ahead, Turning
        <5>3. f \in Ahead(t)
          BY <1>1, <1>7, <5>2
        <5>4. \A g \in Ahead(t) : g.op # "flow"
          <6>1. \A i2 \in DOMAIN BodyFrames(t) : BodyFrames(t)[i2].op # "flow"
            BY BodyNoFlow DEF Core
          <6>2. todo[t] \in Seq(Frame) /\ BodyFrames(t) \in Seq(Frame) /\ BodyFrames(t) # <<>>
            BY <1>1, Families, BodyIs DEF Core
          <6>3. \A i2 \in DOMAIN Tail(BodyFrames(t)) : i2 + 1 \in DOMAIN BodyFrames(t)
                   /\ Tail(BodyFrames(t))[i2] = BodyFrames(t)[i2 + 1]
            BY <6>2, Behind
          <6> QED
            BY <1>3, <6>1, <6>3 DEF Ahead
        <5> QED
          BY <5>2, <5>3, <5>4
      <4> QED
        BY <4>1
    <3>2. todo'[t] \in Seq(Frame)
      BY <1>1 DEF TypeOK, FramesFit
    <3> QED
      BY <3>1, <3>2, NumberNone
  <2>8. Named(nextWriter[t][p])'
    BY <1>1, <1>2, NamedStays
  <2>9. count'[t][p] = Half /\ nextWriter'[t][p] # Ready
    BY <1>2, <1>11, <2>1
  <2>10. count'[t][p] >= Number(todo'[t], Turning(t, p)) + 3
    BY <2>7, <2>9, HalfIs
  <2>11. Shares(t, p)' = Shares(t, p) /\ Outs(t, p)' = Outs(t, p) /\ Turning(t, p)' = Turning(t, p)
         /\ Ready' = Ready /\ Null' = Null
    BY MarksAre DEF Ready, Null
  <2> QED
    BY <1>10, <2>4, <2>6, <2>8, <2>9, <2>10, <2>11 DEF Tallied
<1>23. Tallies'
  <2>1. ASSUME NEW m \in Nodes, NEW q \in Slots(m), m # t
        PROVE  Tallied(m, q)'
    <3>1. Cur(t) \notin Marks(m, q)
      BY <1>1 DEF Marks
    <3>2. Lists' = Lists
      BY <1>2 DEF Lists
    <3> QED
      BY <1>1, <1>2, <1>6, <1>9, <1>11, <2>1, <3>1, <3>2, TalliedThen
  <2> QED
    BY <1>8, <1>22, <2>1 DEF Tallies
<1> QED
  BY <1>13, <1>14, <1>15, <1>16, <1>17, <1>19, <1>20, <1>21, <1>23 DEF Core

(***************************************************************************)
(* A finished task gives its slots up                                      *)
(***************************************************************************)
LEMMA CountSub ==
  ASSUME NEW X, IsFiniteSet(X), NEW S, NEW s \in Family(X, S), NEW Q, NEW P \in SUBSET Q
  PROVE  Count(s, P) <= Count(s, Q) /\ Count(s, P) \in Nat /\ Count(s, Q) \in Nat
<1>1. Where(s, P) \subseteq Where(s, Q)
  BY DEF Where, Places
<1>2. IsFiniteSet(Where(s, Q)) /\ IsFiniteSet(Where(s, P)) /\ Count(s, P) \in Nat /\ Count(s, Q) \in Nat
  BY CountType
<1>3. Cardinality(Where(s, P)) <= Cardinality(Where(s, Q))
  BY <1>1, <1>2, FS_Subset
<1> QED
  BY <1>2, <1>3 DEF Count

(* What is ahead of the threads after a step. *)
LEMMA TodoNext ==
  ASSUME TypeOK'
  PROVE  /\ todo' \in Family(Threads, Frame) /\ \A x \in Threads : todo'[x] \in Seq(Frame)
         /\ \A P : /\ Count(todo', P) = 0 <=> \A x \in Threads : Ahead(x)' \cap P = {}
                   /\ \A x \in Threads : \A f \in Ahead(x)' : f \in P => Count(todo', P) >= 1
<1>1. todo' \in Family(Threads, Frame) /\ \A x \in Threads : todo'[x] \in Seq(Frame)
  BY DEF TypeOK, FramesFit, Family
<1>2. IsFiniteSet(Threads)
  BY Finite
<1>3. ASSUME NEW P
      PROVE  /\ Count(todo', P) = 0 <=> \A x \in Threads : \A i \in DOMAIN todo'[x] : todo'[x][i] \notin P
             /\ \A x \in Threads : \A i \in DOMAIN todo'[x] : todo'[x][i] \in P => Count(todo', P) >= 1
  BY <1>1, <1>2, CountNone
<1> QED
  BY <1>1, <1>3 DEF Ahead

(* The counts of a thread that goes on with one frame. *)
LEMMA OneCount ==
  ASSUME TypeOK, NEW x \in Threads, todo[x] # <<>>, NEW g \in Frame, Then(x, <<g>>)
  PROVE  \A P : /\ Count(todo', P) = Count(todo, P) - One(Cur(x) \in P) + One(g \in P)
                /\ Count(todo, P) \in Nat /\ Count(todo', P) \in Nat
<1>1. PICK fs : fs = <<g>>
  OBVIOUS
<1>2. fs \in Seq(Frame) /\ Then(x, fs) /\ \A P : Number(fs, P) = One(g \in P)
  BY <1>1, NumberOne
<1>3. \A P : /\ Count(todo', P) \in Nat /\ Count(todo, P) \in Nat
             /\ Count(todo', P) = Count(todo, P) - One(Cur(x) \in P) + Number(fs, P)
  BY <1>2, ThenCount
<1> QED
  BY <1>2, <1>3

LEMMA OutCore ==
  ASSUME Core, TypeOK', NEW t \in Tasks, Out(t)
  PROVE  Core'
<1> USE DEF setup, ghost
<1>1. /\ t \in Threads /\ t \in Nodes /\ todo[t] # <<>> /\ Cur(t).op = "out" /\ Cur(t) \in Ahead(t)
      /\ Cur(t) \in Frame /\ Lies(t, todo[t], 1) /\ todo[t][1] = Cur(t)
  BY AtTop, TopLies, NodesApart DEF Out, Core
<1>2. PICK p \in Port : p = Cur(t).port
  BY AtTop, NodesApart DEF Out, Core
<1>3. p \in Slots(t) /\ Cur(t).node = t
  BY <1>1, <1>2 DEF Lies, BodyOps
<1>4. phase[t] = "done" /\ head[t].tag = "done" /\ Finished(t)
  BY <1>1, WorkerStage DEF Core, Finished
<1>5. PICK k : k = count[t][p] - Kept(t, p)
  OBVIOUS
<1>6. PICK g : g = F("dec", t, p, k)
  OBVIOUS
<1>7. PICK fs : fs = <<g>>
  OBVIOUS
<1>8. /\ nextWriter' = [nextWriter EXCEPT ![t][p] = IF @ = Null THEN Ready ELSE @]
      /\ Then(t, fs) /\ Then(t, <<g>>)
      /\ UNCHANGED <<node, head, startCount, life, countdown, woken, count, refs, setup, ghost>>
  BY <1>2, <1>5, <1>6, <1>7 DEF Out
<1>9. /\ nextWriter'[t][p] = IF nextWriter[t][p] = Null THEN Ready ELSE nextWriter[t][p]
      /\ \A m \in Nodes : m # t => nextWriter'[m] = nextWriter[m]
      /\ \A m \in Nodes, q \in Port : m # t \/ q # p => nextWriter'[m][q] = nextWriter[m][q]
  BY <1>1, <1>2, <1>8 DEF Core, TypeOK
<1>10. count[t][p] \in Int /\ countdown[t][p] \in Int /\ Kept(t, p) \in 0..1
       /\ Kept(t, p) = IF nextWriter[t][p] = Null THEN 1 ELSE 0
  <2>1. count[t] \in [Port -> Int] /\ countdown[t] \in [Port -> Int] /\ p \in Port
    BY <1>1, <1>2 DEF Core, TypeOK
  <2>2. Kept(t, p) = IF nextWriter[t][p] = Null THEN 1 ELSE 0
    BY DEF Kept
  <2> QED
    BY <2>1, <2>2
<1>11. Cur(t) \in Outs(t, p) /\ Cur(t) \in Shares(t, p) /\ Cur(t) \notin Holders(t, p)
  BY <1>1, <1>2, <1>3 DEF Outs, Shares, Holders
<1>12. Count(todo, Outs(t, p)) = 1 /\ Count(todo, Shares(t, p)) = 1
  <2>1. Tallied(t, p)
    BY <1>1, <1>3 DEF Core, Tallies
  <2>2. Count(todo, Outs(t, p)) >= 1 /\ Count(todo, Shares(t, p)) >= 1 /\ Count(todo, Shares(t, p)) <= 1
    BY <1>1, <1>11, <2>1, TodoNone DEF Core, Tallied
  <2>3. Outs(t, p) \in SUBSET Shares(t, p)
    BY MarksAre
  <2>4. Count(todo, Outs(t, p)) <= Count(todo, Shares(t, p)) /\ Count(todo, Outs(t, p)) \in Nat
        /\ Count(todo, Shares(t, p)) \in Nat
    BY <2>3, Families, Finite, CountSub DEF Core
  <2> QED
    BY <2>2, <2>4
<1>13. count[t][p] >= 3 /\ nextWriter[t][p] # Ready /\ countdown[t][p] = Held(t, p) + count[t][p]
       /\ Named(nextWriter[t][p])
  <2>1. Tallied(t, p)
    BY <1>1, <1>3 DEF Core, Tallies
  <2>2. Number(todo[t], Turning(t, p)) \in Nat
    BY <1>1, Families, NumberType DEF Core
  <2>3. count[t][p] >= Number(todo[t], Turning(t, p)) + 3
    BY <1>4, <1>12, <2>1 DEF Tallied
  <2>4. Share(Cur(t)) = count[t][p]
    BY <1>1, <1>2, <1>3 DEF Share
  <2>5. countdown[t][p] = Held(t, p) + Share(Cur(t))
    BY <1>1, <1>4, <1>11, <2>1 DEF Tallied, Exact
  <2> QED
    BY <1>10, <1>12, <2>1, <2>2, <2>3, <2>4, <2>5 DEF Tallied
<1>14. k \in Int /\ k >= 2
  BY <1>5, <1>10, <1>13
<1>15. g \in Frame /\ g.op = "dec" /\ g.node = t /\ g.port = p /\ g.k = k
  BY <1>1, <1>6, <1>14 DEF F, Frame, CountOps
<1>16. fs \in Seq(Frame) /\ DOMAIN fs = {1} /\ \A i \in DOMAIN fs : fs[i] = g
  BY <1>7, <1>15, OneIs
<1>17. \A u : Finished(u)' <=> Finished(u)
  <2>1. \A u : u \notin Tasks => nextWriter'[u] = nextWriter[u] \/ u \notin Nodes
    BY <1>9
  <2>2. DOMAIN nextWriter = Nodes /\ DOMAIN nextWriter' = Nodes
    BY DEF Core, TypeOK
  <2>3. \A u : u # t => nextWriter'[u] = nextWriter[u]
    BY <1>8
  <2> QED
    BY <1>8, <2>3 DEF Finished, Null
<1>18. \A u : Slots(u)' = Slots(u)
  BY <1>8, SlotsStay
<1>19. Steady /\ Owing
  <2>1. \A n \in Storage : n # t /\ n \in Nodes
    BY ConstantsAssumption DEF Nodes
  <2> QED
    BY <1>8, <1>9, <2>1, SteadyIf DEF Owing
<1>20. Placed'
  <2>1. Fits(g)'
    BY <1>3, <1>4, <1>14, <1>15, <1>17, <1>18 DEF Fits
  <2> QED
    BY <1>1, <1>8, <1>15, <1>19, <2>1, PlacedOne DEF BodyOps, Calling, Asking
<1>21. Linked'
  BY <1>8, <1>19, LinkedSame DEF Lists
<1>22. Bodies'
  <2>1. ASSUME NEW u \in Tasks
        PROVE  /\ node'[u] = "unborn" <=> node[u] = "unborn"
               /\ head'[u].tag = head[u].tag
               /\ phase[u] = "idle" => /\ owed'[u] = owed[u] /\ nextWriter'[u] = nextWriter[u]
                                       /\ countdown'[u] = countdown[u]
    BY <1>4, <1>8, <1>9, NodesApart
  <2> QED
    BY <1>1, <1>8, <1>15, <1>16, <2>1, BodiesThen
<1>23. Distinct'
  BY <1>8, DistinctSame
<1>24. Due'
  <2>1. ASSUME NEW u \in Tasks
        PROVE  HeldFor(Writer(u))' = HeldFor(Writer(u))
    <3>1. PICK d : d = Writer(u)
      OBVIOUS
    <3>2. d # Null /\ d # Ready
      BY <3>1 DEF Null, Ready, Writer
    <3>3. nextWriter'[t][p] = d <=> nextWriter[t][p] = d
      BY <1>9, <3>2
    <3>4. \A m \in Nodes : \A q \in Port :
            (q \in Slots(m)' /\ countdown'[m][q] > 0 /\ nextWriter'[m][q] = d)
              <=> (q \in Slots(m) /\ countdown[m][q] > 0 /\ nextWriter[m][q] = d)
      BY <1>8, <1>9, <1>18, <3>3
    <3>5. HeldFor(d)' = HeldFor(d)
      BY <3>4, HeldForSame
    <3> QED
      BY <3>1, <3>5 DEF HeldFor, HeldSlots, Writer
  <2>2. Lists' = Lists
    BY <1>8 DEF Lists
  <2> QED
    BY <1>1, <1>8, <1>15, <1>16, <2>1, <2>2, DueThen
<1>25. Undisturbed
  <2>1. \A m \in Nodes : \A q \in Slots(m) : Vacant(m, q) => Vacant(m, q)'
    <3>1. Vacant(t, p) => Vacant(t, p)'
      BY <1>9 DEF Vacant, Openable, Null, Ready
    <3>2. \A m \in Nodes : \A q \in Port : m # t \/ q # p => (Vacant(m, q) => Vacant(m, q)')
      BY <1>9 DEF Vacant, Openable, Null, Ready
    <3> QED
      BY <3>1, <3>2, SlotsArePorts DEF Core
  <2> QED
    BY <1>1, <1>8, <1>15, <1>16, <2>1, UndisturbedThen
<1>26. Stores'
  BY <1>8, <1>17, <1>25, StoresKept
<1>27. Homes' /\ Firsts'
  BY <1>25, HomesKept, FirstsKept
<1>28. Callers'
  BY <1>1, <1>8, <1>15, <1>16, <1>25, CallsThen
<1>29. Tallied(t, p)'
  <2>1. \A P : Count(todo', P) = Count(todo, P) - One(Cur(t) \in P) + One(g \in P) /\ Count(todo, P) \in Nat
    BY <1>1, <1>8, <1>15, OneCount DEF Core
  <2>2. g \in Shares(t, p) /\ g \notin Outs(t, p) /\ g \notin Holders(t, p)
    BY <1>14, <1>15 DEF Shares, Outs, Holders
  <2>3. /\ Count(todo', Shares(t, p)) = 1 /\ Count(todo', Outs(t, p)) = 0
        /\ Count(todo', Holders(t, p)) = Count(todo, Holders(t, p))
    BY <1>11, <1>12, <2>1, <2>2 DEF One
  <2>4. Held(t, p)' = Held(t, p) + Kept(t, p) /\ Held(t, p) \in Nat
    <3>1. Lists' = Lists /\ BackOnly(t, p)' = BackOnly(t, p) /\ Holders(t, p)' = Holders(t, p) /\ Ready' = Ready
      BY <1>8, MarksAre DEF Lists, Ready
    <3>2. Count(Lists, {BackOnly(t, p)}) \in Nat /\ Count(todo, Holders(t, p)) \in Nat
      BY CountNat DEF Core
    <3>3. (nextWriter'[t][p] = Ready) <=> (nextWriter[t][p] = Null)
      BY <1>9, <1>13
    <3> QED
      BY <1>10, <1>13, <2>3, <3>1, <3>2, <3>3 DEF Held
  <2>5. /\ Ahead(t) = {Cur(t)} \cup After(todo[t], 1)
        /\ Ahead(t)' = {fs[i] : i \in DOMAIN fs} \cup After(todo[t], 1)
        /\ \A y \in Threads : y # t => todo'[y] = todo[y] /\ Ahead(y)' = Ahead(y)
    BY <1>1, <1>8, <1>16, AheadThen DEF Core
  <2>6. \A y \in Threads : Ahead(y)' \cap Outs(t, p) = {}
    BY <2>3, TodoNext
  <2>7. ASSUME NEW y \in Threads, NEW f \in Ahead(y)', f \in Shares(t, p)
        PROVE  f = g
    <3>1. f = g \/ f \in Ahead(y)
      BY <1>16, <2>5
    <3>2. f \in Ahead(y) => f = Cur(t)
      BY <1>1, <1>11, <1>12, <2>7, TodoOne DEF Core
    <3> QED
      BY <1>11, <2>6, <3>1, <3>2
  <2>8. countdown'[t][p] = Held(t, p)' + k
    BY <1>5, <1>8, <1>10, <1>13, <2>4
  <2>9. Share(g)' = k
    BY <1>15 DEF Share
  <2>10. Exact(t, p)'
    <3>1. \A y \in Threads : \A f \in Ahead(y)' : f \in Shares(t, p) =>
             countdown'[t][p] = Held(t, p)' + Share(f)'
      <4>1. ASSUME NEW y \in Threads, NEW f \in Ahead(y)', f \in Shares(t, p)
            PROVE  countdown'[t][p] = Held(t, p)' + Share(f)'
        <5>1. f = g
          BY <2>7, <4>1
        <5>2. Share(f)' = k
          BY <1>15, <5>1 DEF Share
        <5> QED
          BY <2>8, <5>2
      <4> QED
        BY <4>1
    <3> QED
      BY <2>3, <3>1, MarksAre DEF Exact
  <2>11. Finished(t)'
    BY <1>4, <1>17
  <2>12. nextWriter'[t][p] # Null
    BY <1>9 DEF Null, Ready
  <2>14. Named(nextWriter[t][p])'
    <3>1. Ready.kind = "ready"
      BY DEF Ready
    <3> QED
      BY <1>8, <1>9, <1>13, <3>1 DEF Named
  <2> QED
    BY <2>3, <2>10, <2>11, <2>12, <2>14, MarksAre DEF Tallied, Null
<1>30. Tallies'
  <2>1. ASSUME NEW m \in Nodes, NEW q \in Slots(m), m # t \/ q # p
        PROVE  Tallied(m, q)'
    <3>1. Cur(t) \notin Marks(m, q) /\ \A i \in DOMAIN fs : fs[i] \notin Marks(m, q) /\ fs[i] \notin Turning(m, q)
      BY <1>2, <1>3, <1>15, <1>16, <2>1 DEF Marks, Turning
    <3>2. Lists' = Lists
      BY <1>8 DEF Lists
    <3>3. nextWriter'[m][q] = nextWriter[m][q]
      BY <1>9, <2>1, SlotsArePorts DEF Core
    <3> QED
      BY <1>1, <1>8, <1>16, <1>17, <3>1, <3>2, <3>3, TalliedThen
  <2> QED
    BY <1>18, <1>29, <2>1 DEF Tallies
<1> QED
  BY <1>20, <1>21, <1>22, <1>23, <1>24, <1>26, <1>27, <1>28, <1>30 DEF Core

(***************************************************************************)
(* A consumer is told                                                      *)
(***************************************************************************)
LEMMA ThenNumber ==
  ASSUME TypeOK, NEW x \in Threads, todo[x] # <<>>, NEW fs \in Seq(Frame), Then(x, fs), NEW P
  PROVE  /\ Number(todo'[x], P) = Number(todo[x], P) - One(Cur(x) \in P) + Number(fs, P)
         /\ Number(todo[x], P) \in Nat /\ Number(fs, P) \in Nat /\ Number(todo'[x], P) \in Nat
         /\ Number(todo[x], P) >= One(Cur(x) \in P)
<1>1. PICK s \in Seq(Frame) : s = todo[x]
  BY Families
<1>2. todo'[x] = fs \o Tail(s)
  BY <1>1 DEF Then, TypeOK, FramesFit
<1>3. PICK r \in Seq(Frame) : r = Tail(s)
  BY <1>1, Behind
<1>4. Number(s, P) = One(Head(s) \in P) + Number(r, P)
  BY <1>1, <1>3, NumberTail
<1>5. Number(fs \o r, P) = Number(fs, P) + Number(r, P)
  BY NumberCat
<1>6. Number(s, P) \in Nat /\ Number(r, P) \in Nat /\ Number(fs, P) \in Nat
  BY NumberType
<1> QED
  BY <1>1, <1>2, <1>3, <1>4, <1>5, <1>6 DEF One, Cur

LEMMA FlowCore ==
  ASSUME Core, TypeOK', NEW t \in Tasks, Flow(t)
  PROVE  Core'
<1> USE DEF setup, ghost
<1>1. /\ t \in Threads /\ t \in Nodes /\ todo[t] # <<>> /\ Cur(t).op = "flow" /\ Cur(t) \in Ahead(t)
      /\ Cur(t) \in Frame /\ Fits(Cur(t)) /\ Lies(t, todo[t], 1) /\ todo[t][1] = Cur(t) /\ 1 \in DOMAIN todo[t]
  BY AtTop, TopLies, NodesApart DEF Flow, Core
<1>2. PICK c \in Nodes, p \in Port : c = Cur(t).node /\ p = Cur(t).port
  BY AtTop, NodesApart DEF Flow, Core
<1>3. c \in Tasks /\ p \in Slots(t) /\ F("out", t, p, 0) \in Ahead(t)
  <2>1. c \in Tasks /\ p \in Slots(t) /\ F("out", t, p, 0) \in After(todo[t], 1)
    BY <1>1, <1>2 DEF Lies, Fits
  <2> QED
    BY <1>1, <2>1, AfterAhead DEF Core
<1>4. phase[t] = "done" /\ head[t].tag = "done" /\ Finished(t)
  BY <1>1, WorkerStage DEF Core, Finished
<1>5. Cur(t) \in Notices(c) /\ c # t /\ head[c].tag = "open" /\ phase[c] = "pending" /\ todo[c] = <<>>
  <2>1. Cur(t) \in Notices(c)
    BY <1>1, <1>2 DEF Notices
  <2> QED
    BY <1>1, <1>3, <2>1, Expected DEF Core
<1>6. PICK g : g = F("pre", c, 0, 1)
  OBVIOUS
<1>7. g \in Frame /\ g.op = "pre" /\ g.node = c /\ g.port = 0 /\ g.k = 1
  BY <1>6, NodesApart DEF F, Frame, CountOps
<1>8. PICK fs : fs = <<g>>
  OBVIOUS
<1>9. fs \in Seq(Frame) /\ DOMAIN fs = {1} /\ \A i \in DOMAIN fs : fs[i] = g
  BY <1>7, <1>8, OneIs
<1>10. PICK a : a = BackOnly(t, p)
  OBVIOUS
<1>11. a \in Arc /\ a.kind = "back_only" /\ a.node = t /\ a.port = p
  BY <1>1, <1>10, ArcTypes DEF BackOnly
<1>12. /\ Then(t, fs) /\ Then(t, <<g>>)
       /\ UNCHANGED <<node, startCount, life, nextWriter, countdown, woken, refs, setup, ghost>>
  BY <1>2, <1>6, <1>8 DEF Flow
<1>13. \/ TurnBack(t, p) /\ Push(c, a) /\ count' = [count EXCEPT ![t][p] = @ - 1]
       \/ ~TurnBack(t, p) /\ head' = head /\ count' = count
  BY <1>2, <1>10 DEF Flow
<1>14. \A u \in Nodes : head'[u].tag = head[u].tag /\ (u # c => head'[u] = head[u])
  <2>1. CASE Push(c, a)
    BY <1>5, <1>11, <2>1, PushLists DEF Core
  <2> QED
    BY <1>13, <2>1
<1>15. \A P : a \notin P => Count(Lists', P) = Count(Lists, P)
  <2>1. CASE Push(c, a)
    <3>1. \A P : Count(Lists', P) = Count(Lists, P) + One(a \in P) /\ Count(Lists, P) \in Nat
      BY <1>5, <1>11, <2>1, PushCount DEF Core
    <3> QED
      BY <3>1 DEF One
  <2>2. CASE head' = head
    BY <2>2 DEF Lists
  <2> QED
    BY <1>13, <2>1, <2>2
<1>16. \A m \in Nodes, q \in Port : m \in Tasks /\ (m # t \/ q # p) => count'[m][q] = count[m][q]
  <2>1. count \in [Tasks -> [Port -> Int]]
    BY DEF Core, TypeOK
  <2>2. CASE count' = [count EXCEPT ![t][p] = @ - 1]
    BY <2>1, <2>2
  <2> QED
    BY <1>13, <2>2
<1>17. \A u : Finished(u)' <=> Finished(u)
  BY <1>12, FinishedSame
<1>18. \A u : Slots(u)' = Slots(u)
  BY <1>12, SlotsStay
<1>19. Steady /\ Owing
  BY <1>12, <1>14, SteadyIf DEF Owing
<1>20. Placed'
  <2>1. Fits(g)'
    BY <1>3, <1>7 DEF Fits
  <2> QED
    BY <1>1, <1>7, <1>12, <1>19, <2>1, PlacedOne DEF BodyOps, Calling, Asking
<1>21. Linked'
  <2>1. Apt(c, a)'
    BY <1>3, <1>4, <1>11, <1>17, <1>18 DEF Apt
  <2>2. CASE Push(c, a)
    BY <1>5, <1>11, <1>19, <2>1, <2>2, LinkedPush
  <2>3. CASE head' = head
    BY <1>19, <2>3, LinkedSame DEF Lists
  <2> QED
    BY <1>13, <2>2, <2>3
<1>22. Bodies'
  <2>1. ASSUME NEW u \in Tasks
        PROVE  /\ node'[u] = "unborn" <=> node[u] = "unborn"
               /\ head'[u].tag = head[u].tag
               /\ phase[u] = "idle" => /\ owed'[u] = owed[u] /\ nextWriter'[u] = nextWriter[u]
                                       /\ countdown'[u] = countdown[u]
    BY <1>12, <1>14, NodesApart
  <2> QED
    BY <1>1, <1>7, <1>9, <1>12, <2>1, BodiesThen
<1>23. Distinct'
  BY <1>12, DistinctSame
<1>24. \A P : Count(todo', P) = Count(todo, P) - One(Cur(t) \in P) + One(g \in P) /\ Count(todo, P) \in Nat
  BY <1>1, <1>7, <1>12, OneCount DEF Core
<1>25. Due'
  <2>1. ASSUME NEW u \in Tasks
        PROVE  Counted(u)'
    <3>1. Cur(t) \in Notices(u) <=> u = c
      BY <1>1, <1>2 DEF Notices
    <3>2. g \in Notices(u) <=> u = c
      BY <1>7 DEF Notices
    <3>3. Cur(t) \notin Protecting(u) /\ g \notin Protecting(u)
      BY <1>1, <1>7 DEF Protecting
    <3>4. Count(todo', Protecting(u)) = Count(todo, Protecting(u)) /\ Count(todo', Notices(u)) = Count(todo, Notices(u))
      BY <1>24, <3>1, <3>2, <3>3 DEF One
    <3>5. Count(Lists', ArcsTo(u)) = Count(Lists, ArcsTo(u))
      BY <1>11, <1>15 DEF ArcsTo
    <3>6. HeldFor(Writer(u))' = HeldFor(Writer(u))
      BY <1>12, HeldForStays
    <3>7. Coming(u)' = Coming(u)
      BY <3>4, <3>5, <3>6, NoticeOps DEF Coming
    <3> QED
      BY <1>12, <3>4, <3>7, CountedKept
  <2> QED
    BY <2>1 DEF Due
<1>26. Undisturbed
  <2>1. \A u \in Nodes : \A q \in Slots(u) : Vacant(u, q) => Vacant(u, q)'
    BY <1>12, VacantSame
  <2>2. \A u \in Nodes : \/ head'[u] = head[u]
                         \/ /\ head[u].tag = "open" /\ head'[u].tag \in {"open", "done"}
                            /\ u \in Storage => head'[u].tag = "open"
    BY <1>5, <1>14
  <2> QED
    BY <1>1, <1>7, <1>9, <1>12, <2>1, <2>2, UndisturbedThen
<1>27. Stores'
  <2>1. \A s \in Storage : s # c /\ s \in Nodes
    BY <1>3, ConstantsAssumption DEF Nodes
  <2>2. \A s \in Storage : /\ Finished(s)' <=> Finished(s)
                           /\ Finished(s) \/ (head'[s] = head[s] /\ countdown'[s] = countdown[s])
    BY <1>12, <1>14, <1>17, <2>1
  <2> QED
    BY <1>26, <2>2, StoresKept
<1>28. Homes' /\ Firsts'
  BY <1>26, HomesKept, FirstsKept
<1>29. Callers'
  BY <1>1, <1>7, <1>9, <1>12, <1>26, CallsThen
<1>30. ASSUME TurnBack(t, p)
       PROVE  Tallied(t, p)'
  <2>1. Tallied(t, p)
    BY <1>1, <1>3 DEF Core, Tallies
  <2>2. PICK o : o = F("out", t, p, 0)
    OBVIOUS
  <2>3. o \in Ahead(t) /\ o \in Frame /\ o.op = "out" /\ o.node = t /\ o.port = p
    BY <1>1, <1>3, <2>2 DEF F, Frame, BodyOps
  <2>4. o \in Shares(t, p) /\ o \in Outs(t, p)
    BY <2>3 DEF Shares, Outs
  <2>5. /\ Cur(t) \notin Marks(t, p) /\ g \notin Marks(t, p) /\ Cur(t) \in Turning(t, p) /\ g \notin Turning(t, p)
    BY <1>1, <1>2, <1>7 DEF Marks, Turning
  <2>6. /\ Count(todo', Shares(t, p)) = Count(todo, Shares(t, p)) /\ Count(todo', Outs(t, p)) = Count(todo, Outs(t, p))
        /\ Count(todo', Holders(t, p)) = Count(todo, Holders(t, p))
    BY <1>24, <2>5, MarksAre DEF One
  <2>7. /\ Count(todo, Outs(t, p)) >= 1 /\ Count(todo, Shares(t, p)) <= 1 /\ Count(todo, Shares(t, p)) >= 1
        /\ Count(todo, Outs(t, p)) > 0
    <3>1. Count(todo, Outs(t, p)) >= 1 /\ Count(todo, Shares(t, p)) >= 1 /\ Count(todo, Outs(t, p)) \in Nat
      BY <1>1, <2>3, <2>4, TodoNone, CountNat DEF Core
    <3> QED
      BY <2>1, <3>1 DEF Tallied
  <2>8. Push(c, a) /\ count' = [count EXCEPT ![t][p] = @ - 1]
    BY <1>13, <1>30
  <2>9. count'[t][p] = count[t][p] - 1 /\ count[t][p] \in Int
    BY SMTT(30), <1>2, <2>8 DEF Core, TypeOK
  <2>10. Held(t, p)' = Held(t, p) + 1
    <3>1. Count(Lists', {BackOnly(t, p)}) = Count(Lists, {BackOnly(t, p)}) + 1
      <4>1. \A P : Count(Lists', P) = Count(Lists, P) + One(a \in P) /\ Count(Lists, P) \in Nat
        BY <1>5, <1>11, <2>8, PushCount DEF Core
      <4> QED
        BY <1>10, <4>1 DEF One
    <3>2. BackOnly(t, p)' = BackOnly(t, p) /\ Holders(t, p)' = Holders(t, p) /\ Ready' = Ready
      BY MarksAre DEF Ready
    <3>3. Count(Lists, {BackOnly(t, p)}) \in Nat /\ Count(todo, Holders(t, p)) \in Nat
      BY CountNat DEF Core
    <3> QED
      BY <1>12, <2>6, <3>1, <3>2, <3>3 DEF Held
  <2>11. /\ Ahead(t) = {Cur(t)} \cup After(todo[t], 1)
         /\ Ahead(t)' = {fs[i] : i \in DOMAIN fs} \cup After(todo[t], 1)
         /\ \A y \in Threads : y # t => todo'[y] = todo[y] /\ Ahead(y)' = Ahead(y)
    BY <1>1, <1>9, <1>12, AheadThen DEF Core
  <2>12. ASSUME NEW y \in Threads, NEW f \in Ahead(y)', f \in Shares(t, p)
         PROVE  f = o
    <3>1. f \in Ahead(y)
      BY <1>9, <2>5, <2>11, <2>12, MarksAre
    <3> QED
      BY <1>1, <2>3, <2>4, <2>7, <2>12, <3>1, TodoOne DEF Core
  <2>13. countdown'[t][p] = Held(t, p)' + count'[t][p]
    <3>1. Share(o) = count[t][p]
      BY <2>3 DEF Share
    <3>2. countdown[t][p] = Held(t, p) + Share(o)
      BY <1>1, <1>4, <2>1, <2>3, <2>4 DEF Tallied, Exact
    <3>3. Held(t, p) \in Nat
      BY <1>1, HeldNat DEF Core
    <3> QED
      BY <1>12, <2>9, <2>10, <3>1, <3>2, <3>3
  <2>14. Exact(t, p)'
    <3>1. \A y \in Threads : \A f \in Ahead(y)' : f \in Shares(t, p) =>
             countdown'[t][p] = Held(t, p)' + Share(f)'
      <4>1. ASSUME NEW y \in Threads, NEW f \in Ahead(y)', f \in Shares(t, p)
            PROVE  countdown'[t][p] = Held(t, p)' + Share(f)'
        <5>1. f = o
          BY <2>12, <4>1
        <5>2. Share(f)' = count'[t][p]
          BY <2>3, <5>1 DEF Share
        <5> QED
          BY <2>13, <5>2
      <4> QED
        BY <4>1
    <3> QED
      BY <2>6, <2>7, <3>1, MarksAre DEF Exact
  <2>15. count'[t][p] >= Number(todo'[t], Turning(t, p)) + 3
    <3>1. /\ Number(todo'[t], Turning(t, p)) = Number(todo[t], Turning(t, p)) - One(Cur(t) \in Turning(t, p))
                                                + Number(fs, Turning(t, p))
          /\ Number(todo[t], Turning(t, p)) \in Nat
      BY <1>1, <1>9, <1>12, ThenNumber DEF Core
    <3>2. Number(fs, Turning(t, p)) = 0
      BY <1>9, <2>5, NumberNone
    <3>3. count[t][p] >= Number(todo[t], Turning(t, p)) + 3
      BY <1>4, <2>1, <2>7 DEF Tallied
    <3> QED
      BY <2>5, <2>9, <3>1, <3>2, <3>3 DEF One
  <2>16. Named(nextWriter[t][p])' /\ nextWriter'[t][p] = nextWriter[t][p] /\ nextWriter[t][p] # Ready
    <3>1. Named(nextWriter[t][p])'
      BY <1>1, <1>3, <1>12, NamedStays
    <3> QED
      BY <1>12, <2>1, <2>7, <3>1 DEF Tallied
  <2>17. Finished(t)' /\ head'[t].tag # "open"
    BY <1>1, <1>4, <1>14, <1>17
  <2>18. Turning(t, p)' = Turning(t, p) /\ Ready' = Ready
    BY MarksAre DEF Ready
  <2> QED
    BY <2>6, <2>7, <2>14, <2>15, <2>16, <2>17, <2>18, MarksAre DEF Tallied
<1>31. Tallies'
  <2>1. ASSUME NEW m \in Nodes, NEW q \in Slots(m), m # t \/ q # p \/ ~TurnBack(t, p)
        PROVE  Tallied(m, q)'
    <3>1. Cur(t) \notin Marks(m, q) /\ \A i \in DOMAIN fs : fs[i] \notin Marks(m, q) /\ fs[i] \notin Turning(m, q)
      BY <1>1, <1>7, <1>9 DEF Marks, Turning
    <3>2. Count(Lists', {BackOnly(m, q)}) = Count(Lists, {BackOnly(m, q)})
      <4>1. CASE ~TurnBack(t, p)
        BY <1>13, <4>1 DEF Lists
      <4>2. CASE m # t \/ q # p
        <5>1. a # BackOnly(m, q)
          BY <1>11, <4>2 DEF BackOnly
        <5> QED
          BY <1>15, <5>1
      <4> QED
        BY <2>1, <4>1, <4>2
    <3>3. m \in Tasks => count'[m][q] = count[m][q]
      BY <1>13, <1>16, <2>1, SlotsArePorts DEF Core
    <3> QED
      BY <1>1, <1>9, <1>12, <1>14, <1>17, <3>1, <3>2, <3>3, TalliedThen
  <2> QED
    BY <1>18, <1>30, <2>1 DEF Tallies
<1> QED
  BY <1>20, <1>21, <1>22, <1>23, <1>25, <1>27, <1>28, <1>29, <1>31 DEF Core

(***************************************************************************)
(* A prerequisite is taken off a task, the last of which spawns it         *)
(***************************************************************************)
(* x goes on with fs, and d, which had nothing to run, gets bs. *)
Hands(x, fs, d, bs) ==
  /\ todo'[x] = fs \o Tail(todo[x]) /\ todo'[d] = bs
  /\ \A y \in Threads : y # x /\ y # d => todo'[y] = todo[y]

LEMMA HandsCount ==
  ASSUME TypeOK, TypeOK', NEW x \in Threads, NEW d \in Threads, d # x, todo[x] # <<>>, todo[d] = <<>>,
         NEW fs \in Seq(Frame), NEW bs \in Seq(Frame), Hands(x, fs, d, bs), NEW P
  PROVE  /\ Count(todo', P) = Count(todo, P) - One(Cur(x) \in P) + Number(fs, P) + Number(bs, P)
         /\ Count(todo, P) \in Nat /\ Number(fs, P) \in Nat /\ Number(bs, P) \in Nat
<1>1. PICK r : r = [todo EXCEPT ![x] = fs \o Tail(todo[x])]
  OBVIOUS
<1>2. todo \in Family(Threads, Frame) /\ IsFiniteSet(Threads) /\ todo' \in Family(Threads, Frame)
  BY Families, Finite, TodoNext
<1>3. Onward(r, todo, x, fs)
  BY <1>1 DEF Onward
<1>4. /\ r \in Family(Threads, Frame) /\ Count(r, P) \in Nat /\ Count(todo, P) \in Nat /\ Number(fs, P) \in Nat
      /\ Count(r, P) = Count(todo, P) - One(Cur(x) \in P) + Number(fs, P)
  BY <1>2, <1>3, CountThen DEF Cur
<1>5. r[d] = <<>> /\ r[x] = todo'[x] /\ \A y \in Threads : y # x /\ y # d => r[y] = todo'[y]
  BY <1>1, <1>2 DEF Hands, Family
<1>6. ButFor(d, todo', r)
  BY <1>4, <1>5 DEF ButFor, Family
<1>7. Count(todo', P) + Number(r[d], P) = Count(r, P) + Number(todo'[d], P)
  BY <1>2, <1>4, <1>6, CountChange
<1>8. Number(r[d], P) = 0 /\ todo'[d] = bs
  BY <1>5, NumberEmpty DEF Hands
<1>9. Number(bs, P) \in Nat /\ Count(todo', P) \in Nat
  BY <1>2, NumberType, CountType
<1> QED
  BY <1>4, <1>7, <1>8, <1>9 DEF One

LEMMA HandsAhead ==
  ASSUME TypeOK, NEW x \in Threads, NEW d \in Threads, d # x, todo[x] # <<>>, todo[d] = <<>>,
         NEW fs \in Seq(Frame), NEW bs \in Seq(Frame), Hands(x, fs, d, bs)
  PROVE  /\ Ahead(x) = {Cur(x)} \cup After(todo[x], 1) /\ Ahead(d) = {}
         /\ Ahead(x)' = {fs[i] : i \in DOMAIN fs} \cup After(todo[x], 1)
         /\ Ahead(d)' = {bs[i] : i \in DOMAIN bs}
         /\ \A y \in Threads : y # x /\ y # d => todo'[y] = todo[y] /\ Ahead(y)' = Ahead(y)
         /\ Carries(todo'[x], fs, After(todo[x], 1), todo[x])
         /\ \A P : /\ Number(todo'[x], P) = Number(todo[x], P) - One(Cur(x) \in P) + Number(fs, P)
                   /\ Number(todo[x], P) \in Nat /\ Number(fs, P) \in Nat
<1>1. PICK s \in Seq(Frame) : s = todo[x]
  BY Families
<1>2. PICK q : q = Tail(s)
  OBVIOUS
<1>3. /\ q \in Seq(Frame) /\ s[1] = Head(s) /\ 1 \in DOMAIN s
      /\ After(s, 1) = {q[i] : i \in DOMAIN q}
      /\ \A i \in DOMAIN s : i # 1 => i - 1 \in DOMAIN q
      /\ \A i \in DOMAIN q : i + 1 \in DOMAIN s /\ q[i] = s[i + 1]
  BY <1>1, <1>2, Behind
<1>4. PICK r : r = fs \o q
  OBVIOUS
<1>5. todo'[x] = r
  BY <1>1, <1>2, <1>4 DEF Hands
<1>6. \A i \in DOMAIN r : Fresh(r, i, fs, s) \/ \E j \in DOMAIN s : Stale(r, i, s, j)
  BY <1>1, <1>2, <1>4, GoesOn
<1>7. Carries(r, fs, After(s, 1), s)
  BY <1>6 DEF Carries, Fresh, Stale
<1>8. /\ Ahead(x)' = {fs[i] : i \in DOMAIN fs} \cup {q[i] : i \in DOMAIN q}
  <2>1. DOMAIN r = 1..(Len(fs) + Len(q)) /\ DOMAIN fs = 1..Len(fs) /\ DOMAIN q = 1..Len(q)
        /\ Len(fs) \in Nat /\ Len(q) \in Nat
    BY <1>3, <1>4
  <2>2. /\ \A i \in DOMAIN fs : i \in DOMAIN r /\ r[i] = fs[i]
        /\ \A i \in DOMAIN q : i + Len(fs) \in DOMAIN r /\ r[i + Len(fs)] = q[i]
        /\ \A i \in DOMAIN r : i \in DOMAIN fs \/ (i - Len(fs) \in DOMAIN q /\ r[i] = q[i - Len(fs)])
    BY SMTT(30), <1>3, <1>4, <2>1
  <2>3. {r[i] : i \in DOMAIN r} = {fs[i] : i \in DOMAIN fs} \cup {q[i] : i \in DOMAIN q}
    BY <2>2
  <2> QED
    BY <1>5, <2>3 DEF Ahead
<1>9. Ahead(x) = {Cur(x)} \cup After(s, 1)
  <2>1. DOMAIN s = 1..Len(s) /\ Len(s) \in Nat
    BY <1>1
  <2>2. \A i : i \in DOMAIN s <=> (i = 1 \/ i \in 2..Len(s))
    BY <1>3, <2>1
  <2>3. {s[i] : i \in DOMAIN s} = {s[1]} \cup {s[i] : i \in 2..Len(s)}
    BY <2>2
  <2>4. After(s, 1) = {s[i] : i \in 2..Len(s)}
    BY DEF After
  <2>5. Cur(x) = s[1]
    BY <1>1, <1>3 DEF Cur
  <2>6. Ahead(x) = {s[i] : i \in DOMAIN s}
    BY <1>1 DEF Ahead
  <2> QED
    BY <2>3, <2>4, <2>5, <2>6
<1>10. \A P : /\ Number(todo'[x], P) = Number(todo[x], P) - One(Cur(x) \in P) + Number(fs, P)
              /\ Number(todo[x], P) \in Nat /\ Number(fs, P) \in Nat
  <2>1. ASSUME NEW P
        PROVE  /\ Number(r, P) = Number(s, P) - One(Head(s) \in P) + Number(fs, P)
               /\ Number(s, P) \in Nat /\ Number(fs, P) \in Nat
    <3>1. Number(s, P) = One(Head(s) \in P) + Number(q, P)
      BY <1>1, <1>2, NumberTail
    <3>2. Number(r, P) = Number(fs, P) + Number(q, P)
      BY <1>3, <1>4, NumberCat
    <3>3. Number(s, P) \in Nat /\ Number(q, P) \in Nat /\ Number(fs, P) \in Nat
      BY <1>3, NumberType
    <3> QED
      BY <3>1, <3>2, <3>3 DEF One
  <2> QED
    BY <1>1, <1>5, <2>1 DEF Cur
<1>11. Ahead(d) = {} /\ Ahead(d)' = {bs[i] : i \in DOMAIN bs}
       /\ \A y \in Threads : y # x /\ y # d => todo'[y] = todo[y] /\ Ahead(y)' = Ahead(y)
  BY DEF Hands, Ahead
<1> QED
  BY <1>1, <1>3, <1>5, <1>7, <1>8, <1>9, <1>10, <1>11

(* All frames that are ahead have been put where they fit. *)
LEMMA PlacedAll ==
  ASSUME Core, Steady, Owing, args' = args, making' = making,
         \A y \in Threads : \E fs, B : /\ Carries(todo'[y], fs, B, todo[y]) /\ Sits(y, fs, B)
                                       /\ \A f \in Frame : (\E i \in DOMAIN fs : f = fs[i]) => Fits(f)'
                                       /\ fs \in Seq(Frame)
  PROVE  Placed'
<1>1. ASSUME NEW y \in Threads, NEW i \in DOMAIN todo'[y]
      PROVE  Fits(todo[y][i])' /\ Lies(y, todo[y], i)'
  <2>1. PICK r : r = todo'[y]
    OBVIOUS
  <2>2. PICK fs, B : /\ Carries(r, fs, B, todo[y]) /\ Sits(y, fs, B)
                     /\ \A f \in Frame : (\E j \in DOMAIN fs : f = fs[j]) => Fits(f)'
                     /\ fs \in Seq(Frame)
    BY <2>1
  <2>3. Lies(y, r, i)
    BY <1>1, <2>1, <2>2, LiesHere
  <2>4. PICK f : f = r[i]
    OBVIOUS
  <2>5. (\E j \in DOMAIN fs : f = fs[j]) \/ f \in Ahead(y)
    BY <1>1, <2>1, <2>2, <2>4 DEF Carries, Ahead
  <2>6. Fits(f)'
    <3>1. CASE \E j \in DOMAIN fs : f = fs[j]
      BY <2>2, <3>1, Member
    <3>2. CASE f \in Ahead(y)
      BY <3>2, FitsKept
    <3> QED
      BY <2>5, <3>1, <3>2
  <2>7. Lies(y, r, i)'
    BY <2>3, LiesKept
  <2> QED
    BY <2>1, <2>4, <2>6, <2>7 DEF Fits, Finished, Slots, Writes, Protection, Lies, BindOf, ReturnOf
<1> QED
  BY <1>1 DEF Placed

LEMMA OutOnceAll ==
  ASSUME TypeOK, NEW t \in Tasks, NEW p \in Slots(t), NEW P,
         \A f \in Frame : f.op \notin {"out", "dec"} => f \notin P,
         \A q : F("out", t, q, 0) \in P <=> q = p
  PROVE  Number(BodyFrames(t), P) = 1
<1>1. PICK r \in Seq(Frame) : r = BodyFrames(t)
  BY BodyIs
<1>2. /\ r # <<>> /\ Head(r) = F("start", t, 0, 0)
      /\ Tail(r) # <<>> /\ Head(Tail(r)) = F("finish", t, 0, 0)
  BY <1>1, BodyIs
<1>3. F("start", t, 0, 0) \notin P /\ F("finish", t, 0, 0) \notin P
  <2>1. F("start", t, 0, 0) \in Frame /\ F("finish", t, 0, 0) \in Frame
    BY NodesApart DEF F, Frame, BodyOps
  <2>2. F("start", t, 0, 0).op = "start" /\ F("finish", t, 0, 0).op = "finish"
    BY DEF F
  <2> QED
    BY <2>1, <2>2
<1>4. PICK u \in Seq(Frame) : u = Tail(r)
  BY <1>1, <1>2, Behind
<1>5. PICK w \in Seq(Frame) : w = Tail(u)
  BY <1>2, <1>4, Behind
<1>6. Number(w, P) = 1
  BY <1>1, <1>4, <1>5, OutOnce
<1>7. Number(u, P) = One(Head(u) \in P) + Number(w, P)
  BY <1>2, <1>4, <1>5, NumberTail
<1>8. Number(r, P) = One(Head(r) \in P) + Number(u, P)
  BY <1>2, <1>4, NumberTail
<1>9. Number(u, P) = 1
  BY <1>2, <1>3, <1>4, <1>6, <1>7 DEF One
<1> QED
  BY <1>1, <1>2, <1>3, <1>8, <1>9 DEF One

LEMMA PreCore ==
  ASSUME Core, TypeOK', NEW x \in Threads, Pre(x)
  PROVE  Core'
<1> USE DEF setup, ghost
<1>1. /\ todo[x] # <<>> /\ Cur(x).op = "pre" /\ Cur(x) \in Ahead(x) /\ Cur(x) \in Frame /\ Fits(Cur(x))
  BY AtTop, TopLies DEF Pre, Core
<1>2. PICK d \in Nodes, k \in Int : d = Cur(x).node /\ k = Cur(x).k
  BY AtTop DEF Pre, Core
<1>3. d \in Tasks /\ d \in Threads /\ (k = 1 \/ k = Protection(d))
  BY <1>1, <1>2, NodesApart DEF Fits
<1>4. (Cur(x) \in Notices(d) <=> k = 1) /\ (Cur(x) \in Protecting(d) <=> k # 1)
  BY <1>1, <1>2 DEF Notices, Protecting
<1>5. /\ startCount[d] >= 1 /\ phase[d] = "pending" /\ todo[d] = <<>> /\ head[d].tag = "open" /\ d # x
      /\ k = 1 => Coming(d) >= 1
      /\ k # 1 => Guards(d) = 1 /\ startCount[d] = Coming(d) + Protection(d)
  BY <1>1, <1>3, <1>4, Expected DEF Core
<1>6. PICK spawns : spawns = (startCount[d] = k)
  OBVIOUS
<1>7. PICK fs : fs = IF spawns /\ SyncSpawn THEN <<F("join", d, 0, 0)>> ELSE <<>>
  OBVIOUS
<1>8. PICK bs : bs = IF spawns THEN BodyFrames(d) ELSE <<>>
  OBVIOUS
<1>9. fs \in Seq(Frame) /\ bs \in Seq(Frame) /\ \A i \in DOMAIN fs : fs[i].op = "join"
  <2>1. F("join", d, 0, 0) \in Frame /\ F("join", d, 0, 0).op = "join"
    BY NodesApart DEF F, Frame, CountOps
  <2>2. PICK j : j = F("join", d, 0, 0)
    OBVIOUS
  <2>3. <<j>> \in Seq(Frame) /\ \A i \in DOMAIN <<j>> : <<j>>[i].op = "join"
    BY <2>1, <2>2
  <2>4. fs = <<j>> \/ fs = <<>>
    BY <1>7, <2>2
  <2>5. BodyFrames(d) \in Seq(Frame)
    BY <1>3, BodyIs DEF Core
  <2>6. fs \in Seq(Frame) /\ \A i \in DOMAIN fs : fs[i].op = "join"
    <3>1. CASE fs = <<j>>
      BY <2>3, <3>1
    <3>2. CASE fs = <<>>
      BY <3>2
    <3> QED
      BY <2>4, <3>1, <3>2
  <2>7. bs = <<>> \/ bs = BodyFrames(d)
    BY <1>8
  <2>8. bs \in Seq(Frame)
    <3>1. <<>> \in Seq(Frame)
      BY Short
    <3> QED
      BY <2>5, <2>7, <3>1
  <2> QED
    BY <2>6, <2>8
<1>10. /\ startCount' = [startCount EXCEPT ![d] = @ - k]
       /\ UNCHANGED <<node, head, life, nextWriter, countdown, woken, count, refs, setup, ghost>>
  BY <1>2 DEF Pre
<1>11. Hands(x, fs, d, bs)
  <2>1. todo[x] \in Seq(Frame) /\ todo \in [Threads -> Seq(Frame)]
    BY DEF Core, TypeOK, FramesFit
  <2>2. CASE spawns
    <3>1. todo' = [todo EXCEPT ![x] = fs \o Tail(@), ![d] = bs]
      BY <1>2, <1>6, <1>7, <1>8, <2>2 DEF Pre
    <3> QED
      BY <1>3, <1>5, <2>1, <3>1 DEF Hands
  <2>3. CASE ~spawns
    <3>1. todo' = [todo EXCEPT ![x] = fs \o Tail(@)]
      BY <1>2, <1>6, <1>7, <2>3 DEF Pre, Then
    <3> QED
      BY <1>3, <1>5, <1>8, <2>1, <2>3, <3>1 DEF Hands
  <2> QED
    BY <2>2, <2>3
<1>12. /\ Ahead(x) = {Cur(x)} \cup After(todo[x], 1) /\ Ahead(d) = {}
       /\ Ahead(x)' = {fs[i] : i \in DOMAIN fs} \cup After(todo[x], 1)
       /\ Ahead(d)' = {bs[i] : i \in DOMAIN bs}
       /\ \A y \in Threads : y # x /\ y # d => todo'[y] = todo[y] /\ Ahead(y)' = Ahead(y)
       /\ Carries(todo'[x], fs, After(todo[x], 1), todo[x])
       /\ \A P : /\ Number(todo'[x], P) = Number(todo[x], P) - One(Cur(x) \in P) + Number(fs, P)
                 /\ Number(todo[x], P) \in Nat /\ Number(fs, P) \in Nat
  BY <1>1, <1>3, <1>5, <1>9, <1>11, HandsAhead DEF Core
<1>13. \A P : /\ Count(todo', P) = Count(todo, P) - One(Cur(x) \in P) + Number(fs, P) + Number(bs, P)
              /\ Count(todo, P) \in Nat /\ Number(fs, P) \in Nat /\ Number(bs, P) \in Nat
  BY <1>1, <1>3, <1>5, <1>9, <1>11, HandsCount DEF Core
<1>14. \A i \in DOMAIN bs : bs[i] \in Bodily(d)
  <2>1. bs = <<>> \/ bs = BodyFrames(d)
    BY <1>8
  <2>2. \A i \in DOMAIN BodyFrames(d) : BodyFrames(d)[i] \in Bodily(d)
    BY <1>3, BodyFrame DEF Core
  <2> QED
    BY <2>1, <2>2
<1>15. \A i \in DOMAIN bs : /\ bs[i].op \in {"start", "finish", "exchange", "wakeup", "relall", "rel", "out"}
                            /\ bs[i].node = d /\ (bs[i].op = "out" => bs[i].port \in Slots(d))
  BY <1>14 DEF Bodily, Closing
<1>16. \A P : (\A f \in Frame : f.op = "join" => f \notin P) => Number(fs, P) = 0
  <2>1. ASSUME NEW P, \A f \in Frame : f.op = "join" => f \notin P
        PROVE  Number(fs, P) = 0
    <3>1. \A i \in DOMAIN fs : fs[i] \notin P
      BY <1>9, <2>1, Member
    <3> QED
      BY <1>9, <3>1, NumberNone
  <2> QED
    BY <2>1
<1>17. \A P : (\A f \in Frame : f \in Bodily(d) => f \notin P) => Number(bs, P) = 0
  <2>1. ASSUME NEW P, \A f \in Frame : f \in Bodily(d) => f \notin P
        PROVE  Number(bs, P) = 0
    <3>1. \A i \in DOMAIN bs : bs[i] \notin P
      BY <1>9, <1>14, <2>1, Member
    <3> QED
      BY <1>9, <3>1, NumberNone
  <2> QED
    BY <2>1
<1>18. Steady /\ Owing
  BY <1>10, SteadyIf DEF Owing
<1>19. node[d] # "unborn" /\ node'[d] # "unborn"
  <2>1. Staged(d)
    BY <1>3 DEF Core, Bodies
  <2> QED
    BY <1>5, <1>10, <2>1 DEF Staged
<1>20. Placed'
  <2>1. ASSUME NEW y \in Threads
        PROVE  \E gs, B : /\ Carries(todo'[y], gs, B, todo[y]) /\ Sits(y, gs, B)
                          /\ \A f \in Frame : (\E i \in DOMAIN gs : f = gs[i]) => Fits(f)'
                          /\ gs \in Seq(Frame)
    <3>1. CASE y = x
      <4>1. Sits(x, fs, After(todo[x], 1))
        BY <1>9 DEF Sits, Calling, Asking, BodyOps
      <4>2. \A f \in Frame : (\E i \in DOMAIN fs : f = fs[i]) => Fits(f)'
        <5>1. \A f \in Frame : f.op = "join" => Fits(f)'
          BY DEF Fits
        <5> QED
          BY <1>9, <5>1
      <4> QED
        BY <1>9, <1>12, <3>1, <4>1, <4>2
    <3>2. CASE y = d
      <4>1. Sits(d, bs, {})
        BY <1>3, <1>15 DEF Sits, Calling, Asking, BodyOps
      <4>2. \A f \in Frame : (\E i \in DOMAIN bs : f = bs[i]) => Fits(f)'
        <5>1. ASSUME NEW f \in Frame, f.node = d,
                     f.op \in {"start", "finish", "exchange", "wakeup", "relall", "rel", "out"}
              PROVE  Fits(f)'
          BY <1>19, <5>1 DEF Fits
        <5> QED
          BY <1>15, <5>1
      <4>3. Carries(bs, bs, {}, todo[d])
        BY DEF Carries
      <4>4. todo'[d] = bs
        BY <1>11 DEF Hands
      <4> QED
        BY <1>9, <3>2, <4>1, <4>2, <4>3, <4>4
    <3>3. CASE y # x /\ y # d
      <4>1. PICK s, gs : s = todo[y] /\ gs = <<>>
        OBVIOUS
      <4>2. gs \in Seq(Frame) /\ DOMAIN gs = {}
        BY <4>1
      <4>3. Carries(s, gs, {}, s) /\ Sits(y, gs, {})
        BY <4>2 DEF Carries, Sits
      <4>4. todo'[y] = s
        BY <1>12, <3>3, <4>1
      <4> QED
        BY <4>1, <4>2, <4>3, <4>4
    <3> QED
      BY <3>1, <3>2, <3>3
  <2> QED
    BY <1>10, <1>18, <2>1, PlacedAll
<1>21. Linked'
  BY <1>10, <1>18, LinkedSame DEF Lists
<1>22. startCount'[d] = startCount[d] - k /\ (startCount'[d] = 0 <=> spawns) /\ startCount[d] \in Int
       /\ \A u \in Nodes : u # d => startCount'[u] = startCount[u]
  <2>1. startCount \in [Nodes -> Int]
    BY DEF Core, TypeOK
  <2>2. /\ startCount'[d] = startCount[d] - k /\ startCount[d] \in Int
        /\ \A u \in Nodes : u # d => startCount'[u] = startCount[u]
    BY <1>10, <2>1
  <2>3. startCount'[d] = 0 <=> startCount[d] = k
    BY <2>2
  <2> QED
    BY <1>6, <2>2, <2>3
<1>23. Bodies'
  <2>1. Staged(d)'
    <3>1. Staged(d)
      BY <1>3 DEF Core, Bodies
    <3>2. todo'[d] = bs /\ BodyFrames(d)' = BodyFrames(d)
      BY <1>3, <1>10, <1>11, BodySame DEF Hands
    <3>3. BodyFrames(d) # <<>>
      BY <1>3, BodyIs DEF Core
    <3> QED
      BY <1>5, <1>8, <1>10, <1>19, <1>22, <3>1, <3>2, <3>3 DEF Staged
  <2>2. ASSUME NEW u \in Tasks, u # d, u # x
        PROVE  Staged(u)'
    BY <1>10, <1>12, <1>22, <2>2, StagedKept, NodesApart
  <2>3. ASSUME x \in Tasks
        PROVE  Staged(x)'
    <3>1. phase[x] = "done" /\ head[x].tag = "done" /\ Staged(x)
      BY <1>1, <2>3, WorkerStage DEF Core, Bodies
    <3>2. \A f \in Ahead(x)' : f.op \notin {"start", "finish", "exchange"}
      BY <1>9, <1>12, <3>1 DEF Staged
    <3>3. startCount'[x] = startCount[x]
      BY <1>5, <1>22, <2>3, NodesApart
    <3> QED
      BY <1>10, <3>1, <3>2, <3>3 DEF Staged
  <2> QED
    BY <2>1, <2>2, <2>3 DEF Bodies
<1>24. Distinct'
  BY <1>10, DistinctSame
<1>25. Due'
  <2>1. \A u \in Tasks : Number(fs, Notices(u)) = 0 /\ Number(fs, Protecting(u)) = 0
    BY <1>16 DEF Notices, Protecting
  <2>2. \A u \in Tasks : Number(bs, Notices(u)) = 0 /\ Number(bs, Protecting(u)) = 0
    BY <1>17 DEF Notices, Protecting, Bodily, Closing
  <2>3. \A u \in Tasks : /\ Count(todo', Notices(u)) = Count(todo, Notices(u)) - One(Cur(x) \in Notices(u))
                         /\ Count(todo', Protecting(u)) = Count(todo, Protecting(u)) - One(Cur(x) \in Protecting(u))
                         /\ Count(todo, Notices(u)) \in Nat /\ Count(todo, Protecting(u)) \in Nat
    BY <1>13, <2>1, <2>2 DEF One
  <2>4. \A u \in Tasks : HeldFor(Writer(u))' = HeldFor(Writer(u)) /\ HeldFor(Writer(u)) \in Nat
    <3>1. ASSUME NEW u \in Tasks
          PROVE  HeldFor(Writer(u))' = HeldFor(Writer(u)) /\ HeldFor(Writer(u)) \in Nat
      BY <1>10, HeldForStays, HeldForNat
    <3> QED
      BY <3>1
  <2>5. \A u \in Tasks : Coming(u)' = Coming(u) - One(Cur(x) \in Notices(u)) /\ Coming(u) \in Nat
    <3>1. ASSUME NEW u \in Tasks
          PROVE  Coming(u)' = Coming(u) - One(Cur(x) \in Notices(u)) /\ Coming(u) \in Nat
      <4>1. Lists' = Lists /\ Count(Lists, ArcsTo(u)) \in Nat
        BY <1>10, CountNat DEF Lists, Core
      <4>2. Notices(u)' = Notices(u) /\ ArcsTo(u)' = ArcsTo(u)
        BY NoticeOps
      <4> QED
        BY <2>3, <2>4, <4>1, <4>2 DEF Coming, One
    <3> QED
      BY <3>1
  <2>6. ASSUME NEW u \in Tasks, u # d
        PROVE  Counted(u)'
    <3>1. Cur(x) \notin Notices(u) /\ Cur(x) \notin Protecting(u)
      BY <1>2, <2>6 DEF Notices, Protecting
    <3>2. Count(todo', Protecting(u)) = Count(todo, Protecting(u)) /\ Coming(u)' = Coming(u)
      BY <2>3, <2>5, <3>1 DEF One
    <3>3. startCount'[u] = startCount[u]
      BY <1>22, <2>6, NodesApart
    <3> QED
      BY <1>10, <3>2, <3>3, CountedKept
  <2>7. Counted(d)'
    <3>1. Counted(d)
      BY <1>3 DEF Core, Due
    <3>2. Guards(d)' = Count(todo', Protecting(d)) /\ Protection(d)' = Protection(d)
      BY <1>10, NoticeOps DEF Guards, Protection
    <3>3. Guards(d) = Count(todo, Protecting(d)) /\ Guards(d) \in Nat
      BY CountNat DEF Guards, Core
    <3>4. Protection(d) \in Int
      BY <1>3, OwedRange DEF Core
    <3>5. CASE k = 1
      <4>1. Guards(d)' = Guards(d) /\ Coming(d)' = Coming(d) - 1
        BY <1>3, <1>4, <2>3, <2>5, <3>2, <3>3, <3>5 DEF One
      <4> QED
        BY <1>3, <1>10, <1>22, <2>5, <3>1, <3>2, <3>3, <3>4, <3>5, <4>1 DEF Counted
    <3>6. CASE k # 1
      <4>1. Guards(d)' = 0 /\ Coming(d)' = Coming(d) /\ k = Protection(d)
        BY <1>3, <1>4, <1>5, <2>3, <2>5, <3>2, <3>3, <3>6 DEF One
      <4> QED
        BY <1>3, <1>5, <1>10, <1>22, <2>5, <3>1, <3>4, <3>6, <4>1 DEF Counted
    <3> QED
      BY <3>5, <3>6
  <2> QED
    BY <2>6, <2>7 DEF Due
<1>26. Undisturbed
  <2>1. \A u \in Nodes : \A q \in Slots(u) : Vacant(u, q) => Vacant(u, q)'
    BY <1>10, VacantSame
  <2>2. \A y \in Clients : \A f : f.op \in {"arg", "return"} => (f \in Ahead(y)' <=> f \in Ahead(y))
    <3>1. \A y \in Clients : y \in Threads /\ y # d
      BY <1>3, NodesApart
    <3> QED
      BY <1>1, <1>9, <1>12, <3>1
  <2>3. ASSUME NEW y \in Clients, NEW i
        PROVE  ToWrite(y, i)' <=> ToWrite(y, i)
    <3>1. PICK f : f = F("arg", making[y], i, 0)
      OBVIOUS
    <3>2. f \in Ahead(y)' <=> f \in Ahead(y)
      BY <2>2, <3>1 DEF F
    <3>3. Writes(making[y])' = Writes(making[y]) /\ F("arg", making[y], i, 0)' = f
      BY <1>10, <3>1 DEF Writes, F
    <3> QED
      BY <3>1, <3>2, <3>3 DEF ToWrite
  <2> QED
    BY <1>10, <2>1, <2>2, <2>3 DEF Undisturbed
<1>27. \A u : (Finished(u)' <=> Finished(u)) /\ Slots(u)' = Slots(u)
  BY <1>10, FinishedSame, SlotsStay
<1>28. Stores'
  BY <1>10, <1>26, <1>27, StoresKept
<1>29. Homes' /\ Firsts'
  BY <1>26, HomesKept, FirstsKept
<1>30. Callers'
  <2>1. ASSUME NEW y \in Clients, InRun(y)
        PROVE  owed'[making[y]] + Number(todo'[y], Asks) <= Len(args[making[y]])
    <3>1. owed[making[y]] + Number(todo[y], Asks) <= Len(args[making[y]])
      BY <2>1 DEF Core, Callers, Called, Asks
    <3>2. y # d /\ y \in Threads
      BY <1>3, NodesApart
    <3>3. Number(todo'[x], Asks) = Number(todo[x], Asks)
      <4>1. Cur(x) \notin Asks
        BY <1>1 DEF Asks, Asking
      <4>2. Number(fs, Asks) = 0
        BY <1>16 DEF Asks, Asking
      <4> QED
        BY <1>12, <4>1, <4>2 DEF One
    <3> QED
      BY <1>10, <1>12, <3>1, <3>2, <3>3
  <2>2. \A y \in Clients : \A f \in Ahead(y)' : f.op \in {"link", "hop", "late"} => f \in Ahead(y)
    <3>1. \A y \in Clients : y \in Threads /\ y # d
      BY <1>3, NodesApart
    <3> QED
      BY <1>9, <1>12, <3>1
  <2> QED
    BY <1>26, <2>1, <2>2, CallsKept
<1>31. ASSUME NEW n \in Nodes, NEW p \in Slots(n), n # d
       PROVE  Tallied(n, p)'
  <2>1. \A P \in SUBSET Marks(n, p) : Count(todo', P) = Count(todo, P)
    <3>1. ASSUME NEW P \in SUBSET Marks(n, p)
          PROVE  Count(todo', P) = Count(todo, P)
      <4>1. Number(fs, P) = 0
        BY <1>16 DEF Marks
      <4>2. Number(bs, P) = 0
        BY <1>17, <1>31 DEF Marks, Bodily, Closing
      <4>3. Cur(x) \notin P
        BY <1>1 DEF Marks
      <4> QED
        BY <1>13, <4>1, <4>2, <4>3 DEF One
    <3> QED
      BY <3>1
  <2>2. \A y \in Threads : Ahead(y)' \cap Marks(n, p) \subseteq Ahead(y)
    <3>1. \A i \in DOMAIN bs : bs[i] \notin Marks(n, p)
      BY <1>15, <1>31 DEF Marks
    <3>2. \A i \in DOMAIN fs : fs[i] \notin Marks(n, p)
      BY <1>9 DEF Marks
    <3> QED
      BY <1>12, <3>1, <3>2
  <2>3. n \in Tasks => Number(todo'[n], Turning(n, p)) <= Number(todo[n], Turning(n, p))
    <3>1. CASE n = x
      <4>1. Number(fs, Turning(n, p)) = 0 /\ Cur(x) \notin Turning(n, p)
        BY <1>1, <1>16 DEF Turning
      <4> QED
        BY <1>12, <3>1, <4>1 DEF One
    <3>2. CASE n # x /\ n \in Tasks
      <4>1. todo'[n] = todo[n] /\ todo[n] \in Seq(Frame)
        BY <1>12, <1>31, <3>2, Families, NodesApart DEF Core
      <4>2. Number(todo[n], Turning(n, p)) \in Nat
        BY <4>1, NumberType
      <4> QED
        BY <4>1, <4>2
    <3> QED
      BY <3>1, <3>2
  <2>4. Lists' = Lists
    BY <1>10 DEF Lists
  <2> QED
    BY <1>10, <1>27, <2>1, <2>2, <2>3, <2>4, TalliedKept
<1>32. ASSUME NEW p \in Slots(d)
       PROVE  Tallied(d, p)'
  <2>1. ~Finished(d) /\ ~Finished(d)'
    BY <1>3, <1>5, <1>27 DEF Finished
  <2>2. Tallied(d, p) /\ nextWriter[d][p] # Ready /\ countdown[d][p] = 1
    BY <1>32, <2>1, Untouched DEF Core, Tallies
  <2>3. \A y \in Threads : \A f \in Ahead(y) : f \notin Marks(d, p)
    BY <1>12, <1>32, <2>1, Untouched
  <2>4. Count(todo, Shares(d, p)) = 0
    <3>1. \A y \in Threads : Ahead(y) \cap Shares(d, p) = {}
      BY <2>3, MarksAre
    <3> QED
      BY <3>1, TodoNone DEF Core
  <2>5. Number(bs, Shares(d, p)) <= 1
    <3>1. CASE ~spawns
      BY <1>8, <3>1, NumberEmpty
    <3>2. CASE spawns
      <4>1. \A f \in Frame : f.op \notin {"out", "dec"} => f \notin Shares(d, p)
        BY DEF Shares
      <4>2. F("out", d, p, 0) \in Frame
        BY <1>32, SlotsArePorts DEF Core, F, Frame, BodyOps
      <4>3. \A q : F("out", d, q, 0) \in Shares(d, p) <=> q = p
        BY <4>2 DEF Shares, F
      <4>4. Number(BodyFrames(d), Shares(d, p)) = 1
        BY <1>3, <1>32, <4>1, <4>3, OutOnceAll DEF Core
      <4> QED
        BY <1>8, <3>2, <4>4
    <3> QED
      BY <3>1, <3>2
  <2>6. Number(fs, Shares(d, p)) = 0 /\ Cur(x) \notin Shares(d, p)
    BY <1>1, <1>16 DEF Shares
  <2>7. Count(todo', Shares(d, p)) <= 1
    BY <1>13, <2>4, <2>5, <2>6 DEF One
  <2>8. Named(nextWriter[d][p])'
    BY <1>10, NamedStays
  <2>9. Ready' = Ready /\ Shares(d, p)' = Shares(d, p)
    BY MarksAre DEF Ready
  <2> QED
    BY <1>10, <2>1, <2>2, <2>7, <2>8, <2>9 DEF Tallied
<1>33. Tallies'
  BY <1>27, <1>31, <1>32 DEF Tallies
<1> QED
  BY <1>20, <1>21, <1>23, <1>24, <1>25, <1>28, <1>29, <1>30, <1>33 DEF Core

(***************************************************************************)
(* A slot is let go, by the last to its next writer                        *)
(***************************************************************************)
LEMMA NextCallIs ==
  ASSUME NEW n \in Nodes, NEW d \in NextWriter, Named(d)
  PROVE  LET c == NextCall(n, d) IN
         /\ c \in Seq(Frame)
         /\ \A i \in DOMAIN c : \/ c[i].op = "pre" /\ c[i].k = 1 /\ c[i].node \in Tasks
                                \/ c[i].op = "rel" /\ node[c[i].node] # "unborn"
         /\ \A u \in Tasks : Number(c, Notices(u)) = One(d = Writer(u))
<1>1. PICK c : c = NextCall(n, d)
  OBVIOUS
<1>2. CASE d.kind = "writer"
  <2>1. d.node \in Tasks /\ d.node \in Nodes
    BY <1>2, NodesApart DEF Named
  <2>2. PICK g : g = F("pre", d.node, 0, 1)
    OBVIOUS
  <2>3. g \in Frame /\ g.op = "pre" /\ g.k = 1 /\ g.node = d.node /\ g.node \in Tasks
    BY <2>1, <2>2, NodesApart DEF F, Frame, CountOps
  <2>4. c = <<g>>
    BY <1>1, <1>2, <2>2 DEF NextCall
  <2>5. ASSUME NEW u \in Tasks
        PROVE  Number(c, Notices(u)) = One(d = Writer(u))
    <3>1. g \in Notices(u) <=> d.node = u
      BY <2>3 DEF Notices
    <3>2. d = Writer(u) <=> d.node = u
      BY <1>2 DEF NextWriter, Writer
    <3> QED
      BY <2>4, <3>1, <3>2, NumberOne
  <2> QED
    BY <1>1, <2>3, <2>4, <2>5, OneIs
<1>3. CASE d.kind = "owner" /\ d # Owner(n)
  <2>1. d.node \in Nodes /\ node[d.node] # "unborn"
    BY <1>3 DEF Named, NextWriter
  <2>2. PICK g : g = F("rel", d.node, 0, 1)
    OBVIOUS
  <2>3. g \in Frame /\ g.op = "rel" /\ node[g.node] # "unborn"
    BY <2>1, <2>2, NodesApart DEF F, Frame, CountOps
  <2>4. c = <<g>>
    BY <1>1, <1>3, <2>2 DEF NextCall
  <2>5. ASSUME NEW u \in Tasks
        PROVE  Number(c, Notices(u)) = One(d = Writer(u))
    <3>1. g \notin Notices(u) /\ d # Writer(u)
      BY <1>3, <2>3 DEF Notices, Writer
    <3> QED
      BY <2>4, <3>1, NumberOne
  <2> QED
    BY <1>1, <2>3, <2>4, <2>5, OneIs
<1>4. CASE d.kind # "writer" /\ ~(d.kind = "owner" /\ d # Owner(n))
  <2>1. c = <<>>
    BY <1>1, <1>4 DEF NextCall
  <2>2. c \in Seq(Frame) /\ DOMAIN c = {} /\ \A P : Number(c, P) = 0
    BY <2>1, NumberEmpty
  <2>3. \A u \in Tasks : d # Writer(u)
    BY <1>4 DEF Writer
  <2> QED
    BY <1>1, <2>2, <2>3 DEF One
<1> QED
  BY <1>2, <1>3, <1>4

(* No more is taken off a slot than it counts, and nobody is called before it is given
   a next writer. *)
LEMMA DecFits ==
  ASSUME Core, NEW x \in Threads, At(x, "dec")
  PROVE  LET n == Cur(x).node
             p == Cur(x).port
             k == Cur(x).k IN
         /\ n \in Nodes /\ p \in Port /\ p \in Slots(n) /\ Finished(n) /\ k \in Int /\ k >= 1
         /\ countdown[n][p] \in Int /\ countdown[n][p] >= k
         /\ countdown[n][p] = k => nextWriter[n][p] # Null /\ nextWriter[n][p] # Ready
         /\ k # 1 => /\ Count(todo, Shares(n, p)) = 1 /\ Count(todo, Outs(n, p)) = 0
                     /\ countdown[n][p] = Held(n, p) + k
<1>1. PICK n \in Nodes, p \in Port, k \in Int : n = Cur(x).node /\ p = Cur(x).port /\ k = Cur(x).k
  BY AtTop DEF Core
<1>2. /\ todo[x] # <<>> /\ Cur(x).op = "dec" /\ Cur(x) \in Ahead(x) /\ Cur(x) \in Frame
      /\ p \in Slots(n) /\ Finished(n) /\ k >= 1
  <2>1. todo[x] # <<>> /\ Cur(x).op = "dec" /\ Cur(x) \in Ahead(x) /\ Cur(x) \in Frame /\ Fits(Cur(x))
    BY AtTop, TopLies DEF Core
  <2> QED
    BY <1>1, <2>1 DEF Fits
<1>3. Tallied(n, p) /\ Exact(n, p) /\ countdown[n][p] \in Int
  BY <1>2 DEF Core, Tallies, Tallied, TypeOK
<1>4. Held(n, p) \in Nat /\ (nextWriter[n][p] = Ready => Held(n, p) >= 1)
  BY HeldNat DEF Core
<1>5. Count(todo, Shares(n, p)) \in Nat /\ Count(todo, Outs(n, p)) \in Nat /\ Count(todo, Holders(n, p)) \in Nat
      /\ Count(Lists, {BackOnly(n, p)}) \in Nat
  BY CountNat DEF Core
<1>6. CASE k = 1
  <2>1. Cur(x) \in Holders(n, p) /\ Cur(x) \notin Shares(n, p)
    BY <1>1, <1>2, <1>6 DEF Holders, Shares
  <2>2. Count(todo, Holders(n, p)) >= 1
    BY <1>2, <2>1, TodoNone DEF Core
  <2>3. Held(n, p) >= 1 /\ (nextWriter[n][p] = Ready => Held(n, p) >= 2)
    BY <1>5, <2>2 DEF Held
  <2>4. CASE Count(todo, Shares(n, p)) = 0
    <3>1. countdown[n][p] = Held(n, p)
      BY <1>3, <2>4 DEF Exact
    <3>2. Count(todo, Outs(n, p)) = 0
      <4>1. Outs(n, p) \in SUBSET Shares(n, p)
        BY MarksAre
      <4>2. Count(todo, Outs(n, p)) <= Count(todo, Shares(n, p))
        BY <4>1, Families, Finite, CountSub DEF Core
      <4> QED
        BY <1>5, <2>4, <4>2
    <3>3. nextWriter[n][p] # Null
      BY <1>2, <1>3, <3>2 DEF Tallied
    <3> QED
      BY <1>1, <1>2, <1>3, <1>4, <1>6, <2>3, <3>1, <3>3
  <2>5. CASE Count(todo, Shares(n, p)) # 0
    <3>1. PICK y \in Threads : \E f \in Ahead(y) : f \in Shares(n, p)
      BY <2>5, TodoNone DEF Core
    <3>2. PICK f \in Ahead(y) : f \in Shares(n, p)
      BY <3>1
    <3>3. Share(f) \in Int /\ Share(f) >= 1
      BY <1>2, <3>2, ShareSome DEF Core
    <3>4. countdown[n][p] = Held(n, p) + Share(f)
      BY <1>3, <3>2 DEF Exact
    <3>5. countdown[n][p] > k
      BY <1>4, <1>6, <2>3, <3>3, <3>4
    <3> QED
      BY <1>1, <1>2, <1>3, <1>6, <3>5
  <2> QED
    BY <2>4, <2>5
<1>7. CASE k # 1
  <2>1. Cur(x) \in Shares(n, p) /\ Cur(x) \notin Outs(n, p)
    BY <1>1, <1>2, <1>7 DEF Outs, Shares
  <2>2. Count(todo, Shares(n, p)) = 1
    <3>1. Count(todo, Shares(n, p)) >= 1
      BY <1>2, <2>1, TodoNone DEF Core
    <3> QED
      BY <1>3, <1>5, <3>1 DEF Tallied
  <2>3. Count(todo, Outs(n, p)) = 0
    <3>1. ASSUME NEW y \in Threads, NEW f \in Ahead(y), f \in Outs(n, p)
          PROVE  FALSE
      <4>1. f \in Shares(n, p)
        BY <3>1, MarksAre
      <4>2. f = Cur(x)
        BY <1>2, <2>1, <2>2, <4>1, TodoOne DEF Core
      <4> QED
        BY <2>1, <3>1, <4>2
    <3>2. \A y \in Threads : Ahead(y) \cap Outs(n, p) = {}
      BY <3>1
    <3> QED
      BY <3>2, TodoNone DEF Core
  <2>4. countdown[n][p] = Held(n, p) + k
    <3>1. Share(Cur(x)) = k
      BY <1>1, <1>2 DEF Share
    <3> QED
      BY <1>2, <1>3, <2>1, <3>1 DEF Exact
  <2>5. nextWriter[n][p] # Null
    BY <1>2, <1>3, <2>3 DEF Tallied
  <2>6. countdown[n][p] = k => nextWriter[n][p] # Ready
    BY <1>4, <2>4
  <2> QED
    BY <1>1, <1>2, <1>3, <1>4, <2>2, <2>3, <2>4, <2>5, <2>6
<1> QED
  BY <1>6, <1>7

(* What comes of it. *)
LEMMA DecFrames ==
  ASSUME Core, NEW x \in Threads, Dec(x)
  PROVE  \E fs \in Seq(Frame) :
           /\ Then(x, fs)
           /\ \A i \in DOMAIN fs : \/ fs[i].op = "pre" /\ fs[i].k = 1 /\ fs[i].node \in Tasks
                                   \/ fs[i].op = "rel" /\ node[fs[i].node] # "unborn"
           /\ \A u \in Tasks : Number(fs, Notices(u)) =
                One(/\ countdown[Cur(x).node][Cur(x).port] = Cur(x).k
                    /\ nextWriter[Cur(x).node][Cur(x).port] = Writer(u))
<1>1. At(x, "dec")
  BY DEF Dec
<1>2. PICK n \in Nodes, p \in Port, k \in Int : n = Cur(x).node /\ p = Cur(x).port /\ k = Cur(x).k
  BY <1>1, DecFits
<1>3. p \in Slots(n) /\ Finished(n) /\ countdown[n][p] \in Int
  BY <1>1, <1>2, DecFits
<1>4. PICK d \in NextWriter : d = nextWriter[n][p]
  BY DEF Core, TypeOK
<1>5. Named(d)
  BY <1>3, <1>4 DEF Core, Tallies, Tallied
<1>6. PICK c : c = NextCall(n, d)
  OBVIOUS
<1>7. /\ c \in Seq(Frame)
      /\ \A i \in DOMAIN c : \/ c[i].op = "pre" /\ c[i].k = 1 /\ c[i].node \in Tasks
                             \/ c[i].op = "rel" /\ node[c[i].node] # "unborn"
      /\ \A u \in Tasks : Number(c, Notices(u)) = One(d = Writer(u))
  BY <1>5, <1>6, NextCallIs
<1>8. PICK g : g = F("rel", n, 0, Returned(n, d))
  OBVIOUS
<1>9. node[n] # "unborn"
  BY <1>3, FinishedBorn DEF Core
<1>10. g \in Frame /\ g.op = "rel" /\ g.node = n
  <2>1. Returned(n, d) \in Int
    BY DEF Returned
  <2> QED
    BY <1>8, <2>1, NodesApart DEF F, Frame, CountOps
<1>11. CASE countdown[n][p] - k # 0
  <2>1. Then(x, <<>>)
    BY <1>2, <1>11 DEF Dec
  <2>2. <<>> \in Seq(Frame) /\ DOMAIN <<>> = {} /\ \A P : Number(<<>>, P) = 0
    BY Short, NumberEmpty
  <2>3. \A u \in Tasks : Number(<<>>, Notices(u)) = One(countdown[n][p] = k /\ d = Writer(u))
    BY <1>3, <1>11, <2>2 DEF One
  <2> QED
    BY <1>2, <1>4, <2>1, <2>2, <2>3
<1>12. CASE countdown[n][p] - k = 0 /\ n = x
  <2>1. Then(x, c)
    BY <1>2, <1>4, <1>6, <1>12 DEF Dec
  <2>2. \A u \in Tasks : Number(c, Notices(u)) = One(countdown[n][p] = k /\ d = Writer(u))
    <3>1. countdown[n][p] = k
      BY <1>2, <1>3, <1>12
    <3> QED
      BY <1>7, <3>1
  <2> QED
    BY <1>2, <1>4, <1>7, <2>1, <2>2
<1>13. CASE countdown[n][p] - k = 0 /\ n # x
  <2>1. PICK w \in Seq(Frame) : w = c \o <<g>>
    <3>1. PICK h \in Seq(Frame) : h = <<g>>
      BY <1>10, OneIs
    <3>2. c \o h \in Seq(Frame)
      BY <1>7
    <3> QED
      BY <3>1, <3>2
  <2>2. Then(x, w)
    BY <1>2, <1>4, <1>6, <1>8, <1>13, <2>1 DEF Dec
  <2>3. \A i \in DOMAIN w : w[i] = g \/ \E j \in DOMAIN c : w[i] = c[j]
    BY <1>7, <1>10, <2>1
  <2>4. \A i \in DOMAIN w : \/ w[i].op = "pre" /\ w[i].k = 1 /\ w[i].node \in Tasks
                            \/ w[i].op = "rel" /\ node[w[i].node] # "unborn"
    BY <1>7, <1>9, <1>10, <2>3
  <2>5. ASSUME NEW u \in Tasks
        PROVE  Number(w, Notices(u)) = One(countdown[n][p] = k /\ d = Writer(u))
    <3>1. <<g>> \in Seq(Frame)
      BY <1>10, OneIs
    <3>2. Number(w, Notices(u)) = Number(c, Notices(u)) + Number(<<g>>, Notices(u))
      BY <1>7, <2>1, <3>1, NumberCat
    <3>3. g \notin Notices(u)
      BY <1>10 DEF Notices
    <3>4. Number(<<g>>, Notices(u)) = 0
      BY <3>3, NumberOne DEF One
    <3>5. countdown[n][p] = k
      BY <1>2, <1>3, <1>13
    <3> QED
      BY <1>7, <3>2, <3>4, <3>5 DEF One
  <2> QED
    BY <1>2, <1>4, <2>1, <2>2, <2>4, <2>5
<1> QED
  BY <1>11, <1>12, <1>13

LEMMA DecCore ==
  ASSUME Core, TypeOK', NEW x \in Threads, Dec(x)
  PROVE  Core'
<1> USE DEF setup, ghost
<1>1. At(x, "dec")
  BY DEF Dec
<1>2. PICK n \in Nodes, p \in Port, k \in Int : n = Cur(x).node /\ p = Cur(x).port /\ k = Cur(x).k
  BY <1>1, DecFits
<1>3. /\ p \in Slots(n) /\ Finished(n) /\ k >= 1
      /\ countdown[n][p] \in Int /\ countdown[n][p] >= k
      /\ countdown[n][p] = k => nextWriter[n][p] # Null /\ nextWriter[n][p] # Ready
      /\ k # 1 => /\ Count(todo, Shares(n, p)) = 1 /\ Count(todo, Outs(n, p)) = 0
                  /\ countdown[n][p] = Held(n, p) + k
  BY <1>1, <1>2, DecFits
<1>4. todo[x] # <<>> /\ Cur(x).op = "dec" /\ Cur(x) \in Ahead(x) /\ Cur(x) \in Frame
  BY <1>1, AtTop, TopLies DEF Core
<1>5. PICK fs \in Seq(Frame) :
        /\ Then(x, fs)
        /\ \A i \in DOMAIN fs : \/ fs[i].op = "pre" /\ fs[i].k = 1 /\ fs[i].node \in Tasks
                                \/ fs[i].op = "rel" /\ node[fs[i].node] # "unborn"
        /\ \A u \in Tasks : Number(fs, Notices(u)) =
                One(/\ countdown[Cur(x).node][Cur(x).port] = Cur(x).k
                    /\ nextWriter[Cur(x).node][Cur(x).port] = Writer(u))
  BY DecFrames
<1>6. \A i \in DOMAIN fs : fs[i].op \in {"pre", "rel"} /\ fs[i] \in Frame
  BY <1>5, Member
<1>7. /\ countdown' = [countdown EXCEPT ![n][p] = countdown[n][p] - k]
      /\ UNCHANGED <<node, head, startCount, life, nextWriter, woken, count, setup, ghost>>
  BY <1>2 DEF Dec
<1>8. /\ countdown'[n][p] = countdown[n][p] - k
      /\ \A m \in Nodes, q \in Port : m # n \/ q # p => countdown'[m][q] = countdown[m][q]
      /\ \A m \in Nodes : m # n => countdown'[m] = countdown[m]
  BY <1>7 DEF Core, TypeOK
<1>9. \A u : Finished(u)' <=> Finished(u)
  BY <1>7, FinishedSame
<1>10. \A u : Slots(u)' = Slots(u)
  BY <1>7, SlotsStay
<1>11. Steady /\ Owing
  BY <1>7, SteadyIf DEF Owing
<1>12. Lists' = Lists
  BY <1>7 DEF Lists
<1>13. Placed'
  <2>1. ASSUME NEW i \in DOMAIN fs
        PROVE  Fits(fs[i])'
    <3>1. PICK f : f = fs[i]
      OBVIOUS
    <3>2. f.op \in {"pre", "rel"} /\ (f.op = "pre" => f.k = 1 /\ f.node \in Tasks) /\ (f.op = "rel" => node[f.node] # "unborn")
      BY <1>5, <3>1
    <3>3. Fits(f)'
      BY <1>7, <3>2 DEF Fits
    <3> QED
      BY <1>7, <3>1, <3>3 DEF Fits, Finished, Slots, Writes, Protection
  <2>2. Sits(x, fs, After(todo[x], 1))
    BY <1>6 DEF Sits, Calling, Asking, BodyOps
  <2> QED
    BY <1>4, <1>5, <1>7, <1>11, <2>1, <2>2, PlacedThen
<1>14. Linked'
  BY <1>11, <1>12, LinkedSame
<1>15. \A i \in DOMAIN fs : fs[i].op \notin {"start", "finish", "exchange", "arg", "return", "link", "hop", "late"}
  BY <1>6
<1>16. Bodies'
  <2>1. ASSUME NEW u \in Tasks
        PROVE  /\ node'[u] = "unborn" <=> node[u] = "unborn"
               /\ head'[u].tag = head[u].tag
               /\ phase[u] = "idle" => /\ owed'[u] = owed[u] /\ nextWriter'[u] = nextWriter[u]
                                       /\ countdown'[u] = countdown[u]
    <3>1. phase[u] = "idle" => u # n
      BY <1>3 DEF Finished
    <3> QED
      BY <1>7, <1>8, <3>1, NodesApart
  <2> QED
    BY <1>4, <1>5, <1>7, <1>15, <2>1, BodiesThen
<1>17. Distinct'
  BY <1>7, DistinctSame
<1>18. \A P : /\ Count(todo', P) = Count(todo, P) - One(Cur(x) \in P) + Number(fs, P)
              /\ Count(todo, P) \in Nat /\ Number(fs, P) \in Nat /\ Count(todo', P) \in Nat
  BY <1>4, <1>5, ThenCount DEF Core
<1>19. \A P : (\A f \in Frame : f.op \in {"pre", "rel"} => f \notin P) => Number(fs, P) = 0
  BY <1>6, NumberNone
<1>20. Due'
  <2>1. ASSUME NEW u \in Tasks
        PROVE  Counted(u)'
    <3>1. Cur(x) \notin Notices(u) /\ Cur(x) \notin Protecting(u)
      BY <1>4 DEF Notices, Protecting
    <3>2. Count(todo', Protecting(u)) = Count(todo, Protecting(u))
      <4>1. \A i \in DOMAIN fs : fs[i] \notin Protecting(u)
        BY <1>5 DEF Protecting
      <4>2. Number(fs, Protecting(u)) = 0
        BY <4>1, NumberNone
      <4> QED
        BY <1>18, <3>1, <4>2 DEF One
    <3>3. Number(fs, Notices(u)) = One(countdown[n][p] = k /\ nextWriter[n][p] = Writer(u))
      BY <1>2, <1>5
    <3>4. Count(todo', Notices(u)) = Count(todo, Notices(u)) + One(countdown[n][p] = k /\ nextWriter[n][p] = Writer(u))
      BY <1>18, <3>1, <3>3 DEF One
    <3>5. HeldFor(Writer(u)) \in Nat
      BY HeldForNat
    <3>6. HeldFor(Writer(u))' = HeldFor(Writer(u)) - One(countdown[n][p] = k /\ nextWriter[n][p] = Writer(u))
      <4>1. \A m \in Nodes : \A q \in Port : m # n \/ q # p =>
              ((q \in Slots(m)' /\ countdown'[m][q] > 0 /\ nextWriter'[m][q] = Writer(u))
                <=> (q \in Slots(m) /\ countdown[m][q] > 0 /\ nextWriter[m][q] = Writer(u)))
        BY <1>7, <1>8, <1>10
      <4>2. CASE countdown[n][p] = k /\ nextWriter[n][p] = Writer(u)
        <5>1. countdown[n][p] > 0 /\ ~(countdown'[n][p] > 0)
          BY <1>3, <1>8, <4>2
        <5>2. HeldFor(Writer(u))' = HeldFor(Writer(u)) - 1
          BY <1>3, <4>1, <4>2, <5>1, HeldForLess
        <5> QED
          BY <4>2, <5>2 DEF One
      <4>3. CASE ~(countdown[n][p] = k /\ nextWriter[n][p] = Writer(u))
        <5>1. (p \in Slots(n)' /\ countdown'[n][p] > 0 /\ nextWriter'[n][p] = Writer(u))
                <=> (p \in Slots(n) /\ countdown[n][p] > 0 /\ nextWriter[n][p] = Writer(u))
          <6>1. CASE nextWriter[n][p] = Writer(u)
            <7>1. countdown[n][p] > 0 /\ countdown'[n][p] > 0
              BY <1>3, <1>8, <4>3, <6>1
            <7> QED
              BY <1>7, <1>10, <7>1
          <6>2. CASE nextWriter[n][p] # Writer(u)
            BY <1>7, <6>2
          <6> QED
            BY <6>1, <6>2
        <5>2. \A m \in Nodes : \A q \in Port :
              ((q \in Slots(m)' /\ countdown'[m][q] > 0 /\ nextWriter'[m][q] = Writer(u))
                <=> (q \in Slots(m) /\ countdown[m][q] > 0 /\ nextWriter[m][q] = Writer(u)))
          BY <4>1, <5>1
        <5>3. HeldFor(Writer(u))' = HeldFor(Writer(u))
          BY <5>2, HeldForSame
        <5> QED
          BY <3>5, <4>3, <5>3 DEF One
      <4> QED
        BY <4>2, <4>3
    <3>7. Coming(u)' = Coming(u)
      <4>1. Notices(u)' = Notices(u) /\ ArcsTo(u)' = ArcsTo(u)
        BY NoticeOps
      <4>2. Count(Lists, ArcsTo(u)) \in Nat /\ Count(todo, Notices(u)) \in Nat
        BY CountNat DEF Core
      <4> QED
        BY <1>12, <3>4, <3>5, <3>6, <4>1, <4>2 DEF Coming, One
    <3> QED
      BY <1>7, <3>2, <3>7, CountedKept
  <2> QED
    BY <2>1 DEF Due
<1>21. Undisturbed
  <2>1. \A u \in Nodes : \A q \in Slots(u) : Vacant(u, q) => Vacant(u, q)'
    BY <1>7, VacantSame
  <2> QED
    BY <1>4, <1>5, <1>7, <1>15, <2>1, UndisturbedThen
<1>22. Stores'
  <2>1. \A s \in Storage : s \in Nodes
    BY DEF Nodes
  <2>2. \A s \in Storage : /\ Finished(s)' <=> Finished(s)
                           /\ Finished(s) \/ (head'[s] = head[s] /\ countdown'[s] = countdown[s])
    BY <1>3, <1>7, <1>8, <1>9, <2>1
  <2> QED
    BY <1>21, <2>2, StoresKept
<1>23. Homes' /\ Firsts'
  BY <1>21, HomesKept, FirstsKept
<1>24. Callers'
  BY <1>4, <1>5, <1>7, <1>15, <1>21, CallsThen
<1>25. /\ Ahead(x) = {Cur(x)} \cup After(todo[x], 1)
       /\ Ahead(x)' = {fs[i] : i \in DOMAIN fs} \cup After(todo[x], 1)
       /\ \A y \in Threads : y # x => todo'[y] = todo[y] /\ Ahead(y)' = Ahead(y)
  BY <1>4, <1>5, AheadThen DEF Core
<1>26. n \in Tasks => Number(todo'[n], Turning(n, p)) = Number(todo[n], Turning(n, p))
  <2>1. CASE n = x
    <3>1. Number(fs, Turning(n, p)) = 0 /\ Cur(x) \notin Turning(n, p)
      BY <1>4, <1>19 DEF Turning
    <3>2. /\ Number(todo'[x], Turning(n, p)) = Number(todo[x], Turning(n, p)) - One(Cur(x) \in Turning(n, p))
                                               + Number(fs, Turning(n, p))
          /\ Number(todo[x], Turning(n, p)) \in Nat
      BY <1>4, <1>5, ThenNumber DEF Core
    <3> QED
      BY <2>1, <3>1, <3>2 DEF One
  <2>2. CASE n # x /\ n \in Tasks
    BY <1>25, <2>2, NodesApart
  <2> QED
    BY <2>1, <2>2
<1>27. Named(nextWriter[n][p])' /\ nextWriter'[n][p] = nextWriter[n][p]
  <2>1. Named(nextWriter[n][p])'
    BY <1>3, <1>7, NamedStays
  <2> QED
    BY <1>7, <2>1
<1>28. Tallied(n, p)
  BY <1>3 DEF Core, Tallies
<1>29. /\ Number(fs, Holders(n, p)) = 0 /\ Number(fs, Shares(n, p)) = 0 /\ Number(fs, Outs(n, p)) = 0
       /\ Cur(x) \notin Outs(n, p)
  BY <1>4, <1>19 DEF Holders, Shares, Outs
<1>30. /\ Count(Lists, {BackOnly(n, p)}) \in Nat /\ Count(todo, Holders(n, p)) \in Nat
       /\ Held(n, p) \in Nat /\ Ready' = Ready
       /\ Held(n, p)' = Held(n, p) - One(Cur(x) \in Holders(n, p))
  <2>1. Count(Lists, {BackOnly(n, p)}) \in Nat /\ Count(todo, Holders(n, p)) \in Nat /\ Held(n, p) \in Nat
    BY CountNat, HeldNat DEF Core
  <2>2. Count(todo', Holders(n, p)) = Count(todo, Holders(n, p)) - One(Cur(x) \in Holders(n, p))
    BY <1>18, <1>29 DEF One
  <2>3. BackOnly(n, p)' = BackOnly(n, p) /\ Holders(n, p)' = Holders(n, p) /\ Ready' = Ready
    BY MarksAre DEF Ready
  <2> QED
    BY <1>12, <1>27, <2>1, <2>2, <2>3 DEF Held, One
<1>31. ASSUME NEW y \in Threads, NEW f \in Ahead(y)', f \in Shares(n, p)
       PROVE  f \in Ahead(y)
  <2>1. CASE y # x
    BY <1>25, <1>31, <2>1
  <2>2. CASE y = x
    <3>1. ASSUME NEW i \in DOMAIN fs, f = fs[i]
          PROVE  FALSE
      BY <1>6, <1>31, <3>1 DEF Shares
    <3> QED
      BY <1>25, <1>31, <2>2, <3>1
  <2> QED
    BY <2>1, <2>2
<1>32. Tallied(n, p)'
  <2>1. CASE k = 1
    <3>1. Cur(x) \in Holders(n, p) /\ Cur(x) \notin Shares(n, p)
      BY <1>2, <1>4, <2>1 DEF Holders, Shares
    <3>2. PICK e \in Int : e = -1
      OBVIOUS
    <3>3. countdown'[n][p] = countdown[n][p] + e
      BY <1>3, <1>8, <2>1, <3>2
    <3>4. Held(n, p)' = Held(n, p) + e
      BY <1>30, <3>1, <3>2 DEF One
    <3>5. Count(todo', Shares(n, p)) = Count(todo, Shares(n, p)) /\ Count(todo', Outs(n, p)) = Count(todo, Outs(n, p))
      BY <1>18, <1>29, <3>1 DEF One
    <3>6. \A y \in Threads : Ahead(y)' \cap Shares(n, p) \subseteq Ahead(y)
      BY <1>31
    <3>7. /\ Count(todo, Outs(n, p)) > 0 => nextWriter'[n][p] # Ready
          /\ Count(todo, Outs(n, p)) = 0 => nextWriter'[n][p] # Null
      BY <1>3, <1>27, <1>28 DEF Tallied
    <3>8. n \in Tasks => /\ count'[n][p] = count[n][p]
                         /\ Number(todo'[n], Turning(n, p)) = Number(todo[n], Turning(n, p))
                         /\ head'[n].tag = "open" => head[n].tag = "open"
      BY <1>7, <1>26
    <3> QED
      BY <1>3, <1>9, <1>27, <3>3, <3>4, <3>5, <3>6, <3>7, <3>8, TalliedBy
  <2>2. CASE k # 1
    <3>1. Cur(x) \in Shares(n, p) /\ Cur(x) \notin Holders(n, p)
      BY <1>2, <1>4, <2>2 DEF Holders, Shares
    <3>2. Count(todo', Shares(n, p)) = 0 /\ Count(todo', Outs(n, p)) = 0
      BY <1>3, <1>18, <1>29, <2>2, <3>1 DEF One
    <3>3. countdown'[n][p] = Held(n, p)'
      BY <1>3, <1>8, <1>30, <2>2, <3>1 DEF One
    <3>4. \A y \in Threads : Ahead(y)' \cap Shares(n, p) = {}
      BY <3>2, TodoNext
    <3>5. Exact(n, p)'
      BY <3>3, <3>4, MarksAre DEF Exact
    <3>6. nextWriter'[n][p] # Null
      BY <1>3, <1>27, <1>28, <2>2 DEF Tallied
    <3>7. Finished(n)' /\ Null' = Null
      BY <1>3, <1>9 DEF Null
    <3> QED
      BY <1>27, <1>30, <3>2, <3>5, <3>6, <3>7, MarksAre DEF Tallied
  <2> QED
    BY <2>1, <2>2
<1>33. Tallies'
  <2>1. ASSUME NEW m \in Nodes, NEW q \in Slots(m), m # n \/ q # p
        PROVE  Tallied(m, q)'
    <3>1. Cur(x) \notin Marks(m, q)
      BY <1>2, <2>1 DEF Marks
    <3>2. \A i \in DOMAIN fs : fs[i] \notin Marks(m, q) /\ (m = x => fs[i] \notin Turning(m, q))
      BY <1>6 DEF Marks, Turning
    <3>3. countdown'[m][q] = countdown[m][q]
      BY <1>8, <2>1, SlotsArePorts DEF Core
    <3> QED
      BY <1>4, <1>5, <1>7, <1>9, <1>12, <3>1, <3>2, <3>3, TalliedThen
  <2> QED
    BY <1>10, <1>32, <2>1 DEF Tallies
<1> QED
  BY <1>13, <1>14, <1>16, <1>17, <1>20, <1>22, <1>23, <1>24, <1>33 DEF Core

(***************************************************************************)
(* A task is published, and the call returns                               *)
(***************************************************************************)
LEMMA BindCore ==
  ASSUME Core, TypeOK', NEW x \in Clients, Bind(x)
  PROVE  Core'
<1> USE DEF setup, ghost
<1>1. /\ x \in Threads /\ todo[x] # <<>> /\ Cur(x).op = "bind" /\ Cur(x) \in Ahead(x) /\ Cur(x) \in Frame
      /\ Cur(x) = BindOf(x)
  <2>1. x \in Threads
    BY NodesApart
  <2>2. todo[x] # <<>> /\ Cur(x).op = "bind" /\ Cur(x) \in Ahead(x) /\ Cur(x) \in Frame
        /\ Lies(x, todo[x], 1) /\ todo[x][1] = Cur(x)
    BY <2>1, AtTop, TopLies DEF Bind, Core
  <2> QED
    BY <2>1, <2>2 DEF Lies
<1>2. PICK t \in Tasks : t = making[x]
  BY <1>1, SettingUp DEF Core
<1>3. InRun(x) /\ t \in Nodes /\ t \in Threads /\ Cur(x).node = t
  BY <1>1, <1>2, SettingUp, NodesApart DEF Core, BindOf, F
<1>4. var[t] = New(t)
  BY <1>2, <1>3 DEF Core, Callers, Called
<1>5. Protection(t) \in Int /\ Protection(t) >= 2
  BY <1>2, OwedRange DEF Core
<1>6. PICK g : g = F("pre", t, 0, Protection(t))
  OBVIOUS
<1>7. g \in Frame /\ g.op = "pre" /\ g.node = t /\ g.k = Protection(t) /\ g.k # 1
  BY <1>3, <1>5, <1>6, NodesApart DEF F, Frame, CountOps
<1>8. PICK fs : fs = <<g>>
  OBVIOUS
<1>9. fs \in Seq(Frame) /\ DOMAIN fs = {1} /\ \A i \in DOMAIN fs : fs[i] = g
  BY <1>7, <1>8, OneIs
<1>10. /\ Then(x, fs) /\ Then(x, <<g>>)
       /\ UNCHANGED <<node, head, startCount, nextWriter, countdown, woken, count, refs, args, owed, making, ghost>>
  BY <1>2, <1>6, <1>8 DEF Bind
<1>11. var' = var
  <2>1. var' = [var EXCEPT ![t] = New(t)]
    BY <1>2 DEF Bind, New
  <2> QED
    BY <1>4, <2>1 DEF Core, TypeOK
<1>12. Steady /\ Owing
  BY <1>10, SteadyIf DEF Owing
<1>13. Placed'
  <2>1. Protection(t)' = Protection(t)
    BY <1>10 DEF Protection
  <2>2. Fits(g)'
    BY <1>2, <1>7, <2>1 DEF Fits
  <2> QED
    BY <1>1, <1>7, <1>10, <1>12, <2>2, PlacedOne DEF BodyOps, Calling, Asking
<1>14. Lists' = Lists
  BY <1>10 DEF Lists
<1>15. Linked'
  BY <1>12, <1>14, LinkedSame
<1>16. Bodies'
  BY <1>1, <1>7, <1>9, <1>10, BodiesThen
<1>17. Distinct'
  BY <1>10, DistinctSame
<1>18. \A P : Count(todo', P) = Count(todo, P) - One(Cur(x) \in P) + One(g \in P) /\ Count(todo, P) \in Nat
  BY <1>1, <1>7, <1>10, OneCount DEF Core
<1>19. Due'
  <2>1. ASSUME NEW u \in Tasks
        PROVE  Counted(u)'
    <3>1. Cur(x) \in Protecting(u) <=> u = t
      BY <1>1, <1>3 DEF Protecting
    <3>2. g \in Protecting(u) <=> u = t
      BY <1>7 DEF Protecting
    <3>3. Cur(x) \notin Notices(u) /\ g \notin Notices(u)
      BY <1>1, <1>7 DEF Notices
    <3>4. Count(todo', Protecting(u)) = Count(todo, Protecting(u)) /\ Count(todo', Notices(u)) = Count(todo, Notices(u))
      BY <1>18, <3>1, <3>2, <3>3 DEF One
    <3>5. HeldFor(Writer(u))' = HeldFor(Writer(u))
      BY <1>10, HeldForStays
    <3>6. Coming(u)' = Coming(u)
      BY <1>14, <3>4, <3>5, NoticeOps DEF Coming
    <3> QED
      BY <1>10, <3>4, <3>6, CountedKept
  <2> QED
    BY <2>1 DEF Due
<1>20. Undisturbed
  <2>1. \A u \in Nodes : \A q \in Slots(u) : Vacant(u, q) => Vacant(u, q)'
    BY <1>10, VacantSame
  <2> QED
    BY <1>1, <1>7, <1>9, <1>10, <1>11, <2>1, UndisturbedThen
<1>21. \A u : (Finished(u)' <=> Finished(u)) /\ Slots(u)' = Slots(u)
  BY <1>10, FinishedSame, SlotsStay
<1>22. Stores'
  BY <1>10, <1>20, <1>21, StoresKept
<1>23. Homes' /\ Firsts'
  BY <1>20, HomesKept, FirstsKept
<1>24. Callers'
  BY <1>1, <1>7, <1>9, <1>10, <1>20, CallsThen
<1>25. Tallies'
  <2>1. ASSUME NEW m \in Nodes, NEW q \in Slots(m)
        PROVE  Tallied(m, q)'
    <3>1. Cur(x) \notin Marks(m, q) /\ \A i \in DOMAIN fs : fs[i] \notin Marks(m, q) /\ fs[i] \notin Turning(m, q)
      BY <1>1, <1>7, <1>9 DEF Marks, Turning
    <3> QED
      BY <1>1, <1>9, <1>10, <1>14, <1>21, <3>1, TalliedThen
  <2> QED
    BY <1>21, <2>1 DEF Tallies
<1> QED
  BY <1>13, <1>15, <1>16, <1>17, <1>19, <1>22, <1>23, <1>24, <1>25 DEF Core

(* The last of a stack is all there is. *)
LEMMA LastOne ==
  ASSUME TypeOK, NEW x \in Threads, todo[x] # <<>>, Len(todo[x]) = 1
  PROVE  Ahead(x) = {Cur(x)} /\ After(todo[x], 1) = {} /\ Tail(todo[x]) = <<>>
<1>1. PICK s \in Seq(Frame) : s = todo[x]
  BY Families
<1>2. s[1] = Head(s) /\ DOMAIN s = {1} /\ After(s, 1) = {} /\ Len(Tail(s)) = 0 /\ Tail(s) \in Seq(Frame)
  <2>1. Len(s) = 1 /\ DOMAIN s = 1..Len(s) /\ s # <<>>
    BY <1>1
  <2>2. DOMAIN s = {1} /\ s[1] = Head(s) /\ Len(Tail(s)) = 0 /\ Tail(s) \in Seq(Frame)
    BY <2>1, Behind
  <2>3. (1 + 1)..1 = {}
    OBVIOUS
  <2> QED
    BY <2>1, <2>2, <2>3 DEF After
<1>3. PICK r \in Seq(Frame) : r = Tail(s)
  BY <1>2
<1>4. r = <<>>
  BY <1>2, <1>3
<1> QED
  BY <1>1, <1>2, <1>3, <1>4 DEF Ahead, Cur

LEMMA ReturnCore ==
  ASSUME Core, TypeOK', NEW x \in Clients, Return(x)
  PROVE  Core'
<1> USE DEF ghost
<1>1. /\ x \in Threads /\ todo[x] # <<>> /\ Cur(x).op = "return" /\ Cur(x) \in Ahead(x) /\ Cur(x) \in Frame
      /\ Cur(x) = ReturnOf(x) /\ Len(todo[x]) = 1 /\ Cur(x) \in FrameOf(x)
  <2>1. x \in Threads
    BY NodesApart
  <2>2. todo[x] # <<>> /\ Cur(x).op = "return" /\ Cur(x) \in Ahead(x) /\ Cur(x) \in Frame
        /\ Lies(x, todo[x], 1) /\ todo[x][1] = Cur(x) /\ Cur(x) \in FrameOf(x)
    BY <2>1, AtTop, TopLies DEF Return, Core
  <2> QED
    BY <2>1, <2>2 DEF Lies
<1>2. InRun(x)
  BY <1>1, RunAhead
<1>3. PICK t \in Tasks : t = making[x]
  BY <1>2 DEF Core, Callers, Called
<1>4. /\ t \in Nodes /\ t \notin Storage /\ var[t] = New(t) /\ Cur(x) = F("return", t, 0, 0)
      /\ \A y \in Clients : making[y] = t => y = x
  <2>1. t # NoTask
    BY <1>3, ConstantsAssumption DEF NoTask
  <2>2. t \notin Storage /\ t \in Nodes
    BY <1>3, NodesApart, ConstantsAssumption DEF Nodes
  <2> QED
    BY <1>1, <1>2, <1>3, <2>1, <2>2 DEF Core, Callers, Called, ReturnOf
<1>5. PICK fs : fs = <<>>
  OBVIOUS
<1>6. fs \in Seq(Frame) /\ DOMAIN fs = {}
  BY <1>5
<1>7. /\ Then(x, fs) /\ Then(x, <<>>)
      /\ UNCHANGED <<node, head, startCount, life, nextWriter, countdown, woken, count, refs, args, owed, making, ghost>>
  BY <1>5 DEF Return, engine
<1>8. /\ \A v \in Nodes : v # t => var'[v] = var[v]
      /\ var'[t].live /\ var'[t].cur = t /\ var'[t].port = 0 /\ var'[t].deferred = FALSE
  <2>1. var' = [var EXCEPT ![t] = [@ EXCEPT !.live = TRUE]]
    BY <1>3 DEF Return
  <2>2. var'[t] = [var[t] EXCEPT !.live = TRUE] /\ \A v \in Nodes : v # t => var'[v] = var[v]
    BY <1>4, <2>1 DEF Core, TypeOK
  <2> QED
    BY <1>4, <2>2 DEF New
<1>9. \A v \in Nodes : /\ var'[v].cur = var[v].cur /\ var'[v].port = var[v].port
                       /\ var'[v].deferred = var[v].deferred /\ SlotOf(v)' = SlotOf(v)
                       /\ (var[v].live => var'[v].live) /\ (var'[v].live => var[v].live \/ v = t)
  <2>1. var[t].cur = t /\ var[t].port = 0 /\ var[t].deferred = FALSE
    BY <1>4 DEF New
  <2> QED
    BY <1>8, <2>1 DEF SlotOf
<1>10. Ahead(x) = {Cur(x)} /\ Ahead(x)' = {} /\ \A y \in Threads : y # x => todo'[y] = todo[y] /\ Ahead(y)' = Ahead(y)
  BY <1>1, <1>7, LastOne, Popped DEF Core
<1>11. /\ ~InRun(x)' /\ \A v : ~Reads(x, v)' /\ ~Modifies(x, v)'
       /\ \A y \in Clients : y # x => /\ InRun(y)' <=> InRun(y)
                                      /\ \A v : (Reads(y, v)' <=> Reads(y, v)) /\ (Modifies(y, v)' <=> Modifies(y, v))
  <2>1. ~InRun(x)'
    <3>1. InRun(x)' <=> \E f \in Ahead(x)' : f.op = "return"
      BY DEF InRun, Ahead
    <3> QED
      BY <1>10, <3>1
  <2>2. ASSUME NEW y \in Clients, y # x
        PROVE  InRun(y)' <=> InRun(y)
    <3>1. todo'[y] = todo[y]
      BY <1>10, <2>2, NodesApart
    <3> QED
      BY <3>1 DEF InRun
  <2>3. ASSUME NEW y \in Clients, y # x
        PROVE  CallArgs(y)' = CallArgs(y)
    BY <1>7, <2>2, <2>3 DEF CallArgs
  <2>4. CallArgs(x)' = {}
    BY <2>1 DEF CallArgs
  <2> QED
    BY <2>1, <2>2, <2>3, <2>4 DEF Reads, Modifies
<1>12. \A v \in Nodes : InUse(v)' <=> InUse(v)
  <2>1. ASSUME NEW v \in Nodes
        PROVE  InUse(v)' <=> InUse(v)
    <3>1. CASE v = t
      BY <1>1, <1>4, <1>8, <3>1 DEF InUse
    <3>2. CASE v # t
      <4>1. PICK f : f = F("return", v, 0, 0)
        OBVIOUS
      <4>2. F("return", v, 0, 0)' = f
        BY <4>1 DEF F
      <4>3. f \notin Ahead(x)
        BY <1>4, <1>10, <3>2, <4>1 DEF F
      <4>4. \A y \in Clients : f \in Ahead(y)' <=> f \in Ahead(y)
        BY <1>10, <4>3, NodesApart
      <4> QED
        BY <1>8, <3>2, <4>1, <4>2, <4>4 DEF InUse
    <3> QED
      BY <3>1, <3>2
  <2> QED
    BY <2>1
<1>13. /\ \A y \in Clients : \A i : ToWrite(y, i)' <=> ToWrite(y, i)
       /\ \A v : Opening(v)' <=> Opening(v)
  <2>1. ASSUME NEW y \in Clients, NEW i
        PROVE  ToWrite(y, i)' <=> ToWrite(y, i)
    <3>1. PICK f : f = F("arg", making[y], i, 0)
      OBVIOUS
    <3>2. f.op = "arg"
      BY <3>1 DEF F
    <3>3. f \in Ahead(y)' <=> f \in Ahead(y)
      BY <1>1, <1>10, <3>2, NodesApart
    <3>4. Writes(making[y])' = Writes(making[y]) /\ F("arg", making[y], i, 0)' = f
      BY <1>7, <3>1 DEF Writes, F
    <3> QED
      BY <3>1, <3>3, <3>4 DEF ToWrite
  <2>2. \A v : Opening(v)' <=> Opening(v)
    BY <1>7, <2>1 DEF Opening
  <2> QED
    BY <2>1, <2>2
<1>14. \A u : (Finished(u)' <=> Finished(u)) /\ Slots(u)' = Slots(u)
  BY <1>7, FinishedSame, SlotsStay
<1>15. Steady /\ Owing
  BY <1>7, SteadyIf DEF Owing
<1>16. Placed'
  BY <1>1, <1>7, <1>15, PlacedPop
<1>17. Lists' = Lists
  BY <1>7 DEF Lists
<1>18. Linked'
  BY <1>15, <1>17, LinkedSame
<1>19. Bodies'
  BY <1>1, <1>6, <1>7, BodiesThen
<1>20. Distinct'
  BY <1>7, DistinctSame
<1>21. Due'
  <2>1. \A u \in Tasks : /\ Count(Lists', ArcsTo(u)) = Count(Lists, ArcsTo(u))
                         /\ HeldFor(Writer(u))' = HeldFor(Writer(u))
    BY <1>7, <1>17, HeldForStays
  <2> QED
    BY <1>1, <1>6, <1>7, <2>1, DueThen
<1>22. Stores'
  <2>1. ASSUME NEW s \in Storage
        PROVE  Stored(s)'
    <3>1. Stored(s)
      BY DEF Core, Stores
    <3>2. Redirected(s)' <=> Redirected(s)
      BY <1>7 DEF Redirected, Writes, PortOf, Redirect, FlowBack
    <3> QED
      BY <1>7, <1>14, <3>1, <3>2 DEF Stored, Open, Done
  <2> QED
    BY <2>1 DEF Stores
<1>23. Homes'
  <2>1. ASSUME NEW v \in Nodes
        PROVE  Settled(v)'
    <3>1. Settled(v)
      BY DEF Core, Homes
    <3>2. ~InUse(v)' => v # t
      BY <1>8 DEF InUse
    <3>3. Vacant(var[v].cur, var[v].port)' <=> Vacant(var[v].cur, var[v].port)
      BY <1>7, <1>9 DEF Vacant, Openable, Null, Ready
    <3>4. SlotOf(v)' = SlotOf(v) /\ var'[v].cur = var[v].cur /\ var'[v].port = var[v].port
          /\ Writes(var[v].cur)' = Writes(var[v].cur)
      BY <1>7, <1>9 DEF Writes
    <3>5. \A i : PortOf(var[v].cur, i)' = PortOf(var[v].cur, i)
      BY <3>4 DEF PortOf
    <3>6. v # t => var'[v] = var[v]
      BY <1>8
    <3> QED
      BY <1>7, <1>12, <3>1, <3>2, <3>3, <3>4, <3>5, <3>6 DEF Settled, New
  <2> QED
    BY <2>1 DEF Homes
<1>24. Firsts'
  <2>1. ASSUME NEW v \in Nodes
        PROVE  Put(v)'
    <3>1. Put(v)
      BY DEF Core, Firsts
    <3>2. v = t => v \notin Deferred /\ head[v].tag # "redirect"
      <4>1. Staged(t)
        BY DEF Core, Bodies
      <4> QED
        BY <1>4, <4>1, ConstantsAssumption DEF Staged
    <3>3. \A y \in Clients : Modifies(y, v)' => Modifies(y, v)
      BY <1>11
    <3> QED
      BY <1>7, <1>9, <1>13, <3>1, <3>2, <3>3 DEF Put
  <2> QED
    BY <2>1 DEF Firsts
<1>25. Callers'
  <2>1. Called(x)'
    <3>1. Called(x)
      BY DEF Core, Callers
    <3> QED
      BY <1>7, <1>10, <1>11, <3>1 DEF Called
  <2>2. ASSUME NEW y \in Clients, y # x
        PROVE  Called(y)'
    <3>1. Called(y) /\ y \in Threads
      BY NodesApart DEF Core, Callers
    <3>2. making[y] # t
      BY <1>4, <2>2
    <3>3. \A i : PortOf(making[y], i)' = PortOf(making[y], i) /\ Writes(making[y])' = Writes(making[y])
      BY SMTT(30), <1>7 DEF PortOf, Writes
    <3>4. ASSUME InRun(y), NEW i \in Writes(making[y]), Writing(y, i)
          PROVE  Writing(y, i)'
      <4>1. args[making[y]][i].v \in Nodes
        BY <3>4, ArgumentOf DEF Writes, Core
      <4>2. Vacant(making[y], PortOf(making[y], i))' <=> Vacant(making[y], PortOf(making[y], i))
        BY <1>7, <3>3 DEF Vacant, Openable, Null, Ready
      <4> QED
        BY <1>7, <1>9, <3>3, <3>4, <4>1, <4>2 DEF Writing
    <3>5. \A n, p : Finds(y, n, p) => Finds(y, n, p)'
      <4>1. \A v \in Nodes : \A n, p : Leads(v, n, p) => Leads(v, n, p)'
        BY <1>7, <1>9 DEF Leads, Redirect, FlowBack
      <4> QED
        BY <1>11, <2>2, <4>1 DEF Finds
    <3>6. \A n, p : Begins(y, n, p) => Begins(y, n, p)'
      <4>1. ASSUME NEW n, NEW p, Begins(y, n, p)
            PROVE  Begins(y, n, p)'
        <5>1. CASE Finds(y, n, p)
          BY <3>5, <5>1 DEF Begins
        <5>2. CASE /\ p = 0 /\ head[n].tag = "redirect" /\ Reads(y, n)
                   /\ Leads(n, head[n].arcs[1].node, head[n].arcs[1].port)
          <6>1. n \in Nodes
            BY <5>2, Argument DEF Core
          <6>2. Leads(n, head[n].arcs[1].node, head[n].arcs[1].port)'
            <7>1. head'[n] = head[n] /\ SlotOf(n)' = SlotOf(n)
              BY <1>7, <1>9, <6>1
            <7> QED
              BY <5>2, <7>1, <1>7, <1>9, <6>1 DEF Leads, Redirect, FlowBack
          <6> QED
            BY <1>7, <1>11, <2>2, <5>2, <6>2 DEF Begins
        <5> QED
          BY <4>1, <5>1, <5>2 DEF Begins
      <4> QED
        BY <4>1
    <3>7. InRun(y)' => InRun(y)
      BY <1>11, <2>2
    <3>8. InRun(y) => \A i \in Writes(making[y]) : ToWrite(y, i)' => Writing(y, i)'
      <4>1. InRun(y) => \A i \in Writes(making[y]) : ToWrite(y, i) => Writing(y, i)
        BY <3>1 DEF Called
      <4> QED
        BY <1>13, <3>4, <4>1
    <3>9. InRun(y) => var'[making[y]] = New(making[y]) /\ \A i \in DOMAIN args[making[y]] : var'[args[making[y]][i].v].live
      <4>1. ASSUME InRun(y)
            PROVE  /\ making[y] \in Nodes /\ making[y] \in Tasks
                   /\ \A i \in DOMAIN args[making[y]] : args[making[y]][i].v \in Nodes /\ var[args[making[y]][i].v].live
        BY <3>1, <4>1, ArgumentOf, NodesApart DEF Called, Core
      <4>2. InRun(y) => var[making[y]] = New(making[y])
        BY <3>1 DEF Called
      <4> QED
        BY <1>8, <1>9, <3>2, <4>1, <4>2
    <3>10. InRun(y) => \A z \in Clients \ {y} : \A v \in Nodes : Modifies(y, v)' =>
                          /\ ~Modifies(z, v)'
                          /\ Reads(z, v)' => v \in Deferred /\ last'[v] <= 1
      <4>1. InRun(y) => \A z \in Clients \ {y} : \A v \in Nodes : Modifies(y, v) =>
                          /\ ~Modifies(z, v)
                          /\ Reads(z, v) => v \in Deferred /\ last[v] <= 1
        BY <3>1 DEF Called
      <4> QED
        BY <1>7, <1>11, <2>2, <4>1
    <3>11. /\ InRun(y) => owed'[making'[y]] + Number(todo'[y], {f \in Frame : f.op \in Asking}) <= Len(args'[making'[y]])
           /\ \A f \in Ahead(y)' : f \in Ahead(y)
      BY <1>7, <1>10, <2>2, <3>1 DEF Called
    <3>12. InRun(y) => \A v \in Nodes : Modifies(y, v)' => last'[v] >= 1
      BY <1>7, <1>11, <2>2, <3>1 DEF Called
    <3>13. making'[y] # NoTask =>
       phase'[making'[y]] # "idle" /\ \A z \in Clients : making'[z] = making'[y] => z = y
      BY <1>7, <3>1 DEF Called
    <3>14. \A f \in Ahead(y)' : /\ f.op = "link" => Begins(y, f.node, f.port)'
                                /\ f.op \in {"hop", "late"} => Finds(y, f.node, f.port)'
                                /\ f.op = "hop" => f.node \in Tasks
      <4>1. \A f \in Ahead(y) : /\ f.op = "link" => Begins(y, f.node, f.port)
                                /\ f.op \in {"hop", "late"} => Finds(y, f.node, f.port)
                                /\ f.op = "hop" => f.node \in Tasks
        BY <3>1 DEF Called
      <4> QED
        BY <3>5, <3>6, <3>11, <4>1
    <3>15. InRun(y) => making'[y] \in Tasks /\ making'[y] = making[y]
      BY <1>7, <3>1 DEF Called
    <3>16. /\ Writes(making[y])' = Writes(making[y]) /\ args' = args
           /\ New(making[y])' = New(making[y])
      BY <1>7, <3>3 DEF New
    <3> QED
      BY <3>7, <3>8, <3>9, <3>10, <3>11, <3>12, <3>13, <3>14, <3>15, <3>16 DEF Called
  <2> QED
    BY <2>1, <2>2 DEF Callers
<1>26. Tallies'
  <2>1. ASSUME NEW m \in Nodes, NEW q \in Slots(m)
        PROVE  Tallied(m, q)'
    <3>1. Cur(x) \notin Marks(m, q)
      BY <1>1 DEF Marks
    <3> QED
      BY <1>1, <1>6, <1>7, <1>14, <1>17, <3>1, TalliedThen
  <2> QED
    BY <1>14, <2>1 DEF Tallies
<1> QED
  BY <1>16, <1>18, <1>19, <1>20, <1>21, <1>22, <1>23, <1>24, <1>25, <1>26 DEF Core

(***************************************************************************)
(* A variable goes out of scope                                            *)
(***************************************************************************)
(* A client whose call is not the one that steps. *)
LEMMA CallsSame ==
  ASSUME TypeOK, NEW y \in Clients, todo'[y] = todo[y], making'[y] = making[y],
         making[y] \in Tasks => args'[making[y]] = args[making[y]]
  PROVE  /\ InRun(y)' <=> InRun(y)
         /\ making[y] \in Tasks \/ ~InRun(y) =>
              \A v : (Reads(y, v)' <=> Reads(y, v)) /\ (Modifies(y, v)' <=> Modifies(y, v))
         /\ Ahead(y)' = Ahead(y)
<1>1. (InRun(y)' <=> InRun(y)) /\ Ahead(y)' = Ahead(y)
  BY DEF InRun, Ahead
<1>2. making[y] \in Tasks \/ ~InRun(y) => CallArgs(y)' = CallArgs(y)
  BY <1>1 DEF CallArgs
<1> QED
  BY <1>1, <1>2 DEF Reads, Modifies

LEMMA CalledKept ==
  ASSUME Core, NEW y \in Clients, todo'[y] = todo[y], making'[y] = making[y],
         making[y] \in Tasks => args'[making[y]] = args[making[y]] /\ owed'[making[y]] = owed[making[y]],
         making[y] # NoTask => /\ phase'[making[y]] # "idle"
                               /\ \A z \in Clients : making'[z] = making[y] => z = y,
         InRun(y) => var'[making[y]] = New(making[y]),
         \A v \in Nodes : Reads(y, v) \/ Modifies(y, v) => var'[v].live,
         \A v \in Nodes : Modifies(y, v) =>
           /\ last'[v] >= 1
           /\ \A z \in Clients \ {y} : ~Modifies(z, v)' /\ (Reads(z, v)' => v \in Deferred /\ last'[v] <= 1),
         InRun(y) => \A i \in Writes(making[y]) : ToWrite(y, i) /\ Writing(y, i) => Writing(y, i)',
         \A f \in Ahead(y) : /\ f.op = "link" => Begins(y, f.node, f.port)'
                             /\ f.op \in {"hop", "late"} => Finds(y, f.node, f.port)'
  PROVE  Called(y)'
<1>1. Called(y)
  BY DEF Core, Callers
<1>2. InRun(y) => making[y] \in Tasks
  BY <1>1 DEF Called
<1>3. (InRun(y)' <=> InRun(y)) /\ Ahead(y)' = Ahead(y)
      /\ \A v : (Reads(y, v)' <=> Reads(y, v)) /\ (Modifies(y, v)' <=> Modifies(y, v))
  BY <1>2, CallsSame DEF Core
<1>4. ASSUME InRun(y)
      PROVE  /\ Writes(making[y])' = Writes(making[y]) /\ New(making[y])' = New(making[y])
             /\ args'[making'[y]] = args[making[y]]
  BY <1>2, <1>4 DEF Writes, New
<1>5. ASSUME InRun(y), NEW i \in Writes(making[y])
      PROVE  ToWrite(y, i)' => Writing(y, i)'
  <2>1. PICK f : f = F("arg", making[y], i, 0)
    OBVIOUS
  <2>2. F("arg", making[y], i, 0)' = f
    BY <2>1 DEF F
  <2>3. ToWrite(y, i)' => ToWrite(y, i)
    BY <1>3, <1>4, <1>5, <2>1, <2>2 DEF ToWrite
  <2>4. ToWrite(y, i) => Writing(y, i)
    BY <1>1, <1>5 DEF Called
  <2> QED
    BY <1>5, <2>3, <2>4
<1>6. InRun(y) => \A i \in DOMAIN args[making[y]] : var'[args[making[y]][i].v].live
  <2>1. ASSUME InRun(y), NEW i \in DOMAIN args[making[y]]
        PROVE  var'[args[making[y]][i].v].live
    BY <2>1, ArgumentOf DEF Core
  <2> QED
    BY <2>1
<1>7. InRun(y) => owed'[making'[y]] + Number(todo'[y], {f \in Frame : f.op \in Asking}) <= Len(args'[making'[y]])
  BY <1>1, <1>2, <1>4 DEF Called
<1>8. \A f \in Ahead(y) : f.op = "hop" => f.node \in Tasks
  BY <1>1 DEF Called
<1> QED
  BY <1>2, <1>3, <1>4, <1>5, <1>6, <1>7, <1>8 DEF Called

(* A vacant slot is given to the next writer, or to the owner. *)
LEMMA TakenTally ==
  ASSUME Core, NEW n \in Nodes, NEW p \in Slots(n), Vacant(n, p),
         nextWriter'[n][p] # Null, nextWriter'[n][p] # Ready, Named(nextWriter[n][p])',
         Finished(n)' <=> Finished(n), countdown'[n][p] = countdown[n][p],
         Count(Lists', {BackOnly(n, p)}) = Count(Lists, {BackOnly(n, p)}),
         Count(todo', Holders(n, p)) = Count(todo, Holders(n, p)) + (IF nextWriter[n][p] = Ready THEN 1 ELSE 0),
         Count(todo', Shares(n, p)) = Count(todo, Shares(n, p)),
         Count(todo', Outs(n, p)) = Count(todo, Outs(n, p)),
         \A y \in Threads : Ahead(y)' \cap Shares(n, p) \subseteq Ahead(y),
         n \in Tasks => /\ count'[n][p] = count[n][p]
                        /\ Number(todo'[n], Turning(n, p)) = Number(todo[n], Turning(n, p))
                        /\ head'[n].tag = "open" => head[n].tag = "open"
  PROVE  Tallied(n, p)'
<1>1. Tallied(n, p)
  BY DEF Core, Tallies
<1>2. CASE Finished(n)
  <2>1. Held(n, p)' = Held(n, p)
    <3>1. BackOnly(n, p)' = BackOnly(n, p) /\ Holders(n, p)' = Holders(n, p) /\ Ready' = Ready
      BY MarksAre DEF Ready
    <3>2. Count(Lists, {BackOnly(n, p)}) \in Nat /\ Count(todo, Holders(n, p)) \in Nat
      BY CountNat DEF Core
    <3> QED
      BY <3>1, <3>2 DEF Held, One
  <2>2. Held(n, p) \in Nat /\ countdown[n][p] \in Int
    <3>1. p \in Port
      BY SlotsArePorts DEF Core
    <3>2. countdown[n][p] \in Int
      BY <3>1 DEF Core, TypeOK
    <3>3. Held(n, p) \in Nat
      BY HeldNat DEF Core
    <3> QED
      BY <3>2, <3>3
  <2>3. PICK e \in Int : e = 0
    OBVIOUS
  <2>4. countdown'[n][p] = countdown[n][p] + e /\ Held(n, p)' = Held(n, p) + e
    BY <2>1, <2>2, <2>3
  <2>5. Finished(n)'
    BY <1>2
  <2> QED
    BY <1>2, <2>4, <2>5, TalliedBy
<1>3. CASE ~Finished(n)
  <2>1. Shares(n, p)' = Shares(n, p) /\ Outs(n, p)' = Outs(n, p) /\ Ready' = Ready
    BY MarksAre DEF Ready
  <2> QED
    BY <1>1, <1>3, <2>1 DEF Tallied
<1> QED
  BY <1>2, <1>3

LEMMA DropCore ==
  ASSUME Core, TypeOK', NEW x \in Clients, NEW v \in Nodes, Drop(x, v)
  PROVE  Core'
<1> USE DEF ghost
<1>1. /\ ~InCall(x) /\ var[v].live
      /\ \A y \in Clients \ {x} : ~Modifies(y, v) /\ ~Reads(y, v)
  BY DEF Drop, MayDrop
<1>2. x \in Threads /\ todo[x] = <<>> /\ Ahead(x) = {} /\ ~InRun(x) /\ \A u : ~Reads(x, u) /\ ~Modifies(x, u)
  BY <1>1, AtRest DEF Core
<1>3. PICK n \in Nodes, p \in Port : n = var[v].cur /\ p = var[v].port
  BY DEF Core, TypeOK, OoxVar
<1>4. InUse(v) /\ p \in Slots(n) /\ node[n] # "unborn" /\ Vacant(n, p) /\ node[v] # "unborn"
      /\ SlotOf(v) = <<n, p>>
  <2>1. InUse(v) /\ SlotOf(v) = <<n, p>>
    BY <1>1, <1>3 DEF InUse, SlotOf
  <2>2. p \in Slots(n) /\ node[n] # "unborn" /\ Vacant(n, p)
    BY <1>3, <2>1, SlotIs DEF Core
  <2> QED
    BY <2>1, <2>2 DEF Core, Homes, Settled
<1>5. nextWriter[n][p] = Ready => Finished(n)
  BY <1>4, Untouched
<1>6. PICK d : d = FinalOwner(v)
  OBVIOUS
<1>7. d # Null /\ d # Ready /\ d \in NextWriter /\ (d.kind = "owner" => d.node = v) /\ d.kind # "writer"
  BY <1>6 DEF FinalOwner, NoOwner, Owner, Null, Ready, NextWriter
<1>8. PICK g : g = F("dec", n, p, 1)
  OBVIOUS
<1>9. g \in Frame /\ g.op = "dec" /\ g.node = n /\ g.port = p /\ g.k = 1
  BY <1>8 DEF F, Frame, CountOps
<1>10. PICK fs : fs = IF nextWriter[n][p] = Ready THEN <<g>> ELSE <<>>
  OBVIOUS
<1>11. /\ fs \in Seq(Frame) /\ \A i \in DOMAIN fs : fs[i] = g /\ nextWriter[n][p] = Ready
       /\ \A P : Number(fs, P) = One(nextWriter[n][p] = Ready /\ g \in P)
  <2>1. CASE nextWriter[n][p] = Ready
    <3>1. fs = <<g>>
      BY <1>10, <2>1
    <3>2. fs \in Seq(Frame) /\ \A i \in DOMAIN fs : fs[i] = g
      BY <1>9, <3>1, OneIs
    <3>3. \A P : Number(fs, P) = One(g \in P)
      BY <3>1, NumberOne
    <3> QED
      BY <2>1, <3>2, <3>3 DEF One
  <2>2. CASE nextWriter[n][p] # Ready
    <3>1. fs = <<>>
      BY <1>10, <2>2
    <3> QED
      BY <2>2, <3>1, NumberEmpty DEF One
  <2> QED
    BY <2>1, <2>2
<1>12. /\ UNCHANGED <<node, head, startCount, life, countdown, woken, count, refs, args, owed, making, ghost>>
       /\ todo' = [todo EXCEPT ![x] = fs]
       /\ nextWriter' = [nextWriter EXCEPT ![n][p] = d]
       /\ var' = [var EXCEPT ![v] = [@ EXCEPT !.live = FALSE]]
  BY <1>3, <1>6, <1>8, <1>10 DEF Drop
<1>13. /\ nextWriter'[n][p] = d
       /\ \A m \in Nodes, q \in Port : m # n \/ q # p => nextWriter'[m][q] = nextWriter[m][q]
       /\ \A m \in Nodes : m # n => nextWriter'[m] = nextWriter[m]
  BY <1>12 DEF Core, TypeOK
<1>14. /\ ~var'[v].live /\ \A u \in Nodes : u # v => var'[u] = var[u]
       /\ \A u \in Nodes : /\ var'[u].cur = var[u].cur /\ var'[u].port = var[u].port
                           /\ var'[u].deferred = var[u].deferred /\ (var'[u].live => var[u].live)
                           /\ SlotOf(u)' = SlotOf(u)
  <2>1. var'[v] = [var[v] EXCEPT !.live = FALSE] /\ \A u \in Nodes : u # v => var'[u] = var[u]
    BY <1>12 DEF Core, TypeOK
  <2>2. var[v] \in OoxVar
    BY DEF Core, TypeOK
  <2>3. ~var'[v].live /\ var'[v].cur = var[v].cur /\ var'[v].port = var[v].port /\ var'[v].deferred = var[v].deferred
    BY <2>1, <2>2 DEF OoxVar
  <2> QED
    BY <2>1, <2>3 DEF SlotOf
<1>15. /\ Upon(todo', todo, x, fs) /\ todo'[x] = fs /\ Ahead(x)' = {fs[i] : i \in DOMAIN fs}
       /\ \A y \in Threads : y # x => todo'[y] = todo[y] /\ Ahead(y)' = Ahead(y)
       /\ \A t \in Tasks : todo'[t] = todo[t]
       /\ \A P : /\ Count(todo', P) \in Nat /\ Count(todo, P) \in Nat /\ Number(fs, P) \in Nat
                 /\ Count(todo', P) = Count(todo, P) + Number(fs, P)
  BY <1>1, <1>11, <1>12, CallIs
<1>16. \A y \in Threads : \A f \in Ahead(y)' : f \in Ahead(y) \/ (f = g /\ nextWriter[n][p] = Ready)
  BY <1>11, <1>15
<1>17. \A y \in Threads : \A f : f.op # "dec" => (f \in Ahead(y)' <=> f \in Ahead(y))
  BY <1>2, <1>9, <1>11, <1>15
<1>18. \A u \in Nodes : Finished(u)' <=> Finished(u)
  <2>1. ASSUME NEW u \in Nodes
        PROVE  Finished(u)' <=> Finished(u)
    <3>1. CASE u \in Tasks
      BY <1>12, <3>1 DEF Finished
    <3>2. CASE u \notin Tasks /\ (u # n \/ p # 0)
      BY <1>13, <2>1, <3>2, NodesApart DEF Finished, Null
    <3>3. CASE u \notin Tasks /\ u = n /\ p = 0
      <4>1. u \in Storage /\ Finished(u)
        BY <1>4, <3>3 DEF Core, Stores, Stored, Nodes
      <4>2. nextWriter'[u][0] # Null
        BY <1>7, <1>13, <3>3
      <4> QED
        BY <3>3, <4>1, <4>2 DEF Finished, Null
    <3> QED
      BY <3>1, <3>2, <3>3
  <2> QED
    BY <2>1
<1>19. \A u : Slots(u)' = Slots(u)
  BY <1>12, SlotsStay
<1>20. Steady /\ Owing
  <2>1. \A u \in Storage : nextWriter[u][0] # Null => nextWriter'[u][0] # Null
    <3>1. Storage \subseteq Nodes
      BY DEF Nodes
    <3> QED
      BY <1>7, <1>13, <3>1, NodesApart
  <2> QED
    BY <1>12, <2>1, SteadyIf DEF Owing
<1>21. Placed'
  <2>1. ASSUME NEW i \in DOMAIN fs
        PROVE  Fits(fs[i])'
    <3>1. PICK f : f = fs[i]
      OBVIOUS
    <3>2. f = g /\ Finished(n)'
      BY <1>5, <1>11, <1>18, <3>1
    <3>3. Fits(f)'
      BY <1>4, <1>9, <1>19, <3>2 DEF Fits
    <3>4. f' = f
      OBVIOUS
    <3> QED
      BY <3>1, <3>3, <1>12 DEF Fits, Finished, Slots, Writes, Protection
  <2>2. Sits(x, fs, Ahead(x))
    BY <1>9, <1>11 DEF Sits, Calling, Asking, BodyOps
  <2> QED
    BY <1>2, <1>11, <1>12, <1>15, <1>20, <2>1, <2>2, PlacedUpon
<1>22. Lists' = Lists
  BY <1>12 DEF Lists
<1>23. Linked'
  BY <1>20, <1>22, LinkedSame
<1>24. Bodies'
  <2>1. ASSUME NEW t \in Tasks
        PROVE  Staged(t)'
    <3>1. phase[t] = "idle" => t # n
      BY <1>4 DEF Core, Bodies, Staged
    <3>2. phase[t] = "idle" => nextWriter'[t] = nextWriter[t]
      BY <1>13, <3>1, NodesApart
    <3> QED
      BY <1>12, <1>15, <3>2, StagedKept
  <2> QED
    BY <2>1 DEF Bodies
<1>25. Distinct'
  BY <1>12, DistinctSame
<1>26. Due'
  <2>1. ASSUME NEW u \in Tasks
        PROVE  Counted(u)'
    <3>1. g \notin Notices(u) /\ g \notin Protecting(u)
      BY <1>9 DEF Notices, Protecting
    <3>2. Count(todo', Protecting(u)) = Count(todo, Protecting(u)) /\ Count(todo', Notices(u)) = Count(todo, Notices(u))
      BY <1>11, <1>15, <3>1 DEF One
    <3>3. HeldFor(Writer(u))' = HeldFor(Writer(u))
      <4>1. nextWriter[n][p] # Writer(u) /\ nextWriter'[n][p] # Writer(u)
        BY <1>4, <1>7, <1>13 DEF Vacant, Openable, Null, Ready, Writer
      <4>2. \A m \in Nodes : \A q \in Port :
              ((q \in Slots(m)' /\ countdown'[m][q] > 0 /\ nextWriter'[m][q] = Writer(u))
                <=> (q \in Slots(m) /\ countdown[m][q] > 0 /\ nextWriter[m][q] = Writer(u)))
        BY <1>12, <1>13, <1>19, <4>1
      <4>3. Writer(u)' = Writer(u)
        BY DEF Writer
      <4> QED
        BY <4>2, <4>3, HeldForSame
    <3>4. Coming(u)' = Coming(u)
      BY <1>22, <3>2, <3>3, NoticeOps DEF Coming
    <3> QED
      BY <1>12, <3>2, <3>4, CountedKept
  <2> QED
    BY <2>1 DEF Due
<1>27. Stores'
  <2>1. ASSUME NEW s \in Storage
        PROVE  Stored(s)'
    <3>1. Stored(s)
      BY DEF Core, Stores
    <3>2. Redirected(s)' <=> Redirected(s)
      BY <1>12 DEF Redirected, Writes, PortOf, Redirect, FlowBack
    <3>3. Finished(s)' <=> Finished(s)
      BY <1>18 DEF Nodes
    <3> QED
      BY <1>12, <3>1, <3>2, <3>3 DEF Stored, Open, Done
  <2> QED
    BY <2>1 DEF Stores
<1>28. \A u \in Nodes : /\ u # v => (InUse(u)' <=> InUse(u))
                        /\ ~InUse(v)'
  <2>1. \A u \in Nodes : \A y \in Clients : F("return", u, 0, 0)' \in Ahead(y)' <=> F("return", u, 0, 0) \in Ahead(y)
    <3>1. ASSUME NEW u \in Nodes, NEW y \in Clients
          PROVE  F("return", u, 0, 0)' \in Ahead(y)' <=> F("return", u, 0, 0) \in Ahead(y)
      <4>1. PICK f : f = F("return", u, 0, 0)
        OBVIOUS
      <4>2. f.op # "dec" /\ F("return", u, 0, 0)' = f
        BY <4>1 DEF F
      <4> QED
        BY <1>17, <4>1, <4>2, NodesApart
    <3> QED
      BY <3>1
  <2>2. \A u \in Nodes : u # v => (InUse(u)' <=> InUse(u))
    BY <1>14, <2>1 DEF InUse
  <2>3. ASSUME NEW y \in Clients, F("return", v, 0, 0) \in Ahead(y)
        PROVE  FALSE
    <3>1. PICK f : f = F("return", v, 0, 0)
      OBVIOUS
    <3>2. f.op = "return" /\ f.node = v /\ f \in Ahead(y)
      BY <2>3, <3>1 DEF F
    <3>3. \E i \in DOMAIN todo[y] : todo[y][i] = f /\ Lies(y, todo[y], i)
      BY <3>2, AheadFits, NodesApart DEF Core
    <3>4. f = ReturnOf(y)
      BY <3>2, <3>3 DEF Lies
    <3>5. making[y] = v
      BY <3>2, <3>4 DEF ReturnOf, F
    <3>6. InRun(y)
      BY <3>2, RunAhead
    <3>7. var[making[y]] = New(making[y])
      BY <3>6 DEF Core, Callers, Called
    <3> QED
      BY <1>1, <3>5, <3>7 DEF New
  <2>4. ~InUse(v)'
    BY <1>14, <2>1, <2>3 DEF InUse
  <2> QED
    BY <2>2, <2>4
<1>29. Homes'
  <2>1. ASSUME NEW u \in Nodes
        PROVE  Settled(u)'
    <3>1. Settled(u)
      BY DEF Core, Homes
    <3>2. CASE u = v
      BY <1>4, <1>12, <1>28, <3>2 DEF Settled
    <3>3. CASE u # v
      <4>1. var'[u] = var[u] /\ (InUse(u)' <=> InUse(u)) /\ SlotOf(u)' = SlotOf(u)
        BY <1>14, <1>28, <3>3
      <4>2. InUse(u) => Vacant(var[u].cur, var[u].port)'
        <5>1. ASSUME InUse(u)
              PROVE  Vacant(var[u].cur, var[u].port)'
          <6>1. PICK m \in Nodes, q \in Port : m = var[u].cur /\ q = var[u].port
            BY DEF Core, TypeOK, OoxVar
          <6>2. Vacant(m, q)
            BY <5>1, <6>1, SlotIs DEF Core
          <6>3. m # n \/ q # p
            BY <1>3, <1>4, <3>3, <5>1, <6>1, SlotsApart DEF Core
          <6>4. nextWriter'[m][q] = nextWriter[m][q]
            BY <1>13, <6>3
          <6>5. Vacant(m, q)'
            BY <6>2, <6>4 DEF Vacant, Openable, Null, Ready
          <6>6. var'[u].cur = m /\ var'[u].port = q
            BY <4>1, <6>1
          <6> QED
            BY <6>5, <6>6 DEF Vacant
        <5> QED
          BY <5>1
      <4>3. Writes(var[u].cur)' = Writes(var[u].cur) /\ \A i : PortOf(var[u].cur, i)' = PortOf(var[u].cur, i)
        BY <1>12, <4>1 DEF Writes, PortOf
      <4> QED
        BY <1>12, <3>1, <4>1, <4>2, <4>3 DEF Settled, New
    <3> QED
      BY <3>2, <3>3
  <2> QED
    BY <2>1 DEF Homes
<1>30. /\ ~InRun(x)' /\ \A u : ~Reads(x, u)' /\ ~Modifies(x, u)'
       /\ \A y \in Clients : /\ InRun(y)' <=> InRun(y)
                             /\ \A u : (Reads(y, u)' <=> Reads(y, u)) /\ (Modifies(y, u)' <=> Modifies(y, u))
  <2>1. ~InRun(x)'
    <3>1. InRun(x)' <=> \E f \in Ahead(x)' : f.op = "return"
      BY DEF InRun, Ahead
    <3> QED
      BY <1>9, <1>11, <1>15, <3>1
  <2>2. ASSUME NEW y \in Clients, y # x
        PROVE  (InRun(y)' <=> InRun(y)) /\ CallArgs(y)' = CallArgs(y)
    <3>1. todo'[y] = todo[y]
      BY <1>15, <2>2, NodesApart
    <3>2. InRun(y)' <=> InRun(y)
      BY <3>1 DEF InRun
    <3> QED
      BY <1>12, <3>2 DEF CallArgs
  <2>3. CallArgs(x)' = {}
    BY <2>1 DEF CallArgs
  <2> QED
    BY <1>2, <2>1, <2>2, <2>3 DEF Reads, Modifies
<1>31. /\ \A y \in Clients : \A i : ToWrite(y, i)' <=> ToWrite(y, i)
       /\ \A u : Opening(u)' <=> Opening(u)
  <2>1. ASSUME NEW y \in Clients, NEW i
        PROVE  ToWrite(y, i)' <=> ToWrite(y, i)
    <3>1. PICK f : f = F("arg", making[y], i, 0)
      OBVIOUS
    <3>2. f.op # "dec"
      BY <3>1 DEF F
    <3>3. f \in Ahead(y)' <=> f \in Ahead(y)
      BY <1>17, <3>2, NodesApart
    <3>4. Writes(making[y])' = Writes(making[y]) /\ F("arg", making[y], i, 0)' = f
      BY <1>12, <3>1 DEF Writes, F
    <3> QED
      BY <3>1, <3>3, <3>4 DEF ToWrite
  <2>2. \A u : Opening(u)' <=> Opening(u)
    BY <1>12, <2>1 DEF Opening
  <2> QED
    BY <2>1, <2>2
<1>32. Firsts'
  <2>1. ASSUME NEW u \in Nodes
        PROVE  Put(u)'
    <3>1. Put(u)
      BY DEF Core, Firsts
    <3>2. \A y \in Clients : Modifies(y, u)' => Modifies(y, u)
      BY <1>30
    <3> QED
      BY <1>12, <1>14, <1>31, <3>1, <3>2 DEF Put
  <2> QED
    BY <2>1 DEF Firsts
<1>33. Callers'
  <2>1. Called(x)'
    <3>1. Called(x)
      BY DEF Core, Callers
    <3>2. \A f \in Ahead(x)' : f.op = "dec"
      BY <1>9, <1>11, <1>15
    <3> QED
      BY <1>12, <1>30, <3>1, <3>2 DEF Called
  <2>2. ASSUME NEW y \in Clients, y # x
        PROVE  Called(y)'
    <3>1. Called(y) /\ y \in Threads /\ todo'[y] = todo[y]
      BY <1>15, <2>2, NodesApart DEF Core, Callers
    <3>2. InRun(y) => /\ making[y] \in Tasks /\ making[y] \in Nodes /\ making[y] # v
                      /\ var'[making[y]] = New(making[y])
      <4>1. InRun(y) => making[y] \in Tasks /\ making[y] \in Nodes /\ var[making[y]] = New(making[y])
        BY <3>1, NodesApart DEF Called
      <4> QED
        BY <1>1, <1>14, <4>1 DEF New
    <3>3. \A u \in Nodes : Reads(y, u) \/ Modifies(y, u) => var'[u].live
      <4>1. \A u \in Nodes : Reads(y, u) \/ Modifies(y, u) => var[u].live /\ u # v
        BY <1>1, <2>2, Argument DEF Core
      <4> QED
        BY <1>14, <4>1
    <3>4. \A u \in Nodes : Modifies(y, u) =>
           /\ last'[u] >= 1
           /\ \A z \in Clients \ {y} : ~Modifies(z, u)' /\ (Reads(z, u)' => u \in Deferred /\ last'[u] <= 1)
      <4>1. \A u \in Nodes : Modifies(y, u) => InRun(y)
        BY DEF Modifies, CallArgs
      <4> QED
        BY <1>12, <1>30, <3>1, <4>1 DEF Called
    <3>5. ASSUME InRun(y), NEW i \in Writes(making[y]), Writing(y, i)
          PROVE  Writing(y, i)'
      <4>1. /\ args[making[y]][i].v \in Nodes /\ making[y] \in Tasks /\ i \in DOMAIN args[making[y]]
            /\ Modifies(y, args[making[y]][i].v)
        BY <3>5, ArgumentOf DEF Writes, Core
      <4>2. PortOf(making[y], i) \in Port /\ PortOf(making[y], i) # 0
        BY <3>5, <4>1, PortsApart DEF Core
      <4>3. n # making[y] \/ p # PortOf(making[y], i)
        <5>1. SUFFICES ASSUME n = making[y], p = PortOf(making[y], i)
                       PROVE  FALSE
          OBVIOUS
        <5>2. PICK j \in Writes(n) : args[n][j].v = v
          BY ZenonT(60), <1>3, <1>4, <4>2, <5>1 DEF Core, Homes, Settled, SlotOf
        <5>3. Modifies(y, v)
          BY <3>5, <5>1, <5>2, ArgumentOf DEF Writes, Core
        <5> QED
          BY <1>1, <2>2, <5>3
      <4>4. Vacant(making[y], PortOf(making[y], i))'
        <5>1. PICK m \in Nodes, q \in Port : m = making[y] /\ q = PortOf(making[y], i)
          BY <4>1, <4>2, NodesApart
        <5>2. Vacant(m, q)
          BY <3>5, <5>1 DEF Writing
        <5>3. nextWriter'[m][q] = nextWriter[m][q]
          BY <1>13, <4>3, <5>1
        <5>4. Vacant(m, q)'
          BY <5>2, <5>3 DEF Vacant, Openable, Null, Ready
        <5>5. making'[y] = m /\ PortOf(making[y], i)' = q
          BY <1>12, <5>1 DEF PortOf, Writes
        <5> QED
          BY <5>4, <5>5 DEF Vacant
      <4> QED
        BY <1>12, <1>14, <3>5, <4>1, <4>4 DEF Writing
    <3>6. \A f \in Ahead(y) : /\ f.op = "link" => Begins(y, f.node, f.port)'
                              /\ f.op \in {"hop", "late"} => Finds(y, f.node, f.port)'
      <4>1. \A u \in Nodes : \A m, q : Leads(u, m, q)' <=> Leads(u, m, q)
        BY <1>12, <1>14 DEF Leads, Redirect, FlowBack
      <4>2. ASSUME NEW m, NEW q, Finds(y, m, q)
            PROVE  Finds(y, m, q)'
        BY <1>30, <4>1, <4>2 DEF Finds
      <4>3. ASSUME NEW m, NEW q, Begins(y, m, q)
            PROVE  Begins(y, m, q)'
        <5>1. CASE Finds(y, m, q)
          BY <4>2, <5>1 DEF Begins
        <5>2. CASE ~Finds(y, m, q)
          <6>1. /\ q = 0 /\ head[m].tag = "redirect" /\ Reads(y, m)
                /\ Leads(m, head[m].arcs[1].node, head[m].arcs[1].port)
            BY <4>3, <5>2 DEF Begins
          <6>2. m \in Nodes
            BY <6>1, Argument DEF Core
          <6>3. PICK a, b : a = head[m].arcs[1].node /\ b = head[m].arcs[1].port
            OBVIOUS
          <6>4. Leads(m, a, b)'
            BY <4>1, <6>1, <6>2, <6>3
          <6>5. head'[m].arcs[1].node = a /\ head'[m].arcs[1].port = b /\ head' = head
            BY <1>12, <6>3
          <6> QED
            BY <1>30, <6>1, <6>4, <6>5 DEF Begins, Leads, Redirect, FlowBack
        <5> QED
          BY <5>1, <5>2
      <4> QED
        BY <3>1, <4>2, <4>3 DEF Called
    <3>7. making[y] # NoTask => /\ phase'[making[y]] # "idle"
                                /\ \A z \in Clients : making'[z] = making[y] => z = y
      BY <1>12, <3>1 DEF Called
    <3>8. InRun(y) => \A i \in Writes(making[y]) : ToWrite(y, i) /\ Writing(y, i) => Writing(y, i)'
      BY <3>5
    <3>9. InRun(y) => var'[making[y]] = New(making[y])
      BY <3>2
    <3> QED
      BY <1>12, <3>1, <3>3, <3>4, <3>6, <3>7, <3>8, <3>9, CalledKept
  <2> QED
    BY <2>1, <2>2 DEF Callers
<1>34. \A m, q : m # n \/ q # p => g \notin Marks(m, q)
  BY <1>9 DEF Marks
<1>35. n \in Tasks => Number(todo'[n], Turning(n, p)) = Number(todo[n], Turning(n, p))
  BY <1>15
<1>36. Tallied(n, p)'
  <2>1. Count(todo', Holders(n, p)) = Count(todo, Holders(n, p)) + (IF nextWriter[n][p] = Ready THEN 1 ELSE 0)
    <3>1. g \in Holders(n, p)
      BY <1>9 DEF Holders
    <3> QED
      BY <1>11, <1>15, <3>1 DEF One
  <2>2. /\ Count(todo', Shares(n, p)) = Count(todo, Shares(n, p))
        /\ Count(todo', Outs(n, p)) = Count(todo, Outs(n, p))
    <3>1. g \notin Shares(n, p) /\ g \notin Outs(n, p)
      BY <1>9 DEF Shares, Outs
    <3> QED
      BY <1>11, <1>15, <3>1 DEF One
  <2>3. \A y \in Threads : Ahead(y)' \cap Shares(n, p) \subseteq Ahead(y)
    <3>1. g \notin Shares(n, p)
      BY <1>9 DEF Shares
    <3> QED
      BY <1>16, <3>1
  <2>4. Named(nextWriter[n][p])'
    BY <1>4, <1>7, <1>12, <1>13 DEF Named
  <2>5. nextWriter'[n][p] # Null /\ nextWriter'[n][p] # Ready
    BY <1>7, <1>13
  <2>6. n \in Tasks => /\ count'[n][p] = count[n][p]
                       /\ Number(todo'[n], Turning(n, p)) = Number(todo[n], Turning(n, p))
                       /\ head'[n].tag = "open" => head[n].tag = "open"
    BY <1>12, <1>35
  <2>7. countdown'[n][p] = countdown[n][p] /\ (Finished(n)' <=> Finished(n))
        /\ Count(Lists', {BackOnly(n, p)}) = Count(Lists, {BackOnly(n, p)})
    BY <1>12, <1>18, <1>22
  <2> QED
    BY <1>4, <2>1, <2>2, <2>3, <2>4, <2>5, <2>6, <2>7, TakenTally
<1>37. Tallies'
  <2>1. ASSUME NEW m \in Nodes, NEW q \in Slots(m), m # n \/ q # p
        PROVE  Tallied(m, q)'
    <3>1. g \notin Marks(m, q)
      BY <1>34, <2>1
    <3>2. \A P \in SUBSET Marks(m, q) : Count(todo', P) = Count(todo, P)
      BY <1>11, <1>15, <3>1 DEF One
    <3>3. \A y \in Threads : Ahead(y)' \cap Marks(m, q) \subseteq Ahead(y)
      BY <1>16, <3>1
    <3>4. countdown'[m][q] = countdown[m][q] /\ nextWriter'[m][q] = nextWriter[m][q]
      BY <1>12, <1>13, <2>1, SlotsArePorts DEF Core
    <3>5. ASSUME m \in Tasks
          PROVE  /\ count'[m][q] = count[m][q]
                 /\ Number(todo'[m], Turning(m, q)) <= Number(todo[m], Turning(m, q))
                 /\ head'[m].tag = "open" => head[m].tag = "open"
      <4>1. todo'[m] = todo[m] /\ todo[m] \in Seq(Frame)
        BY <1>15, <3>5, NodesApart, Families DEF Core
      <4>2. Number(todo[m], Turning(m, q)) \in Nat
        BY <4>1, NumberType
      <4> QED
        BY <1>12, <4>1, <4>2
    <3> QED
      BY <1>12, <1>18, <1>22, <3>2, <3>3, <3>4, <3>5, TalliedKept
  <2> QED
    BY <1>19, <1>36, <2>1 DEF Tallies
<1> QED
  BY <1>21, <1>23, <1>24, <1>25, <1>26, <1>27, <1>29, <1>32, <1>33, <1>37 DEF Core

(***************************************************************************)
(* A variable is made                                                      *)
(***************************************************************************)
LEMMA NoCalls ==
  ASSUME Core, \A t \in Tasks : phase[t] = "idle"
  PROVE  /\ \A y \in Clients : /\ making[y] = NoTask /\ ~InRun(y)
                               /\ \A v : ~Reads(y, v) /\ ~Modifies(y, v)
                               /\ \A f \in Ahead(y) : f.op \notin {"link", "hop", "late"}
         /\ \A v : ~Opening(v)
<1>1. ASSUME NEW y \in Clients
      PROVE  making[y] = NoTask /\ ~InRun(y)
  <2>1. Called(y) /\ making[y] \in Tasks \cup {NoTask}
    BY DEF Core, Callers, TypeOK
  <2>2. making[y] = NoTask
    <3>1. making[y] # NoTask => phase[making[y]] # "idle"
      BY <2>1 DEF Called
    <3> QED
      BY <2>1, <3>1
  <2>3. InRun(y) => making[y] \in Tasks
    BY <2>1 DEF Called
  <2> QED
    BY <2>2, <2>3, ConstantsAssumption DEF NoTask
<1>2. \A y \in Clients : \A v : ~Reads(y, v) /\ ~Modifies(y, v)
  BY <1>1 DEF Reads, Modifies, CallArgs
<1>3. ASSUME NEW y \in Clients, NEW f \in Ahead(y)
      PROVE  f.op \notin {"link", "hop", "late"}
  <2>1. Called(y)
    BY DEF Core, Callers
  <2>2. (f.op = "link" => Begins(y, f.node, f.port)) /\ (f.op \in {"hop", "late"} => Finds(y, f.node, f.port))
    BY <1>3, <2>1 DEF Called
  <2> QED
    BY <1>2, <2>2 DEF Begins, Finds
<1>4. \A v : ~Opening(v)
  BY <1>1, ConstantsAssumption DEF Opening, NoTask
<1> QED
  BY <1>1, <1>2, <1>3, <1>4

LEMMA CreateCore ==
  ASSUME Core, TypeOK', NEW x \in Clients, NEW s \in Storage, Create(x, s)
  PROVE  Core'
<1> USE DEF ghost
<1>1. ~InCall(x) /\ node[s] = "unborn" /\ \A t \in Tasks : phase[t] = "idle"
  BY DEF Create, Allocate
<1>2. s \in Nodes /\ s \notin Tasks /\ s \notin Threads /\ x \in Threads
  <2>1. s \notin Tasks /\ s \notin Clients
    BY ConstantsAssumption
  <2> QED
    BY <2>1, NodesApart DEF Nodes, Threads
<1>3. ~Finished(s) /\ head[s] = Open(<<>>) /\ countdown[s][0] = 1 /\ last[s] = 0 /\ ~InUse(s) /\ var[s] = New(s)
      /\ nextWriter[s][0] = Null
  <2>1. ~Finished(s) /\ head[s] = Open(<<>>) /\ countdown[s][0] = 1 /\ last[s] = 0
    BY <1>1 DEF Core, Stores, Stored
  <2>2. ~InUse(s) /\ var[s] = New(s)
    BY <1>1, <1>2 DEF Core, Homes, Settled
  <2> QED
    BY <1>2, <2>1, <2>2 DEF Finished
<1>4. /\ \A y \in Clients : /\ making[y] = NoTask /\ ~InRun(y)
                            /\ \A v : ~Reads(y, v) /\ ~Modifies(y, v)
                            /\ \A f \in Ahead(y) : f.op \notin {"link", "hop", "late"}
      /\ \A v : ~Opening(v)
  BY <1>1, NoCalls
<1>5. /\ UNCHANGED <<startCount, countdown, woken, count, refs, args, owed, making, todo, ghost>>
      /\ node' = [node EXCEPT ![s] = "alive"]
      /\ head' = [head EXCEPT ![s] = IF s \in Deferred THEN Open(<<>>) ELSE Done]
      /\ nextWriter' = [nextWriter EXCEPT ![s][0] = Ready]
      /\ var' = [var EXCEPT ![s] = [live |-> TRUE, cur |-> s, port |-> 0, deferred |-> s \in Deferred]]
  BY DEF Create, Allocate
<1>6. /\ node'[s] = "alive" /\ nextWriter'[s][0] = Ready
      /\ var'[s] = [live |-> TRUE, cur |-> s, port |-> 0, deferred |-> s \in Deferred]
      /\ head'[s] = IF s \in Deferred THEN Open(<<>>) ELSE Done
      /\ \A u \in Nodes : u # s => /\ node'[u] = node[u] /\ nextWriter'[u] = nextWriter[u]
                                   /\ var'[u] = var[u] /\ head'[u] = head[u]
      /\ \A u \in Nodes, q \in Port : u # s \/ q # 0 => nextWriter'[u][q] = nextWriter[u][q]
  BY <1>2, <1>5, NodesApart DEF Core, TypeOK
<1>7. \A u \in Nodes : /\ u # s => (Finished(u)' <=> Finished(u))
                       /\ Finished(s)'
  BY <1>2, <1>5, <1>6 DEF Finished, Null, Ready
<1>8. \A u : Slots(u)' = Slots(u)
  BY <1>5, SlotsStay
<1>9. Steady /\ Owing
  <2>1. \A u \in Storage : nextWriter[u][0] # Null => nextWriter'[u][0] # Null
    BY <1>3, <1>6 DEF Nodes
  <2>2. \A u \in Nodes : head[u].tag = "done" => head'[u].tag = "done"
    BY <1>3, <1>6 DEF Open
  <2>3. \A u \in Nodes : node[u] # "unborn" => node'[u] # "unborn"
    BY <1>6
  <2> QED
    BY <1>5, <2>1, <2>2, <2>3, SteadyIf DEF Owing
<1>10. PICK fs : fs = <<>>
  OBVIOUS
<1>11. fs \in Seq(Frame) /\ DOMAIN fs = {} /\ \A P : Number(fs, P) = 0
  BY <1>10, NumberEmpty
<1>12. todo' = [todo EXCEPT ![x] = fs]
  BY <1>1, <1>2, <1>5, <1>10 DEF InCall, Core, TypeOK, FramesFit
<1>13. Upon(todo', todo, x, fs)
  BY <1>1, <1>11, <1>12, CallIs
<1>14. Placed'
  <2>1. Sits(x, fs, Ahead(x))
    BY <1>11 DEF Sits
  <2> QED
    BY <1>2, <1>5, <1>9, <1>11, <1>13, <2>1, PlacedUpon
<1>15. Lists' = Lists
  <2>1. ASSUME NEW u \in Nodes
        PROVE  (IF head'[u].tag = "open" THEN head'[u].arcs ELSE <<>>) = (IF head[u].tag = "open" THEN head[u].arcs ELSE <<>>)
    BY <1>3, <1>6 DEF Open, Done
  <2> QED
    BY <2>1 DEF Lists
<1>16. Linked'
  BY <1>9, <1>15, LinkedSame
<1>17. Bodies'
  <2>1. ASSUME NEW t \in Tasks
        PROVE  Staged(t)'
    <3>1. t \in Nodes /\ t # s
      BY <1>2, NodesApart
    <3> QED
      BY <1>5, <1>6, <3>1, StagedKept
  <2> QED
    BY <2>1 DEF Bodies
<1>18. Distinct'
  BY <1>5, DistinctSame
<1>19. Due'
  <2>1. ASSUME NEW u \in Tasks
        PROVE  Counted(u)'
    <3>1. HeldFor(Writer(u))' = HeldFor(Writer(u))
      <4>1. nextWriter[s][0] # Writer(u) /\ nextWriter'[s][0] # Writer(u)
        BY <1>3, <1>6 DEF Null, Ready, Writer
      <4>2. \A m \in Nodes : \A q \in Port :
              ((q \in Slots(m)' /\ countdown'[m][q] > 0 /\ nextWriter'[m][q] = Writer(u))
                <=> (q \in Slots(m) /\ countdown[m][q] > 0 /\ nextWriter[m][q] = Writer(u)))
        BY <1>5, <1>6, <1>8, <4>1
      <4>3. Writer(u)' = Writer(u)
        BY DEF Writer
      <4> QED
        BY <4>2, <4>3, HeldForSame
    <3>2. Coming(u)' = Coming(u)
      BY <1>5, <1>15, <3>1, NoticeOps DEF Coming
    <3> QED
      BY <1>5, <3>2, CountedKept
  <2> QED
    BY <2>1 DEF Due
<1>20. Stores'
  <2>1. ASSUME NEW r \in Storage
        PROVE  Stored(r)'
    <3>1. CASE r = s
      BY <1>2, <1>6, <1>7, <3>1 DEF Stored, Open, Done
    <3>2. CASE r # s
      <4>1. Stored(r) /\ r \in Nodes
        BY DEF Core, Stores, Nodes
      <4>2. node'[r] = node[r] /\ head'[r] = head[r] /\ (Finished(r)' <=> Finished(r))
        BY <1>6, <1>7, <3>2, <4>1
      <4>3. Redirected(r)' <=> Redirected(r)
        BY Zenon, <1>5, <4>2 DEF Redirected, Writes, PortOf, Redirect, FlowBack
      <4> QED
        BY <1>5, <4>1, <4>2, <4>3 DEF Stored, Open, Done
    <3> QED
      BY <3>1, <3>2
  <2> QED
    BY <2>1 DEF Stores
<1>21. \A m \in Nodes : \A q \in Port : Vacant(m, q) => Vacant(m, q)'
  <2>1. ASSUME NEW m \in Nodes, NEW q \in Port, Vacant(m, q)
        PROVE  Vacant(m, q)'
    <3>1. CASE m = s /\ q = 0
      BY <1>6, <3>1 DEF Vacant, Openable, Ready
    <3>2. CASE m # s \/ q # 0
      BY <1>6, <2>1, <3>2 DEF Vacant, Openable, Null, Ready
    <3> QED
      BY <3>1, <3>2
  <2> QED
    BY <2>1
<1>22. Homes'
  <2>1. Settled(s)'
    <3>1. Vacant(s, 0)'
      BY <1>6 DEF Vacant, Openable, Ready
    <3>2. var'[s].live /\ var'[s].cur = s /\ var'[s].port = 0
      BY <1>6
    <3>3. InUse(s)' /\ SlotOf(s)' = <<s, 0>>
      BY <3>2 DEF InUse, SlotOf
    <3>4. Vacant(var[s].cur, var[s].port)'
      BY <3>1, <3>2 DEF Vacant
    <3> QED
      BY <1>6, <3>3, <3>4 DEF Settled
  <2>2. ASSUME NEW u \in Nodes, u # s
        PROVE  Settled(u)'
    <3>1. Settled(u)
      BY DEF Core, Homes
    <3>2. var'[u] = var[u] /\ node'[u] = node[u]
      BY <1>6, <2>2
    <3>3. InUse(u)' <=> InUse(u)
      BY <1>5, <3>2 DEF InUse, Ahead, F
    <3>4. SlotOf(u)' = SlotOf(u)
      BY <3>2 DEF SlotOf
    <3>5. Vacant(var[u].cur, var[u].port) => Vacant(var[u].cur, var[u].port)'
      <4>1. PICK m \in Nodes, q \in Port : m = var[u].cur /\ q = var[u].port
        BY DEF Core, TypeOK, OoxVar
      <4>2. Vacant(m, q) => Vacant(m, q)'
        BY <1>21
      <4>3. var'[u].cur = m /\ var'[u].port = q
        BY <3>2, <4>1
      <4> QED
        BY <4>1, <4>2, <4>3 DEF Vacant
    <3>6. Writes(var[u].cur)' = Writes(var[u].cur) /\ \A i : PortOf(var[u].cur, i)' = PortOf(var[u].cur, i)
      BY <1>5, <3>2 DEF Writes, PortOf
    <3> QED
      BY <1>5, <3>1, <3>2, <3>3, <3>4, <3>5, <3>6 DEF Settled, New
  <2> QED
    BY <2>1, <2>2 DEF Homes
<1>23. \A y \in Clients : ~InRun(y)' /\ \A v : ~Reads(y, v)' /\ ~Modifies(y, v)'
  <2>1. \A y \in Clients : ~InRun(y)'
    BY <1>4, <1>5 DEF InRun
  <2> QED
    BY <2>1 DEF Reads, Modifies, CallArgs
<1>24. Firsts'
  <2>1. Put(s)'
    <3>1. SlotOf(s)' = <<s, 0>> /\ (var'[s].deferred <=> s \in Deferred)
      <4>1. var'[s].cur = s /\ var'[s].port = 0
        BY <1>6
      <4>2. var'[s].deferred = (s \in Deferred)
        BY <1>6
      <4> QED
        BY <4>1, <4>2 DEF SlotOf
    <3>2. head'[s].tag # "redirect" /\ (s \in Deferred => head'[s].tag = "open") /\ last'[s] = 0
      BY <1>3, <1>5, <1>6 DEF Open, Done
    <3> QED
      BY <1>23, <3>1, <3>2 DEF Put
  <2>2. ASSUME NEW u \in Nodes, u # s
        PROVE  Put(u)'
    <3>1. Put(u) /\ ~Opening(u)
      BY <1>4 DEF Core, Firsts
    <3>2. var'[u] = var[u] /\ head'[u] = head[u] /\ SlotOf(u)' = SlotOf(u)
      BY <1>6, <2>2 DEF SlotOf
    <3> QED
      BY <1>5, <1>23, <3>1, <3>2 DEF Put
  <2> QED
    BY <2>1, <2>2 DEF Firsts
<1>25. Callers'
  <2>1. ASSUME NEW y \in Clients
        PROVE  Called(y)'
    <3>1. making'[y] = NoTask /\ Ahead(y)' = Ahead(y) /\ ~InRun(y)'
      BY <1>4, <1>5, <1>23 DEF Ahead
    <3> QED
      BY <1>4, <3>1 DEF Called
  <2> QED
    BY <2>1 DEF Callers
<1>26. Slots(s) = {0}
  BY <1>2 DEF Slots
<1>27. Tallied(s, 0)'
  <2>1. /\ Held(s, 0) = 0 /\ \A y \in Threads : \A f \in Ahead(y) : f \notin Marks(s, 0)
    BY <1>2, <1>3, <1>26, Untouched
  <2>2. Count(todo, Shares(s, 0)) = 0 /\ Count(todo, Outs(s, 0)) = 0
    <3>1. \A y \in Threads : Ahead(y) \cap Shares(s, 0) = {} /\ Ahead(y) \cap Outs(s, 0) = {}
      BY <2>1, MarksAre
    <3> QED
      BY <3>1, TodoNone DEF Core
  <2>3. Held(s, 0)' = 1
    <3>1. BackOnly(s, 0)' = BackOnly(s, 0) /\ Holders(s, 0)' = Holders(s, 0) /\ Ready' = Ready
      BY MarksAre DEF Ready
    <3>2. Count(Lists, {BackOnly(s, 0)}) \in Nat /\ Count(todo, Holders(s, 0)) \in Nat
      BY CountNat DEF Core
    <3>3. nextWriter[s][0] # Ready
      BY <1>3 DEF Null, Ready
    <3> QED
      BY <1>5, <1>6, <1>15, <2>1, <3>1, <3>2, <3>3 DEF Held
  <2>4. Exact(s, 0)'
    <3>1. \A y \in Threads : Ahead(y)' \cap Shares(s, 0) = {}
      BY <1>5, <2>1, MarksAre DEF Ahead
    <3> QED
      BY <1>3, <1>5, <2>3, <3>1, MarksAre DEF Exact
  <2>5. Named(nextWriter[s][0])'
    BY <1>6 DEF Named, Ready
  <2>6. nextWriter'[s][0] # Null' /\ Finished(s)'
    BY <1>2, <1>6, <1>7 DEF Null, Ready
  <2> QED
    BY <1>2, <1>5, <2>2, <2>4, <2>5, <2>6, MarksAre DEF Tallied
<1>28. Tallies'
  <2>1. ASSUME NEW m \in Nodes, NEW q \in Slots(m), m # s
        PROVE  Tallied(m, q)'
    <3>1. \A P \in SUBSET Marks(m, q) : Count(todo', P) = Count(todo, P)
      BY <1>5
    <3>2. \A y \in Threads : Ahead(y)' \cap Marks(m, q) \subseteq Ahead(y)
      BY <1>5 DEF Ahead
    <3>3. countdown'[m][q] = countdown[m][q] /\ nextWriter'[m][q] = nextWriter[m][q]
      BY <1>5, <1>6, <2>1
    <3>4. ASSUME m \in Tasks
          PROVE  /\ count'[m][q] = count[m][q]
                 /\ Number(todo'[m], Turning(m, q)) <= Number(todo[m], Turning(m, q))
                 /\ head'[m].tag = "open" => head[m].tag = "open"
      <4>1. todo'[m] = todo[m] /\ todo[m] \in Seq(Frame)
        BY <1>5, <3>4, NodesApart, Families DEF Core
      <4>2. Number(todo[m], Turning(m, q)) \in Nat
        BY <4>1, NumberType
      <4> QED
        BY <1>5, <1>6, <2>1, <4>1, <4>2
    <3>5. (Finished(m)' <=> Finished(m)) /\ Count(Lists', {BackOnly(m, q)}) = Count(Lists, {BackOnly(m, q)})
      BY <1>7, <1>15, <2>1
    <3>6. \A u \in Nodes : node[u] # "unborn" => node'[u] # "unborn"
      BY <1>6
    <3> QED
      BY <3>1, <3>2, <3>3, <3>4, <3>5, <3>6, TalliedKept
  <2> QED
    BY <1>8, <1>26, <1>27, <2>1 DEF Tallies
<1> QED
  BY <1>14, <1>16, <1>17, <1>18, <1>19, <1>20, <1>22, <1>24, <1>25, <1>28 DEF Core

(***************************************************************************)
(* A task is launched                                                      *)
(***************************************************************************)
(* The frames of a call. *)
LaunchFrames(t, n) == [i \in 1..n |-> F("arg", t, i, 0)] \o <<F("bind", t, 0, 0), F("return", t, 0, 0)>>

LEMMA LaunchFramesAre ==
  ASSUME NEW t \in Tasks, NEW n \in 0..MaxPort
  PROVE  LET fs == LaunchFrames(t, n) IN
         /\ fs \in Seq(Frame) /\ Len(fs) = n + 2 /\ DOMAIN fs = 1..(n + 2)
         /\ \A i \in 1..n : fs[i] = F("arg", t, i, 0)
         /\ fs[n + 1] = F("bind", t, 0, 0) /\ fs[n + 2] = F("return", t, 0, 0)
         /\ \A P : (\A i \in 1..n : F("arg", t, i, 0) \notin P) =>
                     Number(fs, P) = One(F("bind", t, 0, 0) \in P) + One(F("return", t, 0, 0) \in P)
         /\ Number(fs, Asks) = n
<1>1. PICK b, r : b = F("bind", t, 0, 0) /\ r = F("return", t, 0, 0)
  OBVIOUS
<1>2. b \in Frame /\ r \in Frame /\ b.op = "bind" /\ r.op = "return"
  BY <1>1, NodesApart DEF F, Frame, SetupOps
<1>3. PICK c : c = [i \in 1..n |-> F("arg", t, i, 0)]
  OBVIOUS
<1>4. n \in Nat /\ \A i \in 1..n : F("arg", t, i, 0) \in Frame /\ F("arg", t, i, 0).op = "arg"
  <2>1. n \in Nat /\ \A i \in 1..n : i \in Port
    BY NodesApart DEF Port
  <2> QED
    BY <2>1, NodesApart DEF F, Frame, SetupOps
<1>5. c \in Seq(Frame) /\ Len(c) = n /\ DOMAIN c = 1..n /\ \A i \in 1..n : c[i] = F("arg", t, i, 0)
  BY <1>3, <1>4
<1>6. PICK d \in Seq(Frame) : d = <<b, r>>
  <2>1. <<b, r>> \in Seq(Frame)
    BY <1>2, Short
  <2> QED
    BY <2>1
<1>7. Len(d) = 2 /\ d[1] = b /\ d[2] = r
  BY <1>6
<1>8. PICK fs : fs = c \o d
  OBVIOUS
<1>9. /\ fs \in Seq(Frame) /\ Len(fs) = n + 2 /\ DOMAIN fs = 1..(n + 2)
      /\ \A i \in 1..n : fs[i] = F("arg", t, i, 0)
      /\ fs[n + 1] = b /\ fs[n + 2] = r
  <2>1. fs \in Seq(Frame) /\ Len(fs) = n + 2
    <3>1. fs \in Seq(Frame) /\ Len(fs) = Len(c) + Len(d)
      BY <1>5, <1>6, <1>8
    <3> QED
      BY <3>1, <1>5, <1>7
  <2>2. DOMAIN fs = 1..(n + 2)
    BY <2>1
  <2>3. \A i \in 1..n : fs[i] = c[i]
    BY <1>4, <1>5, <1>7, <1>8
  <2>4. fs[n + 1] = d[1] /\ fs[n + 2] = d[2]
    <3>1. \A k \in 1..(Len(c) + Len(d)) : fs[k] = IF k <= Len(c) THEN c[k] ELSE d[k - Len(c)]
      BY <1>5, <1>6, <1>8
    <3>2. fs[n + 1] = d[(n + 1) - n] /\ fs[n + 2] = d[(n + 2) - n]
      BY <3>1, <1>4, <1>5, <1>7
    <3>3. (n + 1) - n = 1 /\ (n + 2) - n = 2
      BY <1>4
    <3> QED
      BY <3>2, <3>3
  <2> QED
    BY <1>5, <1>7, <2>1, <2>2, <2>3, <2>4
<1>10. fs = LaunchFrames(t, n)
  BY <1>1, <1>3, <1>6, <1>8 DEF LaunchFrames
<1>11. \A P : Number(fs, P) = Number(c, P) + One(b \in P) + One(r \in P)
  <2>1. ASSUME NEW P
        PROVE  Number(fs, P) = Number(c, P) + One(b \in P) + One(r \in P)
    <3>1. Number(fs, P) = Number(c, P) + Number(d, P)
      BY <1>5, <1>8, NumberCat
    <3>2. Number(d, P) = One(b \in P) + One(r \in P)
      BY <1>6, NumberTwo
    <3>3. Number(c, P) \in Nat
      BY <1>5, NumberType
    <3> QED
      BY <3>1, <3>2, <3>3 DEF One
  <2> QED
    BY <2>1
<1>12. \A P : (\A i \in 1..n : F("arg", t, i, 0) \notin P) => Number(fs, P) = One(b \in P) + One(r \in P)
  <2>1. ASSUME NEW P, \A i \in 1..n : F("arg", t, i, 0) \notin P
        PROVE  Number(fs, P) = One(b \in P) + One(r \in P)
    <3>1. \A i \in DOMAIN c : c[i] \notin P
      BY <1>5, <2>1
    <3>2. Number(c, P) = 0
      BY <1>5, <3>1, NumberNone
    <3> QED
      BY <1>11, <3>2 DEF One
  <2> QED
    BY <2>1
<1>13. Number(fs, Asks) = n
  <2>1. \A i \in DOMAIN c : c[i] \in Asks
    BY <1>4, <1>5, AsksAre
  <2>2. Number(c, Asks) = n
    BY <1>5, <2>1, NumberAll
  <2>3. b \notin Asks /\ r \notin Asks
    BY <1>2, AsksAre
  <2> QED
    BY <1>4, <1>11, <2>2, <2>3 DEF One
<1> QED
  BY <1>1, <1>9, <1>10, <1>12, <1>13

(* They are laid out as they should be. *)
LEMMA LaunchLies ==
  ASSUME NEW x \in Clients, NEW t \in Tasks, NEW n \in 0..MaxPort, making'[x] = t, NEW i \in 1..(n + 2)
  PROVE  Lies(x, LaunchFrames(t, n), i)' /\ Fits(LaunchFrames(t, n)[i])'
<1>1. PICK s : s = LaunchFrames(t, n)
  OBVIOUS
<1>2. /\ s \in Seq(Frame) /\ Len(s) = n + 2 /\ n \in Nat
      /\ \A k \in 1..n : s[k] = F("arg", t, k, 0)
      /\ s[n + 1] = F("bind", t, 0, 0) /\ s[n + 2] = F("return", t, 0, 0)
  BY <1>1, LaunchFramesAre, NodesApart
<1>3. BindOf(x)' = s[n + 1] /\ ReturnOf(x)' = s[n + 2]
  BY <1>2 DEF BindOf, ReturnOf, F
<1>4. After(s, i) = {s[k] : k \in (i + 1)..(n + 2)}
  BY <1>2 DEF After
<1>5. CASE i \in 1..n
  <2>1. s[i].op = "arg" /\ s[i].node = t /\ s[i].port = i /\ s[i].k = 0
    <3>1. s[i] = F("arg", t, i, 0)
      BY <1>2, <1>5
    <3> QED
      BY <3>1 DEF F
  <2>2. s[n + 1] \in After(s, i)
    BY <1>2, <1>4, <1>5
  <2>3. ASSUME NEW g \in After(s, i), g.op = "arg"
        PROVE  i < g.port
    <3>1. PICK k \in (i + 1)..(n + 2) : g = s[k]
      BY <1>4, <2>3
    <3>2. s[n + 1].op # "arg" /\ s[n + 2].op # "arg"
      BY <1>2 DEF F
    <3>3. k \in 1..n
      BY <1>2, <1>5, <2>3, <3>1, <3>2
    <3>4. g.port = k
      <4>1. g = F("arg", t, k, 0)
        BY <1>2, <3>1, <3>3
      <4> QED
        BY <4>1 DEF F
    <3> QED
      BY <1>2, <1>5, <3>1, <3>4
  <2>4. Lies(x, s, i)'
    BY <1>3, <2>1, <2>2, <2>3 DEF Lies, Calling, Asking, BodyOps
  <2>5. Fits(s[i])'
    BY <2>1 DEF Fits
  <2> QED
    BY <1>1, <2>4, <2>5 DEF LaunchFrames, F
<1>6. CASE i = n + 1
  <2>1. s[i].op = "bind"
    BY <1>2, <1>6 DEF F
  <2>2. s[n + 2] \in After(s, i)
    BY <1>2, <1>4, <1>6
  <2>3. Lies(x, s, i)'
    BY <1>3, <1>6, <2>1, <2>2 DEF Lies, Calling, Asking, BodyOps
  <2>4. Fits(s[i])'
    BY <2>1 DEF Fits
  <2> QED
    BY <1>1, <2>3, <2>4 DEF LaunchFrames, F
<1>7. CASE i = n + 2
  <2>1. s[i].op = "return"
    BY <1>2, <1>7 DEF F
  <2>2. Lies(x, s, i)'
    BY <1>2, <1>3, <1>7, <2>1 DEF Lies, Calling, Asking, BodyOps
  <2>3. Fits(s[i])'
    BY <2>1 DEF Fits
  <2> QED
    BY <1>1, <2>2, <2>3 DEF LaunchFrames, F
<1> QED
  BY <1>2, <1>5, <1>6, <1>7

(* When an argument is the one that names u. *)
LEMMA ArgIs ==
  ASSUME NEW e \in [v : Nodes, w : BOOLEAN], NEW u, NEW c
  PROVE  /\ c = [v |-> u, w |-> TRUE] => (e = c <=> (e.v = u /\ e.w))
         /\ c = [v |-> u, w |-> FALSE] => (e = c <=> (e.v = u /\ ~e.w))
<1>1. PICK d \in Nodes, z \in BOOLEAN : e = [v |-> d, w |-> z]
  OBVIOUS
<1>2. e.v = d /\ e.w = z
  BY <1>1
<1>3. e.w <=> z = TRUE
  BY <1>2
<1>4. e = [v |-> u, w |-> TRUE] <=> (d = u /\ z = TRUE)
  BY <1>1
<1>5. e = [v |-> u, w |-> FALSE] <=> (d = u /\ z = FALSE)
  BY <1>1
<1> QED
  BY <1>2, <1>3, <1>4, <1>5

LEMMA LaunchCore ==
  ASSUME Core, TypeOK', NEW x \in Clients, NEW t \in Tasks, NEW a \in ArgLists[t], Launch(x, t, a)
  PROVE  Core'
<1> USE DEF ghost
<1>1. ~InCall(x) /\ phase[t] = "idle" /\ Usable(x, a)
  BY DEF Launch
<1>2. /\ x \in Threads /\ todo[x] = <<>> /\ Ahead(x) = {} /\ ~InRun(x) /\ \A u : ~Reads(x, u) /\ ~Modifies(x, u)
      /\ t \in Nodes /\ t \in Threads /\ t # x /\ t \notin Storage /\ t # NoTask
  <2>1. t # x /\ t \notin Storage /\ t # NoTask
    BY ConstantsAssumption DEF NoTask
  <2> QED
    BY <1>1, <2>1, AtRest, NodesApart DEF Core
<1>3. PICK n \in 0..MaxPort : n = Len(a)
  BY ConstantsAssumption
<1>4. /\ a \in Seq([v : Nodes, w : BOOLEAN]) /\ DOMAIN a = 1..n /\ n \in Nat
      /\ \A i \in 1..n : a[i].v \in Nodes /\ a[i].w \in BOOLEAN /\ a[i] \in [v : Nodes, w : BOOLEAN]
      /\ \A i \in 1..n : a[i] = [v |-> a[i].v, w |-> a[i].w]
  <2>1. a \in Seq([v : Nodes, w : BOOLEAN])
    BY ConstantsAssumption
  <2>2. n \in Nat /\ DOMAIN a = 1..n
    BY <1>3, <2>1
  <2>3. \A i \in 1..n : a[i] \in [v : Nodes, w : BOOLEAN]
    BY <2>1, <2>2, Member
  <2> QED
    BY <2>1, <2>2, <2>3
<1>5. /\ node[t] = "unborn" /\ todo[t] = <<>> /\ args[t] = <<>> /\ startCount[t] = 0 /\ owed[t] = 0
      /\ head[t].tag = "open" /\ ~Finished(t)
      /\ \A q \in Port : nextWriter[t][q] = Null /\ countdown[t][q] = 1
  BY <1>1 DEF Core, Bodies, Staged, Finished
<1>6. Writes(t) = {} /\ Slots(t) = {0}
  <2>1. Writes(t) = {}
    BY <1>5 DEF Writes
  <2> QED
    BY <2>1, FS_EmptySet DEF Slots
<1>7. ~InUse(t) /\ var[t] = New(t) /\ ~var[t].live
  BY <1>2, <1>5 DEF Core, Homes, Settled, New
<1>8. PICK fs : fs = LaunchFrames(t, n)
  OBVIOUS
<1>9. PICK b, r : b = F("bind", t, 0, 0) /\ r = F("return", t, 0, 0)
  OBVIOUS
<1>10. b.op = "bind" /\ b.node = t /\ b \in Frame /\ r.op = "return" /\ r.node = t
  BY <1>2, <1>9, NodesApart DEF F, Frame, SetupOps
<1>11. /\ fs \in Seq(Frame) /\ Len(fs) = n + 2 /\ DOMAIN fs = 1..(n + 2)
       /\ \A i \in 1..n : fs[i] = F("arg", t, i, 0)
       /\ fs[n + 1] = b /\ fs[n + 2] = r
       /\ \A P : (\A i \in 1..n : F("arg", t, i, 0) \notin P) => Number(fs, P) = One(b \in P) + One(r \in P)
       /\ Number(fs, Asks) = n
  BY <1>8, <1>9, LaunchFramesAre
<1>12. \A i \in DOMAIN fs : (fs[i] = b \/ fs[i] = r \/ fs[i].op = "arg") /\ fs[i].op \in {"arg", "bind", "return"}
  <2>1. \A i \in 1..n : fs[i].op = "arg"
    <3>1. \A i : F("arg", t, i, 0).op = "arg"
      BY DEF F
    <3> QED
      BY <1>11, <3>1
  <2> QED
    BY <1>4, <1>10, <1>11, <2>1
<1>13. \A P : (\A f \in P : f.op \notin {"arg", "return"}) => Number(fs, P) = One(b \in P)
  <2>1. ASSUME NEW P, \A f \in P : f.op \notin {"arg", "return"}
        PROVE  Number(fs, P) = One(b \in P)
    <3>1. \A i \in 1..n : F("arg", t, i, 0) \notin P
      BY <2>1 DEF F
    <3>2. r \notin P
      BY <1>10, <2>1
    <3> QED
      BY <1>11, <3>1, <3>2 DEF One
  <2> QED
    BY <2>1
<1>14. /\ UNCHANGED <<head, life, nextWriter, countdown, woken, count, refs, var, owed, mem>>
       /\ node' = [node EXCEPT ![t] = "alive"]
       /\ args' = [args EXCEPT ![t] = a]
       /\ making' = [making EXCEPT ![x] = t]
       /\ startCount' = [startCount EXCEPT ![t] = StartMask]
       /\ todo' = [todo EXCEPT ![x] = fs]
       /\ phase' = [phase EXCEPT ![t] = "pending"]
       /\ last' = [v \in Nodes |-> IF v = t THEN 1
                                   ELSE IF \E i \in DOMAIN a : a[i] = [v |-> v, w |-> TRUE]
                                        THEN last[v] + 1 ELSE last[v]]
  BY <1>3, <1>8 DEF Launch, LaunchFrames
<1>15. /\ node'[t] = "alive" /\ args'[t] = a /\ making'[x] = t /\ startCount'[t] = StartMask
       /\ phase'[t] = "pending"
       /\ \A u \in Nodes : u # t => node'[u] = node[u]
       /\ \A u \in Tasks : u # t => /\ args'[u] = args[u] /\ startCount'[u] = startCount[u]
                                    /\ phase'[u] = phase[u]
       /\ \A y \in Clients : y # x => making'[y] = making[y]
  BY <1>2, <1>14 DEF Core, TypeOK
<1>16. /\ todo'[x] = fs /\ Ahead(x)' = {fs[i] : i \in DOMAIN fs}
       /\ \A y \in Threads : y # x => todo'[y] = todo[y] /\ Ahead(y)' = Ahead(y)
       /\ \A u \in Tasks : todo'[u] = todo[u]
       /\ \A P : /\ Count(todo', P) \in Nat /\ Count(todo, P) \in Nat /\ Number(fs, P) \in Nat
                 /\ Count(todo', P) = Count(todo, P) + Number(fs, P)
  BY <1>1, <1>11, <1>14, CallIs
<1>17. \A u : Finished(u)' <=> Finished(u)
  <2>1. \A u \in Tasks : Finished(u)' <=> Finished(u)
    BY <1>1, <1>15 DEF Finished
  <2> QED
    BY <1>14, <2>1 DEF Finished, Null
<1>18. /\ \A u \in Nodes : u # t => Slots(u)' = Slots(u) /\ Writes(u)' = Writes(u) /\ \A i : PortOf(u, i)' = PortOf(u, i)
       /\ Writes(t)' = {i \in 1..n : a[i].w}
  <2>1. \A u \in Tasks : u # t => Slots(u)' = Slots(u) /\ Writes(u)' = Writes(u) /\ \A i : PortOf(u, i)' = PortOf(u, i)
    BY <1>15, BodySame
  <2>2. \A u : u \notin Tasks => Slots(u)' = Slots(u)
    BY DEF Slots
  <2>3. \A u \in Nodes : u \notin Tasks => args'[u] = args[u]
    BY <1>14 DEF Core, TypeOK
  <2>4. \A u \in Nodes : u \notin Tasks => Writes(u)' = Writes(u)
    BY <2>3 DEF Writes
  <2>5. \A u \in Nodes : u \notin Tasks => \A i : PortOf(u, i)' = PortOf(u, i)
    BY <2>4 DEF PortOf
  <2>6. Writes(t)' = {i \in 1..n : a[i].w}
    BY <1>4, <1>15 DEF Writes
  <2> QED
    BY <2>1, <2>2, <2>4, <2>5, <2>6
<1>19. 0 \in Slots(t)' /\ Slots(t)' \subseteq Port /\ \A i \in Writes(t)' : PortOf(t, i)' \in Port
  <2>1. PICK W : W = {i \in 1..n : a[i].w}
    OBVIOUS
  <2>2. IsFiniteSet(1..n) /\ Cardinality(1..n) = n
    BY <1>4, FS_Interval
  <2>3. \A V \in SUBSET W : Cardinality(V) \in Nat /\ Cardinality(V) <= n
    <3>1. ASSUME NEW V \in SUBSET W
          PROVE  Cardinality(V) \in Nat /\ Cardinality(V) <= n
      <4>1. V \subseteq 1..n
        BY <2>1
      <4>2. IsFiniteSet(V) /\ Cardinality(V) <= Cardinality(1..n)
        BY <2>2, <4>1, FS_Subset
      <4> QED
        BY <2>2, <4>2, FS_CardinalityType
    <3> QED
      BY <3>1
  <2>4. Slots(t)' = 0..Cardinality(W) /\ \A i : PortOf(t, i)' = Cardinality({j \in W : j <= i})
    BY <1>18, <2>1 DEF Slots, PortOf
  <2>5. MaxPort \in Nat /\ n <= MaxPort
    BY <1>3, ConstantsAssumption
  <2>6. Cardinality(W) \in Nat /\ Cardinality(W) <= n
    BY <2>3
  <2>7. \A i : {j \in W : j <= i} \in SUBSET W
    OBVIOUS
  <2>8. \A i : Cardinality({j \in W : j <= i}) \in 0..MaxPort
    BY <2>3, <2>5, <2>7, <1>4
  <2>9. Slots(t)' \subseteq Port /\ 0 \in Slots(t)'
    BY <1>4, <2>4, <2>5, <2>6 DEF Port
  <2> QED
    BY <2>4, <2>8, <2>9 DEF Port
<1>20. Steady /\ Owing
  <2>1. \A u \in Nodes : Slots(u) \subseteq Slots(u)' /\ (Finished(u) => Finished(u)' /\ Slots(u)' = Slots(u))
    BY <1>5, <1>6, <1>17, <1>18, <1>19
  <2>2. \A u \in Nodes : node[u] # "unborn" => node'[u] # "unborn"
    BY <1>5, <1>15
  <2> QED
    BY <1>14, <2>1, <2>2 DEF Steady, Owing
<1>21. \A y \in Clients : making[y] # NoTask => making[y] \in Tasks /\ making[y] \in Nodes /\ making[y] # t /\ phase[making[y]] # "idle"
  <2>1. ASSUME NEW y \in Clients, making[y] # NoTask
        PROVE  making[y] \in Tasks /\ phase[making[y]] # "idle"
    BY <2>1 DEF Core, TypeOK, Callers, Called
  <2> QED
    BY <1>1, <2>1, NodesApart
<1>22. Placed'
  <2>1. ASSUME NEW y \in Threads, NEW i \in DOMAIN todo'[y], y # x
        PROVE  Fits(todo[y][i])' /\ Lies(y, todo[y], i)'
    <3>1. PICK s : s = todo[y]
      OBVIOUS
    <3>2. todo'[y] = s /\ i \in DOMAIN s
      BY <1>16, <2>1, <3>1
    <3>3. PICK f : f = s[i]
      OBVIOUS
    <3>4. f \in Ahead(y) /\ f \in FrameOf(y)
      <4>1. f \in Ahead(y)
        BY <3>1, <3>2, <3>3 DEF Ahead
      <4> QED
        BY <4>1, AheadFits DEF Core
    <3>5. Fits(f)'
      BY <1>20, <3>4, FitsKept
    <3>6. Lies(y, s, i)
      BY <3>1, <3>2 DEF Core, Placed
    <3>7. Lies(y, s, i)'
      <4>1. CASE f.op \in SetupOps
        <5>1. y \in Clients /\ making[y] \in Tasks /\ phase[making[y]] # "idle"
          BY <3>4, <4>1 DEF FrameOf
        <5>2. making'[y] = making[y] /\ making[y] # t
          BY <1>1, <1>15, <2>1, <5>1
        <5>3. Slots(making[y])' = Slots(making[y])
          BY <1>15, <5>1, <5>2, BodySame
        <5>4. f.op \notin BodyOps /\ f.op \notin {"out", "flow"}
          BY <4>1 DEF SetupOps, BodyOps
        <5>5. BindOf(y)' = BindOf(y) /\ ReturnOf(y)' = ReturnOf(y)
          BY <5>2 DEF BindOf, ReturnOf, F
        <5>6. f.op = "move" => f.port \in Slots(making[y])'
          BY <3>3, <3>6, <5>3 DEF Lies
        <5> QED
          BY <3>3, <3>6, <5>2, <5>5, <5>6, <5>4 DEF Lies
      <4>2. CASE f.op \notin SetupOps
        <5>1. f.op \notin Calling /\ f.op \notin {"arg", "move", "bind", "return"}
          BY <4>2 DEF SetupOps, Calling, Asking
        <5>2. y # t
          BY <1>5, <3>1, <3>2
        <5>3. y \in Tasks => Slots(y)' = Slots(y)
          BY <1>15, <5>2, BodySame
        <5>4. f.op \in BodyOps => y \in Tasks
          BY <3>3, <3>6 DEF Lies
        <5>5. f.op \in {"out", "flow"} => f.op \in BodyOps
          BY DEF BodyOps
        <5> QED
          BY <3>3, <3>6, <5>1, <5>3, <5>4, <5>5 DEF Lies
      <4> QED
        BY <4>1, <4>2
    <3> QED
      BY <3>2, <3>3, <3>5, <3>7 DEF Fits, Finished, Slots, Writes, Protection, Lies, BindOf, ReturnOf
  <2>2. ASSUME NEW i \in DOMAIN todo'[x]
        PROVE  Fits(todo[x][i])' /\ Lies(x, todo[x], i)'
    <3>1. todo'[x] = fs /\ i \in 1..(n + 2)
      BY <1>11, <1>16, <2>2
    <3>2. Lies(x, LaunchFrames(t, n), i)' /\ Fits(LaunchFrames(t, n)[i])'
      BY <1>15, <3>1, LaunchLies
    <3>3. todo'[x] = LaunchFrames(t, n)'
      BY <1>8, <3>1 DEF LaunchFrames, F
    <3> QED
      BY <3>2, <3>3 DEF Fits, Finished, Slots, Writes, Protection, Lies, BindOf, ReturnOf
  <2> QED
    BY <2>1, <2>2 DEF Placed
<1>23. Lists' = Lists
  BY <1>14 DEF Lists
<1>24. Linked'
  BY <1>20, <1>23, LinkedSame
<1>25. Bodies'
  <2>1. ASSUME NEW u \in Tasks, u # t
        PROVE  Staged(u)'
    <3>1. u \in Nodes
      BY NodesApart
    <3> QED
      BY <1>14, <1>15, <1>16, <2>1, <3>1, StagedKept
  <2>2. Staged(t)'
    <3>1. startCount'[t] # 0
      BY <1>15 DEF StartMask
    <3>2. todo'[t] = <<>> /\ head'[t] = head[t]
      BY <1>5, <1>14, <1>16
    <3> QED
      BY <1>5, <1>15, <3>1, <3>2 DEF Staged
  <2> QED
    BY <2>1, <2>2 DEF Bodies
<1>26. Distinct'
  <2>1. ASSUME NEW u \in Tasks
        PROVE  Apart(u)'
    <3>1. CASE u # t
      BY <1>15, <3>1 DEF Core, Distinct, Apart
    <3>2. CASE u = t
      BY <1>1, <1>15, <3>2 DEF Usable, Apart
    <3> QED
      BY <3>1, <3>2
  <2> QED
    BY <2>1 DEF Distinct
<1>27. \A u \in Tasks : HeldFor(Writer(u))' = HeldFor(Writer(u))
  <2>1. ASSUME NEW u \in Tasks
        PROVE  HeldFor(Writer(u))' = HeldFor(Writer(u))
    <3>1. \A q \in Port : nextWriter[t][q] # Writer(u)
      BY <1>5 DEF Null, Writer
    <3>2. \A m \in Nodes : \A q \in Port :
            ((q \in Slots(m)' /\ countdown'[m][q] > 0 /\ nextWriter'[m][q] = Writer(u))
              <=> (q \in Slots(m) /\ countdown[m][q] > 0 /\ nextWriter[m][q] = Writer(u)))
      <4>1. ASSUME NEW m \in Nodes, NEW q \in Port
            PROVE  (q \in Slots(m)' /\ countdown'[m][q] > 0 /\ nextWriter'[m][q] = Writer(u))
                     <=> (q \in Slots(m) /\ countdown[m][q] > 0 /\ nextWriter[m][q] = Writer(u))
        <5>1. CASE m = t
          BY <1>14, <3>1, <5>1
        <5>2. CASE m # t
          BY <1>14, <1>18, <5>2
        <5> QED
          BY <5>1, <5>2
      <4> QED
        BY <4>1
    <3>3. Writer(u)' = Writer(u)
      BY DEF Writer
    <3> QED
      BY <3>2, <3>3, HeldForSame
  <2> QED
    BY <2>1
<1>28. \A u \in Tasks : /\ Count(todo', Notices(u)) = Count(todo, Notices(u))
                        /\ u # t => Count(todo', Protecting(u)) = Count(todo, Protecting(u))
                        /\ Coming(u)' = Coming(u)
  <2>1. ASSUME NEW u \in Tasks
        PROVE  /\ Count(todo', Notices(u)) = Count(todo, Notices(u))
               /\ u # t => Count(todo', Protecting(u)) = Count(todo, Protecting(u))
    <3>1. Number(fs, Notices(u)) = One(b \in Notices(u)) /\ Number(fs, Protecting(u)) = One(b \in Protecting(u))
      <4>1. \A f \in Notices(u) : f.op \notin {"arg", "return"}
        BY DEF Notices
      <4>2. \A f \in Protecting(u) : f.op \notin {"arg", "return"}
        BY DEF Protecting
      <4> QED
        BY <1>13, <4>1, <4>2
    <3>2. b \notin Notices(u) /\ (u # t => b \notin Protecting(u))
      BY <1>10 DEF Notices, Protecting
    <3> QED
      BY <1>16, <3>1, <3>2 DEF One
  <2>2. \A u \in Tasks : Coming(u)' = Coming(u)
    BY <1>23, <1>27, <2>1, NoticeOps DEF Coming
  <2> QED
    BY <2>1, <2>2
<1>29. Due'
  <2>1. ASSUME NEW u \in Tasks, u # t
        PROVE  Counted(u)'
    BY <1>14, <1>15, <1>28, <2>1, CountedKept
  <2>2. Counted(t)'
    <3>1. Counted(t) /\ Coming(t) \in Nat
      <4>1. Count(Lists, ArcsTo(t)) \in Nat /\ Count(todo, Notices(t)) \in Nat /\ HeldFor(Writer(t)) \in Nat
        BY CountNat, HeldForNat DEF Core
      <4> QED
        BY <4>1 DEF Core, Due, Coming
    <3>2. Coming(t) = 0
      BY <1>5, <3>1 DEF Counted
    <3>3. Protection(t) \in Int /\ Protection(t) >= 2
      BY OwedRange DEF Core
    <3>4. Count(todo, Protecting(t)) = 0
      BY <1>5, <3>1, <3>2, <3>3 DEF Counted, Guards
    <3>5. Number(fs, Protecting(t)) = 1
      <4>1. \A f \in Protecting(t) : f.op \notin {"arg", "return"}
        BY DEF Protecting
      <4>2. b \in Protecting(t)
        BY <1>10 DEF Protecting
      <4> QED
        BY <1>13, <4>1, <4>2 DEF One
    <3>6. Guards(t)' = 1
      BY <1>16, <3>4, <3>5, NoticeOps DEF Guards
    <3>7. Coming(t)' = 0 /\ owed'[t] = 0 /\ Len(args'[t]) \in Nat
      BY <1>4, <1>5, <1>14, <1>15, <1>28, <3>2
    <3>8. startCount'[t] = StartMask /\ Protection(t)' = StartMask
      BY <1>15, <3>7, Numbers DEF Protection
    <3> QED
      BY <3>6, <3>7, <3>8, Numbers DEF Counted
  <2> QED
    BY <2>1, <2>2 DEF Due
<1>30. /\ \A i \in 1..n : a[i].v # t /\ var[a[i].v].live /\ InUse(a[i].v) /\ node[a[i].v] # "unborn"
       /\ \A i \in 1..n : a[i].w => MayWrite(x, a[i].v)
       /\ \A i \in 1..n : ~a[i].w => MayRead(x, a[i].v)
  <2>1. ASSUME NEW i \in 1..n
        PROVE  /\ a[i].w => MayWrite(x, a[i].v)
               /\ ~a[i].w => MayRead(x, a[i].v)
               /\ var[a[i].v].live
    BY <1>1, <1>4 DEF Usable, MayWrite, MayRead
  <2>2. \A i \in 1..n : a[i].v # t /\ InUse(a[i].v)
    BY <1>7, <2>1 DEF InUse
  <2>3. \A i \in 1..n : node[a[i].v] # "unborn"
    BY <1>4, <2>2 DEF Core, Homes, Settled
  <2> QED
    BY <2>1, <2>2, <2>3
<1>31. /\ InRun(x)' /\ InUse(t)'
       /\ \A y \in Clients : y # x => /\ InRun(y)' <=> InRun(y)
                                      /\ \A u : (Reads(y, u)' <=> Reads(y, u)) /\ (Modifies(y, u)' <=> Modifies(y, u))
       /\ \A u : Modifies(x, u)' <=> \E i \in 1..n : a[i].v = u /\ a[i].w
       /\ \A u : Reads(x, u)' <=> \E i \in 1..n : a[i].v = u /\ ~a[i].w
  <2>1. r \in Ahead(x)' /\ InRun(x)'
    <3>1. r \in Ahead(x)'
      BY <1>4, <1>11, <1>16
    <3>2. InRun(x)' <=> \E f \in Ahead(x)' : f.op = "return"
      BY DEF InRun, Ahead
    <3> QED
      BY <1>10, <3>1, <3>2
  <2>2. InUse(t)'
    BY <1>9, <2>1 DEF InUse, F
  <2>3. \A y \in Clients : y # x => /\ InRun(y)' <=> InRun(y)
                                    /\ \A u : (Reads(y, u)' <=> Reads(y, u)) /\ (Modifies(y, u)' <=> Modifies(y, u))
    <3>1. ASSUME NEW y \in Clients, y # x
          PROVE  /\ InRun(y)' <=> InRun(y)
                 /\ \A u : (Reads(y, u)' <=> Reads(y, u)) /\ (Modifies(y, u)' <=> Modifies(y, u))
      <4>1. todo'[y] = todo[y] /\ making'[y] = making[y]
        BY <1>15, <1>16, <3>1, NodesApart
      <4>2. making[y] \in Tasks => args'[making[y]] = args[making[y]]
        BY <1>2, <1>15, <1>21
      <4>3. InRun(y) => making[y] \in Tasks
        BY DEF Core, Callers, Called
      <4> QED
        BY <4>1, <4>2, <4>3, CallsSame DEF Core
    <3> QED
      BY <3>1
  <2>4. CallArgs(x)' = {a[i] : i \in 1..n}
    BY <1>4, <1>15, <2>1 DEF CallArgs
  <2>5. \A u : Modifies(x, u)' <=> \E i \in 1..n : a[i].v = u /\ a[i].w
    <3>1. ASSUME NEW u
          PROVE  Modifies(x, u)' <=> \E i \in 1..n : a[i].v = u /\ a[i].w
      <4>1. PICK c : c = [v |-> u, w |-> TRUE]
        OBVIOUS
      <4>2. Modifies(x, u)' <=> \E i \in 1..n : a[i] = c
        BY <2>4, <4>1 DEF Modifies
      <4>3. \A i \in 1..n : a[i] = c <=> (a[i].v = u /\ a[i].w)
        BY <1>4, <4>1, ArgIs
      <4> QED
        BY <4>2, <4>3
    <3> QED
      BY <3>1
  <2>6. \A u : Reads(x, u)' <=> \E i \in 1..n : a[i].v = u /\ ~a[i].w
    <3>1. ASSUME NEW u
          PROVE  Reads(x, u)' <=> \E i \in 1..n : a[i].v = u /\ ~a[i].w
      <4>1. PICK c : c = [v |-> u, w |-> FALSE]
        OBVIOUS
      <4>2. Reads(x, u)' <=> \E i \in 1..n : a[i] = c
        BY <2>4, <4>1 DEF Reads
      <4>3. \A i \in 1..n : a[i] = c <=> (a[i].v = u /\ ~a[i].w)
        BY <1>4, <4>1, ArgIs
      <4> QED
        BY <4>2, <4>3
    <3> QED
      BY <3>1
  <2> QED
    BY <2>1, <2>2, <2>3, <2>5, <2>6
<1>32. \A u \in Nodes : u # t => last'[u] = IF Modifies(x, u)' THEN last[u] + 1 ELSE last[u]
  <2>1. \A u : (\E i \in DOMAIN a : a[i] = [v |-> u, w |-> TRUE]) <=> \E i \in 1..n : a[i].v = u /\ a[i].w
    <3>1. ASSUME NEW u
          PROVE  (\E i \in DOMAIN a : a[i] = [v |-> u, w |-> TRUE]) <=> \E i \in 1..n : a[i].v = u /\ a[i].w
      <4>1. PICK c : c = [v |-> u, w |-> TRUE]
        OBVIOUS
      <4>2. \A i \in 1..n : a[i] = c <=> (a[i].v = u /\ a[i].w)
        BY <1>4, <4>1, ArgIs
      <4>3. (\E i \in DOMAIN a : a[i] = [v |-> u, w |-> TRUE]) <=> \E i \in 1..n : a[i] = c
        BY <1>4, <4>1
      <4> QED
        BY <4>2, <4>3
    <3> QED
      BY <3>1
  <2> QED
    BY Zenon, <1>14, <1>31, <2>1
<1>33. \A u \in Nodes : last[u] \in Nat
  BY DEF Core, TypeOK
(* Nobody else is about to write what the call writes. *)
<1>34. \A u : Modifies(x, u)' => /\ u \in Nodes /\ u # t /\ MayWrite(x, u) /\ ~Opening(u)
                                 /\ \A y \in Clients : ~Modifies(y, u)
  <2>1. ASSUME NEW u, Modifies(x, u)'
        PROVE  /\ u \in Nodes /\ u # t /\ MayWrite(x, u) /\ ~Opening(u)
               /\ \A y \in Clients : ~Modifies(y, u)
    <3>1. u \in Nodes /\ u # t /\ MayWrite(x, u)
      BY <1>4, <1>30, <1>31, <2>1
    <3>2. \A y \in Clients : ~Modifies(y, u)
      BY <1>2, <3>1 DEF MayWrite
    <3>3. ~Opening(u)
      BY <3>1, <3>2, OpeningIs DEF Core
    <3> QED
      BY <3>1, <3>2, <3>3
  <2> QED
    BY <2>1
<1>35. \A u \in Nodes : \A y \in Clients : Modifies(x, u)' /\ Reads(y, u) => u \in Deferred /\ last[u] = 0
  <2>1. ASSUME NEW u \in Nodes, NEW y \in Clients, Modifies(x, u)', Reads(y, u)
        PROVE  u \in Deferred /\ last[u] = 0
    <3>1. y # x
      BY <1>2, <2>1
    <3>2. FirstWriter(u) /\ var[u].deferred /\ ~Opening(u)
      BY <1>34, <2>1, <3>1 DEF MayWrite
    <3>3. Put(u)
      BY DEF Core, Firsts
    <3> QED
      BY <3>2, <3>3 DEF Put, FirstWriter
  <2> QED
    BY <2>1
<1>36. Stores'
  <2>1. ASSUME NEW s \in Storage
        PROVE  Stored(s)'
    <3>1. Stored(s) /\ s \in Nodes /\ s # t
      BY <1>2 DEF Core, Stores, Nodes
    <3>2. node'[s] = node[s] /\ head'[s] = head[s] /\ (Finished(s)' <=> Finished(s)) /\ countdown' = countdown
      BY <1>14, <1>15, <1>17, <3>1
    <3>3. ~Finished(s) => last'[s] = last[s]
      <4>1. ~Finished(s) => node[s] = "unborn"
        BY <3>1 DEF Stored
      <4>2. ~Finished(s) => ~Modifies(x, s)'
        BY <1>30, <1>31, <4>1
      <4> QED
        BY <1>32, <3>1, <4>2
    <3>4. Redirected(s) => Redirected(s)'
      <4>1. ASSUME Redirected(s)
            PROVE  Redirected(s)'
        <5>1. PICK u \in Tasks : \E i \in Writes(u) : args[u][i].v = s /\ head[s] = Redirect(u, PortOf(u, i))
          BY <4>1 DEF Redirected
        <5>2. PICK i \in Writes(u) : args[u][i].v = s /\ head[s] = Redirect(u, PortOf(u, i))
          BY <5>1
        <5>3. u # t /\ u \in Nodes
          BY <1>6, <5>2, NodesApart
        <5>4. PICK q : q = PortOf(u, i)
          OBVIOUS
        <5>5. i \in Writes(u)' /\ args'[u][i].v = s /\ PortOf(u, i)' = q /\ head'[s] = Redirect(u, q)
          BY <1>15, <1>18, <3>2, <5>2, <5>3, <5>4
        <5>6. Redirect(u, PortOf(u, i))' = Redirect(u, q)
          BY <5>5 DEF Redirect, FlowBack
        <5> QED
          BY <5>5, <5>6 DEF Redirected
      <4> QED
        BY <4>1
    <3> QED
      BY <3>1, <3>2, <3>3, <3>4 DEF Stored, Open, Done
  <2> QED
    BY <2>1 DEF Stores
<1>37. Homes'
  <2>1. Settled(t)'
    <3>1. var'[t].cur = t /\ var'[t].port = 0 /\ SlotOf(t)' = <<t, 0>>
      BY <1>7, <1>14 DEF New, SlotOf
    <3>2. Vacant(t, 0)'
      BY <1>5, <1>14, NodesApart DEF Vacant, Openable, Null
    <3>3. Vacant(var[t].cur, var[t].port)'
      BY <3>1, <3>2 DEF Vacant
    <3> QED
      BY <1>15, <1>31, <3>1, <3>3 DEF Settled
  <2>2. ASSUME NEW u \in Nodes, u # t
        PROVE  Settled(u)'
    <3>1. Settled(u) /\ var'[u] = var[u] /\ node'[u] = node[u]
      BY <1>14, <1>15, <2>2 DEF Core, Homes
    <3>2. InUse(u)' <=> InUse(u)
      <4>1. PICK f : f = F("return", u, 0, 0)
        OBVIOUS
      <4>2. F("return", u, 0, 0)' = f /\ f.op = "return" /\ f.node = u
        BY <4>1 DEF F
      <4>3. f \notin Ahead(x)'
        BY <1>10, <1>12, <1>16, <2>2, <4>2
      <4>4. \A y \in Clients : f \in Ahead(y)' <=> f \in Ahead(y)
        BY <1>2, <1>16, <4>3, NodesApart
      <4> QED
        BY <3>1, <4>1, <4>2, <4>4 DEF InUse
    <3>3. PICK m \in Nodes, q \in Port : m = var[u].cur /\ q = var[u].port
      BY DEF Core, TypeOK, OoxVar
    <3>4. CASE InUse(u)
      <4>1. m # t /\ Vacant(m, q) /\ node[u] # "unborn"
        BY <1>5, <3>1, <3>3, <3>4, SlotIs DEF Settled, Core
      <4>2. Vacant(m, q)'
        BY <1>14, <4>1 DEF Vacant, Openable, Null, Ready
      <4>3. Vacant(var[u].cur, var[u].port)' /\ SlotOf(u)' = SlotOf(u)
        BY <3>1, <3>3, <4>2 DEF Vacant, SlotOf
      <4>4. Writes(m)' = Writes(m) /\ \A i : PortOf(m, i)' = PortOf(m, i)
        BY <1>18, <4>1
      <4>5. m \in Tasks => args'[m] = args[m]
        BY <1>15, <4>1
      <4>6. \/ SlotOf(u) = <<u, 0>>
            \/ \E i \in Writes(m) : m \in Tasks /\ args[m][i].v = u /\ q = PortOf(m, i)
        BY <3>1, <3>3, <3>4 DEF Settled
      <4>7. \/ SlotOf(u)' = <<u, 0>>
            \/ \E i \in Writes(m)' : m \in Tasks /\ args'[m][i].v = u /\ q = PortOf(m, i)'
        BY <4>3, <4>4, <4>5, <4>6
      <4>8. var'[u].cur = m /\ var'[u].port = q
        BY <3>1, <3>3
      <4>9. Writes(var[u].cur)' = Writes(m)' /\ \A i : PortOf(var[u].cur, i)' = PortOf(m, i)'
        BY <4>8 DEF Writes, PortOf
      <4> QED
        BY <3>1, <3>2, <3>4, <4>1, <4>3, <4>7, <4>8, <4>9 DEF Settled
    <3>5. CASE ~InUse(u)
      BY <3>1, <3>2, <3>5 DEF Settled, New
    <3> QED
      BY <3>4, <3>5
  <2> QED
    BY <2>1, <2>2 DEF Homes
(* What was about to be given its first writer still is, and so is what the call writes. *)
<1>38. \A u : Opening(u) \/ Modifies(x, u)' => Opening(u)'
  <2>1. ASSUME NEW u, Opening(u)
        PROVE  Opening(u)'
    <3>1. PICK y \in Clients : making[y] \in Tasks /\ \E i \in DOMAIN args[making[y]] : ToWrite(y, i) /\ args[making[y]][i].v = u
      BY <2>1 DEF Opening
    <3>2. PICK i \in DOMAIN args[making[y]] : ToWrite(y, i) /\ args[making[y]][i].v = u
      BY <3>1
    <3>3. y # x
      BY <1>2, <3>2 DEF ToWrite
    <3>4. PICK m : m = making[y]
      OBVIOUS
    <3>5. making'[y] = m /\ m \in Tasks /\ m \in Nodes /\ m # t /\ args'[m] = args[m] /\ Writes(m)' = Writes(m)
      <4>1. m \in Tasks /\ m # NoTask
        BY <3>1, <3>4, ConstantsAssumption DEF NoTask
      <4>2. m \in Nodes /\ m # t
        BY <1>21, <3>4, <4>1
      <4> QED
        BY <1>15, <1>18, <3>3, <3>4, <4>1, <4>2
    <3>6. F("arg", m, i, 0) \in Ahead(y)'
      BY <1>16, <3>2, <3>3, <3>4, NodesApart DEF ToWrite
    <3>7. ToWrite(y, i)'
      BY <3>2, <3>4, <3>5, <3>6 DEF ToWrite, F
    <3> QED
      BY <3>2, <3>4, <3>5, <3>7 DEF Opening
  <2>2. ASSUME NEW u, Modifies(x, u)'
        PROVE  Opening(u)'
    <3>1. PICK i \in 1..n : a[i].v = u /\ a[i].w
      BY <1>31, <2>2
    <3>2. F("arg", t, i, 0) \in Ahead(x)'
      <4>1. i \in DOMAIN fs
        BY <1>4, <1>11
      <4> QED
        BY <1>11, <1>16, <4>1
    <3>3. i \in Writes(t)'
      BY <1>18, <3>1
    <3>4. ToWrite(x, i)'
      BY <1>15, <3>2, <3>3 DEF ToWrite, F, Writes
    <3> QED
      BY <1>4, <1>15, <3>1, <3>4 DEF Opening
  <2> QED
    BY <2>1, <2>2
<1>39. Firsts'
  <2>1. ASSUME NEW u \in Nodes
        PROVE  Put(u)'
    <3>1. Put(u)
      BY DEF Core, Firsts
    <3>2. var' = var /\ head' = head /\ SlotOf(u)' = SlotOf(u)
      BY <1>14 DEF SlotOf
    <3>3. u \in Deferred => u # t
      BY <1>2, ConstantsAssumption
    <3>4. var[u].deferred => /\ u \in Deferred /\ SlotOf(u) = <<u, 0>> /\ head[u].tag = "open"
                             /\ last'[u] = 0 \/ (last'[u] = 1 /\ Opening(u)')
      <4>1. ASSUME var[u].deferred
            PROVE  /\ u \in Deferred /\ SlotOf(u) = <<u, 0>> /\ head[u].tag = "open"
                   /\ last'[u] = 0 \/ (last'[u] = 1 /\ Opening(u)')
        <5>1. /\ u \in Deferred /\ SlotOf(u) = <<u, 0>> /\ head[u].tag = "open"
              /\ last[u] = 0 \/ (last[u] = 1 /\ Opening(u))
          BY <3>1, <4>1 DEF Put
        <5>2. CASE Modifies(x, u)'
          <6>1. ~Opening(u)
            BY <1>34, <5>2
          <6>2. last'[u] = last[u] + 1
            BY <1>32, <3>3, <5>1, <5>2
          <6> QED
            BY <1>38, <5>1, <5>2, <6>1, <6>2
        <5>3. CASE ~Modifies(x, u)'
          BY <1>32, <1>38, <3>3, <5>1, <5>3
        <5> QED
          BY <5>2, <5>3
      <4> QED
        BY <4>1
    <3>5. u \in Deferred /\ var[u].live /\ last'[u] = 0 => var[u].deferred
      <4>1. u \in Deferred /\ last'[u] = 0 => last[u] = 0
        BY <1>32, <1>33, <3>3
      <4> QED
        BY <3>1, <4>1 DEF Put
    <3>6. var[u].live /\ SlotOf(u) = <<u, 0>> /\ head[u].tag = "redirect" => Opening(u)'
      BY <1>38, <3>1 DEF Put
    <3>7. \A y \in Clients : u \in Deferred /\ Modifies(y, u)' /\ last'[u] <= 1 =>
            /\ var[u].cur \in {u, making'[y]}
            /\ var[u].deferred \/ head[u].tag = "redirect"
      <4>1. ASSUME NEW y \in Clients, u \in Deferred, Modifies(y, u)', last'[u] <= 1
            PROVE  /\ var[u].cur \in {u, making'[y]}
                   /\ var[u].deferred \/ head[u].tag = "redirect"
        <5>1. CASE y # x
          <6>1. Modifies(y, u) /\ ~Modifies(x, u)' /\ making'[y] = making[y]
            BY <1>15, <1>31, <1>34, <4>1, <5>1
          <6>2. last'[u] = last[u]
            BY <1>32, <3>3, <4>1, <6>1
          <6>3. last[u] <= 1
            BY <4>1, <6>2
          <6> QED
            BY <3>1, <4>1, <6>1, <6>3 DEF Put
        <5>2. CASE y = x
          <6>1. last'[u] = last[u] + 1 /\ var[u].live
            BY <1>32, <1>34, <3>3, <4>1, <5>2 DEF MayWrite
          <6>2. last[u] = 0
            BY <1>33, <4>1, <6>1
          <6>3. var[u].deferred
            BY <3>1, <4>1, <6>1, <6>2 DEF Put
          <6>4. SlotOf(u) = <<u, 0>>
            BY <3>1, <6>3 DEF Put
          <6> QED
            BY <6>3, <6>4 DEF SlotOf
        <5> QED
          BY <5>1, <5>2
      <4> QED
        BY <4>1
    <3> QED
      BY <3>2, <3>4, <3>5, <3>6, <3>7 DEF Put
  <2> QED
    BY <2>1 DEF Firsts
<1>40. Called(x)'
  <2>1. making'[x] = t /\ phase'[t] # "idle" /\ \A y \in Clients : making'[y] = t => y = x
    BY <1>2, <1>15, <1>21
  <2>2. var'[t] = New(t)' /\ New(t)' = New(t)
    BY <1>7, <1>14 DEF New
  <2>3. \A i \in DOMAIN args'[t] : var'[args'[t][i].v].live
    BY <1>4, <1>14, <1>15, <1>30
  <2>4. \A v \in Nodes : Modifies(x, v)' => last'[v] >= 1
    BY <1>32, <1>33, <1>34
  <2>5. ASSUME NEW y \in Clients \ {x}, NEW v \in Nodes, Modifies(x, v)'
        PROVE  ~Modifies(y, v)' /\ (Reads(y, v)' => v \in Deferred /\ last'[v] <= 1)
    <3>1. ~Modifies(y, v)'
      BY <1>31, <1>34, <2>5
    <3>2. Reads(y, v)' => v \in Deferred /\ last[v] = 0
      BY <1>31, <1>35, <2>5
    <3>3. last'[v] = last[v] + 1
      BY <1>32, <1>34, <2>5
    <3> QED
      BY <3>1, <3>2, <3>3
  <2>6. ASSUME NEW i \in Writes(t)'
        PROVE  Writing(x, i)'
    <3>1. PICK v \in Nodes : v = a[i].v
      BY <1>4, <1>18, <2>6
    <3>2. i \in 1..n /\ Modifies(x, v)' /\ args'[t][i].v = v
      BY <1>15, <1>18, <1>31, <2>6, <3>1
    <3>3. InUse(v) /\ var[v].live
      BY <1>30, <3>1, <3>2
    <3>4. var[v].cur # t
      BY <1>5, <3>3, SlotIs DEF Core
    <3>5. ~(SlotOf(v) = <<v, 0>> /\ head[v].tag = "redirect")
      <4>1. Put(v) /\ ~Opening(v)
        BY <1>34, <3>2 DEF Core, Firsts
      <4> QED
        BY <3>3, <4>1 DEF Put
    <3>6. Vacant(t, PortOf(t, i))'
      <4>1. PICK q \in Port : q = PortOf(t, i)'
        BY <1>19, <2>6
      <4>2. nextWriter'[t][q] = Null
        BY <1>5, <1>14
      <4> QED
        BY <4>1, <4>2 DEF Vacant, Openable, Null
    <3>7. making'[x] = t /\ args'[making'[x]][i].v = v /\ var'[v] = var[v] /\ head' = head
      BY <1>14, <1>15, <3>2
    <3>8. Vacant(making[x], PortOf(making[x], i))'
      BY <1>15, <3>6 DEF Vacant, PortOf, Writes
    <3> QED
      BY <3>4, <3>5, <3>7, <3>8 DEF Writing, SlotOf
  <2>7. owed'[t] + Number(todo'[x], {f \in Frame : f.op \in Asking}) <= Len(args'[t])
    BY <1>3, <1>4, <1>5, <1>11, <1>14, <1>15, <1>16 DEF Asks
  <2>8. \A f \in Ahead(x)' : f.op \notin {"link", "hop", "late"}
    BY <1>12, <1>16
  <2>10. making'[x] \in Tasks
    BY <2>1
  <2>11. \A i \in DOMAIN args'[making'[x]] : var'[args'[making'[x]][i].v].live
    BY <2>1, <2>3
  <2>12. var'[making'[x]] = New(making[x])'
    BY <2>1, <2>2 DEF New
  <2>13. owed'[making'[x]] + Number(todo'[x], {f \in Frame : f.op \in Asking}) <= Len(args'[making'[x]])
    BY <2>1, <2>7
  <2>14. \A i \in Writes(making[x])' : Writing(x, i)'
    BY <2>1, <2>6 DEF Writes
  <2>15. making'[x] # NoTask =>
           phase'[making'[x]] # "idle" /\ \A y \in Clients : making'[y] = making'[x] => y = x
    BY <2>1
  <2> QED
    BY <2>4, <2>5, <2>8, <2>10, <2>11, <2>12, <2>13, <2>14, <2>15 DEF Called
<1>41. Callers'
  <2>1. ASSUME NEW y \in Clients, y # x
        PROVE  Called(y)'
    <3>1. Called(y) /\ y \in Threads /\ todo'[y] = todo[y] /\ making'[y] = making[y]
      BY <1>15, <1>16, <2>1, NodesApart DEF Core, Callers
    <3>2. making[y] \in Tasks => /\ making[y] # t /\ making[y] \in Nodes /\ phase'[making[y]] = phase[making[y]]
                                 /\ args'[making[y]] = args[making[y]] /\ owed'[making[y]] = owed[making[y]]
      BY <1>1, <1>14, <1>15, <1>21, ConstantsAssumption DEF NoTask
    <3>3. making[y] # NoTask => /\ phase'[making[y]] # "idle"
                                /\ \A z \in Clients : making'[z] = making[y] => z = y
      <4>1. ASSUME making[y] # NoTask
            PROVE  /\ phase'[making[y]] # "idle"
                   /\ \A z \in Clients : making'[z] = making[y] => z = y
        <5>1. making[y] \in Tasks /\ making[y] # t /\ phase[making[y]] # "idle"
          BY <1>21, <4>1
        <5>2. \A z \in Clients : making[z] = making[y] => z = y
          BY <3>1, <4>1 DEF Called
        <5> QED
          BY <1>15, <3>2, <5>1, <5>2
      <4> QED
        BY <4>1
    <3>4. InRun(y) => making[y] \in Tasks /\ var'[making[y]] = New(making[y])
      BY <1>14, <3>1 DEF Called
    <3>5. \A v \in Nodes : Reads(y, v) \/ Modifies(y, v) => var'[v].live /\ v # t
      <4>1. \A v \in Nodes : Reads(y, v) \/ Modifies(y, v) => var[v].live
        BY Argument DEF Core
      <4> QED
        BY <1>7, <1>14, <4>1
    <3>6. ASSUME NEW v \in Nodes, Modifies(y, v)
          PROVE  /\ last'[v] >= 1
                 /\ \A z \in Clients \ {y} : ~Modifies(z, v)' /\ (Reads(z, v)' => v \in Deferred /\ last'[v] <= 1)
      <4>1. ~Modifies(x, v)' /\ v # t
        BY <1>34, <3>5, <3>6
      <4>2. last'[v] = last[v]
        BY <1>32, <4>1
      <4>3. InRun(y)
        BY <3>6, Argument DEF Core
      <4>4. /\ last[v] >= 1
            /\ \A z \in Clients \ {y} : ~Modifies(z, v) /\ (Reads(z, v) => v \in Deferred /\ last[v] <= 1)
        BY <3>1, <3>6, <4>3 DEF Called
      <4>5. Reads(x, v)' => v \in Deferred /\ last[v] <= 1
        <5>1. ASSUME Reads(x, v)'
              PROVE  v \in Deferred /\ last[v] <= 1
          <6>1. MayRead(x, v)
            BY <1>30, <1>31, <5>1
          <6> QED
            BY <2>1, <3>6, <6>1 DEF MayRead, FirstWriter
        <5> QED
          BY <5>1
      <4>6. ASSUME NEW z \in Clients \ {y}
            PROVE  ~Modifies(z, v)' /\ (Reads(z, v)' => v \in Deferred /\ last'[v] <= 1)
        <5>1. CASE z = x
          BY <4>1, <4>2, <4>5, <5>1
        <5>2. CASE z # x
          BY SMTT(30), <1>31, <4>2, <4>4, <5>2
        <5> QED
          BY <5>1, <5>2
      <4> QED
        BY <4>2, <4>4, <4>6
    <3>7. ASSUME InRun(y), NEW i \in Writes(making[y]), Writing(y, i)
          PROVE  Writing(y, i)'
      <4>1. PICK m \in Tasks : m = making[y]
        BY <3>4, <3>7
      <4>2. making'[y] = m /\ args'[m] = args[m] /\ PortOf(m, i)' = PortOf(m, i) /\ m \in Nodes
        BY <1>18, <3>1, <3>2, <4>1
      <4>3. PICK q : q = PortOf(m, i)
        OBVIOUS
      <4>4. PortOf(making[y], i)' = q
        BY <4>2, <4>3 DEF PortOf, Writes
      <4>5. Vacant(making[y], PortOf(making[y], i))'
        <5>1. Vacant(m, q)
          BY <3>7, <4>1, <4>3 DEF Writing
        <5> QED
          BY <1>14, <4>2, <4>4, <5>1 DEF Vacant, Openable, Null, Ready
      <4> QED
        BY <1>14, <3>7, <4>1, <4>2, <4>5 DEF Writing, SlotOf
    <3>8. \A f \in Ahead(y) : /\ f.op = "link" => Begins(y, f.node, f.port)'
                              /\ f.op \in {"hop", "late"} => Finds(y, f.node, f.port)'
      <4>1. \A u, m, q : Leads(u, m, q)' <=> Leads(u, m, q)
        BY <1>14 DEF Leads, SlotOf, Redirect, FlowBack
      <4>2. ASSUME NEW m, NEW q, Finds(y, m, q)
            PROVE  Finds(y, m, q)'
        BY <1>31, <2>1, <4>1, <4>2 DEF Finds
      <4>3. ASSUME NEW m, NEW q, Begins(y, m, q)
            PROVE  Begins(y, m, q)'
        <5>1. CASE Finds(y, m, q)
          BY <4>2, <5>1 DEF Begins
        <5>2. CASE ~Finds(y, m, q)
          <6>1. /\ q = 0 /\ head[m].tag = "redirect" /\ Reads(y, m)
                /\ Leads(m, head[m].arcs[1].node, head[m].arcs[1].port)
            BY <4>3, <5>2 DEF Begins
          <6>2. PICK c, d : c = head[m].arcs[1].node /\ d = head[m].arcs[1].port
            OBVIOUS
          <6>3. Leads(m, c, d)'
            BY <4>1, <6>1, <6>2
          <6>4. head'[m].arcs[1].node = c /\ head'[m].arcs[1].port = d /\ head' = head
            BY <1>14, <6>2
          <6> QED
            BY <1>31, <2>1, <6>1, <6>3, <6>4 DEF Begins, Leads, Redirect, FlowBack
        <5> QED
          BY <5>1, <5>2
      <4> QED
        BY <3>1, <4>2, <4>3 DEF Called
    <3>9. InRun(y) => \A i \in Writes(making[y]) : ToWrite(y, i) /\ Writing(y, i) => Writing(y, i)'
      BY <3>7
    <3>10. making[y] \in Tasks => args'[making[y]] = args[making[y]] /\ owed'[making[y]] = owed[making[y]]
      BY <3>2
    <3>11. InRun(y) => var'[making[y]] = New(making[y])
      BY <3>4
    <3>12. \A v \in Nodes : Reads(y, v) \/ Modifies(y, v) => var'[v].live
      BY <3>5
    <3> QED
      BY <3>1, <3>3, <3>6, <3>8, <3>9, <3>10, <3>11, <3>12, CalledKept
  <2> QED
    BY <1>40, <2>1 DEF Callers
<1>42. \A y \in Threads : \A f : f.op \notin {"arg", "bind", "return"} => (f \in Ahead(y)' <=> f \in Ahead(y))
  <2>1. \A f \in Ahead(x)' : f.op \in {"arg", "bind", "return"}
    BY <1>12, <1>16
  <2> QED
    BY <1>2, <1>16, <2>1
<1>43. \A P : (\A f \in P : f.op \notin {"arg", "bind", "return"}) => Count(todo', P) = Count(todo, P)
  <2>1. ASSUME NEW P, \A f \in P : f.op \notin {"arg", "bind", "return"}
        PROVE  Count(todo', P) = Count(todo, P)
    <3>1. b \notin P
      BY <1>10, <2>1
    <3>2. Number(fs, P) = One(b \in P)
      BY <1>13, <2>1
    <3> QED
      BY <1>16, <3>1, <3>2 DEF One
  <2> QED
    BY <2>1
<1>44. \A m, q : \A f \in Marks(m, q) : f.op \notin {"arg", "bind", "return"}
  BY DEF Marks
<1>45. Tallies'
  <2>1. ASSUME NEW m \in Nodes, m # t, NEW q \in Slots(m)
        PROVE  Tallied(m, q)'
    <3>1. \A P \in SUBSET Marks(m, q) : Count(todo', P) = Count(todo, P)
      BY <1>43, <1>44
    <3>2. \A y \in Threads : Ahead(y)' \cap Marks(m, q) \subseteq Ahead(y)
      BY <1>42, <1>44
    <3>3. ASSUME m \in Tasks
          PROVE  /\ count'[m][q] = count[m][q]
                 /\ Number(todo'[m], Turning(m, q)) <= Number(todo[m], Turning(m, q))
                 /\ head'[m].tag = "open" => head[m].tag = "open"
      <4>1. todo'[m] = todo[m] /\ todo[m] \in Seq(Frame)
        BY <1>16, <3>3, NodesApart, Families DEF Core
      <4>2. Number(todo[m], Turning(m, q)) \in Nat
        BY <4>1, NumberType
      <4> QED
        BY <1>14, <4>1, <4>2
    <3>4. \A u \in Nodes : node[u] # "unborn" => node'[u] # "unborn"
      BY <1>5, <1>15
    <3> QED
      BY <1>14, <1>17, <1>23, <3>1, <3>2, <3>3, <3>4, TalliedKept
  <2>2. ASSUME NEW q \in Slots(t)'
        PROVE  Tallied(t, q)'
    <3>1. q \in Port /\ nextWriter'[t][q] = Null /\ countdown'[t][q] = 1 /\ ~Finished(t)'
      BY <1>5, <1>14, <1>17, <1>19, <2>2
    <3>2. \A y \in Threads : \A f \in Ahead(y) : f \notin Shares(t, q)
      <4>1. ASSUME NEW y \in Threads, NEW f \in Ahead(y), f \in Shares(t, q)
            PROVE  FALSE
        <5>1. Fits(f) /\ \E i \in DOMAIN todo[y] : todo[y][i] = f /\ Lies(y, todo[y], i)
          BY AheadFits DEF Core
        <5>2. f.node = t /\ f.op \in {"out", "dec"}
          BY <4>1 DEF Shares
        <5>3. f.op # "dec"
          BY <1>5, <5>1, <5>2 DEF Fits
        <5>4. f.op = "out" => y = t
          BY <5>1, <5>2 DEF Lies, BodyOps
        <5>5. Ahead(t) = {}
          BY <1>5 DEF Ahead
        <5> QED
          BY <5>2, <5>3, <5>4, <5>5, <4>1
      <4> QED
        BY <4>1
    <3>3. Count(todo, Shares(t, q)) = 0
      <4>1. \A y \in Threads : Ahead(y) \cap Shares(t, q) = {}
        BY <3>2
      <4> QED
        BY <4>1, TodoNone DEF Core
    <3>4. Count(todo', Shares(t, q)) = 0
      BY <1>43, <1>44, <3>3, MarksAre
    <3>5. Named(nextWriter[t][q])'
      BY <3>1 DEF Named, Null
    <3>6. nextWriter'[t][q] # Ready
      BY <3>1 DEF Null, Ready
    <3>7. Ready' = Ready /\ Shares(t, q)' = Shares(t, q)
      BY MarksAre DEF Ready
    <3> QED
      BY <3>1, <3>4, <3>5, <3>6, <3>7 DEF Tallied
  <2>3. ASSUME NEW m \in Nodes, NEW q \in Slots(m)'
        PROVE  Tallied(m, q)'
    <3>1. CASE m = t
      BY <2>2, <2>3, <3>1
    <3>2. CASE m # t
      BY <1>18, <2>1, <2>3, <3>2
    <3> QED
      BY <3>1, <3>2
  <2> QED
    BY <2>3 DEF Tallies
<1> QED
  BY <1>22, <1>24, <1>25, <1>26, <1>29, <1>36, <1>37, <1>39, <1>41, <1>45 DEF Core

(***************************************************************************)
(* A finished task takes its list of consumers                             *)
(***************************************************************************)
(* At most k of K for each of T. *)
LEMMA FewPer ==
  ASSUME NEW T, IsFiniteSet(T), NEW k \in Nat, NEW K \in SUBSET Nat, IsFiniteSet(K), NEW h \in [K -> T],
         \A u \in T : Cardinality({i \in K : h[i] = u}) <= k
  PROVE  Cardinality(K) <= Cardinality(T) * k
<1> DEFINE Of(u) == {i \in K : h[i] = u}
           g     == [i \in K |-> <<h[i], Rank(Of(h[i]), i)>>]
           R     == T \X (1..k)
<1>1. \A u \in T : Of(u) \in SUBSET Nat /\ IsFiniteSet(Of(u)) /\ Cardinality(Of(u)) <= k
  BY FS_Subset
<1>2. ASSUME NEW u \in T
      PROVE  /\ \A i \in Of(u) : Rank(Of(u), i) \in 1..k
             /\ \A i, j \in Of(u) : Rank(Of(u), i) = Rank(Of(u), j) => i = j
  <2>1. PICK U : U = Of(u)
    OBVIOUS
  <2>2. U \in SUBSET Nat /\ IsFiniteSet(U) /\ Cardinality(U) <= k
    BY <1>1, <2>1
  <2> HIDE DEF Of
  <2>3. /\ Cardinality(U) \in Nat
        /\ \A i \in U : Rank(U, i) \in 1..Cardinality(U)
        /\ \A i, j \in U : Rank(U, i) = Rank(U, j) => i = j
    BY <2>2, Ranks
  <2> QED
    BY <2>1, <2>2, <2>3
<1>3. \A i \in K : h[i] \in T /\ i \in Of(h[i])
  OBVIOUS
<1>4. g \in [K -> R]
  <2>1. \A i \in K : <<h[i], Rank(Of(h[i]), i)>> \in R
    <3> HIDE DEF Of
    <3> QED
      BY <1>2, <1>3
  <2> HIDE DEF Of, R
  <2> QED
    BY <2>1
<1>5. \A i, j \in K : g[i] = g[j] => i = j
  <2>1. ASSUME NEW i \in K, NEW j \in K, g[i] = g[j]
        PROVE  i = j
    <3> HIDE DEF Of
    <3>1. h[i] = h[j] /\ Rank(Of(h[i]), i) = Rank(Of(h[j]), j)
      BY <2>1
    <3>2. PICK u \in T : u = h[i]
      BY <1>3
    <3>3. i \in Of(u) /\ j \in Of(u) /\ Rank(Of(u), i) = Rank(Of(u), j)
      BY <1>3, <3>1, <3>2
    <3> QED
      BY <1>2, <3>3
  <2> QED
    BY <2>1
<1>6. IsFiniteSet(R) /\ Cardinality(R) = Cardinality(T) * k
  <2>1. IsFiniteSet(1..k) /\ Cardinality(1..k) = k
    BY FS_Interval
  <2> QED
    BY <2>1, FS_Product
<1> HIDE DEF g, R
<1>7. g \in Injection(K, R)
  BY <1>4, <1>5 DEF Injection, IsInjective
<1> QED
  BY <1>6, <1>7, FS_Injection

LEMMA NumberLess ==
  ASSUME NEW X, IsFiniteSet(X), NEW S, NEW s \in Family(X, S), NEW x \in X, NEW P
  PROVE  Number(s[x], P) <= Count(s, P) /\ Number(s[x], P) \in Nat /\ Count(s, P) \in Nat
<1>1. PICK c \in Seq(S) : c = <<>>
  BY Short
<1>2. PICK r : Replaced(r, s, x, c)
  BY DEF Replaced
<1>3. /\ Count(r, P) \in Nat /\ Count(s, P) \in Nat
      /\ Number(s[x], P) \in Nat /\ Number(c, P) \in Nat
      /\ Count(r, P) = Count(s, P) - Number(s[x], P) + Number(c, P)
  BY <1>2, CountAs
<1>4. Number(c, P) = 0
  BY <1>1, NumberEmpty
<1> QED
  BY <1>3, <1>4

(* A list has room on it for every arc there can be. *)
Forward == {a \in Arc : a.kind # "back_only"}

LEMMA FlowsFew ==
  ASSUME Core, NEW t \in Nodes
  PROVE  Number(Lists[t], Forward) + 3 <= Half /\ Number(Lists[t], Forward) \in Nat
<1>1. PICK s \in Seq(Arc) : s = Lists[t]
  BY Families DEF Core
<1>2. PICK K : K = Places(s, Forward)
  OBVIOUS
<1>3. K \in SUBSET Nat /\ IsFiniteSet(K) /\ K \subseteq DOMAIN s
  <2>1. IsFiniteSet(K)
    BY <1>2, NumberType
  <2>2. K \subseteq DOMAIN s
    BY <1>2 DEF Places
  <2> QED
    BY <2>1, <2>2
<1>4. \A i \in K : s[i] \in Arc /\ s[i].kind # "back_only" /\ s[i].node \in Tasks
  <2>1. ASSUME NEW i \in K
        PROVE  s[i] \in Arc /\ s[i].kind # "back_only" /\ s[i].node \in Tasks
    <3>1. i \in DOMAIN s /\ s[i] \in Forward
      BY <1>2 DEF Places
    <3>2. Apt(t, s[i])
      BY <1>1, <3>1 DEF Core, Linked
    <3> QED
      BY <3>1, <3>2 DEF Apt, Forward
  <2> QED
    BY <2>1
<1>5. PICK h : h = [i \in K |-> s[i].node]
  OBVIOUS
<1>6. h \in [K -> Tasks]
  BY <1>4, <1>5
<1>7. ASSUME NEW u \in Tasks
      PROVE  Cardinality({i \in K : h[i] = u}) <= MaxPort
  <2>1. {i \in K : h[i] = u} = Places(s, ArcsTo(u))
    <3>1. \A i \in DOMAIN s : s[i] \in ArcsTo(u) => s[i] \in Forward /\ s[i].node = u
      BY DEF ArcsTo, Forward
    <3>2. \A i \in K : s[i].node = u => s[i] \in ArcsTo(u)
      BY <1>4 DEF ArcsTo
    <3> QED
      BY <1>2, <1>5, <3>1, <3>2 DEF Places
  <2>2. Number(s, ArcsTo(u)) <= Count(Lists, ArcsTo(u)) /\ Number(s, ArcsTo(u)) \in Nat
        /\ Count(Lists, ArcsTo(u)) \in Nat
    BY <1>1, NumberLess, Families, Finite DEF Core
  <2>3. Count(Lists, ArcsTo(u)) <= Coming(u) /\ Coming(u) \in Nat
    <3>1. Count(todo, Notices(u)) \in Nat /\ HeldFor(Writer(u)) \in Nat
      BY CountNat, HeldForNat DEF Core
    <3> QED
      BY <2>2, <3>1 DEF Coming
  <2>4. Coming(u) <= owed[u] /\ owed[u] \in 0..MaxPort /\ MaxPort \in Nat
    BY OwedRange, ConstantsAssumption DEF Core, Due, Counted
  <2>5. Cardinality({i \in K : h[i] = u}) = Number(s, ArcsTo(u))
    BY <2>1 DEF Number
  <2> QED
    BY <2>2, <2>3, <2>4, <2>5
<1>8. MaxPort \in Nat /\ IsFiniteSet(Tasks)
  BY Finite, ConstantsAssumption
<1>9. Cardinality(K) <= Cardinality(Tasks) * MaxPort
  BY <1>3, <1>6, <1>7, <1>8, FewPer
<1>10. PICK c : c = Cardinality(Tasks) * MaxPort
  OBVIOUS
<1>11. c \in Nat /\ c + 3 < Half /\ Half \in Int
  <2>1. Cardinality(Tasks) \in Nat
    BY <1>8, FS_CardinalityType
  <2> QED
    BY <1>8, <1>10, <2>1, RoomAssumption, Numbers
<1>12. Cardinality(K) = Number(s, Forward) /\ Number(s, Forward) \in Nat
  BY <1>2, NumberType DEF Number
<1> QED
  BY <1>1, <1>9, <1>10, <1>11, <1>12

LEMMA ArcFrameIs ==
  ASSUME NEW t, NEW a \in Arc, Apt(t, a), NEW f, f = ArcFrame(a)
  PROVE  /\ f \in Frame /\ f.node = a.node /\ f.port = a.port
         /\ a.kind = "back_only" =>
              f.op = "dec" /\ f.k = 1 /\ Finished(f.node) /\ f.port \in Slots(f.node)
         /\ a.kind # "back_only" => f.op = "flow" /\ f.k = 0 /\ f.node \in Tasks /\ f.port \in Slots(t)
         /\ \A u : f \in Notices(u) <=> a \in ArcsTo(u)
         /\ \A n, p : f \in Holders(n, p) <=> a = BackOnly(n, p)
         /\ \A n, p : f \in Turning(n, p) => a \in Forward
<1>1. a.node \in Nodes /\ a.port \in Port /\ a = [kind |-> a.kind, node |-> a.node, port |-> a.port]
  BY DEF Arc
<1>2. CASE a.kind = "back_only"
  <2>1. f = F("dec", a.node, a.port, 1)
    BY <1>2 DEF ArcFrame
  <2>2. f.op = "dec" /\ f.k = 1 /\ f.node = a.node /\ f.port = a.port
    BY <2>1 DEF F
  <2>3. f \in Frame
    BY <1>1, <2>1 DEF F, Frame, CountOps
  <2>4. \A n, p : f \in Holders(n, p) <=> a = BackOnly(n, p)
    <3>1. ASSUME NEW n, NEW p
          PROVE  f \in Holders(n, p) <=> a = BackOnly(n, p)
      <4>1. f \in Holders(n, p) <=> (a.node = n /\ a.port = p)
        BY <2>2, <2>3 DEF Holders
      <4>2. a = BackOnly(n, p) => a.node = n /\ a.port = p
        BY DEF BackOnly
      <4>3. a.node = n /\ a.port = p => a = BackOnly(n, p)
        BY <1>1, <1>2 DEF BackOnly
      <4> QED
        BY <4>1, <4>2, <4>3
    <3> QED
      BY <3>1
  <2>5. \A u : f \notin Notices(u) /\ a \notin ArcsTo(u)
    BY <1>2, <2>2 DEF Notices, ArcsTo
  <2>6. \A n, p : f \notin Turning(n, p)
    BY <2>2 DEF Turning
  <2>7. Finished(a.node) /\ a.port \in Slots(a.node)
    BY <1>2 DEF Apt
  <2> QED
    BY <1>2, <2>2, <2>3, <2>4, <2>5, <2>6, <2>7
<1>3. CASE a.kind # "back_only"
  <2>1. a.kind = "flow_back" /\ a.node \in Tasks /\ a.port \in Slots(t)
    BY <1>3 DEF Apt
  <2>2. f = F("flow", a.node, a.port, 0)
    BY <2>1 DEF ArcFrame
  <2>3. f.op = "flow" /\ f.k = 0 /\ f.node = a.node /\ f.port = a.port
    BY <2>2 DEF F
  <2>4. f \in Frame
    BY <1>1, <2>2 DEF F, Frame, BodyOps
  <2>5. \A u : f \in Notices(u) <=> a \in ArcsTo(u)
    BY <1>3, <2>3, <2>4 DEF Notices, ArcsTo
  <2>6. \A n, p : f \notin Holders(n, p) /\ a # BackOnly(n, p)
    BY <1>3, <2>3 DEF Holders, BackOnly
  <2>7. a \in Forward
    BY <1>3 DEF Forward
  <2> QED
    BY <1>3, <2>1, <2>3, <2>4, <2>5, <2>6, <2>7
<1> QED
  BY <1>2, <1>3

LEMMA ExchangeCore ==
  ASSUME Core, TypeOK', NEW t \in Tasks, Exchange(t)
  PROVE  Core'
<1> USE DEF setup, ghost
<1>1. /\ t \in Threads /\ t \in Nodes /\ todo[t] # <<>> /\ Cur(t).op = "exchange" /\ At(t, "exchange")
      /\ Cur(t) \in Frame
  BY AtTop, TopLies, NodesApart DEF Exchange, Core
<1>2. phase[t] = "done" /\ head[t].tag = "open" /\ todo[t] = Tail(Tail(BodyFrames(t))) /\ Finished(t)
  BY <1>1, WorkerStage DEF Core, Finished
<1>3. PICK s \in Seq(Arc) : s = Lists[t]
  BY <1>1, Families DEF Core
<1>4. s = head[t].arcs /\ DOMAIN s = 1..Len(s) /\ Len(s) \in Nat
  BY <1>1, <1>2, <1>3, Families DEF Core
<1>5. PICK fs : fs = [i \in 1..Len(s) |-> ArcFrame(s[i])]
  OBVIOUS
<1>6. DOMAIN fs = DOMAIN s /\ \A i \in DOMAIN s : fs[i] = ArcFrame(s[i])
  BY <1>4, <1>5
<1>7. ASSUME NEW i \in DOMAIN s
      PROVE  LET f == fs[i] IN
             /\ f \in Frame /\ f.op \in {"dec", "flow"} /\ s[i] \in Arc
             /\ f.op = "dec" => f.k = 1 /\ Finished(f.node) /\ f.port \in Slots(f.node)
             /\ f.op = "flow" => f.node \in Tasks /\ f.port \in Slots(t)
             /\ \A u : f \in Notices(u) <=> s[i] \in ArcsTo(u)
             /\ \A n, p : f \in Holders(n, p) <=> s[i] = BackOnly(n, p)
             /\ \A n, p : f \in Turning(n, p) => s[i] \in Forward
  <2>1. PICK a \in Arc : a = s[i]
    BY <1>3, <1>7, Member
  <2>2. Apt(t, a)
    BY <1>1, <1>3, <1>7, <2>1 DEF Core, Linked
  <2>3. PICK f : f = ArcFrame(a)
    OBVIOUS
  <2>4. /\ f \in Frame /\ f.node = a.node /\ f.port = a.port
        /\ a.kind = "back_only" =>
              f.op = "dec" /\ f.k = 1 /\ Finished(f.node) /\ f.port \in Slots(f.node)
        /\ a.kind # "back_only" => f.op = "flow" /\ f.k = 0 /\ f.node \in Tasks /\ f.port \in Slots(t)
        /\ \A u : f \in Notices(u) <=> a \in ArcsTo(u)
        /\ \A n, p : f \in Holders(n, p) <=> a = BackOnly(n, p)
        /\ \A n, p : f \in Turning(n, p) => a \in Forward
    BY <2>2, <2>3, ArcFrameIs
  <2>5. fs[i] = f
    BY <1>6, <1>7, <2>1, <2>3
  <2> QED
    BY <2>1, <2>4, <2>5
<1>8. fs \in Seq(Frame)
  <2>1. \A i \in 1..Len(s) : fs[i] \in Frame
    BY <1>4, <1>7
  <2>2. fs \in [1..Len(s) -> Frame]
    BY <1>5, <2>1
  <2> QED
    BY <1>4, <2>2
<1>9. /\ head' = [head EXCEPT ![t] = Done] /\ Then(t, fs)
      /\ UNCHANGED <<node, startCount, life, nextWriter, countdown, woken, count, refs, setup, ghost>>
  BY <1>4, <1>5 DEF Exchange
<1>10. head'[t] = Done /\ Done.tag = "done" /\ \A n \in Nodes : n # t => head'[n] = head[n]
  BY <1>1, <1>9 DEF Core, TypeOK, Done
<1>11. /\ Lists'[t] = <<>> /\ \A n \in Nodes : n # t => Lists'[n] = Lists[n]
       /\ \A P : /\ Count(Lists', P) = Count(Lists, P) - Number(s, P)
                 /\ Count(Lists, P) \in Nat /\ Number(s, P) \in Nat /\ Count(Lists', P) \in Nat
  <2>1. Lists'[t] = <<>> /\ \A n \in Nodes : n # t => Lists'[n] = Lists[n]
    BY <1>1, <1>10 DEF Lists
  <2>2. PICK c \in Seq(Arc) : c = <<>>
    BY Short
  <2>3. Lists \in Family(Nodes, Arc) /\ IsFiniteSet(Nodes)
    BY Families, Finite DEF Core
  <2>4. Replaced(Lists', Lists, t, c)
    <3>1. Lists' = [n \in Nodes |-> Lists'[n]]
      BY DEF Lists
    <3>2. Lists = [n \in Nodes |-> Lists[n]]
      BY DEF Lists
    <3> QED
      BY <1>1, <2>1, <2>2, <3>1, <3>2 DEF Replaced
  <2>5. ASSUME NEW P
        PROVE  /\ Count(Lists', P) = Count(Lists, P) - Number(s, P)
               /\ Count(Lists, P) \in Nat /\ Number(s, P) \in Nat /\ Count(Lists', P) \in Nat
    <3>1. /\ Count(Lists', P) \in Nat /\ Count(Lists, P) \in Nat
          /\ Number(Lists[t], P) \in Nat /\ Number(c, P) \in Nat
          /\ Count(Lists', P) = Count(Lists, P) - Number(Lists[t], P) + Number(c, P)
      BY <1>1, <2>3, <2>4, CountAs
    <3>2. Number(c, P) = 0
      BY <2>2, NumberEmpty
    <3> QED
      BY <1>3, <3>1, <3>2
  <2> QED
    BY <2>1, <2>5
<1>12. \A P : /\ Count(todo', P) \in Nat /\ Count(todo, P) \in Nat /\ Number(fs, P) \in Nat
              /\ Count(todo', P) = Count(todo, P) - One(Cur(t) \in P) + Number(fs, P)
  BY <1>1, <1>8, <1>9, ThenCount DEF Core
<1>13. /\ Ahead(t) = {Cur(t)} \cup After(todo[t], 1)
       /\ Ahead(t)' = {fs[i] : i \in DOMAIN fs} \cup After(todo[t], 1)
       /\ \A y \in Threads : y # t => todo'[y] = todo[y] /\ Ahead(y)' = Ahead(y)
  BY <1>1, <1>8, <1>9, AheadThen DEF Core
<1>14. After(todo[t], 1) = {Rest3(t)[i] : i \in DOMAIN Rest3(t)}
  <2>1. Tail(todo[t]) = Rest3(t)
    BY <1>2, BodyIs DEF Core
  <2>2. todo[t] \in Seq(Frame)
    BY <1>1, Families DEF Core
  <2>3. After(todo[t], 1) = {todo[t][k] : k \in 2..Len(todo[t])}
    BY DEF After
  <2>4. /\ Len(Tail(todo[t])) = Len(todo[t]) - 1 /\ Len(todo[t]) \in Nat
        /\ \A i \in 1..(Len(todo[t]) - 1) : Tail(todo[t])[i] = todo[t][i + 1]
        /\ DOMAIN Tail(todo[t]) = 1..(Len(todo[t]) - 1)
    BY <1>1, <2>2
  <2>5. PICK q : q = Rest3(t)
    OBVIOUS
  <2>6. DOMAIN q = 1..(Len(todo[t]) - 1) /\ \A i \in 1..(Len(todo[t]) - 1) : q[i] = todo[t][i + 1]
    BY <2>1, <2>4, <2>5
  <2>7. ASSUME NEW f \in After(todo[t], 1)
        PROVE  f \in {q[i] : i \in DOMAIN q}
    <3>1. PICK k \in 2..Len(todo[t]) : f = todo[t][k]
      BY <2>3, <2>7
    <3>2. PICK i \in Int : i = k - 1
      BY <2>4
    <3>3. i \in 1..(Len(todo[t]) - 1) /\ i + 1 = k
      BY <2>4, <3>2
    <3>4. q[i] = f
      BY <2>6, <3>1, <3>3
    <3> QED
      BY <2>6, <3>3, <3>4
  <2>8. ASSUME NEW i \in DOMAIN q
        PROVE  q[i] \in After(todo[t], 1)
    <3>1. i \in 1..(Len(todo[t]) - 1)
      BY <2>6, <2>8
    <3>2. PICK k \in Int : k = i + 1
      BY <2>4, <3>1
    <3>3. k \in 2..Len(todo[t]) /\ q[i] = todo[t][k]
      BY <2>4, <2>6, <3>1, <3>2
    <3> QED
      BY <2>3, <3>3
  <2>9. After(todo[t], 1) = {q[i] : i \in DOMAIN q}
    BY <2>7, <2>8
  <2> QED
    BY <2>5, <2>9
<1>15. \A f \in After(todo[t], 1) : f \in Closing(t) /\ f.op \notin {"start", "finish", "exchange", "flow"}
  <2>1. \A i \in DOMAIN Rest3(t) : Rest3(t)[i] \in Closing(t)
    BY BodyFrame DEF Core
  <2>2. \A f \in After(todo[t], 1) : f \in Closing(t)
    BY <1>14, <2>1
  <2> QED
    BY <2>2 DEF Closing
<1>16. \A p \in Slots(t) : F("out", t, p, 0) \in After(todo[t], 1)
  <2>1. ASSUME NEW p \in Slots(t)
        PROVE  F("out", t, p, 0) \in After(todo[t], 1)
    <3>1. p \in Port
      BY <1>1, SlotsArePorts DEF Core
    <3>2. PICK o : o = F("out", t, p, 0)
      OBVIOUS
    <3>3. o \in Frame /\ o.op = "out" /\ o.node = t /\ o.port = p
      BY <1>1, <3>1, <3>2 DEF F, Frame, BodyOps
    <3>4. PICK P : P = {o}
      OBVIOUS
    <3>5. Number(todo[t], P) = 1
      <4>1. \A f \in Frame : f.op \notin {"out", "dec"} => f \notin P
        BY <3>3, <3>4
      <4>2. \A q : F("out", t, q, 0) \in P <=> q = p
        BY <3>2, <3>4 DEF F
      <4>3. Number(Tail(Tail(BodyFrames(t))), P) = 1
        BY <4>1, <4>2, OutOnce DEF Core
      <4> QED
        BY <1>2, <4>3
    <3>6. \E i \in DOMAIN todo[t] : todo[t][i] \in P
      <4>1. todo[t] \in Seq(Frame)
        BY <1>1, Families DEF Core
      <4>2. Number(todo[t], P) = 0 <=> \A i \in DOMAIN todo[t] : todo[t][i] \notin P
        BY <4>1, NumberNone
      <4> QED
        BY <3>5, <4>2
    <3>7. o \in Ahead(t)
      BY <3>4, <3>6 DEF Ahead
    <3> QED
      BY <1>1, <1>13, <3>2, <3>3, <3>7
  <2> QED
    BY <2>1
<1>17. \A u : Finished(u)' <=> Finished(u)
  BY <1>9, FinishedSame
<1>18. \A u : Slots(u)' = Slots(u)
  BY <1>9, SlotsStay
<1>19. Steady /\ Owing
  <2>1. \A n \in Nodes : head[n].tag = "done" => head'[n].tag = "done"
    BY <1>2, <1>10
  <2> QED
    BY <1>9, <2>1, SteadyIf DEF Owing
<1>20. Placed'
  <2>1. ASSUME NEW i \in DOMAIN fs
        PROVE  Fits(fs[i])'
    <3>1. PICK f : f = fs[i]
      OBVIOUS
    <3>2. /\ f.op \in {"dec", "flow"}
          /\ f.op = "dec" => f.k = 1 /\ Finished(f.node) /\ f.port \in Slots(f.node)
          /\ f.op = "flow" => f.node \in Tasks /\ f.port \in Slots(t)
      BY <1>6, <1>7, <3>1
    <3>3. Fits(f)'
      BY <1>17, <1>18, <3>2 DEF Fits
    <3> QED
      BY <1>9, <3>1, <3>3 DEF Fits, Finished, Slots, Writes, Protection
  <2>2. Sits(t, fs, After(todo[t], 1))
    <3>1. ASSUME NEW i \in DOMAIN fs
          PROVE  /\ fs[i].op \in {"dec", "flow"}
                 /\ fs[i].op = "flow" => fs[i].port \in Slots(t) /\ F("out", t, fs[i].port, 0) \in After(todo[t], 1)
      BY <1>6, <1>7, <1>16, <3>1
    <3> QED
      BY <3>1 DEF Sits, Calling, Asking, BodyOps
  <2> QED
    BY <1>1, <1>8, <1>9, <1>19, <2>1, <2>2, PlacedThen
<1>21. Linked'
  <2>1. \A n \in Nodes : \A i \in DOMAIN Lists'[n] : \A a \in Arc : a = Lists'[n][i] =>
          \E j \in DOMAIN Lists[n] : a = Lists[n][j]
    BY <1>11
  <2> QED
    BY <1>19, <2>1, LinkedStep
<1>22. Bodies'
  <2>1. ASSUME NEW u \in Tasks, u # t
        PROVE  Staged(u)'
    <3>1. u \in Nodes /\ todo'[u] = todo[u] /\ head'[u] = head[u]
      BY <1>10, <1>13, <2>1, NodesApart
    <3> QED
      BY <1>9, <3>1, StagedKept
  <2>2. Staged(t)'
    <3>1. Staged(t)
      BY DEF Core, Bodies
    <3>2. \A f \in Ahead(t)' : f.op \notin {"start", "finish", "exchange"}
      BY <1>6, <1>7, <1>13, <1>15
    <3>3. phase'[t] = "done" /\ head'[t].tag = "done" /\ node'[t] = node[t] /\ startCount'[t] = startCount[t]
      BY <1>2, <1>9, <1>10
    <3> QED
      BY <1>2, <3>1, <3>2, <3>3 DEF Staged
  <2> QED
    BY <2>1, <2>2 DEF Bodies
<1>23. Distinct'
  BY <1>9, DistinctSame
<1>24. Due'
  <2>1. ASSUME NEW u \in Tasks
        PROVE  Counted(u)'
    <3>1. Cur(t) \notin Notices(u) /\ Cur(t) \notin Protecting(u)
      BY <1>1, NoticeOps
    <3>2. Number(fs, Protecting(u)) = 0
      <4>1. \A i \in DOMAIN fs : fs[i] \notin Protecting(u)
        BY <1>6, <1>7, NoticeOps
      <4> QED
        BY <1>8, <4>1, NumberNone
    <3>3. Number(fs, Notices(u)) = Number(s, ArcsTo(u))
      BY <1>6, <1>7, NumberSame
    <3>4. Count(todo', Protecting(u)) = Count(todo, Protecting(u))
      BY <1>12, <3>1, <3>2 DEF One
    <3>5. Count(todo', Notices(u)) = Count(todo, Notices(u)) + Number(s, ArcsTo(u))
      BY <1>12, <3>1, <3>3 DEF One
    <3>6. HeldFor(Writer(u))' = HeldFor(Writer(u)) /\ HeldFor(Writer(u)) \in Nat
      BY <1>9, HeldForStays, HeldForNat
    <3>7. Coming(u)' = Coming(u)
      <4>1. Coming(u)' = Count(Lists', ArcsTo(u)) + Count(todo', Notices(u)) + HeldFor(Writer(u))'
        BY NoticeOps DEF Coming
      <4>2. Count(Lists', ArcsTo(u)) = Count(Lists, ArcsTo(u)) - Number(s, ArcsTo(u))
            /\ Count(Lists, ArcsTo(u)) \in Nat /\ Number(s, ArcsTo(u)) \in Nat
        BY <1>11
      <4>3. Count(todo, Notices(u)) \in Nat
        BY <1>12
      <4> QED
        BY <3>5, <3>6, <4>1, <4>2, <4>3 DEF Coming
    <3> QED
      BY <1>9, <3>4, <3>7, CountedKept
  <2> QED
    BY <2>1 DEF Due
<1>25. Undisturbed
  <2>1. \A u \in Nodes : \A q \in Slots(u) : Vacant(u, q) => Vacant(u, q)'
    BY <1>9, VacantSame
  <2>2. \A u \in Nodes : \/ head'[u] = head[u]
                         \/ /\ head[u].tag = "open" /\ head'[u].tag \in {"open", "done"}
                            /\ u \in Storage => head'[u].tag = "open"
    <3>1. t \notin Storage
      BY ConstantsAssumption
    <3> QED
      BY <1>2, <1>10, <3>1
  <2>3. \A i \in DOMAIN fs : fs[i].op \notin {"arg", "return"}
    BY <1>6, <1>7
  <2> QED
    BY <1>1, <1>8, <1>9, <2>1, <2>2, <2>3, UndisturbedThen
<1>26. Stores'
  <2>1. \A u \in Storage : u # t /\ u \in Nodes
    BY ConstantsAssumption DEF Nodes
  <2>2. \A u \in Storage : /\ Finished(u)' <=> Finished(u)
                           /\ Finished(u) \/ (head'[u] = head[u] /\ countdown'[u] = countdown[u])
    BY <1>9, <1>10, <1>17, <2>1
  <2> QED
    BY <1>25, <2>2, StoresKept
<1>27. Homes' /\ Firsts'
  BY <1>25, HomesKept, FirstsKept
<1>28. Callers'
  <2>1. \A i \in DOMAIN fs : fs[i].op \notin {"arg", "link", "hop", "late"}
    BY <1>6, <1>7
  <2> QED
    BY <1>1, <1>8, <1>9, <1>25, <2>1, CallsThen
<1>29. ASSUME NEW n \in Nodes, NEW p \in Slots(n)
       PROVE  /\ Held(n, p)' = Held(n, p)
              /\ Count(todo', Shares(n, p)) = Count(todo, Shares(n, p))
              /\ Count(todo', Outs(n, p)) = Count(todo, Outs(n, p))
              /\ \A y \in Threads : Ahead(y)' \cap Shares(n, p) \subseteq Ahead(y)
              /\ Named(nextWriter[n][p])'
  <2>1. Cur(t) \notin Marks(n, p)
    BY <1>1 DEF Marks
  <2>2. Number(fs, Holders(n, p)) = Number(s, {BackOnly(n, p)})
    <3>1. \A i \in DOMAIN fs : fs[i] \in Holders(n, p) <=> s[i] \in {BackOnly(n, p)}
      BY <1>6, <1>7
    <3> QED
      BY <1>6, <3>1, NumberSame
  <2>3. Count(todo', Holders(n, p)) = Count(todo, Holders(n, p)) + Number(s, {BackOnly(n, p)})
    BY <1>12, <2>1, <2>2, MarksAre DEF One
  <2>4. Held(n, p)' = Held(n, p)
    <3>1. BackOnly(n, p)' = BackOnly(n, p) /\ Holders(n, p)' = Holders(n, p) /\ Ready' = Ready
      BY MarksAre DEF Ready
    <3>2. Count(Lists', {BackOnly(n, p)}) = Count(Lists, {BackOnly(n, p)}) - Number(s, {BackOnly(n, p)})
          /\ Count(Lists, {BackOnly(n, p)}) \in Nat /\ Number(s, {BackOnly(n, p)}) \in Nat
      BY <1>11
    <3>3. Count(todo, Holders(n, p)) \in Nat
      BY <1>12
    <3> QED
      BY <1>9, <2>3, <3>1, <3>2, <3>3 DEF Held
  <2>5. \A i \in DOMAIN fs : fs[i] \notin Shares(n, p) /\ fs[i] \notin Outs(n, p)
    BY <1>6, <1>7 DEF Shares, Outs
  <2>6. Number(fs, Shares(n, p)) = 0 /\ Number(fs, Outs(n, p)) = 0
    BY <1>8, <2>5, NumberNone
  <2>7. Count(todo', Shares(n, p)) = Count(todo, Shares(n, p)) /\ Count(todo', Outs(n, p)) = Count(todo, Outs(n, p))
    BY <1>12, <2>1, <2>6, MarksAre DEF One
  <2>8. \A y \in Threads : Ahead(y)' \cap Shares(n, p) \subseteq Ahead(y)
    BY <1>1, <1>13, <2>5
  <2>9. Named(nextWriter[n][p])'
    BY <1>9, NamedStays
  <2> QED
    BY <2>4, <2>7, <2>8, <2>9
<1>30. ASSUME NEW p \in Slots(t)
       PROVE  Tallied(t, p)'
  <2>1. Tallied(t, p)
    BY <1>1 DEF Core, Tallies
  <2>2. PICK o : o = F("out", t, p, 0)
    OBVIOUS
  <2>3. o \in Ahead(t) /\ o \in Outs(t, p)
    <3>1. o \in Ahead(t)
      BY <1>13, <1>16, <2>2
    <3>2. o \in Frame
      BY <1>1, <3>1, AheadFits DEF Core
    <3> QED
      BY <2>2, <3>1, <3>2 DEF Outs, F
  <2>4. Count(todo, Outs(t, p)) >= 1 /\ Count(todo, Outs(t, p)) \in Nat
    BY <1>1, <1>12, <2>3, TodoNone DEF Core
  <2>5. count[t][p] = Half
    BY <1>1, <1>2, <2>1, <2>4 DEF Tallied
  <2>6. Number(todo'[t], Turning(t, p)) + 3 <= Half
    <3>1. /\ Number(todo'[t], Turning(t, p)) = Number(todo[t], Turning(t, p)) - One(Cur(t) \in Turning(t, p)) + Number(fs, Turning(t, p))
          /\ Number(todo[t], Turning(t, p)) \in Nat /\ Number(fs, Turning(t, p)) \in Nat
      BY <1>1, <1>8, <1>9, ThenNumber DEF Core
    <3>2. Number(todo[t], Turning(t, p)) = 0
      <4>1. \A f \in Ahead(t) : f.op # "flow"
        BY <1>1, <1>13, <1>15
      <4>2. \A i \in DOMAIN todo[t] : todo[t][i] \notin Turning(t, p)
        BY <4>1 DEF Ahead, Turning
      <4> QED
        BY <1>1, <4>2, NumberNone, Families DEF Core
    <3>3. Cur(t) \notin Turning(t, p)
      BY <1>1 DEF Turning
    <3>4. Number(fs, Turning(t, p)) <= Number(s, Forward)
      <4>1. Places(fs, Turning(t, p)) \subseteq Places(s, Forward)
        BY <1>6, <1>7 DEF Places
      <4>2. IsFiniteSet(Places(s, Forward))
        BY <1>3, NumberType
      <4> QED
        BY <4>1, <4>2, FS_Subset DEF Number
    <3>5. Number(s, Forward) + 3 <= Half /\ Number(s, Forward) \in Nat
      BY <1>1, <1>3, FlowsFew
    <3> QED
      BY <3>1, <3>2, <3>3, <3>4, <3>5, Numbers DEF One
  <2>7. Exact(t, p)'
    <3>1. Exact(t, p)
      BY <1>2, <2>1 DEF Tallied
    <3>2. \A f : Share(f)' = Share(f)
      BY <1>9 DEF Share
    <3> QED
      BY <1>1, <1>9, <1>29, <3>1, <3>2, MarksAre DEF Exact
  <2>8. Number(todo'[t], Turning(t, p)) \in Nat /\ Half \in Int
    BY <1>1, <1>8, <1>9, ThenNumber, Numbers DEF Core
  <2>9. count'[t][p] = Half /\ nextWriter'[t][p] = nextWriter[t][p] /\ countdown'[t][p] = countdown[t][p]
    BY <1>9, <2>5
  <2>10. count'[t][p] >= Number(todo'[t], Turning(t, p)) + 3
    BY <2>6, <2>8, <2>9
  <2>11. /\ Count(todo', Shares(t, p)) = Count(todo, Shares(t, p))
         /\ Count(todo', Outs(t, p)) = Count(todo, Outs(t, p))
         /\ Named(nextWriter[t][p])'
    BY <1>1, <1>29
  <2>12. Ready' = Ready /\ Null' = Null
    BY DEF Ready, Null
  <2> QED
    BY <1>2, <1>17, <2>1, <2>4, <2>7, <2>9, <2>10, <2>11, <2>12, MarksAre DEF Tallied
<1>31. Tallies'
  <2>1. ASSUME NEW n \in Nodes, NEW p \in Slots(n), n # t, Finished(n)
        PROVE  Tallied(n, p)'
    <3>1. Tallied(n, p)
      BY DEF Core, Tallies
    <3>2. PICK e \in Int : e = 0
      OBVIOUS
    <3>3. countdown[n][p] \in Int /\ Held(n, p) \in Nat
      <4>1. p \in Port
        BY SlotsArePorts DEF Core
      <4>2. countdown[n][p] \in Int
        BY <4>1 DEF Core, TypeOK
      <4>3. Held(n, p) \in Nat
        BY HeldNat DEF Core
      <4> QED
        BY <4>2, <4>3
    <3>4. countdown'[n][p] = countdown[n][p] + e /\ Held(n, p)' = Held(n, p) + e
      BY <1>9, <1>29, <3>2, <3>3
    <3>5. Count(todo, Outs(n, p)) > 0 => nextWriter'[n][p] # Ready
      BY <1>9, <3>1 DEF Tallied
    <3>6. Count(todo, Outs(n, p)) = 0 => nextWriter'[n][p] # Null
      BY <1>9, <2>1, <3>1 DEF Tallied
    <3>7. n \in Tasks => /\ count'[n][p] = count[n][p]
                         /\ Number(todo'[n], Turning(n, p)) = Number(todo[n], Turning(n, p))
                         /\ head'[n].tag = "open" => head[n].tag = "open"
      BY <1>9, <1>10, <1>13, <2>1, NodesApart
    <3>8. Finished(n)'
      BY <1>17, <2>1
    <3> QED
      BY <1>29, <2>1, <3>4, <3>5, <3>6, <3>7, <3>8, TalliedBy
  <2>2. ASSUME NEW n \in Nodes, NEW p \in Slots(n), ~Finished(n)
        PROVE  Tallied(n, p)'
    <3>1. \A i \in DOMAIN fs : fs[i] \notin Marks(n, p)
      BY <1>6, <1>7, <2>2 DEF Marks
    <3>2. Number(s, {BackOnly(n, p)}) = 0
      <4>1. \A i \in DOMAIN s : s[i] \notin {BackOnly(n, p)}
        <5>1. \A i \in DOMAIN s : fs[i] \notin Holders(n, p)
          BY <1>6, <3>1, MarksAre
        <5> QED
          BY <1>7, <5>1
      <4> QED
        BY <1>3, <4>1, NumberNone
    <3>3. Count(Lists', {BackOnly(n, p)}) = Count(Lists, {BackOnly(n, p)})
      BY <1>11, <3>2
    <3>4. n # t
      BY <1>2, <2>2
    <3>5. Cur(t) \notin Marks(n, p)
      BY <1>1 DEF Marks
    <3>6. n \in Tasks => /\ count'[n][p] = count[n][p]
                         /\ head'[n].tag = "open" => head[n].tag = "open"
      BY <1>9, <1>10, <3>4
    <3> QED
      BY <1>1, <1>8, <1>9, <1>17, <3>1, <3>3, <3>4, <3>5, <3>6, TalliedThen
  <2> QED
    BY <1>18, <1>30, <2>1, <2>2 DEF Tallies
<1> QED
  BY <1>20, <1>21, <1>22, <1>23, <1>24, <1>26, <1>27, <1>28, <1>31 DEF Core

(***************************************************************************)
(* A variable is given its next writer                                     *)
(***************************************************************************)
LEMMA WriteArgCore ==
  ASSUME Core, TypeOK', NEW x \in Clients, WriteArg(x)
  PROVE  Core'
<1> USE DEF ghost
<1>a. /\ x \in Threads /\ todo[x] # <<>> /\ Cur(x).op = "arg" /\ Cur(x) \in Ahead(x) /\ Cur(x) \in Frame
      /\ At(x, "arg") /\ Fits(Cur(x)) /\ Lies(x, todo[x], 1) /\ todo[x][1] = Cur(x) /\ InRun(x)
  BY CallTop, AtArg DEF Calling, Asking
<1>b. PICK t \in Tasks : t = making[x] /\ t \in Nodes /\ phase[t] = "pending" /\ Guards(t) = 1
                         /\ startCount[t] = Coming(t) + Protection(t)
  BY CallTop, AtArg DEF Calling, Asking
<1>c. PICK i \in DOMAIN args[t] : i = Cur(x).port
  BY <1>a, <1>b, InSetup DEF Core, SetupOps
<1>d. PICK v \in Nodes : v = args[t][i].v
  BY SMTT(30), ArgOf DEF Core
<1>e. args[t][i].w /\ ~var[v].deferred /\ i \in Writes(t)
  BY Zenon, <1>b, <1>c, <1>d, WriteArgSays DEF Writes
<1>f. Modifies(x, v) /\ InUse(v) /\ var[v].live /\ last[v] >= 1
  BY <1>a, <1>b, <1>d, <1>e, ArgumentOf DEF Core, Callers, Called
<1>g. /\ \A y \in Clients \ {x} : ~Modifies(y, v) /\ (Reads(y, v) => v \in Deferred /\ last[v] <= 1)
      /\ var[t] = New(t) /\ v # t
      /\ t # NoTask /\ \A y \in Clients : making[y] = t => y = x
      /\ owed[t] + Number(todo[x], Asks) <= Len(args[t])
  <2>1. Called(x)
    BY DEF Core, Callers
  <2>2. t # NoTask
    BY ConstantsAssumption DEF NoTask
  <2>3. var[t] = New(t)
    BY <1>a, <1>b, <2>1 DEF Called
  <2>4. v # t
    BY <1>f, <2>3 DEF New
  <2> QED
    BY <1>a, <1>b, <1>f, <2>1, <2>2, <2>3, <2>4 DEF Called, Asks
<1>h. PICK q \in Port : q = PortOf(t, i) /\ q \in Slots(t) /\ q # 0
  BY <1>e, PortsApart DEF Core
<1>i. Cur(x) = F("arg", t, i, 0) /\ ToWrite(x, i)
  <2>1. Cur(x).node = t /\ Cur(x).port = i /\ Cur(x).k = 0
    BY <1>a, <1>b, <1>c DEF Lies, Fits
  <2>2. Cur(x) = F("arg", t, i, 0)
    BY <1>a, <2>1 DEF Frame, F
  <2> QED
    BY <1>a, <1>b, <1>e, <2>2 DEF ToWrite
<1>3. PICK n \in Nodes, p \in Port : n = var[v].cur /\ p = var[v].port
  BY DEF Core, TypeOK, OoxVar
<1>4. p \in Slots(n) /\ node[n] # "unborn" /\ Vacant(n, p) /\ node[v] # "unborn"
      /\ SlotOf(v) = <<n, p>>
  <2>1. SlotOf(v) = <<n, p>>
    BY <1>3 DEF SlotOf
  <2>2. p \in Slots(n) /\ node[n] # "unborn" /\ Vacant(n, p)
    BY SMTT(30), <1>3, <1>f, SlotIs DEF Core
  <2> QED
    BY <1>f, <2>1, <2>2 DEF Core, Homes, Settled
<1>j. /\ n # t /\ Vacant(t, q)
      /\ SlotOf(v) = <<v, 0>> /\ head[v].tag = "redirect" => head[v].arcs[1].node = t
  <2>1. Writing(x, i)
    BY <1>a, <1>b, <1>e, <1>i DEF Core, Callers, Called
  <2> QED
    BY <1>3, <1>b, <1>d, <1>h, <2>1 DEF Writing
<1>5. nextWriter[n][p] = Ready => Finished(n)
  BY <1>4, Untouched
<1>6. PICK d : d = Writer(t)
  OBVIOUS
<1>7. d # Null /\ d # Ready /\ d \in NextWriter /\ d.kind = "writer" /\ d.node = t
  BY <1>6, <1>b DEF Writer, Null, Ready, NextWriter
<1>8. PICK g : g = F("dec", n, p, 1)
  OBVIOUS
<1>9. g \in Frame /\ g.op = "dec" /\ g.node = n /\ g.port = p /\ g.k = 1
  BY <1>8 DEF F, Frame, CountOps
<1>10. PICK fs : fs = IF nextWriter[n][p] = Ready THEN <<g>> ELSE <<>>
  OBVIOUS
<1>11. /\ fs \in Seq(Frame) /\ \A k \in DOMAIN fs : fs[k] = g /\ nextWriter[n][p] = Ready
       /\ \A P : Number(fs, P) = One(nextWriter[n][p] = Ready /\ g \in P)
  <2>1. CASE nextWriter[n][p] = Ready
    <3>1. fs = <<g>>
      BY <1>10, <2>1
    <3>2. fs \in Seq(Frame) /\ \A k \in DOMAIN fs : fs[k] = g
      BY <1>9, <3>1, OneIs
    <3>3. \A P : Number(fs, P) = One(g \in P)
      BY <3>1, NumberOne
    <3> QED
      BY <2>1, <3>2, <3>3 DEF One
  <2>2. CASE nextWriter[n][p] # Ready
    <3>1. fs = <<>>
      BY <1>10, <2>2
    <3> QED
      BY <2>2, <3>1, NumberEmpty DEF One
  <2> QED
    BY <2>1, <2>2
<1>12. /\ UNCHANGED <<node, head, startCount, life, countdown, woken, count, refs, args, making, ghost>>
       /\ Then(x, fs)
       /\ nextWriter' = [nextWriter EXCEPT ![n][p] = d]
       /\ owed' = [owed EXCEPT ![t] = @ + 1]
       /\ var' = [var EXCEPT ![v] = [@ EXCEPT !.cur = t, !.port = q]]
  BY Zenon, <1>b, <1>c, <1>d, <1>h, <1>3, <1>6, <1>8, <1>10 DEF WriteArg, SetNextWriter, Owe
<1>13. /\ nextWriter'[n][p] = d
       /\ \A m \in Nodes, k \in Port : m # n \/ k # p => nextWriter'[m][k] = nextWriter[m][k]
       /\ \A m \in Nodes : m # n => nextWriter'[m] = nextWriter[m]
  BY <1>12 DEF Core, TypeOK
<1>14. /\ var'[v].cur = t /\ var'[v].port = q /\ SlotOf(v)' = <<t, q>> /\ ~var'[v].deferred
       /\ \A u \in Nodes : u # v => var'[u] = var[u] /\ SlotOf(u)' = SlotOf(u)
       /\ \A u \in Nodes : var'[u].live = var[u].live
  <2>1. var'[v] = [var[v] EXCEPT !.cur = t, !.port = q] /\ \A u \in Nodes : u # v => var'[u] = var[u]
    BY <1>12 DEF Core, TypeOK
  <2>2. var[v] \in OoxVar
    BY DEF Core, TypeOK
  <2>3. var'[v].live = var[v].live /\ var'[v].cur = t /\ var'[v].port = q /\ ~var'[v].deferred
    BY <1>e, <2>1, <2>2 DEF OoxVar
  <2> QED
    BY <2>1, <2>3 DEF SlotOf
<1>15. /\ Ahead(x) = {Cur(x)} \cup After(todo[x], 1)
       /\ Ahead(x)' = {fs[k] : k \in DOMAIN fs} \cup After(todo[x], 1)
       /\ \A y \in Threads : y # x => todo'[y] = todo[y] /\ Ahead(y)' = Ahead(y)
       /\ \A u \in Tasks : todo'[u] = todo[u]
  <2>1. \A u \in Tasks : u # x /\ u \in Threads
    BY NodesApart
  <2> QED
    BY <1>a, <1>11, <1>12, <2>1, AheadThen DEF Core
<1>k. \A P : /\ Count(todo', P) \in Nat /\ Count(todo, P) \in Nat /\ Number(fs, P) \in Nat
             /\ Count(todo', P) = Count(todo, P) - One(Cur(x) \in P) + Number(fs, P)
  BY <1>a, <1>11, <1>12, ThenCount DEF Core
<1>l. \A P : Cur(x) \notin P => Count(todo', P) = Count(todo, P) + Number(fs, P)
  BY <1>k DEF One
<1>16. \A y \in Threads : \A f \in Ahead(y)' : f \in Ahead(y) \/ (f = g /\ nextWriter[n][p] = Ready)
  BY <1>11, <1>15
<1>17. \A y \in Threads : \A f : f.op \notin {"dec", "arg"} => (f \in Ahead(y)' <=> f \in Ahead(y))
  BY <1>a, <1>9, <1>11, <1>15
<1>18. \A u \in Nodes : Finished(u)' <=> Finished(u)
  <2>1. ASSUME NEW u \in Nodes
        PROVE  Finished(u)' <=> Finished(u)
    <3>1. CASE u \in Tasks
      BY <1>12, <3>1 DEF Finished
    <3>2. CASE u \notin Tasks /\ (u # n \/ p # 0)
      BY <1>13, <2>1, <3>2, NodesApart DEF Finished, Null
    <3>3. CASE u \notin Tasks /\ u = n /\ p = 0
      <4>1. u \in Storage /\ Finished(u)
        BY <1>4, <3>3 DEF Core, Stores, Stored, Nodes
      <4>2. nextWriter'[u][0] # Null
        BY <1>7, <1>13, <3>3
      <4> QED
        BY <3>3, <4>1, <4>2 DEF Finished, Null
    <3> QED
      BY <3>1, <3>2, <3>3
  <2> QED
    BY <2>1
<1>19. \A u : Slots(u)' = Slots(u)
  BY <1>12, SlotsStay
<1>m. owed'[t] = owed[t] + 1 /\ \A u \in Tasks : u # t => owed'[u] = owed[u]
  BY <1>12 DEF Core, TypeOK
<1>20. Steady /\ Owing
  <2>1. \A u \in Storage : nextWriter[u][0] # Null => nextWriter'[u][0] # Null
    <3>1. Storage \subseteq Nodes
      BY DEF Nodes
    <3> QED
      BY <1>7, <1>13, <3>1, NodesApart
  <2>2. Owing
    BY <1>a, <1>b, <1>m DEF Owing, Calling, Asking
  <2> QED
    BY <1>12, <2>1, <2>2, SteadyIf
<1>21. Placed'
  <2>1. ASSUME NEW k \in DOMAIN fs
        PROVE  Fits(fs[k])'
    <3>1. PICK f : f = fs[k]
      OBVIOUS
    <3>2. f = g /\ Finished(n)'
      BY <1>5, <1>11, <1>18, <3>1
    <3>3. Fits(f)'
      BY <1>4, <1>9, <1>19, <3>2 DEF Fits
    <3>4. f' = f
      OBVIOUS
    <3> QED
      BY <3>1, <3>3, <1>12 DEF Fits, Finished, Slots, Writes, Protection
  <2>2. Sits(x, fs, After(todo[x], 1))
    BY <1>9, <1>11 DEF Sits, Calling, Asking, BodyOps
  <2> QED
    BY <1>a, <1>11, <1>12, <1>20, <2>1, <2>2, PlacedThen
<1>22. Lists' = Lists
  BY <1>12 DEF Lists
<1>23. Linked'
  BY <1>20, <1>22, LinkedSame
<1>24. Bodies'
  <2>1. ASSUME NEW u \in Tasks
        PROVE  Staged(u)'
    <3>1. phase[u] = "idle" => u # n
      BY <1>4 DEF Core, Bodies, Staged
    <3>2. phase[u] = "idle" => nextWriter'[u] = nextWriter[u]
      BY <1>13, <3>1, NodesApart
    <3>3. phase[u] = "idle" => owed'[u] = owed[u]
      BY <1>b, <1>m
    <3> QED
      BY <1>12, <1>15, <3>2, <3>3, StagedKept
  <2> QED
    BY <2>1 DEF Bodies
<1>25. Distinct'
  BY <1>12, DistinctSame
<1>n. owed[t] \in Int /\ Len(args[t]) \in Nat /\ owed[t] \in 0..Len(args[t])
  BY DEF Core, TypeOK, Due, Counted
<1>o. /\ Number(todo'[x], Asks) = Number(todo[x], Asks) - 1
      /\ Number(todo[x], Asks) \in Nat /\ Number(todo'[x], Asks) \in Nat
  <2>1. /\ Number(todo'[x], Asks) = Number(todo[x], Asks) - One(Cur(x) \in Asks) + Number(fs, Asks)
        /\ Number(todo[x], Asks) \in Nat /\ Number(todo'[x], Asks) \in Nat
    BY <1>a, <1>11, <1>12, ThenNumber DEF Core
  <2>2. Cur(x) \in Asks /\ g \notin Asks
    BY <1>a, <1>9 DEF Asks, Asking
  <2>3. Number(fs, Asks) = 0
    BY <1>11, <2>2 DEF One
  <2> QED
    BY <2>1, <2>2, <2>3 DEF One
<1>26. Due'
  <2>1. ASSUME NEW u \in Tasks
        PROVE  Counted(u)'
    <3>1. g \notin Notices(u) /\ g \notin Protecting(u) /\ Cur(x) \notin Notices(u) /\ Cur(x) \notin Protecting(u)
      BY <1>a, <1>9, NoticeOps
    <3>2. Count(todo', Protecting(u)) = Count(todo, Protecting(u)) /\ Count(todo', Notices(u)) = Count(todo, Notices(u))
      BY <1>11, <1>k, <1>l, <3>1 DEF One
    <3>3. CASE u # t
      <4>1. nextWriter[n][p] # Writer(u) /\ nextWriter'[n][p] # Writer(u)
        BY <1>4, <1>7, <1>13, <3>3 DEF Vacant, Openable, Null, Ready, Writer
      <4>2. \A m \in Nodes : \A k \in Port :
              ((k \in Slots(m)' /\ countdown'[m][k] > 0 /\ nextWriter'[m][k] = Writer(u))
                <=> (k \in Slots(m) /\ countdown[m][k] > 0 /\ nextWriter[m][k] = Writer(u)))
        BY <1>12, <1>13, <1>19, <4>1
      <4>3. Writer(u)' = Writer(u)
        BY DEF Writer
      <4>4. HeldFor(Writer(u))' = HeldFor(Writer(u))
        BY <4>2, <4>3, HeldForSame
      <4>5. Coming(u)' = Coming(u)
        BY <1>22, <3>2, <4>4, NoticeOps DEF Coming
      <4> QED
        BY <1>12, <1>m, <3>2, <3>3, <4>5, CountedKept
    <3>4. CASE u = t
      <4>1. HeldFor(d)' = HeldFor(d) + 1
        <5>1. countdown'[n][p] > 0
          BY <1>4, <1>12, VacantCount DEF Core
        <5>2. nextWriter'[n][p] = d /\ nextWriter[n][p] # d /\ p \in Slots(n)'
          BY <1>4, <1>7, <1>13, <1>19 DEF Vacant, Openable
        <5>3. \A m \in Nodes : \A k \in Port : m # n \/ k # p =>
                ((k \in Slots(m)' /\ countdown'[m][k] > 0 /\ nextWriter'[m][k] = d)
                  <=> (k \in Slots(m) /\ countdown[m][k] > 0 /\ nextWriter[m][k] = d))
          BY <1>12, <1>13, <1>19
        <5> QED
          BY <5>1, <5>2, <5>3, HeldForMore
      <4>2. HeldFor(Writer(t))' = HeldFor(d)' /\ HeldFor(d) = HeldFor(Writer(t)) /\ HeldFor(d) \in Nat
        <5>1. Writer(t)' = d
          BY <1>6 DEF Writer
        <5>2. HeldFor(d) \in Nat
          BY HeldForNat
        <5> QED
          BY <1>6, <5>1, <5>2
      <4>3. Coming(t)' = Coming(t) + 1 /\ Coming(t) \in Nat
        <5>1. Count(todo, Notices(t)) \in Nat /\ Count(Lists, ArcsTo(t)) \in Nat
          BY CountNat DEF Core
        <5> QED
          BY <1>22, <3>2, <3>4, <4>1, <4>2, <5>1, NoticeOps DEF Coming
      <4>4. Guards(t)' = 1
        BY <1>b, <3>2, <3>4, NoticeOps DEF Guards
      <4>5. Protection(t)' = Protection(t) - 1 /\ Protection(t) \in Int
        BY <1>m, <1>n, Numbers DEF Protection
      <4>6. Coming(t) <= owed[t]
        BY DEF Core, Due, Counted
      <4>7. startCount'[t] = Coming(t)' + Protection(t)' /\ Coming(t)' <= owed'[t]
        BY <1>b, <1>12, <1>m, <1>n, <4>3, <4>5, <4>6
      <4>8. owed'[t] \in 0..Len(args'[t])
        <5>1. Number(todo[x], Asks) >= 1
          BY <1>o
        <5> QED
          BY <1>g, <1>12, <1>m, <1>n, <1>o, <5>1
      <4> QED
        BY <3>4, <4>4, <4>7, <4>8 DEF Counted
    <3> QED
      BY <3>3, <3>4
  <2> QED
    BY <2>1 DEF Due
<1>27. Stores'
  <2>1. ASSUME NEW s \in Storage
        PROVE  Stored(s)'
    <3>1. Stored(s)
      BY DEF Core, Stores
    <3>2. Redirected(s)' <=> Redirected(s)
      BY <1>12 DEF Redirected, Writes, PortOf, Redirect, FlowBack
    <3>3. Finished(s)' <=> Finished(s)
      BY <1>18 DEF Nodes
    <3> QED
      BY <1>12, <3>1, <3>2, <3>3 DEF Stored, Open, Done
  <2> QED
    BY <2>1 DEF Stores
<1>28. \A u \in Nodes : InUse(u)' <=> InUse(u)
  <2>1. ASSUME NEW u \in Nodes, NEW y \in Clients
        PROVE  F("return", u, 0, 0)' \in Ahead(y)' <=> F("return", u, 0, 0) \in Ahead(y)
    <3>1. PICK f : f = F("return", u, 0, 0)
      OBVIOUS
    <3>2. f.op = "return" /\ F("return", u, 0, 0)' = f
      BY <3>1 DEF F
    <3> QED
      BY <1>17, <3>1, <3>2, NodesApart
  <2> QED
    BY <1>14, <2>1 DEF InUse
<1>29. Homes'
  <2>1. Settled(v)'
    <3>1. Vacant(t, q)'
      BY <1>12, <1>13, <1>j DEF Vacant, Openable, Null, Ready
    <3>2. Vacant(var[v].cur, var[v].port)'
      BY <1>14, <3>1 DEF Vacant
    <3>3. i \in Writes(t)' /\ PortOf(t, i)' = q /\ args'[t][i].v = v
      BY <1>12, <1>d, <1>e, <1>h DEF Writes, PortOf
    <3>4. InUse(v)' /\ node'[v] # "unborn"
      BY <1>4, <1>12, <1>28, <1>f
    <3>5. PICK m \in Tasks, k \in Port : m = t /\ k = q /\ m = var'[v].cur /\ k = var'[v].port
      BY <1>14
    <3>6. i \in Writes(m)' /\ args'[m][i].v = v /\ k = PortOf(m, i)'
      BY <3>3, <3>5
    <3>7. \E j \in Writes(var[v].cur)' : /\ var'[v].cur \in Tasks
                                         /\ args'[var'[v].cur][j].v = v
                                         /\ var'[v].port = PortOf(var[v].cur, j)'
      <4>1. Writes(var[v].cur)' = Writes(m)'
        BY <3>5 DEF Writes
      <4>2. PortOf(var[v].cur, i)' = PortOf(m, i)'
        BY <3>5 DEF PortOf, Writes
      <4> QED
        BY <3>5, <3>6, <4>1, <4>2
    <3> QED
      BY <3>2, <3>4, <3>7 DEF Settled
  <2>2. ASSUME NEW u \in Nodes, u # v
        PROVE  Settled(u)'
    <3>1. Settled(u)
      BY DEF Core, Homes
    <3>2. var'[u] = var[u] /\ (InUse(u)' <=> InUse(u)) /\ SlotOf(u)' = SlotOf(u)
      BY <1>14, <1>28, <2>2
    <3>3. InUse(u) => Vacant(var[u].cur, var[u].port)'
      <4>1. ASSUME InUse(u)
            PROVE  Vacant(var[u].cur, var[u].port)'
        <5>1. PICK m \in Nodes, k \in Port : m = var[u].cur /\ k = var[u].port
          BY DEF Core, TypeOK, OoxVar
        <5>2. Vacant(m, k)
          BY <4>1, <5>1, SlotIs DEF Core
        <5>3. m # n \/ k # p
          BY <1>3, <1>f, <2>2, <4>1, <5>1, SlotsApart DEF Core
        <5>4. nextWriter'[m][k] = nextWriter[m][k]
          BY <1>13, <5>3
        <5>5. Vacant(m, k)'
          BY <5>2, <5>4 DEF Vacant, Openable, Null, Ready
        <5>6. var'[u].cur = m /\ var'[u].port = k
          BY <3>2, <5>1
        <5> QED
          BY <5>5, <5>6 DEF Vacant
      <4> QED
        BY <4>1
    <3>4. Writes(var[u].cur)' = Writes(var[u].cur) /\ \A j : PortOf(var[u].cur, j)' = PortOf(var[u].cur, j)
      BY <1>12, <3>2 DEF Writes, PortOf
    <3> QED
      BY <1>12, <3>1, <3>2, <3>3, <3>4 DEF Settled, New
  <2> QED
    BY <2>1, <2>2 DEF Homes
<1>30. \A y \in Clients : /\ InRun(y)' <=> InRun(y)
                          /\ \A u : (Reads(y, u)' <=> Reads(y, u)) /\ (Modifies(y, u)' <=> Modifies(y, u))
  <2>1. ASSUME NEW y \in Clients
        PROVE  (InRun(y)' <=> InRun(y)) /\ CallArgs(y)' = CallArgs(y)
    <3>1. InRun(y)' <=> \E f \in Ahead(y)' : f.op = "return"
      BY DEF InRun, Ahead
    <3>2. InRun(y) <=> \E f \in Ahead(y) : f.op = "return"
      BY RunAhead
    <3>3. InRun(y)' <=> InRun(y)
      BY <1>17, <3>1, <3>2, NodesApart
    <3> QED
      BY <1>12, <3>3 DEF CallArgs
  <2> QED
    BY <2>1 DEF Reads, Modifies
<1>31. /\ \A y \in Clients : \A j : y # x \/ j # i => (ToWrite(y, j)' <=> ToWrite(y, j))
       /\ ~ToWrite(x, i)'
  <2>1. ASSUME NEW y \in Clients, NEW j
        PROVE  /\ y # x \/ j # i => (ToWrite(y, j)' <=> ToWrite(y, j))
               /\ y = x /\ j = i => ~ToWrite(y, j)'
    <3>1. PICK f : f = F("arg", making[y], j, 0)
      OBVIOUS
    <3>2. f.op = "arg" /\ f.port = j
      BY <3>1 DEF F
    <3>3. Writes(making[y])' = Writes(making[y]) /\ F("arg", making[y], j, 0)' = f
      BY <1>12, <3>1 DEF Writes, F
    <3>4. CASE y # x
      BY <1>15, <3>1, <3>3, <3>4, NodesApart DEF ToWrite
    <3>5. CASE y = x
      <4>1. f \in Ahead(x)' <=> f \in After(todo[x], 1)
        BY <1>9, <1>11, <1>15, <3>2
      <4>2. f \in After(todo[x], 1) => j # i
        <5>1. \A h \in After(todo[x], 1) : h.op = "arg" => Cur(x).port < h.port
          BY <1>a DEF Lies
        <5>2. Cur(x).port \in Int
          BY <1>a DEF Frame, Port
        <5> QED
          BY <1>c, <3>2, <5>1, <5>2
      <4>3. j # i => f # Cur(x)
        BY <1>c, <3>2
      <4>4. j # i => (f \in Ahead(x)' <=> f \in Ahead(x))
        BY <1>15, <4>1, <4>3
      <4> QED
        BY <3>1, <3>3, <3>5, <4>1, <4>2, <4>4 DEF ToWrite
    <3> QED
      BY <3>4, <3>5
  <2> QED
    BY <2>1
<1>p. \A j \in DOMAIN args[t] : args[t][j].v = v => j = i
  BY <1>b, <1>d, <1>e DEF Core, Distinct, Apart
<1>q. ~Reads(x, v)
  <2>1. ASSUME Reads(x, v)
        PROVE  FALSE
    <3>1. PICK j \in DOMAIN args[t] : args[t][j] = [v |-> v, w |-> FALSE]
      BY <1>a, <1>b, <2>1 DEF Reads, CallArgs
    <3>2. args[t][j] \in [v : Nodes, w : BOOLEAN]
      <4>1. args[t] \in Seq([v : Nodes, w : BOOLEAN])
        BY DEF Core, TypeOK
      <4> QED
        BY <4>1, Member
    <3>3. args[t][j].v = v /\ ~args[t][j].w
      <4>1. PICK c : c = [v |-> v, w |-> FALSE]
        OBVIOUS
      <4> QED
        BY <3>1, <3>2, <4>1, ArgIs
    <3>4. j = i
      BY <1>p, <3>3
    <3> QED
      BY <1>e, <3>3, <3>4
  <2> QED
    BY <2>1
<1>32. Firsts'
  <2>1. ASSUME NEW u \in Nodes, u # v
        PROVE  Put(u)'
    <3>1. Put(u)
      BY DEF Core, Firsts
    <3>2. \A y \in Clients : Modifies(y, u)' => Modifies(y, u)
      BY <1>30
    <3>3. Opening(u) => Opening(u)'
      <4>1. ASSUME Opening(u)
            PROVE  Opening(u)'
        <5>1. PICK y \in Clients : making[y] \in Tasks /\ \E j \in DOMAIN args[making[y]] :
                                     ToWrite(y, j) /\ args[making[y]][j].v = u
          BY <4>1 DEF Opening
        <5>2. PICK j \in DOMAIN args[making[y]] : ToWrite(y, j) /\ args[making[y]][j].v = u
          BY <5>1
        <5>3. y # x \/ j # i
          BY <1>b, <1>d, <2>1, <5>2
        <5>4. ToWrite(y, j)'
          BY <1>31, <5>2, <5>3
        <5>5. making'[y] \in Tasks /\ j \in DOMAIN args'[making'[y]] /\ args'[making'[y]][j].v = u
          BY <1>12, <5>1, <5>2
        <5> QED
          BY <5>4, <5>5 DEF Opening
      <4> QED
        BY <4>1
    <3> QED
      BY <1>12, <1>14, <2>1, <3>1, <3>2, <3>3 DEF Put
  <2>2. Put(v)'
    <3>1. Put(v)
      BY DEF Core, Firsts
    <3>2. \A y \in Clients : Modifies(y, v)' => y = x
      BY <1>30, <1>g
    <3>3. SlotOf(v)' # <<v, 0>>
      BY <1>14, <1>g
    <3>4. v \in Deferred /\ last[v] <= 1 => head[v].tag = "redirect"
      BY <1>e, <1>f, <3>1 DEF Put
    <3>5. var'[v].cur = making'[x] /\ last'[v] >= 1
      BY <1>12, <1>14, <1>b, <1>f
    <3>6. last[v] \in Nat
      BY DEF Core, TypeOK
    <3> QED
      BY <1>12, <1>14, <3>2, <3>3, <3>4, <3>5, <3>6 DEF Put
  <2> QED
    BY <2>1, <2>2 DEF Firsts
(* Another client that reads v meanwhile finds this writer through the redirect. *)
<1>r. ASSUME NEW y \in Clients, y # x, Reads(y, v)
      PROVE  /\ SlotOf(v) = <<v, 0>> /\ head[v] = Redirect(t, q) /\ v \notin Tasks
             /\ head[v].tag = "redirect" /\ Leads(v, t, q)'
  <2>1. v \in Deferred /\ last[v] <= 1 /\ v \in Storage /\ v \notin Tasks
    BY <1>g, <1>r, ConstantsAssumption
  <2>2. var[v].cur \in {v, t} /\ head[v].tag = "redirect"
    BY <1>b, <1>e, <1>f, <2>1 DEF Core, Firsts, Put
  <2>3. n = v /\ p = 0
    BY <1>3, <1>4, <1>j, <2>1, <2>2 DEF Slots
  <2>4. SlotOf(v) = <<v, 0>>
    BY <1>4, <2>3
  <2>5. PICK u \in Tasks : \E j \in Writes(u) : args[u][j].v = v /\ head[v] = Redirect(u, PortOf(u, j))
    BY <2>2, Redirects DEF Core
  <2>6. PICK j \in Writes(u) : args[u][j].v = v /\ head[v] = Redirect(u, PortOf(u, j))
    BY <2>5
  <2>7. u = t
    BY <1>j, <2>2, <2>4, <2>6, RedirectIs
  <2>8. j = i
    BY <1>p, <2>6, <2>7 DEF Writes
  <2>9. head[v] = Redirect(t, q)
    BY <1>h, <2>6, <2>7, <2>8
  <2> QED
    BY <1>14, <2>1, <2>2, <2>4, <2>9 DEF Leads
<1>s. \A u \in Nodes : u # v => \A m, k : Leads(u, m, k)' <=> Leads(u, m, k)
  BY <1>12, <1>14 DEF Leads, Redirect, FlowBack
<1>t. ASSUME NEW y \in Clients, NEW m, NEW k, Finds(y, m, k)
      PROVE  Finds(y, m, k)' \/ (m = v /\ k = 0 /\ y # x /\ Reads(y, v))
  <2>1. PICK u \in Nodes : Reads(y, u) /\ Leads(u, m, k)
    BY <1>t DEF Finds
  <2>2. CASE u # v
    BY <1>30, <1>s, <2>1, <2>2 DEF Finds
  <2>3. CASE u = v
    <3>1. y # x /\ Reads(y, v)
      BY <1>q, <2>1, <2>3
    <3>2. SlotOf(v) = <<v, 0>> /\ head[v] = Redirect(t, q) /\ Leads(v, t, q)'
      BY <1>r, <3>1
    <3>3. CASE SlotOf(v) = <<m, k>>
      BY <3>1, <3>2, <3>3
    <3>4. CASE head[v] = Redirect(m, k)
      <4>1. Redirect(t, q) = Redirect(m, k)
        BY <3>2, <3>4
      <4>2. m = t /\ k = q
        BY <4>1, RedirectIs
      <4> QED
        BY <1>30, <3>1, <3>2, <4>2 DEF Finds
    <3> QED
      BY <2>1, <2>3, <3>3, <3>4 DEF Leads
  <2> QED
    BY <2>2, <2>3
<1>u. ASSUME NEW y \in Clients, NEW m, NEW k, Begins(y, m, k)
      PROVE  Begins(y, m, k)'
  <2>1. ASSUME m = v, k = 0, y # x, Reads(y, v)
        PROVE  Begins(y, m, k)'
    <3>1. head[v] = Redirect(t, q) /\ head[v].tag = "redirect" /\ Leads(v, t, q)'
      BY <1>r, <2>1
    <3>2. head'[v].tag = "redirect" /\ head'[v].arcs[1].node = t /\ head'[v].arcs[1].port = q
      BY <1>12, <3>1, RedirectIs
    <3>3. Reads(y, v)'
      BY <1>30, <2>1
    <3> QED
      BY <2>1, <3>1, <3>2, <3>3 DEF Begins, Leads
  <2>2. CASE Finds(y, m, k)
    BY <1>t, <2>1, <2>2 DEF Begins
  <2>3. CASE ~Finds(y, m, k)
    <3>1. /\ k = 0 /\ head[m].tag = "redirect" /\ Reads(y, m)
          /\ Leads(m, head[m].arcs[1].node, head[m].arcs[1].port)
      BY <1>u, <2>3 DEF Begins
    <3>2. m \in Nodes
      BY <3>1, Argument DEF Core
    <3>3. CASE m = v
      BY <1>q, <2>1, <3>1, <3>3
    <3>4. CASE m # v
      <4>1. PICK a, b : a = head[m].arcs[1].node /\ b = head[m].arcs[1].port
        OBVIOUS
      <4>2. Leads(m, a, b)'
        BY <1>s, <3>1, <3>2, <3>4, <4>1
      <4>3. head'[m].arcs[1].node = a /\ head'[m].arcs[1].port = b /\ head' = head
        BY <1>12, <4>1
      <4> QED
        BY <1>30, <3>1, <4>2, <4>3 DEF Begins, Leads, Redirect, FlowBack
    <3> QED
      BY <3>3, <3>4
  <2> QED
    BY <2>2, <2>3
<1>v. ASSUME NEW y \in Clients, NEW f \in Ahead(y)
      PROVE  /\ f.op = "link" => Begins(y, f.node, f.port)'
             /\ f.op \in {"hop", "late"} => Finds(y, f.node, f.port)'
             /\ f.op = "hop" => f.node \in Tasks
  <2>1. /\ f.op = "link" => Begins(y, f.node, f.port)
        /\ f.op \in {"hop", "late"} => Finds(y, f.node, f.port)
        /\ f.op = "hop" => f.node \in Tasks
    BY DEF Core, Callers, Called
  <2>2. f.op = "late" => head[f.node].tag = "done"
    <3>1. Fits(f)
      BY AheadFits, NodesApart DEF Core
    <3> QED
      BY <3>1 DEF Fits
  <2>3. ASSUME f.op \in {"hop", "late"}
        PROVE  Finds(y, f.node, f.port)'
    <3>1. Finds(y, f.node, f.port)' \/ (f.node = v /\ y # x /\ Reads(y, v))
      BY <1>t, <2>1, <2>3
    <3>2. y # x /\ Reads(y, v) => v \notin Tasks /\ head[v].tag = "redirect"
      BY <1>r
    <3> QED
      BY <2>1, <2>2, <2>3, <3>1, <3>2
  <2>4. f.op = "link" => Begins(y, f.node, f.port)'
    BY <1>u, <2>1
  <2> QED
    BY <2>1, <2>3, <2>4
<1>33. Callers'
  <2>1. Called(x)'
    <3>1. Called(x)
      BY DEF Core, Callers
    <3>2. making'[x] = t /\ var'[t] = New(t)' /\ phase'[t] # "idle" /\ \A y \in Clients : making'[y] = t => y = x
      BY <1>b, <1>g, <1>12, <1>14 DEF New
    <3>3. \A j \in DOMAIN args'[t] : var'[args'[t][j].v].live
      <4>1. ASSUME NEW j \in DOMAIN args[t]
            PROVE  var'[args[t][j].v].live
        BY <1>a, <1>b, <1>14, ArgumentOf DEF Core
      <4> QED
        BY <1>12, <4>1
    <3>4. \A u \in Nodes : Modifies(x, u)' => last'[u] >= 1
      BY <1>a, <1>12, <1>30, <3>1 DEF Called
    <3>5. \A y \in Clients \ {x} : \A u \in Nodes : Modifies(x, u)' =>
            /\ ~Modifies(y, u)'
            /\ Reads(y, u)' => u \in Deferred /\ last'[u] <= 1
      BY SMTT(30), <1>a, <1>12, <1>30, <3>1 DEF Called
    <3>6. ASSUME NEW j \in Writes(t), ToWrite(x, j)'
          PROVE  Writing(x, j)'
      <4>1. j # i /\ ToWrite(x, j)
        BY <1>31, <3>6
      <4>2. Writing(x, j)
        BY <1>a, <1>b, <3>1, <4>1 DEF Called
      <4>3. j \in DOMAIN args[t] /\ args[t][j].v \in Nodes /\ args[t][j].v # v
        <5>1. j \in DOMAIN args[t]
          BY DEF Writes
        <5> QED
          BY <1>p, <4>1, <5>1, ArgOf DEF Core
      <4>4. PICK u \in Nodes : u = args[t][j].v
        BY <4>3
      <4>5. var'[u] = var[u] /\ SlotOf(u)' = SlotOf(u)
        BY <1>14, <4>3, <4>4
      <4>6. Vacant(t, PortOf(t, j))'
        <5>1. Vacant(t, PortOf(t, j))
          BY <1>b, <4>2 DEF Writing
        <5>2. PICK k : k = PortOf(t, j)
          OBVIOUS
        <5>3. nextWriter'[t][k] = nextWriter[t][k] /\ PortOf(t, j)' = k
          BY <1>12, <1>13, <1>b, <1>j, <5>2 DEF PortOf, Writes
        <5> QED
          BY <5>1, <5>2, <5>3 DEF Vacant, Openable, Null, Ready
      <4>7. making'[x] = t /\ args' = args /\ head' = head /\ u = args'[t][j].v
        BY <1>12, <1>b, <4>4
      <4> QED
        BY <1>b, <4>2, <4>4, <4>5, <4>6, <4>7 DEF Writing, Vacant, PortOf, Writes
    <3>7. owed'[t] + Number(todo'[x], Asks) <= Len(args'[t])
      BY <1>g, <1>12, <1>m, <1>n, <1>o
    <3>8. ASSUME NEW f \in Ahead(x)'
          PROVE  /\ f.op = "link" => Begins(x, f.node, f.port)'
                 /\ f.op \in {"hop", "late"} => Finds(x, f.node, f.port)'
                 /\ f.op = "hop" => f.node \in Tasks
      <4>1. f \in Ahead(x) \/ f.op = "dec"
        BY <1>a, <1>9, <1>16
      <4> QED
        BY <1>v, <4>1
    <3>9. Writes(making[x])' = Writes(t) /\ InRun(x)'
      BY <1>12, <1>30, <1>a, <1>b DEF Writes
    <3>10. \A j \in Writes(making[x])' : ToWrite(x, j)' => Writing(x, j)'
      BY <3>6, <3>9
    <3>11. New(making[x])' = New(t)'
      BY <3>2 DEF New
    <3>12. owed'[making'[x]] + Number(todo'[x], {f \in Frame : f.op \in Asking}) <= Len(args'[making'[x]])
      BY <3>2, <3>7 DEF Asks
    <3> QED
      BY <3>2, <3>3, <3>4, <3>5, <3>8, <3>9, <3>10, <3>11, <3>12 DEF Called
  <2>2. ASSUME NEW y \in Clients, y # x
        PROVE  Called(y)'
    <3>1. Called(y) /\ y \in Threads /\ todo'[y] = todo[y]
      BY <1>15, <2>2, NodesApart DEF Core, Callers
    <3>2. InRun(y) => /\ making[y] \in Tasks /\ making[y] \in Nodes /\ making[y] # v
                      /\ var'[making[y]] = New(making[y])
      <4>1. InRun(y) => making[y] \in Tasks /\ making[y] \in Nodes /\ var[making[y]] = New(making[y])
        BY <3>1, NodesApart DEF Called
      <4> QED
        BY <1>f, <1>14, <4>1 DEF New
    <3>3. \A u \in Nodes : Reads(y, u) \/ Modifies(y, u) => var'[u].live
      BY <1>14, Argument DEF Core
    <3>4. \A u \in Nodes : Modifies(y, u) =>
           /\ last'[u] >= 1
           /\ \A z \in Clients \ {y} : ~Modifies(z, u)' /\ (Reads(z, u)' => u \in Deferred /\ last'[u] <= 1)
      <4>1. \A u \in Nodes : Modifies(y, u) => InRun(y)
        BY DEF Modifies, CallArgs
      <4> QED
        BY <1>12, <1>30, <3>1, <4>1 DEF Called
    <3>5. ASSUME InRun(y), NEW k \in Writes(making[y]), Writing(y, k)
          PROVE  Writing(y, k)'
      <4>1. /\ args[making[y]][k].v \in Nodes /\ making[y] \in Tasks /\ k \in DOMAIN args[making[y]]
            /\ Modifies(y, args[making[y]][k].v)
        BY <3>5, ArgumentOf DEF Writes, Core
      <4>2. PortOf(making[y], k) \in Port /\ PortOf(making[y], k) # 0
        BY <3>5, <4>1, PortsApart DEF Core
      <4>3. n # making[y] \/ p # PortOf(making[y], k)
        <5>1. SUFFICES ASSUME n = making[y], p = PortOf(making[y], k)
                       PROVE  FALSE
          OBVIOUS
        <5>2. PICK j \in Writes(n) : args[n][j].v = v
          <6>1. n # v
            <7>1. var[n] = New(n)
              BY <3>1, <3>5, <5>1 DEF Called
            <7> QED
              BY <1>f, <7>1 DEF New
          <6>2. \E j \in Writes(n) : args[n][j].v = v
            BY <1>3, <1>f, <6>1, SlotIs DEF Core
          <6> QED
            BY <6>2
        <5>3. Modifies(y, v)
          BY <3>5, <5>1, <5>2, ArgumentOf DEF Writes, Core
        <5> QED
          BY <1>g, <2>2, <5>3
      <4>4. Vacant(making[y], PortOf(making[y], k))'
        <5>1. PICK m \in Nodes, l \in Port : m = making[y] /\ l = PortOf(making[y], k)
          BY <4>1, <4>2, NodesApart
        <5>2. Vacant(m, l)
          BY <3>5, <5>1 DEF Writing
        <5>3. nextWriter'[m][l] = nextWriter[m][l]
          BY <1>13, <4>3, <5>1
        <5>4. Vacant(m, l)'
          BY <5>2, <5>3 DEF Vacant, Openable, Null, Ready
        <5>5. making'[y] = m /\ PortOf(making[y], k)' = l
          BY <1>12, <5>1 DEF PortOf, Writes
        <5> QED
          BY <5>4, <5>5 DEF Vacant
      <4>5. PICK u \in Nodes : u = args[making[y]][k].v
        BY <4>1
      <4>6. u # v
        BY <1>g, <2>2, <4>1, <4>5
      <4>7. var'[u] = var[u] /\ SlotOf(u)' = SlotOf(u)
        BY <1>14, <4>6
      <4>8. making' = making /\ args' = args /\ head' = head
        BY <1>12
      <4> QED
        BY <3>5, <4>4, <4>5, <4>7, <4>8 DEF Writing, Vacant, PortOf, Writes
    <3>6. \A f \in Ahead(y) : /\ f.op = "link" => Begins(y, f.node, f.port)'
                              /\ f.op \in {"hop", "late"} => Finds(y, f.node, f.port)'
      BY <1>v
    <3>7. making[y] # NoTask => /\ phase'[making[y]] # "idle"
                                /\ \A z \in Clients : making'[z] = making[y] => z = y
      BY <1>12, <3>1 DEF Called
    <3>8. InRun(y) => \A k \in Writes(making[y]) : ToWrite(y, k) /\ Writing(y, k) => Writing(y, k)'
      BY <3>5
    <3>9. InRun(y) => var'[making[y]] = New(making[y])
      BY <3>2
    <3>10. making[y] \in Tasks => args'[making[y]] = args[making[y]] /\ owed'[making[y]] = owed[making[y]]
      BY <1>12, <1>g, <1>m, <2>2
    <3> QED
      BY <1>12, <3>1, <3>3, <3>4, <3>6, <3>7, <3>8, <3>9, <3>10, CalledKept
  <2> QED
    BY <2>1, <2>2 DEF Callers
<1>34. \A m, k : (m # n \/ k # p => g \notin Marks(m, k)) /\ Cur(x) \notin Marks(m, k)
  BY <1>a, <1>9 DEF Marks
<1>35. n \in Tasks => Number(todo'[n], Turning(n, p)) = Number(todo[n], Turning(n, p))
  BY <1>15
<1>36. Tallied(n, p)'
  <2>1. Count(todo', Holders(n, p)) = Count(todo, Holders(n, p)) + (IF nextWriter[n][p] = Ready THEN 1 ELSE 0)
    <3>1. g \in Holders(n, p)
      BY <1>9 DEF Holders
    <3> QED
      BY <1>11, <1>34, <1>l, <3>1, MarksAre DEF One
  <2>2. /\ Count(todo', Shares(n, p)) = Count(todo, Shares(n, p))
        /\ Count(todo', Outs(n, p)) = Count(todo, Outs(n, p))
    <3>1. g \notin Shares(n, p) /\ g \notin Outs(n, p)
      BY <1>9 DEF Shares, Outs
    <3>2. Cur(x) \notin Shares(n, p) /\ Cur(x) \notin Outs(n, p)
      BY <1>34, MarksAre
    <3>3. Number(fs, Shares(n, p)) = 0 /\ Number(fs, Outs(n, p)) = 0
      BY <1>11, <3>1 DEF One
    <3> QED
      BY <1>k, <1>l, <3>2, <3>3
  <2>3. \A y \in Threads : Ahead(y)' \cap Shares(n, p) \subseteq Ahead(y)
    <3>1. g \notin Shares(n, p)
      BY <1>9 DEF Shares
    <3> QED
      BY <1>16, <3>1
  <2>4. Named(nextWriter[n][p])'
    BY <1>7, <1>13 DEF Named
  <2>5. nextWriter'[n][p] # Null /\ nextWriter'[n][p] # Ready
    BY <1>7, <1>13
  <2>6. n \in Tasks => /\ count'[n][p] = count[n][p]
                       /\ Number(todo'[n], Turning(n, p)) = Number(todo[n], Turning(n, p))
                       /\ head'[n].tag = "open" => head[n].tag = "open"
    BY <1>12, <1>35
  <2>7. countdown'[n][p] = countdown[n][p] /\ (Finished(n)' <=> Finished(n))
        /\ Count(Lists', {BackOnly(n, p)}) = Count(Lists, {BackOnly(n, p)})
    BY <1>12, <1>18, <1>22
  <2> QED
    BY <1>4, <2>1, <2>2, <2>3, <2>4, <2>5, <2>6, <2>7, TakenTally
<1>37. Tallies'
  <2>1. ASSUME NEW m \in Nodes, NEW k \in Slots(m), m # n \/ k # p
        PROVE  Tallied(m, k)'
    <3>1. g \notin Marks(m, k)
      BY <1>34, <2>1
    <3>2. \A P \in SUBSET Marks(m, k) : Count(todo', P) = Count(todo, P)
      <4>1. ASSUME NEW P \in SUBSET Marks(m, k)
            PROVE  Count(todo', P) = Count(todo, P)
        <5>1. Cur(x) \notin P /\ g \notin P
          BY <1>34, <3>1
        <5>2. Number(fs, P) = 0
          BY <1>11, <5>1 DEF One
        <5> QED
          BY <1>k, <1>l, <5>1, <5>2
      <4> QED
        BY <4>1
    <3>3. \A y \in Threads : Ahead(y)' \cap Marks(m, k) \subseteq Ahead(y)
      BY <1>16, <3>1
    <3>4. countdown'[m][k] = countdown[m][k] /\ nextWriter'[m][k] = nextWriter[m][k]
      BY <1>12, <1>13, <2>1, SlotsArePorts DEF Core
    <3>5. ASSUME m \in Tasks
          PROVE  /\ count'[m][k] = count[m][k]
                 /\ Number(todo'[m], Turning(m, k)) <= Number(todo[m], Turning(m, k))
                 /\ head'[m].tag = "open" => head[m].tag = "open"
      <4>1. todo'[m] = todo[m] /\ todo[m] \in Seq(Frame)
        BY <1>15, <3>5, NodesApart, Families DEF Core
      <4>2. Number(todo[m], Turning(m, k)) \in Nat
        BY <4>1, NumberType
      <4> QED
        BY <1>12, <4>1, <4>2
    <3> QED
      BY <1>12, <1>18, <1>22, <3>2, <3>3, <3>4, <3>5, TalliedKept
  <2> QED
    BY <1>19, <1>36, <2>1 DEF Tallies
<1> QED
  BY <1>21, <1>23, <1>24, <1>25, <1>26, <1>27, <1>29, <1>32, <1>33, <1>37 DEF Core

(***************************************************************************)
(* What holds in every state                                               *)
(***************************************************************************)
LEMMA StutterCore ==
  ASSUME Core, TypeOK', UNCHANGED vars
  PROVE  Core'
<1>1. UNCHANGED <<node, head, startCount, life, nextWriter, countdown, woken, count, refs,
                  var, args, owed, making, todo, phase, mem, last, want>>
  BY DEF vars, engine, setup, ghost
<1>2. Steady /\ Owing
  BY <1>1, SteadyIf DEF Owing
<1>3. Placed'
  <2>1. ASSUME NEW x \in Threads, NEW i \in DOMAIN todo[x]
        PROVE  Fits(todo[x][i])' /\ Lies(x, todo[x], i)'
    <3>1. PICK s : s = todo[x]
      OBVIOUS
    <3>2. PICK f : f = s[i]
      OBVIOUS
    <3>3. f \in Ahead(x)
      BY <2>1, <3>1, <3>2 DEF Ahead
    <3>4. Fits(f)'
      BY <1>2, <3>3, FitsKept
    <3>5. Lies(x, s, i)'
      <4>1. Lies(x, s, i)
        BY <2>1, <3>1 DEF Core, Placed
      <4> QED
        BY <1>1, <4>1, LiesKept
    <3>6. todo'[x] = s
      BY <1>1, <3>1
    <3>7. Fits(todo[x][i])'
      BY <3>2, <3>4, <3>6 DEF Fits, Finished, Slots, Writes, Protection
    <3>8. Lies(x, todo[x], i)'
      BY <3>5, <3>6 DEF Lies, BindOf, ReturnOf
    <3> QED
      BY <3>7, <3>8
  <2> QED
    BY <1>1, <2>1 DEF Placed
<1>4. Lists' = Lists
  BY <1>1 DEF Lists
<1>5. Linked'
  BY <1>2, <1>4, LinkedSame
<1>6. Bodies'
  <2>1. ASSUME NEW t \in Tasks
        PROVE  Staged(t)'
    BY <1>1, StagedKept
  <2> QED
    BY <2>1 DEF Bodies
<1>7. Distinct'
  BY <1>1, DistinctSame
<1>8. Due'
  <2>1. ASSUME NEW t \in Tasks
        PROVE  Counted(t)'
    <3>1. HeldFor(Writer(t))' = HeldFor(Writer(t))
      BY <1>1, HeldForStays
    <3>2. Coming(t)' = Coming(t)
      BY <1>1, <1>4, <3>1, NoticeOps DEF Coming
    <3> QED
      BY <1>1, <3>2, CountedKept
  <2> QED
    BY <2>1 DEF Due
<1>9. Undisturbed
  <2>1. \A n \in Nodes : \A p \in Slots(n) : Vacant(n, p) => Vacant(n, p)'
    BY <1>1, VacantSame
  <2>2. \A y : Ahead(y)' = Ahead(y)
    BY <1>1 DEF Ahead
  <2>3. \A y \in Clients : \A i : ToWrite(y, i)' <=> ToWrite(y, i)
    BY <1>1 DEF ToWrite, Ahead, Writes, F
  <2> QED
    BY <1>1, <2>1, <2>2, <2>3 DEF Undisturbed
<1>10. Stores'
  BY <1>1, <1>9, StoresKept, FinishedSame
<1>11. Homes' /\ Firsts'
  BY <1>9, HomesKept, FirstsKept
<1>12. Callers'
  <2>1. \A x \in Clients : InRun(x) => owed'[making[x]] + Number(todo'[x], Asks) <= Len(args[making[x]])
    BY <1>1 DEF Core, Callers, Called, Asks
  <2>2. \A x \in Clients : Ahead(x)' = Ahead(x)
    BY <1>1 DEF Ahead
  <2> QED
    BY <1>9, <2>1, <2>2, CallsKept
<1>13. Tallies'
  <2>1. ASSUME NEW n \in Nodes, NEW p \in Slots(n)
        PROVE  Tallied(n, p)'
    <3>1. Finished(n)' <=> Finished(n)
      BY <1>1, FinishedSame
    <3>2. \A y \in Threads : Ahead(y)' \cap Marks(n, p) \subseteq Ahead(y)
      BY <1>1 DEF Ahead
    <3>3. n \in Tasks => Number(todo'[n], Turning(n, p)) <= Number(todo[n], Turning(n, p))
      <4>1. n \in Tasks => Number(todo[n], Turning(n, p)) \in Nat
        BY NodesApart, Families, NumberType DEF Core
      <4> QED
        BY <1>1, <4>1
    <3> QED
      BY <1>1, <1>4, <3>1, <3>2, <3>3, TalliedKept
  <2> QED
    BY <1>1, <2>1, SlotsStay DEF Tallies
<1> QED
  BY <1>3, <1>5, <1>6, <1>7, <1>8, <1>10, <1>11, <1>12, <1>13 DEF Core

LEMMA InitCore == Init => Core
<1> SUFFICES ASSUME Init
             PROVE  Core
  OBVIOUS
<1>1. TypeOK
  BY InitType
<1>2. /\ \A x \in Threads : todo[x] = <<>> /\ Ahead(x) = {} /\ DOMAIN todo[x] = {}
      /\ \A n \in Nodes : /\ node[n] = "unborn" /\ head[n] = Open(<<>>) /\ startCount[n] = 0
                          /\ last[n] = 0 /\ var[n] = New(n) /\ Lists[n] = <<>>
                          /\ \A p \in Port : nextWriter[n][p] = Null /\ countdown[n][p] = 1
      /\ \A t \in Tasks : args[t] = <<>> /\ owed[t] = 0 /\ phase[t] = "idle"
      /\ \A x \in Clients : making[x] = NoTask
  BY DEF Init, Ahead, Lists, Open, New
<1>3. Tasks \subseteq Nodes /\ Storage \subseteq Nodes /\ Tasks \subseteq Threads /\ Clients \subseteq Threads
  BY DEF Nodes, Threads
<1>4. \A n \in Nodes : /\ ~Finished(n) /\ 0 \in Port
                       /\ Slots(n) \subseteq Port /\ head[n].tag = "open"
  <2>1. 0 \in Port
    BY ConstantsAssumption DEF Port
  <2> QED
    BY <1>1, <1>2, <2>1, SlotsArePorts DEF Finished, Open
<1>5. Placed
  BY <1>2 DEF Placed
<1>6. Linked
  <2>1. \A n \in Nodes : DOMAIN Lists[n] = {}
    BY <1>2
  <2> QED
    BY <2>1 DEF Linked
<1>7. Bodies
  BY <1>2, <1>3, <1>4 DEF Bodies, Staged
<1>8. Distinct
  BY <1>2 DEF Distinct, Apart
<1>9. /\ \A P : Count(todo, P) = 0 /\ Count(Lists, P) = 0
      /\ \A d : d # Null => HeldFor(d) = 0
  <2>1. \A P : Count(todo, P) = 0
    BY <1>1, <1>2, TodoNone
  <2>2. \A P : Count(Lists, P) = 0
    BY <1>1, <1>2, ListsNone
  <2>3. ASSUME NEW d, d # Null
        PROVE  HeldFor(d) = 0
    <3>1. {s \in HeldSlots : nextWriter[s[1]][s[2]] = d} = {}
      BY <1>2, <2>3 DEF HeldSlots
    <3> QED
      BY <3>1, FS_EmptySet DEF HeldFor
  <2> QED
    BY <2>1, <2>2, <2>3
<1>10. Due
  <2>1. ASSUME NEW t \in Tasks
        PROVE  Counted(t)
    <3>1. Writer(t) # Null
      BY DEF Writer, Null
    <3>2. Coming(t) = 0 /\ Guards(t) = 0
      BY <1>9, <3>1 DEF Coming, Guards
    <3>3. owed[t] = 0 /\ Len(args[t]) = 0 /\ startCount[t] = 0
      BY <1>2, <1>3
    <3> QED
      BY <3>2, <3>3 DEF Counted
  <2> QED
    BY <2>1 DEF Due
<1>11. Stores
  BY <1>2, <1>3, <1>4 DEF Stores, Stored
<1>12. \A v \in Nodes : ~InUse(v) /\ ~var[v].live /\ ~var[v].deferred
  <2>1. ASSUME NEW v \in Nodes
        PROVE  ~var[v].live /\ ~var[v].deferred
    <3>1. var[v] = New(v)
      BY <1>2
    <3> QED
      BY <3>1 DEF New
  <2>2. ASSUME NEW v \in Nodes
        PROVE  ~InUse(v)
    <3>1. \A x \in Clients : Ahead(x) = {}
      BY <1>2, <1>3
    <3> QED
      BY <2>1, <3>1 DEF InUse
  <2> QED
    BY <2>1, <2>2
<1>13. Homes
  BY <1>2, <1>12 DEF Homes, Settled
<1>14. \A x \in Clients : ~InRun(x) /\ \A v : ~Reads(x, v) /\ ~Modifies(x, v)
  BY <1>2, <1>3 DEF InRun, Reads, Modifies, CallArgs
<1>15. Firsts
  BY <1>12, <1>14 DEF Firsts, Put
<1>16. Callers
  BY <1>2, <1>3, <1>14 DEF Callers, Called
<1>17. Tallies
  <2>1. ASSUME NEW n \in Nodes, NEW p \in Slots(n)
        PROVE  Tallied(n, p)
    <3>1. nextWriter[n][p] = Null /\ countdown[n][p] = 1 /\ p \in Port
      BY <1>2, <1>4
    <3>2. Named(Null) /\ Null # Ready
      BY DEF Named, Null, Ready
    <3> QED
      BY <1>4, <1>9, <3>1, <3>2 DEF Tallied
  <2> QED
    BY <2>1 DEF Tallies
<1> QED
  BY <1>1, <1>5, <1>6, <1>7, <1>8, <1>10, <1>11, <1>13, <1>15, <1>16, <1>17 DEF Core

LEMMA NextCore ==
  ASSUME Core, TypeOK', [Next]_vars
  PROVE  Core'
<1>1. ASSUME NEW x \in Clients, Call(x)
      PROVE  Core'
  <2>1. ASSUME NEW s \in Storage, Create(x, s)
        PROVE  Core'
    BY <2>1, CreateCore
  <2>2. ASSUME NEW t \in Tasks, NEW a \in ArgLists[t], Run(x, t, a)
        PROVE  Core'
    BY <2>2, LaunchCore DEF Run
  <2>3. ASSUME NEW v \in Nodes, Drop(x, v)
        PROVE  Core'
    BY <2>3, DropCore
  <2>4. ASSUME NEW v \in Waitable, WaitVar(x, v)
        PROVE  Core'
    BY <2>4, WaitVarCore
  <2> QED
    BY <1>1, <2>1, <2>2, <2>3, <2>4 DEF Call
<1>2. ASSUME NEW x \in Clients, ClientStep(x)
      PROVE  Core'
  BY <1>2, ReadArgCore, LinkCore, HopCore, LateCore, HoldCore, RedirectVarCore, MoveCore, WriteArgCore,
     BindCore, ReturnCore, WaitCore, BlockCore DEF ClientStep
<1>3. ASSUME NEW x \in Threads, CountStep(x)
      PROVE  Core'
  BY <1>3, PreCore, JoinCore, RelCore, SubCore, DecCore DEF CountStep
<1>4. ASSUME NEW t \in Tasks, WorkerStep(t)
      PROVE  Core'
  BY <1>4, StartCore, FinishCore, ExchangeCore, FlowCore, OutCore, WakeupCore DEF WorkerStep
<1>5. CASE Rest \/ UNCHANGED vars
  BY <1>5, StutterCore DEF Rest
<1> QED
  BY <1>1, <1>2, <1>3, <1>4, <1>5 DEF Next

(* Core is an inductive invariant. *)
THEOREM CoreHolds == Spec => []Core
<1>1. Init => Core
  BY InitCore
<1>2. Core /\ [Next]_vars => Core'
  <2>1. ASSUME Core, [Next]_vars
        PROVE  TypeOK'
    <3>1. TypeOK
      BY <2>1 DEF Core
    <3> QED
      BY <2>1, <3>1, NextType
  <2> QED
    BY <2>1, NextCore
<1> QED
  BY <1>1, <1>2, PTL DEF Spec

(* A task is started by its last prerequisite: in every reachable state its start_count is
   exactly what is still to come (assign_prerequisite, remove_prerequisite). *)
THEOREM StartCountsExact == Spec => []StartCountExact
<1>1. Core => StartCountExact
  <2>1. ASSUME Core, NEW t \in Tasks
        PROVE  startCount[t] = Coming(t) + (IF Count(todo, Protecting(t)) = 0 THEN 0 ELSE Protection(t))
    BY <2>1 DEF Core, Due, Counted, Guards
  <2> QED
    BY <2>1 DEF StartCountExact
<1> QED
  BY <1>1, CoreHolds, PTL

(* A slot is handed on by the last of its holders: in every reachable state its countdown
   is exactly those who hold it and the share its producer will take off (add_back_arc,
   remove_back_arc, do_notify_out). *)
THEOREM CountdownsExact == Spec => []CountdownExact
<1>1. Core => CountdownExact
  <2>1. ASSUME Core, NEW n \in Nodes, NEW p \in Slots(n), Alive(n)
        PROVE  IF n \in Tasks /\ phase[n] # "done" THEN countdown[n][p] = 1 ELSE Exact(n, p)
    <3>1. Tallied(n, p)
      BY <2>1 DEF Core, Tallies
    <3>2. CASE n \in Tasks
      BY <3>1, <3>2 DEF Tallied, Finished
    <3>3. CASE n \notin Tasks
      <4>1. n \in Storage /\ node[n] # "unborn"
        BY <2>1, <3>3 DEF Nodes, Alive
      <4>2. Finished(n)
        BY <2>1, <4>1 DEF Core, Stores, Stored
      <4> QED
        BY <3>1, <3>3, <4>2 DEF Tallied
    <3> QED
      BY <3>2, <3>3
  <2> QED
    BY <2>1 DEF CountdownExact
<1> QED
  BY <1>1, CoreHolds, PTL
=============================================================================
