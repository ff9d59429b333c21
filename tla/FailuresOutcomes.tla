-------------------------- MODULE FailuresOutcomes --------------------------
(***************************************************************************)
(* A failure reaches every task that depends on it before that task could  *)
(* run, for every program: as long as a task waits, each of its inputs is  *)
(* there, or on its way to it, or the task is warned already.  A mark has  *)
(* its reason: the exception that a task is marked with was thrown before  *)
(* it and is on its list.                                                  *)
(* So what waiters are told is true.  And an exception of what a task      *)
(* depends on reaches it, whatever else fails before.                      *)
(***************************************************************************)
EXTENDS FailuresProofs

(* f is of the construction of t or of its completion with a failure, which wait for what
   comes before them on a stack s. *)
Settles(f, t) == \/ f.op \in {"pre", "publish"} /\ f.node = t
                 \/ f.op = "exchange" /\ f.node = t /\ f.failed = TRUE
Settled(s, i, t) == \E f \in After(s, i) : Settles(f, t)

(* t has failed, or a thread is about to tell it, before it settles t. *)
Warns(f, t) == f.op \in {"mark", "set", "failure"} /\ f.node = t
Warned(t) ==
  \/ Failed(t)
  \/ \E x \in Threads : \E i \in DOMAIN todo[x] : Warns(todo[x][i], t) /\ Settled(todo[x], i, t)

(* What came out of u is on its way to t. *)
Brings(f, t, u) == f.op \in {"link", "late", "notify"} /\ f.node = t /\ f.from = u
Comes(t, u) == \E x \in Threads : \E i \in DOMAIN todo[x] : Brings(todo[x][i], t, u)
Hangs(t, u) == \E i \in DOMAIN head[u].arcs : head[u].arcs[i] \in Flows(t)
Reached(t, u) == Comes(t, u) \/ Hangs(t, u) \/ body[u] = "value" \/ Warned(t)

(* The state of one task: what it waits for reaches it, a failure is not forgotten, and
   what it runs on is there. *)
Arrived(t) ==
  /\ body[t] = "pending" => \A u \in Producers(t) : Reached(t, u)
  /\ body[t] = "forwarding" => \A u \in Forwarded(t) : Reached(t, u)
Blamed(t) ==
  /\ body[t] \in {"skipped", "threw"} => Warned(t)
  /\ IsDone(t) /\ body[t] # "value" => Failed(t)
Supplied(t) ==
  /\ body[t] \in {"running", "attached", "forwarding", "value", "threw"} =>
       \A u \in Producers(t) : body[u] = "value"
  /\ body[t] = "value" => \A u \in Forwarded(t) : body[u] = "value"

(* What a frame says of the producer it names is so... *)
Tells(f) ==
  /\ f.op = "late" => IsDone(f.from)
  /\ f.op = "notify" /\ f.failed = FALSE => body[f.from] = "value"
  /\ f.op = "look" => Forwards(f.node) /\ IsDone(Returns(f.node))
(* ... and whoever fails a task settles it later, but for a user who cancels. *)
Warrants(x, s, i) ==
  /\ s[i].op \in {"failure", "signal"} => Settled(s, i, s[i].node)
  /\ s[i].op \in {"mark", "set"} => Settled(s, i, s[i].node) \/ (x \in Users /\ s[i].bit = "user")

Outcome(t) == Arrived(t) /\ Blamed(t) /\ Supplied(t)
Outcomes ==
  /\ \A t \in Tasks : Outcome(t)
  /\ \A x \in Threads : \A i \in DOMAIN todo[x] : Tells(todo[x][i]) /\ Warrants(x, todo[x], i)

(***************************************************************************)
(* The places of frames                                                    *)
(***************************************************************************)

(* Place i of r has what place j of s has, over the same frames. *)
Same(r, i, s, j) == r[i] = s[j] /\ After(r, i) = After(s, j)
(* Place i of r has what place k of fs has, over the frames behind the head of s. *)
Put(r, i, fs, k, s) ==
  r[i] = fs[k] /\ After(fs, k) \subseteq After(r, i) /\ After(s, 1) \subseteq After(r, i)

(* x goes on with fs: all other frames stay, and there is no new one but a task's start. *)
Moved(x, fs) ==
  /\ \A y \in Threads : \A j \in DOMAIN todo[y] :
       (y = x /\ j = 1) \/ \E i \in DOMAIN todo'[y] : Same(todo'[y], i, todo[y], j)
  /\ \A y \in Threads : \A i \in DOMAIN todo'[y] :
       \/ \E j \in DOMAIN todo[y] : Same(todo'[y], i, todo[y], j)
       \/ y = x /\ \E k \in DOMAIN fs : Put(todo'[y], i, fs, k, todo[x])
       \/ todo'[y][i].op = "start"
  /\ \A k \in DOMAIN fs : \E i \in DOMAIN todo'[x] : Put(todo'[x], i, fs, k, todo[x])

LEMMA MovedThen ==
  ASSUME Inv, NEW x \in Threads, todo[x] # <<>>, NEW fs \in Seq(Frame), Then(x, fs)
  PROVE  Moved(x, fs)
<1>1. /\ \A y \in Threads : todo[y] \in Seq(Frame)
      /\ todo'[x] = fs \o Tail(todo[x]) /\ \A y \in Threads : y # x => todo'[y] = todo[y]
  BY Families DEF Inv, Frames, Then
<1>2. PICK r : r = todo'[x]
  OBVIOUS
<1>3. PICK s : s = todo[x]
  OBVIOUS
<1>4. /\ \A i \in DOMAIN r : Fresh(r, i, fs, s) \/ \E j \in DOMAIN s : Stale(r, i, s, j)
      /\ \A j \in DOMAIN s : j = 1 \/ \E i \in DOMAIN r : Stale(r, i, s, j)
      /\ \A i \in DOMAIN fs : i \in DOMAIN r /\ Fresh(r, i, fs, s)
  BY <1>1, <1>2, <1>3, GoesOn
<1>5. /\ \A i \in DOMAIN r : (\E k \in DOMAIN fs : Put(r, i, fs, k, s)) \/ \E j \in DOMAIN s : Same(r, i, s, j)
      /\ \A j \in DOMAIN s : j = 1 \/ \E i \in DOMAIN r : Same(r, i, s, j)
      /\ \A k \in DOMAIN fs : \E i \in DOMAIN r : Put(r, i, fs, k, s)
  BY <1>4 DEF Fresh, Stale, Same, Put
<1>6. \A y \in Threads : y # x => \A j \in DOMAIN todo[y] : j \in DOMAIN todo'[y] /\ Same(todo'[y], j, todo[y], j)
  BY <1>1 DEF Same
<1>7. \A y \in Threads : y # x => \A j \in DOMAIN todo'[y] : j \in DOMAIN todo[y] /\ Same(todo'[y], j, todo[y], j)
  BY <1>1 DEF Same
<1> QED
  BY <1>2, <1>3, <1>5, <1>6, <1>7 DEF Moved

LEMMA MovedUpon ==
  ASSUME Inv, NEW x \in Threads, NEW fs \in Seq(Frame), Upon(todo', todo, x, fs)
  PROVE  Moved(x, fs)
<1>1. /\ \A y \in Threads : todo[y] \in Seq(Frame)
      /\ todo'[x] = fs \o todo[x] /\ \A y \in Threads : y # x => todo'[y] = todo[y]
  BY Families DEF Inv, Frames, Upon
<1>2. PICK r : r = todo'[x]
  OBVIOUS
<1>3. PICK s \in Seq(Frame) : s = todo[x]
  BY <1>1
<1>4. OnTopOf(r, fs, s)
  BY <1>1, <1>2, <1>3, OnTop
<1>5. ASSUME NEW i \in DOMAIN fs
      PROVE  i \in DOMAIN r /\ Put(r, i, fs, i, s)
  <2>1. /\ i \in DOMAIN r /\ r[i] = fs[i] /\ After(fs, i) \subseteq After(r, i)
        /\ \A j \in DOMAIN s : s[j] \in After(r, i)
    BY <1>4 DEF OnTopOf
  <2>2. After(s, 1) \subseteq After(r, i)
    BY <1>3, <2>1 DEF After
  <2> QED
    BY <2>1, <2>2 DEF Put
<1>6. ASSUME NEW j \in DOMAIN s
      PROVE  Len(fs) + j \in DOMAIN r /\ Same(r, Len(fs) + j, s, j)
  BY <1>4 DEF OnTopOf, Same
<1>7. \A i \in DOMAIN r : i \in DOMAIN fs \/ \E j \in DOMAIN s : i = Len(fs) + j
  BY <1>4 DEF OnTopOf
<1>8. /\ \A i \in DOMAIN r : (\E k \in DOMAIN fs : Put(r, i, fs, k, s)) \/ \E j \in DOMAIN s : Same(r, i, s, j)
      /\ \A j \in DOMAIN s : \E i \in DOMAIN r : Same(r, i, s, j)
      /\ \A k \in DOMAIN fs : \E i \in DOMAIN r : Put(r, i, fs, k, s)
  BY <1>5, <1>6, <1>7
<1>9. \A y \in Threads : y # x => \A j \in DOMAIN todo[y] : j \in DOMAIN todo'[y] /\ Same(todo'[y], j, todo[y], j)
  BY <1>1 DEF Same
<1>10. \A y \in Threads : y # x => \A j \in DOMAIN todo'[y] : j \in DOMAIN todo[y] /\ Same(todo'[y], j, todo[y], j)
  BY <1>1 DEF Same
<1> QED
  BY <1>2, <1>3, <1>8, <1>9, <1>10 DEF Moved

(* Another task is started at the same time. *)
LEMMA MovedStart ==
  ASSUME Inv, NEW x \in Threads, todo[x] # <<>>, NEW fs \in Seq(Frame),
         NEW t \in Threads, t # x, NEW c, todo' = [todo EXCEPT ![x] = fs \o Tail(@), ![t] = c],
         c = todo[t] \/ (todo[t] = <<>> /\ c = <<[op |-> "start", node |-> t]>>)
  PROVE  Moved(x, fs)
<1>0. /\ todo'[x] = fs \o Tail(todo[x]) /\ todo'[t] = c
      /\ \A y \in Threads : y # x /\ y # t => todo'[y] = todo[y]
  BY DEF Inv, Frames
<1>1. CASE c = todo[t]
  <2>1. Then(x, fs)
    BY <1>1 DEF Inv, Frames, Then
  <2> QED
    BY <2>1, MovedThen
<1>2. CASE todo[t] = <<>> /\ c = <<[op |-> "start", node |-> t]>>
  <2>1. PICK r : r = todo'[x]
    OBVIOUS
  <2>2. PICK s \in Seq(Frame) : s = todo[x]
    BY Families
  <2>3. /\ \A i \in DOMAIN r : Fresh(r, i, fs, s) \/ \E j \in DOMAIN s : Stale(r, i, s, j)
        /\ \A j \in DOMAIN s : j = 1 \/ \E i \in DOMAIN r : Stale(r, i, s, j)
        /\ \A i \in DOMAIN fs : i \in DOMAIN r /\ Fresh(r, i, fs, s)
    BY <1>0, <2>1, <2>2, GoesOn
  <2>4. /\ \A i \in DOMAIN r : (\E k \in DOMAIN fs : Put(r, i, fs, k, s)) \/ \E j \in DOMAIN s : Same(r, i, s, j)
        /\ \A j \in DOMAIN s : j = 1 \/ \E i \in DOMAIN r : Same(r, i, s, j)
        /\ \A k \in DOMAIN fs : \E i \in DOMAIN r : Put(r, i, fs, k, s)
    BY <2>3 DEF Fresh, Stale, Same, Put
  <2>5. \A y \in Threads : y # x /\ y # t => \A j \in DOMAIN todo[y] : j \in DOMAIN todo'[y] /\ Same(todo'[y], j, todo[y], j)
    BY <1>0 DEF Same
  <2>6. \A y \in Threads : y # x /\ y # t => \A j \in DOMAIN todo'[y] : j \in DOMAIN todo[y] /\ Same(todo'[y], j, todo[y], j)
    BY <1>0 DEF Same
  <2>7. DOMAIN todo[t] = {} /\ \A i \in DOMAIN todo'[t] : todo'[t][i].op = "start"
    <3>1. PICK g : g = [op |-> "start", node |-> t]
      OBVIOUS
    <3>2. g.op = "start" /\ c = <<g>>
      BY <1>2, <3>1
    <3>3. \A i \in DOMAIN <<g>> : <<g>>[i] = g
      OBVIOUS
    <3>4. \A i \in DOMAIN c : c[i].op = "start"
      BY <3>2, <3>3
    <3>5. DOMAIN <<>> = {}
      OBVIOUS
    <3> QED
      BY <1>0, <1>2, <3>4, <3>5
  <2>8. /\ \A y \in Threads : \A j \in DOMAIN todo[y] :
             (y = x /\ j = 1) \/ \E i \in DOMAIN todo'[y] : Same(todo'[y], i, todo[y], j)
        /\ \A y \in Threads : \A i \in DOMAIN todo'[y] :
             \/ \E j \in DOMAIN todo[y] : Same(todo'[y], i, todo[y], j)
             \/ y = x /\ \E k \in DOMAIN fs : Put(todo'[y], i, fs, k, todo[x])
             \/ todo'[y][i].op = "start"
    <3>1. ASSUME NEW y \in Threads, NEW j \in DOMAIN todo[y]
          PROVE  (y = x /\ j = 1) \/ \E i \in DOMAIN todo'[y] : Same(todo'[y], i, todo[y], j)
      BY <2>1, <2>2, <2>4, <2>5, <2>7
    <3>2. ASSUME NEW y \in Threads, NEW i \in DOMAIN todo'[y]
          PROVE  \/ \E j \in DOMAIN todo[y] : Same(todo'[y], i, todo[y], j)
                 \/ y = x /\ \E k \in DOMAIN fs : Put(todo'[y], i, fs, k, todo[x])
                 \/ todo'[y][i].op = "start"
      <4>1. CASE y = x
        BY ZenonT(60), <2>1, <2>2, <2>4, <3>2, <4>1
      <4>2. CASE y = t
        BY <2>7, <3>2, <4>2
      <4>3. CASE y # x /\ y # t
        BY <2>6, <3>2, <4>3
      <4> QED
        BY <4>1, <4>2, <4>3
    <3> QED
      BY <3>1, <3>2
  <2> QED
    BY ZenonT(60), <2>1, <2>2, <2>4, <2>8 DEF Moved
<1> QED
  BY <1>1, <1>2

(***************************************************************************)
(* What settles a task                                                     *)
(***************************************************************************)

LEMMA Related ==
  ASSUME Inv, NEW t \in Tasks
  PROVE  /\ Producers(t) \subseteq Tasks /\ Forwarded(t) \subseteq Tasks
         /\ Forwards(t) => Returns(t) \in Tasks /\ Forwarded(t) = {Returns(t)}
         /\ ~Forwards(t) => Forwarded(t) = {}
<1>1. Inputs(t) \in Seq(Output) /\ Returns(t) \in Tasks \cup {NoTask}
  BY ProgramTypes DEF Inv, Types
<1>2. ASSUME NEW i \in DOMAIN Inputs(t)
      PROVE  Inputs(t)[i].task \in Tasks
  <2>1. PICK e : e = Inputs(t)[i]
    OBVIOUS
  <2>2. e \in Output
    BY <1>1, <2>1, Element
  <2> QED
    BY <2>1, <2>2 DEF Output
<1> QED
  BY <1>1, <1>2 DEF Producers, Forwarded, Forwards

(* A task that someone is still to settle is not done, and neither runs nor has a value. *)
LEMMA ToSettle ==
  ASSUME Core, NEW x \in Threads, NEW i \in DOMAIN todo[x], NEW t \in Tasks,
         Settled(todo[x], i, t)
  PROVE  /\ ~IsDone(t) /\ body[t] \in {"pending", "forwarding", "skipped", "threw"}
         /\ Waiting(t) => word[t].count # 0
         /\ \A y \in Threads : ~(At(y, "exchange") /\ Cur(y).node = t)
<1>1. todo[x] \in Seq(Frame)
  BY Families DEF Core
<1>2. PICK k \in DOMAIN todo[x] : k # 1 /\ Settles(todo[x][k], t)
  BY <1>1 DEF Settled, After
<1>3. PICK f : f = todo[x][k]
  OBVIOUS
<1>4. /\ f \in Frame /\ Fits(f)
      /\ f \in Taking(t) => Owes(t) >= 1 /\ Waiting(t)
      /\ f \in Holdback(t) => Guards(t) = 1 /\ Waiting(t)
      /\ f \in Ending(t) => Final(t) /\ ~IsDone(t)
  BY <1>2, <1>3, Found
<1>5. /\ f \in Taking(t) <=> f.node = t /\ (f.op = "notify" \/ (f.op = "pre" /\ f.k = 1))
      /\ f \in Holdback(t) <=> f.node = t /\ (f.op = "publish" \/ (f.op = "pre" /\ f.k # 1))
      /\ f \in Ending(t) <=> f.node = t /\ f.op = "exchange"
  BY <1>4, Sorts
<1>6. CASE f \in Taking(t) \/ f \in Holdback(t)
  <2>1. Waiting(t) /\ (Owes(t) >= 1 \/ Guards(t) = 1)
    BY <1>4, <1>6
  <2>2. Counted(t) /\ Owes(t) \in Nat /\ Guards(t) \in {0, 1} /\ StartMask - owed[t] >= 1
        /\ StartMask \in Int /\ owed[t] \in Int
    BY Numbers DEF Core
  <2>3. word[t].count # 0
    BY <2>1, <2>2 DEF Counted
  <2>4. ~IsDone(t) /\ ~Final(t) /\ Count(todo, Ending(t)) = 0
    BY <2>1, <2>2 DEF Waiting, Final, Counted
  <2>5. ASSUME NEW y \in Threads, At(y, "exchange"), Cur(y).node = t
        PROVE  FALSE
    <3>1. Cur(y) \in Ending(t)
      BY <2>5, First DEF Ending
    <3> QED
      BY <2>4, <2>5, <3>1, First, Found
  <2> QED
    BY <2>1, <2>3, <2>4, <2>5 DEF Waiting
<1>7. CASE f \in Ending(t) /\ f.failed = TRUE
  <2>1. Final(t) /\ ~IsDone(t) /\ body[t] \in {"skipped", "threw"}
    BY <1>4, <1>5, <1>7 DEF Fits
  <2>2. ASSUME NEW y \in Threads, At(y, "exchange"), Cur(y).node = t
        PROVE  FALSE
    <3>1. Cur(y) \in Ending(t) /\ 1 \in DOMAIN todo[y] /\ todo[y][1] = Cur(y)
      BY <2>2, First DEF Ending
    <3> QED
      BY <1>2, <1>3, <1>7, <3>1, Alone
  <2> QED
    BY <2>1, <2>2 DEF Waiting, Final
<1> QED
  BY <1>2, <1>3, <1>5, <1>6, <1>7 DEF Settles

(* So a task that is warned has failed when its countdown is over, or it is completed. *)
LEMMA WarnedInTime ==
  ASSUME Core, NEW t \in Tasks, Warned(t),
         \/ Waiting(t) /\ word[t].count = 0
         \/ \E y \in Threads : At(y, "exchange") /\ Cur(y).node = t
  PROVE  Failed(t)
  BY ToSettle DEF Warned

(* Nothing is on its way to a task whose countdown is over. *)
LEMMA CameIn ==
  ASSUME Core, NEW t \in Tasks, Waiting(t), word[t].count = 0, NEW u \in Tasks
  PROVE  ~Comes(t, u) /\ ~Hangs(t, u)
<1>1. Counted(t) /\ Owes(t) \in Nat /\ Guards(t) \in {0, 1} /\ StartMask - owed[t] >= 1
      /\ StartMask \in Int /\ owed[t] \in Int /\ Owes(t) = Count(Lists, Flows(t)) + Count(todo, Taking(t))
      /\ Count(Lists, Flows(t)) \in Nat /\ Count(todo, Taking(t)) \in Nat
  BY Numbers DEF Core
<1>2. Owes(t) = 0 /\ Guards(t) = 0 /\ Count(Lists, Flows(t)) = 0
  BY <1>1 DEF Counted
<1>3. ASSUME NEW x \in Threads, NEW i \in DOMAIN todo[x], Brings(todo[x][i], t, u)
      PROVE  FALSE
  <2>1. PICK f : f = todo[x][i]
    OBVIOUS
  <2>2. f \in Frame /\ Lies(x, todo[x], i) /\ (f \in Taking(t) => Owes(t) >= 1)
        /\ (f \in Linking(t) => Guards(t) = 1)
    BY <2>1, Found
  <2>3. f.op = "late"
    BY <1>2, <1>3, <2>1, <2>2, Sorts DEF Brings
  <2>4. [op |-> "publish", node |-> t] \in After(todo[x], i)
    BY <1>3, <2>1, <2>2, <2>3 DEF Lies, Brings
  <2>5. PICK g : g = [op |-> "publish", node |-> t]
    OBVIOUS
  <2>6. Settled(todo[x], i, t)
    BY <2>4, <2>5 DEF Settled, Settles
  <2> QED
    BY <2>6, ToSettle
<1>4. ASSUME NEW i \in DOMAIN head[u].arcs, head[u].arcs[i] \in Flows(t)
      PROVE  FALSE
  <2>1. Lists \in Family(Tasks, Arc) /\ Lists[u] = head[u].arcs
    BY Families DEF Core
  <2>2. Count(Lists, Flows(t)) >= 1
    BY <1>4, <2>1, Finite, CountNone
  <2> QED
    BY <1>2, <2>2
<1> QED
  BY <1>3, <1>4 DEF Comes, Hangs

(* A task that starts without a failure has all its inputs. *)
LEMMA Ready ==
  ASSUME Core, Outcomes, NEW t \in Tasks, Waiting(t), word[t].count = 0, ~Failed(t)
  PROVE  /\ body[t] = "pending" => \A u \in Producers(t) : body[u] = "value"
         /\ body[t] = "forwarding" => \A u \in Forwarded(t) : body[u] = "value"
<1>1. ~Warned(t)
  BY WarnedInTime
<1>2. Producers(t) \subseteq Tasks /\ Forwarded(t) \subseteq Tasks
  BY Related DEF Core
<1> QED
  BY <1>1, <1>2, CameIn DEF Outcomes, Outcome, Arrived, Reached

(***************************************************************************)
(* What a step has to leave as it was                                      *)
(***************************************************************************)
(* Tasks that are done, have a value or have failed stay so; the bits are only written anew
   when a task is launched and when its functor has returned a var. *)
Steady ==
  \A t \in Tasks : /\ IsDone(t) => IsDone(t)'
                   /\ body[t] = "value" => body'[t] = "value"
                   /\ Failed(t) /\ body[t] \notin {"idle", "running"} => Failed(t)'

(* What x is about to do for others is done, or it is what it goes on with. *)
Hands(x, fs) ==
  /\ \A k \in DOMAIN fs :
       /\ Tells(fs[k])'
       /\ fs[k].op \in {"failure", "signal"} =>
            Settled(fs, k, fs[k].node) \/ Settled(todo[x], 1, fs[k].node)
       /\ fs[k].op \in {"mark", "set"} =>
            \/ Settled(fs, k, fs[k].node) \/ Settled(todo[x], 1, fs[k].node)
            \/ x \in Users /\ fs[k].bit = "user"
  /\ todo[x] # <<>> => \A t \in Tasks :
       /\ Warns(Cur(x), t) /\ Settled(todo[x], 1, t) =>
            (\E k \in DOMAIN fs : Warns(fs[k], t)) \/ Failed(t)'
       /\ \A u \in Tasks : Brings(Cur(x), t, u) => Reached(t, u)'

LEMMA SettledOver ==
  ASSUME NEW r, NEW s, NEW i, NEW j, After(s, j) \subseteq After(r, i), NEW t, Settled(s, j, t)
  PROVE  Settled(r, i, t)
  BY DEF Settled

LEMMA NowWarned ==
  ASSUME NEW x \in Threads, NEW fs, Moved(x, fs), NEW k \in DOMAIN fs, NEW t,
         Warns(fs[k], t), Settled(fs, k, t) \/ Settled(todo[x], 1, t)
  PROVE  Warned(t)'
<1>1. PICK i \in DOMAIN todo'[x] : Put(todo'[x], i, fs, k, todo[x])
  BY DEF Moved
<1>2. Settled(todo'[x], i, t)
  BY <1>1, SettledOver DEF Put
<1>3. Warns(todo'[x][i], t)
  BY <1>1 DEF Put
<1> QED
  BY <1>2, <1>3 DEF Warned

LEMMA WarnedKept ==
  ASSUME Inv, NEW x \in Threads, NEW fs, Moved(x, fs), Steady, Hands(x, fs),
         NEW t \in Tasks, Warned(t), body[t] \notin {"idle", "running"}
  PROVE  Warned(t)'
<1>1. CASE Failed(t)
  BY <1>1 DEF Steady, Warned
<1>2. CASE \E y \in Threads : \E i \in DOMAIN todo[y] : Warns(todo[y][i], t) /\ Settled(todo[y], i, t)
  <2>0. PICK y \in Threads : \E i \in DOMAIN todo[y] : Warns(todo[y][i], t) /\ Settled(todo[y], i, t)
    BY <1>2
  <2>1. PICK i \in DOMAIN todo[y] : Warns(todo[y][i], t) /\ Settled(todo[y], i, t)
    BY <2>0
  <2>2. CASE y = x /\ i = 1
    <3>1. todo[x] # <<>> /\ todo[x][1] = Cur(x)
      BY <2>1, <2>2, Families DEF Cur
    <3>2. (\E k \in DOMAIN fs : Warns(fs[k], t)) \/ Failed(t)'
      BY <2>1, <2>2, <3>1 DEF Hands
    <3> QED
      BY <2>1, <2>2, <3>2, NowWarned DEF Warned
  <2>3. CASE ~(y = x /\ i = 1)
    <3>1. PICK j \in DOMAIN todo'[y] : Same(todo'[y], j, todo[y], i)
      BY <2>3 DEF Moved
    <3>2. Warns(todo'[y][j], t) /\ Settled(todo'[y], j, t)
      BY <2>1, <3>1, SettledOver DEF Same
    <3> QED
      BY <3>2 DEF Warned
  <2> QED
    BY <2>2, <2>3
<1> QED
  BY <1>1, <1>2 DEF Warned

LEMMA NowComes ==
  ASSUME NEW x \in Threads, NEW fs, Moved(x, fs), NEW k \in DOMAIN fs, NEW t, NEW u, Brings(fs[k], t, u)
  PROVE  Reached(t, u)'
  BY DEF Moved, Put, Comes, Reached

LEMMA ReachedKept ==
  ASSUME Inv, NEW x \in Threads, NEW fs, Moved(x, fs), Steady, Hands(x, fs),
         NEW t \in Tasks, NEW u \in Tasks, Reached(t, u), Hangs(t, u) => Reached(t, u)',
         body[t] \notin {"idle", "running"}
  PROVE  Reached(t, u)'
<1>1. CASE Comes(t, u)
  <2>0. PICK y \in Threads : \E i \in DOMAIN todo[y] : Brings(todo[y][i], t, u)
    BY <1>1 DEF Comes
  <2>1. PICK i \in DOMAIN todo[y] : Brings(todo[y][i], t, u)
    BY <2>0
  <2>2. CASE y = x /\ i = 1
    <3>1. todo[x] # <<>> /\ todo[x][1] = Cur(x)
      BY <2>1, <2>2, Families DEF Cur
    <3> QED
      BY <2>1, <2>2, <3>1 DEF Hands
  <2>3. CASE ~(y = x /\ i = 1)
    <3>1. PICK j \in DOMAIN todo'[y] : Same(todo'[y], j, todo[y], i)
      BY <2>3 DEF Moved
    <3> QED
      BY <2>1, <3>1 DEF Same, Comes, Reached
  <2> QED
    BY <2>2, <2>3
<1>2. CASE body[u] = "value"
  BY <1>2 DEF Steady, Reached
<1>3. CASE Warned(t)
  BY <1>3, WarnedKept DEF Reached
<1> QED
  BY <1>1, <1>2, <1>3 DEF Reached

LEMMA TellsKept ==
  ASSUME Inv, Steady, UNCHANGED prog, NEW f \in Frame, Tells(f)
  PROVE  Tells(f)'
<1>1. f.op \in {"late", "notify"} => f.from \in Tasks
  BY Says
<1>2. f.op = "look" => f.node \in Tasks
  BY Says DEF Simple
<1> QED
  BY <1>1, <1>2, Related DEF Tells, Steady, Forwards, Returns

LEMMA OutcomesKept ==
  ASSUME Core, Outcomes, UNCHANGED prog, NEW x \in Threads, NEW fs, Moved(x, fs), Steady,
         Hands(x, fs), \A t, u \in Tasks : Hangs(t, u) => Reached(t, u)',
         \A t \in Tasks : body'[t] = body[t] \/ Outcome(t)',
         \A t \in Tasks : IsDone(t)' => IsDone(t) \/ Blamed(t)'
  PROVE  Outcomes'
<1>1. Inv /\ \A t \in Tasks : Producers(t)' = Producers(t) /\ Forwarded(t)' = Forwarded(t)
  BY DEF Core, Producers, Forwarded, Inputs, Returns
<1>2. ASSUME NEW t \in Tasks, body'[t] = body[t]
      PROVE  Outcome(t)'
  <2>1. Outcome(t) /\ Producers(t) \subseteq Tasks /\ Forwarded(t) \subseteq Tasks
    BY <1>1, Related DEF Outcomes
  <2>2. Arrived(t)'
    BY <1>1, <1>2, <2>1, ReachedKept DEF Outcome, Arrived
  <2>3. Supplied(t)'
    BY <1>1, <1>2, <2>1 DEF Outcome, Supplied, Steady
  <2>4. body'[t] \in {"skipped", "threw"} => Warned(t)'
    BY <1>1, <1>2, <2>1, WarnedKept DEF Outcome, Blamed
  <2>5. ASSUME IsDone(t), body[t] # "value"
        PROVE  Failed(t)'
    <3>1. Failed(t) /\ Final(t)
      BY <2>1, <2>5 DEF Outcome, Blamed, Core, Counted
    <3> QED
      BY <3>1 DEF Final, Steady
  <2>6. Blamed(t)'
    BY <1>2, <2>4, <2>5 DEF Blamed
  <2> QED
    BY <2>2, <2>3, <2>6 DEF Outcome
<1>3. ASSUME NEW y \in Threads, NEW i \in DOMAIN todo'[y]
      PROVE  Tells(todo[y][i])' /\ Warrants(y, todo'[y], i)
  <2>1. CASE \E j \in DOMAIN todo[y] : Same(todo'[y], i, todo[y], j)
    <3>1. PICK j \in DOMAIN todo[y] : Same(todo'[y], i, todo[y], j)
      BY <2>1
    <3>2. PICK f : f = todo[y][j]
      OBVIOUS
    <3>3. f \in Frame /\ Tells(f) /\ Warrants(y, todo[y], j)
      BY <1>1, <3>2, Families, Element DEF Outcomes
    <3>4. Tells(f)'
      BY <1>1, <3>3, TellsKept
    <3>5. todo'[y][i] = f /\ Warrants(y, todo'[y], i)
      BY <3>1, <3>2, <3>3, SettledOver DEF Same, Warrants
    <3> QED
      BY <3>4, <3>5
  <2>2. CASE y = x /\ \E k \in DOMAIN fs : Put(todo'[y], i, fs, k, todo[x])
    <3>1. PICK k \in DOMAIN fs : Put(todo'[x], i, fs, k, todo[x])
      BY <2>2
    <3>2. PICK f : f = fs[k]
      OBVIOUS
    <3>3. todo'[x][i] = f /\ \A t : Settled(fs, k, t) \/ Settled(todo[x], 1, t) => Settled(todo'[x], i, t)
      BY <3>1, <3>2, SettledOver DEF Put
    <3>4. Tells(f)'
      BY <3>2 DEF Hands
    <3>5. Warrants(x, todo'[x], i)
      BY <3>2, <3>3 DEF Hands, Warrants
    <3> QED
      BY <2>2, <3>3, <3>4, <3>5
  <2>3. CASE todo'[y][i].op = "start"
    BY <2>3 DEF Tells, Warrants
  <2> QED
    BY <2>1, <2>2, <2>3 DEF Moved
<1> QED
  BY <1>2, <1>3 DEF Outcomes

LEMMA SteadyQuiet ==
  ASSUME UNCHANGED body, \A t \in Tasks : IsDone(t) => IsDone(t)',
         \A t \in Tasks : word[t].bits \subseteq word'[t].bits
  PROVE  Steady
  BY DEF Steady, Failed

(* A step that leaves lists and bodies alone. *)
LEMMA OutcomesThen ==
  ASSUME Core, Outcomes, UNCHANGED prog, NEW x \in Threads, todo[x] # <<>>,
         NEW fs \in Seq(Frame), Then(x, fs), Hands(x, fs), UNCHANGED <<head, body>>,
         \A t \in Tasks : word[t].bits \subseteq word'[t].bits
  PROVE  Outcomes'
<1>1. Moved(x, fs) /\ Steady
  BY MovedThen, SteadyQuiet DEF Core, IsDone
<1>2. \A t, u \in Tasks : Hangs(t, u) => Reached(t, u)'
  BY DEF Hangs, Reached
<1>3. \A t \in Tasks : IsDone(t)' => IsDone(t)
  BY DEF IsDone
<1> QED
  BY <1>1, <1>2, <1>3, OutcomesKept

(* Frames that neither bring, warn nor tell of anything. *)
Idle == {"drop", "return", "wakeup", "wait", "block", "status", "publish", "pre", "exchange",
         "start", "functor", "attach"}

LEMMA HandsIdle ==
  ASSUME NEW x, NEW fs, todo[x] # <<>> => Cur(x).op \in Idle \cup {"signal", "look"},
         \A k \in DOMAIN fs : fs[k].op \in Idle
  PROVE  Hands(x, fs)
  BY DEF Hands, Idle, Tells, Warns, Brings

(* No frame, or one. *)
LEMMA OneFrame ==
  ASSUME NEW g
  PROVE  DOMAIN <<>> = {} /\ DOMAIN <<g>> = {1} /\ <<g>>[1] = g
  OBVIOUS

LEMMA PopOutcomes ==
  ASSUME Core, Outcomes, UNCHANGED prog, NEW x \in Threads,
         DropSignal(x) \/ Return(x) \/ Wakeup(x) \/ Block(x) \/ Status(x)
  PROVE  Outcomes'
<1>1. PICK fs \in Seq(Frame) : fs = <<>>
  BY Short
<1>2. DOMAIN fs = {} /\ Then(x, fs) /\ UNCHANGED <<head, body, word>>
  BY <1>1 DEF DropSignal, Return, Wakeup, Block, Status
<1>3. todo[x] # <<>> /\ Cur(x).op \in Idle
  BY DEF DropSignal, Return, Wakeup, Block, Status, At, Idle, Cur
<1>4. Hands(x, fs)
  BY <1>2, <1>3, HandsIdle
<1> QED
  BY <1>2, <1>3, <1>4, OutcomesThen

LEMMA WaitOutcomes ==
  ASSUME Core, Outcomes, Inv', UNCHANGED prog, NEW x \in Threads, Wait(x) \/ Publish(x)
  PROVE  Outcomes'
<1>1. PICK g : /\ g.op \in {"block", "pre"} /\ (Then(x, <<>>) \/ Then(x, <<g>>))
  <2>1. CASE Wait(x)
    <3>1. PICK g : g = [op |-> "block", node |-> Cur(x).node]
      OBVIOUS
    <3>2. g.op = "block"
      BY <3>1
    <3> QED
      BY <2>1, <3>1, <3>2 DEF Wait
  <2>2. CASE Publish(x)
    <3>1. PICK g : g = [op |-> "pre", node |-> Cur(x).node, k |-> Protection(Cur(x).node)]
      OBVIOUS
    <3>2. g.op = "pre"
      BY <3>1
    <3> QED
      BY <2>2, <3>1, <3>2 DEF Publish
  <2> QED
    BY <2>1, <2>2
<1>2. PICK fs \in {<<>>, <<g>>} : Then(x, fs)
  BY <1>1
<1>3. \A k \in DOMAIN fs : fs[k].op \in Idle
  BY <1>1, <1>2, OneFrame DEF Idle
<1>4. UNCHANGED <<head, body, word>> /\ todo[x] # <<>> /\ Cur(x).op \in Idle
  BY DEF Wait, Publish, At, Idle, Cur
<1>5. fs \in Seq({g})
  BY <1>2, Short
<1>6. fs \in Seq(Frame)
  BY <1>2, <1>4, <1>5, Made DEF Core
<1> QED
  BY <1>2, <1>3, <1>4, <1>6, HandsIdle, OutcomesThen

(* Marking: the bit is set, or tried again. *)
LEMMA MarkFailureOutcomes ==
  ASSUME Core, Outcomes, UNCHANGED prog, NEW x \in Threads, MarkFailure(x)
  PROVE  Outcomes'
<1>1. PICK f \in Frame : f = Cur(x) /\ f.op = "mark" /\ todo[x] # <<>> /\ 1 \in DOMAIN todo[x]
                         /\ todo[x][1] = f
  BY First DEF MarkFailure
<1>2. PICK t \in Tasks, b \in Bits : f.node = t /\ f.bit = b
  BY <1>1, Says
<1>3. Warrants(x, todo[x], 1) /\ UNCHANGED <<head, body, word>>
  BY <1>1 DEF Outcomes, MarkFailure
<1>4. CASE IsDone(t)
  <2>1. PICK fs \in Seq(Frame) : fs = <<>>
    BY Short
  <2>2. Then(x, fs) /\ DOMAIN fs = {}
    BY <1>1, <1>2, <1>4, <2>1 DEF MarkFailure
  <2>3. ~Settled(todo[x], 1, t)
    BY <1>1, <1>4, ToSettle
  <2>4. Hands(x, fs)
    BY <1>1, <1>2, <2>2, <2>3 DEF Hands, Warns, Brings
  <2> QED
    BY <1>1, <1>3, <2>2, <2>4, OutcomesThen
<1>5. CASE ~IsDone(t)
  <2>1. PICK g : g = [op |-> "set", node |-> t, bit |-> b, word |-> word[t]]
    OBVIOUS
  <2>2. g.op = "set" /\ g.node = t /\ g.bit = b /\ g \in Frame
    <3>1. word[t] \in Word
      BY DEF Core, Inv, Types
    <3> QED
      BY <2>1, <3>1 DEF Frame
  <2>3. PICK fs \in Seq(Frame) : fs = <<g>> /\ DOMAIN fs = {1} /\ fs[1] = g
    BY <2>2, Short, OneFrame
  <2>4. Then(x, fs)
    BY <1>1, <1>2, <1>5, <2>1, <2>3 DEF MarkFailure
  <2>5. Hands(x, fs)
    BY <1>1, <1>2, <1>3, <2>2, <2>3 DEF Hands, Warns, Brings, Tells, Warrants
  <2> QED
    BY <1>1, <1>3, <2>4, <2>5, OutcomesThen
<1> QED
  BY <1>4, <1>5

LEMMA SetBitOutcomes ==
  ASSUME Core, Outcomes, UNCHANGED prog, NEW x \in Threads, SetBit(x)
  PROVE  Outcomes'
<1>1. PICK f \in Frame : f = Cur(x) /\ f.op = "set" /\ todo[x] # <<>> /\ 1 \in DOMAIN todo[x]
                         /\ todo[x][1] = f
  BY First DEF SetBit
<1>2. PICK t \in Tasks, b \in Bits : f.node = t /\ f.bit = b
  BY <1>1, Says
<1>3. Warrants(x, todo[x], 1) /\ UNCHANGED <<head, body>> /\ word \in [Tasks -> Word]
  BY <1>1 DEF Outcomes, SetBit, Core, Inv, Types
<1>4. CASE word[t] = f.word
  <2>1. PICK fs \in Seq(Frame) : fs = <<>>
    BY Short
  <2>2. Then(x, fs) /\ DOMAIN fs = {} /\ word' = [word EXCEPT ![t].bits = @ \cup {b}]
    BY <1>1, <1>2, <1>4, <2>1 DEF SetBit
  <2>3. \A u \in Tasks : word[u] \in Word
    BY <1>3
  <2>4. word'[t].bits = word[t].bits \cup {b} /\ \A u \in Tasks : word[u].bits \subseteq word'[u].bits
    BY <1>2, <1>3, <2>2, <2>3 DEF Word
  <2>5. Failed(t)'
    BY <2>4 DEF Failed
  <2>6. Hands(x, fs)
    BY <1>1, <1>2, <2>2, <2>5 DEF Hands, Warns, Brings
  <2> QED
    BY <1>1, <1>3, <2>2, <2>4, <2>6, OutcomesThen
<1>5. CASE word[t] # f.word
  <2>1. PICK g : g = Mark(t, b)
    OBVIOUS
  <2>2. g.op = "mark" /\ g.node = t /\ g.bit = b /\ g \in Frame
    BY <2>1 DEF Mark, Frame
  <2>3. PICK fs \in Seq(Frame) : fs = <<g>> /\ DOMAIN fs = {1} /\ fs[1] = g
    BY <2>2, Short, OneFrame
  <2>4. Then(x, fs) /\ word' = word
    BY <1>1, <1>2, <1>5, <2>1, <2>3 DEF SetBit, Retry
  <2>5. Hands(x, fs)
    BY <1>1, <1>2, <1>3, <2>2, <2>3 DEF Hands, Warns, Brings, Tells, Warrants
  <2> QED
    BY <1>1, <1>3, <2>4, <2>5, OutcomesThen
<1> QED
  BY <1>4, <1>5

LEMMA TwoFrames ==
  ASSUME NEW g, NEW h
  PROVE  DOMAIN <<g, h>> = {1, 2} /\ <<g, h>>[1] = g /\ <<g, h>>[2] = h
  OBVIOUS

LEMMA PublishFailureOutcomes ==
  ASSUME Core, Outcomes, Inv', UNCHANGED prog, NEW x \in Threads, PublishFailureFrom(x)
  PROVE  Outcomes'
<1>1. PICK f \in Frame : f = Cur(x) /\ f.op = "failure" /\ todo[x] # <<>> /\ 1 \in DOMAIN todo[x]
                         /\ todo[x][1] = f
  BY First DEF PublishFailureFrom
<1>2. PICK t \in Tasks, u \in Tasks, p \in Nat : f.node = t /\ f.from = u /\ f.port = p
  BY <1>1, Says
<1>3. PICK r : r = From(t, u, p)
  OBVIOUS
<1>4. Then(x, r) /\ UNCHANGED <<head, body, word>> /\ Settled(todo[x], 1, t)
  BY <1>1, <1>2, <1>3 DEF PublishFailureFrom, Outcomes, Warrants
<1>5. r \in Seq(Frame)
  <2>1. r \in Seq(Fit)
    BY <1>3, FromFits DEF Core, Inv
  <2> QED
    BY <2>1, Grows DEF Fit
<1>6. /\ \A k \in DOMAIN r : r[k].op \in {"mark", "signal"} /\ r[k].node = t
      /\ \E k \in DOMAIN r : r[k].op = "mark"
  <2>1. \/ \E b \in Bits : r = <<Mark(t, b)>>
        \/ \E b \in Bits : \E c : r = <<Carry(t, c), Mark(t, b)>>
    BY <1>3 DEF From, Bits
  <2>2. CASE \E b \in Bits : r = <<Mark(t, b)>>
    <3>1. PICK b \in Bits : r = <<Mark(t, b)>>
      BY <2>2
    <3>2. PICK g : g = Mark(t, b)
      OBVIOUS
    <3>3. g.op = "mark" /\ g.node = t
      BY <3>2 DEF Mark
    <3> QED
      BY <3>1, <3>2, <3>3, OneFrame
  <2>3. CASE \E b \in Bits : \E c : r = <<Carry(t, c), Mark(t, b)>>
    <3>1. PICK b \in Bits : \E c : r = <<Carry(t, c), Mark(t, b)>>
      BY <2>3
    <3>2. PICK c : r = <<Carry(t, c), Mark(t, b)>>
      BY <3>1
    <3>3. PICK g : g = Mark(t, b)
      OBVIOUS
    <3>4. PICK h : h = Carry(t, c)
      OBVIOUS
    <3>5. g.op = "mark" /\ g.node = t /\ h.op = "signal" /\ h.node = t
      BY <3>3, <3>4 DEF Mark, Carry
    <3>6. DOMAIN r = {1, 2} /\ r[1] = h /\ r[2] = g
      BY <3>2, <3>3, <3>4, TwoFrames
    <3> QED
      BY <3>5, <3>6
  <2> QED
    BY <2>1, <2>2, <2>3
<1>7. Hands(x, r)
  BY <1>1, <1>2, <1>4, <1>6 DEF Hands, Warns, Brings, Tells
<1> QED
  BY <1>1, <1>4, <1>5, <1>7, OutcomesThen

(* A late consumer looks whether its producer has failed. *)
LEMMA LateOutcomes ==
  ASSUME Core, Outcomes, UNCHANGED prog, NEW x \in Threads, Late(x)
  PROVE  Outcomes'
<1>1. PICK f \in Frame : f = Cur(x) /\ f.op = "late" /\ todo[x] # <<>> /\ 1 \in DOMAIN todo[x]
                         /\ todo[x][1] = f /\ Lies(x, todo[x], 1)
  BY First DEF Late
<1>2. PICK t \in Tasks, u \in Tasks, p \in Nat : f.node = t /\ f.from = u /\ f.port = p
  BY <1>1, Says
<1>3. Tells(f) /\ UNCHANGED <<head, body, word>>
  BY <1>1 DEF Outcomes, Late
<1>4. IsDone(u) /\ Blamed(u)
  BY <1>1, <1>2, <1>3 DEF Tells, Outcomes, Outcome
<1>5. Settled(todo[x], 1, t)
  <2>1. PICK g : g = [op |-> "publish", node |-> t]
    OBVIOUS
  <2>2. g \in After(todo[x], 1) /\ Settles(g, t)
    BY <1>1, <1>2, <2>1 DEF Lies, Settles
  <2> QED
    BY <2>2 DEF Settled
<1>6. CASE Failed(u)
  <2>1. PICK g : g = [f EXCEPT !.op = "failure"]
    OBVIOUS
  <2>2. g \in Frame /\ g.op = "failure" /\ g.node = t
    <3>1. f \in [op : {"link", "late", "failure"}, node : Tasks, from : Tasks, port : Nat]
      BY <1>1 DEF Frame
    <3> QED
      BY <1>2, <2>1, <3>1 DEF Frame
  <2>3. PICK fs \in Seq(Frame) : fs = <<g>> /\ DOMAIN fs = {1} /\ fs[1] = g
    BY <2>2, Short, OneFrame
  <2>4. Then(x, fs)
    BY <1>1, <1>2, <1>6, <2>1, <2>3 DEF Late, LateFailure
  <2>5. Moved(x, fs)
    BY <1>1, <2>4, MovedThen DEF Core
  <2>6. Warned(t)'
    BY <1>5, <2>2, <2>3, <2>5, NowWarned DEF Warns
  <2>7. Hands(x, fs)
    BY <1>1, <1>2, <1>5, <2>2, <2>3, <2>6 DEF Hands, Warns, Brings, Tells, Reached
  <2> QED
    BY <1>1, <1>3, <2>4, <2>7, OutcomesThen
<1>7. CASE ~Failed(u)
  <2>1. PICK fs \in Seq(Frame) : fs = <<>>
    BY Short
  <2>2. Then(x, fs) /\ DOMAIN fs = {}
    BY <1>1, <1>2, <1>7, <2>1 DEF Late, LateFailure
  <2>3. body'[u] = "value"
    BY <1>3, <1>4, <1>7 DEF Blamed
  <2>4. Hands(x, fs)
    BY <1>1, <1>2, <2>2, <2>3 DEF Hands, Warns, Brings, Reached
  <2> QED
    BY <1>1, <1>3, <2>2, <2>4, OutcomesThen
<1> QED
  BY <1>6, <1>7

(* What fs, a sequence r and then c, has at its places: what is of c comes after all of r. *)
Leads(fs, r, c) ==
  /\ \A k \in DOMAIN fs : \/ k \in DOMAIN r /\ fs[k] = r[k]
                          \/ \E j \in DOMAIN c : fs[k] = c[j]
  /\ \A k \in DOMAIN r : /\ k \in DOMAIN fs /\ fs[k] = r[k]
                         /\ \A j \in DOMAIN c : c[j] \in After(fs, k)

LEMMA Before ==
  ASSUME NEW S, NEW r \in Seq(S), NEW c \in Seq(S), NEW fs, fs = r \o c
  PROVE  fs \in Seq(S) /\ Leads(fs, r, c)
<1>1. fs \in Seq(S) /\ OnTopOf(fs, r, c)
  BY OnTop
<1>2. /\ \A i \in DOMAIN r : /\ i \in DOMAIN fs /\ fs[i] = r[i]
                             /\ \A j \in DOMAIN c : c[j] \in After(fs, i)
      /\ \A i \in DOMAIN c : fs[Len(r) + i] = c[i]
      /\ \A i \in DOMAIN fs : i \in DOMAIN r \/ \E j \in DOMAIN c : i = Len(r) + j
  BY <1>1 DEF OnTopOf
<1>3. \A k \in DOMAIN fs : \/ k \in DOMAIN r /\ fs[k] = r[k]
                           \/ \E j \in DOMAIN c : fs[k] = c[j]
  BY <1>2
<1> QED
  BY <1>1, <1>2, <1>3 DEF Leads

(* The consumer is told of a failure before it loses a prerequisite. *)
LEMMA NotifyOutcomes ==
  ASSUME Core, Outcomes, UNCHANGED prog, NEW x \in Threads, NotifyArc(x)
  PROVE  Outcomes'
<1>1. PICK f \in Frame : f = Cur(x) /\ f.op = "notify" /\ todo[x] # <<>> /\ 1 \in DOMAIN todo[x]
                         /\ todo[x][1] = f
  BY First DEF NotifyArc
<1>2. PICK t \in Tasks, u \in Tasks, e \in BOOLEAN : f.node = t /\ f.from = u /\ f.failed = e
  BY <1>1, Says
<1>3. Tells(f) /\ UNCHANGED <<head, body, word>>
  BY <1>1 DEF Outcomes, NotifyArc
<1>4. PICK g \in Frame : g = [op |-> "pre", node |-> t, k |-> 1]
  <2>1. [op |-> "pre", node |-> t, k |-> 1] \in Frame
    BY DEF Frame
  <2> QED
    BY <2>1
<1>5. g.op = "pre" /\ Settles(g, t)
  BY <1>4 DEF Settles
<1>6. CASE e
  <2>1. PICK h \in Fit : h = [f EXCEPT !.op = "failure"]
    BY <1>1, Says
  <2>2. h \in Frame /\ h.op = "failure" /\ h.node = t
    <3>1. f \in [op : {"notify", "failure"}, node : Tasks, from : Tasks, port : Nat, failed : BOOLEAN]
      BY <1>1 DEF Frame
    <3> QED
      BY <1>2, <2>1, <3>1 DEF Fit
  <2>3. PICK fs : fs = <<h>> \o <<g>>
    OBVIOUS
  <2>4. Then(x, fs)
    BY <1>1, <1>2, <1>4, <1>6, <2>1, <2>3 DEF NotifyArc, NotifyFirst
  <2>5. PICK r \in Seq(Frame) : r = <<h>> /\ DOMAIN r = {1} /\ r[1] = h
    BY <2>2, Short, OneFrame
  <2>6. PICK c \in Seq(Frame) : c = <<g>> /\ DOMAIN c = {1} /\ c[1] = g
    BY <1>4, Short, OneFrame
  <2>7. fs = r \o c
    BY <2>3, <2>5, <2>6
  <2>8. fs \in Seq(Frame) /\ Leads(fs, r, c)
    BY <2>7, Before
  <2>9. /\ 1 \in DOMAIN fs /\ fs[1] = h /\ Settled(fs, 1, t)
        /\ \A k \in DOMAIN fs : (k = 1 /\ fs[k] = h) \/ fs[k] = g
    BY <1>5, <2>5, <2>6, <2>8 DEF Settled, Leads
  <2>10. Moved(x, fs)
    BY <1>1, <2>4, <2>8, MovedThen DEF Core
  <2>11. Warned(t)'
    BY <2>2, <2>9, <2>10, NowWarned DEF Warns
  <2>12. Hands(x, fs)
    BY <1>1, <1>2, <1>5, <2>2, <2>9, <2>11 DEF Hands, Warns, Brings, Tells, Reached
  <2> QED
    BY <1>1, <1>3, <2>4, <2>8, <2>12, OutcomesThen
<1>7. CASE ~e
  <2>1. PICK fs \in Seq(Frame) : fs = <<g>> /\ DOMAIN fs = {1} /\ fs[1] = g
    BY Short, OneFrame
  <2>2. Then(x, fs)
    <3>1. <<>> \o fs = fs
      OBVIOUS
    <3> QED
      BY <1>1, <1>2, <1>4, <1>7, <2>1, <3>1 DEF NotifyArc, NotifyFirst
  <2>3. body'[u] = "value"
    BY <1>1, <1>2, <1>3, <1>7 DEF Tells
  <2>4. Hands(x, fs)
    BY <1>1, <1>2, <1>5, <2>1, <2>3 DEF Hands, Warns, Brings, Tells, Reached
  <2> QED
    BY <1>1, <1>3, <2>1, <2>2, <2>4, OutcomesThen
<1> QED
  BY <1>6, <1>7

(* An arc on a list that is open. *)
LEMMA PushHangs ==
  ASSUME Inv, NEW v \in Tasks, ~IsDone(v), NEW a \in Arc, Push(v, a)
  PROVE  /\ \A t, u \in Tasks : Hangs(t, u) => Hangs(t, u)'
         /\ \A t \in Tasks : a \in Flows(t) => Hangs(t, v)'
         /\ \A t \in Tasks : IsDone(t)' <=> IsDone(t)
<1>1. /\ head \in [Tasks -> ArcHead] /\ head'[v].arcs = <<a>> \o head[v].arcs
      /\ \A u \in Tasks : u # v => head'[u] = head[u]
  BY DEF Push, Open, Inv, Types
<1>2. PICK l \in Seq(Arc) : l = head[v].arcs
  BY <1>1 DEF ArcHead
<1>3. PICK r : r = head'[v].arcs
  OBVIOUS
<1>4. PICK o \in Seq(Arc) : o = <<a>> /\ 1 \in DOMAIN o /\ o[1] = a
  BY Short, OneFrame
<1>5. OnTopOf(r, o, l)
  BY <1>1, <1>2, <1>3, <1>4, OnTop
<1>6. (1 \in DOMAIN r /\ r[1] = a) /\ \A i \in DOMAIN l : \E j \in DOMAIN r : r[j] = l[i]
  BY <1>4, <1>5 DEF OnTopOf
<1>7. ASSUME NEW t \in Tasks, NEW u \in Tasks, Hangs(t, u)
      PROVE  Hangs(t, u)'
  <2>1. CASE u = v
    BY <1>2, <1>3, <1>6, <1>7, <2>1 DEF Hangs, Flows
  <2>2. CASE u # v
    BY <1>1, <1>7, <2>2 DEF Hangs, Flows
  <2> QED
    BY <2>1, <2>2
<1>8. \A t \in Tasks : a \in Flows(t) => Hangs(t, v)'
  BY <1>3, <1>6 DEF Hangs, Flows
<1> QED
  BY <1>7, <1>8, PushOpen

LEMMA AddSignalOutcomes ==
  ASSUME Core, Outcomes, UNCHANGED prog, NEW x \in Threads, AddSignal(x)
  PROVE  Outcomes'
<1>1. PICK f \in Frame : f = Cur(x) /\ f.op = "signal" /\ todo[x] # <<>> /\ 1 \in DOMAIN todo[x]
                         /\ todo[x][1] = f
  BY First DEF AddSignal
<1>2. PICK t \in Tasks, c \in Tasks : f.node = t /\ f.control = c
  BY <1>1, Says
<1>3. UNCHANGED <<body, word>>
  BY DEF AddSignal
<1>4. PICK g \in Frame : g = [op |-> "drop", control |-> c] /\ g.op = "drop"
  <2>1. [op |-> "drop", control |-> c] \in Frame
    BY DEF Frame
  <2> QED
    BY <2>1
<1>5. CASE IsDone(t)
  <2>1. PICK fs \in Seq(Frame) : fs = <<g>> /\ DOMAIN fs = {1} /\ fs[1] = g
    BY Short, OneFrame
  <2>2. Then(x, fs) /\ UNCHANGED head
    BY <1>1, <1>2, <1>4, <1>5, <2>1 DEF AddSignal
  <2>3. Hands(x, fs)
    BY <1>1, <1>4, <2>1, HandsIdle DEF Idle
  <2> QED
    BY <1>1, <1>3, <2>2, <2>3, OutcomesThen
<1>6. CASE ~IsDone(t)
  <2>1. PICK fs \in Seq(Frame) : fs = <<>>
    BY Short
  <2>2. Then(x, fs) /\ DOMAIN fs = {} /\ Push(t, Signal(c)) /\ Signal(c) \in Arc
    BY <1>1, <1>2, <1>6, <2>1 DEF AddSignal, Arc
  <2>3. Hands(x, fs) /\ Moved(x, fs)
    BY <1>1, <2>2, HandsIdle, MovedThen DEF Core
  <2>4. /\ \A v, u \in Tasks : Hangs(v, u) => Hangs(v, u)'
        /\ \A v \in Tasks : IsDone(v)' <=> IsDone(v)
    BY <1>6, <2>2, PushHangs DEF Core
  <2>5. Steady
    BY <1>3, <2>4, SteadyQuiet
  <2> QED
    BY <1>3, <2>3, <2>4, <2>5, OutcomesKept DEF Reached
<1> QED
  BY <1>5, <1>6

(* A consumer hangs an arc on its producer, or finds it done. *)
LEMMA LinkOutcomes ==
  ASSUME Core, Outcomes, UNCHANGED prog, NEW x \in Threads, Link(x)
  PROVE  Outcomes'
<1>1. PICK f \in Frame : f = Cur(x) /\ f.op = "link" /\ todo[x] # <<>> /\ 1 \in DOMAIN todo[x]
                         /\ todo[x][1] = f
  BY First DEF Link
<1>2. PICK t \in Tasks, u \in Tasks, p \in Nat : f.node = t /\ f.from = u /\ f.port = p
  BY <1>1, Says
<1>3. UNCHANGED <<body, word>>
  BY DEF Link
<1>4. CASE IsDone(u)
  <2>1. PICK g : g = [f EXCEPT !.op = "late"]
    OBVIOUS
  <2>2. g \in Frame /\ g.op = "late" /\ g.node = t /\ g.from = u
    <3>1. f \in [op : {"link", "late", "failure"}, node : Tasks, from : Tasks, port : Nat]
      BY <1>1 DEF Frame
    <3> QED
      BY <1>2, <2>1, <3>1 DEF Frame
  <2>3. PICK fs \in Seq(Frame) : fs = <<g>> /\ DOMAIN fs = {1} /\ fs[1] = g
    BY <2>2, Short, OneFrame
  <2>4. Then(x, fs) /\ UNCHANGED head
    BY <1>1, <1>2, <1>4, <2>1, <2>3 DEF Link
  <2>5. Moved(x, fs)
    BY <1>1, <2>4, MovedThen DEF Core
  <2>6. Reached(t, u)'
    BY <2>2, <2>3, <2>5, NowComes DEF Brings
  <2>7. IsDone(u)'
    BY <1>4, <2>4 DEF IsDone
  <2>8. Hands(x, fs)
    BY <1>1, <1>2, <2>2, <2>3, <2>6, <2>7 DEF Hands, Warns, Brings, Tells
  <2> QED
    BY <1>1, <1>3, <2>4, <2>8, OutcomesThen
<1>5. CASE ~IsDone(u)
  <2>1. PICK fs \in Seq(Frame) : fs = <<>>
    BY Short
  <2>2. PICK a : a = Flow(t, p)
    OBVIOUS
  <2>3. Then(x, fs) /\ DOMAIN fs = {} /\ Push(u, a) /\ a \in Arc /\ a \in Flows(t)
    BY <1>1, <1>2, <1>5, <2>1, <2>2 DEF Link, Arc, Flow, Flows
  <2>4. /\ \A v, w \in Tasks : Hangs(v, w) => Hangs(v, w)'
        /\ \A v \in Tasks : a \in Flows(v) => Hangs(v, u)'
        /\ \A v \in Tasks : IsDone(v)' <=> IsDone(v)
    BY <1>5, <2>3, PushHangs DEF Core
  <2>5. Steady /\ Moved(x, fs)
    BY <1>1, <1>3, <2>3, <2>4, SteadyQuiet, MovedThen DEF Core
  <2>6. Hands(x, fs)
    BY <1>1, <1>2, <2>3, <2>4 DEF Hands, Warns, Brings, Reached
  <2> QED
    BY <1>3, <2>4, <2>5, <2>6, OutcomesKept DEF Reached
<1> QED
  BY <1>4, <1>5

(* Nobody is left on a list that is closed: its arcs become notifications, of a failure if
   the task did fail. *)
LEMMA ExchangeOutcomes ==
  ASSUME Core, Outcomes, UNCHANGED prog, NEW x \in Threads, Exchange(x)
  PROVE  Outcomes'
<1>1. PICK f \in Frame : f = Cur(x) /\ f.op = "exchange" /\ todo[x] # <<>> /\ 1 \in DOMAIN todo[x]
                         /\ todo[x][1] = f /\ Fits(f) /\ At(x, "exchange")
  BY First DEF Exchange
<1>2. PICK t \in Tasks, e \in BOOLEAN : f.node = t /\ f.failed = e
  BY <1>1, Says
<1>3. PICK b \in BOOLEAN : b <=> e /\ Failed(t)
  OBVIOUS
<1>4. PICK h : h = LastHead(t, e)
  OBVIOUS
<1>5. PICK r \in Seq(Arc) : r = head[t].arcs
  BY ControlType DEF Core, Inv
<1>6. PICK fs : fs = [i \in DOMAIN r |-> Notify(t, r[i], b)]
  OBVIOUS
<1>7. head' = [head EXCEPT ![t] = h] /\ Then(x, fs) /\ UNCHANGED <<body, word>>
  <2>1. [i \in DOMAIN r |-> Notify(t, r[i], b)] = [i \in DOMAIN r |-> Notify(t, r[i], e /\ Failed(t))]
    BY <1>3
  <2> QED
    BY <1>1, <1>2, <1>4, <1>5, <1>6, <2>1 DEF Exchange
<1>8. /\ fs \in Seq(Frame) /\ DOMAIN fs = DOMAIN r
      /\ \A i \in DOMAIN fs : fs[i].op \in {"drop", "notify"} /\ fs[i] = Notify(t, r[i], b)
  BY <1>6, NotifyAll
<1>9. h.tag # "open"
  BY <1>4, LastArcs DEF Core
<1>10. /\ head'[t] = h /\ \A u \in Tasks : u # t => head'[u] = head[u]
  BY <1>7 DEF Core, Inv, Types
<1>11. Moved(x, fs)
  BY <1>1, <1>7, <1>8, MovedThen DEF Core
<1>12. Steady
  BY <1>7, <1>9, <1>10, SteadyQuiet DEF IsDone
<1>13. (body[t] # "value" => Failed(t)) /\ (~b => body[t] = "value")
  <2>1. (e => body[t] \in {"skipped", "threw"}) /\ (~e => body[t] = "value")
    BY <1>1, <1>2 DEF Fits
  <2>2. body[t] \in {"skipped", "threw"} => Warned(t)
    BY DEF Outcomes, Outcome, Blamed
  <2>3. Warned(t) => Failed(t)
    BY <1>1, <1>2, WarnedInTime
  <2> QED
    BY <1>3, <2>1, <2>2, <2>3
<1>14. ASSUME NEW i \in DOMAIN fs, NEW v \in Tasks, r[i] \in Flows(v)
       PROVE  Brings(fs[i], v, t)
  <2>1. PICK a \in Arc : a = r[i] /\ a.kind = "flow" /\ a.node = v
    BY <1>8, <1>14, Element DEF Flows
  <2>2. fs[i] = [op |-> "notify", node |-> a.node, from |-> t, port |-> a.port, failed |-> b]
    BY <1>8, <2>1 DEF Notify
  <2> QED
    BY <2>1, <2>2 DEF Brings
<1>15. ASSUME NEW i \in DOMAIN fs
       PROVE  Tells(fs[i])'
  <2>1. PICK a : a = r[i]
    OBVIOUS
  <2>2. CASE a.kind = "signal"
    <3>1. fs[i] = [op |-> "drop", control |-> a.node]
      BY <1>8, <2>1, <2>2 DEF Notify
    <3> QED
      BY <3>1 DEF Tells
  <2>3. CASE a.kind # "signal"
    <3>1. fs[i] = [op |-> "notify", node |-> a.node, from |-> t, port |-> a.port, failed |-> b]
      BY <1>8, <2>1, <2>3 DEF Notify
    <3> QED
      BY <1>7, <1>13, <3>1 DEF Tells
  <2> QED
    BY <2>2, <2>3
<1>16. Hands(x, fs)
  BY <1>1, <1>8, <1>15 DEF Hands, Warns, Brings
<1>17. ASSUME NEW v \in Tasks, NEW u \in Tasks, Hangs(v, u)
       PROVE  Reached(v, u)'
  <2>1. CASE u = t
    <3>1. PICK i \in DOMAIN fs : r[i] \in Flows(v)
      BY <1>5, <1>8, <1>17, <2>1 DEF Hangs
    <3> QED
      BY <1>11, <1>14, <2>1, <3>1, NowComes
  <2>2. CASE u # t
    BY <1>10, <1>17, <2>2 DEF Hangs, Reached, Flows
  <2> QED
    BY <2>1, <2>2
<1>18. ASSUME NEW v \in Tasks, IsDone(v)', ~IsDone(v)
       PROVE  Blamed(v)'
  <2>1. v = t
    BY <1>10, <1>18 DEF IsDone
  <2>2. body'[t] # "value" => Failed(t)'
    BY <1>7, <1>13 DEF Failed
  <2>3. body'[t] \in {"skipped", "threw"} => Warned(t)'
    BY <2>2 DEF Warned
  <2> QED
    BY <2>1, <2>2, <2>3 DEF Blamed
<1> QED
  BY <1>7, <1>11, <1>12, <1>16, <1>17, <1>18, OutcomesKept

LEMMA Completion ==
  ASSUME NEW t \in Tasks, NEW e \in BOOLEAN
  PROVE  \E c \in Seq(Frame) : /\ c = Complete(t, e) /\ DOMAIN c = {1, 2}
                               /\ c[1].op = "exchange" /\ c[2].op = "wakeup"
                               /\ e => Settles(c[1], t)
<1>1. PICK f \in Frame : f = [op |-> "exchange", node |-> t, failed |-> e]
  <2>1. [op |-> "exchange", node |-> t, failed |-> e] \in Frame
    BY DEF Frame
  <2> QED
    BY <2>1
<1>2. PICK g \in Frame : g = [op |-> "wakeup", node |-> t]
  <2>1. [op |-> "wakeup", node |-> t] \in Frame
    BY DEF Frame
  <2> QED
    BY <2>1
<1>3. f.op = "exchange" /\ g.op = "wakeup" /\ (e => Settles(f, t))
  BY <1>1, <1>2 DEF Settles
<1>4. PICK c \in Seq(Frame) : c = <<f, g>>
  <2>1. <<f, g>> \in Seq(Frame)
    BY Short
  <2> QED
    BY <2>1
<1>5. DOMAIN c = {1, 2} /\ c[1] = f /\ c[2] = g
  <2>1. DOMAIN <<f, g>> = {1, 2} /\ <<f, g>>[1] = f /\ <<f, g>>[2] = g
    BY TwoFrames
  <2> QED
    BY <1>4, <2>1
<1>6. c = Complete(t, e)
  BY <1>1, <1>2, <1>4 DEF Complete
<1> QED
  BY <1>3, <1>5, <1>6

(* Whoever takes the last prerequisite of a task that has failed completes it. *)
LEMMA PreOutcomes ==
  ASSUME Core, Outcomes, UNCHANGED prog, NEW x \in Threads, Pre(x)
  PROVE  Outcomes'
<1>1. PICK f \in Frame : f = Cur(x) /\ f.op = "pre" /\ todo[x] # <<>> /\ At(x, "pre") /\ Inv
  BY First DEF Pre, Core
<1>2. PICK t \in Tasks, k \in Int : f.node = t /\ f.k = k
  BY <1>1, Says
<1>3. Waiting(t) /\ x # t /\ k >= 1 /\ t \in Threads
  BY <1>1, <1>2, PreTakes, Apart
<1>4. PICK last \in BOOLEAN : last <=> word[t].count = k
  OBVIOUS
<1>5. PICK skips \in BOOLEAN : skips <=> last /\ Skips(word[t].bits)
  OBVIOUS
<1>6. PICK fs \in Seq(Frame) : /\ fs = IF skips THEN Complete(t, TRUE) ELSE <<>>
                              /\ \A i \in DOMAIN fs : fs[i].op \in {"exchange", "wakeup"}
  <2>1. PICK c \in Seq(Frame) : c = Complete(t, TRUE) /\ DOMAIN c = {1, 2}
                               /\ c[1].op = "exchange" /\ c[2].op = "wakeup"
    BY Completion
  <2>2. <<>> \in Seq(Frame) /\ DOMAIN <<>> = {}
    BY Short
  <2> QED
    BY <2>1, <2>2
<1>7. PICK b \in BOOLEAN : b <=> last /\ ~skips
  OBVIOUS
<1>8. PICK c : c = IF b THEN <<[op |-> "start", node |-> t]>> ELSE todo[t]
  OBVIOUS
<1>9. /\ todo' = [todo EXCEPT ![x] = fs \o Tail(@), ![t] = c]
      /\ body' = (IF skips THEN [body EXCEPT ![t] = "skipped"] ELSE body)
      /\ word' = [word EXCEPT ![t].count = @ - k] /\ UNCHANGED head
  BY <1>1, <1>2, <1>4, <1>5, <1>6, <1>7, <1>8 DEF Pre
<1>10. b => todo[t] = <<>>
  BY <1>1, <1>2, <1>3, <1>4, <1>7, NotStarted
<1>11. Moved(x, fs)
  BY <1>1, <1>3, <1>8, <1>9, <1>10, MovedStart
<1>12. \A u \in Tasks : word'[u].bits = word[u].bits
  BY <1>1, <1>9, SetCount DEF Inv, Types
<1>13. /\ \A u \in Tasks : u # t => body'[u] = body[u]
       /\ body'[t] = IF skips THEN "skipped" ELSE body[t]
  BY <1>1, <1>9 DEF Inv, Types
<1>14. Steady
  BY <1>3, <1>9, <1>12, <1>13 DEF Steady, IsDone, Failed, Waiting
<1>15. Hands(x, fs)
  BY <1>1, <1>6, HandsIdle DEF Idle
<1>16. \A v, u \in Tasks : Hangs(v, u) => Reached(v, u)'
  BY <1>9 DEF Hangs, Reached
<1>17. \A v \in Tasks : IsDone(v)' => IsDone(v)
  BY <1>9 DEF IsDone
<1>18. ~IsDone(t)'
  BY <1>3, <1>17 DEF Core, Counted, Waiting, Final
<1>19. skips => Outcome(t)'
  <2>1. skips => Failed(t)'
    BY <1>5, <1>12 DEF Skips, Failed
  <2>2. skips => Warned(t)'
    BY <2>1 DEF Warned
  <2> QED
    BY <1>13, <1>18, <2>2 DEF Outcome, Arrived, Blamed, Supplied
<1>20. \A v \in Tasks : body'[v] = body[v] \/ Outcome(v)'
  BY <1>13, <1>19
<1> QED
  BY <1>11, <1>14, <1>15, <1>16, <1>17, <1>20, OutcomesKept

(***************************************************************************)
(* Bodies                                                                  *)
(***************************************************************************)
(* The body of t goes on, with what it needs. *)
LEMMA BodyOutcomes ==
  ASSUME Core, Outcomes, UNCHANGED <<prog, head>>, NEW t \in Tasks, NEW o \in Bottom, At(t, o),
         NEW v \in {"running", "attached", "value", "threw", "skipped"},
         body' = [body EXCEPT ![t] = v],
         \A u \in Tasks : u # t => word'[u].bits = word[u].bits,
         word'[t].bits = word[t].bits \/ body[t] = "running",
         NEW fs, Moved(t, fs), Hands(t, fs),
         v \in {"skipped", "threw"} => Warned(t)',
         v # "skipped" => \A u \in Producers(t) : body[u] = "value",
         v = "value" => \A u \in Forwarded(t) : body[u] = "value"
  PROVE  Outcomes'
<1>1. t \in Threads /\ ~Final(t) /\ ~IsDone(t)
  BY Own
<1>2. body'[t] = v /\ \A u \in Tasks : u # t => body'[u] = body[u]
  BY DEF Core, Inv, Types
<1>3. \A u \in Tasks : IsDone(u)' <=> IsDone(u)
  BY DEF IsDone
<1>4. Steady
  BY <1>1, <1>2, <1>3 DEF Steady, Failed, Final
<1>5. \A u, w \in Tasks : Hangs(u, w) => Reached(u, w)'
  BY DEF Hangs, Reached
<1>6. Outcome(t)'
  <2>1. Producers(t)' = Producers(t) /\ Forwarded(t)' = Forwarded(t)
    BY DEF Producers, Forwarded, Inputs, Returns
  <2>2. Producers(t) \subseteq Tasks /\ Forwarded(t) \subseteq Tasks
    BY Related DEF Core
  <2>3. Supplied(t)'
    BY <1>2, <1>4, <2>1, <2>2 DEF Supplied, Steady
  <2>4. Arrived(t)' /\ Blamed(t)'
    BY <1>1, <1>2, <1>3 DEF Arrived, Blamed
  <2> QED
    BY <2>3, <2>4 DEF Outcome
<1>7. \A u \in Tasks : body'[u] = body[u] \/ Outcome(u)'
  BY <1>2, <1>6
<1> QED
  BY <1>1, <1>3, <1>4, <1>5, <1>7, OutcomesKept

(* What a thread does before it completes a task that has failed comes in time. *)
LEMMA Completing ==
  ASSUME NEW x, NEW t \in Tasks, NEW r \in Seq(Frame),
         \A k \in DOMAIN r : r[k].node = t /\ r[k].op \in {"signal", "mark", "failure"},
         Cur(x).op \in Idle \cup {"signal", "look"}
  PROVE  \E fs \in Seq(Frame) : /\ fs = r \o Complete(t, TRUE) /\ Hands(x, fs)
                                /\ \A k \in DOMAIN r : k \in DOMAIN fs /\ fs[k] = r[k] /\ Settled(fs, k, t)
<1>1. PICK c \in Seq(Frame) : /\ c = Complete(t, TRUE) /\ DOMAIN c = {1, 2}
                             /\ c[1].op = "exchange" /\ c[2].op = "wakeup" /\ Settles(c[1], t)
  BY Completion
<1>2. PICK fs : fs = r \o c
  OBVIOUS
<1>3. fs \in Seq(Frame) /\ Leads(fs, r, c)
  BY <1>2, Before
<1>4. \A k \in DOMAIN r : k \in DOMAIN fs /\ fs[k] = r[k] /\ Settled(fs, k, t)
  BY <1>1, <1>3 DEF Leads, Settled
<1>5. \A k \in DOMAIN fs : k \in DOMAIN r \/ fs[k].op \in {"exchange", "wakeup"}
  BY ZenonT(60), <1>1, <1>3 DEF Leads
<1>6. ASSUME NEW k \in DOMAIN fs
      PROVE  /\ Tells(fs[k])'
             /\ fs[k].op \in {"failure", "signal", "mark", "set"} => Settled(fs, k, fs[k].node)
  <2>1. CASE k \in DOMAIN r
    <3>1. fs[k].node = t /\ fs[k].op \in {"signal", "mark", "failure"} /\ Settled(fs, k, t)
      BY <1>4, <2>1
    <3> QED
      BY <3>1 DEF Tells
  <2>2. CASE k \notin DOMAIN r
    <3>1. fs[k].op \in {"exchange", "wakeup"}
      BY <1>5, <2>2
    <3> QED
      BY <3>1 DEF Tells
  <2> QED
    BY <2>1, <2>2
<1>7. Hands(x, fs)
  <2>1. \A t_1 : ~Warns(Cur(x), t_1)
    BY DEF Warns, Idle
  <2>2. \A t_1, u : ~Brings(Cur(x), t_1, u)
    BY DEF Brings, Idle
  <2> QED
    BY <1>6, <2>1, <2>2 DEF Hands
<1> QED
  BY <1>1, <1>2, <1>3, <1>4, <1>7

(* The task completes, and nothing comes before it. *)
LEMMA JustCompletes ==
  ASSUME NEW x, NEW t \in Tasks, NEW e \in BOOLEAN, Cur(x).op \in Idle \cup {"signal", "look"}
  PROVE  \E fs \in Seq(Frame) : fs = Complete(t, e) /\ Hands(x, fs)
<1>1. PICK c \in Seq(Frame) : /\ c = Complete(t, e) /\ DOMAIN c = {1, 2}
                             /\ c[1].op = "exchange" /\ c[2].op = "wakeup"
  BY Completion
<1>2. \A k \in DOMAIN c : c[k].op \in Idle
  BY <1>1 DEF Idle
<1>3. Hands(x, c)
  BY <1>2, HandsIdle
<1> QED
  BY <1>1, <1>3

LEMMA StartOutcomes ==
  ASSUME Core, Outcomes, UNCHANGED prog, NEW t \in Tasks, Start(t)
  PROVE  Outcomes'
<1>1. At(t, "start") /\ "start" \in Bottom /\ UNCHANGED <<head, word>> /\ body[t] = "pending"
  BY DEF Start, Bottom
<1>2. t \in Threads /\ Cur(t).node = t
  BY <1>1, Own
<1>3. Fits(Cur(t)) /\ Cur(t).op = "start" /\ todo[t] # <<>>
  BY <1>1, <1>2, First
<1>4. Waiting(t) /\ word[t].count = 0
  BY <1>2, <1>3 DEF Fits
<1>5. CASE ~Failed(t)
  <2>1. PICK g \in Frame : g = [op |-> "functor", node |-> t] /\ g.op = "functor"
    <3>1. [op |-> "functor", node |-> t] \in Frame /\ [op |-> "functor", node |-> t].op = "functor"
      BY DEF Frame
    <3> QED
      BY <3>1
  <2>2. PICK fs \in Seq(Frame) : fs = <<g>> /\ DOMAIN fs = {1} /\ fs[1] = g
    BY Short, OneFrame
  <2>3. Then(t, fs) /\ body' = [body EXCEPT ![t] = "running"]
    BY <1>5, <2>1, <2>2 DEF Start, Starts
  <2>4. Moved(t, fs) /\ Hands(t, fs)
    BY <1>2, <1>3, <2>1, <2>2, <2>3, MovedThen, HandsIdle DEF Core, Idle
  <2>5. \A u \in Producers(t) : body[u] = "value"
    BY <1>1, <1>4, <1>5, Ready
  <2> QED
    BY <1>1, <2>3, <2>4, <2>5, BodyOutcomes
<1>6. CASE Failed(t)
  <2>1. PICK fs \in Seq(Frame) : fs = Complete(t, TRUE) /\ Hands(t, fs)
    BY <1>3, JustCompletes DEF Idle
  <2>2. Then(t, fs) /\ body' = [body EXCEPT ![t] = "skipped"]
    BY <1>6, <2>1 DEF Start, Starts
  <2>3. Moved(t, fs) /\ Warned(t)'
    BY <1>1, <1>2, <1>3, <1>6, <2>2, MovedThen DEF Core, Warned, Failed
  <2> QED
    BY <1>1, <2>1, <2>2, <2>3, BodyOutcomes
<1> QED
  BY <1>5, <1>6

LEMMA ReturnValueOutcomes ==
  ASSUME Core, Outcomes, UNCHANGED prog, NEW t \in Tasks, ReturnValue(t)
  PROVE  Outcomes'
<1>1. /\ At(t, "functor") /\ "functor" \in Bottom /\ UNCHANGED <<head, word>>
      /\ body' = [body EXCEPT ![t] = "value"] /\ Then(t, Complete(t, FALSE))
  BY DEF ReturnValue, Bottom
<1>2. t \in Threads /\ Cur(t).node = t
  BY <1>1, Own
<1>3. Fits(Cur(t)) /\ Cur(t).op = "functor" /\ todo[t] # <<>>
  BY <1>1, <1>2, First
<1>4. body[t] = "running"
  BY <1>2, <1>3 DEF Fits
<1>5. Supplied(t) /\ Forwarded(t) = {}
  BY Related DEF Outcomes, Outcome, ReturnValue, Core
<1>6. PICK fs \in Seq(Frame) : fs = Complete(t, FALSE) /\ Hands(t, fs)
  BY <1>3, JustCompletes DEF Idle
<1>7. Moved(t, fs)
  BY <1>1, <1>2, <1>3, <1>6, MovedThen DEF Core
<1> QED
  BY <1>1, <1>4, <1>5, <1>6, <1>7, BodyOutcomes DEF Supplied

LEMMA ThrowOutcomes ==
  ASSUME Core, Outcomes, UNCHANGED prog, NEW t \in Tasks, Throw(t)
  PROVE  Outcomes'
<1>0. PICK m \in Frame : m = Mark(t, "exception") /\ m.op = "mark" /\ m.node = t
  <2>1. Mark(t, "exception") \in Frame /\ Mark(t, "exception").op = "mark" /\ Mark(t, "exception").node = t
    BY DEF Mark, Frame, Bits
  <2> QED
    BY <2>1
<1>1. PICK s \in Frame : s = Carry(t, t) /\ s.op = "signal" /\ s.node = t
  <2>1. Carry(t, t) \in Frame /\ Carry(t, t).op = "signal" /\ Carry(t, t).node = t
    BY DEF Carry, Frame
  <2> QED
    BY <2>1
<1>2. PICK r \in Seq(Frame) : r = <<s, m>>
  <2>1. <<s, m>> \in Seq(Frame)
    BY Short
  <2> QED
    BY <2>1
<1>3. DOMAIN r = {1, 2} /\ r[1] = s /\ r[2] = m
  BY <1>2, TwoFrames
<1>4. /\ At(t, "functor") /\ "functor" \in Bottom /\ UNCHANGED <<head, word>>
      /\ body' = [body EXCEPT ![t] = "threw"] /\ Then(t, r \o Complete(t, TRUE))
  BY <1>0, <1>1, <1>2 DEF Throw, Bottom
<1>5. t \in Threads /\ Cur(t).node = t
  BY <1>4, Own
<1>6. Fits(Cur(t)) /\ Cur(t).op = "functor" /\ todo[t] # <<>>
  BY <1>4, <1>5, First
<1>7. body[t] = "running" /\ Supplied(t)
  BY <1>5, <1>6 DEF Fits, Outcomes, Outcome
<1>8. \A k \in DOMAIN r : r[k].node = t /\ r[k].op \in {"signal", "mark", "failure"}
  BY <1>0, <1>1, <1>3
<1>9. PICK fs \in Seq(Frame) : /\ fs = r \o Complete(t, TRUE) /\ Hands(t, fs)
                              /\ \A k \in DOMAIN r : k \in DOMAIN fs /\ fs[k] = r[k] /\ Settled(fs, k, t)
  BY <1>6, <1>8, Completing DEF Idle
<1>10. Moved(t, fs)
  BY <1>4, <1>5, <1>6, <1>9, MovedThen DEF Core
<1>11. 2 \in DOMAIN fs /\ Warns(fs[2], t) /\ Settled(fs, 2, t)
  BY <1>0, <1>3, <1>9 DEF Warns
<1>12. Warned(t)'
  BY <1>5, <1>10, <1>11, NowWarned
<1> QED
  BY <1>4, <1>7, <1>9, <1>10, <1>12, BodyOutcomes DEF Supplied

(* The functor returned a var. *)
LEMMA EmplaceOutcomes ==
  ASSUME Core, Outcomes, UNCHANGED prog, NEW t \in Tasks, Emplace(t)
  PROVE  Outcomes'
<1>1. /\ At(t, "functor") /\ "functor" \in Bottom /\ UNCHANGED head
      /\ body' = [body EXCEPT ![t] = "attached"] /\ Then(t, <<[op |-> "attach", node |-> t]>>)
      /\ \A u \in Tasks : u # t => word'[u].bits = word[u].bits
  BY DEF Emplace, Bottom, Core, Inv, Types
<1>2. t \in Threads /\ Cur(t).node = t
  BY <1>1, Own
<1>3. Fits(Cur(t)) /\ Cur(t).op = "functor" /\ todo[t] # <<>>
  BY <1>1, <1>2, First
<1>4. body[t] = "running" /\ Supplied(t)
  BY <1>2, <1>3 DEF Fits, Outcomes, Outcome
<1>5. PICK g \in Frame : g = [op |-> "attach", node |-> t] /\ g.op = "attach"
  <2>1. [op |-> "attach", node |-> t] \in Frame /\ [op |-> "attach", node |-> t].op = "attach"
    BY DEF Frame
  <2> QED
    BY <2>1
<1>6. PICK fs \in Seq(Frame) : fs = <<g>> /\ DOMAIN fs = {1} /\ fs[1] = g
  BY Short, OneFrame
<1>7. Moved(t, fs) /\ Hands(t, fs)
  <2>1. Then(t, fs)
    BY <1>1, <1>5, <1>6
  <2>2. Moved(t, fs)
    BY <1>2, <1>3, <2>1, MovedThen DEF Core
  <2>3. Hands(t, fs)
    BY <1>3, <1>5, <1>6, HandsIdle DEF Idle
  <2> QED
    BY <2>2, <2>3
<1> QED
  BY <1>1, <1>4, <1>7, BodyOutcomes DEF Supplied

(* Its task waits for what the var holds, or finds it there. *)
LEMMA AttachOutcomes ==
  ASSUME Core, Outcomes, UNCHANGED prog, NEW t \in Tasks, Attach(t)
  PROVE  Outcomes'
<1>1. At(t, "attach") /\ "attach" \in Bottom /\ UNCHANGED word /\ Forwards(t)
  BY DEF Attach, Bottom
<1>2. PICK u \in Tasks : u = Returns(t) /\ Forwarded(t) = {u}
  BY <1>1, Related DEF Core
<1>3. t \in Threads /\ Cur(t).node = t /\ ~Final(t) /\ ~IsDone(t)
  BY <1>1, Own
<1>4. Fits(Cur(t)) /\ Cur(t).op = "attach" /\ todo[t] # <<>>
  BY <1>1, <1>3, First
<1>5. body[t] = "attached" /\ Supplied(t)
  BY <1>3, <1>4 DEF Fits, Outcomes, Outcome
<1>6. CASE IsDone(u)
  <2>1. PICK g \in Frame : g = [op |-> "look", node |-> t] /\ g.op = "look" /\ g.node = t
    <3>1. [op |-> "look", node |-> t] \in Frame /\ [op |-> "look", node |-> t].op = "look"
      BY DEF Frame
    <3> QED
      BY <3>1
  <2>2. PICK fs \in Seq(Frame) : fs = <<g>> /\ DOMAIN fs = {1} /\ fs[1] = g
    BY Short, OneFrame
  <2>3. Then(t, fs) /\ UNCHANGED <<head, body>>
    BY <1>2, <1>6, <2>1, <2>2 DEF Attach
  <2>4. Returns(t)' = u /\ Forwards(t)' /\ IsDone(u)'
    BY <1>1, <1>2, <1>6, <2>3 DEF Returns, Forwards, IsDone
  <2>5. Hands(t, fs)
    BY <1>4, <2>1, <2>2, <2>4 DEF Hands, Tells, Warns, Brings
  <2> QED
    BY <1>1, <1>3, <1>4, <2>3, <2>5, OutcomesThen
<1>7. CASE ~IsDone(u)
  <2>1. PICK fs \in Seq(Frame) : fs = <<>>
    BY Short
  <2>2. PICK a : a = Flow(t, 0)
    OBVIOUS
  <2>3. /\ Then(t, fs) /\ DOMAIN fs = {} /\ Push(u, a) /\ a \in Arc /\ a \in Flows(t)
        /\ body' = [body EXCEPT ![t] = "forwarding"]
    BY <1>2, <1>7, <2>1, <2>2 DEF Attach, Arc, Flow, Flows
  <2>4. /\ \A v, w \in Tasks : Hangs(v, w) => Hangs(v, w)'
        /\ \A v \in Tasks : a \in Flows(v) => Hangs(v, u)'
        /\ \A v \in Tasks : IsDone(v)' <=> IsDone(v)
    BY <1>7, <2>3, PushHangs DEF Core
  <2>5. body'[t] = "forwarding" /\ \A v \in Tasks : v # t => body'[v] = body[v]
    BY <2>3 DEF Core, Inv, Types
  <2>6. Steady
    BY <1>1, <1>3, <2>4, <2>5 DEF Steady, Failed, Final
  <2>7. Moved(t, fs) /\ Hands(t, fs)
    <3>1. Moved(t, fs)
      BY <1>3, <1>4, <2>3, MovedThen DEF Core
    <3>2. \A k \in DOMAIN fs : fs[k].op \in Idle
      BY <2>3
    <3> QED
      BY <1>4, <3>1, <3>2, HandsIdle DEF Idle
  <2>8. Reached(t, u)' /\ \A v, w \in Tasks : Hangs(v, w) => Reached(v, w)'
    BY <2>3, <2>4 DEF Reached
  <2>9. Producers(t)' = Producers(t) /\ Forwarded(t)' = Forwarded(t) /\ Producers(t) \subseteq Tasks
    BY Related DEF Producers, Forwarded, Inputs, Returns, Core
  <2>10. Outcome(t)'
    BY <1>2, <1>3, <1>5, <2>4, <2>5, <2>6, <2>8, <2>9
    DEF Outcome, Arrived, Blamed, Supplied, Steady
  <2>11. \A v \in Tasks : body'[v] = body[v] \/ Outcome(v)'
    BY <2>5, <2>10
  <2> QED
    BY <1>3, <2>4, <2>6, <2>7, <2>8, <2>11, OutcomesKept
<1> QED
  BY <1>6, <1>7

LEMMA LookOutcomes ==
  ASSUME Core, Outcomes, UNCHANGED prog, NEW t \in Tasks, Look(t)
  PROVE  Outcomes'
<1>1. At(t, "look") /\ "look" \in Bottom /\ UNCHANGED <<head, word>> /\ Forwards(t)
  BY DEF Look, Bottom
<1>2. PICK u \in Tasks : u = Returns(t) /\ Forwarded(t) = {u}
  BY <1>1, Related DEF Core
<1>3. t \in Threads /\ Cur(t).node = t
  BY <1>1, Own
<1>4. Fits(Cur(t)) /\ Cur(t).op = "look" /\ todo[t] # <<>> /\ 1 \in DOMAIN todo[t] /\ todo[t][1] = Cur(t)
  BY <1>1, <1>3, First
<1>5. body[t] = "attached" /\ Supplied(t) /\ Blamed(u) /\ Tells(Cur(t))
  <2>1. body[t] = "attached"
    BY <1>3, <1>4 DEF Fits
  <2>2. Supplied(t) /\ Blamed(u)
    BY DEF Outcomes, Outcome
  <2>3. Tells(todo[t][1])
    BY <1>3, <1>4 DEF Outcomes
  <2> QED
    BY <1>4, <2>1, <2>2, <2>3
<1>6. IsDone(u)
  BY <1>2, <1>3, <1>4, <1>5 DEF Tells
<1>7. CASE Failed(u)
  <2>1. PICK f \in Frame : f = [op |-> "failure", node |-> t, from |-> u, port |-> 0]
                           /\ f.op = "failure" /\ f.node = t
    <3>1. PICK f : f = [op |-> "failure", node |-> t, from |-> u, port |-> 0]
      OBVIOUS
    <3>2. f \in Frame /\ f.op = "failure" /\ f.node = t
      BY <3>1 DEF Frame
    <3> QED
      BY <3>1, <3>2
  <2>2. PICK r \in Seq(Frame) : r = <<f>> /\ DOMAIN r = {1} /\ r[1] = f
    BY Short, OneFrame
  <2>3. Then(t, r \o Complete(t, TRUE)) /\ body' = [body EXCEPT ![t] = "skipped"]
    BY <1>2, <1>7, <2>1, <2>2 DEF Look, AttachedLate
  <2>4. PICK fs \in Seq(Frame) : /\ fs = r \o Complete(t, TRUE) /\ Hands(t, fs)
                                /\ \A k \in DOMAIN r : k \in DOMAIN fs /\ fs[k] = r[k] /\ Settled(fs, k, t)
    <3>1. \A k \in DOMAIN r : r[k].node = t /\ r[k].op \in {"signal", "mark", "failure"}
      BY <2>1, <2>2
    <3>2. Cur(t).op \in Idle \cup {"signal", "look"}
      BY <1>4
    <3> QED
      BY <3>1, <3>2, Completing
  <2>5. Moved(t, fs)
    BY <1>3, <1>4, <2>3, <2>4, MovedThen DEF Core
  <2>6. 1 \in DOMAIN fs /\ Warns(fs[1], t) /\ Settled(fs, 1, t)
    BY <2>1, <2>2, <2>4 DEF Warns
  <2>7. Warned(t)'
    BY <1>3, <2>5, <2>6, NowWarned
  <2> QED
    BY <1>1, <2>3, <2>4, <2>5, <2>7, BodyOutcomes
<1>8. CASE ~Failed(u)
  <2>1. body[u] = "value"
    BY <1>5, <1>6, <1>8 DEF Blamed
  <2>2. PICK fs \in Seq(Frame) : fs = Complete(t, FALSE) /\ Hands(t, fs)
    BY <1>4, JustCompletes
  <2>3. Then(t, fs) /\ body' = [body EXCEPT ![t] = "value"]
    BY <1>2, <1>8, <2>2 DEF Look, AttachedLate
  <2>4. Moved(t, fs)
    BY <1>3, <1>4, <2>2, <2>3, MovedThen DEF Core
  <2> QED
    BY <1>1, <1>2, <1>5, <2>1, <2>2, <2>3, <2>4, BodyOutcomes DEF Supplied
<1> QED
  BY <1>7, <1>8

LEMMA ResumeOutcomes ==
  ASSUME Core, Outcomes, UNCHANGED prog, NEW t \in Tasks, Resume(t)
  PROVE  Outcomes'
<1>1. At(t, "start") /\ "start" \in Bottom /\ UNCHANGED <<head, word>> /\ body[t] = "forwarding"
  BY DEF Resume, Bottom
<1>2. t \in Threads /\ Cur(t).node = t
  BY <1>1, Own
<1>3. Fits(Cur(t)) /\ Cur(t).op = "start" /\ todo[t] # <<>>
  BY <1>1, <1>2, First
<1>4. Waiting(t) /\ word[t].count = 0 /\ Supplied(t)
  BY <1>2, <1>3 DEF Fits, Outcomes, Outcome
<1>5. CASE ~Failed(t)
  <2>1. PICK fs \in Seq(Frame) : fs = Complete(t, FALSE) /\ Hands(t, fs)
    BY <1>3, JustCompletes DEF Idle
  <2>2. Then(t, fs) /\ body' = [body EXCEPT ![t] = "value"]
    BY <1>5, <2>1 DEF Resume, Starts
  <2>3. Moved(t, fs)
    BY <1>2, <1>3, <2>1, <2>2, MovedThen DEF Core
  <2>4. \A u \in Forwarded(t) : body[u] = "value"
    BY <1>1, <1>4, <1>5, Ready
  <2> QED
    BY <1>1, <1>4, <2>1, <2>2, <2>3, <2>4, BodyOutcomes DEF Supplied
<1>6. CASE Failed(t)
  <2>1. PICK fs \in Seq(Frame) : fs = Complete(t, TRUE) /\ Hands(t, fs)
    BY <1>3, JustCompletes DEF Idle
  <2>2. Then(t, fs) /\ body' = [body EXCEPT ![t] = "skipped"]
    BY <1>6, <2>1 DEF Resume, Starts
  <2>3. Moved(t, fs) /\ Warned(t)'
    BY <1>1, <1>2, <1>3, <1>6, <2>1, <2>2, MovedThen DEF Core, Warned, Failed
  <2> QED
    BY <1>1, <2>1, <2>2, <2>3, BodyOutcomes
<1> QED
  BY <1>5, <1>6

(***************************************************************************)
(* Calls                                                                   *)
(***************************************************************************)
(* A task is launched: one link for each of its inputs. *)
LEMMA RunOutcomes ==
  ASSUME Core, Outcomes, UNCHANGED prog, NEW t \in Tasks, Run(t)
  PROVE  Outcomes'
<1>1. PICK m : m = Maker(t)
  OBVIOUS
<1>2. PICK fs : fs = Links(t) \o Ends(t)
  OBVIOUS
<1>3. m \in Threads /\ Inv
  BY <1>1, ProgramTypes DEF Core, Inv, Types
<1>4. /\ body[t] = "idle" /\ body' = [body EXCEPT ![t] = "pending"] /\ UNCHANGED head
      /\ word' = [word EXCEPT ![t] = [count |-> StartMask, bits |-> {}]]
      /\ todo[m] # <<>> => Cur(m).op = "functor"
  BY <1>1 DEF Run, Maker, At, Cur, InCall
<1>5. Upon(todo', todo, m, fs)
  <2>1. todo' = [todo EXCEPT ![m] = Links(t) \o Ends(t) \o todo[m]]
    BY <1>1, <1>3 DEF Run, Links, Ends
  <2> QED
    BY <1>2, <2>1 DEF Upon
<1>6. fs \in Seq(Frame) /\ \A i \in DOMAIN fs : fs[i].op \in {"link", "publish", "return"}
  <2>1. Constructs(t, fs)
    BY <1>2, <1>3, Construction
  <2> QED
    BY <2>1 DEF Constructs
<1>7. \A u \in Producers(t) : \E k \in DOMAIN fs : Brings(fs[k], t, u)
  <2>1. SUFFICES ASSUME NEW i \in DOMAIN Inputs(t)
                 PROVE  \E k \in DOMAIN fs : Brings(fs[k], t, Inputs(t)[i].task)
    BY DEF Producers
  <2>2. PICK n \in Nat : n = Len(Inputs(t)) /\ DOMAIN Inputs(t) = 1..n
    BY <1>3, InputsFew
  <2>3. PICK l : l = Links(t)
    OBVIOUS
  <2>4. l[i] = [op |-> "link", node |-> t, from |-> Inputs(t)[i].task, port |-> Inputs(t)[i].port]
    BY <2>2, <2>3 DEF Links
  <2>5. PICK e : e = Ends(t)
    OBVIOUS
  <2>6. PICK S : S = {l[j] : j \in 1..n} \cup {e[j] : j \in 1..2}
    OBVIOUS
  <2>7. l \in Seq(S) /\ DOMAIN l = 1..n
    <3>1. l = [j \in 1..n |-> l[j]] /\ \A j \in 1..n : l[j] \in S
      BY <2>2, <2>3, <2>6 DEF Links
    <3> QED
      BY <3>1
  <2>8. e \in Seq(S)
    <3>1. PICK a : a = [op |-> "publish", node |-> t]
      OBVIOUS
    <3>2. PICK b : b = [op |-> "return", node |-> t]
      OBVIOUS
    <3>3. e = <<a, b>>
      BY <2>5, <3>1, <3>2 DEF Ends
    <3>4. a \in S /\ b \in S
      BY <2>6, <3>3
    <3> QED
      BY <3>3, <3>4, Short
  <2>9. Leads(fs, l, e)
    BY <1>2, <2>3, <2>5, <2>7, <2>8, Before
  <2>10. i \in DOMAIN fs /\ fs[i] = l[i]
    BY <2>2, <2>7, <2>9 DEF Leads
  <2>11. PICK g : g = l[i]
    OBVIOUS
  <2>12. Brings(g, t, Inputs(t)[i].task)
    BY <2>4, <2>11 DEF Brings
  <2> QED
    BY <2>10, <2>11, <2>12
<1>8. /\ body'[t] = "pending" /\ \A u \in Tasks : u # t => body'[u] = body[u] /\ word'[u] = word[u]
  BY <1>3, <1>4 DEF Inv, Types
<1>9. Moved(m, fs)
  BY <1>3, <1>5, <1>6, MovedUpon
<1>10. \A u \in Tasks : IsDone(u)' <=> IsDone(u)
  BY <1>4 DEF IsDone
<1>11. Steady
  BY <1>4, <1>8, <1>10 DEF Steady, Failed
<1>12. Hands(m, fs)
  BY <1>4, <1>6 DEF Hands, Tells, Warns, Brings
<1>13. \A u \in Producers(t) : Reached(t, u)'
  BY <1>3, <1>7, <1>9, NowComes
<1>14. Outcome(t)'
  <2>1. Producers(t)' = Producers(t)
    BY DEF Producers, Inputs
  <2>2. ~IsDone(t)'
    BY <1>4, <1>10, NotYet
  <2> QED
    BY <1>8, <1>13, <2>1, <2>2 DEF Outcome, Arrived, Blamed, Supplied
<1>15. \A u \in Tasks : body'[u] = body[u] \/ Outcome(u)'
  BY <1>8, <1>14
<1>16. \A u, v \in Tasks : Hangs(u, v) => Reached(u, v)'
  BY <1>4 DEF Hangs, Reached
<1> QED
  BY <1>3, <1>9, <1>10, <1>11, <1>12, <1>15, <1>16, OutcomesKept

LEMMA CallOutcomes ==
  ASSUME Core, Outcomes, UNCHANGED prog, NEW x \in Users, Call(x)
  PROVE  Outcomes'
<1>1. PICK t \in Tasks : Cancel(x, t) \/ WaitFor(x, t)
  BY DEF Call
<1>2. PICK f \in Frame : f = Mark(t, "user") /\ f.op = "mark" /\ f.bit = "user"
  <2>1. Mark(t, "user") \in Frame /\ Mark(t, "user").op = "mark" /\ Mark(t, "user").bit = "user"
    BY DEF Mark, Frame, Bits
  <2> QED
    BY <2>1
<1>3. PICK g \in Frame : g = [op |-> "wait", node |-> t] /\ g.op = "wait"
  <2>1. [op |-> "wait", node |-> t] \in Frame
    BY DEF Frame
  <2> QED
    BY <2>1
<1>4. PICK h \in Frame : h = [op |-> "status", node |-> t] /\ h.op = "status"
  <2>1. [op |-> "status", node |-> t] \in Frame
    BY DEF Frame
  <2> QED
    BY <2>1
<1>5. PICK fs \in Seq(Frame) : /\ fs = <<f>> \/ fs = <<g, h>>
                              /\ todo' = [todo EXCEPT ![x] = fs]
  BY <1>1, <1>2, <1>3, <1>4, Short DEF Cancel, WaitFor
<1>6. todo[x] = <<>> /\ UNCHANGED <<word, head, body>>
  BY <1>1 DEF Cancel, WaitFor, InCall
<1>7. fs \o <<>> = fs
  OBVIOUS
<1>8. Upon(todo', todo, x, fs) /\ x \in Threads
  BY <1>5, <1>6, <1>7, Apart DEF Upon
<1>9. \A i \in DOMAIN fs : /\ fs[i].op \in {"mark", "wait", "status"}
                           /\ fs[i].op = "mark" => fs[i].bit = "user"
  BY <1>2, <1>3, <1>4, <1>5
<1>10. Hands(x, fs)
  BY <1>6, <1>9 DEF Hands, Tells
<1>11. Moved(x, fs)
  BY <1>8, MovedUpon DEF Core
<1>12. Steady /\ \A u \in Tasks : IsDone(u)' <=> IsDone(u)
  BY <1>6, SteadyQuiet DEF IsDone
<1>13. \A u, v \in Tasks : Hangs(u, v) => Reached(u, v)'
  BY <1>6 DEF Hangs, Reached
<1> QED
  BY <1>6, <1>8, <1>10, <1>11, <1>12, <1>13, OutcomesKept

(***************************************************************************)
(* The invariant                                                           *)
(***************************************************************************)
LEMMA InitOutcomes ==
  ASSUME Init
  PROVE  Outcomes
<1>1. /\ \A x \in Threads : todo[x] = <<>>
      /\ \A t \in Tasks : body[t] = "idle" /\ ~IsDone(t)
  BY DEF Init, Open, IsDone
<1>2. \A t \in Tasks : Outcome(t)
  BY <1>1 DEF Outcome, Arrived, Blamed, Supplied
<1> QED
  BY <1>1, <1>2 DEF Outcomes

LEMMA OutcomesStay ==
  ASSUME Core, Outcomes, UNCHANGED vars
  PROVE  Outcomes'
<1>1. \A t, u : /\ Reached(t, u)' <=> Reached(t, u)
                /\ Warned(t)' <=> Warned(t)
  BY DEF Reached, Warned, Comes, Hangs, Failed, vars
<1>2. \A t : Producers(t)' = Producers(t) /\ Forwarded(t)' = Forwarded(t)
  BY DEF Producers, Forwarded, Inputs, Returns, vars
<1>3. \A t : Arrived(t)' <=> Arrived(t)
  BY <1>1, <1>2 DEF Arrived, vars
<1>4. \A t : Blamed(t)' <=> Blamed(t)
  BY <1>1 DEF Blamed, IsDone, Failed, vars
<1>5. \A t : Supplied(t)' <=> Supplied(t)
  BY <1>2 DEF Supplied, vars
<1>6. \A f : Tells(f)' <=> Tells(f)
  BY DEF Tells, IsDone, Forwards, Returns, vars
<1> QED
  BY <1>3, <1>4, <1>5, <1>6 DEF Outcomes, Outcome, vars

LEMMA OutcomesNext ==
  ASSUME Core, Outcomes, [Next]_vars
  PROVE  Outcomes'
<1>1. Inv'
  BY CoreNext DEF Core
<1>2. ASSUME NEW t \in Tasks, Execute(t), UNCHANGED prog
      PROVE  Outcomes'
  BY <1>2, StartOutcomes, ReturnValueOutcomes, ThrowOutcomes, RunOutcomes, EmplaceOutcomes,
     AttachOutcomes, LookOutcomes, ResumeOutcomes DEF Execute
<1>3. ASSUME NEW t \in Tasks, Run(t), UNCHANGED prog
      PROVE  Outcomes'
  BY <1>3, RunOutcomes
<1>4. ASSUME NEW x \in Users, Call(x), UNCHANGED prog
      PROVE  Outcomes'
  BY <1>4, CallOutcomes
<1>5. ASSUME NEW x \in Threads, Step(x), UNCHANGED prog
      PROVE  Outcomes'
  BY <1>1, <1>5, MarkFailureOutcomes, SetBitOutcomes, PublishFailureOutcomes, AddSignalOutcomes,
     PopOutcomes, LinkOutcomes, LateOutcomes, WaitOutcomes, PreOutcomes, ExchangeOutcomes,
     NotifyOutcomes DEF Step
<1> QED
  BY <1>2, <1>3, <1>4, <1>5, OutcomesStay DEF Next, Rest

(* In any program a body only runs on values that were made, and a forwarding task has a
   value only if what its functor returned has one: whatever fails, and whenever, is known
   to a task before its last prerequisite is gone. *)
THEOREM InputsMade == Spec => []InputsThere
<1>1. Core /\ Outcomes => InputsThere
  BY DEF Outcomes, Outcome, Supplied, InputsThere
<1>2. Init => Core /\ Outcomes
  BY InitCore, InitOutcomes
<1>3. Core /\ Outcomes /\ [Next]_vars => (Core /\ Outcomes)'
  BY CoreNext, OutcomesNext
<1> QED
  BY <1>1, <1>2, <1>3, PTL DEF Spec

(***************************************************************************)
(* What a task that is done is told of                                     *)
(***************************************************************************)
Quiet(t) == \A x \in Users : \A i \in DOMAIN todo[x] : ~(todo[x][i].op = "set" /\ todo[x][i].node = t)

LEMMA DoneLists ==
  ASSUME Core, NEW x \in Threads, AddSignal(x) \/ Link(x) \/ Exchange(x), NEW t \in Tasks, IsDone(t)
  PROVE  head'[t] = head[t] /\ word'[t] = word[t]
<1>0. UNCHANGED word /\ head \in [Tasks -> ArcHead]
  BY DEF AddSignal, Link, Exchange, Core, Inv, Types
<1>1. CASE AddSignal(x)
  BY <1>0, <1>1 DEF AddSignal, Push
<1>2. CASE Link(x)
  BY <1>0, <1>2 DEF Link, Push
<1>3. CASE Exchange(x)
  <2>1. PICK f : f = Cur(x) /\ f.op = "exchange" /\ 1 \in DOMAIN todo[x] /\ todo[x][1] = f /\ f \in Frame
    BY <1>3, First DEF Exchange
  <2>2. PICK u \in Tasks : u = f.node
    BY <2>1, Says
  <2>3. u # t
    BY <2>1, <2>2, Found, Sorts
  <2>4. \E h : head' = [head EXCEPT ![u] = h]
    BY <1>3, <2>1, <2>2 DEF Exchange
  <2> QED
    BY <1>0, <2>3, <2>4
<1> QED
  BY <1>1, <1>2, <1>3

LEMMA DoneWords ==
  ASSUME Core, NEW u \in Tasks, Run(u) \/ Emplace(u) \/ Attach(u), NEW t \in Tasks, IsDone(t)
  PROVE  head'[t] = head[t] /\ word'[t] = word[t]
<1>0. head \in [Tasks -> ArcHead] /\ word \in [Tasks -> Word]
  BY DEF Core, Inv, Types
<1>1. CASE Run(u)
  <2>1. u # t
    BY <1>1, NotYet DEF Run
  <2> QED
    BY <1>0, <1>1, <2>1 DEF Run
<1>2. CASE Emplace(u)
  <2>1. u # t
    BY <1>2, Own DEF Emplace, Bottom
  <2> QED
    BY <1>0, <1>2, <2>1 DEF Emplace
<1>3. CASE Attach(u)
  BY <1>0, <1>3 DEF Attach, Push
<1> QED
  BY <1>1, <1>2, <1>3

LEMMA DoneBits ==
  ASSUME Core, Outcomes, NEW x \in Threads, SetBit(x) \/ Pre(x), NEW t \in Tasks, IsDone(t), Quiet(t)
  PROVE  head'[t] = head[t] /\ word'[t].bits = word[t].bits
<1>0. UNCHANGED head /\ word \in [Tasks -> Word]
  BY DEF SetBit, Pre, Core, Inv, Types
<1>1. CASE SetBit(x)
  <2>1. PICK f : f = Cur(x) /\ f.op = "set" /\ 1 \in DOMAIN todo[x] /\ todo[x][1] = f /\ f \in Frame
    BY <1>1, First DEF SetBit
  <2>2. PICK u \in Tasks : u = f.node
    BY <2>1, Says
  <2>3. u # t
    <3>1. SUFFICES ASSUME u = t
                   PROVE  FALSE
      OBVIOUS
    <3>2. x \notin Users
      BY <2>1, <2>2, <3>1 DEF Quiet
    <3>3. Warrants(x, todo[x], 1)
      BY <2>1 DEF Outcomes
    <3>4. Settled(todo[x], 1, t)
      BY <2>1, <2>2, <3>1, <3>2, <3>3 DEF Warrants
    <3> QED
      BY <2>1, <3>4, ToSettle
  <2>4. word' = word \/ \E b : word' = [word EXCEPT ![u].bits = @ \cup {b}]
    BY <1>1, <2>1, <2>2 DEF SetBit
  <2> QED
    BY <1>0, <2>3, <2>4
<1>2. CASE Pre(x)
  <2>1. PICK f : f = Cur(x) /\ f \in Frame /\ f.op = "pre"
    BY <1>2, First DEF Pre
  <2>2. PICK u \in Tasks, k \in Int : f.node = u /\ f.k = k
    BY <2>1, Says
  <2>3. word' = [word EXCEPT ![u].count = @ - k]
    BY <1>2, <2>1, <2>2 DEF Pre
  <2> QED
    BY <1>0, <2>3, SetCount
<1> QED
  BY SMTT(30), <1>1, <1>2

LEMMA DoneStays ==
  ASSUME Core, Outcomes, [Next]_vars, NEW t \in Tasks, IsDone(t), Quiet(t)
  PROVE  head'[t] = head[t] /\ word'[t].bits = word[t].bits
<1>1. CASE UNCHANGED vars
  BY <1>1 DEF vars
<1>2. ASSUME NEW x \in Threads, Step(x)
      PROVE  head'[t] = head[t] /\ word'[t].bits = word[t].bits
  <2>1. CASE AddSignal(x) \/ Link(x) \/ Exchange(x)
    BY <2>1, DoneLists
  <2>2. CASE SetBit(x) \/ Pre(x)
    BY <2>2, DoneBits
  <2>3. CASE MarkFailure(x) \/ PublishFailureFrom(x) \/ DropSignal(x) \/ Late(x) \/ Publish(x)
    BY <2>3 DEF MarkFailure, PublishFailureFrom, DropSignal, Late, Publish
  <2>4. CASE Return(x) \/ NotifyArc(x) \/ Wakeup(x) \/ Wait(x) \/ Block(x) \/ Status(x)
    BY <2>4 DEF Return, NotifyArc, Wakeup, Wait, Block, Status
  <2> QED
    BY <1>2, <2>1, <2>2, <2>3, <2>4 DEF Step
<1>3. ASSUME NEW u \in Tasks, Run(u) \/ Emplace(u) \/ Attach(u)
      PROVE  head'[t] = head[t] /\ word'[t].bits = word[t].bits
  BY <1>3, DoneWords
<1>4. ASSUME NEW u \in Tasks, Start(u) \/ ReturnValue(u) \/ Throw(u) \/ Look(u) \/ Resume(u)
      PROVE  head'[t] = head[t] /\ word'[t].bits = word[t].bits
  BY <1>4 DEF Start, ReturnValue, Throw, Look, Resume
<1>5. ASSUME NEW x \in Users, Call(x)
      PROVE  head'[t] = head[t] /\ word'[t].bits = word[t].bits
  BY <1>5 DEF Call, Cancel, WaitFor
<1>6. ASSUME NEW u \in Tasks, Execute(u)
      PROVE  head'[t] = head[t] /\ word'[t].bits = word[t].bits
  BY <1>3, <1>4, <1>6 DEF Execute
<1> QED
  BY <1>1, <1>2, <1>3, <1>5, <1>6 DEF Next, Rest

(* In any program the outcome of a task that is done stays, whatever the engine still does
   for other tasks: only a user who was about to cancel it may still mark it. *)
THEOREM OutcomeKept == Spec => OutcomeStays
<1>1. Init => Core /\ Outcomes
  BY InitCore, InitOutcomes
<1>2. Core /\ Outcomes /\ [Next]_vars => (Core /\ Outcomes)'
  BY CoreNext, OutcomesNext
<1>3. ASSUME Core, Outcomes, [Next]_vars, NEW t \in Tasks, IsDone(t), Quiet(t)
      PROVE  StatusOf(t)' = StatusOf(t)
  <2>1. head'[t] = head[t] /\ word'[t].bits = word[t].bits
    BY <1>3, DoneStays
  <2>2. LocalControl(t)' = LocalControl(t)
    BY <2>1 DEF LocalControl
  <2>3. TheControl(t)' = TheControl(t)
    BY <2>2 DEF TheControl
  <2> QED
    BY <2>1, <2>2, <2>3 DEF StatusOf, Failed, Has
<1>4. Core /\ Outcomes /\ [Next]_vars =>
        [\A t \in Tasks :
           /\ IsDone(t)
           /\ \A x \in Users : \A i \in DOMAIN todo[x] : ~(todo[x][i].op = "set" /\ todo[x][i].node = t)
           => StatusOf(t)' = StatusOf(t)]_vars
  BY <1>3 DEF Quiet
<1> QED
  BY <1>1, <1>2, <1>4, PTL DEF Spec, OutcomeStays

(***************************************************************************)
(* Why a task has failed                                                   *)
(***************************************************************************)
Marks(f, t) == f.op \in {"mark", "set"} /\ f.node = t /\ f.bit = "exception"
Marking(t) == \E x \in Threads : \E i \in DOMAIN todo[x] : Marks(todo[x][i], t)

(* u ended with a failure; a source of t did; a user cancelled t or a task before it; the
   tasks before t that threw. *)
Ruined(u)   == IsDone(u) /\ Failed(u)
Hindered(t) == \E u \in Sources(t) : Ruined(u)
Revoked(t)  == Upstream(t) \cap cancelled # {}
Throwers(t) == {c \in Upstream(t) : body[c] = "threw"}

(* The frame at place i of s comes right after one of its task that is in O. *)
Follows(s, i, O) == i > 1 /\ s[i - 1].op \in O /\ s[i - 1].node = s[i].node

(* What is about to be said of a task is so: the exception that is carried to it was thrown
   before it and its mark is next, a mark has its reason, and so on... *)
Given(s, i) ==
  /\ s[i].op = "signal" => /\ s[i].control \in Throwers(s[i].node)
                           /\ i = 1 /\ 2 \in DOMAIN s /\ s[2] = Mark(s[1].node, "exception")
  /\ s[i].op \in {"mark", "set"} =>
       /\ s[i].bit = "exception" => LocalControl(s[i].node) # {} \/ Follows(s, i, {"signal"})
       /\ s[i].bit = "user" => Revoked(s[i].node)
       /\ s[i].bit = "dependency" => Hindered(s[i].node)
  /\ s[i].op \in {"link", "late", "notify", "failure"} => s[i].from \in Sources(s[i].node)
  /\ s[i].op = "failure" => Ruined(s[i].from)
  /\ s[i].op = "notify" => IsDone(s[i].from) /\ (s[i].failed = TRUE => Failed(s[i].from))
  /\ s[i].op = "wakeup" => IsDone(s[i].node) \/ Follows(s, i, {"exchange"})
  /\ s[i].op = "status" => IsDone(s[i].node) \/ Follows(s, i, {"wait", "block"})

(* ... and so is what it says of itself. *)
Grounded(t) ==
  /\ LocalControl(t) \subseteq Throwers(t)
  /\ Has(t, "exception") => LocalControl(t) # {}
  /\ Has(t, "user") => Revoked(t)
  /\ Has(t, "dependency") => Hindered(t)
  /\ body[t] = "threw" \/ (LocalControl(t) # {} /\ Waiting(t)) => Has(t, "exception") \/ Marking(t)
  /\ body[t] \in {"idle", "running", "attached", "value"} =>
       LocalControl(t) = {} /\ ~Has(t, "dependency")
  /\ \A i \in DOMAIN head[t].arcs :
       head[t].arcs[i].kind = "flow" => t \in Sources(head[t].arcs[i].node)
  /\ woken[t] = TRUE => IsDone(t)

Grounds ==
  /\ \A t \in Tasks : Grounded(t)
  /\ \A x \in Threads : \A i \in DOMAIN todo[x] : Given(todo[x], i)

LEMMA UpstreamOf ==
  ASSUME NEW t \in Tasks, NEW u \in Sources(t)
  PROVE  t \in Upstream(t) /\ Upstream(u) \subseteq Upstream(t)
<1>1. t \in Upstream(t)
  BY DEF Upstream
<1>2. ASSUME NEW w \in Upstream(u)
      PROVE  w \in Upstream(t)
  BY <1>2 DEF Upstream
<1> QED
  BY <1>1, <1>2

LEMMA SameSources ==
  ASSUME UNCHANGED prog, NEW t
  PROVE  Sources(t)' = Sources(t) /\ Upstream(t)' = Upstream(t) /\ Returns(t)' = Returns(t)
<1>1. \A v : Sources(v)' = Sources(v)
  BY DEF Sources, Producers, Forwarded, Inputs, Returns
<1>2. Upstream(t)' = Upstream(t)
  BY <1>1 DEF Upstream
<1> QED
  BY <1>1, <1>2 DEF Returns

LEMMA SourcesTasks ==
  ASSUME Inv, NEW t \in Tasks
  PROVE  Sources(t) \subseteq Tasks /\ Upstream(t) \subseteq Tasks
  BY Related DEF Sources, Upstream

(* What r has at its places, a sequence fs in front of what came after the head of s. *)
Grown(r, fs, s) ==
  /\ \A k \in DOMAIN fs : k \in DOMAIN r /\ r[k] = fs[k]
  /\ \A i \in DOMAIN r :
       \/ i \in DOMAIN fs /\ (i > 1 => i - 1 \in DOMAIN fs)
       \/ \E j \in DOMAIN s : j > 2 /\ i > 1 /\ r[i] = s[j] /\ r[i - 1] = s[j - 1]
       \/ 2 \in DOMAIN s /\ r[i] = s[2] /\ (fs # <<>> => i > 1 /\ r[i - 1] = fs[Len(fs)])
       \/ r[i].op \in {"start", "functor"}

(* x goes on with fs, and for the others at most a start is new. *)
Goes(x, fs) ==
  /\ Grown(todo'[x], fs, todo[x])
  /\ \A y \in Threads : y # x =>
       todo'[y] = todo[y] \/ \A i \in DOMAIN todo'[y] : todo'[y][i].op = "start"

LEMMA GrownTail ==
  ASSUME NEW S, NEW s \in Seq(S), s # <<>>, NEW fs \in Seq(S)
  PROVE  Grown(fs \o Tail(s), fs, s)
<1> DEFINE t == Tail(s)
           r == fs \o t
           n == Len(fs)
           m == Len(s)
<1>1. /\ n \in Nat /\ m \in Nat /\ m >= 1 /\ DOMAIN s = 1..m /\ DOMAIN fs = 1..n /\ DOMAIN r = 1..(n + m - 1)
      /\ \A i \in 1..n : r[i] = fs[i]
      /\ \A i \in 1..(m - 1) : r[n + i] = s[i + 1]
      /\ fs # <<>> => n >= 1
  OBVIOUS
<1> HIDE DEF r, n, m, t
<1>2. ASSUME NEW i \in 1..(n + m - 1), ~(i \in 1..n)
      PROVE  \/ \E j \in 1..m : j > 2 /\ i > 1 /\ r[i] = s[j] /\ r[i - 1] = s[j - 1]
             \/ 2 \in 1..m /\ r[i] = s[2] /\ (fs # <<>> => i > 1 /\ r[i - 1] = fs[n])
  <2>1. i \in Nat /\ i > n /\ i - n \in 1..(m - 1) /\ i - n + 1 \in 1..m
    BY <1>1, <1>2
  <2>2. r[i] = s[i - n + 1]
    <3>1. PICK j \in 1..(m - 1) : j = i - n
      BY <2>1
    <3>2. r[n + j] = s[j + 1]
      BY <1>1
    <3>3. n + j = i /\ j + 1 = i - n + 1
      BY <1>1, <3>1, <2>1
    <3> QED
      BY <3>2, <3>3
  <2>3. CASE i = n + 1
    <3>1. r[i] = s[2] /\ 2 \in 1..m
      BY <1>1, <2>1, <2>2, <2>3
    <3>2. fs # <<>> => i > 1 /\ r[i - 1] = fs[n]
      BY <1>1, <2>3
    <3> QED
      BY <3>1, <3>2
  <2>4. CASE i # n + 1
    <3>1. PICK j \in 1..(m - 1) : j = i - n - 1
      BY <1>1, <2>1, <2>4
    <3>2. r[n + j] = s[j + 1]
      BY <1>1
    <3>4. n + j = i - 1 /\ j + 1 = (j + 2) - 1 /\ j + 2 = i - n + 1
      BY <1>1, <3>1, <2>1
    <3>3. j + 2 \in 1..m /\ j + 2 > 2 /\ i > 1 /\ r[i] = s[j + 2] /\ r[i - 1] = s[(j + 2) - 1]
      BY <1>1, <2>1, <2>2, <3>1, <3>2, <3>4
    <3> QED
      BY <3>3
  <2> QED
    BY <2>3, <2>4
<1>3. \A i \in 1..n : i > 1 => i - 1 \in 1..n
  BY <1>1
<1>4. \A k \in 1..n : k \in 1..(n + m - 1)
  BY <1>1
<1>5. Grown(r, fs, s)
  BY <1>1, <1>2, <1>3, <1>4 DEF Grown, n
<1> QED
  BY <1>5 DEF r, t

LEMMA GoesThen ==
  ASSUME Inv, NEW x \in Threads, todo[x] # <<>>, NEW fs \in Seq(Frame), Then(x, fs)
  PROVE  Goes(x, fs)
<1>1. /\ todo[x] \in Seq(Frame)
      /\ todo'[x] = fs \o Tail(todo[x]) /\ \A y \in Threads : y # x => todo'[y] = todo[y]
  BY Families DEF Inv, Frames, Then
<1>2. PICK s \in Seq(Frame) : s = todo[x]
  BY <1>1
<1>3. Grown(fs \o Tail(s), fs, s)
  BY <1>2, GrownTail
<1> QED
  BY <1>1, <1>2, <1>3 DEF Goes

LEMMA GoesStart ==
  ASSUME Inv, NEW x \in Threads, todo[x] # <<>>, NEW fs \in Seq(Frame),
         NEW t \in Threads, t # x, NEW c, todo' = [todo EXCEPT ![x] = fs \o Tail(@), ![t] = c],
         c = todo[t] \/ c = <<[op |-> "start", node |-> t]>>
  PROVE  Goes(x, fs)
<1>1. /\ todo[x] \in Seq(Frame)
      /\ todo'[x] = fs \o Tail(todo[x]) /\ \A y \in Threads : y # x /\ y # t => todo'[y] = todo[y]
      /\ todo'[t] = c
  BY Families DEF Inv, Frames
<1>2. PICK s \in Seq(Frame) : s = todo[x]
  BY <1>1
<1>3. Grown(fs \o Tail(s), fs, s)
  BY <1>2, GrownTail
<1>4. PICK g : g = [op |-> "start", node |-> t]
  OBVIOUS
<1>5. g.op = "start" /\ (c = todo[t] \/ c = <<g>>)
  BY <1>4
<1>6. c = todo[t] \/ \A i \in DOMAIN c : c[i].op = "start"
  BY <1>5, OneFrame
<1> QED
  BY <1>1, <1>2, <1>3, <1>6 DEF Goes

(* A call: the caller has nothing to do but the functor it is in. *)
LEMMA GoesUpon ==
  ASSUME Inv, NEW x \in Threads, NEW fs \in Seq(Frame), Upon(todo', todo, x, fs),
         \A i \in DOMAIN todo[x] : todo[x][i].op = "functor"
  PROVE  Goes(x, fs)
<1>1. /\ todo[x] \in Seq(Frame)
      /\ todo'[x] = fs \o todo[x] /\ \A y \in Threads : y # x => todo'[y] = todo[y]
  BY Families DEF Inv, Frames, Upon
<1>2. PICK r : r = todo'[x]
  OBVIOUS
<1>3. PICK s \in Seq(Frame) : s = todo[x]
  BY <1>1
<1>4. OnTopOf(r, fs, s)
  BY <1>1, <1>2, <1>3, OnTop
<1>5. /\ \A k \in DOMAIN fs : k \in DOMAIN r /\ r[k] = fs[k]
      /\ \A i \in DOMAIN r : i \in DOMAIN fs \/ r[i].op = "functor"
  <2>1. ASSUME NEW i \in DOMAIN r
        PROVE  i \in DOMAIN fs \/ r[i].op = "functor"
    <3>1. CASE \E j \in DOMAIN s : i = Len(fs) + j
      BY <1>3, <1>4, <3>1 DEF OnTopOf
    <3> QED
      BY <1>4, <3>1 DEF OnTopOf
  <2> QED
    BY <1>4, <2>1 DEF OnTopOf
<1>6. \A i \in DOMAIN fs : i > 1 => i - 1 \in DOMAIN fs
  OBVIOUS
<1>7. Grown(r, fs, s)
  BY <1>5, <1>6 DEF Grown
<1> QED
  BY <1>1, <1>2, <1>3, <1>7 DEF Goes

(* What has been said of tasks stays so... *)
Firm ==
  /\ cancelled \subseteq cancelled'
  /\ \A t \in Tasks :
       /\ IsDone(t) => IsDone(t)'
       /\ Ruined(t) => Ruined(t)'
       /\ body[t] = "threw" => body'[t] = "threw"
       /\ LocalControl(t) # {} => \/ LocalControl(t)' # {}
                                  \/ \E y \in Threads : At(y, "exchange") /\ Cur(y).node = t

(* ... what x goes on with is so, and what it has done is what the next frame relies on. *)
Lets(x, fs) ==
  /\ \A k \in DOMAIN fs : Given(fs, k)'
  /\ todo[x] # <<>> =>
       \A t \in Tasks :
         /\ Cur(x).op = "signal" /\ Cur(x).node = t => LocalControl(t)' # {}
         /\ Cur(x).op = "exchange" /\ Cur(x).node = t => IsDone(t)'
         /\ Cur(x).op \in {"wait", "block"} /\ Cur(x).node = t =>
              \/ IsDone(t)'
              \/ fs # <<>> /\ fs[Len(fs)].op \in {"wait", "block"} /\ fs[Len(fs)].node = t
         /\ Marks(Cur(x), t) /\ ~IsDone(t) =>
              Has(t, "exception")' \/ \E k \in DOMAIN fs : Marks(fs[k], t)

LEMMA FirmOf ==
  ASSUME Inv, UNCHANGED prog, Firm, NEW t \in Tasks
  PROVE  /\ Throwers(t) \subseteq Throwers(t)'
         /\ Revoked(t) => Revoked(t)'
         /\ Hindered(t) => Hindered(t)'
<1>1. Sources(t) \subseteq Tasks /\ Upstream(t) \subseteq Tasks
  BY SourcesTasks
<1>2. Sources(t)' = Sources(t) /\ Upstream(t)' = Upstream(t)
  BY SameSources
<1>3. Throwers(t) \subseteq Throwers(t)'
  BY <1>1, <1>2 DEF Throwers, Firm
<1>4. Revoked(t) => Revoked(t)'
  BY <1>2 DEF Revoked, Firm
<1>5. Hindered(t) => Hindered(t)'
  BY <1>1, <1>2 DEF Hindered, Firm
<1> QED
  BY <1>3, <1>4, <1>5

LEMMA GivenStays ==
  ASSUME Core, UNCHANGED prog, Firm, NEW y \in Threads, NEW s, s = todo[y], NEW i \in DOMAIN s,
         Given(s, i), Warrants(y, s, i), NEW r, NEW j, r[j] = s[i],
         s[i].op = "signal" => j = 1 /\ 2 \in DOMAIN r /\ r[2] = s[2],
         Follows(s, i, {"signal"}) => LocalControl(s[i].node)' # {} \/ Follows(r, j, {"signal"}),
         Follows(s, i, {"exchange"}) => IsDone(s[i].node)' \/ Follows(r, j, {"exchange"}),
         Follows(s, i, {"wait", "block"}) => IsDone(s[i].node)' \/ Follows(r, j, {"wait", "block"})
  PROVE  Given(r, j)'
<1>1. PICK f \in Frame : f = s[i] /\ f = r[j]
  <2>1. s \in Seq(Frame)
    BY Families DEF Core
  <2> QED
    BY <2>1, Element
<1>2. Inv
  BY DEF Core
<1>3. /\ f.op \in {"signal", "mark", "set", "link", "late", "notify", "failure", "wakeup", "status"}
           => f.node \in Tasks
      /\ f.op \in {"link", "late", "notify", "failure"} => f.from \in Tasks
  BY Says DEF Simple
<1>4. f.node \in Tasks => /\ Throwers(f.node) \subseteq Throwers(f.node)'
                          /\ Revoked(f.node) => Revoked(f.node)'
                          /\ Hindered(f.node) => Hindered(f.node)'
                          /\ Sources(f.node)' = Sources(f.node)
  BY <1>2, FirmOf, SameSources
<1>5. f.op = "signal" => f.control \in Throwers(f.node)' /\ j = 1 /\ 2 \in DOMAIN r
                         /\ r[2] = Mark(r[1].node, "exception")
  BY <1>1, <1>3, <1>4 DEF Given
<1>6. ASSUME f.op \in {"mark", "set"}, f.bit = "exception"
      PROVE  LocalControl(f.node)' # {} \/ Follows(r, j, {"signal"})
  <2>1. CASE Follows(s, i, {"signal"})
    BY <1>1, <2>1
  <2>2. CASE LocalControl(f.node) # {}
    <3>1. Settled(todo[y], i, f.node)
      BY <1>1, <1>6 DEF Warrants
    <3>2. \A z \in Threads : ~(At(z, "exchange") /\ Cur(z).node = f.node)
      BY <1>3, <1>6, <3>1, ToSettle
    <3> QED
      BY <1>3, <1>6, <2>2, <3>2 DEF Firm
  <2> QED
    BY <1>1, <1>6, <2>1, <2>2 DEF Given
<1>7. f.op \in {"mark", "set"} => /\ f.bit = "user" => Revoked(f.node)'
                                  /\ f.bit = "dependency" => Hindered(f.node)'
  BY <1>1, <1>3, <1>4 DEF Given
<1>8. f.op \in {"link", "late", "notify", "failure"} => f.from \in Sources(f.node)'
  BY <1>1, <1>3, <1>4 DEF Given
<1>9. /\ f.op = "failure" => Ruined(f.from)'
      /\ f.op = "notify" => IsDone(f.from)' /\ (f.failed = TRUE => Failed(f.from)')
  <2>1. f.op = "failure" => Ruined(f.from)'
    BY <1>1, <1>3 DEF Given, Firm
  <2>2. f.op = "notify" => IsDone(f.from)'
    BY <1>1, <1>3 DEF Given, Firm
  <2>3. f.op = "notify" /\ f.failed = TRUE => Ruined(f.from)
    BY <1>1 DEF Given, Ruined
  <2>4. f.op = "notify" /\ f.failed = TRUE => Ruined(f.from)'
    BY <1>3, <2>3 DEF Firm
  <2> QED
    BY <2>1, <2>2, <2>4 DEF Ruined
<1>10. /\ f.op = "wakeup" => IsDone(f.node)' \/ Follows(r, j, {"exchange"})
       /\ f.op = "status" => IsDone(f.node)' \/ Follows(r, j, {"wait", "block"})
  BY <1>1, <1>3 DEF Given, Firm
<1> QED
  BY <1>1, <1>5, <1>6, <1>7, <1>8, <1>9, <1>10 DEF Given

LEMMA GivenKept ==
  ASSUME Core, Outcomes, Grounds, UNCHANGED prog, NEW x \in Threads, NEW fs, Goes(x, fs), Firm,
         Lets(x, fs), NEW y \in Threads, NEW i \in DOMAIN todo'[y]
  PROVE  Given(todo[y], i)'
<1>1. PICK r : r = todo'[y]
  OBVIOUS
<1>2. PICK s \in Seq(Frame) : s = todo[y]
  BY Families DEF Core
<1>3. \A j \in DOMAIN s : Given(s, j) /\ Warrants(y, s, j)
  BY <1>2 DEF Grounds, Outcomes
<1>4. SUFFICES Given(r, i)'
  BY <1>1
<1>5. CASE r[i].op \in {"start", "functor"}
  BY <1>5 DEF Given
<1>6. CASE y # x /\ r = s
  <2>1. i \in DOMAIN s /\ Given(s, i) /\ Warrants(y, s, i)
    BY <1>1, <1>3, <1>6
  <2>2. s[i].op = "signal" => i = 1 /\ 2 \in DOMAIN r
    BY <1>6, <2>1 DEF Given
  <2> QED
    BY <1>2, <1>6, <2>1, <2>2, GivenStays
<1>7. CASE y = x /\ i \in DOMAIN fs /\ (i > 1 => i - 1 \in DOMAIN fs)
  <2>1. \A k \in DOMAIN fs : k \in DOMAIN r /\ r[k] = fs[k]
    BY <1>1, <1>7 DEF Goes, Grown
  <2>2. Given(fs, i)'
    BY <1>7 DEF Lets
  <2>3. r[i] = fs[i]
    BY <1>7, <2>1
  <2>4. \A O : Follows(fs, i, O) => Follows(r, i, O)
    BY <1>7, <2>1 DEF Follows
  <2>5. fs[i].op = "signal" => 2 \in DOMAIN r /\ r[2] = fs[2] /\ r[1] = fs[1]
    BY <1>7, <2>1, <2>2 DEF Given
  <2>6. PICK f : f = fs[i] /\ f = r[i]
    BY <2>3
  <2>7. f.op = "signal" => /\ f.control \in Throwers(f.node)' /\ i = 1 /\ 2 \in DOMAIN r
                           /\ r[2] = Mark(r[1].node, "exception")
    BY <2>2, <2>5, <2>6 DEF Given
  <2>8. f.op \in {"mark", "set"} =>
          /\ f.bit = "exception" => LocalControl(f.node)' # {} \/ Follows(r, i, {"signal"})
          /\ f.bit = "user" => Revoked(f.node)'
          /\ f.bit = "dependency" => Hindered(f.node)'
    BY <2>2, <2>4, <2>6 DEF Given
  <2>9. /\ f.op \in {"link", "late", "notify", "failure"} => f.from \in Sources(f.node)'
        /\ f.op = "failure" => Ruined(f.from)'
        /\ f.op = "notify" => IsDone(f.from)' /\ (f.failed = TRUE => Failed(f.from)')
    BY <2>2, <2>6 DEF Given
  <2>10. /\ f.op = "wakeup" => IsDone(f.node)' \/ Follows(r, i, {"exchange"})
         /\ f.op = "status" => IsDone(f.node)' \/ Follows(r, i, {"wait", "block"})
    BY <2>2, <2>4, <2>6 DEF Given
  <2> QED
    BY <2>6, <2>7, <2>8, <2>9, <2>10 DEF Given
<1>8. CASE y = x /\ \E j \in DOMAIN s : j > 2 /\ i > 1 /\ r[i] = s[j] /\ r[i - 1] = s[j - 1]
  <2>1. PICK j \in DOMAIN s : j > 2 /\ i > 1 /\ r[i] = s[j] /\ r[i - 1] = s[j - 1]
    BY <1>8
  <2>2. Given(s, j) /\ Warrants(y, s, j)
    BY <1>3
  <2>3. s[j].op # "signal"
    BY <2>1, <2>2 DEF Given
  <2>4. /\ Follows(s, j, {"signal"}) => Follows(r, i, {"signal"})
        /\ Follows(s, j, {"exchange"}) => Follows(r, i, {"exchange"})
        /\ Follows(s, j, {"wait", "block"}) => Follows(r, i, {"wait", "block"})
    BY <2>1 DEF Follows
  <2>5. s = todo[y] /\ r[i] = s[j]
    BY <1>2, <2>1
  <2> QED
    BY <2>2, <2>3, <2>4, <2>5, GivenStays
<1>9. CASE y = x /\ 2 \in DOMAIN s /\ r[i] = s[2] /\ (fs # <<>> => i > 1 /\ r[i - 1] = fs[Len(fs)])
  <2>1. Given(s, 2) /\ Warrants(y, s, 2)
    BY <1>3, <1>9
  <2>2. s[2].op # "signal"
    BY <2>1 DEF Given
  <2>3. PICK f : todo[x] # <<>> /\ f = Cur(x) /\ f = s[1] /\ 1 \in DOMAIN s
    BY SMTT(30), <1>2, <1>9 DEF Cur
  <2>9. f.op \in {"signal", "exchange", "wait", "block"} => f.node \in Tasks
    <3>1. f \in Frame
      BY <1>2, <2>3, Element
    <3> QED
      BY <3>1, Says DEF Simple
  <2>7. \A O : Follows(s, 2, O) => f.op \in O /\ f.node = s[2].node
    BY <2>3 DEF Follows
  <2>8. /\ f.op = "signal" => LocalControl(f.node)' # {}
        /\ f.op = "exchange" => IsDone(f.node)'
        /\ f.op \in {"wait", "block"} =>
             \/ IsDone(f.node)'
             \/ fs # <<>> /\ fs[Len(fs)].op \in {"wait", "block"} /\ fs[Len(fs)].node = f.node
    BY <2>3, <2>9 DEF Lets
  <2>4. Follows(s, 2, {"signal"}) => LocalControl(s[2].node)' # {}
    BY <2>7, <2>8
  <2>5. Follows(s, 2, {"exchange"}) => IsDone(s[2].node)'
    BY <2>7, <2>8
  <2>6. Follows(s, 2, {"wait", "block"}) => IsDone(s[2].node)' \/ Follows(r, i, {"wait", "block"})
    <3>1. SUFFICES ASSUME Follows(s, 2, {"wait", "block"}), ~IsDone(s[2].node)'
                   PROVE  Follows(r, i, {"wait", "block"})
      OBVIOUS
    <3>2. fs # <<>> /\ fs[Len(fs)].op \in {"wait", "block"} /\ fs[Len(fs)].node = s[2].node
      BY <2>7, <2>8, <3>1
    <3> QED
      BY <1>9, <3>2 DEF Follows
  <2>10. s = todo[y] /\ r[i] = s[2] /\ 2 \in DOMAIN s
    BY <1>2, <1>9
  <2> QED
    BY <2>1, <2>2, <2>4, <2>5, <2>6, <2>10, GivenStays
<1>10. CASE y = x
  <2>1. Grown(r, fs, s)
    BY <1>1, <1>2, <1>10 DEF Goes
  <2> QED
    BY <1>1, <1>5, <1>7, <1>8, <1>9, <1>10, <2>1 DEF Grown
<1> QED
  BY <1>1, <1>2, <1>5, <1>6, <1>10 DEF Goes

(* Nothing that is said of t has changed, but that arcs of the tasks that need it were added. *)
Alike(t) ==
  /\ LocalControl(t)' = LocalControl(t) /\ (IsDone(t)' <=> IsDone(t))
  /\ \A i \in DOMAIN head'[t].arcs :
       \/ \E j \in DOMAIN head[t].arcs : head'[t].arcs[i] = head[t].arcs[j]
       \/ head'[t].arcs[i].kind = "flow" => t \in Sources(head'[t].arcs[i].node)
  /\ word'[t].bits = word[t].bits /\ body'[t] = body[t]
  /\ woken'[t] = TRUE => woken[t] = TRUE \/ IsDone(t)

LEMMA AlikeHead ==
  ASSUME NEW t, head'[t] = head[t], word'[t].bits = word[t].bits, body'[t] = body[t],
         woken'[t] = woken[t]
  PROVE  Alike(t)
  BY DEF Alike, LocalControl, IsDone

(* A task that is done, or about to start or be done, is not being marked. *)
LEMMA MarkedInTime ==
  ASSUME Core, Outcomes, NEW t \in Tasks,
         \/ IsDone(t)
         \/ Waiting(t) /\ word[t].count = 0
         \/ \E y \in Threads : At(y, "exchange") /\ Cur(y).node = t
  PROVE  ~Marking(t)
<1>1. SUFFICES ASSUME NEW x \in Threads, NEW i \in DOMAIN todo[x], Marks(todo[x][i], t)
               PROVE  FALSE
  BY DEF Marking
<1>2. Warrants(x, todo[x], i)
  BY DEF Outcomes
<1>3. Settled(todo[x], i, t)
  BY <1>1, <1>2 DEF Warrants, Marks
<1> QED
  BY <1>3, ToSettle

LEMMA MarkingKept ==
  ASSUME Inv, NEW x \in Threads, NEW fs, Moved(x, fs), Lets(x, fs), NEW t \in Tasks,
         ~IsDone(t), Marking(t)
  PROVE  Has(t, "exception")' \/ Marking(t)'
<1>0. PICK y \in Threads : \E i \in DOMAIN todo[y] : Marks(todo[y][i], t)
  BY DEF Marking
<1>1. PICK i \in DOMAIN todo[y] : Marks(todo[y][i], t)
  BY <1>0
<1>2. CASE y = x /\ i = 1
  <2>1. todo[x] # <<>> /\ todo[x][1] = Cur(x)
    BY <1>1, <1>2, Families DEF Cur
  <2>2. CASE \E k \in DOMAIN fs : Marks(fs[k], t)
    <3>1. PICK k \in DOMAIN fs : Marks(fs[k], t)
      BY <2>2
    <3>2. PICK j \in DOMAIN todo'[x] : Put(todo'[x], j, fs, k, todo[x])
      BY DEF Moved
    <3> QED
      BY <3>1, <3>2 DEF Put, Marking
  <2> QED
    BY <1>1, <1>2, <2>1, <2>2 DEF Lets
<1>3. CASE ~(y = x /\ i = 1)
  <2>1. PICK j \in DOMAIN todo'[y] : Same(todo'[y], j, todo[y], i)
    BY <1>3 DEF Moved
  <2> QED
    BY <1>1, <2>1 DEF Same, Marking
<1> QED
  BY <1>2, <1>3

LEMMA GroundedKept ==
  ASSUME Core, Outcomes, Grounds, UNCHANGED prog, NEW x \in Threads, NEW fs, Moved(x, fs), Firm, Lets(x, fs),
         NEW t \in Tasks, Alike(t)
  PROVE  Grounded(t)'
<1>1. Grounded(t) /\ Inv
  BY DEF Grounds, Core
<1>2. LocalControl(t)' = LocalControl(t) /\ (IsDone(t)' <=> IsDone(t)) /\ (Waiting(t)' <=> Waiting(t))
      /\ \A b : Has(t, b)' <=> Has(t, b)
  BY DEF Alike, Waiting, Has
<1>3. /\ Throwers(t) \subseteq Throwers(t)' /\ (Revoked(t) => Revoked(t)') /\ (Hindered(t) => Hindered(t)')
  BY <1>1, FirmOf
<1>4. body'[t] = "threw" \/ (LocalControl(t)' # {} /\ Waiting(t)') => Has(t, "exception")' \/ Marking(t)'
  <2>1. SUFFICES ASSUME body[t] = "threw" \/ (LocalControl(t) # {} /\ Waiting(t))
                 PROVE  Has(t, "exception")' \/ Marking(t)'
    BY <1>2 DEF Alike
  <2>2. Has(t, "exception") \/ Marking(t)
    BY <1>1, <2>1 DEF Grounded
  <2> QED
    BY <1>1, <1>2, <2>2, MarkingKept, MarkedInTime
<1>5. (\A i \in DOMAIN head[t].arcs :
         head[t].arcs[i].kind = "flow" => t \in Sources(head[t].arcs[i].node))'
  <2>1. PICK l : l = head'[t].arcs
    OBVIOUS
  <2>2. \A i \in DOMAIN l : l[i].kind = "flow" => t \in Sources(l[i].node)
    BY <1>1, <2>1 DEF Grounded, Alike
  <2>3. \A i \in DOMAIN l : l[i].kind = "flow" => t \in Sources(l[i].node)'
    BY <2>2, SameSources
  <2> QED
    BY <2>1, <2>3
<1>6. /\ woken'[t] = TRUE => IsDone(t)'
      /\ body'[t] \in {"idle", "running", "attached", "value"} =>
           LocalControl(t)' = {} /\ ~Has(t, "dependency")'
  BY <1>1, <1>2 DEF Grounded, Alike
<1>7. /\ LocalControl(t)' \subseteq Throwers(t)'
      /\ Has(t, "exception")' => LocalControl(t)' # {}
      /\ Has(t, "user")' => Revoked(t)'
      /\ Has(t, "dependency")' => Hindered(t)'
  BY <1>1, <1>2, <1>3 DEF Grounded
<1> QED
  BY <1>4, <1>5, <1>6, <1>7 DEF Grounded

LEMMA GroundsKept ==
  ASSUME Core, Outcomes, Grounds, UNCHANGED prog, NEW x \in Threads, NEW fs, Moved(x, fs), Goes(x, fs),
         Firm, Lets(x, fs), \A t \in Tasks : Alike(t) \/ Grounded(t)'
  PROVE  Grounds'
  BY GroundedKept, GivenKept DEF Grounds

(***************************************************************************)
(* What a step goes on with                                                *)
(***************************************************************************)
LEMMA FirmQuiet ==
  ASSUME UNCHANGED <<head, body, cancelled>>, \A t \in Tasks : word[t].bits \subseteq word'[t].bits
  PROVE  Firm
  BY DEF Firm, Ruined, Failed, IsDone, LocalControl

(* Frames that say nothing of a task. *)
Mute == {"drop", "return", "wait", "block", "publish", "pre", "exchange", "start", "functor",
         "attach", "look"}

LEMMA GivenMute ==
  ASSUME NEW fs, NEW k, fs[k].op \in Mute
  PROVE  Given(fs, k)'
  BY DEF Given, Mute

LEMMA LetsPlain ==
  ASSUME NEW x, NEW fs, \A k \in DOMAIN fs : Given(fs, k)',
         todo[x] # <<>> => Cur(x).op \notin {"signal", "exchange", "wait", "block", "mark", "set"}
  PROVE  Lets(x, fs)
  BY DEF Lets, Marks

LEMMA GroundsThen ==
  ASSUME Core, Outcomes, Grounds, UNCHANGED <<prog, head, body, word, woken, cancelled>>,
         NEW x \in Threads, todo[x] # <<>>, NEW fs \in Seq(Frame), Then(x, fs), Lets(x, fs)
  PROVE  Grounds'
<1>1. Inv
  BY DEF Core
<1>2. Moved(x, fs)
  BY <1>1, MovedThen
<1>3. Goes(x, fs)
  BY <1>1, GoesThen
<1>4. Firm
  BY FirmQuiet
<1>5. \A t \in Tasks : Alike(t)
  BY AlikeHead
<1> QED
  BY <1>2, <1>3, <1>4, <1>5, GroundsKept

(* The frame at hand is given. *)
LEMMA FirstGiven ==
  ASSUME Core, Outcomes, Grounds, NEW x \in Threads, NEW o, At(x, o)
  PROVE  \E f \in Frame : /\ f = Cur(x) /\ f.op = o /\ todo[x] # <<>> /\ 1 \in DOMAIN todo[x]
                          /\ todo[x][1] = f /\ Given(todo[x], 1) /\ Warrants(x, todo[x], 1)
                          /\ Fits(f) /\ Tells(f) /\ \A O : ~Follows(todo[x], 1, O)
<1>1. PICK f \in Frame : f = Cur(x) /\ f.op = o /\ todo[x] # <<>> /\ 1 \in DOMAIN todo[x]
                         /\ todo[x][1] = f /\ Fits(f)
  BY First
<1>2. Given(todo[x], 1) /\ Warrants(x, todo[x], 1) /\ Tells(todo[x][1])
  BY <1>1 DEF Grounds, Outcomes
<1>3. \A O : ~Follows(todo[x], 1, O)
  BY DEF Follows
<1> QED
  BY <1>1, <1>2, <1>3

LEMMA PopGrounds ==
  ASSUME Core, Outcomes, Grounds, UNCHANGED prog, NEW x \in Threads,
         DropSignal(x) \/ Return(x) \/ Status(x) \/ Block(x)
  PROVE  Grounds'
<1>1. PICK fs \in Seq(Frame) : fs = <<>>
  BY Short
<1>2. DOMAIN fs = {} /\ Then(x, fs) /\ UNCHANGED <<head, body, word, woken, cancelled>> /\ todo[x] # <<>>
  BY <1>1 DEF DropSignal, Return, Block, Status, At
<1>3. CASE DropSignal(x) \/ Return(x) \/ Status(x)
  <2>1. Cur(x).op \in {"drop", "return", "status"}
    BY <1>3 DEF DropSignal, Return, Status, At, Cur
  <2>2. Lets(x, fs)
    BY <1>2, <2>1, LetsPlain
  <2> QED
    BY <1>2, <2>2, GroundsThen
<1>4. CASE Block(x)
  <2>1. PICK f \in Frame : f = Cur(x) /\ f.op = "block"
    BY <1>4, FirstGiven DEF Block
  <2>2. f.node \in Tasks
    BY <2>1, Says DEF Simple
  <2>3. woken[f.node] = TRUE
    BY <1>4, <2>1 DEF Block
  <2>4. IsDone(f.node)
    BY <2>2, <2>3 DEF Grounds, Grounded
  <2>5. IsDone(f.node)'
    BY <1>2, <2>4 DEF IsDone
  <2>6. Lets(x, fs)
    BY <1>2, <2>1, <2>5 DEF Lets, Marks
  <2> QED
    BY <1>2, <2>6, GroundsThen
<1> QED
  BY <1>3, <1>4

(* Who waits is woken when the task is done. *)
LEMMA WakeupGrounds ==
  ASSUME Core, Outcomes, Grounds, woken \in [Tasks -> BOOLEAN], UNCHANGED prog, NEW x \in Threads,
         Wakeup(x)
  PROVE  Grounds'
<1>1. PICK f \in Frame : f = Cur(x) /\ f.op = "wakeup" /\ todo[x] # <<>> /\ todo[x][1] = f
                         /\ Given(todo[x], 1) /\ \A O : ~Follows(todo[x], 1, O)
  BY FirstGiven DEF Wakeup
<1>2. PICK t \in Tasks : t = f.node
  BY <1>1, Says DEF Simple
<1>3. IsDone(t)
  <2>1. ~Follows(todo[x], 1, {"exchange"})
    BY <1>1
  <2> QED
    BY <1>1, <1>2, <2>1 DEF Given
<1>4. PICK fs \in Seq(Frame) : fs = <<>>
  BY Short
<1>5. /\ DOMAIN fs = {} /\ Then(x, fs) /\ UNCHANGED <<head, body, word, cancelled>>
      /\ woken' = [woken EXCEPT ![t] = TRUE]
  BY <1>1, <1>2, <1>4 DEF Wakeup
<1>6. Moved(x, fs) /\ Goes(x, fs)
  BY <1>1, <1>5, MovedThen, GoesThen DEF Core
<1>7. Firm
  BY <1>5, FirmQuiet
<1>8. Lets(x, fs)
  BY <1>1, <1>5, LetsPlain
<1>9. \A u \in Tasks : woken'[u] = TRUE => woken[u] = TRUE \/ IsDone(u)
  BY <1>3, <1>5
<1>10. \A u \in Tasks : Alike(u)
  BY <1>5, <1>9 DEF Alike, LocalControl, IsDone
<1> QED
  BY <1>6, <1>7, <1>8, <1>10, GroundsKept

LEMMA WaitGrounds ==
  ASSUME Core, Outcomes, Grounds, Inv', UNCHANGED prog, NEW x \in Threads, Wait(x) \/ Publish(x)
  PROVE  Grounds'
<1>1. UNCHANGED <<head, body, word, woken, cancelled>> /\ todo[x] # <<>>
  BY DEF Wait, Publish, At
<1>2. CASE Wait(x)
  <2>1. PICK f \in Frame : f = Cur(x) /\ f.op = "wait"
    BY <1>2, FirstGiven DEF Wait
  <2>2. PICK t \in Tasks : t = f.node
    BY <2>1, Says DEF Simple
  <2>3. CASE IsDone(t)
    <3>1. PICK fs \in Seq(Frame) : fs = <<>>
      BY Short
    <3>2. DOMAIN fs = {} /\ Then(x, fs)
      BY <1>2, <2>1, <2>2, <2>3, <3>1 DEF Wait
    <3>3. IsDone(t)'
      BY <1>1, <2>3 DEF IsDone
    <3>4. Lets(x, fs)
      BY <2>1, <2>2, <3>2, <3>3 DEF Lets, Marks
    <3> QED
      BY <1>1, <3>2, <3>4, GroundsThen
  <2>4. CASE ~IsDone(t)
    <3>1. PICK g : g = [op |-> "block", node |-> t]
      OBVIOUS
    <3>2. g.op = "block" /\ g.node = t /\ g \in Frame
      BY <3>1 DEF Frame
    <3>8. Len(<<g>>) = 1
      OBVIOUS
    <3>3. PICK fs \in Seq(Frame) : fs = <<g>> /\ DOMAIN fs = {1} /\ fs[1] = g /\ Len(fs) = 1
      BY <3>2, <3>8, Short, OneFrame
    <3>4. Then(x, fs)
      BY <1>2, <2>1, <2>2, <2>4, <3>1, <3>3 DEF Wait
    <3>5. \A k \in DOMAIN fs : Given(fs, k)'
      BY <3>2, <3>3, GivenMute DEF Mute
    <3>6. fs # <<>>
      BY <3>3
    <3>7. Lets(x, fs)
      BY <2>1, <2>2, <3>2, <3>3, <3>5, <3>6 DEF Lets, Marks
    <3> QED
      BY <1>1, <3>4, <3>7, GroundsThen
  <2> QED
    BY <2>3, <2>4
<1>3. CASE Publish(x)
  <2>1. PICK g : g = [op |-> "pre", node |-> Cur(x).node, k |-> Protection(Cur(x).node)]
    OBVIOUS
  <2>2. g.op = "pre"
    BY <2>1
  <2>3. PICK fs \in Seq({g}) : fs = <<g>> /\ DOMAIN fs = {1} /\ fs[1] = g
    BY Short, OneFrame
  <2>4. Then(x, fs)
    BY <1>3, <2>1, <2>3 DEF Publish
  <2>5. fs \in Seq(Frame)
    BY <1>1, <2>4, Made DEF Core
  <2>6. \A k \in DOMAIN fs : Given(fs, k)'
    BY <2>2, <2>3, GivenMute DEF Mute
  <2>7. Cur(x).op = "publish"
    BY <1>3 DEF Publish, At, Cur
  <2>8. Lets(x, fs)
    BY <2>6, <2>7, LetsPlain
  <2> QED
    BY <1>1, <2>4, <2>5, <2>8, GroundsThen
<1> QED
  BY <1>2, <1>3

(* A mark that is still to be made keeps its reason. *)
LEMMA MarkStill ==
  ASSUME Core, UNCHANGED <<prog, head, body, word, cancelled>>, NEW s, NEW f, s[1] = f, Given(s, 1),
         ~Follows(s, 1, {"signal"}), NEW g, NEW fs, fs[1] = g,
         f.op \in {"mark", "set"}, g.op \in {"mark", "set"},
         NEW t \in Tasks, f.node = t, g.node = t, NEW b, f.bit = b, g.bit = b
  PROVE  Given(fs, 1)'
<1>1. /\ b = "exception" => LocalControl(t) # {}
      /\ b = "user" => Revoked(t)
      /\ b = "dependency" => Hindered(t)
  BY DEF Given
<1>2. Firm
  BY FirmQuiet
<1>3. (Revoked(t) => Revoked(t)') /\ (Hindered(t) => Hindered(t)')
  BY <1>2, FirmOf DEF Core
<1>4. LocalControl(t)' = LocalControl(t)
  BY DEF LocalControl
<1>5. /\ b = "exception" => LocalControl(t)' # {}
      /\ b = "user" => Revoked(t)'
      /\ b = "dependency" => Hindered(t)'
  BY <1>1, <1>3, <1>4
<1> QED
  BY <1>5 DEF Given

(***************************************************************************)
(* Marking, with a reason                                                  *)
(***************************************************************************)
LEMMA MarkFailureGrounds ==
  ASSUME Core, Outcomes, Grounds, UNCHANGED prog, NEW x \in Threads, MarkFailure(x)
  PROVE  Grounds'
<1>1. PICK f \in Frame : f = Cur(x) /\ f.op = "mark" /\ todo[x] # <<>> /\ todo[x][1] = f
                         /\ Given(todo[x], 1) /\ \A O : ~Follows(todo[x], 1, O)
  BY FirstGiven DEF MarkFailure
<1>2. PICK t \in Tasks, b \in Bits : f.node = t /\ f.bit = b
  BY <1>1, Says
<1>3. UNCHANGED <<head, body, word, woken, cancelled>>
  BY DEF MarkFailure
<1>4. CASE IsDone(t)
  <2>1. PICK fs \in Seq(Frame) : fs = <<>>
    BY Short
  <2>2. Then(x, fs) /\ DOMAIN fs = {}
    BY <1>1, <1>2, <1>4, <2>1 DEF MarkFailure
  <2>3. Lets(x, fs)
    BY <1>1, <1>2, <1>4, <2>2 DEF Lets, Marks
  <2> QED
    BY <1>1, <1>3, <2>2, <2>3, GroundsThen
<1>5. CASE ~IsDone(t)
  <2>1. PICK g : g = [op |-> "set", node |-> t, bit |-> b, word |-> word[t]]
    OBVIOUS
  <2>2. g.op = "set" /\ g.node = t /\ g.bit = b /\ g \in Frame
    <3>1. word[t] \in Word
      BY DEF Core, Inv, Types
    <3> QED
      BY <2>1, <3>1 DEF Frame
  <2>3. PICK fs \in Seq(Frame) : fs = <<g>> /\ DOMAIN fs = {1} /\ fs[1] = g
    BY <2>2, Short, OneFrame
  <2>4. Then(x, fs)
    BY <1>1, <1>2, <1>5, <2>1, <2>3 DEF MarkFailure
  <2>5. Given(fs, 1)'
    BY <1>1, <1>2, <1>3, <2>2, <2>3, MarkStill
  <2>6. Lets(x, fs)
    BY <1>1, <1>2, <2>2, <2>3, <2>5 DEF Lets, Marks
  <2> QED
    BY <1>1, <1>3, <2>4, <2>6, GroundsThen
<1> QED
  BY <1>4, <1>5

(* The bit is set, or tried again. *)
LEMMA SetBitGrounds ==
  ASSUME Core, Outcomes, Grounds, UNCHANGED prog, NEW x \in Threads, SetBit(x)
  PROVE  Grounds'
<1>1. PICK f \in Frame : f = Cur(x) /\ f.op = "set" /\ todo[x] # <<>> /\ 1 \in DOMAIN todo[x]
                         /\ todo[x][1] = f /\ Given(todo[x], 1) /\ Warrants(x, todo[x], 1)
                         /\ \A O : ~Follows(todo[x], 1, O)
  BY FirstGiven DEF SetBit
<1>2. PICK t \in Tasks, b \in Bits : f.node = t /\ f.bit = b
  BY <1>1, Says
<1>3. UNCHANGED <<head, body, woken, cancelled>> /\ word \in [Tasks -> Word]
  BY DEF SetBit, Core, Inv, Types
<1>4. CASE word[t] = f.word
  <2>1. PICK fs \in Seq(Frame) : fs = <<>>
    BY Short
  <2>2. Then(x, fs) /\ DOMAIN fs = {} /\ word' = [word EXCEPT ![t].bits = @ \cup {b}]
    BY <1>1, <1>2, <1>4, <2>1 DEF SetBit
  <2>3. \A u \in Tasks : word[u] \in Word
    BY <1>3
  <2>4. /\ word'[t].bits = word[t].bits \cup {b} /\ \A u \in Tasks : word[u].bits \subseteq word'[u].bits
        /\ \A u \in Tasks : u # t => word'[u] = word[u]
    BY <1>2, <1>3, <2>2, <2>3 DEF Word
  <2>5. Moved(x, fs) /\ Goes(x, fs)
    BY <1>1, <2>2, MovedThen, GoesThen DEF Core
  <2>6. Firm
    BY <1>3, <2>4, FirmQuiet
  <2>7. Lets(x, fs)
    BY <1>1, <1>2, <2>2, <2>4 DEF Lets, Marks, Has
  <2>8. /\ b = "exception" => LocalControl(t) # {}
        /\ b = "user" => Revoked(t)
        /\ b = "dependency" => Hindered(t)
    BY <1>1, <1>2 DEF Given
  <2>9. b = "dependency" => body[t] \notin {"idle", "running", "attached", "value"}
    <3>1. SUFFICES ASSUME b = "dependency"
                   PROVE  body[t] \notin {"idle", "running", "attached", "value"}
      OBVIOUS
    <3>2. Settled(todo[x], 1, t)
      BY <1>1, <1>2, <3>1 DEF Warrants
    <3> QED
      BY <1>1, <3>2, ToSettle
  <2>10. Grounded(t)'
    <3>1. Grounded(t) /\ Inv
      BY DEF Grounds, Core
    <3>2. /\ Throwers(t) \subseteq Throwers(t)' /\ (Revoked(t) => Revoked(t)') /\ (Hindered(t) => Hindered(t)')
          /\ Sources(t)' = Sources(t)
      BY <2>6, <3>1, FirmOf, SameSources
    <3>3. /\ LocalControl(t)' = LocalControl(t) /\ (IsDone(t)' <=> IsDone(t)) /\ (Waiting(t)' <=> Waiting(t))
          /\ \A c : Has(t, c)' <=> Has(t, c) \/ c = b
      BY <1>3, <2>4 DEF LocalControl, IsDone, Waiting, Has
    <3>4. body'[t] = "threw" \/ (LocalControl(t)' # {} /\ Waiting(t)') => Has(t, "exception")' \/ Marking(t)'
      <4>1. SUFFICES ASSUME body[t] = "threw" \/ (LocalControl(t) # {} /\ Waiting(t))
                     PROVE  Has(t, "exception")' \/ Marking(t)'
        BY <1>3, <3>3
      <4>2. Has(t, "exception") \/ Marking(t)
        BY <3>1, <4>1 DEF Grounded
      <4> QED
        BY <2>5, <2>7, <3>1, <3>3, <4>2, MarkingKept, MarkedInTime
    <3>5. (\A i \in DOMAIN head[t].arcs :
             head[t].arcs[i].kind = "flow" => t \in Sources(head[t].arcs[i].node))'
      BY <1>3, <3>1, SameSources DEF Grounded
    <3>6. /\ woken'[t] = TRUE => IsDone(t)'
          /\ body'[t] \in {"idle", "running", "attached", "value"} =>
               LocalControl(t)' = {} /\ ~Has(t, "dependency")'
      BY <1>3, <2>9, <3>1, <3>3 DEF Grounded
    <3>7. /\ LocalControl(t)' \subseteq Throwers(t)'
          /\ Has(t, "exception")' => LocalControl(t)' # {}
          /\ Has(t, "user")' => Revoked(t)'
          /\ Has(t, "dependency")' => Hindered(t)'
      BY <2>8, <3>1, <3>2, <3>3 DEF Grounded
    <3> QED
      BY <3>4, <3>5, <3>6, <3>7 DEF Grounded
  <2>11. \A u \in Tasks : Alike(u) \/ Grounded(u)'
    BY <1>3, <2>4, <2>10, AlikeHead
  <2> QED
    BY <2>5, <2>6, <2>7, <2>11, GroundsKept
<1>5. CASE word[t] # f.word
  <2>1. PICK g : g = Mark(t, b)
    OBVIOUS
  <2>2. g.op = "mark" /\ g.node = t /\ g.bit = b /\ g \in Frame
    BY <2>1 DEF Mark, Frame
  <2>3. PICK fs \in Seq(Frame) : fs = <<g>> /\ DOMAIN fs = {1} /\ fs[1] = g
    BY <2>2, Short, OneFrame
  <2>4. Then(x, fs) /\ word' = word
    BY <1>1, <1>2, <1>5, <2>1, <2>3 DEF SetBit, Retry
  <2>5. Given(fs, 1)'
    BY <1>1, <1>2, <1>3, <2>2, <2>3, <2>4, MarkStill
  <2>6. Lets(x, fs)
    BY <1>1, <1>2, <2>2, <2>3, <2>5 DEF Lets, Marks
  <2> QED
    BY <1>1, <1>3, <2>4, <2>6, GroundsThen
<1> QED
  BY <1>4, <1>5

(* What t is failed with has its reason in the task u that did fail before it. *)
LEMMA PublishFailureGrounds ==
  ASSUME Core, Outcomes, Grounds, Inv', UNCHANGED prog, NEW x \in Threads, PublishFailureFrom(x)
  PROVE  Grounds'
<1>1. PICK f \in Frame : f = Cur(x) /\ f.op = "failure" /\ todo[x] # <<>> /\ todo[x][1] = f
                         /\ Given(todo[x], 1)
  BY FirstGiven DEF PublishFailureFrom
<1>2. PICK t \in Tasks, u \in Tasks, p \in Nat : f.node = t /\ f.from = u /\ f.port = p
  BY <1>1, Says
<1>3. PICK r : r = From(t, u, p)
  OBVIOUS
<1>4. Then(x, r) /\ UNCHANGED <<head, body, word, woken, cancelled>> /\ Inv
  BY <1>1, <1>2, <1>3 DEF PublishFailureFrom, Core
<1>5. r \in Seq(Frame)
  <2>1. r \in Seq(Fit)
    BY <1>3, FromFits DEF Core, Inv
  <2> QED
    BY <2>1, Grows DEF Fit
<1>6. u \in Sources(t) /\ Ruined(u) /\ Grounded(u)
  BY <1>1, <1>2 DEF Given, Grounds
<1>7. Firm /\ t \in Upstream(t) /\ Upstream(u) \subseteq Upstream(t)
  BY <1>4, <1>6, FirmQuiet, UpstreamOf
<1>8. /\ Throwers(t) \subseteq Throwers(t)' /\ (Revoked(t) => Revoked(t)') /\ (Hindered(t) => Hindered(t)')
  BY <1>4, <1>7, FirmOf
<1>9. ASSUME NEW b \in Bits, r = <<Mark(t, b)>>, b = "user" => Revoked(t),
             b = "dependency" => Hindered(t), b # "exception"
      PROVE  \A k \in DOMAIN r : Given(r, k)'
  <2>1. PICK g : g = Mark(t, b)
    OBVIOUS
  <2>2. g.op = "mark" /\ g.node = t /\ g.bit = b
    BY <2>1 DEF Mark
  <2>3. DOMAIN r = {1} /\ r[1] = g
    BY <1>9, <2>1, OneFrame
  <2> QED
    BY <1>8, <1>9, <2>2, <2>3 DEF Given
<1>10. CASE p = 0 /\ Has(u, "exception") /\ LocalControl(u) # {}
  <2>1. TheControl(u) \in Throwers(t)'
    <3>1. TheControl(u) \in LocalControl(u)
      BY <1>10 DEF TheControl
    <3>2. TheControl(u) \in Throwers(t)
      BY <1>6, <1>7, <3>1 DEF Grounded, Throwers
    <3> QED
      BY <1>8, <3>2
  <2>2. PICK c : c = TheControl(u)
    OBVIOUS
  <2>3. PICK h : h = Carry(t, c)
    OBVIOUS
  <2>4. PICK g : g = Mark(t, "exception")
    OBVIOUS
  <2>5. g.op = "mark" /\ g.node = t /\ g.bit = "exception" /\ h.op = "signal" /\ h.node = t /\ h.control = c
    BY <2>3, <2>4 DEF Mark, Carry
  <2>6. r = <<h, g>>
    BY <1>3, <1>10, <2>2, <2>3, <2>4 DEF From
  <2>7. DOMAIN r = {1, 2} /\ r[1] = h /\ r[2] = g
    BY <2>6, TwoFrames
  <2>8. Given(r, 1)'
    BY <2>1, <2>2, <2>4, <2>5, <2>7 DEF Given
  <2>9. Given(r, 2)'
    BY <2>5, <2>7 DEF Given, Follows
  <2>10. \A k \in DOMAIN r : Given(r, k)'
    BY <2>7, <2>8, <2>9
  <2>11. Lets(x, r)
    BY <1>1, <2>10, LetsPlain
  <2> QED
    BY <1>1, <1>4, <1>5, <2>11, GroundsThen
<1>11. CASE ~(p = 0 /\ Has(u, "exception") /\ LocalControl(u) # {})
  <2>1. Hindered(t)
    BY <1>6 DEF Hindered
  <2>2. Has(u, "user") => Revoked(t)
    BY <1>6, <1>7 DEF Grounded, Revoked
  <2>3. \E b \in Bits : /\ r = <<Mark(t, b)>> /\ b # "exception"
                        /\ b = "user" => Has(u, "user")
    BY <1>3, <1>11 DEF From, Bits
  <2>4. \A k \in DOMAIN r : Given(r, k)'
    BY <1>9, <2>1, <2>2, <2>3
  <2>5. Lets(x, r)
    BY <1>1, <2>4, LetsPlain
  <2> QED
    BY <1>1, <1>4, <1>5, <2>5, GroundsThen
<1> QED
  BY <1>10, <1>11

LEMMA LateGrounds ==
  ASSUME Core, Outcomes, Grounds, UNCHANGED prog, NEW x \in Threads, Late(x)
  PROVE  Grounds'
<1>1. PICK f \in Frame : f = Cur(x) /\ f.op = "late" /\ todo[x] # <<>> /\ todo[x][1] = f
                         /\ Given(todo[x], 1) /\ Tells(f)
  BY FirstGiven DEF Late
<1>2. PICK t \in Tasks, u \in Tasks : f.node = t /\ f.from = u
  BY <1>1, Says
<1>3. UNCHANGED <<head, body, word, woken, cancelled>> /\ IsDone(u) /\ u \in Sources(t)
  BY <1>1, <1>2 DEF Late, Tells, Given
<1>4. CASE Failed(u)
  <2>1. PICK g : g = [f EXCEPT !.op = "failure"]
    OBVIOUS
  <2>2. g \in Frame /\ g.op = "failure" /\ g.node = t /\ g.from = u
    <3>1. f \in [op : {"link", "late", "failure"}, node : Tasks, from : Tasks, port : Nat]
      BY <1>1 DEF Frame
    <3> QED
      BY <1>2, <2>1, <3>1 DEF Frame
  <2>3. PICK fs \in Seq(Frame) : fs = <<g>> /\ DOMAIN fs = {1} /\ fs[1] = g
    BY <2>2, Short, OneFrame
  <2>4. Then(x, fs)
    BY <1>1, <1>2, <1>4, <2>1, <2>3 DEF Late, LateFailure
  <2>5. Given(fs, 1)'
    <3>1. u \in Sources(t)'
      BY <1>3, SameSources
    <3>2. Ruined(u)'
      BY <1>3, <1>4 DEF Ruined, IsDone, Failed
    <3> QED
      BY <2>2, <2>3, <3>1, <3>2 DEF Given
  <2>6. Lets(x, fs)
    BY <1>1, <2>3, <2>5, LetsPlain
  <2> QED
    BY <1>1, <1>3, <2>4, <2>6, GroundsThen
<1>5. CASE ~Failed(u)
  <2>1. PICK fs \in Seq(Frame) : fs = <<>>
    BY Short
  <2>2. Then(x, fs) /\ DOMAIN fs = {}
    BY <1>1, <1>2, <1>5, <2>1 DEF Late, LateFailure
  <2>3. Lets(x, fs)
    BY <1>1, <2>2, LetsPlain
  <2> QED
    BY <1>1, <1>3, <2>2, <2>3, GroundsThen
<1> QED
  BY <1>4, <1>5

(***************************************************************************)
(* Lists                                                                   *)
(***************************************************************************)
LEMMA PushArcs ==
  ASSUME Inv, NEW v \in Tasks, ~IsDone(v), NEW a \in Arc, Push(v, a)
  PROVE  /\ \A u \in Tasks : (IsDone(u)' <=> IsDone(u)) /\ (u # v => head'[u] = head[u])
         /\ LocalControl(v)' = LocalControl(v) \cup (IF a.kind = "signal" THEN {a.node} ELSE {})
         /\ \A i \in DOMAIN head'[v].arcs :
              \/ \E j \in DOMAIN head[v].arcs : head'[v].arcs[i] = head[v].arcs[j]
              \/ head'[v].arcs[i] = a
<1>1. /\ head \in [Tasks -> ArcHead] /\ head'[v].arcs = <<a>> \o head[v].arcs
      /\ \A u \in Tasks : u # v => head'[u] = head[u]
  BY DEF Push, Open, Inv, Types
<1>2. PICK l \in Seq(Arc) : l = head[v].arcs
  BY <1>1 DEF ArcHead
<1>3. PICK r : r = head'[v].arcs
  OBVIOUS
<1>4. PICK o \in Seq(Arc) : o = <<a>> /\ DOMAIN o = {1} /\ o[1] = a
  BY Short, OneFrame
<1>10. r = o \o l
  BY <1>1, <1>2, <1>3, <1>4
<1>5. OnTopOf(r, o, l)
  BY <1>10, OnTop
<1>6. /\ 1 \in DOMAIN r /\ r[1] = a
      /\ \A i \in DOMAIN l : \E j \in DOMAIN r : r[j] = l[i]
      /\ \A i \in DOMAIN r : r[i] = a \/ \E j \in DOMAIN l : r[i] = l[j]
  <2>1. /\ \A i \in DOMAIN o : i \in DOMAIN r /\ r[i] = o[i]
        /\ \A i \in DOMAIN l : Len(o) + i \in DOMAIN r /\ r[Len(o) + i] = l[i]
        /\ \A i \in DOMAIN r : i \in DOMAIN o \/ \E j \in DOMAIN l : i = Len(o) + j
    BY <1>5 DEF OnTopOf
  <2>2. \A i \in DOMAIN o : o[i] = a
    BY <1>4
  <2>3. ASSUME NEW i \in DOMAIN r
        PROVE  r[i] = a \/ \E j \in DOMAIN l : r[i] = l[j]
    BY <2>1, <2>2, <2>3
  <2> QED
    BY <1>4, <2>1, <2>3
<1>7. LocalControl(v)' = {r[i].node : i \in {j \in DOMAIN r : r[j].kind = "signal"}}
  BY <1>3 DEF LocalControl
<1>8. LocalControl(v) = {l[i].node : i \in {j \in DOMAIN l : l[j].kind = "signal"}}
  BY <1>2 DEF LocalControl
<1>9. {r[i].node : i \in {j \in DOMAIN r : r[j].kind = "signal"}}
        = {l[i].node : i \in {j \in DOMAIN l : l[j].kind = "signal"}}
            \cup (IF a.kind = "signal" THEN {a.node} ELSE {})
  BY <1>6
<1> QED
  BY <1>1, <1>2, <1>3, <1>6, <1>7, <1>8, <1>9, PushOpen

(* A task that takes an exception is not done and does not run, and its mark is next. *)
LEMMA AddSignalGrounds ==
  ASSUME Core, Outcomes, Grounds, UNCHANGED prog, NEW x \in Threads, AddSignal(x)
  PROVE  Grounds'
<1>1. PICK f \in Frame : f = Cur(x) /\ f.op = "signal" /\ todo[x] # <<>> /\ 1 \in DOMAIN todo[x]
                         /\ todo[x][1] = f /\ Given(todo[x], 1) /\ Warrants(x, todo[x], 1)
  BY FirstGiven DEF AddSignal
<1>2. PICK t \in Tasks, c \in Tasks : f.node = t /\ f.control = c
  BY <1>1, Says
<1>3. UNCHANGED <<body, word, woken, cancelled>> /\ Inv
  BY DEF AddSignal, Core
<1>4. Settled(todo[x], 1, t)
  BY <1>1, <1>2 DEF Warrants
<1>5. ~IsDone(t) /\ body[t] \in {"pending", "forwarding", "skipped", "threw"}
  BY <1>1, <1>4, ToSettle
<1>6. c \in Throwers(t) /\ 2 \in DOMAIN todo[x] /\ todo[x][2] = Mark(t, "exception")
  BY <1>1, <1>2 DEF Given
<1>7. PICK fs \in Seq(Frame) : fs = <<>>
  BY Short
<1>8. PICK a : a = Signal(c)
  OBVIOUS
<1>9. a \in Arc /\ a.kind = "signal" /\ a.node = c
  BY <1>8 DEF Signal, Arc
<1>10. Then(x, fs) /\ DOMAIN fs = {} /\ Push(t, a)
  BY <1>1, <1>2, <1>5, <1>7, <1>8 DEF AddSignal
<1>11. /\ \A u \in Tasks : (IsDone(u)' <=> IsDone(u)) /\ (u # t => head'[u] = head[u])
       /\ LocalControl(t)' = LocalControl(t) \cup {c}
       /\ \A i \in DOMAIN head'[t].arcs :
            \/ \E j \in DOMAIN head[t].arcs : head'[t].arcs[i] = head[t].arcs[j]
            \/ head'[t].arcs[i] = a
  BY <1>3, <1>5, <1>9, <1>10, PushArcs
<1>12. \A u \in Tasks : u # t => LocalControl(u)' = LocalControl(u)
  BY <1>11 DEF LocalControl
<1>13. Firm
  BY <1>3, <1>11, <1>12 DEF Firm, Ruined, Failed
<1>14. Moved(x, fs) /\ Goes(x, fs)
  BY <1>1, <1>3, <1>10, MovedThen, GoesThen
<1>15. Lets(x, fs)
  BY <1>1, <1>2, <1>10, <1>11 DEF Lets, Marks
<1>16. Marking(t)'
  <2>1. PICK m : m = Mark(t, "exception")
    OBVIOUS
  <2>2. Marks(m, t)
    BY <2>1 DEF Marks, Mark
  <2>3. PICK j \in DOMAIN todo'[x] : Same(todo'[x], j, todo[x], 2)
    BY <1>6, <1>14 DEF Moved
  <2> QED
    BY <1>6, <2>1, <2>2, <2>3 DEF Same, Marking
<1>17. Grounded(t)'
  <2>1. Grounded(t)
    BY DEF Grounds
  <2>2. /\ Throwers(t) \subseteq Throwers(t)' /\ (Revoked(t) => Revoked(t)') /\ (Hindered(t) => Hindered(t)')
        /\ Sources(t)' = Sources(t)
    BY <1>3, <1>13, FirmOf, SameSources
  <2>3. \A b : Has(t, b)' <=> Has(t, b)
    BY <1>3 DEF Has
  <2>4. (\A i \in DOMAIN head[t].arcs :
           head[t].arcs[i].kind = "flow" => t \in Sources(head[t].arcs[i].node))'
    <3>1. PICK l : l = head'[t].arcs
      OBVIOUS
    <3>2. \A i \in DOMAIN l : l[i].kind = "flow" => t \in Sources(l[i].node)
      BY <1>9, <1>11, <2>1, <3>1 DEF Grounded
    <3>3. \A i \in DOMAIN l : l[i].kind = "flow" => t \in Sources(l[i].node)'
      BY <3>2, SameSources
    <3> QED
      BY <3>1, <3>3
  <2>5. /\ LocalControl(t)' \subseteq Throwers(t)' /\ LocalControl(t)' # {}
        /\ Has(t, "user")' => Revoked(t)'
        /\ Has(t, "dependency")' => Hindered(t)'
        /\ body'[t] \notin {"idle", "running", "attached", "value"}
        /\ woken'[t] = TRUE => IsDone(t)'
    BY <1>3, <1>5, <1>6, <1>11, <2>1, <2>2, <2>3 DEF Grounded
  <2> QED
    BY <1>16, <2>4, <2>5 DEF Grounded
<1>18. \A u \in Tasks : Alike(u) \/ Grounded(u)'
  BY <1>3, <1>11, <1>17, AlikeHead
<1> QED
  BY <1>13, <1>14, <1>15, <1>18, GroundsKept

(* An arc of a task that needs v. *)
LEMMA PushFlow ==
  ASSUME Inv, NEW v \in Tasks, ~IsDone(v), NEW t \in Tasks, NEW p \in Nat, v \in Sources(t),
         Push(v, Flow(t, p)), UNCHANGED <<word, woken, cancelled>>
  PROVE  /\ \A u \in Tasks : LocalControl(u)' = LocalControl(u) /\ (IsDone(u)' <=> IsDone(u))
         /\ \A u \in Tasks : body'[u] = body[u] => Alike(u)
<1>1. PICK a : a = Flow(t, p)
  OBVIOUS
<1>2. a \in Arc /\ a.kind = "flow" /\ a.node = t
  BY <1>1 DEF Flow, Arc
<1>3. /\ \A u \in Tasks : (IsDone(u)' <=> IsDone(u)) /\ (u # v => head'[u] = head[u])
      /\ LocalControl(v)' = LocalControl(v)
      /\ \A i \in DOMAIN head'[v].arcs :
           \/ \E j \in DOMAIN head[v].arcs : head'[v].arcs[i] = head[v].arcs[j]
           \/ head'[v].arcs[i] = a
  BY <1>1, <1>2, PushArcs
<1>4. \A u \in Tasks : LocalControl(u)' = LocalControl(u)
  <2>1. \A u \in Tasks : u # v => LocalControl(u)' = LocalControl(u)
    BY <1>3 DEF LocalControl
  <2> QED
    BY <1>3, <2>1
<1>5. ASSUME NEW u \in Tasks, body'[u] = body[u]
      PROVE  Alike(u)
  <2>1. CASE u = v
    BY <1>2, <1>3, <1>5, <2>1 DEF Alike
  <2>2. CASE u # v
    BY <1>3, <1>5, <2>2, AlikeHead
  <2> QED
    BY <2>1, <2>2
<1> QED
  BY <1>3, <1>4, <1>5

LEMMA LinkGrounds ==
  ASSUME Core, Outcomes, Grounds, UNCHANGED prog, NEW x \in Threads, Link(x)
  PROVE  Grounds'
<1>1. PICK f \in Frame : f = Cur(x) /\ f.op = "link" /\ todo[x] # <<>> /\ todo[x][1] = f
                         /\ Given(todo[x], 1)
  BY FirstGiven DEF Link
<1>2. PICK t \in Tasks, u \in Tasks, p \in Nat : f.node = t /\ f.from = u /\ f.port = p
  BY <1>1, Says
<1>3. UNCHANGED <<body, word, woken, cancelled>> /\ u \in Sources(t) /\ Inv
  BY <1>1, <1>2 DEF Link, Given, Core
<1>4. CASE IsDone(u)
  <2>1. PICK g : g = [f EXCEPT !.op = "late"]
    OBVIOUS
  <2>2. g \in Frame /\ g.op = "late" /\ g.node = t /\ g.from = u
    <3>1. f \in [op : {"link", "late", "failure"}, node : Tasks, from : Tasks, port : Nat]
      BY <1>1 DEF Frame
    <3> QED
      BY <1>2, <2>1, <3>1 DEF Frame
  <2>3. PICK fs \in Seq(Frame) : fs = <<g>> /\ DOMAIN fs = {1} /\ fs[1] = g
    BY <2>2, Short, OneFrame
  <2>4. Then(x, fs) /\ UNCHANGED head
    BY <1>1, <1>2, <1>4, <2>1, <2>3 DEF Link
  <2>5. Given(fs, 1)'
    <3>1. u \in Sources(t)'
      BY <1>3, SameSources
    <3> QED
      BY <2>2, <2>3, <3>1 DEF Given
  <2>6. Lets(x, fs)
    BY <1>1, <2>3, <2>5, LetsPlain
  <2> QED
    BY <1>1, <1>3, <2>4, <2>6, GroundsThen
<1>5. CASE ~IsDone(u)
  <2>1. PICK fs \in Seq(Frame) : fs = <<>>
    BY Short
  <2>2. Then(x, fs) /\ DOMAIN fs = {} /\ Push(u, Flow(t, p))
    BY <1>1, <1>2, <1>5, <2>1 DEF Link
  <2>3. \A v \in Tasks : LocalControl(v)' = LocalControl(v) /\ (IsDone(v)' <=> IsDone(v)) /\ Alike(v)
    BY <1>3, <1>5, <2>2, PushFlow
  <2>4. Firm
    BY <1>3, <2>3 DEF Firm, Ruined, Failed
  <2>5. Moved(x, fs) /\ Goes(x, fs)
    BY <1>1, <1>3, <2>2, MovedThen, GoesThen
  <2>6. Lets(x, fs)
    BY <1>1, <2>2, LetsPlain
  <2> QED
    BY <2>3, <2>4, <2>5, <2>6, GroundsKept
<1> QED
  BY <1>4, <1>5

(* All that a sequence says is so, and it carries no exception. *)
AllGiven(s) == \A k \in DOMAIN s : Given(s, k)
Unsigned(s) == \A k \in DOMAIN s : s[k].op # "signal"

(* What two sequences say is said by the one after the other. *)
LEMMA GivenJoined ==
  ASSUME NEW S, NEW r \in Seq(S), NEW c \in Seq(S), NEW fs, fs = r \o c,
         AllGiven(r)', AllGiven(c)', Unsigned(c)
  PROVE  AllGiven(fs)'
<1>1. OnTopOf(fs, r, c)
  BY OnTop
<1>2. ASSUME NEW k \in DOMAIN fs, NEW s, NEW j, fs[k] = s[j], Given(s, j)',
             s[j].op = "signal" => 2 \in DOMAIN fs /\ fs[2] = s[2] /\ fs[1] = s[1] /\ k = j,
             \A O : Follows(s, j, O) => Follows(fs, k, O)
      PROVE  Given(fs, k)'
  <2>1. PICK f : f = fs[k] /\ f = s[j]
    BY <1>2
  <2>2. f.op = "signal" => /\ f.control \in Throwers(f.node)' /\ k = 1 /\ 2 \in DOMAIN fs
                           /\ fs[2] = Mark(fs[1].node, "exception")
    BY <1>2, <2>1 DEF Given
  <2>3. /\ Follows(s, j, {"signal"}) => Follows(fs, k, {"signal"})
        /\ Follows(s, j, {"exchange"}) => Follows(fs, k, {"exchange"})
        /\ Follows(s, j, {"wait", "block"}) => Follows(fs, k, {"wait", "block"})
    BY <1>2
  <2>4. f.op \in {"mark", "set"} =>
          /\ f.bit = "exception" => LocalControl(f.node)' # {} \/ Follows(fs, k, {"signal"})
          /\ f.bit = "user" => Revoked(f.node)'
          /\ f.bit = "dependency" => Hindered(f.node)'
    BY <1>2, <2>1, <2>3 DEF Given
  <2>5. /\ f.op \in {"link", "late", "notify", "failure"} => f.from \in Sources(f.node)'
        /\ f.op = "failure" => Ruined(f.from)'
        /\ f.op = "notify" => IsDone(f.from)' /\ (f.failed = TRUE => Failed(f.from)')
        /\ f.op = "wakeup" => IsDone(f.node)' \/ Follows(fs, k, {"exchange"})
        /\ f.op = "status" => IsDone(f.node)' \/ Follows(fs, k, {"wait", "block"})
    BY <1>2, <2>1, <2>3 DEF Given
  <2> QED
    BY <2>1, <2>2, <2>4, <2>5 DEF Given
<1>3. ASSUME NEW k \in DOMAIN r
      PROVE  Given(fs, k)'
  <2>1. \A i \in DOMAIN r : i \in DOMAIN fs /\ fs[i] = r[i]
    BY <1>1 DEF OnTopOf
  <2>4. Given(r, k)'
    BY <1>3 DEF AllGiven
  <2>2. r[k].op = "signal" => 2 \in DOMAIN r /\ k = 1
    BY <2>4 DEF Given
  <2>3. \A O : Follows(r, k, O) => Follows(fs, k, O)
    <3>1. k > 1 => k - 1 \in DOMAIN r
      BY <1>3
    <3> QED
      BY <1>3, <2>1, <3>1 DEF Follows
  <2> QED
    BY <1>2, <1>3, <2>1, <2>2, <2>3, <2>4
<1>4. ASSUME NEW j \in DOMAIN c
      PROVE  Given(fs, Len(r) + j)'
  <2>1. \A i \in DOMAIN c : Len(r) + i \in DOMAIN fs /\ fs[Len(r) + i] = c[i]
    BY <1>1 DEF OnTopOf
  <2>2. PICK k : k = Len(r) + j
    OBVIOUS
  <2>3. k \in DOMAIN fs /\ fs[k] = c[j]
    BY <1>4, <2>1, <2>2
  <2>4. \A O : Follows(c, j, O) => Follows(fs, k, O)
    <3>1. j > 1 => j - 1 \in DOMAIN c /\ k > 1 /\ Len(r) + (j - 1) = k - 1
      BY <1>4, <2>2
    <3>2. j > 1 => k > 1 /\ fs[k - 1] = c[j - 1]
      BY <2>1, <3>1
    <3> QED
      BY <2>3, <3>2 DEF Follows
  <2>5. Given(c, j)' /\ c[j].op # "signal"
    BY <1>4 DEF AllGiven, Unsigned
  <2> QED
    BY <1>2, <2>2, <2>3, <2>4, <2>5
<1>5. \A k \in DOMAIN fs : k \in DOMAIN r \/ \E j \in DOMAIN c : k = Len(r) + j
  BY <1>1 DEF OnTopOf
<1>6. \A k \in DOMAIN fs : Given(fs, k)'
  BY <1>3, <1>4, <1>5
<1> QED
  BY <1>6 DEF AllGiven

LEMMA NotifyGrounds ==
  ASSUME Core, Outcomes, Grounds, UNCHANGED prog, NEW x \in Threads, NotifyArc(x)
  PROVE  Grounds'
<1>1. PICK f \in Frame : f = Cur(x) /\ f.op = "notify" /\ todo[x] # <<>> /\ todo[x][1] = f
                         /\ Given(todo[x], 1)
  BY FirstGiven DEF NotifyArc
<1>2. PICK t \in Tasks, u \in Tasks, e \in BOOLEAN : f.node = t /\ f.from = u /\ f.failed = e
  BY <1>1, Says
<1>3. UNCHANGED <<head, body, word, woken, cancelled>> /\ u \in Sources(t) /\ (e => Ruined(u))
  BY <1>1, <1>2 DEF NotifyArc, Given, Ruined
<1>4. PICK g \in Frame : g = [op |-> "pre", node |-> t, k |-> 1]
  <2>1. [op |-> "pre", node |-> t, k |-> 1] \in Frame
    BY DEF Frame
  <2> QED
    BY <2>1
<1>5. PICK c \in Seq(Frame) : c = <<g>> /\ DOMAIN c = {1} /\ c[1] = g /\ g.op = "pre"
  <2>1. g.op = "pre"
    BY <1>4
  <2> QED
    BY <1>4, <2>1, Short, OneFrame
<1>6. \A k \in DOMAIN c : Given(c, k)' /\ c[k].op # "signal"
  BY <1>5, GivenMute DEF Mute
<1>7. CASE e
  <2>1. PICK h \in Fit : h = [f EXCEPT !.op = "failure"]
    BY <1>1, Says
  <2>2. h \in Frame /\ h.op = "failure" /\ h.node = t /\ h.from = u
    <3>1. f \in [op : {"notify", "failure"}, node : Tasks, from : Tasks, port : Nat, failed : BOOLEAN]
      BY <1>1 DEF Frame
    <3> QED
      BY <1>2, <2>1, <3>1 DEF Fit
  <2>3. PICK r \in Seq(Frame) : r = <<h>> /\ DOMAIN r = {1} /\ r[1] = h
    BY <2>2, Short, OneFrame
  <2>4. PICK fs : fs = r \o c
    OBVIOUS
  <2>5. Then(x, fs)
    BY <1>1, <1>2, <1>4, <1>5, <1>7, <2>1, <2>3, <2>4 DEF NotifyArc, NotifyFirst
  <2>6. Given(r, 1)'
    <3>1. u \in Sources(t)' /\ Ruined(u)'
      BY <1>3, <1>7, SameSources DEF Ruined, IsDone, Failed
    <3> QED
      BY <2>2, <2>3, <3>1 DEF Given
  <2>7. \A k \in DOMAIN r : Given(r, k)'
    BY <2>3, <2>6
  <2>10. AllGiven(r)' /\ AllGiven(c)' /\ Unsigned(c)
    BY <1>6, <2>7 DEF AllGiven, Unsigned
  <2>11. AllGiven(fs)'
    BY <2>4, <2>10, GivenJoined
  <2>8. fs \in Seq(Frame) /\ \A k \in DOMAIN fs : Given(fs, k)'
    BY <2>4, <2>11, Before DEF AllGiven
  <2>9. Lets(x, fs)
    BY <1>1, <2>8, LetsPlain
  <2> QED
    BY <1>1, <1>3, <2>5, <2>8, <2>9, GroundsThen
<1>8. CASE ~e
  <2>1. Then(x, c)
    <3>1. <<>> \o c = c
      OBVIOUS
    <3> QED
      BY <1>1, <1>2, <1>4, <1>5, <1>8, <3>1 DEF NotifyArc, NotifyFirst
  <2>2. Lets(x, c)
    BY <1>1, <1>6, LetsPlain
  <2> QED
    BY <1>1, <1>3, <2>1, <2>2, GroundsThen
<1> QED
  BY <1>7, <1>8

(* Its exception goes into the terminal arc, and a task with a value has none. *)
LEMMA ExchangeGrounds ==
  ASSUME Core, Outcomes, Grounds, UNCHANGED prog, NEW x \in Threads, Exchange(x)
  PROVE  Grounds'
<1>1. PICK f \in Frame : f = Cur(x) /\ f.op = "exchange" /\ todo[x] # <<>> /\ 1 \in DOMAIN todo[x]
                         /\ todo[x][1] = f /\ Fits(f) /\ At(x, "exchange")
  BY First DEF Exchange
<1>2. PICK t \in Tasks, e \in BOOLEAN : f.node = t /\ f.failed = e
  BY <1>1, Says
<1>3. PICK b \in BOOLEAN : b <=> e /\ Failed(t)
  OBVIOUS
<1>4. PICK h : h = LastHead(t, e)
  OBVIOUS
<1>5. PICK r \in Seq(Arc) : r = head[t].arcs
  BY ControlType DEF Core, Inv
<1>6. PICK fs : fs = [i \in DOMAIN r |-> Notify(t, r[i], b)]
  OBVIOUS
<1>7. head' = [head EXCEPT ![t] = h] /\ Then(x, fs) /\ UNCHANGED <<body, word, woken, cancelled>>
  <2>1. [i \in DOMAIN r |-> Notify(t, r[i], b)] = [i \in DOMAIN r |-> Notify(t, r[i], e /\ Failed(t))]
    BY <1>3
  <2> QED
    BY <1>1, <1>2, <1>4, <1>5, <1>6, <2>1 DEF Exchange
<1>8. /\ fs \in Seq(Frame) /\ DOMAIN fs = DOMAIN r
      /\ \A i \in DOMAIN fs : fs[i].op \in {"drop", "notify"} /\ fs[i] = Notify(t, r[i], b)
  BY <1>6, NotifyAll
<1>9. h.tag # "open" /\ (h = Done \/ (LocalControl(t) # {} /\ h = Terminal(TheControl(t))))
  BY <1>4, LastArcs DEF Core
<1>10. /\ head'[t] = h /\ \A u \in Tasks : u # t => head'[u] = head[u]
  BY <1>7 DEF Core, Inv, Types
<1>11. Grounded(t) /\ Inv /\ ~Marking(t) /\ Final(t) /\ ~IsDone(t)
  <2>1. Final(t) /\ ~IsDone(t)
    <3>1. f \in Ending(t)
      BY <1>1, <1>2, Sorts
    <3> QED
      BY <1>1, <3>1, Found
  <2> QED
    BY <1>1, <1>2, <2>1, MarkedInTime DEF Grounds, Core
<1>12. \A i \in DOMAIN r : r[i].kind = "flow" => t \in Sources(r[i].node)
  BY <1>5, <1>11 DEF Grounded
<1>13. LocalControl(t)' = IF h = Done THEN {} ELSE {TheControl(t)}
  <2>1. PICK l : l = h.arcs
    OBVIOUS
  <2>2. LocalControl(t)' = {l[i].node : i \in {j \in DOMAIN l : l[j].kind = "signal"}}
    BY <1>10, <2>1 DEF LocalControl
  <2>3. CASE h = Done
    <3>1. l = <<>>
      BY <2>1, <2>3 DEF Done
    <3> QED
      BY <2>2, <2>3, <3>1
  <2>4. CASE h # Done
    <3>1. PICK a : a = Signal(TheControl(t))
      OBVIOUS
    <3>2. a.kind = "signal" /\ a.node = TheControl(t)
      BY <3>1 DEF Signal
    <3>3. l = <<a>>
      BY <1>9, <2>1, <2>4, <3>1 DEF Terminal
    <3>4. DOMAIN l = {1} /\ l[1] = a
      BY <3>3, OneFrame
    <3> QED
      BY <2>2, <2>4, <3>2, <3>4
  <2> QED
    BY <2>3, <2>4
<1>14. Firm
  <2>1. IsDone(t)'
    BY <1>9, <1>10 DEF IsDone
  <2>2. \A u \in Tasks : IsDone(u) => IsDone(u)'
    BY <1>10, <2>1 DEF IsDone
  <2>3. \A u \in Tasks : u # t => LocalControl(u)' = LocalControl(u)
    BY <1>10 DEF LocalControl
  <2> QED
    BY <1>1, <1>2, <1>7, <2>2, <2>3 DEF Firm, Ruined, Failed
<1>15. Moved(x, fs) /\ Goes(x, fs)
  <2>1. Moved(x, fs)
    BY <1>1, <1>7, <1>8, <1>11, MovedThen
  <2>2. Goes(x, fs)
    BY <1>1, <1>7, <1>8, <1>11, GoesThen
  <2> QED
    BY <2>1, <2>2
<1>16. Sources(t)' = Sources(t) /\ \A v : Sources(v)' = Sources(v)
  BY SameSources
<1>17. ASSUME NEW i \in DOMAIN fs
       PROVE  Given(fs, i)'
  <2>1. PICK a \in Arc : a = r[i]
    BY <1>8, Element
  <2>2. CASE a.kind = "signal"
    <3>1. fs[i] = [op |-> "drop", control |-> a.node]
      BY <1>8, <2>1, <2>2 DEF Notify
    <3>2. fs[i].op = "drop"
      BY <3>1
    <3> QED
      BY <3>2, GivenMute DEF Mute
  <2>3. CASE a.kind # "signal"
    <3>1. PICK g : g = [op |-> "notify", node |-> a.node, from |-> t, port |-> a.port, failed |-> b]
      OBVIOUS
    <3>2. fs[i] = g
      BY <1>8, <2>1, <2>3, <3>1 DEF Notify
    <3>3. g.op = "notify" /\ g.node = a.node /\ g.from = t /\ g.failed = b
      BY <3>1
    <3>4. t \in Sources(a.node)'
      BY <1>8, <1>12, <1>16, <2>1, <2>3, ArcKinds
    <3>5. IsDone(t)' /\ (b => Failed(t)')
      BY <1>3, <1>7, <1>9, <1>10 DEF IsDone, Failed
    <3> QED
      BY <3>2, <3>3, <3>4, <3>5 DEF Given
  <2> QED
    BY <2>2, <2>3
<1>18. Lets(x, fs)
  <2>1. IsDone(t)'
    BY <1>9, <1>10 DEF IsDone
  <2> QED
    BY <1>1, <1>2, <1>17, <2>1 DEF Lets, Marks
<1>19. Grounded(t)'
  <2>1. /\ Throwers(t) \subseteq Throwers(t)' /\ (Revoked(t) => Revoked(t)') /\ (Hindered(t) => Hindered(t)')
    BY <1>11, <1>14, FirmOf
  <2>2. \A c : Has(t, c)' <=> Has(t, c)
    BY <1>7 DEF Has
  <2>3. LocalControl(t) # {} => TheControl(t) \in LocalControl(t)
    BY DEF TheControl
  <2>4. LocalControl(t)' \subseteq LocalControl(t)
    BY <1>9, <1>13, <2>3
  <2>5. ~e => body[t] = "value"
    BY <1>1, <1>2 DEF Fits
  <2>6. Has(t, "exception") => LocalControl(t) # {}
    BY <1>11 DEF Grounded
  <2>7. Has(t, "exception") => e
    BY <1>11, <2>5, <2>6 DEF Grounded
  <2>8. Has(t, "exception") => h # Done
    BY <1>4, <2>6, <2>7 DEF LastHead, Done, Terminal
  <2>9. Has(t, "exception")' => LocalControl(t)' # {}
    BY <1>13, <2>2, <2>8
  <2>10. body'[t] = "threw" \/ (LocalControl(t)' # {} /\ Waiting(t)') => Has(t, "exception")' \/ Marking(t)'
    BY <1>7, <1>11, <2>2 DEF Grounded, Waiting, Final
  <2>11. (\A i \in DOMAIN head[t].arcs :
            head[t].arcs[i].kind = "flow" => t \in Sources(head[t].arcs[i].node))'
    <3>1. PICK l : l = h.arcs
      OBVIOUS
    <3>2. \A i \in DOMAIN l : l[i].kind # "flow"
      <4>1. CASE h = Done
        BY <3>1, <4>1 DEF Done
      <4>2. CASE h # Done
        <5>1. PICK a : a = Signal(TheControl(t))
          OBVIOUS
        <5>2. a.kind = "signal" /\ l = <<a>>
          BY <1>9, <3>1, <4>2, <5>1 DEF Terminal, Signal
        <5> QED
          BY <5>2, OneFrame
      <4> QED
        BY <4>1, <4>2
    <3> QED
      BY <1>10, <3>1, <3>2
  <2>12. /\ LocalControl(t)' \subseteq Throwers(t)'
         /\ Has(t, "user")' => Revoked(t)'
         /\ Has(t, "dependency")' => Hindered(t)'
         /\ woken'[t] = TRUE => IsDone(t)'
         /\ body'[t] \in {"idle", "running", "attached", "value"} =>
              LocalControl(t)' = {} /\ ~Has(t, "dependency")'
    <3>1. IsDone(t)'
      BY <1>9, <1>10 DEF IsDone
    <3> QED
      BY <1>7, <1>11, <2>1, <2>2, <2>4, <3>1 DEF Grounded
  <2> QED
    BY <2>9, <2>10, <2>11, <2>12 DEF Grounded
<1>20. \A u \in Tasks : Alike(u) \/ Grounded(u)'
  <2>1. \A u \in Tasks : u # t => Alike(u)
    BY <1>7, <1>10, AlikeHead
  <2> QED
    BY <1>19, <2>1
<1> QED
  BY <1>14, <1>15, <1>18, <1>20, GroundsKept

(***************************************************************************)
(* Bodies                                                                  *)
(***************************************************************************)
LEMMA CompletionGiven ==
  ASSUME NEW t \in Tasks, NEW e \in BOOLEAN
  PROVE  \E c \in Seq(Frame) : /\ c = Complete(t, e)
                               /\ \A k \in DOMAIN c : Given(c, k)' /\ c[k].op # "signal"
<1>1. PICK f \in Frame : f = [op |-> "exchange", node |-> t, failed |-> e]
  <2>1. [op |-> "exchange", node |-> t, failed |-> e] \in Frame
    BY DEF Frame
  <2> QED
    BY <2>1
<1>2. PICK g \in Frame : g = [op |-> "wakeup", node |-> t]
  <2>1. [op |-> "wakeup", node |-> t] \in Frame
    BY DEF Frame
  <2> QED
    BY <2>1
<1>3. f.op = "exchange" /\ f.node = t /\ g.op = "wakeup" /\ g.node = t
  BY <1>1, <1>2
<1>4. PICK c \in Seq(Frame) : c = <<f, g>>
  BY Short
<1>5. DOMAIN c = {1, 2} /\ c[1] = f /\ c[2] = g
  BY <1>4, TwoFrames
<1>6. c = Complete(t, e)
  BY <1>1, <1>2, <1>4 DEF Complete
<1>7. Given(c, 1)'
  BY <1>3, <1>5, GivenMute DEF Mute
<1>8. Given(c, 2)'
  BY <1>3, <1>5 DEF Given, Follows
<1> QED
  BY <1>3, <1>5, <1>6, <1>7, <1>8

(* A task that starts without a failure has no exception on its list. *)
LEMMA Clean ==
  ASSUME Core, Outcomes, Grounds, NEW t \in Tasks, Waiting(t), word[t].count = 0, ~Failed(t)
  PROVE  LocalControl(t) = {} /\ ~Has(t, "dependency")
<1>1. ~Marking(t) /\ Grounded(t)
  BY MarkedInTime DEF Grounds
<1> QED
  BY <1>1 DEF Grounded, Failed, Has

LEMMA BodyGrounds ==
  ASSUME Core, Outcomes, Grounds, UNCHANGED <<prog, head, woken, cancelled>>,
         NEW t \in Tasks, ~IsDone(t), body[t] # "threw", NEW v, body' = [body EXCEPT ![t] = v],
         \A u \in Tasks : u # t => word'[u].bits = word[u].bits, word'[t].bits \subseteq word[t].bits,
         NEW x \in Threads, NEW fs, Moved(x, fs), Goes(x, fs), Lets(x, fs),
         v = "skipped" \/ (LocalControl(t) = {} /\ ~Has(t, "dependency")),
         v = "threw" => Marking(t)'
  PROVE  Grounds'
<1>1. body'[t] = v /\ \A u \in Tasks : u # t => body'[u] = body[u]
  BY DEF Core, Inv, Types
<1>2. \A u \in Tasks : LocalControl(u)' = LocalControl(u) /\ (IsDone(u)' <=> IsDone(u))
  BY DEF LocalControl, IsDone
<1>3. Firm
  BY <1>1, <1>2 DEF Firm, Ruined, Failed
<1>4. Grounded(t)'
  <2>1. Grounded(t) /\ Inv
    BY DEF Grounds, Core
  <2>2. /\ Throwers(t) \subseteq Throwers(t)' /\ (Revoked(t) => Revoked(t)') /\ (Hindered(t) => Hindered(t)')
        /\ Sources(t)' = Sources(t)
    BY <1>3, <2>1, FirmOf, SameSources
  <2>3. \A b : Has(t, b)' => Has(t, b)
    BY DEF Has
  <2>4. (\A i \in DOMAIN head[t].arcs :
           head[t].arcs[i].kind = "flow" => t \in Sources(head[t].arcs[i].node))'
    BY <2>1, SameSources DEF Grounded
  <2>5. body'[t] = "threw" \/ (LocalControl(t)' # {} /\ Waiting(t)') => Has(t, "exception")' \/ Marking(t)'
    BY <1>1, <1>2 DEF Waiting
  <2>6. /\ LocalControl(t)' \subseteq Throwers(t)'
        /\ Has(t, "exception")' => LocalControl(t)' # {}
        /\ Has(t, "user")' => Revoked(t)'
        /\ Has(t, "dependency")' => Hindered(t)'
    BY <1>2, <2>1, <2>2, <2>3 DEF Grounded
  <2>7. /\ woken'[t] = TRUE => IsDone(t)'
        /\ body'[t] \in {"idle", "running", "attached", "value"} =>
             LocalControl(t)' = {} /\ ~Has(t, "dependency")'
    BY <1>1, <1>2, <2>1, <2>3 DEF Grounded
  <2> QED
    BY <2>4, <2>5, <2>6, <2>7 DEF Grounded
<1>5. \A u \in Tasks : u # t => Alike(u)
  BY <1>1, AlikeHead
<1> QED
  BY <1>3, <1>4, <1>5, GroundsKept

(* The same, when t goes on itself. *)
LEMMA OwnGrounds ==
  ASSUME Core, Outcomes, Grounds, UNCHANGED <<prog, head, woken, cancelled>>,
         NEW t \in Tasks, NEW o \in Bottom, At(t, o),
         NEW v, body' = [body EXCEPT ![t] = v],
         \A u \in Tasks : u # t => word'[u].bits = word[u].bits, word'[t].bits \subseteq word[t].bits,
         NEW fs \in Seq(Frame), Then(t, fs), \A k \in DOMAIN fs : Given(fs, k)',
         v = "skipped" \/ (LocalControl(t) = {} /\ ~Has(t, "dependency")),
         v # "threw" \/ \E k \in DOMAIN fs : Marks(fs[k], t)
  PROVE  Grounds'
<1>1. t \in Threads /\ ~IsDone(t) /\ body[t] # "threw" /\ todo[t] # <<>> /\ Cur(t).op = o /\ Inv
  BY Own, NotThrown DEF At, Cur, Core
<1>2. Moved(t, fs)
  BY <1>1, MovedThen
<1>3. Goes(t, fs)
  BY <1>1, GoesThen
<1>4. Lets(t, fs)
  BY <1>1, LetsPlain DEF Bottom
<1>5. v = "threw" => Marking(t)'
  <2>1. ASSUME NEW k \in DOMAIN fs, Marks(fs[k], t)
        PROVE  Marking(t)'
    <3>1. PICK i \in DOMAIN todo'[t] : Put(todo'[t], i, fs, k, todo[t])
      BY <1>2 DEF Moved
    <3> QED
      BY <1>1, <2>1, <3>1 DEF Put, Marking
  <2> QED
    BY <2>1
<1> QED
  BY <1>1, <1>2, <1>3, <1>4, <1>5, BodyGrounds

LEMMA StartGrounds ==
  ASSUME Core, Outcomes, Grounds, UNCHANGED prog, NEW t \in Tasks, Start(t) \/ Resume(t)
  PROVE  Grounds'
<1>1. /\ At(t, "start") /\ "start" \in Bottom /\ UNCHANGED <<prog, head, word, woken, cancelled>>
      /\ t \in Threads
  BY Apart DEF Start, Resume, Bottom
<1>5. \A u \in Tasks : word'[u].bits = word[u].bits /\ word'[u].bits \subseteq word[u].bits
  BY <1>1
<1>6. "value" # "threw" /\ "running" # "threw" /\ "skipped" # "threw"
  OBVIOUS
<1>2. Waiting(t) /\ word[t].count = 0
  <2>1. Cur(t).node = t /\ Fits(Cur(t)) /\ Cur(t).op = "start"
    BY <1>1, Own, First
  <2> QED
    BY <2>1 DEF Fits
<1>3. CASE ~Failed(t)
  <2>1. LocalControl(t) = {} /\ ~Has(t, "dependency")
    BY <1>2, <1>3, Clean
  <2>2. CASE Start(t)
    <3>1. PICK g \in Frame : g = [op |-> "functor", node |-> t] /\ g.op = "functor"
      <4>1. [op |-> "functor", node |-> t] \in Frame /\ [op |-> "functor", node |-> t].op = "functor"
        BY DEF Frame
      <4> QED
        BY <4>1
    <3>2. PICK fs \in Seq(Frame) : fs = <<g>> /\ DOMAIN fs = {1} /\ fs[1] = g
      BY Short, OneFrame
    <3>3. Then(t, fs) /\ body' = [body EXCEPT ![t] = "running"]
      BY <1>3, <2>2, <3>1, <3>2 DEF Start, Starts
    <3>4. \A k \in DOMAIN fs : Given(fs, k)'
      BY <3>1, <3>2, GivenMute DEF Mute
    <3> QED
      BY <1>1, <1>5, <1>6, <2>1, <3>3, <3>4, OwnGrounds
  <2>3. CASE Resume(t)
    <3>1. PICK fs \in Seq(Frame) : /\ fs = Complete(t, FALSE)
                                   /\ \A k \in DOMAIN fs : Given(fs, k)' /\ fs[k].op # "signal"
      BY CompletionGiven
    <3>2. Then(t, fs) /\ body' = [body EXCEPT ![t] = "value"]
      BY <1>3, <2>3, <3>1 DEF Resume, Starts
    <3>3. \A k \in DOMAIN fs : Given(fs, k)'
      BY <3>1
    <3> QED
      BY <1>1, <1>5, <1>6, <2>1, <3>2, <3>3, OwnGrounds
  <2> QED
    BY <2>2, <2>3
<1>4. CASE Failed(t)
  <2>1. PICK fs \in Seq(Frame) : /\ fs = Complete(t, TRUE)
                                 /\ \A k \in DOMAIN fs : Given(fs, k)' /\ fs[k].op # "signal"
    BY CompletionGiven
  <2>2. Then(t, fs) /\ body' = [body EXCEPT ![t] = "skipped"]
    BY <1>4, <2>1 DEF Start, Resume, Starts
  <2>3. \A k \in DOMAIN fs : Given(fs, k)'
    BY <2>1
  <2> QED
    BY <1>1, <1>5, <1>6, <2>2, <2>3, OwnGrounds
<1> QED
  BY <1>3, <1>4

(* A task whose functor runs has none either. *)
LEMMA AtFunctor ==
  ASSUME Core, Outcomes, Grounds, NEW t \in Tasks, NEW o \in {"functor", "attach", "look"}, At(t, o)
  PROVE  /\ LocalControl(t) = {} /\ ~Has(t, "dependency") /\ ~Has(t, "exception") /\ t \in Threads
         /\ o \in Bottom /\ Cur(t).op = o /\ Cur(t).node = t /\ todo[t] # <<>>
         /\ o = "functor" => body[t] = "running"
         /\ o # "functor" => body[t] = "attached"
<1>1. o \in Bottom
  BY DEF Bottom
<1>2. Cur(t).node = t /\ Fits(Cur(t)) /\ Cur(t).op = o /\ t \in Threads /\ todo[t] # <<>>
  BY <1>1, Own, First
<1>3. /\ o = "functor" => body[t] = "running"
      /\ o # "functor" => body[t] = "attached"
  BY <1>2 DEF Fits
<1> QED
  BY <1>1, <1>2, <1>3 DEF Grounds, Grounded

LEMMA ReturnValueGrounds ==
  ASSUME Core, Outcomes, Grounds, UNCHANGED prog, NEW t \in Tasks, ReturnValue(t)
  PROVE  Grounds'
<1>1. /\ At(t, "functor") /\ UNCHANGED <<prog, head, word, woken, cancelled>>
      /\ body' = [body EXCEPT ![t] = "value"] /\ Then(t, Complete(t, FALSE))
  BY DEF ReturnValue
<1>2. PICK fs \in Seq(Frame) : /\ fs = Complete(t, FALSE)
                               /\ \A k \in DOMAIN fs : Given(fs, k)' /\ fs[k].op # "signal"
  BY CompletionGiven
<1>3. LocalControl(t) = {} /\ ~Has(t, "dependency") /\ "functor" \in Bottom
  BY <1>1, AtFunctor
<1>4. \A k \in DOMAIN fs : Given(fs, k)'
  BY <1>2
<1>5. \A u \in Tasks : word'[u].bits = word[u].bits /\ word'[u].bits \subseteq word[u].bits
  BY <1>1
<1>6. "value" # "threw"
  OBVIOUS
<1> QED
  BY <1>1, <1>2, <1>3, <1>4, <1>5, <1>6, OwnGrounds

LEMMA ThrowGrounds ==
  ASSUME Core, Outcomes, Grounds, UNCHANGED prog, NEW t \in Tasks, Throw(t)
  PROVE  Grounds'
<1>1. PICK m \in Frame : m = Mark(t, "exception") /\ m.op = "mark" /\ m.node = t /\ m.bit = "exception"
  <2>1. /\ Mark(t, "exception") \in Frame /\ Mark(t, "exception").op = "mark"
        /\ Mark(t, "exception").node = t /\ Mark(t, "exception").bit = "exception"
    BY DEF Mark, Frame, Bits
  <2> QED
    BY <2>1
<1>2. PICK s \in Frame : s = Carry(t, t) /\ s.op = "signal" /\ s.node = t /\ s.control = t
  <2>1. /\ Carry(t, t) \in Frame /\ Carry(t, t).op = "signal"
        /\ Carry(t, t).node = t /\ Carry(t, t).control = t
    BY DEF Carry, Frame
  <2> QED
    BY <2>1
<1>3. PICK r \in Seq(Frame) : r = <<s, m>>
  BY Short
<1>4. DOMAIN r = {1, 2} /\ r[1] = s /\ r[2] = m
  BY <1>3, TwoFrames
<1>5. PICK c \in Seq(Frame) : /\ c = Complete(t, TRUE)
                              /\ \A k \in DOMAIN c : Given(c, k)' /\ c[k].op # "signal"
  BY CompletionGiven
<1>6. PICK fs : fs = r \o c
  OBVIOUS
<1>7. /\ At(t, "functor") /\ UNCHANGED <<prog, head, word, woken, cancelled>>
      /\ body' = [body EXCEPT ![t] = "threw"] /\ Then(t, fs)
  BY <1>1, <1>2, <1>3, <1>5, <1>6 DEF Throw
<1>8. LocalControl(t) = {} /\ ~Has(t, "dependency") /\ "functor" \in Bottom /\ Inv
  BY <1>7, AtFunctor DEF Core
<1>9. t \in Throwers(t)'
  <2>1. t \in Upstream(t)'
    BY DEF Upstream
  <2>2. body'[t] = "threw"
    BY <1>7, <1>8 DEF Inv, Types
  <2> QED
    BY <2>1, <2>2 DEF Throwers
<1>10. Given(r, 1)'
  BY <1>1, <1>2, <1>4, <1>9 DEF Given
<1>11. Given(r, 2)'
  BY <1>1, <1>2, <1>4 DEF Given, Follows
<1>12. \A k \in DOMAIN r : Given(r, k)'
  BY <1>4, <1>10, <1>11
<1>13. fs \in Seq(Frame) /\ Leads(fs, r, c)
  BY <1>6, Before
<1>16. AllGiven(r)' /\ AllGiven(c)' /\ Unsigned(c)
  BY <1>5, <1>12 DEF AllGiven, Unsigned
<1>17. AllGiven(fs)'
  BY <1>6, <1>16, GivenJoined
<1>14. \A k \in DOMAIN fs : Given(fs, k)'
  BY <1>17 DEF AllGiven
<1>15. 2 \in DOMAIN fs /\ Marks(fs[2], t)
  BY <1>1, <1>4, <1>13 DEF Leads, Marks
<1> QED
  BY <1>7, <1>8, <1>13, <1>14, <1>15, OwnGrounds

LEMMA EmplaceGrounds ==
  ASSUME Core, Outcomes, Grounds, UNCHANGED prog, NEW t \in Tasks, Emplace(t)
  PROVE  Grounds'
<1>1. /\ At(t, "functor") /\ UNCHANGED <<prog, head, woken, cancelled>>
      /\ body' = [body EXCEPT ![t] = "attached"] /\ Then(t, <<[op |-> "attach", node |-> t]>>)
      /\ word'[t].bits = {} /\ \A u \in Tasks : u # t => word'[u].bits = word[u].bits
  BY DEF Emplace, Core, Inv, Types
<1>2. PICK g \in Frame : g = [op |-> "attach", node |-> t] /\ g.op = "attach"
  <2>1. [op |-> "attach", node |-> t] \in Frame /\ [op |-> "attach", node |-> t].op = "attach"
    BY DEF Frame
  <2> QED
    BY <2>1
<1>3. PICK fs \in Seq(Frame) : fs = <<g>> /\ DOMAIN fs = {1} /\ fs[1] = g
  BY Short, OneFrame
<1>4. Then(t, fs)
  BY <1>1, <1>2, <1>3
<1>5. \A k \in DOMAIN fs : Given(fs, k)'
  BY <1>2, <1>3, GivenMute DEF Mute
<1>6. LocalControl(t) = {} /\ ~Has(t, "dependency") /\ "functor" \in Bottom
  BY <1>1, AtFunctor
<1>7. /\ word'[t].bits \subseteq word[t].bits /\ "attached" # "threw"
      /\ \A u \in Tasks : u # t => word'[u].bits = word[u].bits
  BY <1>1
<1>8. /\ At(t, "functor") /\ UNCHANGED <<prog, head, woken, cancelled>>
      /\ body' = [body EXCEPT ![t] = "attached"]
  BY <1>1
<1> QED
  BY <1>4, <1>5, <1>6, <1>7, <1>8, OwnGrounds

LEMMA LookGrounds ==
  ASSUME Core, Outcomes, Grounds, UNCHANGED prog, NEW t \in Tasks, Look(t)
  PROVE  Grounds'
<1>1. At(t, "look") /\ UNCHANGED <<prog, head, word, woken, cancelled>> /\ Forwards(t)
  BY DEF Look
<1>2. PICK u \in Tasks : u = Returns(t) /\ Forwarded(t) = {u}
  BY <1>1, Related DEF Core
<1>3. /\ LocalControl(t) = {} /\ ~Has(t, "dependency") /\ "look" \in Bottom /\ t \in Threads
      /\ Cur(t).node = t /\ Cur(t).op = "look"
  BY <1>1, AtFunctor
<1>7. \A w \in Tasks : word'[w].bits = word[w].bits /\ word'[w].bits \subseteq word[w].bits
  BY <1>1
<1>8. "value" # "threw" /\ "skipped" # "threw"
  OBVIOUS
<1>4. IsDone(u)
  <2>1. Tells(Cur(t))
    BY <1>1, <1>3, FirstGiven
  <2> QED
    BY <1>2, <1>3, <2>1 DEF Tells
<1>5. CASE Failed(u)
  <2>1. PICK f \in Frame : f = [op |-> "failure", node |-> t, from |-> u, port |-> 0]
                           /\ f.op = "failure" /\ f.node = t /\ f.from = u
    <3>1. PICK f : f = [op |-> "failure", node |-> t, from |-> u, port |-> 0]
      OBVIOUS
    <3>2. f \in Frame /\ f.op = "failure" /\ f.node = t /\ f.from = u
      BY <3>1 DEF Frame
    <3> QED
      BY <3>1, <3>2
  <2>2. PICK r \in Seq(Frame) : r = <<f>> /\ DOMAIN r = {1} /\ r[1] = f
    BY <2>1, Short, OneFrame
  <2>3. PICK c \in Seq(Frame) : /\ c = Complete(t, TRUE)
                                /\ \A k \in DOMAIN c : Given(c, k)' /\ c[k].op # "signal"
    BY CompletionGiven
  <2>4. PICK fs : fs = r \o c
    OBVIOUS
  <2>5. Then(t, fs) /\ body' = [body EXCEPT ![t] = "skipped"]
    BY <1>2, <1>5, <2>1, <2>2, <2>3, <2>4 DEF Look, AttachedLate
  <2>6. Given(r, 1)'
    <3>1. u \in Sources(t)'
      BY <1>2, SameSources DEF Sources
    <3>2. Ruined(u)'
      BY <1>1, <1>4, <1>5 DEF Ruined, IsDone, Failed
    <3> QED
      BY <2>1, <2>2, <3>1, <3>2 DEF Given
  <2>7. \A k \in DOMAIN r : Given(r, k)'
    BY <2>2, <2>6
  <2>8. fs \in Seq(Frame)
    BY <2>4, Before
  <2>10. AllGiven(r)' /\ AllGiven(c)' /\ Unsigned(c)
    BY <2>3, <2>7 DEF AllGiven, Unsigned
  <2>11. AllGiven(fs)'
    BY <2>4, <2>10, GivenJoined
  <2>9. \A k \in DOMAIN fs : Given(fs, k)'
    BY <2>11 DEF AllGiven
  <2> QED
    BY <1>1, <1>3, <1>7, <1>8, <2>5, <2>8, <2>9, OwnGrounds
<1>6. CASE ~Failed(u)
  <2>1. PICK fs \in Seq(Frame) : /\ fs = Complete(t, FALSE)
                                 /\ \A k \in DOMAIN fs : Given(fs, k)' /\ fs[k].op # "signal"
    BY CompletionGiven
  <2>2. Then(t, fs) /\ body' = [body EXCEPT ![t] = "value"]
    BY <1>2, <1>6, <2>1 DEF Look, AttachedLate
  <2>3. \A k \in DOMAIN fs : Given(fs, k)'
    BY <2>1
  <2> QED
    BY <1>1, <1>3, <1>7, <1>8, <2>2, <2>3, OwnGrounds
<1> QED
  BY <1>5, <1>6

LEMMA AttachGrounds ==
  ASSUME Core, Outcomes, Grounds, UNCHANGED prog, NEW t \in Tasks, Attach(t)
  PROVE  Grounds'
<1>1. At(t, "attach") /\ UNCHANGED <<word, woken, cancelled>> /\ Forwards(t)
  BY DEF Attach
<1>2. PICK u \in Tasks : u = Returns(t) /\ Forwarded(t) = {u} /\ u # t
  <2>1. Returns(t) # t
    BY FailuresAssumption DEF Returns, Core, Inv, Types
  <2> QED
    BY <1>1, <2>1, Related DEF Core
<1>3. /\ LocalControl(t) = {} /\ ~Has(t, "dependency") /\ ~Has(t, "exception") /\ t \in Threads
      /\ Cur(t).op = "attach" /\ todo[t] # <<>> /\ Inv /\ u \in Sources(t) /\ body[t] = "attached"
  BY <1>1, <1>2, AtFunctor DEF Core, Sources
<1>4. CASE IsDone(u)
  <2>1. PICK g \in Frame : g = [op |-> "look", node |-> t] /\ g.op = "look"
    <3>1. [op |-> "look", node |-> t] \in Frame /\ [op |-> "look", node |-> t].op = "look"
      BY DEF Frame
    <3> QED
      BY <3>1
  <2>2. PICK fs \in Seq(Frame) : fs = <<g>> /\ DOMAIN fs = {1} /\ fs[1] = g
    BY Short, OneFrame
  <2>3. Then(t, fs) /\ UNCHANGED <<prog, head, body, word, woken, cancelled>>
    BY <1>1, <1>2, <1>4, <2>1, <2>2 DEF Attach
  <2>4. \A k \in DOMAIN fs : Given(fs, k)'
    BY <2>1, <2>2, GivenMute DEF Mute
  <2>5. Lets(t, fs)
    BY <1>3, <2>4, LetsPlain
  <2> QED
    BY <1>3, <2>3, <2>5, GroundsThen
<1>5. CASE ~IsDone(u)
  <2>1. PICK fs \in Seq(Frame) : fs = <<>>
    BY Short
  <2>2. /\ Then(t, fs) /\ DOMAIN fs = {} /\ Push(u, Flow(t, 0))
        /\ body' = [body EXCEPT ![t] = "forwarding"]
    BY <1>2, <1>5, <2>1 DEF Attach
  <2>3. /\ body'[t] = "forwarding" /\ \A v \in Tasks : v # t => body'[v] = body[v]
        /\ head'[t] = head[t]
    BY <1>2, <1>3, <2>2 DEF Inv, Types, Push
  <2>4. /\ \A v \in Tasks : LocalControl(v)' = LocalControl(v) /\ (IsDone(v)' <=> IsDone(v))
        /\ \A v \in Tasks : body'[v] = body[v] => Alike(v)
    BY <1>1, <1>3, <1>5, <2>2, PushFlow
  <2>5. Firm
    BY <1>1, <1>3, <2>3, <2>4 DEF Firm, Ruined, Failed
  <2>6. Moved(t, fs)
    BY <1>3, <2>2, MovedThen
  <2>7. Goes(t, fs)
    BY <1>3, <2>2, GoesThen
  <2>8. Lets(t, fs)
    BY <1>3, <2>2, LetsPlain
  <2>9. Grounded(t)'
    <3>1. Grounded(t)
      BY DEF Grounds
    <3>2. (Revoked(t) => Revoked(t)') /\ Sources(t)' = Sources(t)
      BY <1>3, <2>5, FirmOf, SameSources
    <3>3. \A b : Has(t, b)' <=> Has(t, b)
      BY <1>1 DEF Has
    <3>4. (\A i \in DOMAIN head[t].arcs :
             head[t].arcs[i].kind = "flow" => t \in Sources(head[t].arcs[i].node))'
      BY <2>3, <3>1, SameSources DEF Grounded
    <3>5. /\ LocalControl(t)' = {} /\ ~Has(t, "exception")' /\ ~Has(t, "dependency")'
          /\ Has(t, "user")' => Revoked(t)'
          /\ body'[t] # "threw"
          /\ woken'[t] = TRUE => IsDone(t)'
      BY <1>1, <1>3, <2>3, <2>4, <3>1, <3>2, <3>3 DEF Grounded
    <3> QED
      BY <3>4, <3>5 DEF Grounded
  <2>10. \A v \in Tasks : Alike(v) \/ Grounded(v)'
    BY <2>3, <2>4, <2>9
  <2> QED
    BY <1>3, <2>5, <2>6, <2>7, <2>8, <2>10, GroundsKept
<1> QED
  BY <1>4, <1>5

LEMMA PreGrounds ==
  ASSUME Core, Outcomes, Grounds, UNCHANGED prog, NEW x \in Threads, Pre(x)
  PROVE  Grounds'
<1>1. PICK f \in Frame : f = Cur(x) /\ f.op = "pre" /\ todo[x] # <<>> /\ At(x, "pre") /\ Inv
  BY First DEF Pre, Core
<1>2. PICK t \in Tasks, k \in Int : f.node = t /\ f.k = k
  BY <1>1, Says
<1>3. Waiting(t) /\ x # t /\ t \in Threads /\ ~IsDone(t)
  <2>1. Waiting(t) /\ x # t /\ t \in Threads
    BY <1>1, <1>2, PreTakes, Apart
  <2> QED
    BY <2>1 DEF Core, Counted, Waiting, Final
<1>4. PICK last \in BOOLEAN : last <=> word[t].count = k
  OBVIOUS
<1>5. PICK skips \in BOOLEAN : skips <=> last /\ Skips(word[t].bits)
  OBVIOUS
<1>6. PICK fs \in Seq(Frame) : /\ fs = IF skips THEN Complete(t, TRUE) ELSE <<>>
                              /\ \A i \in DOMAIN fs : Given(fs, i)'
  <2>1. PICK c \in Seq(Frame) : /\ c = Complete(t, TRUE)
                                /\ \A i \in DOMAIN c : Given(c, i)' /\ c[i].op # "signal"
    BY CompletionGiven
  <2>2. <<>> \in Seq(Frame) /\ DOMAIN <<>> = {}
    BY Short
  <2>3. CASE skips
    BY <2>1, <2>3
  <2>4. CASE ~skips
    BY <2>2, <2>4
  <2> QED
    BY <2>3, <2>4
<1>7. PICK b \in BOOLEAN : b <=> last /\ ~skips
  OBVIOUS
<1>8. PICK c : c = IF b THEN <<[op |-> "start", node |-> t]>> ELSE todo[t]
  OBVIOUS
<1>9. /\ todo' = [todo EXCEPT ![x] = fs \o Tail(@), ![t] = c]
      /\ body' = (IF skips THEN [body EXCEPT ![t] = "skipped"] ELSE body)
      /\ word' = [word EXCEPT ![t].count = @ - k] /\ UNCHANGED <<prog, head, woken, cancelled>>
  BY <1>1, <1>2, <1>4, <1>5, <1>6, <1>7, <1>8 DEF Pre
<1>10. b => todo[t] = <<>>
  <2>1. k # 0
    BY <1>1, <1>2, PreTakes
  <2> QED
    BY <1>2, <1>3, <1>4, <1>7, <2>1, NotStarted
<1>11. Moved(x, fs)
  BY <1>1, <1>3, <1>8, <1>9, <1>10, MovedStart
<1>12. Goes(x, fs)
  BY <1>1, <1>3, <1>8, <1>9, GoesStart
<1>13. \A u \in Tasks : word'[u].bits = word[u].bits
  BY <1>1, <1>9, SetCount DEF Inv, Types
<1>14. Lets(x, fs)
  BY <1>1, <1>6, LetsPlain
<1>15. CASE skips
  <2>1. body' = [body EXCEPT ![t] = "skipped"] /\ UNCHANGED <<prog, head, woken, cancelled>>
    BY <1>9, <1>15
  <2>2. body[t] # "threw" /\ "skipped" # "threw"
    BY <1>3 DEF Waiting
  <2>3. word'[t].bits \subseteq word[t].bits
    BY <1>13
  <2> QED
    BY <1>3, <1>11, <1>12, <1>13, <1>14, <2>1, <2>2, <2>3, BodyGrounds
<1>16. CASE ~skips
  <2>1. UNCHANGED <<prog, head, body, woken, cancelled>>
    BY <1>9, <1>16
  <2>2. Firm
    BY <1>13, <2>1, FirmQuiet
  <2>3. \A u \in Tasks : Alike(u)
    BY <1>13, <2>1, AlikeHead
  <2> QED
    BY <1>11, <1>12, <1>14, <2>2, <2>3, GroundsKept
<1> QED
  BY <1>15, <1>16

(***************************************************************************)
(* Calls                                                                   *)
(***************************************************************************)
LEMMA RunGrounds ==
  ASSUME Core, Outcomes, Grounds, UNCHANGED prog, NEW t \in Tasks, Run(t)
  PROVE  Grounds'
<1>1. PICK m : m = Maker(t)
  OBVIOUS
<1>2. PICK fs : fs = Links(t) \o Ends(t)
  OBVIOUS
<1>3. m \in Threads /\ Inv /\ Grounded(t)
  BY <1>1, ProgramTypes DEF Core, Inv, Types, Grounds
<1>4. /\ body[t] = "idle" /\ body' = [body EXCEPT ![t] = "pending"] /\ UNCHANGED <<prog, head, woken, cancelled>>
      /\ word' = [word EXCEPT ![t] = [count |-> StartMask, bits |-> {}]]
  BY DEF Run
<1>5. Upon(todo', todo, m, fs)
  <2>1. todo' = [todo EXCEPT ![m] = Links(t) \o Ends(t) \o todo[m]]
    BY <1>1, <1>3 DEF Run, Links, Ends
  <2> QED
    BY <1>2, <2>1 DEF Upon
<1>6. fs \in Seq(Frame) /\ \A i \in DOMAIN fs : fs[i].op \in {"link", "publish", "return"}
  <2>1. Constructs(t, fs)
    BY <1>2, <1>3, Construction
  <2> QED
    BY <2>1 DEF Constructs
<1>7. \A i \in DOMAIN todo[m] : todo[m][i].op = "functor"
  <2>1. CASE ~Inner(t)
    <3>1. todo[m] = <<>>
      BY <1>1, <2>1 DEF Run, Maker, InCall
    <3> QED
      BY <3>1, OneFrame
  <2>2. CASE Inner(t)
    <3>1. m \in Tasks /\ At(m, "functor") /\ "functor" \in Bottom
      BY <1>1, <2>2 DEF Run, Maker, Inner, Bottom
    <3>2. Len(todo[m]) = 1 /\ todo[m] \in Seq(Frame) /\ todo[m][1] = Cur(m) /\ Cur(m).op = "functor"
      BY <1>3, <3>1, Own, First
    <3>3. DOMAIN todo[m] = {1}
      BY <3>2
    <3> QED
      BY <3>2, <3>3
  <2> QED
    BY <2>1, <2>2
<1>8. \A k \in DOMAIN fs : Given(fs, k)'
  <2>1. PICK n \in Nat : n = Len(Inputs(t)) /\ DOMAIN Inputs(t) = 1..n
    BY <1>3, InputsFew
  <2>2. PICK l : l = Links(t)
    OBVIOUS
  <2>3. PICK e : e = Ends(t)
    OBVIOUS
  <2>4. PICK S : S = {l[j] : j \in 1..n} \cup {e[j] : j \in 1..2}
    OBVIOUS
  <2>5. l \in Seq(S) /\ DOMAIN l = 1..n
    <3>1. l = [j \in 1..n |-> l[j]] /\ \A j \in 1..n : l[j] \in S
      BY <2>1, <2>2, <2>4 DEF Links
    <3> QED
      BY <3>1
  <2>6. PICK a : a = [op |-> "publish", node |-> t]
    OBVIOUS
  <2>7. PICK b : b = [op |-> "return", node |-> t]
    OBVIOUS
  <2>8. e = <<a, b>>
    BY <2>3, <2>6, <2>7 DEF Ends
  <2>9. DOMAIN e = {1, 2} /\ e[1] = a /\ e[2] = b
    BY <2>8, TwoFrames
  <2>10. e \in Seq(S)
    <3>1. a \in S /\ b \in S
      BY <2>4, <2>9
    <3> QED
      BY <2>8, <3>1, Short
  <2>14. a.op = "publish" /\ b.op = "return"
    BY <2>6, <2>7
  <2>11. \A k \in DOMAIN e : Given(e, k)' /\ e[k].op # "signal"
    BY <2>9, <2>14, GivenMute DEF Mute
  <2>12. ASSUME NEW k \in DOMAIN l
         PROVE  Given(l, k)'
    <3>1. PICK u, p : u = Inputs(t)[k].task /\ p = Inputs(t)[k].port
      OBVIOUS
    <3>2. PICK g : g = [op |-> "link", node |-> t, from |-> u, port |-> p]
      OBVIOUS
    <3>3. l[k] = g
      BY <2>1, <2>2, <2>5, <3>1, <3>2 DEF Links
    <3>4. g.op = "link" /\ g.node = t /\ g.from = u
      BY <3>2
    <3>5. u \in Sources(t)
      BY <2>1, <2>5, <3>1 DEF Sources, Producers
    <3>6. u \in Sources(t)'
      BY <3>5, SameSources
    <3> QED
      BY <3>3, <3>4, <3>6 DEF Given
  <2>13. fs = l \o e
    BY <1>2, <2>2, <2>3
  <2>15. AllGiven(l)' /\ AllGiven(e)' /\ Unsigned(e)
    BY <2>11, <2>12 DEF AllGiven, Unsigned
  <2>16. AllGiven(fs)'
    BY <2>5, <2>10, <2>13, <2>15, GivenJoined
  <2> QED
    BY <2>16 DEF AllGiven
<1>9. Moved(m, fs)
  BY <1>3, <1>5, <1>6, MovedUpon
<1>10. Goes(m, fs)
  BY <1>3, <1>5, <1>6, <1>7, GoesUpon
<1>11. Lets(m, fs)
  <2>1. todo[m] # <<>> => Cur(m).op = "functor"
    <3>1. todo[m] # <<>> => 1 \in DOMAIN todo[m] /\ todo[m][1] = Cur(m)
      BY <1>3, Families DEF Cur
    <3> QED
      BY <1>7, <3>1
  <2> QED
    BY <1>8, <2>1, LetsPlain
<1>12. /\ word'[t].bits = {} /\ \A u \in Tasks : u # t => word'[u].bits = word[u].bits
  BY <1>3, <1>4 DEF Inv, Types
<1>13. ~IsDone(t) /\ LocalControl(t) = {} /\ ~Has(t, "dependency")
  BY <1>3, <1>4, NotYet DEF Grounded
<1>14. word'[t].bits \subseteq word[t].bits /\ "pending" # "threw" /\ body[t] # "threw"
  BY <1>4, <1>12
<1> QED
  BY <1>3, <1>4, <1>9, <1>10, <1>11, <1>12, <1>13, <1>14, BodyGrounds

LEMMA CallGrounds ==
  ASSUME Core, Outcomes, Grounds, UNCHANGED prog, NEW x \in Users, Call(x)
  PROVE  Grounds'
<1>1. PICK t \in Tasks : Cancel(x, t) \/ WaitFor(x, t)
  BY DEF Call
<1>2. /\ todo[x] = <<>> /\ UNCHANGED <<word, head, body, woken>> /\ cancelled \subseteq cancelled'
      /\ Cancel(x, t) => t \in cancelled'
  BY <1>1 DEF Cancel, WaitFor, InCall
<1>3. \E fs \in Seq(Frame) : todo' = [todo EXCEPT ![x] = fs] /\ \A k \in DOMAIN fs : Given(fs, k)'
  <2>1. CASE Cancel(x, t)
    <3>1. PICK f : f = Mark(t, "user")
      OBVIOUS
    <3>2. f \in Frame /\ f.op = "mark" /\ f.bit = "user" /\ f.node = t
      BY <3>1 DEF Mark, Frame, Bits
    <3>3. PICK fs \in Seq(Frame) : fs = <<f>> /\ DOMAIN fs = {1} /\ fs[1] = f
      BY <3>2, Short, OneFrame
    <3>4. Revoked(t)'
      <4>1. t \in Upstream(t)'
        BY DEF Upstream
      <4> QED
        BY <1>2, <2>1, <4>1 DEF Revoked
    <3>5. Given(fs, 1)'
      BY <3>2, <3>3, <3>4 DEF Given
    <3>6. todo' = [todo EXCEPT ![x] = fs]
      BY <2>1, <3>1, <3>3 DEF Cancel
    <3> QED
      BY <3>3, <3>5, <3>6
  <2>2. CASE WaitFor(x, t)
    <3>1. PICK g : g = [op |-> "wait", node |-> t]
      OBVIOUS
    <3>2. PICK h : h = [op |-> "status", node |-> t]
      OBVIOUS
    <3>3. /\ g \in Frame /\ g.op = "wait" /\ g.node = t
          /\ h \in Frame /\ h.op = "status" /\ h.node = t
      BY <3>1, <3>2 DEF Frame
    <3>4. PICK fs \in Seq(Frame) : fs = <<g, h>>
      BY <3>3, Short
    <3>5. DOMAIN fs = {1, 2} /\ fs[1] = g /\ fs[2] = h
      BY <3>4, TwoFrames
    <3>6. Given(fs, 1)'
      BY <3>3, <3>5, GivenMute DEF Mute
    <3>7. Given(fs, 2)'
      BY <3>3, <3>5 DEF Given, Follows
    <3>8. todo' = [todo EXCEPT ![x] = fs]
      BY <2>2, <3>1, <3>2, <3>4 DEF WaitFor
    <3> QED
      BY <3>5, <3>6, <3>7, <3>8
  <2> QED
    BY <1>1, <2>1, <2>2
<1>4. PICK fs \in Seq(Frame) : todo' = [todo EXCEPT ![x] = fs] /\ \A k \in DOMAIN fs : Given(fs, k)'
  BY <1>3
<1>5. fs \o <<>> = fs
  OBVIOUS
<1>6. Upon(todo', todo, x, fs) /\ x \in Threads /\ Inv
  BY <1>2, <1>4, <1>5, Apart DEF Upon, Core
<1>7. \A i \in DOMAIN todo[x] : todo[x][i].op = "functor"
  BY <1>2, OneFrame
<1>8. Moved(x, fs)
  BY <1>6, MovedUpon
<1>9. Goes(x, fs)
  BY <1>6, <1>7, GoesUpon
<1>10. Lets(x, fs)
  BY <1>2, <1>4, LetsPlain
<1>11. Firm
  BY <1>2 DEF Firm, Ruined, Failed, IsDone, LocalControl
<1>12. \A u \in Tasks : Alike(u)
  BY <1>2, AlikeHead
<1> QED
  BY <1>6, <1>8, <1>9, <1>10, <1>11, <1>12, GroundsKept

LEMMA InitGrounds ==
  ASSUME Init
  PROVE  Grounds
<1>1. /\ \A x \in Threads : todo[x] = <<>>
      /\ \A t \in Tasks : /\ body[t] = "idle" /\ head[t].arcs = <<>> /\ word[t].bits = {}
                          /\ woken[t] = FALSE
  BY DEF Init, Open
<1>2. \A t \in Tasks : LocalControl(t) = {}
  BY <1>1 DEF LocalControl
<1>3. \A t \in Tasks : Grounded(t)
  BY <1>1, <1>2 DEF Grounded, Has
<1> QED
  BY <1>1, <1>3 DEF Grounds

LEMMA GroundsStay ==
  ASSUME Grounds, UNCHANGED vars
  PROVE  Grounds'
<1>1. \A t : Sources(t)' = Sources(t) /\ Upstream(t)' = Upstream(t)
  BY SameSources DEF vars
<1>2. \A t : /\ LocalControl(t)' = LocalControl(t) /\ (IsDone(t)' <=> IsDone(t))
             /\ (Failed(t)' <=> Failed(t)) /\ (Ruined(t)' <=> Ruined(t))
             /\ (Marking(t)' <=> Marking(t)) /\ (Waiting(t)' <=> Waiting(t))
  BY DEF LocalControl, IsDone, Failed, Ruined, Marking, Waiting, vars
<1>3. \A t, b : Has(t, b)' <=> Has(t, b)
  BY DEF Has, vars
<1>4. \A t : /\ (Hindered(t)' <=> Hindered(t)) /\ (Revoked(t)' <=> Revoked(t))
             /\ Throwers(t)' = Throwers(t)
  BY <1>1, <1>2 DEF Hindered, Revoked, Throwers, vars
<1>5. \A t \in Tasks : Grounded(t)'
  BY <1>1, <1>2, <1>3, <1>4 DEF Grounds, Grounded, vars
<1>6. \A x \in Threads : \A i \in DOMAIN todo'[x] : Given(todo[x], i)'
  BY <1>1, <1>2, <1>3, <1>4 DEF Grounds, Given, vars
<1> QED
  BY <1>5, <1>6 DEF Grounds

LEMMA GroundsNext ==
  ASSUME Core, Outcomes, Grounds, woken \in [Tasks -> BOOLEAN], [Next]_vars
  PROVE  Grounds'
<1>1. Inv'
  BY CoreNext DEF Core
<1>2. ASSUME NEW t \in Tasks, Execute(t), UNCHANGED prog
      PROVE  Grounds'
  BY <1>2, StartGrounds, ReturnValueGrounds, ThrowGrounds, RunGrounds, EmplaceGrounds,
     AttachGrounds, LookGrounds DEF Execute
<1>3. ASSUME NEW t \in Tasks, Run(t), UNCHANGED prog
      PROVE  Grounds'
  BY <1>3, RunGrounds
<1>4. ASSUME NEW x \in Users, Call(x), UNCHANGED prog
      PROVE  Grounds'
  BY <1>4, CallGrounds
<1>5. ASSUME NEW x \in Threads, Step(x), UNCHANGED prog
      PROVE  Grounds'
  BY <1>1, <1>5, MarkFailureGrounds, SetBitGrounds, PublishFailureGrounds, AddSignalGrounds,
     PopGrounds, WakeupGrounds, LinkGrounds, LateGrounds, WaitGrounds, PreGrounds, ExchangeGrounds,
     NotifyGrounds DEF Step
<1> QED
  BY <1>2, <1>3, <1>4, <1>5, GroundsStay DEF Next, Rest

(* In any program an exception that a task is marked with is at hand, whenever it is looked
   for, and a task with a value is completed without one on its list. *)
THEOREM SignalsKept == Spec => []SignalsInPlace
<1> DEFINE All == Core /\ Outcomes /\ Grounds /\ woken \in [Tasks -> BOOLEAN]
<1>1. All => SignalsInPlace
  <2>1. SUFFICES ASSUME All
                 PROVE  SignalsInPlace
    OBVIOUS
  <2>2. \A t \in Tasks : Has(t, "exception") => LocalControl(t) # {}
    BY <2>1 DEF Grounds, Grounded
  <2>3. ASSUME NEW x \in Threads, At(x, "exchange"), ~Cur(x).failed
        PROVE  LocalControl(Cur(x).node) = {}
    <3>1. PICK f \in Frame : f = Cur(x) /\ f.op = "exchange" /\ Fits(f)
      BY <2>1, <2>3, First
    <3>2. f.node \in Tasks
      BY <3>1, Says
    <3>3. body[f.node] = "value"
      BY <2>3, <3>1 DEF Fits
    <3> QED
      BY <2>1, <3>1, <3>2, <3>3 DEF Grounds, Grounded
  <2> QED
    BY <2>2, <2>3 DEF SignalsInPlace
<1>2. Init => All
  <2>1. Init => woken \in [Tasks -> BOOLEAN]
    BY DEF Init
  <2> QED
    BY <2>1, InitCore, InitOutcomes, InitGrounds
<1>3. All /\ [Next]_vars => All'
  BY CoreNext, OutcomesNext, GroundsNext, WokenNext
<1> QED
  BY <1>1, <1>2, <1>3, PTL DEF Spec

(***************************************************************************)
(* What waiters are told                                                   *)
(***************************************************************************)

(* What t is said to have come to is so. *)
Sound(t, s) ==
  \/ s = <<"ready">> /\ body[t] = "value"
  \/ s = <<"user_cancelled">> /\ Revoked(t)
  \/ s = <<"dependency_cancelled">> /\ body[t] = "skipped" /\ Hindered(t)
  \/ \E c \in Throwers(t) : s = <<"exception", c>>

Heard == DOMAIN told = Tasks /\ \A t \in Tasks : \A s \in told[t] : Sound(t, s)

(* A body that came to its end stays there, and a failure that is out is not taken back. *)
Settling ==
  /\ cancelled \subseteq cancelled'
  /\ \A t \in Tasks : /\ Final(t) => body'[t] = body[t]
                      /\ Ruined(t) => Ruined(t)'

LEMMA SettlingBits ==
  ASSUME Core, UNCHANGED <<head, cancelled>>, NEW x \in Threads, SetBit(x) \/ Pre(x)
  PROVE  Settling
<1>0. word \in [Tasks -> Word] /\ DOMAIN body = Tasks
  BY DEF Core, Inv, Types
<1>1. CASE SetBit(x)
  <2>1. PICK f : f = Cur(x) /\ f.op = "set" /\ f \in Frame
    BY <1>1, First DEF SetBit
  <2>2. PICK u \in Tasks : u = f.node
    BY <2>1, Says
  <2>3. word' = word \/ \E b : word' = [word EXCEPT ![u].bits = @ \cup {b}]
    BY <1>1, <2>1, <2>2 DEF SetBit
  <2>4. \A t \in Tasks : word[t].bits \subseteq word'[t].bits
    BY <1>0, <2>3 DEF Word
  <2>5. UNCHANGED body
    BY <1>1 DEF SetBit
  <2> QED
    BY <2>4, <2>5 DEF Settling, Ruined, IsDone, Failed
<1>2. CASE Pre(x)
  <2>1. PICK f : f = Cur(x) /\ f \in Frame /\ f.op = "pre" /\ 1 \in DOMAIN todo[x] /\ todo[x][1] = f
    BY <1>2, First DEF Pre
  <2>2. PICK u \in Tasks, k \in Int : f.node = u /\ f.k = k
    BY <2>1, Says
  <2>3. word' = [word EXCEPT ![u].count = @ - k]
    BY <1>2, <2>1, <2>2 DEF Pre
  <2>4. \A t \in Tasks : word'[t].bits = word[t].bits
    BY <1>0, <2>3, SetCount
  <2>5. f \in Taking(u) \/ f \in Holdback(u)
    BY <2>1, <2>2 DEF Taking, Holdback
  <2>6. Waiting(u)
    BY <2>1, <2>5, Found
  <2>7. body' = body \/ body' = [body EXCEPT ![u] = "skipped"]
    BY <1>2, <2>1, <2>2 DEF Pre
  <2>8. \A t \in Tasks : Final(t) => body'[t] = body[t]
    BY <1>0, <2>6, <2>7 DEF Final, Waiting
  <2> QED
    BY <2>4, <2>8 DEF Settling, Ruined, IsDone, Failed
<1> QED
  BY <1>1, <1>2

LEMMA SettlingBodies ==
  ASSUME Core, NEW t \in Tasks,
         Start(t) \/ ReturnValue(t) \/ Throw(t) \/ Emplace(t) \/ Attach(t) \/ Look(t) \/ Resume(t) \/ Run(t)
  PROVE  Settling
<1>0. DOMAIN body = Tasks /\ UNCHANGED cancelled
  BY DEF Core, Inv, Types, Start, ReturnValue, Throw, Emplace, Attach, Look, Resume, Run
<1>1. ~Final(t)
  <2>1. CASE \E o \in Bottom : At(t, o)
    BY <2>1, Own
  <2>2. CASE Run(t)
    BY <2>2 DEF Run, Final
  <2> QED
    BY <2>1, <2>2 DEF Start, ReturnValue, Throw, Emplace, Attach, Look, Resume, Bottom
<1>2. \A u \in Tasks : u # t => body'[u] = body[u]
  <2>1. body' = body \/ \E v : body' = [body EXCEPT ![t] = v]
    BY DEF Start, ReturnValue, Throw, Emplace, Attach, Look, Resume, Run
  <2> QED
    BY <1>0, <2>1
<1>3. ASSUME NEW u \in Tasks, IsDone(u)
      PROVE  head'[u] = head[u] /\ word'[u] = word[u]
  <2>1. CASE Run(t) \/ Emplace(t) \/ Attach(t)
    BY <1>3, <2>1, DoneWords
  <2>2. CASE Start(t) \/ ReturnValue(t) \/ Throw(t) \/ Look(t) \/ Resume(t)
    BY <2>2 DEF Start, ReturnValue, Throw, Look, Resume
  <2> QED
    BY <2>1, <2>2
<1>4. \A u \in Tasks : Ruined(u) => Ruined(u)'
  BY <1>3 DEF Ruined, IsDone, Failed
<1> QED
  BY <1>0, <1>1, <1>2, <1>4 DEF Settling

LEMMA SettlingNext ==
  ASSUME Core, [Next]_vars
  PROVE  Settling
<1>1. CASE UNCHANGED vars
  BY <1>1 DEF vars, Settling, Ruined, IsDone, Failed
<1>2. ASSUME NEW x \in Threads, Step(x)
      PROVE  Settling
  <2>1. CASE AddSignal(x) \/ Link(x) \/ Exchange(x)
    <3>1. UNCHANGED <<body, cancelled>>
      BY <2>1 DEF AddSignal, Link, Exchange
    <3>2. \A t \in Tasks : IsDone(t) => head'[t] = head[t] /\ word'[t] = word[t]
      BY <2>1, DoneLists
    <3> QED
      BY <3>1, <3>2 DEF Settling, Ruined, IsDone, Failed
  <2>2. CASE SetBit(x) \/ Pre(x)
    <3>1. UNCHANGED <<head, cancelled>>
      BY <2>2 DEF SetBit, Pre
    <3> QED
      BY SMTT(30), <2>2, <3>1, SettlingBits
  <2>3. CASE MarkFailure(x) \/ PublishFailureFrom(x) \/ DropSignal(x) \/ Late(x) \/ Publish(x)
    BY <2>3 DEF MarkFailure, PublishFailureFrom, DropSignal, Late, Publish, Settling, Ruined, IsDone, Failed
  <2>4. CASE Return(x) \/ NotifyArc(x) \/ Wakeup(x) \/ Wait(x) \/ Block(x) \/ Status(x)
    BY <2>4 DEF Return, NotifyArc, Wakeup, Wait, Block, Status, Settling, Ruined, IsDone, Failed
  <2> QED
    BY <1>2, <2>1, <2>2, <2>3, <2>4 DEF Step
<1>3. ASSUME NEW x \in Users, Call(x)
      PROVE  Settling
  BY <1>3 DEF Call, Cancel, WaitFor, Settling, Ruined, IsDone, Failed
<1>4. ASSUME NEW u \in Tasks, Execute(u)
      PROVE  Settling
  BY <1>4, SettlingBodies DEF Execute
<1>5. ASSUME NEW u \in Tasks, Run(u)
      PROVE  Settling
  BY <1>5, SettlingBodies
<1> QED
  BY <1>1, <1>2, <1>3, <1>4, <1>5 DEF Next, Rest

(* What is so stays so. *)
LEMMA SoundStays ==
  ASSUME Inv, UNCHANGED prog, Settling, NEW t \in Tasks, NEW s, Sound(t, s)
  PROVE  Sound(t, s)'
<1>1. Sources(t) \subseteq Tasks /\ Upstream(t) \subseteq Tasks
      /\ Sources(t)' = Sources(t) /\ Upstream(t)' = Upstream(t)
  BY SourcesTasks, SameSources
<1>2. s = <<"ready">> /\ body[t] = "value" => body'[t] = "value"
  BY DEF Settling, Final
<1>3. Revoked(t) => Revoked(t)'
  BY <1>1 DEF Revoked, Settling
<1>4. /\ Hindered(t) => Hindered(t)'
      /\ body[t] = "skipped" => body'[t] = "skipped"
  BY <1>1 DEF Hindered, Settling, Final
<1>5. \A c \in Throwers(t) : c \in Throwers(t)'
  BY <1>1 DEF Throwers, Settling, Final
<1> QED
  BY <1>2, <1>3, <1>4, <1>5 DEF Sound

(* The bits of a task that is done say what came of it, and why. *)
LEMMA StatusTrue ==
  ASSUME Core, Outcomes, Grounds, NEW t \in Tasks, IsDone(t)
  PROVE  Sound(t, StatusOf(t))
<1>1. Grounded(t) /\ Blamed(t) /\ Counted(t) /\ word \in [Tasks -> Word] /\ body[t] \in {"value", "threw", "skipped"}
  BY DEF Grounds, Outcomes, Outcome, Core, Inv, Types, Counted, Final
<1>2. CASE ~Failed(t)
  BY <1>1, <1>2 DEF StatusOf, Sound, Blamed
<1>3. CASE Has(t, "exception")
  <2>1. LocalControl(t) # {} /\ LocalControl(t) \subseteq Throwers(t)
    BY <1>1, <1>3 DEF Grounded
  <2>2. TheControl(t) \in Throwers(t)
    BY <2>1 DEF TheControl
  <2>3. StatusOf(t) = <<"exception", TheControl(t)>>
    BY <1>3, <2>1 DEF StatusOf, Failed, Has
  <2> QED
    BY <2>2, <2>3 DEF Sound
<1>4. CASE ~Has(t, "exception") /\ Has(t, "user")
  <2>1. StatusOf(t) = <<"user_cancelled">>
    BY <1>4 DEF StatusOf, Failed, Has
  <2> QED
    BY <1>1, <1>4, <2>1 DEF Sound, Grounded
<1>5. CASE Failed(t) /\ ~Has(t, "exception") /\ ~Has(t, "user")
  <2>1. Has(t, "dependency")
    <3>1. word[t].bits \subseteq Bits
      BY <1>1 DEF Word
    <3> QED
      BY <1>5, <3>1 DEF Failed, Has, Bits
  <2>2. body[t] # "threw"
    BY <1>1, <1>5, MarkedInTime DEF Grounded
  <2>3. body[t] # "value" /\ Hindered(t)
    BY <1>1, <2>1 DEF Grounded
  <2>4. StatusOf(t) = <<"dependency_cancelled">>
    BY <1>5 DEF StatusOf
  <2> QED
    BY <1>1, <2>2, <2>3, <2>4 DEF Sound
<1> QED
  BY <1>2, <1>3, <1>4, <1>5

LEMMA HeardNext ==
  ASSUME Core, Outcomes, Grounds, Heard, [Next]_vars
  PROVE  Heard'
<1>1. UNCHANGED prog /\ Settling /\ Inv
  BY SettlingNext DEF Next, Rest, vars, Core
<1>2. ASSUME UNCHANGED told
      PROVE  Heard'
  BY <1>1, <1>2, SoundStays DEF Heard
<1>3. ASSUME NEW x \in Threads, Status(x)
      PROVE  Heard'
  <2>1. PICK f : f = Cur(x) /\ f.op = "status" /\ f \in Frame /\ todo[x][1] = f /\ Given(todo[x], 1)
                 /\ \A O : ~Follows(todo[x], 1, O)
    BY <1>3, FirstGiven DEF Status
  <2>2. PICK u \in Tasks : u = f.node
    BY <2>1, Says DEF Simple
  <2>3. IsDone(u)
    BY <2>1, <2>2 DEF Given
  <2>4. told' = [told EXCEPT ![u] = @ \cup {StatusOf(u)}]
    BY <1>3, <2>1, <2>2 DEF Status
  <2>5. Sound(u, StatusOf(u))
    BY <2>3, StatusTrue
  <2>6. DOMAIN told' = Tasks
    BY <2>4 DEF Heard
  <2>7. ASSUME NEW t \in Tasks, NEW s \in told'[t]
        PROVE  Sound(t, s)
    BY <2>4, <2>5, <2>7 DEF Heard
  <2> QED
    BY <1>1, <2>6, <2>7, SoundStays DEF Heard
<1>4. UNCHANGED told \/ \E x \in Threads : Status(x)
  <2>1. ASSUME NEW u \in Tasks, Execute(u) \/ Run(u)
        PROVE  UNCHANGED told
    BY <2>1 DEF Execute, Start, ReturnValue, Throw, Emplace, Attach, Look, Resume, Run
  <2>2. ASSUME NEW x \in Users, Call(x)
        PROVE  UNCHANGED told
    BY <2>2 DEF Call, Cancel, WaitFor
  <2>3. ASSUME NEW x \in Threads, Step(x)
        PROVE  UNCHANGED told \/ Status(x)
    BY <2>3 DEF Step, MarkFailure, SetBit, PublishFailureFrom, AddSignal, DropSignal, Link, Late,
       Publish, Return, Pre, Exchange, NotifyArc, Wakeup, Wait, Block
  <2> QED
    BY <2>1, <2>2, <2>3 DEF Next, Rest, vars
<1> QED
  BY <1>2, <1>3, <1>4

(* In any program what a wait tells is true: that a value is there, who threw the exception
   it gives, and that there was a cancel, or a failure, to be cancelled by. *)
THEOREM StatusTold == Spec => []StatusSound
<1> DEFINE All == Core /\ Outcomes /\ Grounds /\ Heard /\ woken \in [Tasks -> BOOLEAN]
<1>1. All => StatusSound
  <2>1. SUFFICES ASSUME All, NEW t \in Tasks, NEW s \in told[t]
                 PROVE  CASE s = <<"ready">> -> body[t] = "value"
                          [] s = <<"user_cancelled">> -> Upstream(t) \cap cancelled # {}
                          [] s = <<"dependency_cancelled">> ->
                               body[t] = "skipped" /\ \E u \in Sources(t) : body[u] # "value" \/ Failed(u)
                          [] OTHER -> body[s[2]] = "threw" /\ s[2] \in Upstream(t)
    BY DEF StatusSound
  <2>2. Sound(t, s)
    BY <2>1 DEF Heard
  <2>3. CASE s = <<"ready">> /\ body[t] = "value"
    BY <2>3
  <2>4. CASE s = <<"user_cancelled">> /\ Revoked(t)
    <3>1. s # <<"ready">>
      BY <2>4
    <3> QED
      BY <2>4, <3>1 DEF Revoked
  <2>5. CASE s = <<"dependency_cancelled">> /\ body[t] = "skipped" /\ Hindered(t)
    <3>1. s # <<"ready">> /\ s # <<"user_cancelled">>
      BY <2>5
    <3> QED
      BY <2>5, <3>1 DEF Hindered, Ruined
  <2>6. CASE \E c \in Throwers(t) : s = <<"exception", c>>
    <3>1. PICK c \in Throwers(t) : s = <<"exception", c>>
      BY <2>6
    <3>2. s # <<"ready">> /\ s # <<"user_cancelled">> /\ s # <<"dependency_cancelled">> /\ s[2] = c
      BY <3>1
    <3> QED
      BY <3>1, <3>2 DEF Throwers
  <2> QED
    BY <2>2, <2>3, <2>4, <2>5, <2>6 DEF Sound
<1>2. Init => All
  <2>1. Init => woken \in [Tasks -> BOOLEAN] /\ Heard
    BY DEF Init, Heard
  <2> QED
    BY <2>1, InitCore, InitOutcomes, InitGrounds
<1>3. All /\ [Next]_vars => All'
  BY CoreNext, OutcomesNext, GroundsNext, WokenNext, HeardNext
<1> QED
  BY <1>1, <1>2, <1>3, PTL DEF Spec

(***************************************************************************)
(* How an exception gets through                                           *)
(***************************************************************************)

(* t is about to be marked with an exception, or to take over that of a task; or it is
   marked. *)
Alarms(f, t) == \/ Marks(f, t)
                \/ f.op = "failure" /\ f.node = t /\ f.port = 0 /\ Has(f.from, "exception")
Alarmed(t) == Has(t, "exception") \/ \E x \in Threads : \E i \in DOMAIN todo[x] : Alarms(todo[x][i], t)

(* What u came to is on its way to t, as its result; or u has no exception. *)
Bears(f, t, u) == Brings(f, t, u) /\ f.port = 0
Borne(t, u)    == \E x \in Threads : \E i \in DOMAIN todo[x] : Bears(todo[x][i], t, u)
Listed(t, u)   == \E i \in DOMAIN head[u].arcs : head[u].arcs[i] = Flow(t, 0)
Clear(u)       == body[u] = "value" \/ (IsDone(u) /\ ~Has(u, "exception"))

Known(t, u) == Alarmed(t) \/ Clear(u) \/ Borne(t, u) \/ Listed(t, u)

(* A task that has not run its body, or whose result is another's, is to hear of the
   exceptions of what it depends on; what its functor would launch is not there before. *)
Knows(t) ==
  /\ body[t] \in {"pending", "skipped"} => \A u \in Results(t) : Known(t, u)
  /\ body[t] = "forwarding" => \A u \in Forwarded(t) : Known(t, u)
  /\ body[t] = "skipped" => \A u \in Forwarded(t) : body[u] = "idle" \/ Known(t, u)
  /\ body[t] \in {"idle", "pending"} => \A u \in Forwarded(t) : body[u] = "idle"

Knowing == \A t \in Tasks : Knows(t)

(* An exception is not taken back, and none comes late. *)
Steadfast ==
  \A t \in Tasks : /\ Has(t, "exception") => Has(t, "exception")'
                   /\ Clear(t) => Clear(t)'

(* What x was about to tell of exceptions is told, or is what it goes on with. *)
Passes(x) ==
  todo[x] # <<>> =>
    \A t \in Tasks : /\ Alarms(Cur(x), t) => Alarmed(t)'
                     /\ \A u \in Tasks : Bears(Cur(x), t, u) => Known(t, u)'

(* All but the frame x has run is still there. *)
Stays(x) ==
  \A y \in Threads : \A j \in DOMAIN todo[y] :
    (y = x /\ j = 1) \/ \E i \in DOMAIN todo'[y] : todo'[y][i] = todo[y][j]

LEMMA StaysMoved ==
  ASSUME NEW x, NEW fs, Moved(x, fs)
  PROVE  Stays(x)
  BY DEF Stays, Moved, Same

LEMMA PassesOther ==
  ASSUME NEW x, todo[x] # <<>> => Cur(x).op \notin {"mark", "set", "failure", "link", "late", "notify"}
  PROVE  Passes(x)
  BY DEF Passes, Alarms, Marks, Bears, Brings

LEMMA NowAlarmed ==
  ASSUME NEW x \in Threads, NEW fs, Moved(x, fs), NEW k \in DOMAIN fs, NEW t, Alarms(fs[k], t)'
  PROVE  Alarmed(t)'
<1>1. PICK i \in DOMAIN todo'[x] : todo'[x][i] = fs[k]
  BY DEF Moved, Put
<1> QED
  BY <1>1 DEF Alarmed, Alarms, Has, Marks

LEMMA NowBorne ==
  ASSUME NEW x \in Threads, NEW fs, Moved(x, fs), NEW k \in DOMAIN fs, NEW t, NEW u, Bears(fs[k], t, u)
  PROVE  Known(t, u)'
<1>1. PICK i \in DOMAIN todo'[x] : todo'[x][i] = fs[k]
  BY DEF Moved, Put
<1> QED
  BY <1>1 DEF Known, Borne, Bears, Brings

LEMMA AlarmedKept ==
  ASSUME Core, NEW x \in Threads, Stays(x), Passes(x), Steadfast, NEW t \in Tasks, Alarmed(t)
  PROVE  Alarmed(t)'
<1>1. CASE Has(t, "exception")
  BY <1>1 DEF Steadfast, Alarmed
<1>2. CASE \E y \in Threads : \E i \in DOMAIN todo[y] : Alarms(todo[y][i], t)
  <2>1. PICK y \in Threads : \E i \in DOMAIN todo[y] : Alarms(todo[y][i], t)
    BY <1>2
  <2>2. PICK i \in DOMAIN todo[y] : Alarms(todo[y][i], t)
    BY <2>1
  <2>3. CASE y = x /\ i = 1
    <3>1. todo[x] # <<>> /\ todo[x][1] = Cur(x)
      BY <2>2, <2>3, Families DEF Cur, Core
    <3> QED
      BY <2>2, <2>3, <3>1 DEF Passes
  <2>4. CASE ~(y = x /\ i = 1)
    <3>1. PICK j \in DOMAIN todo'[y] : todo'[y][j] = todo[y][i]
      BY <2>4 DEF Stays
    <3>2. PICK f \in Frame : f = todo[y][i]
      BY Families, Element DEF Core
    <3>3. f.op = "failure" => f.from \in Tasks
      BY Says
    <3>4. f.op = "failure" /\ Has(f.from, "exception") => Has(f.from, "exception")'
      BY <3>3 DEF Steadfast
    <3>5. Alarms(f, t)'
      BY <2>2, <3>2, <3>4 DEF Alarms, Marks
    <3> QED
      BY <3>1, <3>2, <3>5 DEF Alarmed, Alarms, Has, Marks
  <2> QED
    BY <2>3, <2>4
<1> QED
  BY <1>1, <1>2 DEF Alarmed

LEMMA KnownKept ==
  ASSUME Core, NEW x \in Threads, Stays(x), Passes(x), Steadfast, NEW t \in Tasks, NEW u \in Tasks,
         Listed(t, u) => Known(t, u)', Known(t, u)
  PROVE  Known(t, u)'
<1>1. CASE Alarmed(t)
  BY <1>1, AlarmedKept DEF Known
<1>2. CASE Clear(u)
  BY <1>2 DEF Steadfast, Known
<1>3. CASE Borne(t, u)
  <2>1. PICK y \in Threads : \E i \in DOMAIN todo[y] : Bears(todo[y][i], t, u)
    BY <1>3 DEF Borne
  <2>2. PICK i \in DOMAIN todo[y] : Bears(todo[y][i], t, u)
    BY <2>1
  <2>3. CASE y = x /\ i = 1
    <3>1. todo[x] # <<>> /\ todo[x][1] = Cur(x)
      BY <2>2, <2>3, Families DEF Cur, Core
    <3> QED
      BY <2>2, <2>3, <3>1 DEF Passes
  <2>4. CASE ~(y = x /\ i = 1)
    <3>1. PICK j \in DOMAIN todo'[y] : todo'[y][j] = todo[y][i]
      BY <2>4 DEF Stays
    <3> QED
      BY <2>2, <3>1 DEF Known, Borne, Bears, Brings
  <2> QED
    BY <2>3, <2>4
<1> QED
  BY <1>1, <1>2, <1>3 DEF Known

(* The tasks that t knows of. *)
LEMMA ResultsOf ==
  ASSUME Inv, NEW t \in Tasks
  PROVE  /\ Results(t) \subseteq Producers(t) /\ Results(t) \subseteq Tasks /\ Forwarded(t) \subseteq Tasks
         /\ UNCHANGED prog => Results(t)' = Results(t) /\ Forwarded(t)' = Forwarded(t)
<1>1. Results(t) \subseteq Producers(t)
  BY DEF Results, Producers
<1>2. UNCHANGED prog => Results(t)' = Results(t) /\ Forwarded(t)' = Forwarded(t)
  BY DEF Results, Forwarded, Inputs, Returns
<1> QED
  BY <1>1, <1>2, Related

(* Where a body may go without anything to be known of it, or by being skipped... *)
Turns(t) ==
  \/ body'[t] = body[t]
  \/ Waiting(t) /\ body'[t] = "skipped"
  \/ body'[t] \in {"running", "attached", "value", "threw"}
  \/ Knows(t)'

(* ... and a task is only launched by its maker. *)
Launched ==
  \A u \in Tasks : body[u] = "idle" =>
    body'[u] = "idle" \/ \A t \in Tasks : u \in Forwarded(t) => body[t] \notin {"idle", "pending", "skipped"}

LEMMA KnowingKept ==
  ASSUME Core, Outcomes, Knowing, UNCHANGED prog, NEW x \in Threads, Stays(x), Passes(x), Steadfast,
         \A t, u \in Tasks : Listed(t, u) => Known(t, u)',
         Launched, \A t \in Tasks : Turns(t)
  PROVE  Knowing'
<1>1. SUFFICES ASSUME NEW t \in Tasks, ~Knows(t)'
               PROVE  FALSE
  BY DEF Knowing
<1>2. /\ Results(t) \subseteq Producers(t) /\ Results(t) \subseteq Tasks /\ Forwarded(t) \subseteq Tasks
      /\ Results(t)' = Results(t) /\ Forwarded(t)' = Forwarded(t) /\ Knows(t) /\ Supplied(t)
  BY ResultsOf DEF Core, Knowing, Outcomes, Outcome
<1>3. \A u \in Tasks : Known(t, u) => Known(t, u)'
  BY KnownKept
<1>4. CASE body'[t] = body[t]
  <2>1. body'[t] \in {"pending", "skipped"} => \A u \in Results(t)' : Known(t, u)'
    BY <1>2, <1>3, <1>4 DEF Knows
  <2>2. body'[t] = "forwarding" => \A u \in Forwarded(t)' : Known(t, u)'
    BY <1>2, <1>3, <1>4 DEF Knows
  <2>3. body'[t] = "skipped" => \A u \in Forwarded(t)' : body'[u] = "idle" \/ Known(t, u)'
    BY <1>2, <1>3, <1>4 DEF Knows, Launched
  <2>4. body'[t] \in {"idle", "pending"} => \A u \in Forwarded(t)' : body'[u] = "idle"
    BY <1>2, <1>4 DEF Knows, Launched
  <2> QED
    BY <1>1, <2>1, <2>2, <2>3, <2>4 DEF Knows
<1>5. CASE body[t] = "pending" /\ body'[t] = "skipped"
  <2>1. \A u \in Results(t)' : Known(t, u)'
    BY <1>2, <1>3, <1>5 DEF Knows
  <2>2. \A u \in Forwarded(t)' : body'[u] = "idle"
    BY <1>2, <1>5 DEF Knows, Launched
  <2> QED
    BY <1>1, <1>5, <2>1, <2>2 DEF Knows
<1>6. CASE body[t] = "forwarding" /\ body'[t] = "skipped"
  <2>1. \A u \in Results(t)' : Known(t, u)'
    <3>1. \A u \in Results(t) : Clear(u)
      BY <1>2, <1>6 DEF Supplied, Clear
    <3> QED
      BY <1>2, <3>1 DEF Steadfast, Known
  <2>2. \A u \in Forwarded(t)' : Known(t, u)'
    BY <1>2, <1>3, <1>6 DEF Knows
  <2> QED
    BY <1>1, <1>6, <2>1, <2>2 DEF Knows
<1>7. CASE body'[t] \in {"running", "attached", "value", "threw"}
  BY <1>1, <1>7 DEF Knows
<1> QED
  BY <1>1, <1>4, <1>5, <1>6, <1>7 DEF Turns, Waiting

(***************************************************************************)
(* What no step undoes                                                     *)
(***************************************************************************)
LEMMA SteadfastBits ==
  ASSUME Core, Outcomes, NEW x \in Threads, SetBit(x)
  PROVE  Steadfast
<1>0. word \in [Tasks -> Word] /\ UNCHANGED <<head, body>>
  BY DEF SetBit, Core, Inv, Types
<1>1. PICK f : f = Cur(x) /\ f.op = "set" /\ f \in Frame /\ 1 \in DOMAIN todo[x] /\ todo[x][1] = f
  BY First DEF SetBit
<1>2. PICK u \in Tasks, b \in Bits : u = f.node /\ b = f.bit
  BY <1>1, Says
<1>3. word' = word \/ word' = [word EXCEPT ![u].bits = @ \cup {b}]
  BY <1>1, <1>2 DEF SetBit
<1>4. \A t \in Tasks : word'[t].bits = word[t].bits \/ (t = u /\ word'[t].bits = word[t].bits \cup {b})
  BY <1>0, <1>3 DEF Word
<1>5. b = "exception" => ~IsDone(u)
  <2>1. b = "exception" => Marking(u)
    BY <1>1, <1>2 DEF Marking, Marks
  <2> QED
    BY <2>1, MarkedInTime
<1>6. \A t \in Tasks : IsDone(t)' <=> IsDone(t)
  BY <1>0 DEF IsDone
<1>7. ASSUME NEW t \in Tasks
      PROVE  /\ Has(t, "exception") => Has(t, "exception")'
             /\ IsDone(t) /\ ~Has(t, "exception") => ~Has(t, "exception")'
  BY <1>4, <1>5, <1>7 DEF Has
<1> QED
  BY <1>0, <1>6, <1>7 DEF Steadfast, Clear

LEMMA SteadfastDone ==
  ASSUME Core, NEW x \in Threads, Settling, UNCHANGED word,
         \A t \in Tasks : IsDone(t) => head'[t] = head[t]
  PROVE  Steadfast
<1>1. \A t \in Tasks : Has(t, "exception")' <=> Has(t, "exception")
  BY DEF Has
<1>2. \A t \in Tasks : IsDone(t) => IsDone(t)'
  BY DEF IsDone
<1>3. \A t \in Tasks : body[t] = "value" => body'[t] = "value"
  BY DEF Settling, Final
<1> QED
  BY <1>1, <1>2, <1>3 DEF Steadfast, Clear

(* A word is only written anew before or while the body runs, without an exception. *)
LEMMA SteadfastWords ==
  ASSUME Core, Grounds, Settling, NEW u \in Tasks, Run(u) \/ Emplace(u)
  PROVE  Steadfast
<1>1. body[u] \in {"idle", "running"}
  <2>1. CASE Emplace(u)
    <3>1. At(u, "functor") /\ "functor" \in Bottom
      BY <2>1 DEF Emplace, Bottom
    <3>2. u \in Threads /\ Cur(u).node = u
      BY <3>1, Own
    <3>3. Fits(Cur(u)) /\ Cur(u).op = "functor"
      BY <3>1, <3>2, First
    <3> QED
      BY <3>2, <3>3 DEF Fits
  <2> QED
    BY <2>1 DEF Run
<1>2. ~Has(u, "exception") /\ ~IsDone(u)
  <2>1. Grounded(u)
    BY DEF Grounds
  <2> QED
    BY <1>1, <2>1 DEF Grounded, Core, Counted, Final
<1>3. /\ \A t \in Tasks : t # u => word'[t] = word[t]
      /\ \A t \in Tasks : IsDone(t)' <=> IsDone(t)
  BY DEF Run, Emplace, Core, Inv, Types, IsDone
<1>4. \A t \in Tasks : body[t] = "value" => body'[t] = "value"
  BY DEF Settling, Final
<1>5. \A t \in Tasks : t # u => (Has(t, "exception")' <=> Has(t, "exception"))
  BY <1>3 DEF Has
<1> QED
  BY <1>2, <1>3, <1>4, <1>5 DEF Steadfast, Clear

LEMMA SteadfastPre ==
  ASSUME Core, Settling, NEW x \in Threads, Pre(x)
  PROVE  Steadfast
<1>1. PICK f : f = Cur(x) /\ f \in Frame /\ f.op = "pre"
  BY First DEF Pre
<1>2. PICK u \in Tasks, k \in Int : f.node = u /\ f.k = k
  BY <1>1, Says
<1>3. word' = [word EXCEPT ![u].count = @ - k] /\ UNCHANGED head
  BY <1>1, <1>2 DEF Pre
<1>4. \A t \in Tasks : word'[t].bits = word[t].bits
  BY <1>3, SetCount DEF Core, Inv, Types
<1>5. \A t \in Tasks : /\ Has(t, "exception")' <=> Has(t, "exception")
                       /\ IsDone(t)' <=> IsDone(t)
  BY <1>3, <1>4 DEF Has, IsDone
<1>6. \A t \in Tasks : body[t] = "value" => body'[t] = "value"
  BY DEF Settling, Final
<1> QED
  BY <1>5, <1>6 DEF Steadfast, Clear

LEMMA SteadfastNext ==
  ASSUME Core, Outcomes, Grounds, [Next]_vars
  PROVE  Steadfast
<1>0. Settling
  BY SettlingNext
<1>1. ASSUME UNCHANGED <<head, word>>
      PROVE  Steadfast
  BY <1>0, <1>1 DEF Steadfast, Clear, Has, IsDone, Settling, Final
<1>2. ASSUME NEW x \in Threads, Step(x)
      PROVE  Steadfast
  <2>1. CASE AddSignal(x) \/ Link(x) \/ Exchange(x)
    <3>1. UNCHANGED word
      BY <2>1 DEF AddSignal, Link, Exchange
    <3>2. \A t \in Tasks : IsDone(t) => head'[t] = head[t]
      BY <2>1, DoneLists
    <3> QED
      BY <1>0, <3>1, <3>2, SteadfastDone
  <2>2. CASE SetBit(x)
    BY <2>2, SteadfastBits
  <2>3. CASE Pre(x)
    BY <1>0, <2>3, SteadfastPre
  <2>4. CASE MarkFailure(x) \/ PublishFailureFrom(x) \/ DropSignal(x) \/ Late(x) \/ Publish(x)
    BY <1>1, <2>4 DEF MarkFailure, PublishFailureFrom, DropSignal, Late, Publish
  <2>5. CASE Return(x) \/ NotifyArc(x) \/ Wakeup(x) \/ Wait(x) \/ Block(x) \/ Status(x)
    BY <1>1, <2>5 DEF Return, NotifyArc, Wakeup, Wait, Block, Status
  <2> QED
    BY <1>2, <2>1, <2>2, <2>3, <2>4, <2>5 DEF Step
<1>3. ASSUME NEW u \in Tasks, Run(u) \/ Emplace(u)
      PROVE  Steadfast
  BY <1>0, <1>3, SteadfastWords
<1>4. ASSUME NEW u \in Tasks, Attach(u)
      PROVE  Steadfast
  <2>1. \A t \in Tasks : IsDone(t) => head'[t] = head[t]
    BY <1>4, DoneWords
  <2>2. u \in Threads /\ UNCHANGED word
    BY <1>4, Apart DEF Attach
  <2> QED
    BY <1>0, <2>1, <2>2, SteadfastDone
<1>5. ASSUME NEW u \in Tasks, Start(u) \/ ReturnValue(u) \/ Throw(u) \/ Look(u) \/ Resume(u)
      PROVE  Steadfast
  BY <1>1, <1>5 DEF Start, ReturnValue, Throw, Look, Resume
<1>6. ASSUME NEW x \in Users, Call(x)
      PROVE  Steadfast
  BY <1>1, <1>6 DEF Call, Cancel, WaitFor
<1>7. ASSUME NEW u \in Tasks, Execute(u)
      PROVE  Steadfast
  BY <1>3, <1>4, <1>5, <1>7 DEF Execute
<1> QED
  BY <1>1, <1>2, <1>3, <1>6, <1>7 DEF Next, Rest, vars

(***************************************************************************)
(* Who passes an exception on                                              *)
(***************************************************************************)
LEMMA KnowingQuiet ==
  ASSUME Core, Outcomes, Knowing, Steadfast, UNCHANGED <<prog, head, body>>,
         NEW x \in Threads, Stays(x), Passes(x)
  PROVE  Knowing'
<1>1. \A t, u \in Tasks : Listed(t, u) => Known(t, u)'
  BY DEF Listed, Known
<1>2. Launched /\ \A t \in Tasks : Turns(t)
  BY DEF Launched, Turns
<1> QED
  BY <1>1, <1>2, KnowingKept

LEMMA KnowingThen ==
  ASSUME Core, Outcomes, Knowing, Steadfast, UNCHANGED <<prog, head, body>>,
         NEW x \in Threads, todo[x] # <<>>, NEW fs \in Seq(Frame), Then(x, fs), Passes(x)
  PROVE  Knowing'
<1>1. Stays(x)
  BY MovedThen, StaysMoved DEF Core
<1> QED
  BY <1>1, KnowingQuiet

LEMMA PopKnowing ==
  ASSUME Core, Outcomes, Knowing, Steadfast, UNCHANGED prog, NEW x \in Threads,
         DropSignal(x) \/ Return(x) \/ Wakeup(x) \/ Block(x) \/ Status(x)
  PROVE  Knowing'
<1>1. PICK fs \in Seq(Frame) : fs = <<>>
  BY Short
<1>2. Then(x, fs) /\ UNCHANGED <<head, body>> /\ todo[x] # <<>>
      /\ Cur(x).op \in {"drop", "return", "wakeup", "block", "status"}
  BY <1>1 DEF DropSignal, Return, Wakeup, Block, Status, At, Cur
<1>3. Passes(x)
  BY <1>2, PassesOther
<1> QED
  BY <1>2, <1>3, KnowingThen

LEMMA WaitKnowing ==
  ASSUME Core, Outcomes, Knowing, Steadfast, Inv', UNCHANGED prog, NEW x \in Threads, Wait(x) \/ Publish(x)
  PROVE  Knowing'
<1>1. PICK g : Then(x, <<>>) \/ Then(x, <<g>>)
  BY DEF Wait, Publish
<1>2. PICK fs \in {<<>>, <<g>>} : Then(x, fs)
  BY <1>1
<1>3. UNCHANGED <<head, body>> /\ todo[x] # <<>> /\ Cur(x).op \in {"wait", "publish"}
  BY DEF Wait, Publish, At, Cur
<1>4. fs \in Seq({g})
  BY <1>2, Short
<1>5. fs \in Seq(Frame)
  BY <1>2, <1>3, <1>4, Made DEF Core
<1>6. Passes(x)
  BY <1>3, PassesOther
<1> QED
  BY <1>2, <1>3, <1>5, <1>6, KnowingThen

LEMMA MarkFailureKnowing ==
  ASSUME Core, Outcomes, Knowing, Steadfast, UNCHANGED prog, NEW x \in Threads, MarkFailure(x)
  PROVE  Knowing'
<1>1. PICK f \in Frame : f = Cur(x) /\ f.op = "mark" /\ todo[x] # <<>> /\ 1 \in DOMAIN todo[x]
                         /\ todo[x][1] = f
  BY First DEF MarkFailure
<1>2. PICK t \in Tasks, b \in Bits : f.node = t /\ f.bit = b
  BY <1>1, Says
<1>3. UNCHANGED <<head, body>>
  BY <1>1 DEF MarkFailure
<1>4. CASE IsDone(t)
  <2>1. PICK fs \in Seq(Frame) : fs = <<>>
    BY Short
  <2>2. Then(x, fs)
    BY <1>1, <1>2, <1>4, <2>1 DEF MarkFailure
  <2>3. ~Marks(f, t)
    BY <1>1, <1>4, MarkedInTime DEF Marking
  <2>4. Passes(x)
    BY <1>1, <1>2, <2>3 DEF Passes, Alarms, Marks, Bears, Brings
  <2> QED
    BY <1>1, <1>3, <2>2, <2>4, KnowingThen
<1>5. CASE ~IsDone(t)
  <2>1. PICK g : g = [op |-> "set", node |-> t, bit |-> b, word |-> word[t]]
    OBVIOUS
  <2>2. g.op = "set" /\ g.node = t /\ g.bit = b /\ g \in Frame
    <3>1. word[t] \in Word
      BY DEF Core, Inv, Types
    <3> QED
      BY <2>1, <3>1 DEF Frame
  <2>3. PICK fs \in Seq(Frame) : fs = <<g>> /\ DOMAIN fs = {1} /\ fs[1] = g
    BY <2>2, Short, OneFrame
  <2>4. Then(x, fs)
    BY <1>1, <1>2, <1>5, <2>1, <2>3 DEF MarkFailure
  <2>5. Moved(x, fs)
    BY <1>1, <2>4, MovedThen DEF Core
  <2>6. Marks(f, t) => Alarms(fs[1], t)'
    BY <1>1, <1>2, <2>2, <2>3 DEF Alarms, Marks
  <2>7. Marks(f, t) => Alarmed(t)'
    BY <2>3, <2>5, <2>6, NowAlarmed
  <2>8. Passes(x)
    BY <1>1, <1>2, <2>7 DEF Passes, Alarms, Marks, Bears, Brings
  <2> QED
    BY <1>1, <1>3, <2>4, <2>8, KnowingThen
<1> QED
  BY <1>4, <1>5

LEMMA SetBitKnowing ==
  ASSUME Core, Outcomes, Knowing, Steadfast, UNCHANGED prog, NEW x \in Threads, SetBit(x)
  PROVE  Knowing'
<1>1. PICK f \in Frame : f = Cur(x) /\ f.op = "set" /\ todo[x] # <<>> /\ 1 \in DOMAIN todo[x]
                         /\ todo[x][1] = f
  BY First DEF SetBit
<1>2. PICK t \in Tasks, b \in Bits : f.node = t /\ f.bit = b
  BY <1>1, Says
<1>3. UNCHANGED <<head, body>> /\ word \in [Tasks -> Word]
  BY <1>1 DEF SetBit, Core, Inv, Types
<1>4. CASE word[t] = f.word
  <2>1. PICK fs \in Seq(Frame) : fs = <<>>
    BY Short
  <2>2. Then(x, fs) /\ word' = [word EXCEPT ![t].bits = @ \cup {b}]
    BY <1>1, <1>2, <1>4, <2>1 DEF SetBit
  <2>3. word'[t].bits = word[t].bits \cup {b}
    BY <1>2, <1>3, <2>2 DEF Word
  <2>4. b = "exception" => Alarmed(t)'
    BY <2>3 DEF Alarmed, Has
  <2>5. Passes(x)
    BY <1>1, <1>2, <2>4 DEF Passes, Alarms, Marks, Bears, Brings
  <2> QED
    BY <1>1, <1>3, <2>2, <2>5, KnowingThen
<1>5. CASE word[t] # f.word
  <2>1. PICK g : g = Mark(t, b)
    OBVIOUS
  <2>2. g.op = "mark" /\ g.node = t /\ g.bit = b /\ g \in Frame
    BY <2>1 DEF Mark, Frame
  <2>3. PICK fs \in Seq(Frame) : fs = <<g>> /\ DOMAIN fs = {1} /\ fs[1] = g
    BY <2>2, Short, OneFrame
  <2>4. Then(x, fs)
    BY <1>1, <1>2, <1>5, <2>1, <2>3 DEF SetBit, Retry
  <2>5. Moved(x, fs)
    BY <1>1, <2>4, MovedThen DEF Core
  <2>6. Marks(f, t) => Alarms(fs[1], t)'
    BY <1>1, <1>2, <2>2, <2>3 DEF Alarms, Marks
  <2>7. Marks(f, t) => Alarmed(t)'
    BY <2>3, <2>5, <2>6, NowAlarmed
  <2>8. Passes(x)
    BY <1>1, <1>2, <2>7 DEF Passes, Alarms, Marks, Bears, Brings
  <2> QED
    BY <1>1, <1>3, <2>4, <2>8, KnowingThen
<1> QED
  BY <1>4, <1>5

(* The result of a task with an exception gives it on. *)
LEMMA PublishFailureKnowing ==
  ASSUME Core, Outcomes, Grounds, Knowing, Steadfast, Inv', UNCHANGED prog, NEW x \in Threads, PublishFailureFrom(x)
  PROVE  Knowing'
<1>1. PICK f \in Frame : f = Cur(x) /\ f.op = "failure" /\ todo[x] # <<>> /\ 1 \in DOMAIN todo[x]
                         /\ todo[x][1] = f
  BY First DEF PublishFailureFrom
<1>2. PICK t \in Tasks, u \in Tasks, p \in Nat : f.node = t /\ f.from = u /\ f.port = p
  BY <1>1, Says
<1>3. PICK r : r = From(t, u, p)
  OBVIOUS
<1>4. Then(x, r) /\ UNCHANGED <<head, body>>
  BY <1>1, <1>2, <1>3 DEF PublishFailureFrom
<1>5. r \in Seq(Frame)
  <2>1. r \in Seq(Fit)
    BY <1>3, FromFits DEF Core, Inv
  <2> QED
    BY <2>1, Grows DEF Fit
<1>6. Moved(x, r)
  BY <1>1, <1>4, <1>5, MovedThen DEF Core
<1>7. ASSUME p = 0, Has(u, "exception")
      PROVE  Alarmed(t)'
  <2>1. LocalControl(u) # {}
    BY <1>7 DEF Grounds, Grounded
  <2>2. PICK g : g = Mark(t, "exception")
    OBVIOUS
  <2>3. PICK h : h = Carry(t, TheControl(u))
    OBVIOUS
  <2>4. r = <<h, g>>
    BY <1>3, <1>7, <2>1, <2>2, <2>3 DEF From
  <2>5. 2 \in DOMAIN r /\ r[2] = g
    BY <2>4, TwoFrames
  <2>6. Alarms(g, t)'
    BY <2>2 DEF Alarms, Marks, Mark
  <2>7. Alarms(r[2], t)'
    BY <2>5, <2>6 DEF Alarms, Marks, Has
  <2> QED
    BY <1>6, <2>5, <2>7, NowAlarmed
<1>8. Passes(x)
  BY <1>1, <1>2, <1>7 DEF Passes, Alarms, Marks, Bears, Brings
<1> QED
  BY <1>1, <1>4, <1>5, <1>8, KnowingThen

(* A late consumer, and one that is notified, takes over what its producer came to. *)
LEMMA LateKnowing ==
  ASSUME Core, Outcomes, Knowing, Steadfast, UNCHANGED prog, NEW x \in Threads, Late(x)
  PROVE  Knowing'
<1>1. PICK f \in Frame : f = Cur(x) /\ f.op = "late" /\ todo[x] # <<>> /\ 1 \in DOMAIN todo[x]
                         /\ todo[x][1] = f
  BY First DEF Late
<1>2. PICK t \in Tasks, u \in Tasks, p \in Nat : f.node = t /\ f.from = u /\ f.port = p
  BY <1>1, Says
<1>3. UNCHANGED <<head, body, word>>
  BY <1>1 DEF Late
<1>4. IsDone(u)
  <2>1. Tells(f)
    BY <1>1 DEF Outcomes
  <2> QED
    BY <1>1, <1>2, <2>1 DEF Tells
<1>5. ~Has(u, "exception") => Known(t, u)'
  BY <1>3, <1>4 DEF Known, Clear, Has, IsDone
<1>6. CASE Failed(u)
  <2>1. PICK g : g = [f EXCEPT !.op = "failure"]
    OBVIOUS
  <2>2. g \in Frame /\ g.op = "failure" /\ g.node = t /\ g.from = u /\ g.port = p
    <3>1. f \in [op : {"link", "late", "failure"}, node : Tasks, from : Tasks, port : Nat]
      BY <1>1 DEF Frame
    <3> QED
      BY <1>2, <2>1, <3>1 DEF Frame
  <2>3. PICK fs \in Seq(Frame) : fs = <<g>> /\ DOMAIN fs = {1} /\ fs[1] = g
    BY <2>2, Short, OneFrame
  <2>4. Then(x, fs)
    BY <1>1, <1>2, <1>6, <2>1, <2>3 DEF Late, LateFailure
  <2>5. Moved(x, fs)
    BY <1>1, <2>4, MovedThen DEF Core
  <2>6. p = 0 /\ Has(u, "exception") => Alarms(fs[1], t)'
    BY <1>3, <2>2, <2>3 DEF Alarms, Has
  <2>7. p = 0 /\ Has(u, "exception") => Known(t, u)'
    BY <2>3, <2>5, <2>6, NowAlarmed DEF Known
  <2>8. Passes(x)
    BY <1>1, <1>2, <1>5, <2>7 DEF Passes, Alarms, Marks, Bears, Brings
  <2> QED
    BY <1>1, <1>3, <2>4, <2>8, KnowingThen
<1>7. CASE ~Failed(u)
  <2>1. PICK fs \in Seq(Frame) : fs = <<>>
    BY Short
  <2>2. Then(x, fs)
    BY <1>1, <1>2, <1>7, <2>1 DEF Late, LateFailure
  <2>3. Known(t, u)'
    BY <1>5, <1>7 DEF Failed, Has
  <2>4. Passes(x)
    BY <1>1, <1>2, <2>3 DEF Passes, Alarms, Marks, Bears, Brings
  <2> QED
    BY <1>1, <1>3, <2>2, <2>4, KnowingThen
<1> QED
  BY <1>6, <1>7

LEMMA NotifyKnowing ==
  ASSUME Core, Outcomes, Grounds, Knowing, Steadfast, UNCHANGED prog, NEW x \in Threads, NotifyArc(x)
  PROVE  Knowing'
<1>1. PICK f \in Frame : f = Cur(x) /\ f.op = "notify" /\ todo[x] # <<>> /\ 1 \in DOMAIN todo[x]
                         /\ todo[x][1] = f
  BY First DEF NotifyArc
<1>2. PICK t \in Tasks, u \in Tasks, e \in BOOLEAN : f.node = t /\ f.from = u /\ f.failed = e
  BY <1>1, Says
<1>3. Tells(f) /\ Given(todo[x], 1) /\ UNCHANGED <<head, body, word>>
  BY <1>1 DEF Outcomes, Grounds, NotifyArc
<1>4. PICK g \in Frame : g = [op |-> "pre", node |-> t, k |-> 1]
  <2>1. [op |-> "pre", node |-> t, k |-> 1] \in Frame
    BY DEF Frame
  <2> QED
    BY <2>1
<1>5. ~Has(u, "exception") => Known(t, u)'
  BY <1>1, <1>2, <1>3 DEF Given, Known, Clear, Has, IsDone
<1>6. CASE e
  <2>1. PICK h \in Fit : h = [f EXCEPT !.op = "failure"]
    BY <1>1, Says
  <2>2. h \in Frame /\ h.op = "failure" /\ h.node = t /\ h.from = u /\ h.port = f.port
    <3>1. f \in [op : {"notify", "failure"}, node : Tasks, from : Tasks, port : Nat, failed : BOOLEAN]
      BY <1>1 DEF Frame
    <3> QED
      BY <1>2, <2>1, <3>1 DEF Fit
  <2>3. PICK fs : fs = <<h>> \o <<g>>
    OBVIOUS
  <2>4. Then(x, fs)
    BY <1>1, <1>2, <1>4, <1>6, <2>1, <2>3 DEF NotifyArc, NotifyFirst
  <2>5. PICK r \in Seq(Frame) : r = <<h>> /\ DOMAIN r = {1} /\ r[1] = h
    BY <2>2, Short, OneFrame
  <2>11. PICK c \in Seq(Frame) : c = <<g>>
    BY <1>4, Short
  <2>12. fs = r \o c
    BY <2>3, <2>5, <2>11
  <2>6. fs \in Seq(Frame) /\ 1 \in DOMAIN fs /\ fs[1] = h
    BY <2>5, <2>12, Before DEF Leads
  <2>7. Moved(x, fs)
    BY <1>1, <2>4, <2>6, MovedThen DEF Core
  <2>8. f.port = 0 /\ Has(u, "exception") => Alarms(fs[1], t)'
    BY <1>3, <2>2, <2>6 DEF Alarms, Has
  <2>9. f.port = 0 /\ Has(u, "exception") => Known(t, u)'
    BY <2>6, <2>7, <2>8, NowAlarmed DEF Known
  <2>10. Passes(x)
    BY <1>1, <1>2, <1>5, <2>9 DEF Passes, Alarms, Marks, Bears, Brings
  <2> QED
    BY <1>1, <1>3, <2>4, <2>6, <2>10, KnowingThen
<1>7. CASE ~e
  <2>1. PICK fs \in Seq(Frame) : fs = <<g>> /\ DOMAIN fs = {1} /\ fs[1] = g
    BY Short, OneFrame
  <2>2. Then(x, fs)
    <3>1. <<>> \o fs = fs
      OBVIOUS
    <3> QED
      BY <1>1, <1>2, <1>4, <1>7, <2>1, <3>1 DEF NotifyArc, NotifyFirst
  <2>3. body'[u] = "value"
    BY <1>1, <1>2, <1>3, <1>7 DEF Tells
  <2>4. Known(t, u)'
    BY <2>3 DEF Known, Clear
  <2>5. Passes(x)
    BY <1>1, <1>2, <2>4 DEF Passes, Alarms, Marks, Bears, Brings
  <2> QED
    BY <1>1, <1>3, <2>1, <2>2, <2>5, KnowingThen
<1> QED
  BY <1>6, <1>7

(* An arc on an open list. *)
LEMMA PushListed ==
  ASSUME Inv, NEW v \in Tasks, NEW a \in Arc, Push(v, a)
  PROVE  /\ \A t, u \in Tasks : Listed(t, u) => Listed(t, u)'
         /\ \A t \in Tasks : a = Flow(t, 0) => Listed(t, v)'
<1>1. /\ head \in [Tasks -> ArcHead] /\ head'[v].arcs = <<a>> \o head[v].arcs
      /\ \A u \in Tasks : u # v => head'[u] = head[u]
  BY DEF Push, Open, Inv, Types
<1>2. PICK l \in Seq(Arc) : l = head[v].arcs
  BY <1>1 DEF ArcHead
<1>3. PICK r : r = head'[v].arcs
  OBVIOUS
<1>4. PICK o \in Seq(Arc) : o = <<a>> /\ 1 \in DOMAIN o /\ o[1] = a
  BY Short, OneFrame
<1>5. OnTopOf(r, o, l)
  BY <1>1, <1>2, <1>3, <1>4, OnTop
<1>6. (1 \in DOMAIN r /\ r[1] = a) /\ \A i \in DOMAIN l : \E j \in DOMAIN r : r[j] = l[i]
  BY <1>4, <1>5 DEF OnTopOf
<1>7. ASSUME NEW t \in Tasks, NEW u \in Tasks, Listed(t, u)
      PROVE  Listed(t, u)'
  <2>0. PICK b : b = Flow(t, 0) /\ b = Flow(t, 0)'
    BY DEF Flow
  <2>1. CASE u = v
    BY <1>2, <1>3, <1>6, <1>7, <2>0, <2>1 DEF Listed
  <2>2. CASE u # v
    BY <1>1, <1>7, <2>0, <2>2 DEF Listed
  <2> QED
    BY <2>1, <2>2
<1>8. ASSUME NEW t \in Tasks, a = Flow(t, 0)
      PROVE  Listed(t, v)'
  <2>1. a = Flow(t, 0)'
    BY <1>8 DEF Flow
  <2> QED
    BY <1>3, <1>6, <2>1 DEF Listed
<1> QED
  BY <1>7, <1>8

LEMMA AddSignalKnowing ==
  ASSUME Core, Outcomes, Knowing, Steadfast, Inv', UNCHANGED prog, NEW x \in Threads, AddSignal(x)
  PROVE  Knowing'
<1>1. PICK f \in Frame : f = Cur(x) /\ f.op = "signal" /\ todo[x] # <<>>
  BY First DEF AddSignal
<1>2. PICK t \in Tasks, c \in Tasks : f.node = t /\ f.control = c
  BY <1>1, Says
<1>3. UNCHANGED body /\ Passes(x)
  <2>1. Cur(x).op \notin {"mark", "set", "failure", "link", "late", "notify"}
    BY <1>1
  <2> QED
    BY <2>1, PassesOther DEF AddSignal
<1>4. PICK g : g = [op |-> "drop", control |-> c]
  OBVIOUS
<1>5. PICK fs \in {<<>>, <<g>>} : Then(x, fs)
  BY <1>1, <1>2, <1>4 DEF AddSignal
<1>6. fs \in Seq({g})
  BY <1>5, Short
<1>7. fs \in Seq(Frame)
  BY <1>1, <1>5, <1>6, Made DEF Core
<1>8. Stays(x)
  BY <1>1, <1>5, <1>7, MovedThen, StaysMoved DEF Core
<1>9. \A v, u \in Tasks : Listed(v, u) => Known(v, u)'
  <2>1. CASE UNCHANGED head
    BY <2>1 DEF Listed, Known
  <2>2. CASE Push(t, Signal(c))
    <3>1. Signal(c) \in Arc
      BY DEF Arc
    <3> QED
      BY <2>2, <3>1, PushListed DEF Known, Core
  <2> QED
    BY <1>1, <1>2, <2>1, <2>2 DEF AddSignal
<1>10. Launched /\ \A v \in Tasks : Turns(v)
  BY <1>3 DEF Launched, Turns
<1> QED
  BY <1>3, <1>8, <1>9, <1>10, KnowingKept

LEMMA LinkKnowing ==
  ASSUME Core, Outcomes, Knowing, Steadfast, UNCHANGED prog, NEW x \in Threads, Link(x)
  PROVE  Knowing'
<1>1. PICK f \in Frame : f = Cur(x) /\ f.op = "link" /\ todo[x] # <<>> /\ 1 \in DOMAIN todo[x]
                         /\ todo[x][1] = f
  BY First DEF Link
<1>2. PICK t \in Tasks, u \in Tasks, p \in Nat : f.node = t /\ f.from = u /\ f.port = p
  BY <1>1, Says
<1>3. UNCHANGED body
  BY DEF Link
<1>4. CASE IsDone(u)
  <2>1. PICK g : g = [f EXCEPT !.op = "late"]
    OBVIOUS
  <2>2. g \in Frame /\ g.op = "late" /\ g.node = t /\ g.from = u /\ g.port = p
    <3>1. f \in [op : {"link", "late", "failure"}, node : Tasks, from : Tasks, port : Nat]
      BY <1>1 DEF Frame
    <3> QED
      BY <1>2, <2>1, <3>1 DEF Frame
  <2>3. PICK fs \in Seq(Frame) : fs = <<g>> /\ DOMAIN fs = {1} /\ fs[1] = g
    BY <2>2, Short, OneFrame
  <2>4. Then(x, fs) /\ UNCHANGED head
    BY <1>1, <1>2, <1>4, <2>1, <2>3 DEF Link
  <2>5. Moved(x, fs)
    BY <1>1, <2>4, MovedThen DEF Core
  <2>6. p = 0 => Bears(fs[1], t, u)
    BY <2>2, <2>3 DEF Bears, Brings
  <2>7. p = 0 => Known(t, u)'
    BY <2>3, <2>5, <2>6, NowBorne
  <2>8. Passes(x)
    BY <1>1, <1>2, <2>7 DEF Passes, Alarms, Marks, Bears, Brings
  <2> QED
    BY <1>1, <1>3, <2>4, <2>8, KnowingThen
<1>5. CASE ~IsDone(u)
  <2>1. PICK fs \in Seq(Frame) : fs = <<>>
    BY Short
  <2>2. PICK a : a = Flow(t, p)
    OBVIOUS
  <2>3. Then(x, fs) /\ Push(u, a) /\ a \in Arc
    BY <1>1, <1>2, <1>5, <2>1, <2>2 DEF Link, Arc, Flow
  <2>4. /\ \A v, w \in Tasks : Listed(v, w) => Listed(v, w)'
        /\ p = 0 => Listed(t, u)'
    BY <2>2, <2>3, PushListed DEF Core
  <2>5. Stays(x)
    BY <1>1, <2>3, MovedThen, StaysMoved DEF Core
  <2>6. Passes(x)
    BY <1>1, <1>2, <2>4 DEF Passes, Alarms, Marks, Bears, Brings, Known
  <2>7. Launched /\ \A v \in Tasks : Turns(v)
    BY <1>3 DEF Launched, Turns
  <2> QED
    BY <2>4, <2>5, <2>6, <2>7, KnowingKept DEF Known
<1> QED
  BY <1>4, <1>5

(* The arcs of a list become notifications. *)
LEMMA ExchangeKnowing ==
  ASSUME Core, Outcomes, Knowing, Steadfast, UNCHANGED prog, NEW x \in Threads, Exchange(x)
  PROVE  Knowing'
<1>1. PICK f \in Frame : f = Cur(x) /\ f.op = "exchange" /\ todo[x] # <<>>
  BY First DEF Exchange
<1>2. PICK t \in Tasks, e \in BOOLEAN : f.node = t /\ f.failed = e
  BY <1>1, Says
<1>3. PICK b \in BOOLEAN : b <=> e /\ Failed(t)
  OBVIOUS
<1>4. PICK h : h = LastHead(t, e)
  OBVIOUS
<1>5. PICK r \in Seq(Arc) : r = head[t].arcs
  BY ControlType DEF Core, Inv
<1>6. PICK fs : fs = [i \in DOMAIN r |-> Notify(t, r[i], b)]
  OBVIOUS
<1>7. head' = [head EXCEPT ![t] = h] /\ Then(x, fs) /\ UNCHANGED body
  <2>1. [i \in DOMAIN r |-> Notify(t, r[i], b)] = [i \in DOMAIN r |-> Notify(t, r[i], e /\ Failed(t))]
    BY <1>3
  <2> QED
    BY <1>1, <1>2, <1>4, <1>5, <1>6, <2>1 DEF Exchange
<1>8. /\ fs \in Seq(Frame) /\ DOMAIN fs = DOMAIN r
      /\ \A i \in DOMAIN fs : fs[i] = Notify(t, r[i], b)
  BY <1>6, NotifyAll
<1>9. \A u \in Tasks : u # t => head'[u] = head[u]
  BY <1>7 DEF Core, Inv, Types
<1>10. Moved(x, fs)
  BY <1>1, <1>7, <1>8, MovedThen DEF Core
<1>11. Passes(x)
  <2>1. Cur(x).op \notin {"mark", "set", "failure", "link", "late", "notify"}
    BY <1>1
  <2> QED
    BY <2>1, PassesOther
<1>12. ASSUME NEW v \in Tasks, NEW u \in Tasks, Listed(v, u)
       PROVE  Known(v, u)'
  <2>0. PICK a : a = Flow(v, 0) /\ a = Flow(v, 0)'
    BY DEF Flow
  <2>1. CASE u = t
    <3>1. PICK i \in DOMAIN fs : r[i] = a
      BY <1>5, <1>8, <1>12, <2>0, <2>1 DEF Listed
    <3>2. a.kind = "flow" /\ a.node = v /\ a.port = 0
      BY <2>0 DEF Flow
    <3>3. fs[i] = Notify(t, a, b)
      BY <1>8, <3>1
    <3>4. Notify(t, a, b) = [op |-> "notify", node |-> a.node, from |-> t, port |-> a.port, failed |-> b]
      BY <3>2 DEF Notify
    <3>5. Bears(Notify(t, a, b), v, t)
      BY <3>2, <3>4 DEF Bears, Brings
    <3>6. Bears(fs[i], v, t)
      BY <3>3, <3>5
    <3> QED
      BY <1>10, <2>1, <3>6, NowBorne
  <2>2. CASE u # t
    BY <1>9, <1>12, <2>0, <2>2 DEF Listed, Known
  <2> QED
    BY <2>1, <2>2
<1>13. Launched /\ \A v \in Tasks : Turns(v)
  BY <1>7 DEF Launched, Turns
<1>14. Stays(x)
  BY <1>10, StaysMoved
<1> QED
  BY <1>11, <1>12, <1>13, <1>14, KnowingKept

LEMMA PreKnowing ==
  ASSUME Core, Outcomes, Knowing, Steadfast, UNCHANGED prog, NEW x \in Threads, Pre(x)
  PROVE  Knowing'
<1>1. PICK f \in Frame : f = Cur(x) /\ f.op = "pre" /\ todo[x] # <<>> /\ At(x, "pre") /\ Inv
  BY First DEF Pre, Core
<1>2. PICK t \in Tasks, k \in Int : f.node = t /\ f.k = k
  BY <1>1, Says
<1>3. Waiting(t) /\ x # t /\ k >= 1 /\ t \in Threads
  BY <1>1, <1>2, PreTakes, Apart
<1>4. PICK last \in BOOLEAN : last <=> word[t].count = k
  OBVIOUS
<1>5. PICK skips \in BOOLEAN : skips <=> last /\ Skips(word[t].bits)
  OBVIOUS
<1>6. PICK fs \in Seq(Frame) : fs = IF skips THEN Complete(t, TRUE) ELSE <<>>
  <2>1. PICK c \in Seq(Frame) : c = Complete(t, TRUE)
    BY Completion
  <2>2. <<>> \in Seq(Frame)
    BY Short
  <2> QED
    BY <2>1, <2>2
<1>7. PICK b \in BOOLEAN : b <=> last /\ ~skips
  OBVIOUS
<1>8. PICK c : c = IF b THEN <<[op |-> "start", node |-> t]>> ELSE todo[t]
  OBVIOUS
<1>9. /\ todo' = [todo EXCEPT ![x] = fs \o Tail(@), ![t] = c]
      /\ body' = (IF skips THEN [body EXCEPT ![t] = "skipped"] ELSE body)
      /\ UNCHANGED head
  BY <1>1, <1>2, <1>4, <1>5, <1>6, <1>7, <1>8 DEF Pre
<1>10. b => todo[t] = <<>>
  BY <1>1, <1>2, <1>3, <1>4, <1>7, NotStarted
<1>11. Stays(x)
  BY <1>1, <1>3, <1>8, <1>9, <1>10, MovedStart, StaysMoved
<1>12. Passes(x)
  <2>1. Cur(x).op \notin {"mark", "set", "failure", "link", "late", "notify"}
    BY <1>1
  <2> QED
    BY <2>1, PassesOther
<1>13. /\ \A u \in Tasks : u # t => body'[u] = body[u]
       /\ body'[t] = IF skips THEN "skipped" ELSE body[t]
  BY <1>1, <1>9 DEF Inv, Types
<1>14. Launched /\ \A v \in Tasks : Turns(v)
  BY <1>3, <1>13 DEF Launched, Turns, Waiting
<1>15. \A v, u \in Tasks : Listed(v, u) => Known(v, u)'
  BY <1>9 DEF Listed, Known
<1> QED
  BY <1>11, <1>12, <1>14, <1>15, KnowingKept

(* The thread of a task has its one frame, and goes on as its own. *)
LEMMA OwnStays ==
  ASSUME Core, NEW t \in Tasks, NEW o \in Bottom, At(t, o), NEW fs, Then(t, fs)
  PROVE  Stays(t) /\ Passes(t)
<1>1. t \in Threads /\ Len(todo[t]) = 1 /\ todo[t] \in Seq(Frame) /\ todo[t] # <<>> /\ Cur(t).op = o
  BY Own, Families DEF Core, At, Cur
<1>2. \A j \in DOMAIN todo[t] : j = 1
  BY <1>1
<1>3. \A y \in Threads : y # t => todo'[y] = todo[y]
  BY DEF Then, Core, Inv, Frames
<1>4. Stays(t)
  BY <1>2, <1>3 DEF Stays
<1> QED
  BY <1>1, <1>4, PassesOther DEF Bottom

LEMMA BodyKnowing ==
  ASSUME Core, Outcomes, Knowing, Steadfast, UNCHANGED <<prog, head>>,
         NEW t \in Tasks, NEW o \in Bottom, At(t, o), NEW fs, Then(t, fs),
         NEW v, body' = [body EXCEPT ![t] = v],
         v \in {"running", "attached", "value", "threw"} \/ (v = "skipped" /\ Waiting(t)) \/ Knows(t)'
  PROVE  Knowing'
<1>1. t \in Threads /\ body[t] # "idle" /\ Stays(t) /\ Passes(t)
  BY Own, OwnStays
<1>2. body'[t] = v /\ \A u \in Tasks : u # t => body'[u] = body[u]
  BY DEF Core, Inv, Types
<1>3. Launched /\ \A u \in Tasks : Turns(u)
  BY <1>1, <1>2 DEF Launched, Turns
<1>4. \A u, w \in Tasks : Listed(u, w) => Known(u, w)'
  BY DEF Listed, Known
<1> QED
  BY <1>1, <1>3, <1>4, KnowingKept

LEMMA RunsKnowing ==
  ASSUME Core, Outcomes, Knowing, Steadfast, UNCHANGED prog, NEW t \in Tasks,
         Start(t) \/ ReturnValue(t) \/ Throw(t) \/ Emplace(t) \/ Resume(t)
  PROVE  Knowing'
<1>1. UNCHANGED head
  BY DEF Start, ReturnValue, Throw, Emplace, Resume
<1>2. CASE Start(t)
  BY <1>1, <1>2, BodyKnowing DEF Start, Bottom, Waiting
<1>3. CASE ReturnValue(t)
  BY <1>1, <1>3, BodyKnowing DEF ReturnValue, Bottom
<1>4. CASE Throw(t)
  BY <1>1, <1>4, BodyKnowing DEF Throw, Bottom
<1>5. CASE Emplace(t)
  BY <1>1, <1>5, BodyKnowing DEF Emplace, Bottom
<1>6. CASE Resume(t)
  <2>1. PICK v : v = IF Starts(t) THEN "value" ELSE "skipped"
    OBVIOUS
  <2>2. body' = [body EXCEPT ![t] = v] /\ At(t, "start") /\ Waiting(t) /\ v \in {"value", "skipped"}
    BY <1>6, <2>1 DEF Resume, Waiting
  <2>3. Then(t, Complete(t, ~Starts(t)))
    BY <1>6 DEF Resume
  <2> QED
    BY <1>1, <2>2, <2>3, BodyKnowing DEF Bottom
<1> QED
  BY <1>2, <1>3, <1>4, <1>5, <1>6

LEMMA AttachKnowing ==
  ASSUME Core, Outcomes, Knowing, Steadfast, UNCHANGED prog, NEW t \in Tasks, Attach(t)
  PROVE  Knowing'
<1>1. At(t, "attach") /\ "attach" \in Bottom /\ Forwards(t)
  BY DEF Attach, Bottom
<1>2. PICK u \in Tasks : u = Returns(t) /\ Forwarded(t) = {u}
  BY <1>1, Related DEF Core
<1>3. t \in Threads /\ body[t] # "idle"
  BY <1>1, Own
<1>4. CASE IsDone(u)
  <2>1. PICK fs : fs = <<[op |-> "look", node |-> t]>>
    OBVIOUS
  <2>2. Then(t, fs) /\ UNCHANGED <<head, body>>
    BY <1>2, <1>4, <2>1 DEF Attach
  <2> QED
    BY <1>1, <1>3, <2>2, OwnStays, KnowingQuiet
<1>5. CASE ~IsDone(u)
  <2>1. PICK a : a = Flow(t, 0)
    OBVIOUS
  <2>2. Then(t, <<>>) /\ Push(u, a) /\ a \in Arc /\ body' = [body EXCEPT ![t] = "forwarding"]
    BY <1>2, <1>5, <2>1 DEF Attach, Arc, Flow
  <2>3. /\ \A v, w \in Tasks : Listed(v, w) => Listed(v, w)'
        /\ Listed(t, u)'
    BY <2>1, <2>2, PushListed DEF Core
  <2>4. body'[t] = "forwarding" /\ \A v \in Tasks : v # t => body'[v] = body[v]
    BY <2>2 DEF Core, Inv, Types
  <2>5. Forwarded(t)' = {u}
    BY <1>2, ResultsOf DEF Core
  <2>6. Knows(t)'
    BY <2>3, <2>4, <2>5 DEF Knows, Known
  <2>7. Launched /\ \A v \in Tasks : Turns(v)
    BY <1>3, <2>4, <2>6 DEF Launched, Turns
  <2>8. Stays(t) /\ Passes(t)
    BY <1>1, <2>2, OwnStays
  <2> QED
    BY <1>3, <2>3, <2>7, <2>8, KnowingKept DEF Known
<1> QED
  BY <1>4, <1>5

LEMMA LookKnowing ==
  ASSUME Core, Outcomes, Knowing, Steadfast, UNCHANGED prog, NEW t \in Tasks, Look(t)
  PROVE  Knowing'
<1>1. At(t, "look") /\ "look" \in Bottom /\ UNCHANGED <<head, word>> /\ Forwards(t)
  BY DEF Look, Bottom
<1>2. PICK u \in Tasks : u = Returns(t) /\ Forwarded(t) = {u}
  BY <1>1, Related DEF Core
<1>3. t \in Threads /\ Cur(t).node = t
  BY <1>1, Own
<1>4. Fits(Cur(t)) /\ Cur(t).op = "look" /\ todo[t] # <<>> /\ 1 \in DOMAIN todo[t] /\ todo[t][1] = Cur(t)
  BY <1>1, <1>3, First
<1>5. body[t] = "attached" /\ Supplied(t)
  BY <1>3, <1>4 DEF Fits, Outcomes, Outcome
<1>6. IsDone(u)
  <2>1. Tells(todo[t][1])
    BY <1>3, <1>4 DEF Outcomes
  <2> QED
    BY <1>2, <1>3, <1>4, <2>1 DEF Tells
<1>7. CASE Failed(u)
  <2>1. PICK f : f = [op |-> "failure", node |-> t, from |-> u, port |-> 0]
    OBVIOUS
  <2>2. f \in Frame /\ f.op = "failure" /\ f.node = t /\ f.from = u /\ f.port = 0
    BY <2>1 DEF Frame
  <2>3. PICK r \in Seq(Frame) : r = <<f>> /\ DOMAIN r = {1} /\ r[1] = f
    BY <2>2, Short, OneFrame
  <2>4. PICK c \in Seq(Frame) : c = Complete(t, TRUE)
    BY Completion
  <2>5. PICK fs : fs = r \o c
    OBVIOUS
  <2>6. Then(t, fs) /\ body' = [body EXCEPT ![t] = "skipped"]
    BY <1>2, <1>7, <2>1, <2>3, <2>4, <2>5 DEF Look, AttachedLate
  <2>7. fs \in Seq(Frame) /\ 1 \in DOMAIN fs /\ fs[1] = f
    BY <2>3, <2>5, Before DEF Leads
  <2>8. Moved(t, fs)
    BY <1>3, <1>4, <2>6, <2>7, MovedThen DEF Core
  <2>9. Has(u, "exception") => Alarms(fs[1], t)'
    BY <1>1, <2>2, <2>7 DEF Alarms, Has
  <2>10. Has(u, "exception") => Known(t, u)'
    BY <1>3, <2>7, <2>8, <2>9, NowAlarmed DEF Known
  <2>11. ~Has(u, "exception") => Known(t, u)'
    BY <1>1, <1>6 DEF Known, Clear, IsDone, Has
  <2>12. body'[t] = "skipped"
    BY <2>6 DEF Core, Inv, Types
  <2>13. Results(t)' = Results(t) /\ Forwarded(t)' = {u} /\ Results(t) \subseteq Producers(t)
         /\ Results(t) \subseteq Tasks
    BY <1>2, ResultsOf DEF Core
  <2>14. \A w \in Results(t) : Known(t, w)'
    BY <1>5, <2>13 DEF Supplied, Clear, Steadfast, Known
  <2>15. Knows(t)'
    BY <2>10, <2>11, <2>12, <2>13, <2>14 DEF Knows
  <2> QED
    BY <1>1, <2>6, <2>15, BodyKnowing
<1>8. CASE ~Failed(u)
  <2>1. Then(t, Complete(t, FALSE)) /\ body' = [body EXCEPT ![t] = "value"]
    BY <1>2, <1>8 DEF Look, AttachedLate
  <2> QED
    BY <1>1, <2>1, BodyKnowing
<1> QED
  BY <1>7, <1>8

(* The link of an input is at its place. *)
LEMMA LinkAt ==
  ASSUME prog \in DOMAIN Programs, NEW t \in Tasks, NEW i \in DOMAIN Inputs(t),
         NEW fs, fs = Links(t) \o Ends(t)
  PROVE  i \in DOMAIN fs /\ fs[i] = [op |-> "link", node |-> t, from |-> Inputs(t)[i].task, port |-> Inputs(t)[i].port]
<1>1. PICK n \in Nat : n = Len(Inputs(t)) /\ DOMAIN Inputs(t) = 1..n
  BY InputsFew
<1>2. PICK l : l = Links(t)
  OBVIOUS
<1>3. l[i] = [op |-> "link", node |-> t, from |-> Inputs(t)[i].task, port |-> Inputs(t)[i].port]
  BY <1>1, <1>2 DEF Links
<1>4. PICK e : e = Ends(t)
  OBVIOUS
<1>5. PICK S : S = {l[j] : j \in 1..n} \cup {e[j] : j \in 1..2}
  OBVIOUS
<1>6. l \in Seq(S) /\ DOMAIN l = 1..n
  <2>1. l = [j \in 1..n |-> l[j]] /\ \A j \in 1..n : l[j] \in S
    BY <1>1, <1>2, <1>5 DEF Links
  <2> QED
    BY <2>1
<1>7. e \in Seq(S)
  <2>1. PICK a : a = [op |-> "publish", node |-> t]
    OBVIOUS
  <2>2. PICK b : b = [op |-> "return", node |-> t]
    OBVIOUS
  <2>3. e = <<a, b>>
    BY <1>4, <2>1, <2>2 DEF Ends
  <2>4. a \in S /\ b \in S
    BY <1>5, <2>3
  <2> QED
    BY <2>3, <2>4, Short
<1>8. Leads(fs, l, e)
  BY <1>2, <1>4, <1>6, <1>7, Before
<1> QED
  BY <1>1, <1>3, <1>6, <1>8 DEF Leads

(* Only the functor of the task that returns it launches a task. *)
LEMMA MakerRuns ==
  ASSUME Core, NEW t \in Tasks, Run(t), NEW v \in Tasks, t \in Forwarded(v)
  PROVE  body[v] = "running"
<1>1. Returns(v) = t /\ Inner(t) /\ prog \in DOMAIN Programs
  BY DEF Forwarded, Inner, Core, Inv, Types
<1>2. PICK m \in Tasks : m = Maker(t) /\ Returns(m) = t
  BY <1>1 DEF Maker, Inner
<1>3. t # NoTask
  BY Apart
<1>4. m = v
  BY <1>1, <1>2, <1>3, FailuresAssumption DEF Returns
<1>5. At(v, "functor") /\ "functor" \in Bottom
  BY <1>1, <1>2, <1>4 DEF Run, Bottom
<1>6. v \in Threads /\ Cur(v).node = v
  BY <1>5, Own
<1>7. Fits(Cur(v)) /\ Cur(v).op = "functor"
  BY <1>5, <1>6, First
<1> QED
  BY <1>6, <1>7 DEF Fits

LEMMA RunKnowing ==
  ASSUME Core, Outcomes, Knowing, Steadfast, UNCHANGED prog, NEW t \in Tasks, Run(t)
  PROVE  Knowing'
<1>1. PICK m : m = Maker(t)
  OBVIOUS
<1>2. PICK fs : fs = Links(t) \o Ends(t)
  OBVIOUS
<1>3. m \in Threads /\ Inv /\ prog \in DOMAIN Programs
  BY <1>1, ProgramTypes DEF Core, Inv, Types
<1>4. /\ body[t] = "idle" /\ body' = [body EXCEPT ![t] = "pending"] /\ UNCHANGED head
      /\ todo[m] # <<>> => Cur(m).op = "functor"
  BY <1>1 DEF Run, Maker, At, Cur, InCall
<1>5. Upon(todo', todo, m, fs)
  <2>1. todo' = [todo EXCEPT ![m] = Links(t) \o Ends(t) \o todo[m]]
    BY <1>1, <1>3 DEF Run, Links, Ends
  <2> QED
    BY <1>2, <2>1 DEF Upon
<1>6. fs \in Seq(Frame)
  <2>1. Constructs(t, fs)
    BY <1>2, <1>3, Construction
  <2> QED
    BY <2>1 DEF Constructs
<1>7. Moved(m, fs)
  BY <1>3, <1>5, <1>6, MovedUpon
<1>8. Stays(m) /\ Passes(m)
  <2>1. todo[m] # <<>> => Cur(m).op \notin {"mark", "set", "failure", "link", "late", "notify"}
    BY <1>4
  <2> QED
    BY <1>7, <2>1, StaysMoved, PassesOther
<1>9. body'[t] = "pending" /\ \A u \in Tasks : u # t => body'[u] = body[u]
  BY <1>3, <1>4 DEF Inv, Types
<1>10. ASSUME NEW u \in Results(t)
       PROVE  Known(t, u)'
  <2>1. PICK i \in DOMAIN Inputs(t) : Inputs(t)[i].port = 0 /\ Inputs(t)[i].task = u
    BY <1>10 DEF Results
  <2>2. i \in DOMAIN fs /\ fs[i] = [op |-> "link", node |-> t, from |-> Inputs(t)[i].task, port |-> Inputs(t)[i].port]
    BY <1>2, <1>3, LinkAt
  <2>3. PICK g : g = fs[i]
    OBVIOUS
  <2>4. Bears(g, t, u)
    BY <2>1, <2>2, <2>3 DEF Bears, Brings
  <2> QED
    BY <1>3, <1>7, <2>2, <2>3, <2>4, NowBorne
<1>11. t \notin Forwarded(t)
  BY <1>4, MakerRuns
<1>12. Knows(t)'
  <2>1. Results(t)' = Results(t) /\ Forwarded(t)' = Forwarded(t) /\ Forwarded(t) \subseteq Tasks
    BY <1>3, ResultsOf
  <2>2. \A u \in Forwarded(t) : body'[u] = "idle"
    BY <1>4, <1>9, <1>11, <2>1 DEF Knowing, Knows
  <2> QED
    BY <1>9, <1>10, <2>1, <2>2 DEF Knows
<1>13. Launched
  BY <1>9, MakerRuns DEF Launched
<1>14. \A u \in Tasks : Turns(u)
  BY <1>9, <1>12 DEF Turns
<1>15. \A u, w \in Tasks : Listed(u, w) => Known(u, w)'
  BY <1>4 DEF Listed, Known
<1> QED
  BY <1>3, <1>8, <1>13, <1>14, <1>15, KnowingKept

LEMMA CallKnowing ==
  ASSUME Core, Outcomes, Knowing, Steadfast, UNCHANGED prog, NEW x \in Users, Call(x)
  PROVE  Knowing'
<1>1. PICK fs : todo' = [todo EXCEPT ![x] = fs]
  BY DEF Call, Cancel, WaitFor
<1>2. todo[x] = <<>> /\ UNCHANGED <<head, body>> /\ x \in Threads
  BY Apart DEF Call, Cancel, WaitFor, InCall
<1>3. \A y \in Threads : y # x => todo'[y] = todo[y]
  BY <1>1 DEF Core, Inv, Frames
<1>4. DOMAIN todo[x] = {}
  BY <1>2
<1>5. Stays(x) /\ Passes(x)
  BY <1>2, <1>3, <1>4 DEF Stays, Passes
<1> QED
  BY <1>2, <1>5, KnowingQuiet

LEMMA KnowingStays ==
  ASSUME Core, Outcomes, Knowing, UNCHANGED vars
  PROVE  Knowing'
<1>1. Steadfast
  BY DEF Steadfast, Clear, Has, IsDone, vars
<1>2. PICK x \in Threads : TRUE
  BY Apart
<1>3. Stays(x)
  BY DEF Stays, vars
<1>4. Passes(x)
  <2>1. ASSUME todo[x] # <<>>, NEW t \in Tasks, Alarms(Cur(x), t)
        PROVE  Alarmed(t)'
    <3>1. 1 \in DOMAIN todo[x] /\ todo[x][1] = Cur(x)
      BY <1>2, <2>1, Families, GoesOn DEF Core, Cur
    <3>2. Alarmed(t)
      BY <1>2, <2>1, <3>1 DEF Alarmed
    <3> QED
      BY <3>2 DEF Alarmed, Alarms, Marks, Has, vars
  <2>2. ASSUME todo[x] # <<>>, NEW t \in Tasks, NEW u \in Tasks, Bears(Cur(x), t, u)
        PROVE  Known(t, u)'
    <3>1. 1 \in DOMAIN todo[x] /\ todo[x][1] = Cur(x)
      BY <1>2, <2>2, Families, GoesOn DEF Core, Cur
    <3>2. Borne(t, u)
      BY <1>2, <2>2, <3>1 DEF Borne
    <3> QED
      BY <3>2 DEF Known, Borne, Bears, Brings, vars
  <2> QED
    BY <2>1, <2>2 DEF Passes
<1> QED
  BY <1>1, <1>2, <1>3, <1>4, KnowingQuiet DEF vars

LEMMA KnowingNext ==
  ASSUME Core, Outcomes, Grounds, Knowing, [Next]_vars
  PROVE  Knowing'
<1>1. Inv' /\ Steadfast
  BY CoreNext, SteadfastNext DEF Core
<1>2. ASSUME NEW t \in Tasks, Execute(t), UNCHANGED prog
      PROVE  Knowing'
  BY <1>1, <1>2, RunsKnowing, RunKnowing, AttachKnowing, LookKnowing DEF Execute
<1>3. ASSUME NEW t \in Tasks, Run(t), UNCHANGED prog
      PROVE  Knowing'
  BY <1>1, <1>3, RunKnowing
<1>4. ASSUME NEW x \in Users, Call(x), UNCHANGED prog
      PROVE  Knowing'
  BY <1>1, <1>4, CallKnowing
<1>5. ASSUME NEW x \in Threads, Step(x), UNCHANGED prog
      PROVE  Knowing'
  BY <1>1, <1>5, MarkFailureKnowing, SetBitKnowing, PublishFailureKnowing, AddSignalKnowing,
     PopKnowing, LinkKnowing, LateKnowing, WaitKnowing, PreKnowing, ExchangeKnowing,
     NotifyKnowing DEF Step
<1> QED
  BY <1>2, <1>3, <1>4, <1>5, KnowingStays DEF Next, Rest

(* Nothing is on its way to a task that no longer waits. *)
LEMMA CameOut ==
  ASSUME Core, NEW t \in Tasks, ~Waiting(t), NEW u \in Tasks
  PROVE  ~Borne(t, u) /\ ~Listed(t, u)
<1>1. Owes(t) = 0 /\ Guards(t) = 0 /\ Count(Lists, Flows(t)) \in Nat /\ Count(todo, Taking(t)) \in Nat
      /\ Owes(t) = Count(Lists, Flows(t)) + Count(todo, Taking(t))
  BY Numbers
<1>2. ASSUME NEW x \in Threads, NEW i \in DOMAIN todo[x], Bears(todo[x][i], t, u)
      PROVE  FALSE
  <2>1. PICK f : f = todo[x][i]
    OBVIOUS
  <2>2. f \in Frame /\ Lies(x, todo[x], i) /\ f \notin Taking(t) /\ f \notin Linking(t)
    BY <2>1, Found
  <2>3. f.op = "late" /\ f.node = t
    BY <1>2, <2>1, <2>2, Sorts DEF Bears, Brings
  <2>4. [op |-> "publish", node |-> t] \in After(todo[x], i)
    BY <2>1, <2>2, <2>3 DEF Lies
  <2>5. PICK j \in DOMAIN todo[x] : todo[x][j] = [op |-> "publish", node |-> t]
    BY <2>4 DEF After
  <2>6. PICK g : g = [op |-> "publish", node |-> t]
    OBVIOUS
  <2>7. g \in Frame /\ g \notin Holdback(t)
    BY <2>5, <2>6, Found
  <2> QED
    BY <2>6, <2>7 DEF Holdback
<1>3. ASSUME NEW i \in DOMAIN head[u].arcs, head[u].arcs[i] = Flow(t, 0)
      PROVE  FALSE
  <2>1. Lists \in Family(Tasks, Arc) /\ Lists[u] = head[u].arcs
    BY Families DEF Core
  <2>2. PICK a : a = Flow(t, 0)
    OBVIOUS
  <2>3. a \in Flows(t)
    BY <2>2 DEF Flow, Flows, Arc
  <2>4. Count(Lists, Flows(t)) >= 1
    BY <1>3, <2>1, <2>2, <2>3, Finite, CountNone
  <2> QED
    BY <1>1, <2>4
<1> QED
  BY <1>2, <1>3 DEF Borne, Listed

(* In any program a task that is done has an exception if the result of one it read, or of
   the one it forwards, has one, whatever else went wrong before it. *)
THEOREM ExceptionWins == Spec => []RealExceptionWins
<1> DEFINE All == Core /\ Outcomes /\ Grounds /\ Knowing /\ woken \in [Tasks -> BOOLEAN]
<1>1. ASSUME Core, Outcomes, Grounds, Knowing, NEW t \in Tasks, IsDone(t),
             NEW u \in Results(t) \cup Forwarded(t), Has(u, "exception")
      PROVE  Has(t, "exception")
  <2>1. u \in Tasks /\ Results(t) \subseteq Producers(t) /\ Inv
    BY <1>1, ResultsOf DEF Core
  <2>2. body[u] \notin {"idle", "value"} /\ ~Clear(u)
    BY <1>1, <2>1 DEF Grounds, Grounded, Clear
  <2>3. body[t] \in {"value", "threw", "skipped"} /\ ~Waiting(t)
    BY <1>1 DEF Core, Counted, Final, Waiting
  <2>4. ~Marking(t) /\ ~Borne(t, u) /\ ~Listed(t, u)
    BY <1>1, <2>1, <2>3, MarkedInTime, CameOut
  <2>5. CASE body[t] = "value"
    BY <1>1, <2>1, <2>2, <2>5 DEF Outcomes, Outcome, Supplied
  <2>6. CASE body[t] = "threw"
    BY <1>1, <2>4, <2>6 DEF Grounds, Grounded
  <2>7. CASE body[t] = "skipped"
    <3>1. Alarmed(t)
      BY <1>1, <2>2, <2>4, <2>7 DEF Knowing, Knows, Known
    <3>2. ASSUME NEW x \in Threads, NEW i \in DOMAIN todo[x], Alarms(todo[x][i], t)
          PROVE  FALSE
      <4>1. todo[x][i].op = "failure" /\ todo[x][i].node = t
        BY <2>4, <3>2 DEF Alarms, Marking
      <4>2. Warrants(x, todo[x], i)
        BY <1>1 DEF Outcomes
      <4>3. Settled(todo[x], i, t)
        BY <4>1, <4>2 DEF Warrants
      <4> QED
        BY <1>1, <4>3, ToSettle
    <3> QED
      BY <3>1, <3>2 DEF Alarmed
  <2> QED
    BY <2>3, <2>5, <2>6, <2>7
<1>2. All => RealExceptionWins
  BY <1>1 DEF RealExceptionWins
<1>3. Init => All
  <2>1. ASSUME Init
        PROVE  Knowing
    <3>1. \A t \in Tasks : Forwarded(t) \subseteq Tasks /\ body[t] = "idle"
      BY <2>1, InitCore, ResultsOf DEF Init, Core
    <3> QED
      BY <3>1 DEF Knowing, Knows
  <2>2. Init => woken \in [Tasks -> BOOLEAN]
    BY DEF Init
  <2> QED
    BY <2>1, <2>2, InitCore, InitOutcomes, InitGrounds
<1>4. All /\ [Next]_vars => All'
  BY CoreNext, OutcomesNext, GroundsNext, WokenNext, KnowingNext
<1> QED
  BY <1>2, <1>3, <1>4, PTL DEF Spec
=============================================================================
