--------------------------- MODULE DataflowProofs ---------------------------
(***************************************************************************)
(* Dataflow is serial: every body reads and overwrites the versions of     *)
(* program order, for any tasks and variables.                             *)
(***************************************************************************)
EXTENDS Dataflow, TLAPS

(* Launching, starting and finishing keep the types. *)
LEMMA TypeStep ==
  ASSUME TypeOK, [Next]_vars
  PROVE  TypeOK'
<1>1. CASE UNCHANGED vars
  BY <1>1 DEF TypeOK, vars
<1>2. ASSUME NEW t \in Tasks, Launch(t)
      PROVE  TypeOK'
  <2>1. PICK R, W \in SUBSET Vars :
           /\ reads' = [reads EXCEPT ![t] = {<<v, Current(v)>> : v \in R}]
           /\ writes' = [writes EXCEPT ![t] = {<<v, last[v] + 1>> : v \in W \cup {t}}]
           /\ last' = [v \in Vars |-> IF v \in W \cup {t} THEN last[v] + 1 ELSE last[v]]
    BY <1>2 DEF Launch
  <2>2. last' \in [Vars -> Nat]
    BY <2>1 DEF TypeOK
  <2>3. \A v \in Vars : Current(v) \in Nat
    BY DEF TypeOK, Current
  <2>4. {<<v, Current(v)>> : v \in R} \in SUBSET (Vars \X Nat)
    BY <2>3
  <2>5. {<<v, last[v] + 1>> : v \in W \cup {t}} \in SUBSET (Vars \X Nat)
    BY DataflowAssumption DEF TypeOK
  <2>6. reads' \in [Tasks -> SUBSET (Vars \X Nat)] /\ writes' \in [Tasks -> SUBSET (Vars \X Nat)]
    BY <2>1, <2>4, <2>5 DEF TypeOK
  <2> QED
    BY <1>2, <2>2, <2>6 DEF TypeOK, Launch
<1>3. ASSUME NEW t \in Tasks, Start(t)
      PROVE  TypeOK'
  BY <1>3 DEF TypeOK, Start
<1>4. ASSUME NEW t \in Tasks, Finish(t)
      PROVE  TypeOK'
  <2>1. ASSUME NEW v \in Vars, \E k \in 1..last[v] : <<v, k>> \in writes[t]
        PROVE  (CHOOSE k \in 1..last[v] : <<v, k>> \in writes[t]) \in Nat
    <3>1. (CHOOSE k \in 1..last[v] : <<v, k>> \in writes[t]) \in 1..last[v]
      BY <2>1
    <3> QED
      BY <3>1 DEF TypeOK
  <2>2. mem' \in [Vars -> Nat]
    BY <1>4, <2>1 DEF TypeOK, Finish
  <2> QED
    BY <1>4, <2>2 DEF TypeOK, Finish
<1> QED
  BY <1>1, <1>2, <1>3, <1>4 DEF Next

(* A running task finds the version before its own in what it writes, so when it
   finishes it moves each such variable on by one. *)
LEMMA FinishMoves ==
  ASSUME TypeOK, Consistent, NEW t \in Tasks, Finish(t), NEW v \in Vars
  PROVE  /\ \A k \in Nat : <<v, k>> \in writes[t] => mem'[v] = k /\ mem[v] = k - 1 /\ k \in 1..last[v]
         /\ (~ \E k \in Nat : <<v, k>> \in writes[t]) => mem'[v] = mem[v]
<1>1. ASSUME NEW k \in Nat, <<v, k>> \in writes[t]
      PROVE  mem'[v] = k /\ mem[v] = k - 1 /\ k \in 1..last[v]
  <2>1. k \in 1..last[v]
    BY <1>1 DEF Consistent, OneWriter
  <2>2. \A j \in 1..last[v] : <<v, j>> \in writes[t] => j = k
    BY <1>1 DEF Consistent, OneWriter
  <2>3. (CHOOSE j \in 1..last[v] : <<v, j>> \in writes[t]) = k
    BY <1>1, <2>1, <2>2
  <2>4. mem'[v] = k
    BY <1>1, <2>1, <2>3 DEF Finish
  <2>5. mem[v] = k - 1
    BY <1>1 DEF Finish, Consistent, SerialReads
  <2> QED
    BY <2>1, <2>4, <2>5
<1>2. ASSUME ~ \E k \in Nat : <<v, k>> \in writes[t]
      PROVE  mem'[v] = mem[v]
  <2>1. ~ \E k \in 1..last[v] : <<v, k>> \in writes[t]
    BY <1>2 DEF TypeOK
  <2> QED
    BY <2>1 DEF Finish
<1> QED
  BY <1>1, <1>2

(***************************************************************************)
(* Consistent is inductive: one lemma per action.                          *)
(***************************************************************************)
(* A launch adds versions no task has, or reads of versions no task overwrites yet. *)
LEMMA LaunchConsistent ==
  ASSUME TypeOK, TypeOK', Consistent, NEW t \in Tasks, Launch(t)
  PROVE  Consistent'
<1> DEFINE Claim(W) == {<<v, last[v] + 1>> : v \in W \cup {t}}
<1>1. PICK R, W \in SUBSET Vars :
         /\ R \cap W = {} /\ t \notin R \cup W
         /\ reads' = [reads EXCEPT ![t] = {<<v, Current(v)>> : v \in R}]
         /\ writes' = [writes EXCEPT ![t] = Claim(W)]
         /\ last' = [v \in Vars |-> IF v \in W \cup {t} THEN last[v] + 1 ELSE last[v]]
  BY DEF Launch
<1>2. /\ phase[t] = "idle" /\ writes[t] = {} /\ reads[t] = {}
      /\ phase' = [phase EXCEPT ![t] = "pending"] /\ mem' = mem
  BY DEF Launch, Consistent, OneWriter
<1>3. /\ writes'[t] = Claim(W) /\ reads'[t] = {<<v, Current(v)>> : v \in R}
      /\ \A u \in Tasks \ {t} : writes'[u] = writes[u] /\ reads'[u] = reads[u] /\ phase'[u] = phase[u]
      /\ phase'[t] = "pending"
  BY <1>1, <1>2 DEF TypeOK
<1>4. /\ \A v \in W \cup {t} : v \in Vars /\ last'[v] = last[v] + 1
      /\ \A v \in Vars \ (W \cup {t}) : last'[v] = last[v]
      /\ \A v \in Vars : last[v] \in Nat /\ mem[v] \in Nat
  BY <1>1, DataflowAssumption DEF TypeOK
<1>5. \A c \in Claim(W) : c[1] \in W \cup {t} /\ c[1] \in Vars /\ c[2] = last[c[1]] + 1
  BY <1>4
<1>6. \A u \in Tasks : \A c \in writes[u] : c[1] \in Vars /\ c[2] \in Nat /\ c[2] \in 1..last[c[1]]
                                          /\ c = <<c[1], c[2]>>
  BY DEF TypeOK, Consistent, OneWriter
<1>7. \A u \in Tasks : \A c \in reads[u] : c[1] \in Vars /\ c[2] \in Nat
  BY DEF TypeOK
<1>8. OneWriter'
  <2>1. \A u \in Tasks : \A c \in writes'[u] : c[2] \in 1..last'[c[1]]
    BY <1>3, <1>4, <1>5, <1>6
  <2>2. ASSUME NEW v \in Vars, NEW k \in 1..last'[v]
        PROVE  \E u \in Tasks : <<v, k>> \in writes'[u]
    <3>1. CASE k \in 1..last[v]
      <4>1. PICK u \in Tasks : <<v, k>> \in writes[u]
        BY <3>1 DEF Consistent, OneWriter
      <4> QED
        BY <4>1, <1>2, <1>3
    <3>2. CASE k \notin 1..last[v]
      <4>1. v \in W \cup {t} /\ k = last[v] + 1
        BY <3>2, <1>4
      <4> QED
        BY <4>1, <1>3
    <3> QED
      BY <3>1, <3>2
  <2>3. ASSUME NEW u \in Tasks, NEW w \in Tasks, NEW c \in writes'[u], NEW e \in writes'[w], c = e
        PROVE  u = w
    <3>1. CASE u # t /\ w # t
      BY <2>3, <3>1, <1>3 DEF Consistent, OneWriter
    <3>2. CASE u = t /\ w # t
      BY <2>3, <3>2, <1>3, <1>4, <1>5, <1>6
    <3>3. CASE u # t /\ w = t
      BY <2>3, <3>3, <1>3, <1>4, <1>5, <1>6
    <3> QED
      BY <3>1, <3>2, <3>3
  <2>4. ASSUME NEW u \in Tasks, NEW c \in writes'[u], NEW e \in writes'[u], c[1] = e[1]
        PROVE  c = e
    <3>1. CASE u = t
      BY <2>4, <3>1, <1>3
    <3>2. CASE u # t
      BY <2>4, <3>2, <1>3 DEF Consistent, OneWriter
    <3> QED
      BY <3>1, <3>2
  <2>5. \A u \in Tasks : phase'[u] = "idle" => writes'[u] = {} /\ reads'[u] = {}
    BY <1>3 DEF Consistent, OneWriter
  <2> QED
    BY <2>1, <2>2, <2>3, <2>4, <2>5 DEF OneWriter
<1>9. WrittenInOrder'
  <2>1. ASSUME NEW u \in Tasks, NEW c \in writes'[u]
        PROVE  phase'[u] = "done" <=> c[2] <= mem[c[1]]
    <3>1. CASE u = t
      <4>1. c[2] = last[c[1]] + 1 /\ c[1] \in Vars
        BY <3>1, <1>3, <1>5
      <4>2. mem[c[1]] <= last[c[1]]
        BY <4>1 DEF Consistent, WrittenInOrder
      <4> QED
        BY <3>1, <4>1, <4>2, <1>3, <1>4
    <3>2. CASE u # t
      BY <3>2, <1>3 DEF Consistent, WrittenInOrder
    <3> QED
      BY <3>1, <3>2
  <2>2. \A v \in Vars : mem[v] <= last'[v]
    BY <1>4 DEF Consistent, WrittenInOrder
  <2> QED
    BY <2>1, <2>2, <1>2 DEF WrittenInOrder
<1>10. ReadersFirst'
  <2>1. SUFFICES ASSUME NEW u \in Tasks, NEW w \in Tasks, NEW c \in reads'[u],
                        phase'[u] # "done", <<c[1], c[2] + 1>> \in writes'[w]
                 PROVE  phase'[w] = "pending"
    BY DEF ReadersFirst
  <2>2. CASE w = t
    BY <2>2, <1>3
  <2>3. CASE w # t /\ u # t
    BY <2>1, <2>3, <1>3 DEF Consistent, ReadersFirst
  <2>4. CASE w # t /\ u = t
    <3>1. PICK v \in R : c = <<v, Current(v)>>
      BY <2>4, <1>3
    <3>2. Current(v) \in Nat /\ Current(v) >= last[v]
      BY <1>4 DEF Current
    <3>3. <<v, Current(v) + 1>> \in writes[w]
      BY <2>1, <2>4, <3>1, <1>3
    <3>4. Current(v) + 1 <= last[v]
      BY <3>3, <1>6, <1>4
    <3> QED
      BY <3>2, <3>4, <1>4
  <2> QED
    BY <2>2, <2>3, <2>4
<1>11. SerialReads'
  BY <1>2, <1>3 DEF Consistent, SerialReads
<1> QED
  BY <1>8, <1>9, <1>10, <1>11 DEF Consistent

(* A task starts after those it waits for, so it finds its versions in place. *)
LEMMA StartConsistent ==
  ASSUME TypeOK, TypeOK', Consistent, NEW t \in Tasks, Start(t)
  PROVE  Consistent'
<1>1. /\ phase[t] = "pending" /\ phase'[t] = "running"
      /\ \A u \in Tasks \ {t} : phase'[u] = phase[u]
      /\ reads' = reads /\ writes' = writes /\ last' = last /\ mem' = mem
  BY DEF Start, TypeOK
<1>2. \A u \in Tasks : After(t, u) => phase[u] = "done"
  BY DEF Start, Unblocked
<1>3. OneWriter'
  BY <1>1 DEF Consistent, OneWriter
<1>4. WrittenInOrder'
  <2>1. \A u \in Tasks : phase'[u] = "done" <=> phase[u] = "done"
    BY <1>1
  <2> QED
    BY <1>1, <2>1 DEF Consistent, WrittenInOrder
<1>5. ReadersFirst'
  <2>1. SUFFICES ASSUME NEW u \in Tasks, NEW w \in Tasks, NEW c \in reads[u],
                        phase'[u] # "done", <<c[1], c[2] + 1>> \in writes[w]
                 PROVE  phase'[w] = "pending"
    BY <1>1 DEF ReadersFirst
  <2>2. phase[u] # "done" /\ phase[w] = "pending"
    BY <2>1, <1>1 DEF Consistent, ReadersFirst
  <2>3. CASE w = t
    <3>1. c = <<c[1], c[2]>> /\ c[2] \in Nat
      BY <2>1 DEF TypeOK
    <3>2. <<c[1], (c[2] + 1) - 1>> = c
      BY <3>1
    <3>3. After(t, u)
      BY <2>1, <2>3, <3>2 DEF After
    <3> QED
      BY <3>3, <1>2, <2>2
  <2>4. CASE w # t
    BY <2>2, <2>4, <1>1
  <2> QED
    BY <2>3, <2>4
<1>6. ASSUME NEW c \in reads[t]
      PROVE  mem[c[1]] = c[2]
  <2>1. c[1] \in Vars /\ c[2] \in Nat /\ c = <<c[1], c[2]>> /\ mem[c[1]] \in Nat /\ last[c[1]] \in Nat
    BY DEF TypeOK
  <2>2. c[2] <= last[c[1]]
    BY DEF Start, Unblocked, Written
  <2>3. c[2] <= mem[c[1]]
    <3>1. CASE c[2] = 0
      BY <3>1, <2>1
    <3>2. CASE c[2] # 0
      <4>1. PICK u \in Tasks : <<c[1], c[2]>> \in writes[u]
        BY <2>1, <2>2, <3>2 DEF Consistent, OneWriter
      <4>2. After(t, u)
        BY <4>1, <2>1 DEF After
      <4>3. phase[u] = "done"
        BY <4>2, <1>2
      <4> QED
        BY <4>1, <4>3, <2>1 DEF Consistent, WrittenInOrder
    <3> QED
      BY <3>1, <3>2
  <2>4. ~ (mem[c[1]] >= c[2] + 1)
    <3>1. SUFFICES ASSUME mem[c[1]] >= c[2] + 1
                   PROVE  FALSE
      OBVIOUS
    <3>2. c[2] + 1 \in 1..last[c[1]]
      BY <3>1, <2>1 DEF Consistent, WrittenInOrder
    <3>3. PICK u \in Tasks : <<c[1], c[2] + 1>> \in writes[u]
      BY <3>2, <2>1 DEF Consistent, OneWriter
    <3>4. phase[u] = "pending"
      BY <3>3, <1>1 DEF Consistent, ReadersFirst
    <3>5. phase[u] = "done"
      BY <3>1, <3>3 DEF Consistent, WrittenInOrder
    <3> QED
      BY <3>4, <3>5
  <2> QED
    BY <2>1, <2>3, <2>4
<1>7. ASSUME NEW c \in writes[t]
      PROVE  mem[c[1]] = c[2] - 1
  <2>1. /\ c[1] \in Vars /\ c[2] \in Nat /\ c = <<c[1], c[2]>>
        /\ mem[c[1]] \in Nat /\ last[c[1]] \in Nat /\ c[2] \in 1..last[c[1]]
    BY DEF TypeOK, Consistent, OneWriter
  <2>2. mem[c[1]] < c[2]
    BY <1>1, <2>1 DEF Consistent, WrittenInOrder
  <2>3. c[2] - 1 <= mem[c[1]]
    <3>1. CASE c[2] = 1
      BY <3>1, <2>1
    <3>2. CASE c[2] # 1
      <4>1. c[2] - 1 \in 1..last[c[1]]
        BY <3>2, <2>1
      <4>2. PICK u \in Tasks : <<c[1], c[2] - 1>> \in writes[u]
        BY <4>1, <2>1 DEF Consistent, OneWriter
      <4>3. After(t, u)
        BY <4>2 DEF After
      <4>4. phase[u] = "done"
        BY <4>3, <1>2
      <4> QED
        BY <4>2, <4>4, <2>1 DEF Consistent, WrittenInOrder
    <3> QED
      BY <3>1, <3>2
  <2> QED
    BY <2>1, <2>2, <2>3
<1>8. SerialReads'
  <2>1. ASSUME NEW u \in Tasks, phase'[u] = "running"
        PROVE  /\ \A c \in reads[u] : mem[c[1]] = c[2]
               /\ \A c \in writes[u] : mem[c[1]] = c[2] - 1
    BY <2>1, <1>1, <1>6, <1>7 DEF Consistent, SerialReads
  <2> QED
    BY <2>1, <1>1 DEF SerialReads
<1> QED
  BY <1>3, <1>4, <1>5, <1>8 DEF Consistent

(* A finishing task is the next writer of each variable it writes, and nobody else is
   reading it or writing it. *)
LEMMA FinishConsistent ==
  ASSUME TypeOK, TypeOK', Consistent, NEW t \in Tasks, Finish(t)
  PROVE  Consistent'
<1>1. /\ phase[t] = "running" /\ phase'[t] = "done"
      /\ \A u \in Tasks \ {t} : phase'[u] = phase[u]
      /\ reads' = reads /\ writes' = writes /\ last' = last
  BY DEF Finish, TypeOK
<1>2. \A v \in Vars :
        /\ \A k \in Nat : <<v, k>> \in writes[t] => mem'[v] = k /\ mem[v] = k - 1 /\ k \in 1..last[v]
        /\ (~ \E k \in Nat : <<v, k>> \in writes[t]) => mem'[v] = mem[v]
  BY FinishMoves
<1>3. /\ \A u \in Tasks : \A c \in writes[u] \cup reads[u] :
           c[1] \in Vars /\ c[2] \in Nat /\ c = <<c[1], c[2]>>
      /\ \A v \in Vars : mem[v] \in Nat /\ mem'[v] \in Nat /\ last[v] \in Nat
  BY DEF TypeOK
<1>4. OneWriter'
  BY <1>1 DEF Consistent, OneWriter
<1>5. WrittenInOrder'
  <2>1. ASSUME NEW u \in Tasks, NEW c \in writes[u]
        PROVE  phase'[u] = "done" <=> c[2] <= mem'[c[1]]
    <3>1. CASE u = t
      BY <3>1, <1>1, <1>2, <1>3
    <3>2. CASE u # t /\ \E k \in Nat : <<c[1], k>> \in writes[t]
      <4>1. PICK k \in Nat : <<c[1], k>> \in writes[t]
        BY <3>2
      <4>2. mem'[c[1]] = k /\ mem[c[1]] = k - 1
        BY <4>1, <1>2, <1>3
      <4>3. c[2] # k
        BY <4>1, <3>2, <1>3 DEF Consistent, OneWriter
      <4>4. phase[u] = "done" <=> c[2] <= mem[c[1]]
        BY DEF Consistent, WrittenInOrder
      <4> QED
        BY <3>2, <4>2, <4>3, <4>4, <1>1, <1>3
    <3>3. CASE u # t /\ ~ \E k \in Nat : <<c[1], k>> \in writes[t]
      <4>1. mem'[c[1]] = mem[c[1]]
        BY <3>3, <1>2, <1>3
      <4> QED
        BY <3>3, <4>1, <1>1 DEF Consistent, WrittenInOrder
    <3> QED
      BY <3>1, <3>2, <3>3
  <2>2. ASSUME NEW v \in Vars
        PROVE  mem'[v] <= last[v]
    <3>1. CASE \E k \in Nat : <<v, k>> \in writes[t]
      <4>1. PICK k \in Nat : <<v, k>> \in writes[t]
        BY <3>1
      <4>2. mem'[v] = k /\ k \in 1..last[v]
        BY <4>1, <1>2
      <4> QED
        BY <4>2, <1>3
    <3>2. CASE ~ \E k \in Nat : <<v, k>> \in writes[t]
      <4>1. mem'[v] = mem[v]
        BY <3>2, <1>2
      <4> QED
        BY <4>1 DEF Consistent, WrittenInOrder
    <3> QED
      BY <3>1, <3>2
  <2> QED
    BY <2>1, <2>2, <1>1 DEF WrittenInOrder
<1>6. ReadersFirst'
  <2>1. SUFFICES ASSUME NEW u \in Tasks, NEW w \in Tasks, NEW c \in reads[u],
                        phase'[u] # "done", <<c[1], c[2] + 1>> \in writes[w]
                 PROVE  phase'[w] = "pending"
    BY <1>1 DEF ReadersFirst
  <2>2. u # t /\ phase[u] # "done" /\ phase[w] = "pending"
    BY <2>1, <1>1 DEF Consistent, ReadersFirst
  <2> QED
    BY <2>2, <1>1
<1>7. ASSUME NEW u \in Tasks, u # t, phase[u] = "running", NEW c \in reads[u] \cup writes[u]
      PROVE  mem'[c[1]] = mem[c[1]]
  <2>1. SUFFICES ASSUME NEW k \in Nat, <<c[1], k>> \in writes[t]
                 PROVE  FALSE
    <3>1. c[1] \in Vars
      BY <1>3
    <3>2. (~ \E k \in Nat : <<c[1], k>> \in writes[t]) => mem'[c[1]] = mem[c[1]]
      BY <3>1, <1>2
    <3> QED
      BY <3>2
  <2>2. mem[c[1]] = k - 1
    BY <2>1, <1>2, <1>3
  <2>3. CASE c \in reads[u]
    <3>1. c[2] = k - 1
      BY <2>2, <2>3, <1>7 DEF Consistent, SerialReads
    <3>2. <<c[1], c[2] + 1>> \in writes[t]
      BY <3>1, <2>1, <1>3
    <3> QED
      BY <3>2, <2>3, <1>7, <1>1 DEF Consistent, ReadersFirst
  <2>4. CASE c \in writes[u]
    <3>1. c[2] = k
      BY <2>2, <2>4, <1>3, <1>7 DEF Consistent, SerialReads
    <3>2. c \in writes[t]
      BY <3>1, <2>1, <2>4, <1>3
    <3> QED
      BY <3>2, <2>4, <1>7 DEF Consistent, OneWriter
  <2> QED
    BY <1>7, <2>3, <2>4
<1>8. SerialReads'
  <2>1. ASSUME NEW u \in Tasks, phase'[u] = "running"
        PROVE  /\ \A c \in reads[u] : mem'[c[1]] = c[2]
               /\ \A c \in writes[u] : mem'[c[1]] = c[2] - 1
    <3>1. u # t /\ phase[u] = "running"
      BY <2>1, <1>1
    <3> QED
      BY <3>1, <1>7 DEF Consistent, SerialReads
  <2> QED
    BY <2>1, <1>1 DEF SerialReads
<1> QED
  BY <1>4, <1>5, <1>6, <1>8 DEF Consistent

LEMMA InitConsistent == Init => TypeOK /\ Consistent
  BY DataflowAssumption
     DEF Init, TypeOK, Consistent, OneWriter, WrittenInOrder, ReadersFirst, SerialReads

LEMMA NextConsistent ==
  ASSUME TypeOK, Consistent, [Next]_vars
  PROVE  TypeOK' /\ Consistent'
<1>1. TypeOK'
  BY TypeStep
<1>2. CASE UNCHANGED vars
  BY <1>1, <1>2 DEF vars, Consistent, OneWriter, WrittenInOrder, ReadersFirst, SerialReads
<1>3. CASE Next
  BY <1>1, <1>3, LaunchConsistent, StartConsistent, FinishConsistent DEF Next
<1> QED
  BY <1>1, <1>2, <1>3

(***************************************************************************)
(* The theorems                                                            *)
(***************************************************************************)
(* Types, claims and versions stay consistent: the inductive invariant. *)
THEOREM ConsistentAlways == Spec => [](TypeOK /\ Consistent)
  BY InitConsistent, NextConsistent, PTL DEF Spec

(* Every variable keeps its type: versions are numbers, and a task reads and writes versions
   of variables that exist. *)
THEOREM Typed == Spec => []TypeOK
  BY ConsistentAlways, PTL

(* Whatever order the tasks run in, each body works on the versions of program order. *)
THEOREM Serializable == Spec => []SerialReads
<1>1. TypeOK /\ Consistent => SerialReads
  BY DEF Consistent
<1> QED
  BY <1>1, ConsistentAlways, PTL

(* Two bodies that run together do not touch a variable one of them writes. *)
THEOREM ConflictFree == Spec => []NoConflict
<1>1. ASSUME TypeOK, Consistent
      PROVE  NoConflict
  <2>1. SUFFICES ASSUME NEW t \in Tasks, NEW u \in Tasks, t # u,
                        phase[t] = "running", phase[u] = "running",
                        NEW c \in writes[t], NEW d \in reads[u] \cup writes[u], c[1] = d[1]
                 PROVE  FALSE
    BY DEF NoConflict
  <2>2. /\ c = <<c[1], c[2]>> /\ d = <<d[1], d[2]>> /\ c[2] \in Nat /\ d[2] \in Nat
        /\ mem[c[1]] \in Nat
    BY <1>1, <2>1 DEF TypeOK
  <2>3. mem[c[1]] = c[2] - 1
    BY <1>1, <2>1 DEF Consistent, SerialReads
  <2>4. CASE d \in writes[u]
    <3>1. c = d
      BY <1>1, <2>1, <2>2, <2>3, <2>4 DEF Consistent, SerialReads
    <3> QED
      BY <1>1, <2>1, <2>4, <3>1 DEF Consistent, OneWriter
  <2>5. CASE d \in reads[u]
    <3>1. <<d[1], d[2] + 1>> \in writes[t]
      BY <1>1, <2>1, <2>2, <2>3, <2>5 DEF Consistent, SerialReads
    <3> QED
      BY <1>1, <2>1, <2>5, <3>1 DEF Consistent, ReadersFirst
  <2> QED
    BY <2>1, <2>4, <2>5
<1> QED
  BY <1>1, ConsistentAlways, PTL

(* Each variable goes through its versions one by one. *)
THEOREM VersionsInTurn == Spec => NoLostVersion
<1>1. ASSUME TypeOK, Consistent, [Next]_vars
      PROVE  [\A v \in Vars : mem'[v] \in {mem[v], mem[v] + 1}]_vars
  <2>1. ASSUME NEW t \in Tasks, Finish(t), NEW v \in Vars
        PROVE  mem'[v] \in {mem[v], mem[v] + 1}
    <3>1. /\ \A k \in Nat : <<v, k>> \in writes[t] => mem'[v] = k /\ mem[v] = k - 1
          /\ (~ \E k \in Nat : <<v, k>> \in writes[t]) => mem'[v] = mem[v]
      BY <1>1, <2>1, FinishMoves
    <3>2. mem[v] \in Nat
      BY <1>1 DEF TypeOK
    <3>3. CASE \E k \in Nat : <<v, k>> \in writes[t]
      <4>1. PICK k \in Nat : <<v, k>> \in writes[t]
        BY <3>3
      <4>2. mem'[v] = k /\ mem[v] = k - 1
        BY <4>1, <3>1
      <4> QED
        BY <4>2, <3>2
    <3>4. CASE ~ \E k \in Nat : <<v, k>> \in writes[t]
      BY <3>1, <3>4
    <3> QED
      BY <3>3, <3>4
  <2>2. \A t \in Tasks : Launch(t) \/ Start(t) => mem' = mem
    BY DEF Launch, Start
  <2> QED
    BY <1>1, <2>1, <2>2 DEF Next
<1> QED
  BY <1>1, ConsistentAlways, PTL DEF Spec, NoLostVersion
=============================================================================
