------------------------------ MODULE Dataflow ------------------------------
(***************************************************************************)
(* What oox promises of a graph of tasks (README.md, "out-of-order         *)
(* execution"): tasks launched in program order run in any order and at    *)
(* the same time, and still every task reads and overwrites the versions   *)
(* of its variables that it would have met if the program were serial.     *)
(***************************************************************************)
EXTENDS Integers

CONSTANTS Tasks,     \* what oox::run launches
          Vars,      \* the variables; a task is also the variable of its result
          Deferred   \* the variables that start without a value

ASSUME DataflowAssumption == Tasks \subseteq Vars /\ Deferred \subseteq Vars \ Tasks

VARIABLES phase,   \* idle, pending, running or done
          reads,   \* the <<variable, version>> pairs each task reads
          writes,  \* the <<variable, version>> pairs each task produces
          last,    \* the newest version launched, per variable
          mem      \* the version each variable holds

vars == <<phase, reads, writes, last, mem>>

Init ==
  /\ phase = [t \in Tasks |-> "idle"]
  /\ reads = [t \in Tasks |-> {}]
  /\ writes = [t \in Tasks |-> {}]
  /\ last = [v \in Vars |-> 0]
  /\ mem = [v \in Vars |-> 0]

(* oox::run(f, args...): the arguments are bound to versions in program order.  A reader
   of a deferred variable waits for its first writer.  Mutant: the version before. *)
CurrentBefore(v) == IF v \in Deferred /\ last[v] = 0 THEN 1 ELSE last[v] - 1
Current(v) == IF v \in Deferred /\ last[v] = 0 THEN 1 ELSE last[v]

Launch(t) ==
  /\ phase[t] = "idle"
  /\ phase' = [phase EXCEPT ![t] = "pending"]
  /\ \E R, W \in SUBSET Vars :
       /\ R \cap W = {} /\ t \notin R \cup W
       /\ \A v \in R \cup W : v \in Tasks => phase[v] # "idle"
       /\ reads' = [reads EXCEPT ![t] = {<<v, Current(v)>> : v \in R}]
       /\ writes' = [writes EXCEPT ![t] = {<<v, last[v] + 1>> : v \in W \cup {t}}]
       /\ last' = [v \in Vars |-> IF v \in W \cup {t} THEN last[v] + 1 ELSE last[v]]
  /\ UNCHANGED mem

(* Mutants: t does not wait for the readers of what it overwrites; nor for what it reads. *)
AfterNoReaders(t, u) ==
  \/ \E c \in reads[t] : c \in writes[u]
  \/ \E c \in writes[t] : <<c[1], c[2] - 1>> \in writes[u]
AfterNoWriters(t, u) ==
  \E c \in writes[t] : <<c[1], c[2] - 1>> \in reads[u]

(* t waits for u: for the version it reads or overwrites, and for those who still read
   the version it overwrites. *)
After(t, u) ==
  \/ \E c \in reads[t] : c \in writes[u]
  \/ \E c \in writes[t] : <<c[1], c[2] - 1>> \in writes[u] \cup reads[u]

(* A version nobody has been launched to write yet is not there. *)
Written(t) == \A c \in reads[t] : c[2] <= last[c[1]]

Unblocked(t) == Written(t) /\ \A u \in Tasks : After(t, u) => phase[u] = "done"

Start(t) ==
  /\ phase[t] = "pending"
  /\ phase' = [phase EXCEPT ![t] = "running"]
  /\ Unblocked(t)
  /\ UNCHANGED <<reads, writes, last, mem>>

Finish(t) ==
  /\ phase[t] = "running"
  /\ phase' = [phase EXCEPT ![t] = "done"]
  /\ mem' = [v \in Vars |-> IF \E k \in 1..last[v] : <<v, k>> \in writes[t]
                            THEN CHOOSE k \in 1..last[v] : <<v, k>> \in writes[t]
                            ELSE mem[v]]
  /\ UNCHANGED <<reads, writes, last>>

Next == \E t \in Tasks : Launch(t) \/ Start(t) \/ Finish(t)

Spec == Init /\ [][Next]_vars

TypeOK ==
  /\ phase \in [Tasks -> {"idle", "pending", "running", "done"}]
  /\ reads \in [Tasks -> SUBSET (Vars \X Nat)]
  /\ writes \in [Tasks -> SUBSET (Vars \X Nat)]
  /\ last \in [Vars -> Nat]
  /\ mem \in [Vars -> Nat]

(***************************************************************************)
(* Properties                                                              *)
(***************************************************************************)
(* For as long as a body runs, each variable it reads holds the version the serial
   program would have shown it, and each one it overwrites the version before its own. *)
SerialReads ==
  \A t \in Tasks : phase[t] = "running" =>
    /\ \A c \in reads[t] : mem[c[1]] = c[2]
    /\ \A c \in writes[t] : mem[c[1]] = c[2] - 1

(* No body runs together with another that writes what it reads or writes. *)
NoConflict ==
  \A t, u \in Tasks : t # u /\ phase[t] = "running" /\ phase[u] = "running" =>
    \A c \in writes[t], d \in reads[u] \cup writes[u] : c[1] # d[1]

(* A variable never goes back to an older version, nor skips one. *)
NoLostVersion == [][\A v \in Vars : mem'[v] \in {mem[v], mem[v] + 1}]_vars

(***************************************************************************)
(* Why SerialReads holds: what every launched task has claimed, and how    *)
(* the versions a variable went through follow the tasks done.             *)
(***************************************************************************)
(* Each version from 1 to the last has one writer, which writes no other of its variable. *)
OneWriter ==
  /\ \A t \in Tasks : \A c \in writes[t] : c[2] \in 1..last[c[1]]
  /\ \A v \in Vars : \A k \in 1..last[v] : \E t \in Tasks : <<v, k>> \in writes[t]
  /\ \A t, u \in Tasks : \A c \in writes[t], d \in writes[u] : c = d => t = u
  /\ \A t \in Tasks : \A c, d \in writes[t] : c[1] = d[1] => c = d
  /\ \A t \in Tasks : phase[t] = "idle" => writes[t] = {} /\ reads[t] = {}

(* A variable holds version k exactly when the writers up to k are done. *)
WrittenInOrder ==
  /\ \A t \in Tasks : \A c \in writes[t] : phase[t] = "done" <=> c[2] <= mem[c[1]]
  /\ \A v \in Vars : mem[v] <= last[v]

(* Nobody starts to overwrite a version that is still to be read. *)
ReadersFirst ==
  \A t, u \in Tasks : \A c \in reads[t] :
    phase[t] # "done" /\ <<c[1], c[2] + 1>> \in writes[u] => phase[u] = "pending"

Consistent == OneWriter /\ WrittenInOrder /\ ReadersFirst /\ SerialReads
=============================================================================
