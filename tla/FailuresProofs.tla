---------------------------- MODULE FailuresProofs ----------------------------
(***************************************************************************)
(* A cancellation that has returned is seen by the task before its body    *)
(* starts, in any program: from the call on, either the bit is in the      *)
(* task's word or the call still has it in hand, and no step of the engine *)
(* takes the bit out of a task that has not run.                           *)
(***************************************************************************)
EXTENDS FailuresProps, StacksProofs, TLAPS

Arc  == [kind : {"flow"}, node : Tasks, port : Nat] \cup {Signal(c) : c \in Tasks}
ArcHead == [tag : {"open", "done", "terminal"}, arcs : Seq(Arc)]
Word == [count : Int, bits : SUBSET Bits]

(* What a thread may have left to do, by the shape of the frame. *)
Frame ==
  [op : {"mark"}, node : Tasks, bit : Bits]
  \cup [op : {"set"}, node : Tasks, bit : Bits, word : Word]
  \cup [op : {"signal"}, node : Tasks, control : Tasks]
  \cup [op : {"drop"}, control : Tasks]
  \cup [op : {"link", "late", "failure"}, node : Tasks, from : Tasks, port : Nat]
  \cup [op : {"notify", "failure"}, node : Tasks, from : Tasks, port : Nat, failed : BOOLEAN]
  \cup [op : {"pre"}, node : Tasks, k : Int]
  \cup [op : {"exchange"}, node : Tasks, failed : BOOLEAN]
  \cup [op : {"publish", "return", "start", "functor", "attach", "look", "wakeup",
              "wait", "block", "status"}, node : Tasks]

(* The body of t has not been reached. *)
Ahead(t) == body[t] \in {"idle", "pending"}

(* Only a task whose body is behind it completes. *)
Fit == {f \in Frame : f.op = "exchange" => ~Ahead(f.node)}

Types ==
  /\ prog \in DOMAIN Programs
  /\ head \in [Tasks -> ArcHead]
  /\ word \in [Tasks -> Word] /\ owed \in [Tasks -> Int]
  /\ body \in [Tasks -> {"idle", "pending", "running", "attached", "forwarding",
                         "value", "threw", "skipped"}]
  /\ cancelled \subseteq Tasks

Frames == todo \in [Threads -> Seq(Fit)]

(* Nobody closes the list of a task before its body. *)
OpenAhead == \A t \in Tasks : Ahead(t) => ~IsDone(t)

(* User x has the cancellation of t still in hand. *)
InHand(x, t) ==
  \E i \in DOMAIN todo[x] : todo[x][i].op \in {"mark", "set"} /\ todo[x][i].node = t
                            /\ todo[x][i].bit = "user"

(* A task that a user has cancelled carries the mark, or will, unless it is past that. *)
Marked ==
  \A t \in cancelled :
    /\ body[t] # "idle"
    /\ body[t] = "pending" => Has(t, "user") \/ \E x \in Users : InHand(x, t)

Inv == Types /\ Frames /\ OpenAhead /\ Marked

(***************************************************************************)
(* Sequences of frames                                                     *)
(***************************************************************************)
LEMMA Apart ==
  /\ Users \subseteq Threads /\ Tasks \subseteq Threads /\ Users \cap Tasks = {}
  /\ Tasks \subseteq Nat \ {0} /\ NoTask \notin Tasks /\ Launcher \in Users
  BY FailuresAssumption DEF Threads, NoTask

LEMMA Element ==
  ASSUME NEW S, NEW s \in Seq(S), NEW i \in DOMAIN s
  PROVE  s[i] \in S
  OBVIOUS

LEMMA Grows ==
  ASSUME NEW S, NEW T, S \subseteq T, NEW s \in Seq(S)
  PROVE  s \in Seq(T)
  OBVIOUS

LEMMA GoOn ==
  ASSUME NEW S, NEW s \in Seq(S), s # <<>>, NEW r \in Seq(S)
  PROVE  /\ r \o Tail(s) \in Seq(S) /\ Head(s) \in S
         /\ DOMAIN s = 1..Len(s) /\ Len(s) \in Nat /\ Len(r) \in Nat
         /\ s[1] = Head(s) /\ 1 \in DOMAIN s
         /\ \A i \in DOMAIN s : i # 1 => /\ (Len(r) + i - 1) \in DOMAIN (r \o Tail(s))
                                         /\ (r \o Tail(s))[Len(r) + i - 1] = s[i]
  OBVIOUS

LEMMA Short ==
  ASSUME NEW S
  PROVE  /\ <<>> \in Seq(S)
         /\ \A f \in S : <<f>> \in Seq(S)
         /\ \A f, g \in S : <<f, g>> \in Seq(S)
         /\ \A r, s \in Seq(S) : r \o s \in Seq(S)
  OBVIOUS

(* An arc is a flow of its node at a port or a signal of it. *)
LEMMA ArcKinds ==
  ASSUME NEW a \in Arc
  PROVE  /\ a.node \in Tasks /\ a.port \in Nat /\ a.kind \in {"flow", "signal"}
         /\ a.kind = "signal" <=> a = Signal(a.node)
         /\ a.kind = "flow" <=> a = Flow(a.node, a.port)
<1>1. CASE a \in [kind : {"flow"}, node : Tasks, port : Nat]
  BY <1>1 DEF Flow, Signal
<1>2. ASSUME NEW c \in Tasks, a = Signal(c)
      PROVE  /\ a.node = c /\ a.port = 0 /\ a.kind = "signal" /\ a = Signal(a.node)
             /\ a # Flow(a.node, a.port)
  BY <1>2 DEF Flow, Signal
<1> QED
  BY <1>1, <1>2 DEF Arc

(* The frame a thread is in. *)
LEMMA CurFit ==
  ASSUME Frames, NEW x \in Threads, todo[x] # <<>>
  PROVE  Cur(x) \in Fit /\ Cur(x) \in Frame
<1>1. todo[x] \in Seq(Fit)
  BY DEF Frames
<1>2. Cur(x) \in Fit
  BY <1>1, GoOn DEF Cur
<1> QED
  BY <1>2 DEF Fit

(* Frames that fit while bodies go on. *)
LEMMA FitStays ==
  ASSUME \A t \in Tasks : Ahead(t)' => Ahead(t)
  PROVE  Fit \subseteq Fit'
<1>1. ASSUME NEW f \in Fit
      PROVE  f \in Fit'
  <2>1. f.op = "exchange" => f.node \in Tasks
    BY DEF Fit, Frame
  <2> QED
    BY <2>1 DEF Fit
<1> QED
  BY <1>1

(***************************************************************************)
(* What a step has to leave as it was                                      *)
(***************************************************************************)
(* A thread that goes on with frames that fit leaves every thread with such frames. *)
LEMMA ThenFrames ==
  ASSUME Frames, NEW x \in Threads, todo[x] # <<>>, NEW fs \in Seq(Fit'), Then(x, fs),
         \A t \in Tasks : Ahead(t)' => Ahead(t)
  PROVE  Frames'
<1>1. todo \in [Threads -> Seq(Fit)] /\ Fit \subseteq Fit'
  BY FitStays DEF Frames
<1>2. ASSUME NEW y \in Threads
      PROVE  todo[y] \in Seq(Fit')
  <2>1. todo[y] \in Seq(Fit)
    BY <1>1
  <2> QED
    BY <1>1, <2>1, Grows
<1>3. fs \o Tail(todo[x]) \in Seq(Fit')
  BY <1>2, GoOn
<1>4. todo' = [todo EXCEPT ![x] = fs \o Tail(todo[x])]
  BY DEF Then
<1> QED
  BY <1>1, <1>2, <1>3, <1>4 DEF Frames

(* A cancellation in hand stays there while its thread does something else. *)
LEMMA HandKept ==
  ASSUME Frames, NEW x \in Threads, todo[x] # <<>>, NEW S, NEW fs \in Seq(S),
         NEW y \in Threads, todo'[y] = IF y = x THEN fs \o Tail(todo[x]) ELSE todo[y],
         NEW t \in Tasks, InHand(y, t),
         y = x => Cur(x).op \notin {"mark", "set"} \/ Cur(x).node # t \/ Cur(x).bit # "user"
  PROVE  InHand(y, t)'
<1>1. todo \in [Threads -> Seq(Fit)]
  BY DEF Frames
<1>2. PICK i \in DOMAIN todo[y] : todo[y][i].op \in {"mark", "set"} /\ todo[y][i].node = t
                                  /\ todo[y][i].bit = "user"
  BY DEF InHand
<1>3. CASE y # x
  <2>1. todo'[y] = todo[y]
    BY <1>3
  <2> QED
    BY <1>2, <2>1 DEF InHand
<1>4. CASE y = x
  <2> DEFINE U == S \cup Fit
             j == Len(fs) + i - 1
  <2>1. todo[x] \in Seq(Fit)
    BY <1>1
  <2>2. todo[x] \in Seq(U) /\ fs \in Seq(U)
    BY <2>1, Grows
  <2>3. i # 1
    BY <1>2, <1>4, <2>1, GoOn DEF Cur
  <2>4. j \in DOMAIN (fs \o Tail(todo[x])) /\ (fs \o Tail(todo[x]))[j] = todo[x][i]
    <3> HIDE DEF U
    <3>1. PICK s \in Seq(U) : s = todo[x]
      BY <2>2
    <3>2. s # <<>> /\ i \in DOMAIN s
      BY <1>2, <1>4, <3>1
    <3>3. Len(fs) + i - 1 \in DOMAIN (fs \o Tail(s)) /\ (fs \o Tail(s))[Len(fs) + i - 1] = s[i]
      BY <2>2, <2>3, <3>2, GoOn
    <3> QED
      BY <3>1, <3>3
  <2>5. todo'[x] = fs \o Tail(todo[x])
    BY <1>4
  <2> QED
    BY <1>2, <1>4, <2>4, <2>5 DEF InHand
<1> QED
  BY <1>3, <1>4

(* A step that neither marks anyone nor takes a mark from a task to come. *)
LEMMA MarkedKept ==
  ASSUME Inv, NEW x \in Threads, todo[x] # <<>>, NEW S, NEW fs \in Seq(S),
         \A y \in Users : todo'[y] = IF y = x THEN fs \o Tail(todo[x]) ELSE todo[y],
         Cur(x).op \notin {"mark", "set"}, cancelled' = cancelled,
         \A t \in Tasks : /\ Ahead(t)' => Ahead(t) /\ body'[t] = body[t]
                          /\ body[t] = "pending" /\ Ahead(t)' => word'[t].bits = word[t].bits
  PROVE  Marked'
<1>1. SUFFICES ASSUME NEW t \in cancelled'
               PROVE  /\ body'[t] # "idle"
                      /\ body'[t] = "pending" => Has(t, "user")' \/ \E y \in Users : InHand(y, t)'
  BY DEF Marked
<1>2. t \in Tasks /\ t \in cancelled
  BY <1>1 DEF Inv, Types
<1>3. body'[t] # "idle"
  BY <1>2 DEF Inv, Marked, Ahead
<1>4. ASSUME body'[t] = "pending"
      PROVE  Has(t, "user")' \/ \E y \in Users : InHand(y, t)'
  <2>1. body[t] = "pending" /\ word'[t].bits = word[t].bits
    BY <1>2, <1>4 DEF Ahead
  <2>2. CASE Has(t, "user")
    BY <2>1, <2>2 DEF Has
  <2>3. CASE \E y \in Users : InHand(y, t)
    <3>1. PICK y \in Users : InHand(y, t)
      BY <2>3
    <3>2. InHand(y, t)'
      BY <1>2, <3>1, HandKept, Apart DEF Inv
    <3> QED
      BY <3>2
  <2> QED
    BY <1>2, <2>1, <2>2, <2>3 DEF Inv, Marked
<1> QED
  BY <1>3, <1>4

LEMMA ThenElse ==
  ASSUME Frames, NEW x \in Threads, NEW fs, Then(x, fs), NEW y \in Threads
  PROVE  todo'[y] = IF y = x THEN fs \o Tail(todo[x]) ELSE todo[y]
  BY DEF Frames, Then

(* What such a step needs beside its types. *)
LEMMA OtherStep ==
  ASSUME Inv, NEW x \in Threads, todo[x] # <<>>, NEW fs \in Seq(Fit'), Then(x, fs),
         Cur(x).op \notin {"mark", "set"}, cancelled' = cancelled, Types', OpenAhead',
         \A t \in Tasks : /\ Ahead(t)' => Ahead(t) /\ body'[t] = body[t]
                          /\ body[t] = "pending" /\ Ahead(t)' => word'[t].bits = word[t].bits
  PROVE  Inv'
<1>1. Frames'
  BY ThenFrames DEF Inv
<1>2. \A y \in Users : todo'[y] = IF y = x THEN fs \o Tail(todo[x]) ELSE todo[y]
  BY ThenElse, Apart DEF Inv
<1>3. Marked'
  <2> DEFINE S == Fit'
  <2>1. fs \in Seq(S)
    OBVIOUS
  <2> HIDE DEF S
  <2> QED
    BY <1>2, <2>1, MarkedKept
<1> QED
  BY <1>1, <1>3 DEF Inv

(* A step that leaves words, lists and bodies alone and hands out frames that fit. *)
LEMMA QuietStep ==
  ASSUME Inv, NEW x \in Threads, todo[x] # <<>>, NEW fs \in Seq(Fit), Then(x, fs),
         Cur(x).op \notin {"mark", "set"},
         UNCHANGED <<prog, head, word, owed, body, cancelled>>
  PROVE  Inv'
<1>1. Types' /\ OpenAhead'
  BY DEF Inv, Types, OpenAhead, Ahead, IsDone
<1>2. \A t \in Tasks : /\ Ahead(t)' => Ahead(t) /\ body'[t] = body[t]
                       /\ word'[t].bits = word[t].bits
  BY DEF Ahead
<1>3. Fit' = Fit
  BY DEF Fit, Ahead
<1> QED
  BY <1>1, <1>2, <1>3, OtherStep

(***************************************************************************)
(* Kinds of frames                                                         *)
(***************************************************************************)
Simple == {"publish", "return", "start", "functor", "attach", "look", "wakeup",
           "wait", "block", "status"}

(* Those that are not of a completion fit at any time. *)
LEMMA Kinds ==
  ASSUME NEW t \in Tasks, NEW u \in Tasks, NEW b \in Bits, NEW p \in Nat, NEW k \in Int,
         NEW e \in BOOLEAN, NEW w \in Word
  PROVE  /\ Mark(t, b) \in Fit /\ Carry(t, u) \in Fit
         /\ [op |-> "set", node |-> t, bit |-> b, word |-> w] \in Fit
         /\ [op |-> "drop", control |-> u] \in Fit
         /\ [op |-> "pre", node |-> t, k |-> k] \in Fit
         /\ [op |-> "notify", node |-> t, from |-> u, port |-> p, failed |-> e] \in Fit
         /\ [op |-> "failure", node |-> t, from |-> u, port |-> p, failed |-> e] \in Fit
<1>1. Mark(t, b) \in Fit
  BY DEF Mark, Fit, Frame
<1>2. Carry(t, u) \in Fit
  BY DEF Carry, Fit, Frame
<1>3. [op |-> "set", node |-> t, bit |-> b, word |-> w] \in Fit
  BY DEF Fit, Frame
<1>4. [op |-> "drop", control |-> u] \in Fit
  BY DEF Fit, Frame
<1>5. [op |-> "pre", node |-> t, k |-> k] \in Fit
  BY DEF Fit, Frame
<1>6. [op |-> "notify", node |-> t, from |-> u, port |-> p, failed |-> e] \in Fit
  BY DEF Fit, Frame
<1>7. [op |-> "failure", node |-> t, from |-> u, port |-> p, failed |-> e] \in Fit
  BY DEF Fit, Frame
<1> QED
  BY <1>1, <1>2, <1>3, <1>4, <1>5, <1>6, <1>7

LEMMA SimpleKinds ==
  ASSUME NEW t \in Tasks, NEW o \in Simple
  PROVE  [op |-> o, node |-> t] \in Fit
  BY DEF Fit, Frame, Simple

LEMMA LinkKinds ==
  ASSUME NEW t \in Tasks, NEW u \in Tasks, NEW p \in Nat, NEW o \in {"link", "late", "failure"}
  PROVE  [op |-> o, node |-> t, from |-> u, port |-> p] \in Fit
  BY DEF Fit, Frame

(* Completion fits a task whose body is behind it. *)
LEMMA CompleteKinds ==
  ASSUME NEW t \in Tasks, ~Ahead(t), NEW e \in BOOLEAN
  PROVE  Complete(t, e) \in Seq(Fit)
<1>1. [op |-> "exchange", node |-> t, failed |-> e] \in Fit
  BY DEF Fit, Frame
<1>2. [op |-> "wakeup", node |-> t] \in Fit
  BY SimpleKinds DEF Simple
<1> QED
  BY <1>1, <1>2, Short DEF Complete

(* What a frame says, by its kind. *)
LEMMA Says ==
  ASSUME NEW f \in Frame
  PROVE  /\ f.op \in Simple \cup {"mark", "set", "signal", "link", "late", "failure", "notify",
                                  "pre", "exchange"} => f.node \in Tasks
         /\ f.op = "mark" => f.bit \in Bits
         /\ f.op = "set" => f.bit \in Bits
         /\ f.op \in {"signal", "drop"} => f.control \in Tasks
         /\ f.op \in {"link", "late", "failure", "notify"} => f.from \in Tasks /\ f.port \in Nat
         /\ f.op \in {"link", "late"} =>
              \A o \in {"late", "failure"} : [f EXCEPT !.op = o] \in Fit
         /\ f.op = "notify" => f.failed \in BOOLEAN /\ [f EXCEPT !.op = "failure"] \in Fit
         /\ f.op = "pre" => f.k \in Int
         /\ f.op = "exchange" => f.failed \in BOOLEAN
<1>1. f.op \in Simple \cup {"mark", "set", "signal", "link", "late", "failure", "notify",
                            "pre", "exchange"} => f.node \in Tasks
  BY DEF Frame, Simple
<1>2. /\ f.op = "mark" => f.bit \in Bits
      /\ f.op = "set" => f.bit \in Bits
      /\ f.op \in {"signal", "drop"} => f.control \in Tasks
  BY DEF Frame
<1>3. /\ f.op \in {"link", "late", "failure", "notify"} => f.from \in Tasks /\ f.port \in Nat
      /\ f.op = "pre" => f.k \in Int
      /\ f.op = "exchange" => f.failed \in BOOLEAN
      /\ f.op = "notify" => f.failed \in BOOLEAN
  BY DEF Frame
<1>4. f.op \in {"link", "late"} => \A o \in {"late", "failure"} : [f EXCEPT !.op = o] \in Fit
  <2>1. SUFFICES ASSUME f.op \in {"link", "late"}, NEW o \in {"late", "failure"}
                 PROVE  [f EXCEPT !.op = o] \in Fit
    OBVIOUS
  <2>2. f \in [op : {"link", "late", "failure"}, node : Tasks, from : Tasks, port : Nat]
    BY <2>1 DEF Frame
  <2>3. [f EXCEPT !.op = o] = [op |-> o, node |-> f.node, from |-> f.from, port |-> f.port]
    BY <2>2
  <2>4. f.node \in Tasks /\ f.from \in Tasks /\ f.port \in Nat /\ o \in {"link", "late", "failure"}
    BY <2>2
  <2>5. [op |-> o, node |-> f.node, from |-> f.from, port |-> f.port] \in Fit
    BY <2>4, LinkKinds
  <2> QED
    BY <2>3, <2>5
<1>5. f.op = "notify" => [f EXCEPT !.op = "failure"] \in Fit
  <2>1. SUFFICES ASSUME f.op = "notify"
                 PROVE  [f EXCEPT !.op = "failure"] \in Fit
    OBVIOUS
  <2>2. f \in [op : {"notify", "failure"}, node : Tasks, from : Tasks, port : Nat, failed : BOOLEAN]
    BY <2>1 DEF Frame
  <2>3. [f EXCEPT !.op = "failure"] = [op |-> "failure", node |-> f.node, from |-> f.from,
                                       port |-> f.port, failed |-> f.failed]
    BY <2>2
  <2> QED
    BY <2>2, <2>3 DEF Fit, Frame
<1> QED
  BY <1>1, <1>2, <1>3, <1>4, <1>5

(* A thread in a frame of some kind. *)
LEMMA InFrame ==
  ASSUME Inv, NEW x \in Threads, NEW o, At(x, o)
  PROVE  todo[x] # <<>> /\ Cur(x).op = o /\ Cur(x) \in Frame /\ Cur(x) \in Fit
<1>1. todo[x] # <<>> /\ Cur(x).op = o
  BY DEF At, Cur
<1> QED
  BY <1>1, CurFit DEF Inv

(* Signals hold exceptions of tasks. *)
LEMMA ControlType ==
  ASSUME Types, NEW t \in Tasks
  PROVE  /\ head[t].arcs \in Seq(Arc)
         /\ LocalControl(t) # {} => TheControl(t) \in Tasks
<1>1. head[t].arcs \in Seq(Arc)
  BY DEF Types, ArcHead
<1>2. \A i \in DOMAIN head[t].arcs : head[t].arcs[i].node \in Tasks
  <2>1. \A i \in DOMAIN head[t].arcs : head[t].arcs[i] \in Arc
    BY <1>1, Element
  <2> QED
    BY <2>1, ArcKinds
<1>3. LocalControl(t) \subseteq Tasks
  BY <1>2 DEF LocalControl
<1>4. LocalControl(t) # {} => TheControl(t) \in LocalControl(t)
  BY DEF TheControl
<1> QED
  BY <1>1, <1>3, <1>4

(***************************************************************************)
(* Steps that only go on                                                   *)
(***************************************************************************)
LEMMA FromFits ==
  ASSUME Types, NEW t \in Tasks, NEW u \in Tasks, NEW p \in Nat
  PROVE  From(t, u, p) \in Seq(Fit)
<1>1. \A b \in Bits : Mark(t, b) \in Fit
  BY DEF Mark, Fit, Frame
<1>2. LocalControl(u) # {} => Carry(t, TheControl(u)) \in Fit
  <2>1. \A c \in Tasks : Carry(t, c) \in Fit
    BY DEF Carry, Fit, Frame
  <2> QED
    BY <2>1, ControlType
<1>3. /\ <<Mark(t, "user")>> \in Seq(Fit) /\ <<Mark(t, "dependency")>> \in Seq(Fit)
      /\ LocalControl(u) # {} => <<Carry(t, TheControl(u)), Mark(t, "exception")>> \in Seq(Fit)
  BY <1>1, <1>2, Short DEF Bits
<1> QED
  BY <1>3 DEF From

LEMMA PublishFailureInv ==
  ASSUME Inv, NEW x \in Threads, PublishFailureFrom(x), UNCHANGED prog
  PROVE  Inv'
<1> DEFINE fs == From(Cur(x).node, Cur(x).from, Cur(x).port)
<1>1. todo[x] # <<>> /\ Cur(x).op = "failure" /\ Cur(x) \in Frame
  BY InFrame DEF PublishFailureFrom
<1>2. Cur(x).node \in Tasks /\ Cur(x).from \in Tasks /\ Cur(x).port \in Nat
  BY <1>1, Says
<1>3. fs \in Seq(Fit)
  BY <1>2, FromFits DEF Inv
<1>4. Then(x, fs) /\ UNCHANGED <<head, word, owed, body, cancelled>>
  BY DEF PublishFailureFrom
<1> HIDE DEF fs
<1> QED
  BY <1>1, <1>3, <1>4, QuietStep

(* Steps that only return from a frame. *)
LEMMA PopInv ==
  ASSUME Inv, NEW x \in Threads, UNCHANGED prog,
         DropSignal(x) \/ Return(x) \/ Wakeup(x) \/ Block(x) \/ Status(x)
  PROVE  Inv'
<1>1. todo[x] # <<>> /\ Cur(x).op \notin {"mark", "set"}
  BY InFrame DEF DropSignal, Return, Wakeup, Block, Status
<1>2. Then(x, <<>>) /\ UNCHANGED <<head, word, owed, body, cancelled>>
  BY DEF DropSignal, Return, Wakeup, Block, Status
<1> QED
  BY <1>1, <1>2, Short, QuietStep

LEMMA LateInv ==
  ASSUME Inv, NEW x \in Threads, Late(x), UNCHANGED prog
  PROVE  Inv'
<1>1. todo[x] # <<>> /\ Cur(x).op = "late" /\ Cur(x) \in Frame
  BY InFrame DEF Late
<1>2. [Cur(x) EXCEPT !.op = "failure"] \in Fit
  BY <1>1, Says
<1>3. LateFailure(Cur(x)) \in Seq(Fit)
  BY <1>2, Short DEF LateFailure
<1>4. Then(x, LateFailure(Cur(x))) /\ UNCHANGED <<head, word, owed, body, cancelled>>
  BY DEF Late
<1> QED
  BY <1>1, <1>3, <1>4, QuietStep

LEMMA WaitInv ==
  ASSUME Inv, NEW x \in Threads, Wait(x), UNCHANGED prog
  PROVE  Inv'
<1>1. todo[x] # <<>> /\ Cur(x).op = "wait" /\ Cur(x) \in Frame
  BY InFrame DEF Wait
<1>2. [op |-> "block", node |-> Cur(x).node] \in Fit
  BY <1>1, Says, SimpleKinds DEF Simple
<1>3. \E fs \in Seq(Fit) : Then(x, fs)
  BY <1>2, Short DEF Wait
<1> QED
  BY <1>1, <1>3, QuietStep DEF Wait

LEMMA NotifyInv ==
  ASSUME Inv, NEW x \in Threads, NotifyArc(x), UNCHANGED prog
  PROVE  Inv'
<1>1. todo[x] # <<>> /\ Cur(x).op = "notify" /\ Cur(x) \in Frame
  BY InFrame DEF NotifyArc
<1>2. [Cur(x) EXCEPT !.op = "failure"] \in Fit /\ Cur(x).node \in Tasks
  BY <1>1, Says
<1>3. [op |-> "pre", node |-> Cur(x).node, k |-> 1] \in Fit
  BY <1>2 DEF Fit, Frame
<1>4. NotifyFirst(Cur(x)) \in Seq(Fit)
  BY <1>2, <1>3, Short DEF NotifyFirst
<1> QED
  BY <1>1, <1>4, QuietStep DEF NotifyArc

LEMMA PublishInv ==
  ASSUME Inv, NEW x \in Threads, Publish(x), UNCHANGED prog
  PROVE  Inv'
<1>1. todo[x] # <<>> /\ Cur(x).op = "publish" /\ Cur(x) \in Frame
  BY InFrame DEF Publish
<1>2. Cur(x).node \in Tasks
  BY <1>1, Says DEF Simple
<1>3. Protection(Cur(x).node) \in Int
  BY <1>2 DEF Protection, StartMask, Inv, Types
<1>4. [op |-> "pre", node |-> Cur(x).node, k |-> Protection(Cur(x).node)] \in Fit
  BY <1>2, <1>3 DEF Fit, Frame
<1>5. <<[op |-> "pre", node |-> Cur(x).node, k |-> Protection(Cur(x).node)]>> \in Seq(Fit)
  BY <1>4, Short
<1> QED
  BY <1>1, <1>5, QuietStep DEF Publish

(***************************************************************************)
(* Steps on lists                                                          *)
(***************************************************************************)
LEMMA PushHead ==
  ASSUME Inv, NEW u \in Tasks, NEW a \in Arc, Push(u, a), body' = body
  PROVE  head' \in [Tasks -> ArcHead] /\ OpenAhead'
<1>1. head \in [Tasks -> ArcHead] /\ head' = [head EXCEPT ![u] = Open(<<a>> \o head[u].arcs)]
  BY DEF Inv, Types, Push
<1>2. Open(<<a>> \o head[u].arcs) \in ArcHead
  <2>1. <<a>> \o head[u].arcs \in Seq(Arc)
    BY ControlType, Short DEF Inv
  <2> QED
    BY <2>1 DEF Open, ArcHead
<1>3. Open(<<a>> \o head[u].arcs).tag = "open"
  BY DEF Open
<1> QED
  BY <1>1, <1>2, <1>3 DEF Inv, OpenAhead, Ahead, IsDone

(* Steps that leave words and bodies alone. *)
LEMMA ListStep ==
  ASSUME Inv, NEW x \in Threads, todo[x] # <<>>, NEW fs \in Seq(Fit), Then(x, fs),
         Cur(x).op \notin {"mark", "set"}, UNCHANGED <<prog, word, body, cancelled>>,
         head' \in [Tasks -> ArcHead], owed' \in [Tasks -> Int], OpenAhead'
  PROVE  Inv'
<1>1. Types'
  BY DEF Inv, Types
<1>2. Fit' = Fit /\ \A t \in Tasks : Ahead(t)' = Ahead(t)
  BY DEF Fit, Ahead
<1> QED
  BY <1>1, <1>2, OtherStep

LEMMA AddSignalInv ==
  ASSUME Inv, NEW x \in Threads, AddSignal(x), UNCHANGED prog
  PROVE  Inv'
<1> DEFINE t == Cur(x).node
           c == Cur(x).control
<1>1. todo[x] # <<>> /\ Cur(x).op = "signal" /\ Cur(x) \in Frame
  BY InFrame DEF AddSignal
<1>2. t \in Tasks /\ c \in Tasks
  BY <1>1, Says
<1>3. CASE IsDone(t)
  <2>1. [op |-> "drop", control |-> c] \in Fit
    BY <1>2 DEF Fit, Frame
  <2>2. <<[op |-> "drop", control |-> c]>> \in Seq(Fit)
    BY <2>1, Short
  <2> QED
    BY <1>1, <1>3, <2>2, QuietStep DEF AddSignal
<1>4. CASE ~IsDone(t)
  <2>1. Signal(c) \in Arc
    BY <1>2 DEF Signal, Arc
  <2>2. Push(t, Signal(c)) /\ Then(x, <<>>) /\ UNCHANGED <<prog, word, owed, body, cancelled>>
    BY <1>4 DEF AddSignal
  <2>3. head' \in [Tasks -> ArcHead] /\ OpenAhead'
    BY <1>2, <2>1, <2>2, PushHead
  <2>4. owed' \in [Tasks -> Int]
    BY <2>2 DEF Inv, Types
  <2> QED
    BY <1>1, <2>2, <2>3, <2>4, Short, ListStep
<1> QED
  BY <1>3, <1>4

LEMMA LinkInv ==
  ASSUME Inv, NEW x \in Threads, Link(x), UNCHANGED prog
  PROVE  Inv'
<1> DEFINE u == Cur(x).from
           a == Flow(Cur(x).node, Cur(x).port)
<1>1. todo[x] # <<>> /\ Cur(x).op = "link" /\ Cur(x) \in Frame
  BY InFrame DEF Link
<1>2. u \in Tasks /\ Cur(x).node \in Tasks /\ Cur(x).port \in Nat
  BY <1>1, Says
<1>3. CASE IsDone(u)
  <2>1. [Cur(x) EXCEPT !.op = "late"] \in Fit
    BY <1>1, Says
  <2>2. <<[Cur(x) EXCEPT !.op = "late"]>> \in Seq(Fit)
    BY <2>1, Short
  <2> QED
    BY <1>1, <1>3, <2>2, QuietStep DEF Link
<1>4. CASE ~IsDone(u)
  <2>1. a \in Arc
    BY <1>2 DEF Flow, Arc
  <2>2. /\ Push(u, a) /\ Then(x, <<>>) /\ UNCHANGED <<prog, word, body, cancelled>>
        /\ owed' = [owed EXCEPT ![Cur(x).node] = @ + 1]
    BY <1>4 DEF Link
  <2>3. head' \in [Tasks -> ArcHead] /\ OpenAhead'
    BY <1>2, <2>1, <2>2, PushHead
  <2>4. owed' \in [Tasks -> Int]
    BY <1>2, <2>2 DEF Inv, Types
  <2> QED
    BY <1>1, <2>2, <2>3, <2>4, Short, ListStep
<1> QED
  BY <1>3, <1>4

LEMMA ExchangeInv ==
  ASSUME Inv, NEW x \in Threads, Exchange(x), UNCHANGED prog
  PROVE  Inv'
<1> DEFINE t == Cur(x).node
           e == Cur(x).failed
           h == LastHead(t, e)
           r == head[t].arcs
           fs == [i \in DOMAIN r |-> Notify(t, r[i], e /\ Failed(t))]
<1>1. todo[x] # <<>> /\ Cur(x).op = "exchange" /\ Cur(x) \in Frame /\ Cur(x) \in Fit
  BY InFrame DEF Exchange
<1>2. t \in Tasks /\ e \in BOOLEAN /\ ~Ahead(t)
  BY <1>1, Says DEF Fit
<1>3. r \in Seq(Arc) /\ (LocalControl(t) # {} => TheControl(t) \in Tasks)
  BY <1>2, ControlType DEF Inv
<1>4. h \in ArcHead
  <2>1. Done \in ArcHead
    BY DEF Done, ArcHead
  <2>2. ASSUME NEW c \in Tasks
        PROVE  Terminal(c) \in ArcHead
    <3>1. Signal(c) \in Arc
      BY DEF Signal, Arc
    <3>2. <<Signal(c)>> \in Seq(Arc)
      BY <3>1, Short
    <3> QED
      BY <3>2 DEF Terminal, ArcHead
  <2> QED
    BY <1>3, <2>1, <2>2 DEF LastHead
<1>5. /\ head' = [head EXCEPT ![t] = h] /\ Then(x, fs)
      /\ UNCHANGED <<word, owed, body, cancelled>>
  BY DEF Exchange
<1>6. ASSUME NEW a \in Arc
      PROVE  Notify(t, a, e /\ Failed(t)) \in Fit
  <2>1. a.node \in Tasks /\ a.port \in Nat
    BY ArcKinds
  <2>2. [op |-> "drop", control |-> a.node] \in Fit
    BY <2>1 DEF Fit, Frame
  <2>3. [op |-> "notify", node |-> a.node, from |-> t, port |-> a.port, failed |-> (e /\ Failed(t))] \in Fit
    <3>1. (e /\ Failed(t)) \in BOOLEAN
      OBVIOUS
    <3> QED
      BY <1>2, <2>1, <3>1 DEF Fit, Frame
  <2> QED
    BY <2>2, <2>3 DEF Notify
<1>7. fs \in Seq(Fit)
  <2>1. \A i \in DOMAIN r : r[i] \in Arc
    BY <1>3, Element
  <2>2. \A i \in DOMAIN r : fs[i] \in Fit
    BY <1>6, <2>1
  <2>3. DOMAIN r = 1..Len(r) /\ Len(r) \in Nat /\ fs = [i \in 1..Len(r) |-> fs[i]]
    BY <1>3
  <2> HIDE DEF fs, r
  <2> QED
    BY <2>2, <2>3
<1>8. head' \in [Tasks -> ArcHead] /\ OpenAhead'
  <2> HIDE DEF h, t
  <2>1. head \in [Tasks -> ArcHead] /\ OpenAhead
    BY DEF Inv, Types
  <2> QED
    BY <1>2, <1>4, <1>5, <2>1 DEF OpenAhead, Ahead, IsDone
<1>9. owed' \in [Tasks -> Int]
  BY <1>5 DEF Inv, Types
<1> HIDE DEF fs, h, t
<1> QED
  BY <1>1, <1>5, <1>7, <1>8, <1>9, ListStep

(***************************************************************************)
(* Marking                                                                 *)
(***************************************************************************)
(* A thread that goes on with a mark of the user's on t has it in hand. *)
LEMMA NowInHand ==
  ASSUME Frames, NEW x \in Threads, todo[x] # <<>>, NEW f \in Fit, Then(x, <<f>>),
         NEW t \in Tasks, f.op \in {"mark", "set"}, f.node = t, f.bit = "user"
  PROVE  InHand(x, t)'
<1>1. todo[x] \in Seq(Fit)
  BY DEF Frames
<1>2. todo'[x] = <<f>> \o Tail(todo[x])
  BY DEF Frames, Then
<1>3. Tail(todo[x]) \in Seq(Fit)
  BY <1>1
<1>4. 1 \in DOMAIN (<<f>> \o Tail(todo[x])) /\ (<<f>> \o Tail(todo[x]))[1] = f
  BY <1>3
<1> QED
  BY <1>2, <1>4 DEF InHand

(* A step of a mark that, if it was a user's cancellation of a task to come, leaves it in
   hand or in the word. *)
LEMMA MarkStep ==
  ASSUME Inv, NEW x \in Threads, todo[x] # <<>>, NEW fs \in Seq(Fit), Then(x, fs),
         UNCHANGED <<prog, head, owed, body, cancelled>>,
         word' \in [Tasks -> Word], \A t \in Tasks : word[t].bits \subseteq word'[t].bits,
         NEW u \in Tasks, Cur(x).node = u,
         body[u] = "pending" /\ Cur(x).bit = "user" => Has(u, "user")' \/ InHand(x, u)'
  PROVE  Inv'
<1>1. Types' /\ OpenAhead'
  BY DEF Inv, Types, OpenAhead, Ahead, IsDone
<1>2. Fit' = Fit /\ \A t \in Tasks : Ahead(t)' => Ahead(t)
  BY DEF Fit, Ahead
<1>3. Frames'
  BY <1>2, ThenFrames DEF Inv
<1>4. ASSUME NEW t \in cancelled, body[t] = "pending"
      PROVE  Has(t, "user")' \/ \E y \in Users : InHand(y, t)'
  <2>1. t \in Tasks
    BY <1>4 DEF Inv, Types
  <2>2. CASE Has(t, "user")
    BY <2>1, <2>2 DEF Has
  <2>3. ASSUME NEW y \in Users, InHand(y, t)
        PROVE  Has(t, "user")' \/ InHand(y, t)'
    <3>1. y \in Threads /\ todo'[y] = IF y = x THEN fs \o Tail(todo[x]) ELSE todo[y]
      BY ThenElse, Apart DEF Inv
    <3>2. CASE y = x /\ Cur(x).node = t /\ Cur(x).bit = "user"
      BY <1>4, <3>2
    <3>3. CASE y = x => Cur(x).node # t \/ Cur(x).bit # "user"
      BY <2>1, <2>3, <3>1, <3>3, HandKept DEF Inv
    <3> QED
      BY <3>2, <3>3
  <2> QED
    BY <1>4, <2>2, <2>3 DEF Inv, Marked
<1>5. Marked'
  BY <1>4 DEF Inv, Marked
<1> QED
  BY <1>1, <1>3, <1>5 DEF Inv

LEMMA MarkFailureInv ==
  ASSUME Inv, NEW x \in Threads, MarkFailure(x), UNCHANGED prog
  PROVE  Inv'
<1>1. todo[x] # <<>> /\ Cur(x).op = "mark" /\ Cur(x) \in Frame
  BY InFrame DEF MarkFailure
<1>2. PICK t \in Tasks, b \in Bits : Cur(x).node = t /\ Cur(x).bit = b
  BY <1>1, Says
<1> DEFINE f == [op |-> "set", node |-> t, bit |-> b, word |-> word[t]]
<1>3. UNCHANGED <<prog, head, word, owed, body, cancelled>>
  BY DEF MarkFailure
<1>4. word' \in [Tasks -> Word] /\ \A u \in Tasks : word[u].bits \subseteq word'[u].bits
  BY <1>3 DEF Inv, Types
<1>5. CASE IsDone(t)
  <2>1. body[t] # "pending"
    BY <1>2, <1>5 DEF Inv, OpenAhead, Ahead
  <2>2. Then(x, <<>>)
    BY <1>2, <1>5 DEF MarkFailure
  <2> QED
    BY <1>1, <1>2, <1>3, <1>4, <2>1, <2>2, Short, MarkStep
<1>6. CASE ~IsDone(t)
  <2>1. f \in Fit
    <3>1. word[t] \in Word
      BY <1>2 DEF Inv, Types
    <3> QED
      BY <1>2, <3>1 DEF Fit, Frame
  <2>2. Then(x, <<f>>)
    BY <1>2, <1>6 DEF MarkFailure
  <2>3. b = "user" => InHand(x, t)'
    <3>1. f.op = "set" /\ f.node = t /\ f.bit = b
      OBVIOUS
    <3> HIDE DEF f
    <3> QED
      BY <1>1, <1>2, <2>1, <2>2, <3>1, NowInHand DEF Inv
  <2>4. <<f>> \in Seq(Fit)
    BY <2>1, Short
  <2> HIDE DEF f
  <2> QED
    BY <1>1, <1>2, <1>3, <1>4, <2>2, <2>3, <2>4, MarkStep
<1> QED
  BY <1>5, <1>6

LEMMA SetBitInv ==
  ASSUME Inv, NEW x \in Threads, SetBit(x), UNCHANGED prog
  PROVE  Inv'
<1>1. todo[x] # <<>> /\ Cur(x).op = "set" /\ Cur(x) \in Frame
  BY InFrame DEF SetBit
<1>2. PICK t \in Tasks, b \in Bits : Cur(x).node = t /\ Cur(x).bit = b
  BY <1>1, Says
<1>3. UNCHANGED <<prog, head, owed, body, cancelled>> /\ word \in [Tasks -> Word]
  BY DEF SetBit, Inv, Types
<1>4. CASE word[t] = Cur(x).word
  <2>1. Then(x, <<>>) /\ word' = [word EXCEPT ![Cur(x).node].bits = @ \cup {Cur(x).bit}]
    BY <1>2, <1>4 DEF SetBit
  <2>2. word' = [word EXCEPT ![t].bits = @ \cup {b}]
    BY <1>2, <2>1
  <2>3. \A u \in Tasks : word[u] \in Word
    BY <1>3
  <2>4. word' \in [Tasks -> Word] /\ word'[t].bits = word[t].bits \cup {b}
        /\ \A u \in Tasks : word[u].bits \subseteq word'[u].bits
    BY <1>2, <1>3, <2>2, <2>3 DEF Word
  <2>5. b = "user" => Has(t, "user")'
    BY <2>4 DEF Has
  <2> QED
    BY <1>1, <1>2, <1>3, <2>1, <2>4, <2>5, Short, MarkStep
<1>5. CASE word[t] # Cur(x).word
  <2>1. Then(x, <<Mark(t, b)>>) /\ word' = word
    BY <1>2, <1>5 DEF SetBit, Retry
  <2>2. Mark(t, b) \in Fit /\ Mark(t, b).op = "mark" /\ Mark(t, b).node = t /\ Mark(t, b).bit = b
    BY <1>2 DEF Mark, Fit, Frame
  <2>3. b = "user" => InHand(x, t)'
    <3> QED
      BY <1>1, <1>2, <2>1, <2>2, NowInHand DEF Inv
  <2>4. <<Mark(t, b)>> \in Seq(Fit)
    BY <2>2, Short
  <2> QED
    BY <1>1, <1>2, <1>3, <2>1, <2>3, <2>4, MarkStep
<1> QED
  BY <1>4, <1>5

LEMMA SetCount ==
  ASSUME NEW t \in Tasks, NEW k \in Int, word \in [Tasks -> Word],
         word' = [word EXCEPT ![t].count = @ - k]
  PROVE  word' \in [Tasks -> Word] /\ \A u \in Tasks : word'[u].bits = word[u].bits
<1>1. \A u \in Tasks : word[u] \in Word
  OBVIOUS
<1> QED
  BY <1>1 DEF Word

(* The last prerequisite of a task: it is spawned or completed. *)
LEMMA PreInv ==
  ASSUME Inv, NEW x \in Threads, Pre(x), UNCHANGED prog
  PROVE  Inv'
<1>1. todo[x] # <<>> /\ Cur(x).op = "pre" /\ Cur(x) \in Frame
  BY InFrame DEF Pre
<1>2. PICK t \in Tasks, k \in Int : t = Cur(x).node /\ k = Cur(x).k
  BY <1>1, Says
<1> DEFINE last == word[t].count = k
           skips == last /\ Skips(word[t].bits)
           fs == IF skips THEN Complete(t, TRUE) ELSE <<>>
           spawned == <<[op |-> "start", node |-> t]>>
<1>3. /\ word' = [word EXCEPT ![t].count = @ - k]
      /\ body' = IF skips THEN [body EXCEPT ![t] = "skipped"] ELSE body
      /\ todo' = [todo EXCEPT ![x] = fs \o Tail(@), ![t] = IF last /\ ~skips THEN spawned ELSE @]
      /\ UNCHANGED <<head, owed, cancelled>>
  BY <1>2 DEF Pre
<1>4. word' \in [Tasks -> Word] /\ \A u \in Tasks : word'[u].bits = word[u].bits
  <2> HIDE DEF last, skips
  <2> QED
    BY <1>2, <1>3, SetCount DEF Inv, Types
<1>5. /\ body' \in [Tasks -> {"idle", "pending", "running", "attached", "forwarding",
                              "value", "threw", "skipped"}]
      /\ \A u \in Tasks : Ahead(u)' => Ahead(u) /\ body'[u] = body[u]
      /\ skips => body'[t] = "skipped"
  <2> HIDE DEF skips, last, fs
  <2> QED
    BY <1>2, <1>3 DEF Inv, Types, Ahead
<1>6. Types' /\ OpenAhead'
  BY <1>3, <1>4, <1>5 DEF Inv, Types, OpenAhead, IsDone
<1>7. fs \in Seq(Fit') /\ spawned \in Seq(Fit')
  <2>1. skips => ~Ahead(t)'
    BY <1>5 DEF Ahead
  <2>2. \A u \in Tasks : [op |-> "start", node |-> u] \in Fit'
        /\ [op |-> "wakeup", node |-> u] \in Fit'
    BY DEF Fit, Frame
  <2>3. skips => [op |-> "exchange", node |-> t, failed |-> TRUE] \in Fit'
    BY <1>2, <2>1 DEF Fit, Frame, Ahead
  <2> HIDE DEF skips
  <2> QED
    BY <1>2, <2>2, <2>3, Short DEF Complete
<1> HIDE DEF fs, spawned, last, skips
<1>8. todo \in [Threads -> Seq(Fit)] /\ t \in Threads /\ Fit \subseteq Fit'
  BY <1>2, <1>5, FitStays, Apart DEF Inv, Frames
<1>9. \A y \in Threads : todo[y] \in Seq(Fit')
  BY <1>8, Grows
<1>10. fs \o Tail(todo[x]) \in Seq(Fit')
  BY <1>1, <1>7, <1>9, GoOn
<1>11. Frames'
  <2>1. \A y \in Threads : todo'[y] \in Seq(Fit')
    BY <1>3, <1>7, <1>8, <1>9, <1>10
  <2> QED
    BY <1>3, <1>8, <2>1 DEF Frames
<1>12. Marked'
  <2> DEFINE S == Fit'
  <2>1. fs \in Seq(S)
    BY <1>7
  <2>2. \A y \in Users : todo'[y] = IF y = x THEN fs \o Tail(todo[x]) ELSE todo[y]
    BY <1>2, <1>3, <1>8, Apart
  <2>3. Cur(x).op \notin {"mark", "set"} /\ cancelled' = cancelled
    BY <1>1, <1>3
  <2> HIDE DEF S
  <2> QED
    BY <1>1, <1>4, <1>5, <2>1, <2>2, <2>3, MarkedKept
<1> QED
  BY <1>6, <1>11, <1>12 DEF Inv

(***************************************************************************)
(* Calls                                                                   *)
(***************************************************************************)
(* What a thread has in hand is still there under the frames of a call it makes. *)
LEMMA CallKeeps ==
  ASSUME Inv, NEW m \in Threads, NEW fs \in Seq(Fit'),
         todo' = [todo EXCEPT ![m] = fs \o @], \A t \in Tasks : Ahead(t)' => Ahead(t)
  PROVE  /\ Frames'
         /\ \A y \in Threads, t \in Tasks : InHand(y, t) => InHand(y, t)'
<1>1. todo \in [Threads -> Seq(Fit)] /\ Fit \subseteq Fit'
  BY FitStays DEF Inv, Frames
<1>2. \A y \in Threads : todo[y] \in Seq(Fit')
  BY <1>1, Grows
<1>3. fs \o todo[m] \in Seq(Fit')
  BY <1>2, Short
<1>4. Frames'
  BY <1>1, <1>2, <1>3 DEF Frames
<1>5. ASSUME NEW y \in Threads, NEW t \in Tasks, InHand(y, t)
      PROVE  InHand(y, t)'
  <2> DEFINE S == Fit'
  <2>1. PICK i \in DOMAIN todo[y] : todo[y][i].op \in {"mark", "set"} /\ todo[y][i].node = t
                                    /\ todo[y][i].bit = "user"
    BY <1>5 DEF InHand
  <2>2. todo[y] \in Seq(S) /\ fs \in Seq(S)
    BY <1>2
  <2> HIDE DEF S
  <2>3. Len(fs) + i \in DOMAIN (fs \o todo[y]) /\ (fs \o todo[y])[Len(fs) + i] = todo[y][i]
    BY <2>1, <2>2
  <2>4. todo'[y] = IF y = m THEN fs \o todo[y] ELSE todo[y]
    BY <1>1
  <2>5. CASE y = m
    <3>1. todo'[y] = fs \o todo[y]
      BY <2>4, <2>5
    <3> QED
      BY <2>1, <2>3, <3>1 DEF InHand
  <2>6. CASE y # m
    <3>1. todo'[y] = todo[y]
      BY <2>4, <2>6
    <3> QED
      BY <2>1, <3>1 DEF InHand
  <2> QED
    BY <2>5, <2>6
<1> QED
  BY <1>4, <1>5

(* What a program gives. *)
LEMMA ProgramTypes ==
  ASSUME prog \in DOMAIN Programs, NEW t \in Tasks
  PROVE  /\ Inputs(t) \in Seq(Output) /\ Returns(t) \in Tasks \cup {NoTask}
         /\ Programs[prog].cancels \subseteq Tasks /\ Programs[prog].waits \subseteq Tasks
         /\ Maker(t) \in Threads
<1> DEFINE Program == [inputs : [Tasks -> Seq(Output)], returns : [Tasks -> Tasks \cup {NoTask}],
                       throws : SUBSET Tasks, waits : SUBSET Tasks, cancels : SUBSET Tasks]
<1>1. Programs[prog] \in Program
  <2>1. Programs \in Seq(Program)
    BY FailuresAssumption
  <2> HIDE DEF Program
  <2> QED
    BY <2>1, Element
<1>2. Maker(t) \in Threads
  BY Apart DEF Maker, Inner
<1> QED
  BY <1>1, <1>2 DEF Inputs, Returns

LEMMA RunInv ==
  ASSUME Inv, NEW t \in Tasks, Run(t), UNCHANGED prog
  PROVE  Inv'
<1> DEFINE links == [i \in 1..Len(Inputs(t)) |-> [op |-> "link", node |-> t,
                       from |-> Inputs(t)[i].task, port |-> Inputs(t)[i].port]]
           ends == <<[op |-> "publish", node |-> t], [op |-> "return", node |-> t]>>
           fs == links \o ends
           m == Maker(t)
<1>1. m \in Threads /\ Inputs(t) \in Seq(Output)
  BY ProgramTypes DEF Inv, Types
<1>2. /\ body[t] = "idle" /\ body' = [body EXCEPT ![t] = "pending"]
      /\ word' = [word EXCEPT ![t] = [count |-> StartMask, bits |-> {}]]
      /\ todo' = [todo EXCEPT ![m] = links \o ends \o @]
      /\ UNCHANGED <<head, owed, cancelled>>
  BY DEF Run
<1>3. \A u \in Tasks : (Ahead(u)' <=> Ahead(u)) /\ (u # t => body'[u] = body[u])
  BY <1>2 DEF Inv, Types, Ahead
<1>4. Types' /\ OpenAhead'
  <2>1. [count |-> StartMask, bits |-> {}] \in Word
    BY DEF Word, StartMask
  <2>2. word' \in [Tasks -> Word]
    BY <1>2, <2>1 DEF Inv, Types
  <2>3. body' \in [Tasks -> {"idle", "pending", "running", "attached", "forwarding",
                             "value", "threw", "skipped"}]
    BY <1>2 DEF Inv, Types
  <2>4. Types'
    BY <1>2, <2>2, <2>3 DEF Inv, Types
  <2>5. OpenAhead'
    BY <1>2, <1>3 DEF Inv, OpenAhead, IsDone
  <2> QED
    BY <2>4, <2>5
<1>5. Fit \subseteq Fit'
  BY <1>3, FitStays
<1>6. links \in Seq(Fit)
  <2>1. \A i \in DOMAIN Inputs(t) : Inputs(t)[i] \in Output
    BY <1>1, Element
  <2>2. \A i \in DOMAIN Inputs(t) : Inputs(t)[i].task \in Tasks /\ Inputs(t)[i].port \in Nat
    BY <2>1 DEF Output
  <2>3. DOMAIN Inputs(t) = 1..Len(Inputs(t)) /\ Len(Inputs(t)) \in Nat
    BY <1>1
  <2>4. \A i \in 1..Len(Inputs(t)) : links[i] \in Fit
    BY <2>2, <2>3, LinkKinds
  <2>5. links = [i \in 1..Len(Inputs(t)) |-> links[i]]
    OBVIOUS
  <2> HIDE DEF links
  <2> QED
    BY <2>3, <2>4, <2>5
<1>7. ends \in Seq(Fit)
  BY SimpleKinds, Short DEF Simple
<1> HIDE DEF links, ends, m
<1>8. fs \in Seq(Fit)
  BY <1>6, <1>7, Short
<1>9. todo' = [todo EXCEPT ![m] = fs \o @]
  <2>1. todo[m] \in Seq(Fit)
    BY <1>1 DEF Inv, Frames
  <2>2. links \o ends \o todo[m] = fs \o todo[m]
    OBVIOUS
  <2> QED
    BY <1>2, <2>2
<1>10. Frames' /\ \A y \in Threads, u \in Tasks : InHand(y, u) => InHand(y, u)'
  <2>1. fs \in Seq(Fit')
    BY <1>5, <1>8, Grows
  <2> HIDE DEF fs
  <2> QED
    BY <1>1, <1>3, <1>9, <2>1, CallKeeps
<1>11. Marked'
  <2>1. SUFFICES ASSUME NEW u \in cancelled
                 PROVE  /\ body'[u] # "idle"
                        /\ body'[u] = "pending" => Has(u, "user")' \/ \E y \in Users : InHand(y, u)'
    BY <1>2 DEF Marked
  <2>2. u \in Tasks /\ u # t
    BY <1>2 DEF Inv, Types, Marked
  <2>3. body'[u] = body[u] /\ word'[u] = word[u]
    BY <1>2, <1>3, <2>2 DEF Inv, Types
  <2> QED
    BY <1>10, <2>2, <2>3, Apart DEF Inv, Marked, Has
<1> QED
  BY <1>4, <1>10, <1>11 DEF Inv

(* cancel() takes its mark in hand. *)
LEMMA CancelInv ==
  ASSUME Inv, NEW x \in Users, NEW t \in Tasks, Cancel(x, t), UNCHANGED prog
  PROVE  Inv'
<1> DEFINE f == Mark(t, "user")
<1>1. /\ todo[x] = <<>> /\ cancelled' = cancelled \cup {t} /\ body[t] # "idle"
      /\ todo' = [todo EXCEPT ![x] = <<f>>]
      /\ UNCHANGED <<prog, head, word, owed, body>>
  BY DEF Cancel, InCall, Returned
<1>2. f \in Fit /\ f.op = "mark" /\ f.node = t /\ f.bit = "user"
  BY DEF Mark, Fit, Frame, Bits
<1>3. Types' /\ OpenAhead'
  BY <1>1 DEF Inv, Types, OpenAhead, Ahead, IsDone
<1>4. Fit' = Fit /\ \A u \in Tasks : Ahead(u)' = Ahead(u)
  BY <1>1 DEF Fit, Ahead
<1>5. <<f>> \in Seq(Fit') /\ todo' = [todo EXCEPT ![x] = <<f>> \o @]
  <2>1. <<f>> \in Seq(Fit')
    BY <1>2, <1>4, Short
  <2>2. <<f>> \o <<>> = <<f>>
    OBVIOUS
  <2> HIDE DEF f
  <2> QED
    BY <1>1, <2>1, <2>2
<1>6. x \in Threads
  BY Apart
<1>7. Frames' /\ \A y \in Threads, u \in Tasks : InHand(y, u) => InHand(y, u)'
  <2> HIDE DEF f
  <2> QED
    BY <1>4, <1>5, <1>6, CallKeeps
<1>8. InHand(x, t)'
  <2>1. todo'[x] = <<f>>
    BY <1>1, <1>6 DEF Inv, Frames
  <2>2. 1 \in DOMAIN <<f>> /\ <<f>>[1] = f
    OBVIOUS
  <2> HIDE DEF f
  <2> QED
    BY <1>2, <2>1, <2>2 DEF InHand
<1>9. Marked'
  BY <1>1, <1>7, <1>8, Apart DEF Inv, Types, Marked, Has
<1> QED
  BY <1>3, <1>7, <1>9 DEF Inv

LEMMA WaitForInv ==
  ASSUME Inv, NEW x \in Users, NEW t \in Tasks, WaitFor(x, t), UNCHANGED prog
  PROVE  Inv'
<1> DEFINE fs == <<[op |-> "wait", node |-> t], [op |-> "status", node |-> t]>>
<1>1. /\ todo[x] = <<>> /\ todo' = [todo EXCEPT ![x] = fs]
      /\ UNCHANGED <<prog, head, word, owed, body, cancelled>>
  BY DEF WaitFor, InCall
<1>2. fs \in Seq(Fit)
  BY SimpleKinds, Short DEF Simple
<1>3. Types' /\ OpenAhead'
  BY <1>1 DEF Inv, Types, OpenAhead, Ahead, IsDone
<1>4. Fit' = Fit /\ \A u \in Tasks : Ahead(u)' = Ahead(u)
  BY <1>1 DEF Fit, Ahead
<1>5. todo' = [todo EXCEPT ![x] = fs \o @]
  <2>1. fs \o <<>> = fs
    BY <1>2
  <2> HIDE DEF fs
  <2> QED
    BY <1>1, <2>1
<1>6. x \in Threads /\ fs \in Seq(Fit')
  BY <1>2, <1>4, Apart
<1>7. Frames' /\ \A y \in Threads, u \in Tasks : InHand(y, u) => InHand(y, u)'
  <2> HIDE DEF fs
  <2> QED
    BY <1>4, <1>5, <1>6, CallKeeps
<1>8. Marked'
  BY <1>1, <1>7, Apart DEF Inv, Types, Marked, Has
<1> QED
  BY <1>3, <1>7, <1>8 DEF Inv

(***************************************************************************)
(* execute()                                                               *)
(***************************************************************************)
(* A task's body goes on, past the point where it counts as ahead. *)
LEMMA BodyStep ==
  ASSUME Inv, NEW t \in Tasks, NEW o, At(t, o), o \notin {"mark", "set"},
         NEW v \in {"running", "attached", "forwarding", "value", "threw", "skipped"},
         body' = [body EXCEPT ![t] = v], NEW fs \in Seq(Fit'), Then(t, fs),
         UNCHANGED <<prog, owed, cancelled>>,
         head' \in [Tasks -> ArcHead], \A u \in Tasks : ~IsDone(u) => ~IsDone(u)',
         word' \in [Tasks -> Word], \A u \in Tasks : u # t => word'[u].bits = word[u].bits
  PROVE  Inv'
<1>1. t \in Threads /\ todo[t] # <<>> /\ Cur(t).op \notin {"mark", "set"}
  BY Apart, InFrame
<1>2. /\ body' \in [Tasks -> {"idle", "pending", "running", "attached", "forwarding",
                              "value", "threw", "skipped"}]
      /\ \A u \in Tasks : Ahead(u)' => Ahead(u) /\ u # t /\ body'[u] = body[u]
  BY DEF Inv, Types, Ahead
<1>3. Types'
  BY <1>2 DEF Inv, Types
<1>4. OpenAhead'
  BY <1>2 DEF Inv, OpenAhead
<1> QED
  BY <1>1, <1>2, <1>3, <1>4, OtherStep

(* A completion of t, once its body is behind it. *)
LEMMA CompleteNext ==
  ASSUME NEW t \in Tasks, NEW e \in BOOLEAN, ~Ahead(t)'
  PROVE  Complete(t, e) \in Seq(Fit')
<1>1. [op |-> "exchange", node |-> t, failed |-> e] \in Fit'
  BY DEF Fit, Frame, Ahead
<1>2. [op |-> "wakeup", node |-> t] \in Fit'
  BY DEF Fit, Frame
<1> QED
  BY <1>1, <1>2, Short DEF Complete

LEMMA BodyMoves ==
  ASSUME Inv, NEW t \in Tasks, NEW v, v \notin {"idle", "pending"}, body' = [body EXCEPT ![t] = v]
  PROVE  ~Ahead(t)'
  BY DEF Inv, Types, Ahead

LEMMA SameLists ==
  ASSUME Inv, UNCHANGED <<head, word>>
  PROVE  /\ head' \in [Tasks -> ArcHead] /\ word' \in [Tasks -> Word]
         /\ \A u \in Tasks : (~IsDone(u) => ~IsDone(u)') /\ word'[u].bits = word[u].bits
  BY DEF Inv, Types, IsDone

LEMMA StartInv ==
  ASSUME Inv, NEW t \in Tasks, Start(t), UNCHANGED prog
  PROVE  Inv'
<1>1. At(t, "start") /\ UNCHANGED <<prog, head, word, owed, cancelled>>
  BY DEF Start
<1>2. CASE Starts(t)
  <2>1. body' = [body EXCEPT ![t] = "running"] /\ Then(t, <<[op |-> "functor", node |-> t]>>)
    BY <1>2 DEF Start
  <2>2. [op |-> "functor", node |-> t] \in Fit'
    BY DEF Fit, Frame
  <2>3. <<[op |-> "functor", node |-> t]>> \in Seq(Fit')
    BY <2>2, Short
  <2> QED
    BY <1>1, <2>1, <2>3, SameLists, BodyStep
<1>3. CASE ~Starts(t)
  <2>1. body' = [body EXCEPT ![t] = "skipped"] /\ Then(t, Complete(t, TRUE))
    BY <1>3 DEF Start
  <2>2. Complete(t, TRUE) \in Seq(Fit')
    BY <2>1, BodyMoves, CompleteNext
  <2> QED
    BY <1>1, <2>1, <2>2, SameLists, BodyStep
<1> QED
  BY <1>2, <1>3

LEMMA ReturnValueInv ==
  ASSUME Inv, NEW t \in Tasks, ReturnValue(t), UNCHANGED prog
  PROVE  Inv'
<1>1. /\ At(t, "functor") /\ UNCHANGED <<prog, head, word, owed, cancelled>>
      /\ body' = [body EXCEPT ![t] = "value"] /\ Then(t, Complete(t, FALSE))
  BY DEF ReturnValue
<1>2. Complete(t, FALSE) \in Seq(Fit')
  BY <1>1, BodyMoves, CompleteNext
<1> QED
  BY <1>1, <1>2, SameLists, BodyStep

LEMMA ThrowInv ==
  ASSUME Inv, NEW t \in Tasks, Throw(t), UNCHANGED prog
  PROVE  Inv'
<1> DEFINE marks == <<Carry(t, t), Mark(t, "exception")>>
<1>1. /\ At(t, "functor") /\ UNCHANGED <<prog, head, word, owed, cancelled>>
      /\ body' = [body EXCEPT ![t] = "threw"] /\ Then(t, marks \o Complete(t, TRUE))
  BY DEF Throw
<1>2. Complete(t, TRUE) \in Seq(Fit')
  BY <1>1, BodyMoves, CompleteNext
<1>3. marks \in Seq(Fit')
  <2>1. Carry(t, t) \in Fit' /\ Mark(t, "exception") \in Fit'
    BY DEF Carry, Mark, Fit, Frame, Bits
  <2> QED
    BY <2>1, Short
<1> HIDE DEF marks
<1>4. marks \o Complete(t, TRUE) \in Seq(Fit')
  BY <1>2, <1>3, Short
<1> QED
  BY <1>1, <1>4, SameLists, BodyStep

LEMMA EmplaceInv ==
  ASSUME Inv, NEW t \in Tasks, Emplace(t), UNCHANGED prog
  PROVE  Inv'
<1>1. /\ At(t, "functor") /\ UNCHANGED <<prog, head, owed, cancelled>>
      /\ body' = [body EXCEPT ![t] = "attached"] /\ Then(t, <<[op |-> "attach", node |-> t]>>)
      /\ word' = [word EXCEPT ![t] = [count |-> 1, bits |-> {}]]
  BY DEF Emplace
<1>2. [op |-> "attach", node |-> t] \in Fit'
  BY DEF Fit, Frame
<1>3. <<[op |-> "attach", node |-> t]>> \in Seq(Fit')
  BY <1>2, Short
<1>4. word' \in [Tasks -> Word] /\ \A u \in Tasks : u # t => word'[u].bits = word[u].bits
  <2>1. [count |-> 1, bits |-> {}] \in Word
    BY DEF Word
  <2> QED
    BY <1>1, <2>1 DEF Inv, Types
<1>5. head' \in [Tasks -> ArcHead] /\ \A u \in Tasks : ~IsDone(u) => ~IsDone(u)'
  BY <1>1 DEF Inv, Types, IsDone
<1> QED
  BY <1>1, <1>3, <1>4, <1>5, BodyStep

LEMMA AttachInv ==
  ASSUME Inv, NEW t \in Tasks, Attach(t), UNCHANGED prog
  PROVE  Inv'
<1>0. Returns(t) \in Tasks
  BY ProgramTypes DEF Attach, Forwards, Inv, Types
<1>1. At(t, "attach") /\ UNCHANGED <<prog, word, owed, cancelled>>
  BY DEF Attach
<1>2. CASE IsDone(Returns(t))
  <2>1. Then(t, <<[op |-> "look", node |-> t]>>) /\ UNCHANGED <<head, body>>
    BY <1>2 DEF Attach
  <2>2. <<[op |-> "look", node |-> t]>> \in Seq(Fit)
    BY SimpleKinds, Short DEF Simple
  <2>3. t \in Threads /\ todo[t] # <<>> /\ Cur(t).op \notin {"mark", "set"}
    BY <1>1, InFrame, Apart
  <2> QED
    BY <1>1, <2>1, <2>2, <2>3, QuietStep
<1>3. CASE ~IsDone(Returns(t))
  <2>1. /\ Push(Returns(t), Flow(t, 0)) /\ body' = [body EXCEPT ![t] = "forwarding"]
        /\ Then(t, <<>>)
    BY <1>3 DEF Attach
  <2>2. Open(<<Flow(t, 0)>> \o head[Returns(t)].arcs) \in ArcHead
    <3>1. Flow(t, 0) \in Arc /\ head[Returns(t)].arcs \in Seq(Arc)
      BY <1>0, ControlType DEF Flow, Arc, Inv
    <3>2. <<Flow(t, 0)>> \o head[Returns(t)].arcs \in Seq(Arc)
      BY <3>1, Short
    <3> QED
      BY <3>2 DEF Open, ArcHead
  <2>3. Open(<<Flow(t, 0)>> \o head[Returns(t)].arcs).tag = "open"
    BY DEF Open
  <2>4. head' = [head EXCEPT ![Returns(t)] = Open(<<Flow(t, 0)>> \o head[Returns(t)].arcs)]
    BY <2>1 DEF Push
  <2>5. head' \in [Tasks -> ArcHead] /\ \A u \in Tasks : ~IsDone(u) => ~IsDone(u)'
    BY <1>0, <2>2, <2>3, <2>4 DEF Inv, Types, IsDone
  <2>6. word' \in [Tasks -> Word]
    BY <1>1 DEF Inv, Types
  <2>7. <<>> \in Seq(Fit')
    BY Short
  <2> QED
    BY <1>1, <2>1, <2>5, <2>6, <2>7, BodyStep
<1> QED
  BY <1>2, <1>3

LEMMA LookInv ==
  ASSUME Inv, NEW t \in Tasks, Look(t), UNCHANGED prog
  PROVE  Inv'
<1>0. Returns(t) \in Tasks
  BY ProgramTypes DEF Look, Forwards, Inv, Types
<1>1. At(t, "look") /\ UNCHANGED <<prog, head, word, owed, cancelled>>
  BY DEF Look
<1>2. CASE AttachedLate(t)
  <2> DEFINE f == [op |-> "failure", node |-> t, from |-> Returns(t), port |-> 0]
  <2>1. body' = [body EXCEPT ![t] = "skipped"] /\ Then(t, <<f>> \o Complete(t, TRUE))
    BY <1>2 DEF Look
  <2>2. Complete(t, TRUE) \in Seq(Fit')
    BY <2>1, BodyMoves, CompleteNext
  <2>3. \A u \in Tasks :
          [op |-> "failure", node |-> t, from |-> u, port |-> 0] \in Fit'
    BY DEF Fit, Frame
  <2>4. <<f>> \o Complete(t, TRUE) \in Seq(Fit')
    <3>1. f \in Fit'
      BY <1>0, <2>3
    <3> HIDE DEF f
    <3> QED
      BY <2>2, <3>1, Short
  <2> HIDE DEF f
  <2> QED
    BY <1>1, <2>1, <2>4, SameLists, BodyStep
<1>3. CASE ~AttachedLate(t)
  <2>1. body' = [body EXCEPT ![t] = "value"] /\ Then(t, Complete(t, FALSE))
    BY <1>3 DEF Look
  <2>2. Complete(t, FALSE) \in Seq(Fit')
    BY <2>1, BodyMoves, CompleteNext
  <2> QED
    BY <1>1, <2>1, <2>2, SameLists, BodyStep
<1> QED
  BY <1>2, <1>3

LEMMA ResumeInv ==
  ASSUME Inv, NEW t \in Tasks, Resume(t), UNCHANGED prog
  PROVE  Inv'
<1> DEFINE v == IF Starts(t) THEN "value" ELSE "skipped"
           e == ~Starts(t)
<1>1. /\ At(t, "start") /\ UNCHANGED <<prog, head, word, owed, cancelled>>
      /\ body' = [body EXCEPT ![t] = v] /\ Then(t, Complete(t, e))
  BY DEF Resume
<1>2. v \in {"value", "skipped"} /\ e \in BOOLEAN
  OBVIOUS
<1> HIDE DEF v, e
<1>3. Complete(t, e) \in Seq(Fit')
  BY <1>1, <1>2, BodyMoves, CompleteNext
<1> QED
  BY <1>1, <1>2, <1>3, SameLists, BodyStep

(***************************************************************************)
(* The theorems                                                            *)
(***************************************************************************)
LEMMA InitInv == Init => Inv
<1> SUFFICES ASSUME Init
             PROVE  Inv
  OBVIOUS
<1>1. Open(<<>>) \in ArcHead /\ Open(<<>>).tag = "open"
  BY DEF Open, ArcHead
<1>2. [count |-> 0, bits |-> {}] \in Word
  BY DEF Word
<1>3. Types
  BY <1>1, <1>2 DEF Init, Types
<1>4. Frames /\ OpenAhead /\ Marked
  BY <1>1, Short DEF Init, Frames, OpenAhead, Marked, IsDone
<1> QED
  BY <1>3, <1>4 DEF Inv

LEMMA StepInv ==
  ASSUME Inv, NEW x \in Threads, Step(x), UNCHANGED prog
  PROVE  Inv'
BY MarkFailureInv, SetBitInv, PublishFailureInv, AddSignalInv, PopInv, LinkInv, LateInv,
   PublishInv, PreInv, ExchangeInv, NotifyInv, WaitInv DEF Step

LEMMA NextInv ==
  ASSUME Inv, [Next]_vars
  PROVE  Inv'
<1>1. CASE UNCHANGED vars
  <2>1. Types' /\ OpenAhead'
    BY <1>1 DEF Inv, Types, OpenAhead, Ahead, IsDone, vars
  <2>2. Fit' = Fit
    BY <1>1 DEF Fit, Ahead, vars
  <2>3. Frames'
    BY <1>1, <2>2 DEF Inv, Frames, vars
  <2>4. Marked'
    BY <1>1 DEF Inv, Marked, Has, InHand, vars
  <2> QED
    BY <2>1, <2>3, <2>4 DEF Inv
<1>2. ASSUME NEW t \in Tasks, Execute(t), UNCHANGED prog
      PROVE  Inv'
  BY <1>2, StartInv, ReturnValueInv, ThrowInv, RunInv, EmplaceInv, AttachInv, LookInv,
     ResumeInv DEF Execute
<1>3. ASSUME NEW t \in Tasks, Run(t), UNCHANGED prog
      PROVE  Inv'
  BY <1>3, RunInv
<1>4. ASSUME NEW x \in Users, Call(x), UNCHANGED prog
      PROVE  Inv'
  BY <1>4, CancelInv, WaitForInv DEF Call
<1>5. ASSUME NEW x \in Threads, Step(x), UNCHANGED prog
      PROVE  Inv'
  BY <1>5, StepInv
<1> QED
  BY <1>1, <1>2, <1>3, <1>4, <1>5 DEF Next, Rest

(* From the moment a user's cancel() is called until the task's body is reached, the task
   carries the mark or the call has it in hand, in any program; no list is closed and no
   completion begun for a task whose body is still ahead. *)
THEOREM MarkStays == Spec => []Inv
  BY InitInv, NextInv, PTL DEF Spec

(* Only Start begins a body. *)
LEMMA Begins ==
  ASSUME Inv, Next, NEW t \in Tasks, body[t] = "pending", body'[t] = "running"
  PROVE  ~Failed(t)
<1>1. body \in [Tasks -> {"idle", "pending", "running", "attached", "forwarding",
                          "value", "threw", "skipped"}]
  BY DEF Inv, Types
<1>2. ASSUME NEW u \in Tasks, Execute(u) \/ Run(u)
      PROVE  ~Failed(t)
  BY ZenonT(60), <1>1, <1>2 DEF Execute, Start, Starts, ReturnValue, Throw, Run, Emplace, Attach, Look, Resume
<1>3. ASSUME NEW x \in Users, Call(x)
      PROVE  FALSE
  BY <1>3 DEF Call, Cancel, WaitFor
<1>4. ASSUME NEW x \in Threads, Step(x)
      PROVE  FALSE
  BY <1>1, <1>4 DEF Step, MarkFailure, SetBit, PublishFailureFrom, AddSignal, DropSignal, Link,
     Late, Publish, Return, Pre, Exchange, NotifyArc, Wakeup, Wait, Block, Status
<1>5. CASE Rest
  BY <1>5 DEF Rest, vars
<1> QED
  BY <1>2, <1>3, <1>4, <1>5 DEF Next

(* A body never starts on a task that a user had cancelled in time. *)
THEOREM CancelSeen == Spec => CancelHeeded
<1>1. ASSUME Inv, [Next]_vars
      PROVE  [\A t \in cancelled : body[t] = "pending" /\ body'[t] = "running" =>
                \E x \in Users : \E i \in DOMAIN todo[x] :
                  /\ todo[x][i].op \in {"mark", "set"} /\ todo[x][i].node = t
                  /\ todo[x][i].bit = "user"]_vars
  <2>1. CASE UNCHANGED vars
    BY <2>1
  <2>2. ASSUME Next, NEW t \in cancelled, body[t] = "pending", body'[t] = "running"
        PROVE  \E x \in Users : \E i \in DOMAIN todo[x] :
                 /\ todo[x][i].op \in {"mark", "set"} /\ todo[x][i].node = t
                 /\ todo[x][i].bit = "user"
    <3>1. t \in Tasks
      BY <1>1 DEF Inv, Types
    <3>2. ~Has(t, "user")
      BY <1>1, <2>2, <3>1, Begins DEF Failed, Has
    <3> QED
      BY <1>1, <2>2, <3>2 DEF Inv, Marked, InHand
  <2> QED
    BY <1>1, <2>1, <2>2
<1> QED
  BY <1>1, MarkStays, PTL DEF Spec, CancelHeeded

-----------------------------------------------------------------------------
(***************************************************************************)
(* The countdown of the throwing policy is exact, for every program: a     *)
(* task has as many prerequisites left as there are arcs to it on open     *)
(* lists and notifications of it under way, and what the construction      *)
(* still holds back; it is completed once.                                 *)
(***************************************************************************)

Waiting(t) == body[t] \in {"pending", "forwarding"}
Final(t)   == body[t] \in {"value", "threw", "skipped"}

(* The arcs to t, the frames that take one prerequisite from it, those that hold back the
   protection of its construction, those that complete it, and its links to be made. *)
Flows(t)    == {a \in Arc : a.kind = "flow" /\ a.node = t}
Taking(t)   == {f \in Frame : f.op \in {"notify", "pre"} /\ f.node = t /\ (f.op = "pre" => f.k = 1)}
Holdback(t) == {f \in Frame : f.op \in {"publish", "pre"} /\ f.node = t /\ (f.op = "pre" => f.k # 1)}
Ending(t)   == {f \in Frame : f.op = "exchange" /\ f.node = t}
Linking(t)  == {f \in Frame : f.op = "link" /\ f.node = t}

Owes(t)   == Count(Lists, Flows(t)) + Count(todo, Taking(t))
Guards(t) == Count(todo, Holdback(t))

Counted(t) ==
  /\ Guards(t) <= 1
  /\ Owes(t) + (IF Guards(t) = 0 THEN 0 ELSE StartMask - owed[t])
       = IF Waiting(t) THEN word[t].count ELSE 0
  /\ owed[t] >= 0 /\ owed[t] + Count(todo, Linking(t)) <= Len(Inputs(t))
  /\ body[t] = "idle" => owed[t] = 0
  /\ Count(todo, Ending(t)) = IF Final(t) /\ ~IsDone(t) THEN 1 ELSE 0
  /\ IsDone(t) => Final(t)

(* The frames that a task's own thread begins and ends with. *)
Bottom == {"start", "functor", "attach", "look"}

(* What the rest of the state is while a thread has a frame ahead of it... *)
Fits(f) ==
  /\ f.op = "pre" => f.k = 1 \/ f.k = StartMask - owed[f.node]
  /\ f.op = "exchange" => /\ f.failed => body[f.node] \in {"skipped", "threw"}
                          /\ ~f.failed => body[f.node] = "value"
  /\ f.op = "start" => Waiting(f.node) /\ word[f.node].count = 0
  /\ f.op = "functor" => body[f.node] = "running"
  /\ f.op \in {"attach", "look"} => body[f.node] = "attached"
  /\ f.op = "attach" => word[f.node].count = 1

(* ... and where on a stack s of thread x it is. *)
Lies(x, s, i) ==
  /\ s[i].op \in Bottom => i = Len(s) /\ s[i].node = x
  /\ s[i].op \in {"link", "late"} => [op |-> "publish", node |-> s[i].node] \in After(s, i)

Placed == \A x \in Threads : \A i \in DOMAIN todo[x] : Fits(todo[x][i]) /\ Lies(x, todo[x], i)

(* Nothing runs on the thread of a task whose body is not under way, but its start. *)
Resting ==
  \A t \in Tasks : body[t] \in {"idle", "pending", "forwarding"} =>
    todo[t] = <<>> \/ todo[t] = <<[op |-> "start", node |-> t]>>

Core == Inv /\ Placed /\ Resting /\ \A t \in Tasks : Counted(t)

(***************************************************************************)
(* Stacks and lists                                                        *)
(***************************************************************************)
LEMMA Finite == IsFiniteSet(Tasks) /\ IsFiniteSet(Threads)
  BY FailuresAssumption, FS_Union DEF Threads

LEMMA Families ==
  ASSUME Inv
  PROVE  /\ todo \in Family(Threads, Frame) /\ Lists \in Family(Tasks, Arc)
         /\ \A x \in Threads : todo[x] \in Seq(Frame)
         /\ \A t \in Tasks : head[t].arcs \in Seq(Arc) /\ Lists[t] = head[t].arcs
<1>1. Fit \subseteq Frame
  BY DEF Fit
<1>2. \A x \in Threads : todo[x] \in Seq(Frame)
  <2>1. ASSUME NEW x \in Threads
        PROVE  todo[x] \in Seq(Frame)
    <3>1. todo[x] \in Seq(Fit)
      BY DEF Inv, Frames
    <3> QED
      BY <1>1, <3>1, Grows
  <2> QED
    BY <2>1
<1>3. DOMAIN todo = Threads /\ todo = [x \in Threads |-> todo[x]]
  BY DEF Inv, Frames
<1>4. todo \in Family(Threads, Frame)
  BY <1>2, <1>3 DEF Family
<1>5. \A t \in Tasks : head[t].arcs \in Seq(Arc)
  BY ControlType DEF Inv
<1>6. Lists \in Family(Tasks, Arc)
  BY <1>5 DEF Lists, Family
<1> QED
  BY <1>2, <1>4, <1>5, <1>6 DEF Lists

(* The counts of a thread that goes on. *)
LEMMA ThenCount ==
  ASSUME Inv, NEW x \in Threads, todo[x] # <<>>, NEW fs \in Seq(Frame), Then(x, fs), NEW P
  PROVE  /\ Count(todo', P) \in Nat /\ Count(todo, P) \in Nat /\ Number(fs, P) \in Nat
         /\ Count(todo', P) = Count(todo, P) - One(Cur(x) \in P) + Number(fs, P)
<1>1. todo \in Family(Threads, Frame) /\ IsFiniteSet(Threads)
  BY Families, Finite
<1>2. Onward(todo', todo, x, fs)
  BY DEF Then, Onward
<1> QED
  BY <1>1, <1>2, CountThen DEF Cur

(* The counts of the lists when an arc is put on one. *)
LEMMA PushCount ==
  ASSUME Inv, NEW u \in Tasks, NEW a \in Arc, Push(u, a), NEW P
  PROVE  /\ Count(Lists', P) \in Nat /\ Count(Lists, P) \in Nat
         /\ Count(Lists', P) = Count(Lists, P) + One(a \in P)
<1> DEFINE fs == <<a>>
<1>1. Lists \in Family(Tasks, Arc) /\ IsFiniteSet(Tasks) /\ Lists[u] = head[u].arcs
  BY Families, Finite
<1>2. fs \in Seq(Arc) /\ Number(fs, P) = One(a \in P)
  BY Short, NumberOne
<1>3. Upon(Lists', Lists, u, fs)
  BY <1>1 DEF Push, Open, Lists, Inv, Types, Upon
<1> HIDE DEF fs
<1>4. /\ Count(Lists', P) \in Nat /\ Count(Lists, P) \in Nat
      /\ Count(Lists', P) = Count(Lists, P) + Number(fs, P)
  BY <1>1, <1>2, <1>3, CountOnto
<1> QED
  BY <1>2, <1>4

(***************************************************************************)
(* What a step has to leave as it was                                      *)
(***************************************************************************)
(* f is a frame of some thread, and not the one x is in. *)
Left(x, f) ==
  \E y \in Threads : \E i \in DOMAIN todo[y] : (y # x \/ i # 1) /\ todo[y][i] = f

In(fs, f) == \E i \in DOMAIN fs : fs[i] = f

(* Frames that x may go on with on its stack s. *)
Seats(x, s, fs) ==
  \A i \in DOMAIN fs :
    /\ fs[i].op \in Bottom => i = Len(fs) /\ Len(s) = 1 /\ fs[i].node = x
    /\ fs[i].op \in {"link", "late"} =>
         [op |-> "publish", node |-> fs[i].node] \in After(fs, i) \cup After(s, 1)

(* A thread that the step leaves alone. *)
LEMMA PlacedOther ==
  ASSUME Inv, Placed, NEW x, NEW y \in Threads, y # x, todo'[y] = todo[y],
         \A f \in Frame : Left(x, f) /\ Fits(f) => Fits(f)'
  PROVE  \A i \in DOMAIN todo'[y] : Fits(todo[y][i])' /\ Lies(y, todo'[y], i)
<1>1. SUFFICES ASSUME NEW i \in DOMAIN todo'[y]
               PROVE  Fits(todo[y][i])' /\ Lies(y, todo'[y], i)
  OBVIOUS
<1>2. i \in DOMAIN todo[y] /\ todo[y] \in Seq(Frame)
  BY Families
<1>3. PICK f \in Frame : f = todo[y][i]
  BY <1>2, Element
<1>4. Fits(f) /\ Left(x, f) /\ Lies(y, todo[y], i)
  BY <1>2, <1>3 DEF Placed, Left
<1>5. Fits(f)' /\ todo'[y][i] = f
  BY <1>3, <1>4
<1>6. Fits(todo[y][i])'
  BY <1>5 DEF Fits, Waiting
<1> QED
  BY <1>4, <1>6

(* The thread that goes on. *)
LEMMA PlacedHere ==
  ASSUME Inv, Placed, NEW x \in Threads, todo[x] # <<>>, NEW s, s = todo[x],
         NEW fs \in Seq(Frame), todo'[x] = fs \o Tail(s), Seats(x, s, fs),
         \A f \in Frame : (Left(x, f) /\ Fits(f)) \/ In(fs, f) => Fits(f)'
  PROVE  \A i \in DOMAIN todo'[x] : Fits(todo[x][i])' /\ Lies(x, todo'[x], i)
<1>1. s \in Seq(Frame)
  BY Families
<1> DEFINE r == fs \o Tail(s)
<1>3. /\ r \in Seq(Frame) /\ (Len(s) = 1 => Len(r) = Len(fs))
      /\ \A i \in DOMAIN r : Fresh(r, i, fs, s) \/ \E j \in DOMAIN s : Stale(r, i, s, j)
  BY <1>1, GoesOn
<1>4. todo'[x] = r
  OBVIOUS
<1> HIDE DEF r
<1>7. ASSUME NEW i \in DOMAIN r
      PROVE  Fits(todo[x][i])' /\ Lies(x, r, i)
  <2>1. PICK f \in Frame : f = r[i]
    BY SMTT(30), <1>3, Element
  <2>2. CASE Fresh(r, i, fs, s)
    <3>1. i \in DOMAIN fs /\ f = fs[i] /\ After(fs, i) \subseteq After(r, i) /\ After(s, 1) \subseteq After(r, i)
      BY <2>1, <2>2 DEF Fresh
    <3>2. Fits(f)'
      BY <3>1 DEF In
    <3>3. Lies(x, r, i)
      BY <1>3, <2>1, <3>1 DEF Seats, Lies
    <3> QED
      BY <1>4, <2>1, <3>2, <3>3 DEF Fits, Waiting
  <2>3. ASSUME NEW j \in DOMAIN s, Stale(r, i, s, j)
        PROVE  Fits(todo[x][i])' /\ Lies(x, r, i)
    <3>1. j # 1 /\ f = s[j] /\ After(r, i) = After(s, j) /\ (j = Len(s) => i = Len(r))
      BY <2>1, <2>3 DEF Stale
    <3>2. Fits(f) /\ Lies(x, s, j) /\ Left(x, f)
      BY <3>1 DEF Placed, Left
    <3>3. Fits(f)'
      BY <3>2
    <3>4. Lies(x, r, i)
      BY <2>1, <3>1, <3>2 DEF Lies
    <3> QED
      BY <1>4, <2>1, <3>3, <3>4 DEF Fits, Waiting
  <2> QED
    BY <1>3, <2>2, <2>3
<1> QED
  BY <1>4, <1>7

LEMMA PlacedThen ==
  ASSUME Inv, Placed, NEW x \in Threads, todo[x] # <<>>, NEW fs \in Seq(Frame), Then(x, fs),
         Seats(x, todo[x], fs),
         \A f \in Frame : (Left(x, f) /\ Fits(f)) \/ In(fs, f) => Fits(f)'
  PROVE  Placed'
<1>1. todo'[x] = fs \o Tail(todo[x]) /\ \A y \in Threads : y # x => todo'[y] = todo[y]
  BY DEF Then, Inv, Frames
<1>2. \A i \in DOMAIN todo'[x] : Fits(todo[x][i])' /\ Lies(x, todo'[x], i)
  BY <1>1, PlacedHere
<1>3. ASSUME NEW y \in Threads, y # x
      PROVE  \A i \in DOMAIN todo'[y] : Fits(todo[y][i])' /\ Lies(y, todo'[y], i)
  BY <1>1, <1>3, PlacedOther
<1> QED
  BY <1>2, <1>3 DEF Placed

LEMMA RestingThen ==
  ASSUME Inv, Resting, NEW x \in Threads, todo[x] # <<>>, NEW fs, Then(x, fs),
         \A t \in Tasks : body'[t] \in {"idle", "pending", "forwarding"} =>
           body[t] \in {"idle", "pending", "forwarding"} /\ (t = x => Cur(x).op # "start")
  PROVE  Resting'
<1>1. ASSUME NEW t \in Tasks, body'[t] \in {"idle", "pending", "forwarding"}
      PROVE  todo'[t] = <<>> \/ todo'[t] = <<[op |-> "start", node |-> t]>>
  <2>1. todo[t] = <<>> \/ todo[t] = <<[op |-> "start", node |-> t]>>
    BY <1>1 DEF Resting
  <2>2. t # x
    BY <1>1, <2>1 DEF Cur
  <2>3. todo'[t] = todo[t]
    BY <2>2, Apart DEF Then, Inv, Frames
  <2> QED
    BY <2>1, <2>3
<1> QED
  BY <1>1 DEF Resting

(* Frames that count for nothing. *)
Calm == {f \in Frame : f.op \notin {"notify", "pre", "publish", "exchange", "link",
                                    "start", "functor", "attach", "look"}}

LEMMA CalmNone ==
  ASSUME NEW f \in Calm, NEW t
  PROVE  f \notin Taking(t) /\ f \notin Holdback(t) /\ f \notin Ending(t) /\ f \notin Linking(t)
  BY DEF Calm, Taking, Holdback, Ending, Linking

LEMMA CalmNumber ==
  ASSUME NEW fs \in Seq(Calm), NEW t
  PROVE  /\ Number(fs, Taking(t)) = 0 /\ Number(fs, Holdback(t)) = 0
         /\ Number(fs, Ending(t)) = 0 /\ Number(fs, Linking(t)) = 0
         /\ fs \in Seq(Frame)
<1>1. \A i \in DOMAIN fs : fs[i] \in Calm
  BY Element
<1>2. \A i \in DOMAIN fs : /\ fs[i] \notin Taking(t) /\ fs[i] \notin Holdback(t)
                           /\ fs[i] \notin Ending(t) /\ fs[i] \notin Linking(t)
  BY <1>1, CalmNone
<1>3. fs \in Seq(Frame)
  <2>1. Calm \subseteq Frame
    BY DEF Calm
  <2> QED
    BY <2>1, Grows
<1> QED
  BY <1>2, <1>3, NumberNone

(* A step that neither counts nor moves a body. *)
LEMMA CoreCalm ==
  ASSUME Core, Inv', NEW x \in Threads, todo[x] # <<>>, Cur(x) \in Calm, NEW fs \in Seq(Calm),
         Then(x, fs), NEW s, s = todo[x], Seats(x, s, fs), UNCHANGED <<prog, body, owed>>,
         \A t \in Tasks : /\ word'[t].count = word[t].count /\ (IsDone(t)' <=> IsDone(t))
                          /\ Count(Lists', Flows(t)) = Count(Lists, Flows(t))
  PROVE  Core'
<1>0. fs \in Seq(Frame)
  BY CalmNumber
<1>1. ASSUME NEW t \in Tasks
      PROVE  Counted(t)'
  <2>1. /\ Count(todo', Taking(t)) = Count(todo, Taking(t))
        /\ Count(todo', Holdback(t)) = Count(todo, Holdback(t))
        /\ Count(todo', Ending(t)) = Count(todo, Ending(t))
        /\ Count(todo', Linking(t)) = Count(todo, Linking(t))
    <3>1. \A P : Cur(x) \notin P /\ Number(fs, P) = 0 => Count(todo', P) = Count(todo, P)
      BY <1>0, ThenCount DEF Core, One
    <3> QED
      BY <3>1, CalmNone, CalmNumber
  <2>2. Owes(t)' = Owes(t) /\ Guards(t)' = Guards(t)
    BY <2>1 DEF Owes, Guards
  <2>3. Counted(t)
    BY DEF Core
  <2>4. Inputs(t)' = Inputs(t) /\ (Waiting(t)' <=> Waiting(t)) /\ (Final(t)' <=> Final(t))
    BY DEF Inputs, Waiting, Final
  <2> QED
    BY <2>1, <2>2, <2>3, <2>4 DEF Counted
<1>2. Placed'
  <2>1. ASSUME NEW f \in Frame, Fits(f)
        PROVE  Fits(f)'
    <3>1. f.op \in {"start", "attach"} => f.node \in Tasks
      BY Says DEF Simple
    <3> QED
      BY <2>1, <3>1 DEF Fits, Waiting
  <2>2. ASSUME NEW f \in Frame, In(fs, f)
        PROVE  Fits(f)'
    <3>1. f \in Calm
      BY <2>2, Element DEF In
    <3> QED
      BY <3>1 DEF Calm, Fits
  <2> QED
    BY <1>0, <2>1, <2>2, PlacedThen DEF Core
<1>3. Resting'
  <2>1. Cur(x).op # "start"
    BY DEF Calm
  <2> QED
    BY <1>0, <2>1, RestingThen DEF Core
<1> QED
  BY <1>1, <1>2, <1>3 DEF Core

(***************************************************************************)
(* Steps that do not count                                                 *)
(***************************************************************************)
LEMMA CalmKinds ==
  ASSUME NEW t \in Tasks, NEW u \in Tasks, NEW b \in Bits, NEW p \in Nat, NEW w \in Word
  PROVE  /\ Mark(t, b) \in Calm /\ Carry(t, u) \in Calm
         /\ [op |-> "set", node |-> t, bit |-> b, word |-> w] \in Calm
         /\ [op |-> "drop", control |-> u] \in Calm
         /\ [op |-> "failure", node |-> t, from |-> u, port |-> p] \in Calm
         /\ \A e \in BOOLEAN :
              [op |-> "failure", node |-> t, from |-> u, port |-> p, failed |-> e] \in Calm
         /\ \A o \in {"return", "wakeup", "wait", "block", "status"} : [op |-> o, node |-> t] \in Calm
<1>1. Mark(t, b) \in Frame /\ Carry(t, u) \in Frame
  BY DEF Mark, Carry, Frame
<1>2. /\ [op |-> "set", node |-> t, bit |-> b, word |-> w] \in Frame
      /\ [op |-> "drop", control |-> u] \in Frame
  BY DEF Frame
<1>3. /\ [op |-> "failure", node |-> t, from |-> u, port |-> p] \in Frame
      /\ \A e \in BOOLEAN :
           [op |-> "failure", node |-> t, from |-> u, port |-> p, failed |-> e] \in Frame
  BY DEF Frame
<1>4. \A o \in {"return", "wakeup", "wait", "block", "status"} : [op |-> o, node |-> t] \in Frame
  BY DEF Frame
<1> QED
  BY <1>1, <1>2, <1>3, <1>4 DEF Calm, Mark, Carry

(* Calm frames but a late link may come anywhere. *)
LEMMA CalmSeats ==
  ASSUME NEW x, NEW s, NEW fs \in Seq(Calm), \A i \in DOMAIN fs : fs[i].op # "late"
  PROVE  Seats(x, s, fs)
<1>1. \A i \in DOMAIN fs : fs[i] \in Calm
  BY Element
<1> QED
  BY <1>1 DEF Seats, Calm, Bottom

(* The empty stack of frames, one frame, two. *)
LEMMA CalmShort ==
  ASSUME NEW x, NEW s
  PROVE  /\ <<>> \in Seq(Calm) /\ Seats(x, s, <<>>)
         /\ \A f \in Calm : f.op # "late" => <<f>> \in Seq(Calm) /\ Seats(x, s, <<f>>)
         /\ \A f, g \in Calm : f.op # "late" /\ g.op # "late" =>
                               <<f, g>> \in Seq(Calm) /\ Seats(x, s, <<f, g>>)
<1>1. <<>> \in Seq(Calm) /\ Seats(x, s, <<>>)
  BY Short DEF Seats
<1>2. ASSUME NEW f \in Calm, f.op # "late"
      PROVE  <<f>> \in Seq(Calm) /\ Seats(x, s, <<f>>)
  <2>1. <<f>> \in Seq(Calm)
    BY Short
  <2>2. \A i \in DOMAIN <<f>> : <<f>>[i].op # "late"
    BY <1>2
  <2> QED
    BY <2>1, <2>2, CalmSeats
<1>3. ASSUME NEW f \in Calm, NEW g \in Calm, f.op # "late", g.op # "late"
      PROVE  <<f, g>> \in Seq(Calm) /\ Seats(x, s, <<f, g>>)
  <2>1. <<f, g>> \in Seq(Calm)
    BY Short
  <2>2. \A i \in DOMAIN <<f, g>> : <<f, g>>[i].op # "late"
    BY <1>3
  <2> QED
    BY <2>1, <2>2, CalmSeats
<1> QED
  BY <1>1, <1>2, <1>3

LEMMA CalmFrame ==
  ASSUME Core, NEW x \in Threads, NEW o, At(x, o),
         o \notin {"notify", "pre", "publish", "exchange", "link", "start", "functor", "attach", "look"}
  PROVE  todo[x] # <<>> /\ Cur(x).op = o /\ Cur(x) \in Calm /\ Cur(x) \in Frame
<1>1. todo[x] # <<>> /\ Cur(x).op = o /\ Cur(x) \in Frame
  BY InFrame DEF Core
<1> QED
  BY <1>1 DEF Calm

(* Most of them leave the lists and the counts alone. *)
LEMMA CoreQuiet ==
  ASSUME Core, Inv', NEW x \in Threads, todo[x] # <<>>, Cur(x) \in Calm, NEW fs \in Seq(Calm),
         Then(x, fs), Seats(x, todo[x], fs), UNCHANGED <<prog, head, body, owed>>,
         \A t \in Tasks : word'[t].count = word[t].count
  PROVE  Core'
<1>1. \A t \in Tasks : (IsDone(t)' <=> IsDone(t)) /\ Count(Lists', Flows(t)) = Count(Lists, Flows(t))
  BY DEF IsDone, Lists
<1> QED
  BY <1>1, CoreCalm

LEMMA PopCore ==
  ASSUME Core, Inv', NEW x \in Threads, UNCHANGED prog,
         DropSignal(x) \/ Return(x) \/ Wakeup(x) \/ Block(x) \/ Status(x)
  PROVE  Core'
<1>1. /\ todo[x] # <<>> /\ Cur(x) \in Calm /\ Then(x, <<>>)
      /\ UNCHANGED <<prog, head, word, owed, body>>
  BY CalmFrame DEF DropSignal, Return, Wakeup, Block, Status
<1> QED
  BY <1>1, CalmShort, CoreQuiet

LEMMA MarkFailureCore ==
  ASSUME Core, Inv', NEW x \in Threads, MarkFailure(x), UNCHANGED prog
  PROVE  Core'
<1>1. todo[x] # <<>> /\ Cur(x).op = "mark" /\ Cur(x) \in Calm /\ Cur(x) \in Frame
  BY CalmFrame DEF MarkFailure
<1>2. PICK t \in Tasks, b \in Bits : Cur(x).node = t /\ Cur(x).bit = b
  BY <1>1, Says
<1> DEFINE f == [op |-> "set", node |-> t, bit |-> b, word |-> word[t]]
           fs == IF IsDone(t) THEN <<>> ELSE <<f>>
<1>3. Then(x, fs) /\ UNCHANGED <<prog, head, word, owed, body>>
  BY <1>2 DEF MarkFailure
<1>4. fs \in Seq(Calm) /\ Seats(x, todo[x], fs)
  <2>1. word[t] \in Word
    BY <1>2 DEF Core, Inv, Types
  <2>2. f \in Calm /\ f.op # "late"
    BY <1>2, <2>1, CalmKinds
  <2> HIDE DEF f
  <2> QED
    BY <2>2, CalmShort
<1> HIDE DEF fs
<1> QED
  BY <1>1, <1>3, <1>4, CoreQuiet

LEMMA SetBitCore ==
  ASSUME Core, Inv', NEW x \in Threads, SetBit(x), UNCHANGED prog
  PROVE  Core'
<1>1. todo[x] # <<>> /\ Cur(x).op = "set" /\ Cur(x) \in Calm /\ Cur(x) \in Frame
  BY CalmFrame DEF SetBit
<1>2. PICK t \in Tasks, b \in Bits : Cur(x).node = t /\ Cur(x).bit = b
  BY <1>1, Says
<1>3. word \in [Tasks -> Word] /\ \A u \in Tasks : word[u] \in Word
  BY DEF Core, Inv, Types
<1>4. CASE word[t] = Cur(x).word
  <2>1. /\ Then(x, <<>>) /\ UNCHANGED <<prog, head, owed, body>>
        /\ word' = [word EXCEPT ![t].bits = @ \cup {b}]
    BY <1>2, <1>4 DEF SetBit
  <2>2. \A u \in Tasks : word'[u].count = word[u].count
    BY <1>3, <2>1 DEF Word
  <2> QED
    BY <1>1, <2>1, <2>2, CalmShort, CoreQuiet
<1>5. CASE word[t] # Cur(x).word
  <2>1. Then(x, <<Mark(t, b)>>) /\ UNCHANGED <<prog, head, word, owed, body>>
    BY <1>2, <1>5 DEF SetBit, Retry
  <2>2. Mark(t, b) \in Calm /\ Mark(t, b).op # "late"
    BY CalmKinds, <1>3 DEF Mark
  <2>3. <<Mark(t, b)>> \in Seq(Calm) /\ Seats(x, todo[x], <<Mark(t, b)>>)
    BY <2>2, CalmShort
  <2> QED
    BY <1>1, <2>1, <2>3, CoreQuiet
<1> QED
  BY <1>4, <1>5

LEMMA PublishFailureCore ==
  ASSUME Core, Inv', NEW x \in Threads, PublishFailureFrom(x), UNCHANGED prog
  PROVE  Core'
<1> DEFINE fs == From(Cur(x).node, Cur(x).from, Cur(x).port)
<1>1. todo[x] # <<>> /\ Cur(x).op = "failure" /\ Cur(x) \in Calm /\ Cur(x) \in Frame
  BY CalmFrame DEF PublishFailureFrom
<1>2. PICK t \in Tasks, u \in Tasks, p \in Nat : Cur(x).node = t /\ Cur(x).from = u /\ Cur(x).port = p
  BY <1>1, Says
<1>3. Then(x, fs) /\ UNCHANGED <<prog, head, word, owed, body>>
  BY DEF PublishFailureFrom
<1>4. fs \in Seq(Calm) /\ Seats(x, todo[x], fs)
  <2>1. \A b \in Bits : Mark(t, b) \in Calm /\ Mark(t, b).op # "late"
    BY DEF Mark, Calm, Frame
  <2>2. \A c \in Tasks : Carry(t, c) \in Calm /\ Carry(t, c).op # "late"
    BY DEF Carry, Calm, Frame
  <2>3. LocalControl(u) # {} => TheControl(u) \in Tasks
    BY ControlType DEF Core, Inv
  <2>4. \A b \in Bits : <<Mark(t, b)>> \in Seq(Calm) /\ Seats(x, todo[x], <<Mark(t, b)>>)
    BY <2>1, CalmShort
  <2>5. \A c \in Tasks : /\ <<Carry(t, c), Mark(t, "exception")>> \in Seq(Calm)
                         /\ Seats(x, todo[x], <<Carry(t, c), Mark(t, "exception")>>)
    BY <2>1, <2>2, CalmShort DEF Bits
  <2> QED
    BY <1>2, <2>3, <2>4, <2>5 DEF From, Bits
<1> HIDE DEF fs
<1> QED
  BY <1>1, <1>3, <1>4, CoreQuiet

LEMMA LateCore ==
  ASSUME Core, Inv', NEW x \in Threads, Late(x), UNCHANGED prog
  PROVE  Core'
<1> DEFINE fs == LateFailure(Cur(x))
           f == [Cur(x) EXCEPT !.op = "failure"]
<1>1. todo[x] # <<>> /\ Cur(x).op = "late" /\ Cur(x) \in Calm /\ Cur(x) \in Frame
  BY CalmFrame DEF Late
<1>2. Then(x, fs) /\ UNCHANGED <<prog, head, word, owed, body>>
  BY DEF Late
<1>3. f \in Calm /\ f.op # "late"
  <2>1. f \in Fit /\ f.op = "failure"
    BY <1>1, Says DEF Frame
  <2> QED
    BY <2>1 DEF Fit, Calm
<1>4. fs \in Seq(Calm) /\ Seats(x, todo[x], fs)
  <2> HIDE DEF f
  <2>1. <<f>> \in Seq(Calm) /\ Seats(x, todo[x], <<f>>)
    BY <1>3, CalmShort
  <2> QED
    BY <2>1, CalmShort DEF LateFailure, f
<1> HIDE DEF fs
<1> QED
  BY <1>1, <1>2, <1>4, CoreQuiet

LEMMA WaitCore ==
  ASSUME Core, Inv', NEW x \in Threads, Wait(x), UNCHANGED prog
  PROVE  Core'
<1>1. todo[x] # <<>> /\ Cur(x).op = "wait" /\ Cur(x) \in Calm /\ Cur(x) \in Frame
  BY CalmFrame DEF Wait
<1> DEFINE f == [op |-> "block", node |-> Cur(x).node]
           fs == IF IsDone(Cur(x).node) THEN <<>> ELSE <<f>>
<1>2. Then(x, fs) /\ UNCHANGED <<prog, head, word, owed, body>>
  BY DEF Wait
<1>3. f \in Calm /\ f.op # "late"
  <2>1. Cur(x).node \in Tasks
    BY <1>1, Says DEF Simple
  <2> QED
    BY <2>1 DEF Calm, Frame
<1>4. fs \in Seq(Calm) /\ Seats(x, todo[x], fs)
  <2> HIDE DEF f
  <2> QED
    BY <1>3, CalmShort
<1> HIDE DEF fs
<1> QED
  BY <1>1, <1>2, <1>4, CoreQuiet

(* An arc put on an open list. *)
LEMMA PushOpen ==
  ASSUME Inv, NEW u \in Tasks, ~IsDone(u), NEW a, Push(u, a), NEW t \in Tasks
  PROVE  IsDone(t)' <=> IsDone(t)
  BY DEF Push, Open, IsDone, Inv, Types

LEMMA AddSignalCore ==
  ASSUME Core, Inv', NEW x \in Threads, AddSignal(x), UNCHANGED prog
  PROVE  Core'
<1>1. todo[x] # <<>> /\ Cur(x).op = "signal" /\ Cur(x) \in Calm /\ Cur(x) \in Frame
  BY CalmFrame DEF AddSignal
<1>2. PICK t \in Tasks, c \in Tasks : Cur(x).node = t /\ Cur(x).control = c
  BY <1>1, Says
<1>3. UNCHANGED <<prog, word, owed, body>>
  BY DEF AddSignal
<1>4. CASE IsDone(t)
  <2> DEFINE f == [op |-> "drop", control |-> c]
  <2>1. Then(x, <<f>>) /\ UNCHANGED head
    BY <1>2, <1>4 DEF AddSignal
  <2>2. f \in Calm /\ f.op # "late"
    BY DEF Calm, Frame
  <2> HIDE DEF f
  <2>3. <<f>> \in Seq(Calm) /\ Seats(x, todo[x], <<f>>)
    BY <2>2, CalmShort
  <2> QED
    BY <1>1, <1>3, <2>1, <2>3, CoreQuiet
<1>5. CASE ~IsDone(t)
  <2>1. Push(t, Signal(c)) /\ Then(x, <<>>)
    BY <1>2, <1>5 DEF AddSignal
  <2>2. Signal(c) \in Arc /\ \A u : Signal(c) \notin Flows(u)
    BY DEF Arc, Flows, Signal
  <2>3. \A u \in Tasks : Count(Lists', Flows(u)) = Count(Lists, Flows(u))
    <3>1. \A P : Signal(c) \notin P => Count(Lists', P) = Count(Lists, P)
      BY <2>1, <2>2, PushCount DEF Core, One
    <3> QED
      BY <2>2, <3>1
  <2>4. \A u \in Tasks : IsDone(u)' <=> IsDone(u)
    BY <1>5, <2>1, PushOpen DEF Core
  <2> QED
    BY <1>1, <1>3, <2>1, <2>3, <2>4, CalmShort, CoreCalm
<1> QED
  BY <1>4, <1>5

(***************************************************************************)
(* What the counts say                                                     *)
(***************************************************************************)
LEMMA InputsFew ==
  ASSUME Inv, NEW t \in Tasks
  PROVE  Len(Inputs(t)) \in Nat /\ Len(Inputs(t)) < StartMask /\ Inputs(t) \in Seq(Output)
<1>1. prog \in DOMAIN Programs
  BY DEF Inv, Types
<1>2. Inputs(t) \in Seq(Output)
  BY <1>1, ProgramTypes
<1>3. Len(Inputs(t)) < StartMask
  BY <1>1, FailuresAssumption DEF Inputs
<1> QED
  BY <1>2, <1>3

LEMMA Numbers ==
  ASSUME Core, NEW t \in Tasks
  PROVE  /\ Count(Lists, Flows(t)) \in Nat /\ Count(todo, Taking(t)) \in Nat
         /\ Count(todo, Ending(t)) \in Nat /\ Count(todo, Linking(t)) \in Nat
         /\ Owes(t) = Count(Lists, Flows(t)) + Count(todo, Taking(t))
         /\ Owes(t) \in Nat /\ Guards(t) \in {0, 1} /\ Guards(t) = Count(todo, Holdback(t))
         /\ word[t].count \in Int /\ owed[t] \in Int /\ StartMask \in Int
         /\ Len(Inputs(t)) \in Nat /\ StartMask - owed[t] >= 1
         /\ ~Waiting(t) => Owes(t) = 0 /\ Guards(t) = 0
<1>1. Inv /\ Counted(t)
  BY DEF Core
<1>2. /\ Count(Lists, Flows(t)) \in Nat /\ Count(todo, Taking(t)) \in Nat
      /\ Count(todo, Ending(t)) \in Nat /\ Count(todo, Linking(t)) \in Nat
      /\ Count(todo, Holdback(t)) \in Nat
  BY <1>1, Families, Finite, CountType
<1>3. owed[t] \in Int /\ word[t] \in Word /\ StartMask \in Int
  BY <1>1 DEF Inv, Types, StartMask
<1>4. word[t].count \in Int
  BY <1>3 DEF Word
<1>5. Len(Inputs(t)) \in Nat /\ Len(Inputs(t)) < StartMask
  BY <1>1, InputsFew
<1>6. /\ Owes(t) = Count(Lists, Flows(t)) + Count(todo, Taking(t))
      /\ Guards(t) = Count(todo, Holdback(t))
  BY DEF Owes, Guards
<1>7. owed[t] + Count(todo, Linking(t)) <= Len(Inputs(t)) /\ Guards(t) <= 1
  BY <1>1 DEF Counted
<1>8. StartMask - owed[t] >= 1 /\ Guards(t) \in {0, 1}
  BY <1>2, <1>3, <1>5, <1>6, <1>7
<1>9. ~Waiting(t) => Owes(t) = 0 /\ Guards(t) = 0
  BY <1>1, <1>2, <1>3, <1>6, <1>8 DEF Counted
<1> QED
  BY <1>2, <1>3, <1>4, <1>5, <1>6, <1>8, <1>9

(* What a frame ahead of some thread means. *)
LEMMA Found ==
  ASSUME Core, NEW x \in Threads, NEW i \in DOMAIN todo[x], NEW f, todo[x][i] = f, NEW t \in Tasks
  PROVE  /\ f \in Frame /\ Fits(f) /\ Lies(x, todo[x], i)
         /\ f \in Taking(t) => Owes(t) >= 1 /\ Waiting(t)
         /\ f \in Holdback(t) => Guards(t) = 1 /\ Waiting(t)
         /\ f \in Ending(t) => Final(t) /\ ~IsDone(t)
         /\ f \in Linking(t) => Guards(t) = 1 /\ Waiting(t)
<1>1. todo \in Family(Threads, Frame) /\ IsFiniteSet(Threads) /\ todo[x] \in Seq(Frame)
  BY Families, Finite DEF Core
<1>2. f \in Frame
  BY <1>1, Element
<1>3. Fits(f) /\ Lies(x, todo[x], i)
  BY DEF Core, Placed
<1>4. \A P : f \in P => Count(todo, P) >= 1
  BY <1>1, CountNone
<1>5. f \in Taking(t) => Owes(t) >= 1 /\ Waiting(t)
  BY <1>4, Numbers
<1>6. \A j \in DOMAIN todo[x] : todo[x][j] \in Holdback(t) => Guards(t) = 1 /\ Waiting(t)
  <2>1. \A P : \A j \in DOMAIN todo[x] : todo[x][j] \in P => Count(todo, P) >= 1
    BY <1>1, CountNone
  <2> QED
    BY <2>1, Numbers
<1>7. f \in Ending(t) => Final(t) /\ ~IsDone(t)
  <2>1. Counted(t)
    BY DEF Core
  <2> QED
    BY <1>4, <2>1, Numbers DEF Counted
<1>8. f \in Linking(t) => Guards(t) = 1 /\ Waiting(t)
  <2>1. SUFFICES ASSUME f.op = "link", f.node = t
                 PROVE  Guards(t) = 1 /\ Waiting(t)
    BY DEF Linking
  <2>2. [op |-> "publish", node |-> t] \in After(todo[x], i)
    BY <1>3, <2>1 DEF Lies
  <2>3. PICK j \in DOMAIN todo[x] : todo[x][j] = [op |-> "publish", node |-> t]
    <3>1. DOMAIN todo[x] = 1..Len(todo[x]) /\ Len(todo[x]) \in Nat
      BY <1>1
    <3> QED
      BY <2>2, <3>1 DEF After
  <2>4. todo[x][j] \in Holdback(t)
    BY <2>3 DEF Holdback, Frame
  <2> QED
    BY <1>6, <2>4
<1> QED
  BY <1>2, <1>3, <1>5, <1>6, <1>7, <1>8

(* A task's protection is held back once, and it is completed by one. *)
LEMMA Alone ==
  ASSUME Core, NEW x \in Threads, NEW i \in DOMAIN todo[x], NEW y \in Threads, NEW j \in DOMAIN todo[y],
         NEW t \in Tasks,
         \/ todo[x][i] \in Holdback(t) /\ todo[y][j] \in Holdback(t)
         \/ todo[x][i] \in Ending(t) /\ todo[y][j] \in Ending(t)
  PROVE  x = y /\ i = j
<1>1. todo \in Family(Threads, Frame) /\ IsFiniteSet(Threads)
  BY Families, Finite DEF Core
<1>2. Count(todo, Holdback(t)) <= 1 /\ Count(todo, Ending(t)) <= 1
  <2>1. Counted(t)
    BY DEF Core
  <2> QED
    BY <2>1 DEF Counted, Guards
<1>3. \A P : Count(todo, P) <= 1 /\ todo[x][i] \in P /\ todo[y][j] \in P => x = y /\ i = j
  BY <1>1, CountNone
<1> QED
  BY <1>2, <1>3

(* The frame a thread is in is the first of its stack. *)
LEMMA First ==
  ASSUME Core, NEW x \in Threads, NEW o, At(x, o)
  PROVE  /\ todo[x] # <<>> /\ 1 \in DOMAIN todo[x] /\ todo[x][1] = Cur(x) /\ Cur(x).op = o
         /\ Cur(x) \in Frame /\ Fits(Cur(x)) /\ Lies(x, todo[x], 1)
         /\ todo[x] \in Seq(Frame)
<1>1. todo[x] # <<>> /\ Cur(x).op = o /\ todo[x] \in Seq(Frame) /\ Cur(x) \in Frame
  BY InFrame, Families DEF Core
<1>2. 1 \in DOMAIN todo[x] /\ todo[x][1] = Cur(x)
  BY <1>1, GoesOn DEF Cur
<1> QED
  BY <1>1, <1>2 DEF Core, Placed

(* The counts of a task that a step does not touch. *)
LEMMA CountedKept ==
  ASSUME NEW v, Counted(v), UNCHANGED prog, body'[v] = body[v], owed'[v] = owed[v],
         word'[v].count = word[v].count, IsDone(v)' <=> IsDone(v),
         Count(Lists', Flows(v)) = Count(Lists, Flows(v)),
         Count(todo', Taking(v)) = Count(todo, Taking(v)),
         Count(todo', Holdback(v)) = Count(todo, Holdback(v)),
         Count(todo', Ending(v)) = Count(todo, Ending(v)),
         Count(todo', Linking(v)) = Count(todo, Linking(v))
  PROVE  Counted(v)'
<1>1. Owes(v)' = Owes(v) /\ Guards(v)' = Guards(v)
  BY DEF Owes, Guards
<1>2. Inputs(v)' = Inputs(v) /\ (Waiting(v)' <=> Waiting(v)) /\ (Final(v)' <=> Final(v))
  BY DEF Inputs, Waiting, Final
<1> QED
  BY <1>1, <1>2 DEF Counted

(* What a frame counts for. *)
LEMMA Sorts ==
  ASSUME NEW f \in Frame, NEW v
  PROVE  /\ f \in Taking(v) <=> f.node = v /\ (f.op = "notify" \/ (f.op = "pre" /\ f.k = 1))
         /\ f \in Holdback(v) <=> f.node = v /\ (f.op = "publish" \/ (f.op = "pre" /\ f.k # 1))
         /\ f \in Ending(v) <=> f.node = v /\ f.op = "exchange"
         /\ f \in Linking(v) <=> f.node = v /\ f.op = "link"
  BY DEF Taking, Holdback, Ending, Linking

LEMMA FitsSame ==
  ASSUME NEW f \in Frame, Fits(f), UNCHANGED <<word, body, owed>>
  PROVE  Fits(f)'
  BY DEF Fits, Waiting

LEMMA LinkCore ==
  ASSUME Core, Inv', NEW x \in Threads, Link(x), UNCHANGED prog
  PROVE  Core'
<1> DEFINE f == Cur(x)
<1>1. /\ todo[x] # <<>> /\ 1 \in DOMAIN todo[x] /\ todo[x][1] = f /\ f.op = "link"
      /\ f \in Frame /\ Fits(f) /\ Lies(x, todo[x], 1) /\ todo[x] \in Seq(Frame)
  BY First DEF Link
<1>2. PICK t \in Tasks, u \in Tasks, p \in Nat : f.node = t /\ f.from = u /\ f.port = p
  BY <1>1, Says
<1>3. \A v : /\ f \notin Taking(v) /\ f \notin Holdback(v) /\ f \notin Ending(v)
             /\ f \in Linking(v) <=> v = t
  BY <1>1, <1>2, Sorts
<1>4. Guards(t) = 1 /\ Waiting(t)
  BY <1>1, <1>3, Found
<1>5. [op |-> "publish", node |-> t] \in After(todo[x], 1)
  BY <1>1, <1>2 DEF Lies
<1>6. UNCHANGED <<prog, word, body>> /\ Inv /\ Placed /\ Resting
  BY DEF Link, Core
<1> HIDE DEF f
<1>7. CASE IsDone(u)
  <2>0. PICK g \in Fit : g = [f EXCEPT !.op = "late"]
    BY <1>1, Says
  <2> DEFINE fs == <<g>>
  <2>1. Then(x, fs) /\ UNCHANGED <<head, owed>>
    BY <1>2, <1>7, <2>0 DEF Link, f
  <2>2. g \in Frame /\ g.op = "late" /\ g.node = t
    <3>1. f \in [op : {"link", "late", "failure"}, node : Tasks, from : Tasks, port : Nat]
      BY <1>1 DEF Frame
    <3> QED
      BY <1>2, <2>0, <3>1 DEF Fit
  <2>3. \A v : g \notin Taking(v) /\ g \notin Holdback(v) /\ g \notin Ending(v) /\ g \notin Linking(v)
    BY <2>2, Sorts
  <2>4. Fits(g)' /\ Seats(x, todo[x], <<g>>)
    <3>1. Fits(g)'
      BY <2>2 DEF Fits
    <3>2. \A i \in DOMAIN <<g>> : <<g>>[i] = g
      OBVIOUS
    <3>3. Seats(x, todo[x], <<g>>)
      BY <1>5, <2>2, <3>2 DEF Seats, Bottom
    <3> QED
      BY <3>1, <3>3
  <2>5. fs \in Seq(Frame) /\ (\A P : Number(fs, P) = One(g \in P)) /\ (\A e : In(fs, e) => e = g)
    BY <2>2, NumberOne DEF In
  <2> HIDE DEF fs
  <2>6. \A P : /\ Count(todo', P) \in Nat /\ Count(todo, P) \in Nat
               /\ Count(todo', P) = Count(todo, P) - One(f \in P) + One(g \in P)
    BY <1>1, <1>6, <2>1, <2>5, ThenCount DEF f
  <2>7. ASSUME NEW v \in Tasks
        PROVE  Counted(v)'
    <3>1. Counted(v)
      BY DEF Core
    <3>2. /\ Count(todo', Taking(v)) = Count(todo, Taking(v))
          /\ Count(todo', Holdback(v)) = Count(todo, Holdback(v))
          /\ Count(todo', Ending(v)) = Count(todo, Ending(v))
          /\ Count(todo', Linking(v)) <= Count(todo, Linking(v))
          /\ Count(todo', Linking(v)) \in Nat /\ Count(todo, Linking(v)) \in Nat
      BY <1>3, <2>3, <2>6 DEF One
    <3>3. Lists' = Lists /\ Inputs(v)' = Inputs(v) /\ (IsDone(v)' <=> IsDone(v))
      BY <1>6, <2>1 DEF Lists, Inputs, IsDone
    <3>4. Owes(v)' = Owes(v) /\ Guards(v)' = Guards(v)
      BY <3>2, <3>3 DEF Owes, Guards
    <3>5. (Waiting(v)' <=> Waiting(v)) /\ (Final(v)' <=> Final(v))
      BY <1>6 DEF Waiting, Final
    <3>6. owed'[v] + Count(todo', Linking(v)) <= Len(Inputs(v))
      <4>1. owed[v] + Count(todo, Linking(v)) <= Len(Inputs(v)) /\ owed'[v] = owed[v]
        BY <2>1, <3>1 DEF Counted
      <4>2. owed[v] \in Int /\ Len(Inputs(v)) \in Nat
        BY Numbers
      <4> QED
        BY <3>2, <4>1, <4>2
    <3> QED
      BY <1>6, <2>1, <3>1, <3>2, <3>3, <3>4, <3>5, <3>6 DEF Counted
  <2>8. Placed'
    <3>1. \A e \in Frame : (Left(x, e) /\ Fits(e)) \/ In(fs, e) => Fits(e)'
      <4>1. \A e \in Frame : Fits(e) => Fits(e)'
        BY <1>6, <2>1, FitsSame
      <4>2. \A e \in Frame : e = g => Fits(e)'
        BY <2>4
      <4> QED
        BY <2>5, <4>1, <4>2
    <3>2. Seats(x, todo[x], fs)
      BY <2>4 DEF fs
    <3> QED
      BY <1>1, <1>6, <2>1, <2>5, <3>1, <3>2, PlacedThen
  <2>9. Resting'
    BY <1>1, <1>6, <2>1, RestingThen DEF f
  <2> QED
    BY <2>7, <2>8, <2>9 DEF Core
<1>8. CASE ~IsDone(u)
  <2> DEFINE a == Flow(t, p)
  <2>1. Then(x, <<>>) /\ Push(u, a) /\ owed' = [owed EXCEPT ![t] = @ + 1]
    BY <1>2, <1>8 DEF Link, f
  <2>2. a \in Arc /\ \A v : a \in Flows(v) <=> v = t
    BY DEF Flow, Arc, Flows
  <2> HIDE DEF a
  <2>3. <<>> \in Seq(Frame) /\ \A P : Number(<<>>, P) = 0
    BY Short, NumberEmpty
  <2>4. \A P : /\ Count(todo', P) \in Nat /\ Count(todo, P) \in Nat
               /\ Count(todo', P) = Count(todo, P) - One(f \in P)
    <3>1. \A P : One(f \in P) \in Nat
      BY DEF One
    <3>2. \A P : /\ Count(todo', P) \in Nat /\ Count(todo, P) \in Nat
                 /\ Count(todo', P) = Count(todo, P) - One(f \in P) + Number(<<>>, P)
      BY <1>1, <1>6, <2>1, <2>3, ThenCount DEF f
    <3> QED
      BY <2>3, <3>1, <3>2
  <2>5. \A P : /\ Count(Lists', P) \in Nat /\ Count(Lists, P) \in Nat
               /\ Count(Lists', P) = Count(Lists, P) + One(a \in P)
    BY <1>6, <2>1, <2>2, PushCount
  <2>6. \A v \in Tasks : IsDone(v)' <=> IsDone(v)
    BY <1>6, <1>8, <2>1, PushOpen
  <2>7. owed' \in [Tasks -> Int] /\ owed'[t] = owed[t] + 1 /\ \A v \in Tasks : v # t => owed'[v] = owed[v]
    BY <1>6, <2>1 DEF Inv, Types
  <2>8. ASSUME NEW v \in Tasks, v # t
        PROVE  Counted(v)'
    <3>1. Count(Lists', Flows(v)) = Count(Lists, Flows(v))
      BY <2>2, <2>5, <2>8 DEF One
    <3>2. /\ Count(todo', Taking(v)) = Count(todo, Taking(v))
          /\ Count(todo', Holdback(v)) = Count(todo, Holdback(v))
          /\ Count(todo', Ending(v)) = Count(todo, Ending(v))
          /\ Count(todo', Linking(v)) = Count(todo, Linking(v))
      BY <1>3, <2>4, <2>8 DEF One
    <3> QED
      BY <1>6, <2>6, <2>7, <2>8, <3>1, <3>2, CountedKept DEF Core
  <2>9. Counted(t)'
    <3>1. Counted(t)
      BY DEF Core
    <3>2. Count(Lists', Flows(t)) = Count(Lists, Flows(t)) + 1
      BY <2>2, <2>5 DEF One
    <3>3. /\ Count(todo', Taking(t)) = Count(todo, Taking(t))
          /\ Count(todo', Holdback(t)) = Count(todo, Holdback(t))
          /\ Count(todo', Ending(t)) = Count(todo, Ending(t))
          /\ Count(todo', Linking(t)) = Count(todo, Linking(t)) - 1
      BY <1>3, <2>4 DEF One
    <3>4. Owes(t)' = Owes(t) + 1 /\ Guards(t)' = Guards(t)
      BY SMTT(30), <3>2, <3>3, Numbers DEF Owes, Guards
    <3>5. Inputs(t)' = Inputs(t) /\ (Waiting(t)' <=> Waiting(t)) /\ (Final(t)' <=> Final(t))
          /\ word'[t] = word[t] /\ body'[t] = body[t]
      BY <1>6 DEF Inputs, Waiting, Final
    <3>6. body[t] # "idle"
      BY <1>4 DEF Waiting
    <3>7. /\ Owes(t)' + (IF Guards(t)' = 0 THEN 0 ELSE StartMask - owed'[t]) = word[t].count
          /\ owed'[t] >= 0 /\ owed'[t] + Count(todo', Linking(t)) <= Len(Inputs(t))
      <4>1. /\ Owes(t) + (IF Guards(t) = 0 THEN 0 ELSE StartMask - owed[t]) = word[t].count
            /\ owed[t] >= 0 /\ owed[t] + Count(todo, Linking(t)) <= Len(Inputs(t))
        BY <1>4, <3>1 DEF Counted
      <4>2. /\ Owes(t) \in Nat /\ owed[t] \in Int /\ StartMask \in Int /\ word[t].count \in Int
            /\ Count(todo, Linking(t)) \in Nat /\ Len(Inputs(t)) \in Nat
        BY Numbers
      <4>3. owed'[t] = owed[t] + 1 /\ Owes(t)' = Owes(t) + 1 /\ Guards(t)' = Guards(t)
            /\ Guards(t) = 1 /\ Count(todo', Linking(t)) = Count(todo, Linking(t)) - 1
        BY <1>4, <2>7, <3>3, <3>4
      <4>4. Owes(t)' + (IF Guards(t)' = 0 THEN 0 ELSE StartMask - owed'[t]) = word[t].count
        <5>1. Owes(t) + (StartMask - owed[t]) = word[t].count
          BY <4>1, <4>3
        <5>2. Owes(t)' + (StartMask - owed'[t]) = word[t].count
          BY SMTT(30), <4>2, <4>3, <5>1
        <5> QED
          BY <4>3, <5>2
      <4>5. owed'[t] >= 0 /\ owed'[t] + Count(todo', Linking(t)) <= Len(Inputs(t))
        BY <4>1, <4>2, <4>3
      <4> QED
        BY <4>4, <4>5
    <3> QED
      BY <1>4, <2>6, <3>1, <3>3, <3>4, <3>5, <3>6, <3>7 DEF Counted
  <2>10. Placed'
    <3>1. ASSUME NEW e \in Frame, Left(x, e), Fits(e)
          PROVE  Fits(e)'
      <4>1. CASE e.op = "pre" /\ e.node = t /\ e.k # 1
        <5>1. PICK y \in Threads : \E i \in DOMAIN todo[y] : todo[y][i] = e
          BY <3>1 DEF Left
        <5>0. PICK i \in DOMAIN todo[y] : todo[y][i] = e
          BY <5>1
        <5>2. PICK j \in DOMAIN todo[x] : todo[x][j] = [op |-> "publish", node |-> t]
          <6>1. DOMAIN todo[x] = 1..Len(todo[x]) /\ Len(todo[x]) \in Nat
            BY <1>1
          <6> QED
            BY <1>5, <6>1 DEF After
        <5>3. todo[y][i] \in Holdback(t) /\ todo[x][j] \in Holdback(t)
          BY <4>1, <5>0, <5>2, <3>1 DEF Holdback, Frame
        <5>4. y = x /\ i = j
          BY <5>3, Alone
        <5> QED
          BY <4>1, <5>0, <5>2, <5>4
      <4>2. CASE ~(e.op = "pre" /\ e.node = t /\ e.k # 1)
        <5>1. e.op = "pre" => e.node \in Tasks
          BY Says
        <5> QED
          BY <1>6, <2>7, <3>1, <4>2, <5>1 DEF Fits, Waiting
      <4> QED
        BY <4>1, <4>2
    <3>2. Seats(x, todo[x], <<>>) /\ \A e : ~In(<<>>, e)
      BY DEF Seats, In
    <3> QED
      BY <1>1, <1>6, <2>1, <2>3, <3>1, <3>2, PlacedThen
  <2>11. Resting'
    BY <1>1, <1>6, <2>1, RestingThen DEF f
  <2> QED
    BY <2>8, <2>9, <2>10, <2>11 DEF Core
<1> QED
  BY <1>7, <1>8

(***************************************************************************)
(* Bodies                                                                  *)
(***************************************************************************)
(* The frame of a body is all its thread has to do, and what it counts. *)
LEMMA Own ==
  ASSUME Core, NEW t \in Tasks, NEW o \in Bottom, At(t, o)
  PROVE  /\ t \in Threads /\ Len(todo[t]) = 1 /\ Cur(t).node = t
         /\ \A v : /\ Cur(t) \notin Taking(v) /\ Cur(t) \notin Holdback(v)
                   /\ Cur(t) \notin Ending(v) /\ Cur(t) \notin Linking(v)
         /\ ~Final(t) /\ Owes(t) = 0 /\ Guards(t) = 0 /\ Count(todo, Ending(t)) = 0 /\ ~IsDone(t)
         /\ body[t] # "idle"
         /\ o # "start" => body[t] \in {"running", "attached"}
<1>1. t \in Threads
  BY Apart
<1>2. /\ todo[t] # <<>> /\ 1 \in DOMAIN todo[t] /\ todo[t][1] = Cur(t) /\ Cur(t).op = o
      /\ Cur(t) \in Frame /\ Fits(Cur(t)) /\ Lies(t, todo[t], 1)
  BY <1>1, First
<1>3. Len(todo[t]) = 1 /\ Cur(t).node = t
  BY <1>2 DEF Lies
<1>4. \A v : /\ Cur(t) \notin Taking(v) /\ Cur(t) \notin Holdback(v)
             /\ Cur(t) \notin Ending(v) /\ Cur(t) \notin Linking(v)
  BY <1>2, Sorts DEF Bottom
<1>5. /\ o = "start" => Waiting(t) /\ word[t].count = 0
      /\ o # "start" => body[t] \in {"running", "attached"}
  BY <1>2, <1>3 DEF Fits, Bottom
<1>6. Counted(t)
  BY DEF Core
<1>7. ~Final(t) /\ Count(todo, Ending(t)) = 0 /\ ~IsDone(t)
  BY <1>5, <1>6 DEF Final, Waiting, Counted
<1>8. Owes(t) = 0 /\ Guards(t) = 0
  <2>1. CASE o = "start"
    <3>1. Owes(t) + (IF Guards(t) = 0 THEN 0 ELSE StartMask - owed[t]) = 0
      BY <1>5, <1>6, <2>1 DEF Counted
    <3> QED
      BY <3>1, Numbers
  <2>2. CASE o # "start"
    BY <1>5, <2>2, Numbers DEF Waiting
  <2> QED
    BY <2>1, <2>2
<1> QED
  BY <1>1, <1>3, <1>4, <1>5, <1>7, <1>8 DEF Waiting

(* There is no other such frame, nor a completion of the task. *)
LEMMA NoOther ==
  ASSUME Core, NEW t \in Tasks, NEW o \in Bottom, At(t, o), NEW f \in Frame, Left(t, f)
  PROVE  f.op \in Bottom \cup {"exchange"} => f.node # t /\ f.node \in Tasks
<1>1. t \in Threads /\ Len(todo[t]) = 1 /\ ~Final(t)
  BY Own
<1>2. PICK y \in Threads : \E i \in DOMAIN todo[y] : (y # t \/ i # 1) /\ todo[y][i] = f
  BY DEF Left
<1>3. PICK i \in DOMAIN todo[y] : (y # t \/ i # 1) /\ todo[y][i] = f
  BY <1>2
<1>4. f.op \in Bottom => i = Len(todo[y]) /\ f.node = y
  <2>1. Lies(y, todo[y], i)
    BY DEF Core, Placed
  <2> QED
    BY <1>3, <2>1 DEF Lies
<1>5. f.op = "exchange" => f.node # t
  BY <1>1, <1>3, Found, Sorts
<1>6. f.op \in Bottom \cup {"exchange"} => f.node \in Tasks
  BY Says DEF Bottom, Simple
<1> QED
  BY <1>1, <1>3, <1>4, <1>5, <1>6 DEF Bottom

(* The body of t goes on. *)
LEMMA BodyCore ==
  ASSUME Core, Inv', NEW t \in Tasks, NEW o \in Bottom, At(t, o),
         NEW v \in {"running", "attached", "value", "threw", "skipped"},
         body' = [body EXCEPT ![t] = v], UNCHANGED <<prog, head, owed>>,
         \A u \in Tasks : u # t => word'[u] = word[u],
         NEW fs \in Seq(Frame), Then(t, fs), Seats(t, todo[t], fs),
         \A f \in Frame : In(fs, f) => Fits(f)',
         \A u : /\ Number(fs, Taking(u)) = 0 /\ Number(fs, Holdback(u)) = 0
                /\ Number(fs, Linking(u)) = 0
                /\ Number(fs, Ending(u)) = One(u = t /\ v \in {"value", "threw", "skipped"})
  PROVE  Core'
<1>1. /\ t \in Threads /\ Len(todo[t]) = 1 /\ Cur(t).node = t
      /\ \A u : /\ Cur(t) \notin Taking(u) /\ Cur(t) \notin Holdback(u)
                /\ Cur(t) \notin Ending(u) /\ Cur(t) \notin Linking(u)
      /\ ~Final(t) /\ Owes(t) = 0 /\ Guards(t) = 0 /\ Count(todo, Ending(t)) = 0 /\ ~IsDone(t)
      /\ body[t] # "idle"
  BY Own
<1>2. /\ Inv /\ Placed /\ Resting /\ todo[t] # <<>> /\ Cur(t).op = o
  BY <1>1, First DEF Core
<1>3. body'[t] = v /\ \A u \in Tasks : u # t => body'[u] = body[u]
  BY <1>2 DEF Inv, Types
<1>4. ASSUME NEW u \in Tasks
      PROVE  /\ Count(todo', Taking(u)) = Count(todo, Taking(u))
             /\ Count(todo', Holdback(u)) = Count(todo, Holdback(u))
             /\ Count(todo', Linking(u)) = Count(todo, Linking(u))
             /\ Count(todo', Ending(u)) = Count(todo, Ending(u))
                                          + One(u = t /\ v \in {"value", "threw", "skipped"})
             /\ Count(Lists', Flows(u)) = Count(Lists, Flows(u)) /\ (IsDone(u)' <=> IsDone(u))
  <2>1. \A P : /\ Count(todo', P) \in Nat /\ Count(todo, P) \in Nat
               /\ Cur(t) \notin P => Count(todo', P) = Count(todo, P) + Number(fs, P)
    <3>1. \A P : /\ Count(todo', P) \in Nat /\ Count(todo, P) \in Nat /\ Number(fs, P) \in Nat
                 /\ Count(todo', P) = Count(todo, P) - One(Cur(t) \in P) + Number(fs, P)
      BY <1>1, <1>2, ThenCount
    <3>2. \A P : Cur(t) \notin P => One(Cur(t) \in P) = 0
      BY DEF One
    <3> QED
      BY <3>1, <3>2
  <2>2. /\ Count(todo', Taking(u)) = Count(todo, Taking(u))
        /\ Count(todo', Holdback(u)) = Count(todo, Holdback(u))
        /\ Count(todo', Linking(u)) = Count(todo, Linking(u))
    BY <1>1, <2>1
  <2>3. Count(todo', Ending(u)) = Count(todo, Ending(u)) + One(u = t /\ v \in {"value", "threw", "skipped"})
    BY <1>1, <2>1
  <2> QED
    BY <2>2, <2>3 DEF Lists, IsDone
<1>5. ASSUME NEW u \in Tasks, u # t
      PROVE  Counted(u)'
  <2>1. Count(todo', Ending(u)) = Count(todo, Ending(u))
    BY <1>4, <1>5, Numbers DEF One
  <2> QED
    BY <1>3, <1>4, <1>5, <2>1, CountedKept DEF Core
<1>6. Counted(t)'
  <2>1. Owes(t)' = 0 /\ Guards(t)' = 0
    BY <1>1, <1>4 DEF Owes, Guards
  <2>2. ~Waiting(t)' /\ body'[t] # "idle" /\ (Final(t)' <=> v \in {"value", "threw", "skipped"})
    BY <1>3 DEF Waiting, Final
  <2>3. Count(todo', Ending(t)) = IF Final(t)' THEN 1 ELSE 0
    BY <1>1, <1>4, <2>2 DEF One
  <2>4. owed'[t] >= 0 /\ owed'[t] + Count(todo', Linking(t)) <= Len(Inputs(t)) /\ Inputs(t)' = Inputs(t)
    BY <1>4 DEF Core, Counted, Inputs
  <2> QED
    BY <1>1, <1>4, <2>1, <2>2, <2>3, <2>4 DEF Counted
<1>7. Placed'
  <2>1. ASSUME NEW f \in Frame, Left(t, f), Fits(f)
        PROVE  Fits(f)'
    <3>1. f.op \in Bottom \cup {"exchange"} => f.node # t /\ f.node \in Tasks
      BY <2>1, NoOther
    <3> QED
      BY <1>3, <2>1, <3>1 DEF Fits, Waiting, Bottom
  <2> QED
    BY <1>1, <1>2, <2>1, PlacedThen
<1>8. Resting'
  <2>1. \A u \in Tasks : body'[u] \in {"idle", "pending", "forwarding"} =>
                         body[u] \in {"idle", "pending", "forwarding"} /\ u # t
    BY <1>3
  <2> QED
    BY <1>1, <1>2, <2>1, RestingThen
<1> QED
  BY <1>5, <1>6, <1>7, <1>8 DEF Core

(* What is known of c, calm frames and a completion of t, put on a stack s of x: it counts
   once. *)
Completes(c, t, e, x, s) ==
  /\ c \in Seq(Frame) /\ Seats(x, s, c)
  /\ \A f \in Frame : In(c, f) => f \in Calm \/ f = [op |-> "exchange", node |-> t, failed |-> e]
  /\ \A u : /\ Number(c, Taking(u)) = 0 /\ Number(c, Holdback(u)) = 0
            /\ Number(c, Linking(u)) = 0 /\ Number(c, Ending(u)) = One(u = t)

LEMMA CompleteNumbers ==
  ASSUME NEW fs \in Seq(Calm), \A i \in DOMAIN fs : fs[i].op # "late",
         NEW t \in Tasks, NEW e \in BOOLEAN, NEW x, NEW s
  PROVE  Completes(fs \o Complete(t, e), t, e, x, s)
<1>0. PICK c : c = fs \o Complete(t, e)
  OBVIOUS
<1>1. PICK f : f = [op |-> "exchange", node |-> t, failed |-> e]
  OBVIOUS
<1>2. PICK g : g = [op |-> "wakeup", node |-> t]
  OBVIOUS
<1>3. f \in Frame /\ g \in Frame /\ g \in Calm /\ f.op = "exchange" /\ g.op = "wakeup" /\ f.node = t
  BY <1>1, <1>2 DEF Frame, Calm
<1> DEFINE d == <<f, g>>
<1>4. Complete(t, e) = d /\ d \in Seq(Frame) /\ \A P : Number(d, P) = One(f \in P) + One(g \in P)
  BY <1>1, <1>2, <1>3, NumberTwo, Short DEF Complete
<1>5. \A i \in DOMAIN d : d[i] = f \/ d[i] = g
  OBVIOUS
<1> HIDE DEF d
<1>6. fs \in Seq(Frame)
  BY CalmNumber
<1>7. c = fs \o d /\ c \in Seq(Frame) /\ OnTopOf(c, fs, d)
  BY <1>0, <1>4, <1>6, OnTop
<1>8. \A i \in DOMAIN c : (c[i] \in Calm /\ c[i].op # "late") \/ c[i] = f
  <2>1. \A i \in DOMAIN fs : fs[i] \in Calm
    BY Element
  <2>2. \A i \in DOMAIN fs : c[i] = fs[i]
    BY <1>7 DEF OnTopOf
  <2>3. \A j \in DOMAIN d : c[Len(fs) + j] = d[j]
    BY <1>7 DEF OnTopOf
  <2>4. \A i \in DOMAIN c : i \in DOMAIN fs \/ \E j \in DOMAIN d : i = Len(fs) + j
    BY <1>7 DEF OnTopOf
  <2> QED
    BY <1>3, <1>5, <2>1, <2>2, <2>3, <2>4
<1>9. Seats(x, s, c)
  BY <1>3, <1>8 DEF Seats, Bottom, Calm
<1>10. ASSUME NEW u
       PROVE  /\ Number(c, Taking(u)) = 0 /\ Number(c, Holdback(u)) = 0
              /\ Number(c, Linking(u)) = 0 /\ Number(c, Ending(u)) = One(u = t)
  <2>1. \A P : Number(c, P) = Number(fs, P) + (One(f \in P) + One(g \in P))
    BY <1>4, <1>6, <1>7, NumberCat
  <2>2. /\ Number(fs, Taking(u)) = 0 /\ Number(fs, Holdback(u)) = 0
        /\ Number(fs, Ending(u)) = 0 /\ Number(fs, Linking(u)) = 0
    BY CalmNumber
  <2>3. /\ f \notin Taking(u) /\ f \notin Holdback(u) /\ f \notin Linking(u) /\ (f \in Ending(u) <=> u = t)
        /\ g \notin Taking(u) /\ g \notin Holdback(u) /\ g \notin Linking(u) /\ g \notin Ending(u)
    BY <1>3, Sorts
  <2> QED
    BY <2>1, <2>2, <2>3 DEF One
<1> QED
  BY <1>0, <1>1, <1>7, <1>8, <1>9, <1>10 DEF In, Completes

(* It fits when the body has ended so. *)
LEMMA EndCore ==
  ASSUME Core, Inv', NEW t \in Tasks, NEW o \in Bottom, At(t, o),
         NEW v \in {"value", "threw", "skipped"}, NEW e \in BOOLEAN, e <=> v # "value",
         body' = [body EXCEPT ![t] = v], UNCHANGED <<prog, head, owed, word>>,
         NEW fs \in Seq(Calm), \A i \in DOMAIN fs : fs[i].op # "late", Then(t, fs \o Complete(t, e))
  PROVE  Core'
<1> DEFINE c == fs \o Complete(t, e)
<1>1. Then(t, c) /\ c = fs \o Complete(t, e)
  OBVIOUS
<1> HIDE DEF c
<1>2. /\ c \in Seq(Frame) /\ Seats(t, todo[t], c)
      /\ \A f \in Frame : In(c, f) => f \in Calm \/ f = [op |-> "exchange", node |-> t, failed |-> e]
      /\ \A u : /\ Number(c, Taking(u)) = 0 /\ Number(c, Holdback(u)) = 0
                /\ Number(c, Linking(u)) = 0 /\ Number(c, Ending(u)) = One(u = t)
  <2>1. Completes(c, t, e, t, todo[t])
    BY <1>1, CompleteNumbers
  <2> QED
    BY <2>1 DEF Completes
<1>3. body'[t] = v
  BY DEF Core, Inv, Types
<1>4. ASSUME NEW f \in Frame, In(c, f)
      PROVE  Fits(f)'
  <2>1. CASE f \in Calm
    BY <2>1 DEF Calm, Fits
  <2>2. CASE f = [op |-> "exchange", node |-> t, failed |-> e]
    BY <1>3, <2>2 DEF Fits
  <2> QED
    BY <1>2, <1>4, <2>1, <2>2
<1>5. \A u : One(u = t) = One(u = t /\ v \in {"value", "threw", "skipped"})
  BY DEF One
<1>6. c \in Seq(Frame) /\ Seats(t, todo[t], c) /\ \A f \in Frame : In(c, f) => Fits(f)'
  BY <1>2, <1>4
<1>7. \A u : /\ Number(c, Taking(u)) = 0 /\ Number(c, Holdback(u)) = 0
             /\ Number(c, Linking(u)) = 0
             /\ Number(c, Ending(u)) = One(u = t /\ v \in {"value", "threw", "skipped"})
  BY <1>2, <1>5
<1>8. Then(t, c) /\ v \in {"running", "attached", "value", "threw", "skipped"}
  BY <1>1
<1>9. \A u \in Tasks : u # t => word'[u] = word[u]
  OBVIOUS
<1> QED
  BY <1>6, <1>7, <1>8, <1>9, BodyCore

LEMMA EndOnly ==
  ASSUME Core, Inv', NEW t \in Tasks, NEW o \in Bottom, At(t, o),
         NEW v \in {"value", "threw", "skipped"}, NEW e \in BOOLEAN, e <=> v # "value",
         body' = [body EXCEPT ![t] = v], UNCHANGED <<prog, head, owed, word>>,
         Then(t, Complete(t, e))
  PROVE  Core'
<1>1. PICK fs \in Seq(Calm) : fs = <<>>
  BY Short
<1>2. fs \o Complete(t, e) = Complete(t, e) /\ \A i \in DOMAIN fs : fs[i].op # "late"
  BY <1>1 DEF Complete
<1>3. Then(t, fs \o Complete(t, e))
  BY <1>2
<1> QED
  BY <1>2, <1>3, EndCore

(* One frame of a body, after another. *)
LEMMA NextCore ==
  ASSUME Core, Inv', NEW t \in Tasks, NEW o \in Bottom, At(t, o),
         NEW v \in {"running", "attached"},
         body' = [body EXCEPT ![t] = v], UNCHANGED <<prog, head, owed>>,
         \A u \in Tasks : u # t => word'[u] = word[u],
         NEW p \in {"functor", "attach", "look"}, p = "functor" <=> v = "running",
         p = "attach" => word'[t].count = 1,
         Then(t, <<[op |-> p, node |-> t]>>)
  PROVE  Core'
<1>1. PICK g : g = [op |-> p, node |-> t]
  OBVIOUS
<1> DEFINE fs == <<g>>
<1>2. g \in Frame /\ g.op = p /\ g.node = t /\ Then(t, fs)
  BY <1>1 DEF Frame
<1>3. fs \in Seq(Frame) /\ Len(fs) = 1 /\ (\A P : Number(fs, P) = One(g \in P))
      /\ \A i \in DOMAIN fs : i = 1 /\ fs[i] = g
  BY <1>2, NumberOne
<1> HIDE DEF fs
<1>4. Seats(t, todo[t], fs)
  BY <1>2, <1>3, Own DEF Seats, Bottom
<1>5. body'[t] = v
  BY DEF Core, Inv, Types
<1>6. Fits(g)'
  BY <1>2, <1>5 DEF Fits
<1>7. \A u : g \notin Taking(u) /\ g \notin Holdback(u) /\ g \notin Linking(u) /\ g \notin Ending(u)
  BY <1>2, Sorts
<1>8. \A u : /\ Number(fs, Taking(u)) = 0 /\ Number(fs, Holdback(u)) = 0
             /\ Number(fs, Linking(u)) = 0
             /\ Number(fs, Ending(u)) = One(u = t /\ v \in {"value", "threw", "skipped"})
  BY <1>3, <1>7 DEF One
<1>9. \A f \in Frame : In(fs, f) => Fits(f)'
  <2>1. \A f \in Frame : In(fs, f) => f = g
    BY <1>3 DEF In
  <2> QED
    BY <1>6, <2>1
<1> QED
  BY ZenonT(60), <1>2, <1>3, <1>4, <1>8, <1>9, BodyCore

LEMMA StartCore ==
  ASSUME Core, Inv', NEW t \in Tasks, Start(t), UNCHANGED prog
  PROVE  Core'
<1>1. At(t, "start") /\ "start" \in Bottom /\ UNCHANGED <<head, word, owed>>
  BY DEF Start, Bottom
<1>2. CASE Starts(t)
  <2>1. body' = [body EXCEPT ![t] = "running"] /\ Then(t, <<[op |-> "functor", node |-> t]>>)
    BY <1>2 DEF Start
  <2> QED
    BY <1>1, <2>1, NextCore
<1>3. CASE ~Starts(t)
  <2>1. body' = [body EXCEPT ![t] = "skipped"] /\ Then(t, Complete(t, TRUE))
    BY <1>3 DEF Start
  <2> QED
    BY <1>1, <2>1, EndOnly
<1> QED
  BY <1>2, <1>3

LEMMA ReturnValueCore ==
  ASSUME Core, Inv', NEW t \in Tasks, ReturnValue(t), UNCHANGED prog
  PROVE  Core'
<1>1. /\ At(t, "functor") /\ "functor" \in Bottom /\ UNCHANGED <<head, word, owed>>
      /\ body' = [body EXCEPT ![t] = "value"] /\ Then(t, Complete(t, FALSE))
  BY DEF ReturnValue, Bottom
<1> QED
  BY <1>1, EndOnly

LEMMA ThrowCore ==
  ASSUME Core, Inv', NEW t \in Tasks, Throw(t), UNCHANGED prog
  PROVE  Core'
<1> DEFINE fs == <<Carry(t, t), Mark(t, "exception")>>
<1>1. /\ At(t, "functor") /\ "functor" \in Bottom /\ UNCHANGED <<head, word, owed>>
      /\ body' = [body EXCEPT ![t] = "threw"] /\ Then(t, fs \o Complete(t, TRUE))
  BY DEF Throw, Bottom
<1>2. fs \in Seq(Calm) /\ \A i \in DOMAIN fs : fs[i].op # "late"
  <2>1. Carry(t, t) \in Calm /\ Mark(t, "exception") \in Calm
        /\ Carry(t, t).op # "late" /\ Mark(t, "exception").op # "late"
    BY DEF Carry, Mark, Calm, Frame, Bits
  <2> QED
    BY <2>1, Short
<1> HIDE DEF fs
<1> QED
  BY <1>1, <1>2, EndCore

LEMMA EmplaceCore ==
  ASSUME Core, Inv', NEW t \in Tasks, Emplace(t), UNCHANGED prog
  PROVE  Core'
<1>1. /\ At(t, "functor") /\ "functor" \in Bottom /\ UNCHANGED <<head, owed>>
      /\ body' = [body EXCEPT ![t] = "attached"] /\ Then(t, <<[op |-> "attach", node |-> t]>>)
      /\ word' = [word EXCEPT ![t] = [count |-> 1, bits |-> {}]]
  BY DEF Emplace, Bottom
<1>2. word'[t].count = 1 /\ \A u \in Tasks : u # t => word'[u] = word[u]
  BY <1>1 DEF Core, Inv, Types
<1> QED
  BY <1>1, <1>2, NextCore

LEMMA LookCore ==
  ASSUME Core, Inv', NEW t \in Tasks, Look(t), UNCHANGED prog
  PROVE  Core'
<1>0. Returns(t) \in Tasks
  BY ProgramTypes DEF Look, Forwards, Core, Inv, Types
<1>1. At(t, "look") /\ "look" \in Bottom /\ UNCHANGED <<head, word, owed>>
  BY DEF Look, Bottom
<1>2. CASE AttachedLate(t)
  <2>0. PICK f : f = [op |-> "failure", node |-> t, from |-> Returns(t), port |-> 0]
    OBVIOUS
  <2>1. body' = [body EXCEPT ![t] = "skipped"] /\ Then(t, <<f>> \o Complete(t, TRUE))
    BY <1>2, <2>0 DEF Look
  <2>2. f \in Calm /\ f.op # "late"
    BY <1>0, <2>0 DEF Calm, Frame
  <2>3. <<f>> \in Seq(Calm) /\ \A i \in DOMAIN <<f>> : <<f>>[i].op # "late"
    BY <2>2, Short
  <2> QED
    BY <1>1, <2>1, <2>3, EndCore
<1>3. CASE ~AttachedLate(t)
  <2>1. body' = [body EXCEPT ![t] = "value"] /\ Then(t, Complete(t, FALSE))
    BY <1>3 DEF Look
  <2> QED
    BY <1>1, <2>1, EndOnly
<1> QED
  BY <1>2, <1>3

LEMMA ResumeCore ==
  ASSUME Core, Inv', NEW t \in Tasks, Resume(t), UNCHANGED prog
  PROVE  Core'
<1>1. /\ At(t, "start") /\ "start" \in Bottom /\ UNCHANGED <<head, word, owed>>
      /\ body' = [body EXCEPT ![t] = IF Starts(t) THEN "value" ELSE "skipped"]
      /\ Then(t, Complete(t, ~Starts(t)))
  BY DEF Resume, Bottom
<1>2. CASE Starts(t)
  BY <1>1, <1>2, EndOnly
<1>3. CASE ~Starts(t)
  BY <1>1, <1>3, EndOnly
<1> QED
  BY <1>2, <1>3

LEMMA AttachCore ==
  ASSUME Core, Inv', NEW t \in Tasks, Attach(t), UNCHANGED prog
  PROVE  Core'
<1>0. Returns(t) \in Tasks
  BY ProgramTypes DEF Attach, Forwards, Core, Inv, Types
<1> DEFINE u == Returns(t)
           a == Flow(t, 0)
<1>1. At(t, "attach") /\ "attach" \in Bottom /\ UNCHANGED <<prog, word, owed>>
  BY DEF Attach, Bottom
<1>2. /\ t \in Threads /\ Len(todo[t]) = 1 /\ Cur(t).node = t
      /\ \A v : /\ Cur(t) \notin Taking(v) /\ Cur(t) \notin Holdback(v)
                /\ Cur(t) \notin Ending(v) /\ Cur(t) \notin Linking(v)
      /\ ~Final(t) /\ Owes(t) = 0 /\ Guards(t) = 0 /\ Count(todo, Ending(t)) = 0 /\ ~IsDone(t)
      /\ body[t] # "idle"
  BY <1>1, Own
<1>3. /\ Inv /\ Placed /\ Resting /\ todo[t] # <<>> /\ body[t] = "attached" /\ word[t].count = 1
      /\ todo[t] \in Seq(Frame) /\ Cur(t).op = "attach"
  <2>1. Fits(Cur(t)) /\ Cur(t).op = "attach" /\ todo[t] # <<>> /\ todo[t] \in Seq(Frame)
    BY <1>1, <1>2, First
  <2> QED
    BY <1>2, <2>1 DEF Fits, Core
<1>4. CASE IsDone(u)
  <2>1. body' = [body EXCEPT ![t] = "attached"] /\ Then(t, <<[op |-> "look", node |-> t]>>) /\ head' = head
    BY <1>3, <1>4 DEF Attach, Inv, Types
  <2> QED
    BY <1>1, <2>1, NextCore
<1>5. CASE ~IsDone(u)
  <2>1. /\ Push(u, a) /\ Then(t, <<>>) /\ body'[t] = "forwarding"
        /\ \A v \in Tasks : v # t => body'[v] = body[v]
    BY <1>3, <1>5 DEF Attach, Inv, Types
  <2>2. a \in Arc /\ \A v : a \in Flows(v) <=> v = t
    BY DEF Flow, Arc, Flows
  <2> HIDE DEF a, u
  <2>3. <<>> \in Seq(Frame) /\ \A P : Number(<<>>, P) = 0
    BY Short, NumberEmpty
  <2>4. \A P : Cur(t) \notin P => Count(todo', P) = Count(todo, P)
    <3>1. \A P : Cur(t) \notin P => One(Cur(t) \in P) = 0
      BY DEF One
    <3>2. \A P : /\ Count(todo', P) \in Nat /\ Count(todo, P) \in Nat
                 /\ Count(todo', P) = Count(todo, P) - One(Cur(t) \in P) + Number(<<>>, P)
      BY <1>2, <1>3, <2>1, <2>3, ThenCount
    <3> QED
      BY <2>3, <3>1, <3>2
  <2>5. \A P : /\ Count(Lists', P) \in Nat /\ Count(Lists, P) \in Nat
               /\ Count(Lists', P) = Count(Lists, P) + One(a \in P)
    BY <1>0, <1>3, <2>1, <2>2, PushCount DEF u
  <2>6. \A v \in Tasks : IsDone(v)' <=> IsDone(v)
    BY <1>0, <1>3, <1>5, <2>1, PushOpen DEF u
  <2>7. \A v : /\ Count(todo', Taking(v)) = Count(todo, Taking(v))
               /\ Count(todo', Holdback(v)) = Count(todo, Holdback(v))
               /\ Count(todo', Ending(v)) = Count(todo, Ending(v))
               /\ Count(todo', Linking(v)) = Count(todo, Linking(v))
    BY <1>2, <2>4
  <2>8. ASSUME NEW v \in Tasks, v # t
        PROVE  Counted(v)'
    <3>1. Count(Lists', Flows(v)) = Count(Lists, Flows(v))
      BY <2>2, <2>5, <2>8 DEF One
    <3> QED
      BY <1>1, <2>1, <2>6, <2>7, <2>8, <3>1, CountedKept DEF Core
  <2>9. Counted(t)'
    <3>1. Counted(t)
      BY DEF Core
    <3>2. Count(Lists', Flows(t)) = Count(Lists, Flows(t)) + 1
      BY <2>2, <2>5 DEF One
    <3>3. Owes(t)' = 1 /\ Guards(t)' = 0
      BY <1>2, <2>7, <3>2, Numbers DEF Owes, Guards
    <3>4. Inputs(t)' = Inputs(t) /\ Waiting(t)' /\ ~Final(t)' /\ body'[t] # "idle"
      BY <1>1, <2>1 DEF Inputs, Waiting, Final
    <3>5. owed'[t] >= 0 /\ owed'[t] + Count(todo', Linking(t)) <= Len(Inputs(t))
      BY <1>1, <2>7, <3>1 DEF Counted
    <3> QED
      BY <1>1, <1>2, <1>3, <2>6, <2>7, <3>3, <3>4, <3>5 DEF Counted
  <2>10. Placed'
    <3>1. ASSUME NEW f \in Frame, Left(t, f), Fits(f)
          PROVE  Fits(f)'
      <4>1. f.op \in Bottom \cup {"exchange"} => f.node # t /\ f.node \in Tasks
        BY <1>1, <3>1, NoOther
      <4> QED
        BY <1>1, <2>1, <3>1, <4>1 DEF Fits, Waiting, Bottom
    <3>2. Seats(t, todo[t], <<>>) /\ \A f : ~In(<<>>, f)
      BY DEF Seats, In
    <3> QED
      BY <1>2, <1>3, <2>1, <2>3, <3>1, <3>2, PlacedThen
  <2>11. Resting'
    <3>1. todo'[t] = <<>>
      BY <1>2, <1>3, <2>1 DEF Then, Inv, Frames
    <3>2. \A v \in Tasks : v # t => todo'[v] = todo[v] /\ body'[v] = body[v]
      BY <1>2, <1>3, <2>1, Apart DEF Then, Inv, Frames
    <3> QED
      BY <1>3, <3>1, <3>2 DEF Resting
  <2> QED
    BY <2>8, <2>9, <2>10, <2>11 DEF Core
<1> QED
  BY <1>4, <1>5

(***************************************************************************)
(* Prerequisites taken                                                     *)
(***************************************************************************)
(* A step that hands out as much as it takes. *)
LEMMA EvenCore ==
  ASSUME Core, Inv', NEW x \in Threads, todo[x] # <<>>, Cur(x).op # "start",
         NEW fs \in Seq(Frame), Then(x, fs), Seats(x, todo[x], fs),
         UNCHANGED <<prog, head, body, owed, word>>,
         \A f \in Frame : In(fs, f) => Fits(f),
         \A v \in Tasks : /\ Number(fs, Taking(v)) = One(Cur(x) \in Taking(v))
                          /\ Number(fs, Holdback(v)) = One(Cur(x) \in Holdback(v))
                          /\ Number(fs, Ending(v)) = One(Cur(x) \in Ending(v))
                          /\ Number(fs, Linking(v)) = One(Cur(x) \in Linking(v))
  PROVE  Core'
<1>1. Inv /\ Placed /\ Resting
  BY DEF Core
<1>2. \A P : Number(fs, P) = One(Cur(x) \in P) => Count(todo', P) = Count(todo, P)
  <2>1. \A P : /\ Count(todo', P) \in Nat /\ Count(todo, P) \in Nat /\ Number(fs, P) \in Nat
               /\ Count(todo', P) = Count(todo, P) - One(Cur(x) \in P) + Number(fs, P)
    BY <1>1, ThenCount
  <2>2. \A b : One(b) \in Nat
    BY DEF One
  <2> QED
    BY <2>1, <2>2
<1>3. ASSUME NEW v \in Tasks
      PROVE  Counted(v)'
  <2>1. IsDone(v)' <=> IsDone(v)
    BY DEF IsDone
  <2> QED
    BY <1>2, <2>1, CountedKept DEF Core, Lists
<1>4. Placed'
  <2>1. \A f \in Frame : (Left(x, f) /\ Fits(f)) \/ In(fs, f) => Fits(f)'
    BY FitsSame
  <2> QED
    BY <1>1, <2>1, PlacedThen
<1>5. Resting'
  BY <1>1, RestingThen
<1> QED
  BY <1>3, <1>4, <1>5 DEF Core

LEMMA NotifyCore ==
  ASSUME Core, Inv', NEW x \in Threads, NotifyArc(x), UNCHANGED prog
  PROVE  Core'
<1> DEFINE f == Cur(x)
           fs == NotifyFirst(f)
<1>1. /\ todo[x] # <<>> /\ f.op = "notify" /\ f \in Frame
  BY First DEF NotifyArc
<1>2. PICK t \in Tasks, u \in Tasks, p \in Nat, e \in BOOLEAN :
        f.node = t /\ f.from = u /\ f.port = p /\ f.failed = e
  BY <1>1, Says
<1>3. Then(x, fs) /\ UNCHANGED <<prog, head, body, owed, word>>
  BY DEF NotifyArc
<1>4. PICK g \in Frame : g = [op |-> "pre", node |-> t, k |-> 1]
  <2>1. [op |-> "pre", node |-> t, k |-> 1] \in Frame
    BY DEF Frame
  <2> QED
    BY <2>1
<1>5. PICK h \in Fit : h = [f EXCEPT !.op = "failure"]
  BY <1>1, Says
<1>6. h \in Frame /\ h.op = "failure" /\ h.node = t
  <2>1. f \in [op : {"notify", "failure"}, node : Tasks, from : Tasks, port : Nat, failed : BOOLEAN]
    BY <1>1 DEF Frame
  <2> QED
    BY <1>2, <1>5, <2>1 DEF Fit
<1> DEFINE r == IF e THEN <<h>> ELSE <<>>
           d == <<g>>
<1>7. fs = r \o d
  BY <1>2, <1>4, <1>5 DEF NotifyFirst
<1> HIDE DEF fs
<1>8. /\ fs \in Seq(Frame) /\ \A i \in DOMAIN fs : fs[i] = g \/ fs[i] = h
      /\ \A P : h \notin P => Number(fs, P) = One(g \in P)
  <2>1. /\ r \in Seq(Frame) /\ (\A i \in DOMAIN r : r[i] = h)
        /\ \A P : h \notin P => Number(r, P) = 0
    <3>1. <<h>> \in Seq(Frame) /\ <<>> \in Seq(Frame)
      BY <1>6, Short
    <3>2. \A P : /\ Number(<<h>>, P) = One(h \in P) /\ Number(<<>>, P) = 0
                 /\ h \notin P => One(h \in P) = 0
      BY NumberOne, NumberEmpty DEF One
    <3>3. \A i \in DOMAIN <<h>> : <<h>>[i] = h
      OBVIOUS
    <3> QED
      BY <3>1, <3>2, <3>3
  <2>2. d \in Seq(Frame) /\ (\A i \in DOMAIN d : d[i] = g) /\ \A P : Number(d, P) = One(g \in P)
    BY NumberOne
  <2> HIDE DEF r, d
  <2>3. fs \in Seq(Frame) /\ OnTopOf(fs, r, d)
    BY <1>7, <2>1, <2>2, OnTop
  <2>4. \A P : Number(fs, P) = Number(r, P) + Number(d, P)
    BY <1>7, <2>1, <2>2, NumberCat
  <2>5. \A i \in DOMAIN fs : fs[i] = g \/ fs[i] = h
    BY <2>1, <2>2, <2>3 DEF OnTopOf
  <2>6. \A b : One(b) \in Nat
    BY DEF One
  <2> QED
    BY <2>1, <2>2, <2>3, <2>4, <2>5, <2>6
<1>9. Seats(x, todo[x], fs)
  BY <1>4, <1>6, <1>8 DEF Seats, Bottom
<1>10. \A v : /\ h \notin Taking(v) /\ h \notin Holdback(v) /\ h \notin Ending(v) /\ h \notin Linking(v)
              /\ (g \in Taking(v) <=> v = t) /\ g \notin Holdback(v) /\ g \notin Ending(v) /\ g \notin Linking(v)
              /\ (f \in Taking(v) <=> v = t) /\ f \notin Holdback(v) /\ f \notin Ending(v) /\ f \notin Linking(v)
  BY <1>1, <1>2, <1>4, <1>6, Sorts
<1>11. \A v \in Tasks : /\ Number(fs, Taking(v)) = One(f \in Taking(v))
                        /\ Number(fs, Holdback(v)) = One(f \in Holdback(v))
                        /\ Number(fs, Ending(v)) = One(f \in Ending(v))
                        /\ Number(fs, Linking(v)) = One(f \in Linking(v))
  BY <1>8, <1>10 DEF One
<1>12. \A e1 \in Frame : In(fs, e1) => Fits(e1)
  <2>1. Fits(g) /\ Fits(h)
    BY <1>4, <1>6 DEF Fits
  <2> QED
    BY <1>8, <2>1 DEF In
<1> QED
  BY <1>1, <1>3, <1>8, <1>9, <1>11, <1>12, EvenCore

LEMMA PublishCore ==
  ASSUME Core, Inv', NEW x \in Threads, Publish(x), UNCHANGED prog
  PROVE  Core'
<1> DEFINE f == Cur(x)
<1>1. /\ todo[x] # <<>> /\ 1 \in DOMAIN todo[x] /\ todo[x][1] = f /\ f.op = "publish" /\ f \in Frame
  BY First DEF Publish
<1>2. PICK t \in Tasks : f.node = t
  BY <1>1, Says DEF Simple
<1>3. Inv /\ Placed /\ Resting
  BY DEF Core
<1>4. /\ Guards(t) = 1 /\ Waiting(t) /\ Counted(t)
      /\ Guards(t) = Count(todo, Holdback(t)) /\ Owes(t) \in Nat /\ StartMask - owed[t] >= 1
      /\ owed[t] \in Int /\ StartMask \in Int
      /\ Owes(t) = Count(Lists, Flows(t)) + Count(todo, Taking(t))
      /\ Count(Lists, Flows(t)) \in Nat /\ Count(todo, Taking(t)) \in Nat
  <2>1. f \in Holdback(t)
    BY <1>1, <1>2, Sorts
  <2>2. Guards(t) = 1 /\ Waiting(t)
    BY <1>1, <2>1, Found
  <2> QED
    BY <2>2, Numbers DEF Core
<1>5. PICK k \in Int : k = StartMask - owed[t]
  BY <1>4
<1>6. PICK g \in Frame : g = [op |-> "pre", node |-> t, k |-> k]
  BY DEF Frame
<1> DEFINE fs == <<g>>
<1>7. Then(x, fs) /\ UNCHANGED <<prog, head, body, owed, word>>
  BY <1>2, <1>5, <1>6 DEF Publish, Protection
<1>8. /\ fs \in Seq(Frame) /\ (\A i \in DOMAIN fs : fs[i] = g)
      /\ \A P : Number(fs, P) = One(g \in P)
  BY NumberOne
<1>9. \A v : /\ (f \in Holdback(v) <=> v = t) /\ f \notin Taking(v) /\ f \notin Ending(v) /\ f \notin Linking(v)
             /\ g \notin Ending(v) /\ g \notin Linking(v)
             /\ (g \in Holdback(v) <=> v = t /\ k # 1) /\ (g \in Taking(v) <=> v = t /\ k = 1)
  BY <1>1, <1>2, <1>6, Sorts
<1> HIDE DEF f, fs
<1>10. Fits(g) /\ Seats(x, todo[x], fs)
  BY <1>5, <1>6, <1>8 DEF Fits, Seats, Bottom
<1>11. \A e \in Frame : In(fs, e) => Fits(e)
  BY <1>8, <1>10 DEF In
<1>12. CASE k # 1
  <2>1. \A v \in Tasks : /\ Number(fs, Taking(v)) = One(f \in Taking(v))
                         /\ Number(fs, Holdback(v)) = One(f \in Holdback(v))
                         /\ Number(fs, Ending(v)) = One(f \in Ending(v))
                         /\ Number(fs, Linking(v)) = One(f \in Linking(v))
    BY <1>8, <1>9, <1>12 DEF One
  <2> QED
    BY <1>1, <1>7, <1>8, <1>10, <1>11, <2>1, EvenCore DEF f
<1>13. CASE k = 1
  <2>1. \A P : /\ Count(todo', P) \in Nat /\ Count(todo, P) \in Nat
               /\ Count(todo', P) = Count(todo, P) - One(f \in P) + One(g \in P)
    BY <1>1, <1>3, <1>7, <1>8, ThenCount DEF f
  <2>2. \A v \in Tasks : /\ Count(todo', Ending(v)) = Count(todo, Ending(v))
                         /\ Count(todo', Linking(v)) = Count(todo, Linking(v))
                         /\ (IsDone(v)' <=> IsDone(v)) /\ Lists' = Lists
    BY <1>7, <1>9, <2>1 DEF One, IsDone, Lists
  <2>3. ASSUME NEW v \in Tasks, v # t
        PROVE  Counted(v)'
    <3>1. /\ Count(todo', Taking(v)) = Count(todo, Taking(v))
          /\ Count(todo', Holdback(v)) = Count(todo, Holdback(v))
      BY <1>9, <2>1, <2>3 DEF One
    <3> QED
      BY <1>7, <2>2, <3>1, CountedKept DEF Core
  <2>4. Counted(t)'
    <3>1. /\ Count(todo', Taking(t)) = Count(todo, Taking(t)) + 1
          /\ Count(todo', Holdback(t)) = Count(todo, Holdback(t)) - 1
      BY <1>9, <1>13, <2>1 DEF One
    <3>2. Owes(t)' = Owes(t) + 1 /\ Guards(t)' = 0
      BY <1>4, <2>2, <3>1 DEF Owes, Guards
    <3>3. Owes(t) + (StartMask - owed[t]) = word[t].count
      BY <1>4 DEF Counted
    <3>4. Owes(t)' = word[t].count
      BY <1>4, <1>5, <1>13, <3>2, <3>3
    <3>5. Inputs(t)' = Inputs(t) /\ Waiting(t)' /\ (Final(t)' <=> Final(t))
      BY <1>4, <1>7 DEF Inputs, Waiting, Final
    <3> QED
      BY <1>4, <1>7, <2>2, <3>2, <3>4, <3>5 DEF Counted
  <2>5. Placed'
    <3>1. \A e \in Frame : (Left(x, e) /\ Fits(e)) \/ In(fs, e) => Fits(e)'
      BY <1>7, <1>11, FitsSame
    <3> QED
      BY <1>1, <1>3, <1>7, <1>8, <1>10, <3>1, PlacedThen
  <2>6. Resting'
    BY <1>1, <1>3, <1>7, RestingThen DEF f
  <2> QED
    BY <2>3, <2>4, <2>5, <2>6 DEF Core
<1> QED
  BY <1>12, <1>13

(* What taking k from t leaves. *)
LEMMA PreTakes ==
  ASSUME Core, NEW x \in Threads, NEW f, At(x, "pre"), f = Cur(x),
         NEW t \in Tasks, f.node = t, NEW k \in Int, f.k = k
  PROVE  /\ Waiting(t) /\ x # t /\ k >= 1 /\ k <= word[t].count
         /\ \A n, m \in Nat : (/\ n = Count(todo, Taking(t)) - One(f \in Taking(t))
                               /\ m = Count(todo, Holdback(t)) - One(f \in Holdback(t))) =>
              /\ m <= 1
              /\ Count(Lists, Flows(t)) + n + (IF m = 0 THEN 0 ELSE StartMask - owed[t])
                   = word[t].count - k
              /\ word[t].count = k => m = 0 /\ Count(Lists, Flows(t)) + n = 0
<1>1. /\ todo[x] # <<>> /\ 1 \in DOMAIN todo[x] /\ todo[x][1] = f /\ f.op = "pre" /\ f \in Frame
      /\ Fits(f)
  BY First
<1>2. (f \in Taking(t) <=> k = 1) /\ (f \in Holdback(t) <=> k # 1)
  BY <1>1, Sorts
<1>3. /\ k = 1 => Owes(t) >= 1 /\ Waiting(t)
      /\ k # 1 => Guards(t) = 1 /\ Waiting(t) /\ k = StartMask - owed[t]
  BY <1>1, <1>2, Found DEF Fits
<1>4. /\ Owes(t) = Count(Lists, Flows(t)) + Count(todo, Taking(t))
      /\ Guards(t) = Count(todo, Holdback(t)) /\ Guards(t) \in {0, 1}
      /\ Count(Lists, Flows(t)) \in Nat /\ Count(todo, Taking(t)) \in Nat
      /\ StartMask - owed[t] >= 1 /\ StartMask \in Int /\ owed[t] \in Int /\ word[t].count \in Int
  BY Numbers
<1>5. Owes(t) + (IF Guards(t) = 0 THEN 0 ELSE StartMask - owed[t]) = word[t].count
  BY <1>3 DEF Core, Counted
<1>6. x # t
  <2>1. ASSUME x = t
        PROVE  todo[t] = <<>> \/ todo[t] = <<[op |-> "start", node |-> t]>>
    BY <1>3 DEF Waiting, Core, Resting
  <2> QED
    BY <1>1, <2>1
<1>7. k >= 1 /\ k <= word[t].count
  BY <1>3, <1>4, <1>5
<1>8. ASSUME NEW n \in Nat, NEW m \in Nat, n = Count(todo, Taking(t)) - One(f \in Taking(t)),
             m = Count(todo, Holdback(t)) - One(f \in Holdback(t))
      PROVE  /\ m <= 1
             /\ Count(Lists, Flows(t)) + n + (IF m = 0 THEN 0 ELSE StartMask - owed[t])
                  = word[t].count - k
             /\ word[t].count = k => m = 0 /\ Count(Lists, Flows(t)) + n = 0
  <2>1. CASE k = 1
    <3>1. n = Count(todo, Taking(t)) - 1 /\ m = Guards(t)
      BY <1>2, <1>4, <1>8, <2>1 DEF One
    <3> QED
      BY <1>4, <1>5, <2>1, <3>1
  <2>2. CASE k # 1
    <3>1. n = Count(todo, Taking(t)) /\ m = 0
      BY <1>2, <1>3, <1>4, <1>8, <2>2 DEF One
    <3> QED
      BY <1>3, <1>4, <1>5, <2>2, <3>1
  <2> QED
    BY <2>1, <2>2
<1> QED
  BY <1>3, <1>6, <1>7, <1>8

LEMMA Begun ==
  ASSUME NEW s \in Family(Threads, Frame), NEW t \in Threads, s[t] = <<>>, NEW g \in Frame,
         NEW r, Replaced(r, s, t, <<g>>)
  PROVE  \A P : g \notin P => Count(r, P) = Count(s, P)
<1>1. PICK c \in Seq(Frame) : c = <<g>>
  BY Short
<1>2. IsFiniteSet(Threads) /\ Replaced(r, s, t, c)
  BY <1>1, Finite
<1>3. \A P : /\ Count(r, P) \in Nat /\ Count(s, P) \in Nat
             /\ Count(r, P) = Count(s, P) - Number(s[t], P) + Number(c, P)
  BY <1>2, CountAs
<1>4. ASSUME NEW P, g \notin P
      PROVE  Count(r, P) = Count(s, P)
  <2>1. Number(s[t], P) = 0 /\ Number(c, P) = 0
    BY <1>1, <1>4, NumberEmpty, NumberOne DEF One
  <2> QED
    BY <1>3, <2>1
<1> QED
  BY <1>4

(* A thread that goes on while the task t is started, or not. *)
LEMMA StartCount ==
  ASSUME Inv, NEW x \in Threads, todo[x] # <<>>, NEW t \in Tasks, x # t, NEW fs \in Seq(Frame),
         NEW b \in BOOLEAN, b => todo[t] = <<>>,
         NEW c, c = IF b THEN <<[op |-> "start", node |-> t]>> ELSE todo[t],
         todo' = [todo EXCEPT ![x] = fs \o Tail(todo[x]), ![t] = c]
  PROVE  \A P : (\A u : [op |-> "start", node |-> u] \notin P) =>
           /\ Count(todo', P) \in Nat /\ Count(todo, P) \in Nat
           /\ Count(todo', P) = Count(todo, P) - One(Cur(x) \in P) + Number(fs, P)
<1>1. PICK s1 : s1 = [todo EXCEPT ![x] = fs \o Tail(todo[x])]
  OBVIOUS
<1>2. todo \in Family(Threads, Frame) /\ IsFiniteSet(Threads) /\ t \in Threads
  BY Families, Finite, Apart
<1>3. Onward(s1, todo, x, fs)
  BY <1>1 DEF Onward
<1>4. \A P : /\ Count(s1, P) \in Nat /\ Count(todo, P) \in Nat /\ s1 \in Family(Threads, Frame)
             /\ Count(s1, P) = Count(todo, P) - One(Cur(x) \in P) + Number(fs, P)
  BY <1>2, <1>3, CountThen DEF Cur
<1>5. s1[t] = todo[t] /\ todo' = [s1 EXCEPT ![t] = c]
  BY <1>1, <1>2 DEF Inv, Frames
<1>6. CASE b
  <2>1. PICK g \in Frame : g = [op |-> "start", node |-> t]
    <3>1. [op |-> "start", node |-> t] \in Frame
      BY DEF Frame
    <3> QED
      BY <3>1
  <2>2. s1[t] = <<>> /\ s1 \in Family(Threads, Frame)
    BY <1>4, <1>5, <1>6
  <2>3. PICK r : r = todo'
    OBVIOUS
  <2>4. Replaced(r, s1, t, <<g>>)
    BY <1>5, <1>6, <2>1, <2>3 DEF Replaced
  <2>5. \A P : g \notin P => Count(r, P) = Count(s1, P)
    BY <1>2, <2>2, <2>4, Begun
  <2>6. ASSUME NEW P, \A u : [op |-> "start", node |-> u] \notin P
        PROVE  Count(todo', P) = Count(s1, P)
    BY <2>1, <2>3, <2>5, <2>6
  <2> QED
    BY <1>4, <2>6
<1>7. CASE ~b
  <2>1. todo' = s1
    BY <1>1, <1>2, <1>5, <1>7 DEF Inv, Frames
  <2> QED
    BY <1>4, <2>1
<1> QED
  BY <1>6, <1>7

LEMMA PreCore ==
  ASSUME Core, Inv', NEW x \in Threads, Pre(x), UNCHANGED prog
  PROVE  Core'
<1> DEFINE f == Cur(x)
<1>1. /\ todo[x] # <<>> /\ 1 \in DOMAIN todo[x] /\ todo[x][1] = f /\ f.op = "pre" /\ f \in Frame
      /\ At(x, "pre") /\ Inv /\ Placed /\ Resting
  BY First DEF Pre, Core
<1>2. PICK t \in Tasks, k \in Int : f.node = t /\ f.k = k
  BY <1>1, Says
<1> HIDE DEF f
<1>3. /\ Waiting(t) /\ x # t /\ k >= 1 /\ k <= word[t].count /\ t \in Threads
      /\ Waiting(t) => body[t] \in {"pending", "forwarding"}
  BY <1>1, <1>2, PreTakes, Apart DEF f, Waiting
<1>4. PICK last \in BOOLEAN : last <=> word[t].count = k
  OBVIOUS
<1>5. PICK skips \in BOOLEAN : skips <=> last /\ Skips(word[t].bits)
  OBVIOUS
<1>6. PICK fs \in Seq(Frame) :
        /\ fs = IF skips THEN Complete(t, TRUE) ELSE <<>>
        /\ Seats(x, todo[x], fs)
        /\ \A e \in Frame : In(fs, e) => e \in Calm \/ (skips /\ e = [op |-> "exchange", node |-> t, failed |-> TRUE])
        /\ \A u : /\ Number(fs, Taking(u)) = 0 /\ Number(fs, Holdback(u)) = 0
                  /\ Number(fs, Linking(u)) = 0 /\ Number(fs, Ending(u)) = One(skips /\ u = t)
  <2>1. CASE skips
    <3>1. PICK r \in Seq(Calm) : r = <<>>
      BY Short
    <3>2. (\A i \in DOMAIN r : r[i].op # "late") /\ r \o Complete(t, TRUE) = Complete(t, TRUE)
      BY <3>1 DEF Complete
    <3>3. Completes(Complete(t, TRUE), t, TRUE, x, todo[x])
      BY <3>2, CompleteNumbers
    <3>4. \A u : One(u = t) = One(skips /\ u = t)
      BY <2>1 DEF One
    <3> QED
      BY <2>1, <3>3, <3>4 DEF Completes
  <2>2. CASE ~skips
    <3>1. <<>> \in Seq(Frame) /\ Seats(x, todo[x], <<>>) /\ \A e : ~In(<<>>, e)
      BY Short DEF Seats, In
    <3>2. (\A P : Number(<<>>, P) = 0) /\ \A u : One(skips /\ u = t) = 0
      BY <2>2, NumberEmpty DEF One
    <3> QED
      BY <2>2, <3>1, <3>2
  <2> QED
    BY <2>1, <2>2
<1>7. PICK c : c = IF last /\ ~skips THEN <<[op |-> "start", node |-> t]>> ELSE todo[t]
  OBVIOUS
<1>8. /\ todo' = [todo EXCEPT ![x] = fs \o Tail(@), ![t] = c]
      /\ word' = [word EXCEPT ![t].count = @ - k]
      /\ body' = IF skips THEN [body EXCEPT ![t] = "skipped"] ELSE body
      /\ UNCHANGED <<prog, head, owed>>
  BY <1>2, <1>4, <1>5, <1>6, <1>7 DEF Pre, f
<1>9. /\ word'[t].count = word[t].count - k /\ \A u \in Tasks : u # t => word'[u] = word[u]
      /\ body'[t] = (IF skips THEN "skipped" ELSE body[t]) /\ \A u \in Tasks : u # t => body'[u] = body[u]
  <2>1. word \in [Tasks -> Word] /\ word[t] \in Word
    BY <1>1 DEF Inv, Types
  <2>2. body'[t] = (IF skips THEN "skipped" ELSE body[t]) /\ \A u \in Tasks : u # t => body'[u] = body[u]
    BY <1>1, <1>8 DEF Inv, Types
  <2> QED
    BY <1>8, <2>1, <2>2 DEF Word
<1>10. /\ todo'[x] = fs \o Tail(todo[x]) /\ todo'[t] = c
       /\ \A y \in Threads : y # x /\ y # t => todo'[y] = todo[y]
  BY <1>1, <1>3, <1>8 DEF Inv, Frames
<1>11. last /\ ~skips => todo[t] = <<>>
  <2>1. todo[t] = <<>> \/ todo[t] = <<[op |-> "start", node |-> t]>>
    BY <1>1, <1>3 DEF Resting
  <2>2. ASSUME todo[t] = <<[op |-> "start", node |-> t]>>
        PROVE  FALSE
    <3>1. At(t, "start")
      BY <2>2 DEF At
    <3>2. Cur(t) = [op |-> "start", node |-> t]
      BY <2>2 DEF Cur
    <3>3. Fits(Cur(t))
      BY <1>3, <3>1, First
    <3>4. word[t].count = 0
      BY <3>2, <3>3 DEF Fits
    <3> QED
      BY <1>3, <3>4
  <2> QED
    BY <2>1, <2>2
<1>12. \A P : (\A u : [op |-> "start", node |-> u] \notin P) =>
         /\ Count(todo', P) \in Nat /\ Count(todo, P) \in Nat
         /\ Count(todo', P) = Count(todo, P) - One(f \in P) + Number(fs, P)
  <2>1. PICK b \in BOOLEAN : b <=> last /\ ~skips
    OBVIOUS
  <2>2. /\ c = (IF b THEN <<[op |-> "start", node |-> t]>> ELSE todo[t]) /\ (b => todo[t] = <<>>)
        /\ todo' = [todo EXCEPT ![x] = fs \o Tail(todo[x]), ![t] = c]
    BY <1>1, <1>3, <1>7, <1>8, <1>11, <2>1 DEF Inv, Frames
  <2> QED
    BY <1>1, <1>3, <2>2, StartCount DEF f
<1>13. \A u, v : /\ [op |-> "start", node |-> u] \notin Taking(v)
                 /\ [op |-> "start", node |-> u] \notin Holdback(v)
                 /\ [op |-> "start", node |-> u] \notin Ending(v)
                 /\ [op |-> "start", node |-> u] \notin Linking(v)
  BY DEF Taking, Holdback, Ending, Linking
<1>14. \A v : /\ Count(todo', Taking(v)) \in Nat /\ Count(todo, Taking(v)) \in Nat
              /\ Count(todo', Taking(v)) = Count(todo, Taking(v)) - One(f \in Taking(v))
              /\ Count(todo', Holdback(v)) \in Nat /\ Count(todo, Holdback(v)) \in Nat
              /\ Count(todo', Holdback(v)) = Count(todo, Holdback(v)) - One(f \in Holdback(v))
              /\ Count(todo', Linking(v)) = Count(todo, Linking(v))
              /\ Count(todo', Ending(v)) = Count(todo, Ending(v)) + One(skips /\ v = t)
  <2>1. SUFFICES ASSUME NEW v
                 PROVE  /\ Count(todo', Taking(v)) \in Nat /\ Count(todo, Taking(v)) \in Nat
                        /\ Count(todo', Taking(v)) = Count(todo, Taking(v)) - One(f \in Taking(v))
                        /\ Count(todo', Holdback(v)) \in Nat /\ Count(todo, Holdback(v)) \in Nat
                        /\ Count(todo', Holdback(v)) = Count(todo, Holdback(v)) - One(f \in Holdback(v))
                        /\ Count(todo', Linking(v)) = Count(todo, Linking(v))
                        /\ Count(todo', Ending(v)) = Count(todo, Ending(v)) + One(skips /\ v = t)
    OBVIOUS
  <2>2. f \notin Linking(v) /\ f \notin Ending(v)
    BY <1>1, Sorts
  <2>0. /\ One(f \in Linking(v)) = 0 /\ One(f \in Ending(v)) = 0
        /\ One(f \in Taking(v)) \in Nat /\ One(f \in Holdback(v)) \in Nat
        /\ One(skips /\ v = t) \in Nat
    BY <2>2 DEF One
  <2>3. /\ Number(fs, Taking(v)) = 0 /\ Number(fs, Holdback(v)) = 0
        /\ Number(fs, Linking(v)) = 0 /\ Number(fs, Ending(v)) = One(skips /\ v = t)
    BY <1>6
  <2>4. /\ Count(todo', Taking(v)) \in Nat /\ Count(todo, Taking(v)) \in Nat
        /\ Count(todo', Taking(v)) = Count(todo, Taking(v)) - One(f \in Taking(v))
    <3>1. Count(todo', Taking(v)) = Count(todo, Taking(v)) - One(f \in Taking(v)) + Number(fs, Taking(v))
          /\ Count(todo', Taking(v)) \in Nat /\ Count(todo, Taking(v)) \in Nat
      BY <1>12, <1>13
    <3> QED
      BY <2>0, <2>3, <3>1
  <2>5. /\ Count(todo', Holdback(v)) \in Nat /\ Count(todo, Holdback(v)) \in Nat
        /\ Count(todo', Holdback(v)) = Count(todo, Holdback(v)) - One(f \in Holdback(v))
    <3>1. Count(todo', Holdback(v)) = Count(todo, Holdback(v)) - One(f \in Holdback(v)) + Number(fs, Holdback(v))
          /\ Count(todo', Holdback(v)) \in Nat /\ Count(todo, Holdback(v)) \in Nat
      BY <1>12, <1>13
    <3> QED
      BY <2>0, <2>3, <3>1
  <2>6. Count(todo', Linking(v)) = Count(todo, Linking(v))
    <3>1. Count(todo', Linking(v)) = Count(todo, Linking(v)) - One(f \in Linking(v)) + Number(fs, Linking(v))
          /\ Count(todo', Linking(v)) \in Nat /\ Count(todo, Linking(v)) \in Nat
      BY <1>12, <1>13
    <3> QED
      BY <2>0, <2>3, <3>1
  <2>7. Count(todo', Ending(v)) = Count(todo, Ending(v)) + One(skips /\ v = t)
    <3>1. Count(todo', Ending(v)) = Count(todo, Ending(v)) - One(f \in Ending(v)) + Number(fs, Ending(v))
          /\ Count(todo', Ending(v)) \in Nat /\ Count(todo, Ending(v)) \in Nat
      BY <1>12, <1>13
    <3> QED
      BY <2>0, <2>3, <3>1
  <2> QED
    BY <2>4, <2>5, <2>6, <2>7
<1>15. Lists' = Lists /\ \A v \in Tasks : (IsDone(v)' <=> IsDone(v)) /\ Inputs(v)' = Inputs(v)
  BY <1>8 DEF Lists, IsDone, Inputs
<1>16. ASSUME NEW v \in Tasks, v # t
       PROVE  Counted(v)'
  <2>1. f \notin Taking(v) /\ f \notin Holdback(v)
    BY <1>1, <1>2, <1>16, Sorts
  <2>2. /\ Count(todo', Taking(v)) = Count(todo, Taking(v))
        /\ Count(todo', Holdback(v)) = Count(todo, Holdback(v))
    BY <1>14, <2>1 DEF One
  <2>3. Count(todo', Ending(v)) = Count(todo, Ending(v))
    BY <1>14, <1>16, Numbers DEF One
  <2> QED
    BY <1>8, <1>9, <1>14, <1>15, <1>16, <2>2, <2>3, CountedKept DEF Core
<1>17. Counted(t)'
  <2>1. PICK n \in Nat, m \in Nat : n = Count(todo', Taking(t)) /\ m = Count(todo', Holdback(t))
    BY <1>14
  <2>2. /\ m <= 1
        /\ Count(Lists, Flows(t)) + n + (IF m = 0 THEN 0 ELSE StartMask - owed[t]) = word[t].count - k
        /\ word[t].count = k => m = 0 /\ Count(Lists, Flows(t)) + n = 0
    BY <1>1, <1>2, <1>14, <2>1, PreTakes DEF f
  <2>3. Owes(t)' = Count(Lists, Flows(t)) + n /\ Guards(t)' = m
    BY <1>15, <2>1 DEF Owes, Guards
  <2>4. Counted(t)
    BY DEF Core
  <2>5. /\ owed'[t] >= 0 /\ owed'[t] + Count(todo', Linking(t)) <= Len(Inputs(t)) /\ owed'[t] = owed[t]
    BY <1>8, <1>14, <2>4 DEF Counted
  <2>6. CASE skips
    <3>1. ~Waiting(t)' /\ Final(t)' /\ body'[t] # "idle" /\ ~Final(t)
      BY <1>3, <1>9, <2>6 DEF Waiting, Final
    <3>2. Count(todo, Ending(t)) = 0 /\ ~IsDone(t)
      BY <2>4, <3>1 DEF Counted
    <3>3. Count(todo', Ending(t)) = 1
      BY <1>14, <2>6, <3>2 DEF One
    <3>4. Owes(t)' = 0 /\ Guards(t)' = 0
      BY <1>4, <1>5, <2>2, <2>3, <2>6
    <3> QED
      BY <1>15, <2>5, <3>1, <3>2, <3>3, <3>4 DEF Counted
  <2>7. CASE ~skips
    <3>1. Waiting(t)' /\ ~Final(t)' /\ ~Final(t) /\ body'[t] # "idle"
      BY <1>3, <1>9, <2>7 DEF Waiting, Final
    <3>2. Count(todo', Ending(t)) = 0 /\ ~IsDone(t)
      <4>1. Count(todo, Ending(t)) = 0 /\ ~IsDone(t)
        BY <2>4, <3>1 DEF Counted
      <4> QED
        BY <1>14, <2>7, <4>1 DEF One
    <3>3. Owes(t)' + (IF Guards(t)' = 0 THEN 0 ELSE StartMask - owed[t]) = word'[t].count /\ Guards(t)' <= 1
      BY <1>9, <2>2, <2>3
    <3> QED
      BY <1>15, <2>5, <3>1, <3>2, <3>3 DEF Counted
  <2> QED
    BY <2>6, <2>7
<1>18. ASSUME NEW e \in Frame, Fits(e)
       PROVE  Fits(e)'
  <2>1. e.op \in Bottom \cup {"exchange"} => e.node \in Tasks /\ (e.op = "exchange" => e.failed \in BOOLEAN)
    BY Says DEF Bottom, Simple
  <2>2. e.op \in Bottom \cup {"exchange"} => e.node # t
    BY <1>3, <1>18, <2>1 DEF Fits, Bottom
  <2> QED
    BY <1>8, <1>9, <1>18, <2>1, <2>2 DEF Fits, Waiting, Bottom
<1>19. Placed'
  <2>1. ASSUME NEW e \in Frame, In(fs, e)
        PROVE  Fits(e)'
    <3>1. CASE e \in Calm
      BY <3>1 DEF Calm, Fits
    <3>2. CASE skips /\ e = [op |-> "exchange", node |-> t, failed |-> TRUE]
      BY <1>9, <3>2 DEF Fits
    <3> QED
      BY <1>6, <2>1, <3>1, <3>2
  <2>2. \A i \in DOMAIN todo'[x] : Fits(todo[x][i])' /\ Lies(x, todo'[x], i)
    BY <1>1, <1>6, <1>10, <1>18, <2>1, PlacedHere
  <2>3. ASSUME NEW y \in Threads, y # x, y # t \/ ~(last /\ ~skips)
        PROVE  \A i \in DOMAIN todo'[y] : Fits(todo[y][i])' /\ Lies(y, todo'[y], i)
    <3>1. todo'[y] = todo[y]
      BY <1>7, <1>10, <2>3
    <3> QED
      BY <1>1, <1>18, <2>3, <3>1, PlacedOther
  <2>4. ASSUME last /\ ~skips
        PROVE  \A i \in DOMAIN todo'[t] : Fits(todo[t][i])' /\ Lies(t, todo'[t], i)
    <3>1. PICK g : g = [op |-> "start", node |-> t]
      OBVIOUS
    <3>2. todo'[t] = <<g>>
      BY <1>7, <1>10, <2>4, <3>1
    <3>3. \A i \in DOMAIN <<g>> : i = 1 /\ <<g>>[i] = g
      OBVIOUS
    <3>4. Len(<<g>>) = 1
      OBVIOUS
    <3>5. word[t].count \in Int /\ word'[t].count = 0
      BY <1>4, <1>9, <2>4, Numbers
    <3>6. Waiting(t)'
      BY <1>3, <1>9, <2>4 DEF Waiting
    <3>7. Fits(g)'
      BY <3>1, <3>5, <3>6 DEF Fits, Waiting
    <3>8. \A i \in DOMAIN <<g>> : Lies(t, <<g>>, i)
      BY <3>1, <3>3, <3>4 DEF Lies
    <3>9. \A i \in DOMAIN todo'[t] : todo'[t][i] = g
      BY <3>2, <3>3
    <3> QED
      BY <3>2, <3>7, <3>8, <3>9 DEF Fits, Waiting
  <2> QED
    BY <2>2, <2>3, <2>4 DEF Placed
<1>20. Resting'
  <2>1. ASSUME NEW v \in Tasks, body'[v] \in {"idle", "pending", "forwarding"}
        PROVE  todo'[v] = <<>> \/ todo'[v] = <<[op |-> "start", node |-> v]>>
    <3>1. v \in Threads
      BY Apart
    <3>2. CASE v = t
      <4>1. todo[t] = <<>> \/ todo[t] = <<[op |-> "start", node |-> t]>>
        BY <1>1, <1>3 DEF Resting
      <4> QED
        BY <1>7, <1>10, <3>2, <4>1
    <3>3. CASE v # t
      <4>1. todo[v] = <<>> \/ todo[v] = <<[op |-> "start", node |-> v]>>
        BY <1>1, <1>9, <2>1, <3>3 DEF Resting
      <4>2. v # x
        BY <1>1, <4>1
      <4> QED
        BY <1>10, <3>1, <3>3, <4>1, <4>2
    <3> QED
      BY <3>2, <3>3
  <2> QED
    BY <2>1 DEF Resting
<1> QED
  BY <1>16, <1>17, <1>19, <1>20 DEF Core

(***************************************************************************)
(* Completion                                                              *)
(***************************************************************************)
(* A list's arcs become notifications of the same tasks. *)
LEMMA NotifyKinds ==
  ASSUME NEW t \in Tasks, NEW a \in Arc, NEW b \in BOOLEAN
  PROVE  /\ Notify(t, a, b) \in Frame /\ Notify(t, a, b).op \in {"drop", "notify"}
         /\ \A u : Notify(t, a, b) \in Taking(u) <=> a \in Flows(u)
<1>1. a.node \in Tasks /\ a.port \in Nat /\ a.kind \in {"flow", "signal"}
  BY ArcKinds
<1>2. CASE a.kind = "signal"
  <2>1. Notify(t, a, b) = [op |-> "drop", control |-> a.node]
    BY <1>2 DEF Notify
  <2> QED
    BY <1>1, <1>2, <2>1 DEF Frame, Taking, Flows
<1>3. CASE a.kind = "flow"
  <2>1. Notify(t, a, b) = [op |-> "notify", node |-> a.node, from |-> t, port |-> a.port, failed |-> b]
    BY <1>3 DEF Notify
  <2>2. Notify(t, a, b) \in Frame
    BY <1>1, <2>1 DEF Frame
  <2> QED
    BY <1>1, <1>3, <2>1, <2>2 DEF Taking, Flows
<1> QED
  BY <1>1, <1>2, <1>3

(* What the exchange leaves holds nobody back. *)
LEMMA LastArcs ==
  ASSUME Inv, NEW t \in Tasks, NEW e, NEW h, h = LastHead(t, e)
  PROVE  /\ h.arcs \in Seq(Arc) /\ h.tag # "open" /\ (\A u : Number(h.arcs, Flows(u)) = 0)
         /\ h = Done \/ (LocalControl(t) # {} /\ h = Terminal(TheControl(t)))
<1>1. h = Done \/ (LocalControl(t) # {} /\ h = Terminal(TheControl(t)))
  BY DEF LastHead
<1>2. CASE h = Done
  <2>1. h.arcs = <<>> /\ h.tag # "open"
    BY <1>2 DEF Done
  <2>2. <<>> \in Seq(Arc) /\ \A P : Number(<<>>, P) = 0
    BY NumberEmpty, Short
  <2> QED
    BY <1>2, <2>1, <2>2
<1>3. CASE LocalControl(t) # {} /\ h = Terminal(TheControl(t))
  <2>1. PICK a : a = Signal(TheControl(t))
    OBVIOUS
  <2>2. a \in Arc /\ \A u : a \notin Flows(u)
    BY <1>3, <2>1, ControlType DEF Inv, Arc, Signal, Flows
  <2>3. h.arcs = <<a>> /\ h.tag # "open"
    BY <1>3, <2>1 DEF Terminal
  <2>4. \A u : Number(<<a>>, Flows(u)) = 0
    BY <2>2, NumberOne DEF One
  <2>5. <<a>> \in Seq(Arc)
    BY <2>2, Short
  <2> QED
    BY <1>3, <2>3, <2>4, <2>5
<1> QED
  BY <1>1, <1>2, <1>3

(* The frames of an exchange. *)
LEMMA NotifyAll ==
  ASSUME NEW t \in Tasks, NEW r \in Seq(Arc), NEW b \in BOOLEAN,
         NEW fs, fs = [i \in DOMAIN r |-> Notify(t, r[i], b)]
  PROVE  /\ fs \in Seq(Frame) /\ DOMAIN fs = DOMAIN r
         /\ \A i \in DOMAIN fs : fs[i].op \in {"drop", "notify"} /\ fs[i] = Notify(t, r[i], b)
         /\ \A u : /\ Number(fs, Taking(u)) = Number(r, Flows(u)) /\ Number(fs, Holdback(u)) = 0
                   /\ Number(fs, Linking(u)) = 0 /\ Number(fs, Ending(u)) = 0
<1>1. \A i \in DOMAIN r : r[i] \in Arc
  BY Element
<1>2. DOMAIN r = 1..Len(r) /\ Len(r) \in Nat
  OBVIOUS
<1>3. DOMAIN fs = DOMAIN r /\ \A i \in DOMAIN r : fs[i] = Notify(t, r[i], b)
  OBVIOUS
<1>4. \A i \in DOMAIN r : /\ fs[i] \in Frame /\ fs[i].op \in {"drop", "notify"}
                          /\ \A u : fs[i] \in Taking(u) <=> r[i] \in Flows(u)
  BY <1>1, <1>3, NotifyKinds
<1>5. fs = [i \in 1..Len(r) |-> fs[i]]
  BY <1>2
<1>6. fs \in Seq(Frame)
  BY <1>2, <1>4, <1>5
<1>7. \A u : Number(fs, Taking(u)) = Number(r, Flows(u))
  BY <1>3, <1>4, NumberSame
<1>8. ASSUME NEW u
      PROVE  Number(fs, Holdback(u)) = 0 /\ Number(fs, Linking(u)) = 0 /\ Number(fs, Ending(u)) = 0
  <2>1. \A P : (\A i \in DOMAIN fs : fs[i] \notin P) => Number(fs, P) = 0
    BY <1>6, NumberNone
  <2>2. \A i \in DOMAIN fs : fs[i] \notin Holdback(u) /\ fs[i] \notin Linking(u) /\ fs[i] \notin Ending(u)
    BY <1>3, <1>4, Sorts
  <2> QED
    BY <2>1, <2>2
<1> QED
  BY <1>3, <1>4, <1>6, <1>7, <1>8

LEMMA ExchangeCore ==
  ASSUME Core, Inv', NEW x \in Threads, Exchange(x), UNCHANGED prog
  PROVE  Core'
<1> DEFINE f == Cur(x)
<1>1. /\ todo[x] # <<>> /\ 1 \in DOMAIN todo[x] /\ todo[x][1] = f /\ f.op = "exchange" /\ f \in Frame
      /\ Inv /\ Placed /\ Resting
  BY First DEF Exchange, Core
<1>2. PICK t \in Tasks, e \in BOOLEAN : f.node = t /\ f.failed = e
  BY <1>1, Says
<1>3. PICK b \in BOOLEAN : b <=> e /\ Failed(t)
  OBVIOUS
<1>4. PICK h : h = LastHead(t, e)
  OBVIOUS
<1>5. PICK r \in Seq(Arc) : r = head[t].arcs
  BY <1>1, ControlType DEF Inv
<1>6. PICK fs : fs = [i \in DOMAIN r |-> Notify(t, r[i], b)]
  OBVIOUS
<1>7. /\ head' = [head EXCEPT ![t] = h] /\ Then(x, fs) /\ UNCHANGED <<prog, word, owed, body>>
  <2>1. [i \in DOMAIN r |-> Notify(t, r[i], b)] = [i \in DOMAIN r |-> Notify(t, r[i], e /\ Failed(t))]
    BY <1>3
  <2> QED
    BY <1>2, <1>4, <1>5, <1>6, <2>1 DEF Exchange
<1>8. /\ fs \in Seq(Frame) /\ \A i \in DOMAIN fs : fs[i].op \in {"drop", "notify"}
      /\ \A u : /\ Number(fs, Taking(u)) = Number(r, Flows(u)) /\ Number(fs, Holdback(u)) = 0
                /\ Number(fs, Linking(u)) = 0 /\ Number(fs, Ending(u)) = 0
  BY <1>6, NotifyAll
<1>9. h.arcs \in Seq(Arc) /\ h.tag # "open" /\ (\A u : Number(h.arcs, Flows(u)) = 0)
  BY <1>1, <1>4, LastArcs
<1>10. \A u : /\ f \notin Taking(u) /\ f \notin Holdback(u) /\ f \notin Linking(u)
              /\ f \in Ending(u) <=> u = t
  BY <1>1, <1>2, Sorts
<1> HIDE DEF f
<1>11. Final(t) /\ ~IsDone(t)
  BY <1>1, <1>10, Found
<1>12. \A P : /\ Count(todo', P) \in Nat /\ Count(todo, P) \in Nat /\ Number(fs, P) \in Nat
              /\ Count(todo', P) = Count(todo, P) - One(f \in P) + Number(fs, P)
  BY <1>1, <1>7, <1>8, ThenCount DEF f
<1>13. \A P : /\ Count(Lists', P) \in Nat /\ Count(Lists, P) \in Nat
              /\ Count(Lists', P) = Count(Lists, P) - Number(r, P) + Number(h.arcs, P)
  <2>1. Lists \in Family(Tasks, Arc) /\ IsFiniteSet(Tasks) /\ Lists[t] = r
    BY <1>1, <1>5, Families, Finite
  <2>2. Replaced(Lists', Lists, t, h.arcs)
    BY <1>1, <1>7 DEF Lists, Replaced, Inv, Types
  <2>3. PICK l \in Seq(Arc) : l = h.arcs
    BY <1>9
  <2>4. PICK n : n = Lists'
    OBVIOUS
  <2>5. \A P : /\ Count(n, P) \in Nat /\ Count(Lists, P) \in Nat
               /\ Count(n, P) = Count(Lists, P) - Number(Lists[t], P) + Number(l, P)
    <3>1. Replaced(n, Lists, t, l)
      BY <2>2, <2>3, <2>4
    <3> QED
      BY <2>1, <3>1, CountAs
  <2> QED
    BY <2>1, <2>3, <2>4, <2>5
<1>14. ASSUME NEW v \in Tasks
       PROVE  /\ Owes(v)' = Owes(v) /\ Guards(v)' = Guards(v)
              /\ Count(todo', Linking(v)) = Count(todo, Linking(v))
              /\ Count(todo', Ending(v)) = Count(todo, Ending(v)) - One(v = t)
              /\ Inputs(v)' = Inputs(v) /\ (Waiting(v)' <=> Waiting(v)) /\ (Final(v)' <=> Final(v))
              /\ IsDone(v)' <=> v = t \/ IsDone(v)
  <2>1. Owes(v)' = Owes(v)
    <3>1. Count(todo', Taking(v)) = Count(todo, Taking(v)) + Number(r, Flows(v))
          /\ Count(todo, Taking(v)) \in Nat /\ Number(r, Flows(v)) \in Nat
      <4>1. One(f \in Taking(v)) = 0
        BY <1>10 DEF One
      <4>2. /\ Count(todo', Taking(v)) = Count(todo, Taking(v)) - One(f \in Taking(v)) + Number(fs, Taking(v))
            /\ Count(todo, Taking(v)) \in Nat /\ Number(fs, Taking(v)) \in Nat
        BY <1>12
      <4> QED
        BY <1>8, <4>1, <4>2
    <3>2. Count(Lists', Flows(v)) = Count(Lists, Flows(v)) - Number(r, Flows(v))
          /\ Count(Lists, Flows(v)) \in Nat
      <4>1. Count(Lists', Flows(v)) = Count(Lists, Flows(v)) - Number(r, Flows(v)) + Number(h.arcs, Flows(v))
            /\ Count(Lists, Flows(v)) \in Nat
        BY <1>13
      <4> QED
        BY <1>9, <3>1, <4>1
    <3> QED
      BY <3>1, <3>2 DEF Owes
  <2>2. Guards(v)' = Guards(v)
    <3>1. One(f \in Holdback(v)) = 0
      BY <1>10 DEF One
    <3>2. /\ Count(todo', Holdback(v)) = Count(todo, Holdback(v)) - One(f \in Holdback(v)) + Number(fs, Holdback(v))
          /\ Count(todo, Holdback(v)) \in Nat
      BY <1>12
    <3> QED
      BY <1>8, <3>1, <3>2 DEF Guards
  <2>3. Count(todo', Linking(v)) = Count(todo, Linking(v))
    <3>1. One(f \in Linking(v)) = 0
      BY <1>10 DEF One
    <3>2. /\ Count(todo', Linking(v)) = Count(todo, Linking(v)) - One(f \in Linking(v)) + Number(fs, Linking(v))
          /\ Count(todo, Linking(v)) \in Nat
      BY <1>12
    <3> QED
      BY <1>8, <3>1, <3>2
  <2>4. Count(todo', Ending(v)) = Count(todo, Ending(v)) - One(v = t)
    <3>1. One(f \in Ending(v)) = One(v = t) /\ One(v = t) \in Nat
      BY <1>10 DEF One
    <3>2. /\ Count(todo', Ending(v)) = Count(todo, Ending(v)) - One(f \in Ending(v)) + Number(fs, Ending(v))
          /\ Count(todo, Ending(v)) \in Nat
      BY <1>12
    <3> QED
      BY <1>8, <3>1, <3>2
  <2>5. Inputs(v)' = Inputs(v) /\ (Waiting(v)' <=> Waiting(v)) /\ (Final(v)' <=> Final(v))
    BY <1>7 DEF Inputs, Waiting, Final
  <2>6. IsDone(v)' <=> v = t \/ IsDone(v)
    BY <1>1, <1>7, <1>9 DEF IsDone, Inv, Types
  <2> QED
    BY <2>1, <2>2, <2>3, <2>4, <2>5, <2>6
<1>15. ASSUME NEW v \in Tasks
       PROVE  Counted(v)'
  <2>1. Counted(v) /\ Count(todo, Ending(v)) \in Nat
    BY Numbers DEF Core
  <2>2. CASE v = t
    <3>1. Count(todo, Ending(v)) = 1
      BY <1>11, <2>1, <2>2 DEF Counted
    <3>2. Count(todo', Ending(v)) = 0
      BY <1>14, <2>2, <3>1 DEF One
    <3> QED
      BY <1>7, <1>11, <1>14, <2>1, <2>2, <3>2 DEF Counted
  <2>3. CASE v # t
    <3>1. Count(todo', Ending(v)) = Count(todo, Ending(v))
      BY <1>14, <2>1, <2>3 DEF One
    <3> QED
      BY <1>7, <1>14, <2>1, <2>3, <3>1 DEF Counted
  <2> QED
    BY <2>2, <2>3
<1>16. Placed'
  <2>1. \A g \in Frame : In(fs, g) => Fits(g)
    BY <1>8 DEF In, Fits
  <2>2. \A g \in Frame : (Left(x, g) /\ Fits(g)) \/ In(fs, g) => Fits(g)'
    BY <1>7, <2>1, FitsSame
  <2>3. Seats(x, todo[x], fs)
    BY <1>8 DEF Seats, Bottom
  <2> QED
    BY <1>1, <1>7, <1>8, <2>2, <2>3, PlacedThen
<1>17. Resting'
  BY <1>1, <1>7, <1>8, RestingThen DEF f
<1> QED
  BY <1>15, <1>16, <1>17 DEF Core

(***************************************************************************)
(* Calls                                                                   *)
(***************************************************************************)
LEMMA PlacedUpon ==
  ASSUME Inv, Placed, NEW x \in Threads, NEW fs \in Seq(Frame), Upon(todo', todo, x, fs),
         \A i \in DOMAIN fs :
           /\ fs[i].op \notin Bottom
           /\ fs[i].op \in {"link", "late"} => [op |-> "publish", node |-> fs[i].node] \in After(fs, i),
         \A f \in Frame : Fits(f) \/ In(fs, f) => Fits(f)'
  PROVE  Placed'
<1>1. PICK s \in Seq(Frame) : s = todo[x]
  BY Families
<1>2. PICK r : r = fs \o s
  OBVIOUS
<1>3. r \in Seq(Frame) /\ OnTopOf(r, fs, s)
  BY <1>2, OnTop
<1>4. todo'[x] = r /\ \A y \in Threads : y # x => todo'[y] = todo[y]
  BY <1>1, <1>2 DEF Upon, Inv, Frames
<1>5. ASSUME NEW y \in Threads, y # x
      PROVE  \A i \in DOMAIN todo'[y] : Fits(todo[y][i])' /\ Lies(y, todo'[y], i)
  BY <1>4, <1>5, PlacedOther
<1>6. ASSUME NEW i \in DOMAIN r
      PROVE  Fits(todo[x][i])' /\ Lies(x, r, i)
  <2>1. PICK f \in Frame : f = r[i]
    BY <1>3, Element
  <2>2. CASE i \in DOMAIN fs
    <3>1. f = fs[i] /\ After(fs, i) \subseteq After(r, i)
      BY <1>3, <2>1, <2>2 DEF OnTopOf
    <3>2. Fits(f)' /\ Lies(x, r, i)
      BY <2>1, <2>2, <3>1 DEF In, Lies
    <3> QED
      BY <1>4, <2>1, <3>2 DEF Fits, Waiting
  <2>3. ASSUME NEW j \in DOMAIN s, i = Len(fs) + j
        PROVE  Fits(todo[x][i])' /\ Lies(x, r, i)
    <3>1. f = s[j] /\ After(r, i) = After(s, j) /\ Len(r) = Len(fs) + Len(s)
      BY <1>3, <2>1, <2>3 DEF OnTopOf
    <3>2. Fits(f) /\ Lies(x, s, j)
      BY <1>1, <3>1 DEF Placed
    <3>3. Fits(f)'
      BY <3>2
    <3>4. j = Len(s) => i = Len(r)
      BY <2>3, <3>1
    <3>5. Lies(x, r, i)
      BY <2>1, <3>1, <3>2, <3>4 DEF Lies
    <3> QED
      BY <1>4, <2>1, <3>3, <3>5 DEF Fits, Waiting
  <2> QED
    BY <1>3, <2>2, <2>3 DEF OnTopOf
<1> QED
  BY <1>4, <1>5, <1>6 DEF Placed

LEMMA UponCount ==
  ASSUME Inv, NEW x \in Threads, NEW fs \in Seq(Frame), Upon(todo', todo, x, fs), NEW P
  PROVE  /\ Count(todo', P) \in Nat /\ Count(todo, P) \in Nat /\ Number(fs, P) \in Nat
         /\ Count(todo', P) = Count(todo, P) + Number(fs, P)
<1>1. todo \in Family(Threads, Frame) /\ IsFiniteSet(Threads)
  BY Families, Finite
<1> QED
  BY <1>1, CountOnto

(* A call of the application's with calm frames. *)
LEMMA CallCore ==
  ASSUME Core, NEW x \in Users, NEW fs \in Seq(Calm), \A i \in DOMAIN fs : fs[i].op # "late",
         Upon(todo', todo, x, fs), UNCHANGED <<prog, head, word, owed, body>>, Inv'
  PROVE  Core'
<1>1. x \in Threads /\ Inv /\ Placed /\ Resting /\ fs \in Seq(Frame)
  BY Apart, CalmNumber DEF Core
<1>2. ASSUME NEW v \in Tasks
      PROVE  Counted(v)'
  <2>1. \A P : Number(fs, P) = 0 => Count(todo', P) = Count(todo, P)
    BY <1>1, UponCount
  <2>2. /\ Number(fs, Taking(v)) = 0 /\ Number(fs, Holdback(v)) = 0
        /\ Number(fs, Ending(v)) = 0 /\ Number(fs, Linking(v)) = 0
    BY CalmNumber
  <2>3. IsDone(v)' <=> IsDone(v)
    BY DEF IsDone
  <2> QED
    BY <2>1, <2>2, <2>3, CountedKept DEF Core, Lists
<1>3. Placed'
  <2>1. \A i \in DOMAIN fs : fs[i] \in Calm
    BY Element
  <2>2. \A i \in DOMAIN fs : fs[i].op \notin Bottom \cup {"link", "late"}
    BY <2>1 DEF Calm, Bottom
  <2>3. \A f \in Frame : In(fs, f) => Fits(f)
    BY <2>1 DEF In, Calm, Fits
  <2>4. \A f \in Frame : Fits(f) \/ In(fs, f) => Fits(f)'
    BY <2>3, FitsSame
  <2> QED
    BY <1>1, <2>2, <2>4, PlacedUpon
<1>4. Resting'
  <2>1. \A v \in Tasks : todo'[v] = todo[v]
    BY <1>1, Apart DEF Upon, Inv, Frames
  <2> QED
    BY <1>1, <2>1 DEF Resting
<1> QED
  BY <1>2, <1>3, <1>4 DEF Core

LEMMA CancelCore ==
  ASSUME Core, Inv', NEW x \in Users, NEW t \in Tasks, Cancel(x, t), UNCHANGED prog
  PROVE  Core'
<1>1. PICK f : f = Mark(t, "user")
  OBVIOUS
<1>2. f \in Calm /\ f.op # "late"
  BY <1>1 DEF Mark, Calm, Frame, Bits
<1>3. <<f>> \in Seq(Calm) /\ \A i \in DOMAIN <<f>> : <<f>>[i].op # "late"
  BY <1>2, Short
<1>4. todo[x] = <<>> /\ todo' = [todo EXCEPT ![x] = <<f>>] /\ UNCHANGED <<prog, head, word, owed, body>>
  BY <1>1 DEF Cancel, InCall
<1>5. <<f>> \o <<>> = <<f>>
  OBVIOUS
<1>6. Upon(todo', todo, x, <<f>>)
  BY <1>4, <1>5 DEF Upon
<1> QED
  BY <1>3, <1>4, <1>6, CallCore

LEMMA WaitForCore ==
  ASSUME Core, Inv', NEW x \in Users, NEW t \in Tasks, WaitFor(x, t), UNCHANGED prog
  PROVE  Core'
<1>1. PICK f : f = [op |-> "wait", node |-> t]
  OBVIOUS
<1>2. PICK g : g = [op |-> "status", node |-> t]
  OBVIOUS
<1>3. f \in Calm /\ g \in Calm /\ f.op # "late" /\ g.op # "late"
  BY <1>1, <1>2 DEF Calm, Frame
<1> DEFINE fs == <<f, g>>
<1>4. fs \in Seq(Calm) /\ \A i \in DOMAIN fs : fs[i].op # "late"
  BY <1>3, Short
<1>5. todo[x] = <<>> /\ todo' = [todo EXCEPT ![x] = fs] /\ UNCHANGED <<prog, head, word, owed, body>>
  BY <1>1, <1>2 DEF WaitFor, InCall
<1> HIDE DEF fs
<1>6. fs \o <<>> = fs
  BY <1>4
<1>7. Upon(todo', todo, x, fs)
  BY <1>5, <1>6 DEF Upon
<1> QED
  BY <1>4, <1>5, <1>7, CallCore

(***************************************************************************)
(* oox::run                                                                *)
(***************************************************************************)
Links(t) == [i \in 1..Len(Inputs(t)) |-> [op |-> "link", node |-> t,
               from |-> Inputs(t)[i].task, port |-> Inputs(t)[i].port]]
Ends(t)  == <<[op |-> "publish", node |-> t], [op |-> "return", node |-> t]>>

Constructs(t, fs) ==
  /\ fs \in Seq(Frame)
  /\ \A i \in DOMAIN fs :
       /\ fs[i].op \in {"link", "publish", "return"} /\ fs[i].node = t
       /\ fs[i].op \in {"link", "late"} => [op |-> "publish", node |-> fs[i].node] \in After(fs, i)
  /\ \A v : /\ Number(fs, Taking(v)) = 0 /\ Number(fs, Ending(v)) = 0
            /\ Number(fs, Linking(v)) = IF v = t THEN Len(Inputs(t)) ELSE 0
            /\ Number(fs, Holdback(v)) = One(v = t)

(* The frames of a construction: as many links as there are inputs, and the protection. *)
LEMMA Construction ==
  ASSUME Inv, NEW t \in Tasks, NEW fs, fs = Links(t) \o Ends(t)
  PROVE  Constructs(t, fs)
<1> DEFINE n == Len(Inputs(t))
<1>1. PICK g : g = [op |-> "publish", node |-> t]
  OBVIOUS
<1>2. PICK h : h = [op |-> "return", node |-> t]
  OBVIOUS
<1>3. g \in Frame /\ h \in Frame /\ g.op = "publish" /\ h.op = "return" /\ g.node = t /\ h.node = t
  BY <1>1, <1>2 DEF Frame
<1> DEFINE ends == <<g, h>>
<1>4. /\ ends \in Seq(Frame) /\ Len(ends) = 2 /\ ends[1] = g /\ ends[2] = h
      /\ \A P : Number(ends, P) = One(g \in P) + One(h \in P)
  BY <1>3, Short, NumberTwo
<1>5. PICK links : links = Links(t)
  OBVIOUS
<1>6. n \in Nat /\ DOMAIN Inputs(t) = 1..n /\ Inputs(t) \in Seq(Output)
  BY InputsFew
<1>7. \A i \in 1..n : /\ links[i] \in Frame /\ links[i].op = "link" /\ links[i].node = t
  <2>1. SUFFICES ASSUME NEW i \in 1..n
                 PROVE  links[i] \in Frame /\ links[i].op = "link" /\ links[i].node = t
    OBVIOUS
  <2>2. PICK o \in Output : o = Inputs(t)[i]
    BY <1>6, Element
  <2>3. o.task \in Tasks /\ o.port \in Nat
    BY DEF Output
  <2>4. links[i] = [op |-> "link", node |-> t, from |-> o.task, port |-> o.port]
    BY <1>5, <2>2 DEF Links
  <2>5. links[i] \in Fit
    BY <2>3, <2>4, LinkKinds
  <2> QED
    BY <2>4, <2>5 DEF Fit
<1>8. links \in Seq(Frame) /\ Len(links) = n /\ DOMAIN links = 1..n
  <2>1. links = [i \in 1..n |-> links[i]]
    BY <1>5 DEF Links
  <2> HIDE DEF n
  <2> QED
    BY SMTT(30), <1>6, <1>7, <2>1
<1>9. fs = links \o ends
  BY <1>1, <1>2, <1>5 DEF Ends
<1> HIDE DEF ends, n
<1>10. fs \in Seq(Frame) /\ Len(fs) = n + 2 /\ DOMAIN fs = 1..(n + 2)
       /\ (\A i \in 1..n : fs[i] = links[i]) /\ fs[n + 1] = g /\ fs[n + 2] = h
  <2>1. fs \in Seq(Frame) /\ OnTopOf(fs, links, ends)
    BY <1>4, <1>8, <1>9, OnTop
  <2>2. DOMAIN ends = 1..2 /\ DOMAIN fs = 1..Len(fs)
    BY <1>4, <2>1
  <2>3. Len(fs) = n + 2 /\ \A i \in 1..n : fs[i] = links[i]
    BY <1>4, <1>8, <2>1 DEF OnTopOf
  <2>4. \A i \in 1..2 : fs[n + i] = ends[i]
    BY <1>8, <2>1, <2>2 DEF OnTopOf
  <2>5. 1 \in 1..2 /\ 2 \in 1..2
    OBVIOUS
  <2>6. fs[n + 1] = ends[1] /\ fs[n + 2] = ends[2]
    BY <2>4, <2>5, Zenon
  <2> QED
    BY <1>4, <2>1, <2>2, <2>3, <2>6
<1>11. ASSUME NEW i \in DOMAIN fs
       PROVE  /\ fs[i].op \in {"link", "publish", "return"} /\ fs[i].node = t
              /\ fs[i].op \in {"link", "late"} => [op |-> "publish", node |-> fs[i].node] \in After(fs, i)
  <2>1. i \in 1..n \/ i = n + 1 \/ i = n + 2
    BY <1>6, <1>10
  <2>2. CASE i \in 1..n
    <3>1. n + 1 \in (i + 1)..Len(fs)
      BY <1>6, <1>10, <2>2
    <3>2. g \in After(fs, i)
      BY <1>10, <3>1 DEF After
    <3> QED
      BY <1>1, <1>7, <1>10, <2>2, <3>2
  <2> QED
    BY <1>3, <1>10, <2>1, <2>2
<1>12. ASSUME NEW v
       PROVE  /\ Number(fs, Taking(v)) = 0 /\ Number(fs, Ending(v)) = 0
              /\ Number(fs, Linking(v)) = IF v = t THEN Len(Inputs(t)) ELSE 0
              /\ Number(fs, Holdback(v)) = One(v = t)
  <2>1. \A P : Number(fs, P) = Number(links, P) + (One(g \in P) + One(h \in P))
    BY <1>4, <1>8, <1>9, NumberCat
  <2>2. /\ g \notin Taking(v) /\ g \notin Ending(v) /\ g \notin Linking(v) /\ (g \in Holdback(v) <=> v = t)
        /\ h \notin Taking(v) /\ h \notin Ending(v) /\ h \notin Linking(v) /\ h \notin Holdback(v)
    BY <1>3, Sorts
  <2>3. \A i \in DOMAIN links : /\ links[i] \notin Taking(v) /\ links[i] \notin Ending(v)
                                /\ links[i] \notin Holdback(v) /\ (links[i] \in Linking(v) <=> v = t)
    BY <1>7, <1>8, Sorts
  <2>4. Number(links, Taking(v)) = 0 /\ Number(links, Ending(v)) = 0 /\ Number(links, Holdback(v)) = 0
    BY <1>8, <2>3, NumberNone
  <2>5. Number(links, Linking(v)) = IF v = t THEN n ELSE 0
    <3>1. CASE v = t
      BY <1>8, <2>3, <3>1, NumberAll
    <3>2. CASE v # t
      BY <1>8, <2>3, <3>2, NumberNone
    <3> QED
      BY <3>1, <3>2
  <2>6. Number(fs, Taking(v)) = 0
    BY <2>1, <2>2, <2>4 DEF One
  <2>7. Number(fs, Ending(v)) = 0
    BY <2>1, <2>2, <2>4 DEF One
  <2>8. Number(fs, Linking(v)) = IF v = t THEN n ELSE 0
    BY <1>6, <2>1, <2>2, <2>5 DEF One
  <2>10. n = Len(Inputs(t))
    BY DEF n
  <2>9. Number(fs, Holdback(v)) = One(v = t)
    BY <2>1, <2>2, <2>4 DEF One
  <2> QED
    BY <2>6, <2>7, <2>8, <2>9, <2>10
<1>13. \A v : /\ Number(fs, Taking(v)) = 0 /\ Number(fs, Ending(v)) = 0
              /\ Number(fs, Linking(v)) = IF v = t THEN Len(Inputs(t)) ELSE 0
              /\ Number(fs, Holdback(v)) = One(v = t)
  BY <1>12
<1>14. \A i \in DOMAIN fs :
         /\ fs[i].op \in {"link", "publish", "return"} /\ fs[i].node = t
         /\ fs[i].op \in {"link", "late"} => [op |-> "publish", node |-> fs[i].node] \in After(fs, i)
  BY <1>11
<1> QED
  BY <1>10, <1>13, <1>14 DEF Constructs

(* A task that is not launched yet counts for nothing. *)
LEMMA NotYet ==
  ASSUME Core, NEW t \in Tasks, body[t] = "idle"
  PROVE  /\ Owes(t) = 0 /\ Guards(t) = 0 /\ owed[t] = 0 /\ ~IsDone(t)
         /\ Count(todo, Linking(t)) = 0 /\ Count(todo, Ending(t)) = 0
<1>1. Counted(t) /\ ~Waiting(t) /\ ~Final(t)
  BY DEF Core, Waiting, Final
<1>2. todo \in Family(Threads, Frame) /\ IsFiniteSet(Threads)
  BY Families, Finite DEF Core
<1>3. \A x \in Threads : \A i \in DOMAIN todo[x] : todo[x][i] \notin Linking(t)
  BY <1>1, Found
<1>4. Count(todo, Linking(t)) = 0
  BY <1>2, <1>3, CountNone
<1> QED
  BY <1>1, <1>4, Numbers DEF Counted

LEMMA RunCore ==
  ASSUME Core, Inv', NEW t \in Tasks, Run(t), UNCHANGED prog
  PROVE  Core'
<1>1. PICK m : m = Maker(t)
  OBVIOUS
<1>2. PICK fs : fs = Links(t) \o Ends(t)
  OBVIOUS
<1>3. Inv /\ Placed /\ Resting /\ m \in Threads
  BY <1>1, ProgramTypes DEF Core, Inv, Types
<1>4. /\ body[t] = "idle" /\ body' = [body EXCEPT ![t] = "pending"] /\ UNCHANGED <<head, owed>>
      /\ word' = [word EXCEPT ![t] = [count |-> StartMask, bits |-> {}]]
      /\ IF Inner(t) THEN At(m, "functor") ELSE m = Launcher
  BY <1>1 DEF Run, Maker
<1>5. Upon(todo', todo, m, fs)
  <2>1. todo' = [todo EXCEPT ![m] = Links(t) \o Ends(t) \o todo[m]]
    BY <1>1, <1>3 DEF Run, Links, Ends
  <2> QED
    BY <1>2, <2>1 DEF Upon
<1>6. /\ fs \in Seq(Frame)
      /\ \A i \in DOMAIN fs :
           /\ fs[i].op \in {"link", "publish", "return"} /\ fs[i].node = t
           /\ fs[i].op \in {"link", "late"} => [op |-> "publish", node |-> fs[i].node] \in After(fs, i)
      /\ \A v : /\ Number(fs, Taking(v)) = 0 /\ Number(fs, Ending(v)) = 0
                /\ Number(fs, Linking(v)) = IF v = t THEN Len(Inputs(t)) ELSE 0
                /\ Number(fs, Holdback(v)) = One(v = t)
  <2>1. Constructs(t, fs)
    BY <1>2, <1>3, Construction
  <2> QED
    BY <2>1 DEF Constructs
<1>7. \A P : /\ Count(todo', P) \in Nat /\ Count(todo, P) \in Nat /\ Number(fs, P) \in Nat
             /\ Count(todo', P) = Count(todo, P) + Number(fs, P)
  BY <1>3, <1>5, <1>6, UponCount
<1>8. /\ body'[t] = "pending" /\ word'[t].count = StartMask
      /\ \A u \in Tasks : u # t => body'[u] = body[u] /\ word'[u] = word[u]
  BY <1>3, <1>4 DEF Inv, Types
<1>9. ASSUME NEW v \in Tasks
      PROVE  /\ Count(todo', Taking(v)) = Count(todo, Taking(v))
             /\ Count(todo', Ending(v)) = Count(todo, Ending(v))
             /\ Count(todo', Holdback(v)) = Count(todo, Holdback(v)) + One(v = t)
             /\ Count(todo', Linking(v)) = Count(todo, Linking(v)) + (IF v = t THEN Len(Inputs(t)) ELSE 0)
             /\ Inputs(v)' = Inputs(v) /\ (IsDone(v)' <=> IsDone(v))
             /\ Count(Lists', Flows(v)) = Count(Lists, Flows(v))
             /\ Owes(v)' = Owes(v) /\ Guards(v)' = Guards(v) + One(v = t)
  <2>1. Count(todo', Taking(v)) = Count(todo, Taking(v))
    BY <1>6, <1>7
  <2>2. Count(todo', Ending(v)) = Count(todo, Ending(v))
    BY <1>6, <1>7
  <2>3. Count(todo', Holdback(v)) = Count(todo, Holdback(v)) + One(v = t)
    BY <1>6, <1>7
  <2>4. Count(todo', Linking(v)) = Count(todo, Linking(v)) + (IF v = t THEN Len(Inputs(t)) ELSE 0)
    BY <1>6, <1>7
  <2>5. Inputs(v)' = Inputs(v) /\ (IsDone(v)' <=> IsDone(v))
    BY <1>4 DEF Inputs, IsDone
  <2>6. Lists' = Lists
    BY <1>4 DEF Lists
  <2> QED
    BY <2>1, <2>2, <2>3, <2>4, <2>5, <2>6 DEF Owes, Guards
<1>10. ASSUME NEW v \in Tasks
       PROVE  Counted(v)'
  <2>1. CASE v = t
    <3>1. /\ Owes(t) = 0 /\ Guards(t) = 0 /\ owed[t] = 0 /\ ~IsDone(t)
          /\ Count(todo, Linking(t)) = 0 /\ Count(todo, Ending(t)) = 0
      BY <1>4, NotYet
    <3>2. Owes(t)' = 0 /\ Guards(t)' = 1 /\ owed'[t] = 0 /\ ~IsDone(t)' /\ Inputs(t)' = Inputs(t)
          /\ Count(todo', Linking(t)) = Len(Inputs(t)) /\ Count(todo', Ending(t)) = 0
      BY <1>4, <1>9, <2>1, <3>1, Numbers DEF One
    <3>3. Waiting(t)' /\ ~Final(t)'
      BY <1>8 DEF Waiting, Final
    <3>4. StartMask \in Int /\ Len(Inputs(t)) \in Nat
      BY Numbers
    <3> QED
      BY <1>8, <2>1, <3>2, <3>3, <3>4 DEF Counted
  <2>2. CASE v # t
    <3>1. /\ Count(todo', Taking(v)) = Count(todo, Taking(v))
          /\ Count(todo', Ending(v)) = Count(todo, Ending(v))
          /\ Count(todo', Holdback(v)) = Count(todo, Holdback(v))
          /\ Count(todo', Linking(v)) = Count(todo, Linking(v))
      BY SMTT(30), <1>9, <2>2, Numbers DEF One
    <3> QED
      BY <1>4, <1>8, <1>9, <2>2, <3>1, CountedKept DEF Core
  <2> QED
    BY <2>1, <2>2
<1>11. Placed'
  <2>1. ASSUME NEW f \in Frame, Fits(f)
        PROVE  Fits(f)'
    <3>1. f.op \in {"start", "functor", "attach", "look", "exchange", "pre"} => f.node \in Tasks
      BY Says DEF Simple
    <3>2. f.op \in {"start", "functor", "attach", "look", "exchange"} => f.node # t
      BY <1>4, <2>1 DEF Fits, Waiting
    <3>3. f.op \in {"start", "functor", "attach", "look", "exchange"} =>
            body'[f.node] = body[f.node] /\ word'[f.node] = word[f.node]
      BY <1>8, <3>1, <3>2
    <3> QED
      BY <1>4, <2>1, <3>3 DEF Fits, Waiting
  <2>2. \A f \in Frame : In(fs, f) => Fits(f)'
    BY <1>6 DEF In, Fits
  <2>3. \A f \in Frame : Fits(f) \/ In(fs, f) => Fits(f)'
    BY <2>1, <2>2
  <2>4. \A i \in DOMAIN fs : fs[i].op \notin Bottom
    BY <1>6 DEF Bottom
  <2> QED
    BY <1>3, <1>5, <1>6, <2>3, <2>4, PlacedUpon
<1>12. Resting'
  <2>1. \A v \in Tasks : v # m => todo'[v] = todo[v]
    BY <1>3, <1>5, Apart DEF Upon, Inv, Frames
  <2>2. ASSUME NEW v \in Tasks, v = m
        PROVE  body'[v] \notin {"idle", "pending", "forwarding"}
    <3>1. At(v, "functor")
      BY <1>4, <2>2, Apart
    <3>2. body[v] \in {"running", "attached"}
      BY <3>1, Own DEF Bottom
    <3> QED
      BY <1>4, <1>8, <3>2
  <2>3. \A v \in Tasks : v # t => body'[v] = body[v]
    BY <1>8
  <2> QED
    BY <1>3, <1>4, <1>8, <2>1, <2>2, <2>3 DEF Resting
<1> QED
  BY <1>10, <1>11, <1>12 DEF Core

(***************************************************************************)
(* The invariant                                                           *)
(***************************************************************************)
LEMMA InitCore ==
  ASSUME Init
  PROVE  Core
<1>1. Inv
  BY InitInv
<1>2. /\ \A x \in Threads : todo[x] = <<>>
      /\ \A t \in Tasks : /\ head[t].arcs = <<>> /\ head[t].tag = "open" /\ body[t] = "idle" /\ owed[t] = 0
  BY DEF Init, Open
<1>3. \A P : Count(todo, P) = 0 /\ Count(Lists, P) = 0
  <2>1. todo \in Family(Threads, Frame) /\ Lists \in Family(Tasks, Arc)
        /\ IsFiniteSet(Threads) /\ IsFiniteSet(Tasks)
    BY <1>1, Families, Finite
  <2>2. \A P : \A x \in Threads : \A i \in DOMAIN todo[x] : todo[x][i] \notin P
    BY <1>2
  <2>3. \A P : \A t \in Tasks : \A i \in DOMAIN Lists[t] : Lists[t][i] \notin P
    BY <1>2 DEF Lists
  <2> QED
    BY <2>1, <2>2, <2>3, CountNone
<1>4. \A t \in Tasks : Counted(t)
  <2>1. \A t \in Tasks : ~Waiting(t) /\ ~Final(t) /\ ~IsDone(t)
    BY <1>2 DEF Waiting, Final, IsDone
  <2>2. \A t \in Tasks : Owes(t) = 0 /\ Guards(t) = 0
    BY <1>3 DEF Owes, Guards
  <2>3. \A t \in Tasks : Len(Inputs(t)) \in Nat
    BY <1>1, InputsFew
  <2> QED
    BY <1>2, <1>3, <2>1, <2>2, <2>3 DEF Counted
<1>5. Placed /\ Resting
  BY <1>2, Apart DEF Placed, Resting
<1> QED
  BY <1>1, <1>4, <1>5 DEF Core

LEMMA StepCore ==
  ASSUME Core, Inv', NEW x \in Threads, Step(x), UNCHANGED prog
  PROVE  Core'
BY MarkFailureCore, SetBitCore, PublishFailureCore, AddSignalCore, PopCore, LinkCore, LateCore,
   PublishCore, PreCore, ExchangeCore, NotifyCore, WaitCore DEF Step

LEMMA CoreStays ==
  ASSUME Core, UNCHANGED vars
  PROVE  Core'
<1>1. Inv'
  BY NextInv DEF Core
<1>2. Placed'
  BY DEF Core, Placed, Fits, Lies, Waiting, vars
<1>3. Resting'
  BY DEF Core, Resting, vars
<1>4. \A t \in Tasks : Counted(t)'
  BY CountedKept DEF Core, Lists, IsDone, vars
<1> QED
  BY <1>1, <1>2, <1>3, <1>4 DEF Core

LEMMA CoreNext ==
  ASSUME Core, [Next]_vars
  PROVE  Core'
<1>1. Inv'
  BY NextInv DEF Core
<1>2. ASSUME NEW t \in Tasks, Execute(t), UNCHANGED prog
      PROVE  Core'
  BY <1>1, <1>2, StartCore, ReturnValueCore, ThrowCore, RunCore, EmplaceCore, AttachCore, LookCore,
     ResumeCore DEF Execute
<1>3. ASSUME NEW t \in Tasks, Run(t), UNCHANGED prog
      PROVE  Core'
  BY <1>1, <1>3, RunCore
<1>4. ASSUME NEW x \in Users, Call(x), UNCHANGED prog
      PROVE  Core'
  BY <1>1, <1>4, CancelCore, WaitForCore DEF Call
<1>5. ASSUME NEW x \in Threads, Step(x), UNCHANGED prog
      PROVE  Core'
  BY <1>1, <1>5, StepCore
<1> QED
  BY <1>2, <1>3, <1>4, <1>5, CoreStays DEF Next, Rest

(* In any program, at any time, a task that waits has in start_count what its arcs on open
   lists, the notifications of it under way and the protection of its construction will
   take off, so that it is started or completed by the last of them, once and not before. *)
THEOREM CountExact == Spec => []Core
  BY InitCore, CoreNext, PTL DEF Spec

-----------------------------------------------------------------------------
(***************************************************************************)
(* The reference counts of the exceptions are exact, for every program:    *)
(* what publish_failure_from and the terminal arc retain is what the       *)
(* destructors of the signals release.                                     *)
(***************************************************************************)

Held(c) == Count(Lists, {Signal(c)}) + Count(todo, Holding(c))

Refs ==
  /\ refs \in [Tasks -> Nat]
  /\ \A c \in Tasks : refs[c] = Held(c)
  /\ \A c \in Tasks : body[c] # "threw" => refs[c] = 0

(***************************************************************************)
(* Frames and lists                                                        *)
(***************************************************************************)
LEMMA Holds ==
  ASSUME NEW f \in Frame, NEW c \in Tasks
  PROVE  f \in Holding(c) <=> f.op \in {"signal", "drop"} /\ f.control = c
<1>1. CASE f.op = "signal"
  <2>1. f \in [op : {"signal"}, node : Tasks, control : Tasks]
    BY <1>1 DEF Frame
  <2>2. f = [op |-> "signal", node |-> f.node, control |-> f.control] /\ f.node \in Tasks
    BY <2>1
  <2> QED
    BY <1>1, <2>2 DEF Holding, Carry
<1>2. CASE f.op = "drop"
  <2>1. f \in [op : {"drop"}, control : Tasks]
    BY <1>2 DEF Frame
  <2>2. f = [op |-> "drop", control |-> f.control]
    BY <2>1
  <2> QED
    BY <1>2, <2>2 DEF Holding, Carry
<1>3. CASE f.op \notin {"signal", "drop"}
  BY <1>3 DEF Holding, Carry
<1> QED
  BY <1>1, <1>2, <1>3

(* Frames without an exception, and those of which each is one of a set. *)
LEMMA HoldsNone ==
  ASSUME NEW fs \in Seq(Frame), \A i \in DOMAIN fs : fs[i].op \notin {"signal", "drop"},
         NEW c \in Tasks
  PROVE  Number(fs, Holding(c)) = 0
<1>1. \A i \in DOMAIN fs : fs[i] \in Frame
  BY Element
<1>2. \A i \in DOMAIN fs : fs[i] \notin Holding(c)
  BY <1>1, Holds
<1> QED
  BY <1>2, NumberNone

LEMMA Made ==
  ASSUME Inv, Inv', NEW x \in Threads, todo[x] # <<>>, NEW S, NEW fs \in Seq(S), Then(x, fs)
  PROVE  fs \in Seq(Frame)
<1>1. todo'[x] = fs \o Tail(todo[x])
  BY DEF Then, Inv, Frames
<1>2. PICK r \in Seq(Frame) : r = todo'[x]
  <2>1. todo'[x] \in Seq(Fit')
    BY DEF Inv, Frames
  <2>2. Fit' \subseteq Frame
    BY DEF Fit
  <2>3. todo'[x] \in Seq(Frame)
    BY <2>1, <2>2
  <2> QED
    BY <2>3
<1>3. PICK s \in Seq(Frame) : s = Tail(todo[x])
  <2>1. todo[x] \in Seq(Frame)
    BY Families
  <2> QED
    BY <2>1, GoOn, Behind
<1>4. \A i \in DOMAIN fs : i \in DOMAIN r /\ r[i] = fs[i]
  BY SMTT(30), <1>1, <1>2, <1>3
<1>5. \A i \in DOMAIN fs : fs[i] \in Frame
  BY <1>2, <1>4, Element
<1>6. DOMAIN fs = 1..Len(fs) /\ Len(fs) \in Nat /\ fs = [i \in 1..Len(fs) |-> fs[i]]
  OBVIOUS
<1> QED
  BY SMTT(30), <1>5, <1>6

LEMMA HeldType ==
  ASSUME Inv, NEW c \in Tasks
  PROVE  /\ Count(Lists, {Signal(c)}) \in Nat /\ Count(todo, Holding(c)) \in Nat
         /\ Held(c) \in Nat
  BY Families, Finite, CountType DEF Held

(* n is what each reference count comes to when x goes on with fs and the lists become l. *)
Balanced(x, fs, n, l) ==
  \A c \in Tasks : /\ Count(l, {Signal(c)}) \in Nat
                   /\ n[c] = refs[c] + Count(l, {Signal(c)}) - Count(Lists, {Signal(c)})
                                + Number(fs, Holding(c)) - One(Cur(x) \in Holding(c))
                   /\ body'[c] # "threw" => n[c] = 0

(***************************************************************************)
(* Steps                                                                   *)
(***************************************************************************)
LEMMA RefsThen ==
  ASSUME Core, Refs, NEW x \in Threads, todo[x] # <<>>, NEW fs \in Seq(Frame), Then(x, fs),
         NEW n, refs' = n, n \in [Tasks -> Int], NEW l, Lists' = l, Balanced(x, fs, n, l)
  PROVE  Refs'
<1>1. ASSUME NEW c \in Tasks
      PROVE  n[c] = Held(c)' /\ n[c] \in Nat
  <2>1. /\ Count(todo', Holding(c)) \in Nat /\ Count(todo, Holding(c)) \in Nat
        /\ Number(fs, Holding(c)) \in Nat
        /\ Count(todo', Holding(c)) = Count(todo, Holding(c)) - One(Cur(x) \in Holding(c))
                                        + Number(fs, Holding(c))
    BY ThenCount DEF Core
  <2>2. Count(Lists, {Signal(c)}) \in Nat
    BY HeldType DEF Core
  <2>3. Held(c)' = Count(l, {Signal(c)}) + Count(todo', Holding(c))
    BY DEF Held, Holding, Carry, Signal
  <2>4. refs[c] = Count(Lists, {Signal(c)}) + Count(todo, Holding(c))
    BY DEF Refs, Held
  <2>5. One(Cur(x) \in Holding(c)) \in Nat
    BY DEF One
  <2>6. /\ Count(l, {Signal(c)}) \in Nat
        /\ n[c] = refs[c] + Count(l, {Signal(c)}) - Count(Lists, {Signal(c)})
                     + Number(fs, Holding(c)) - One(Cur(x) \in Holding(c))
    BY DEF Balanced
  <2>7. n[c] = Held(c)'
    BY <2>1, <2>2, <2>3, <2>4, <2>5, <2>6
  <2>8. Held(c)' \in Nat
    BY <2>1, <2>3, <2>6
  <2> QED
    BY <2>7, <2>8
<1>2. n \in [Tasks -> Nat]
  BY <1>1
<1>3. \A c \in Tasks : body'[c] # "threw" => n[c] = 0
  BY DEF Balanced
<1> QED
  BY <1>1, <1>2, <1>3 DEF Refs

(* A step that neither holds exceptions nor lets them go. *)
LEMMA RefsQuiet ==
  ASSUME Core, Inv', Refs, NEW x \in Threads, todo[x] # <<>>, Cur(x).op \notin {"signal", "drop"},
         NEW S, NEW fs \in Seq(S), \A f \in S : f.op \notin {"signal", "drop"}, Then(x, fs),
         UNCHANGED refs, \A c \in Tasks : Count(Lists', {Signal(c)}) = Count(Lists, {Signal(c)}),
         \A c \in Tasks : body[c] = "threw" => body'[c] = "threw"
  PROVE  Refs'
<1>1. fs \in Seq(Frame) /\ \A i \in DOMAIN fs : fs[i].op \notin {"signal", "drop"}
  BY Made, Element DEF Core
<1>2. Cur(x) \in Frame
  BY CurFit DEF Core, Inv
<1>3. PICK n : n = refs
  OBVIOUS
<1>4. PICK l : l = Lists'
  OBVIOUS
<1>5. ASSUME NEW c \in Tasks
      PROVE  /\ Count(l, {Signal(c)}) \in Nat
             /\ n[c] = refs[c] + Count(l, {Signal(c)}) - Count(Lists, {Signal(c)})
                         + Number(fs, Holding(c)) - One(Cur(x) \in Holding(c))
             /\ body'[c] # "threw" => n[c] = 0
  <2>1. Number(fs, Holding(c)) = 0 /\ One(Cur(x) \in Holding(c)) = 0
    BY <1>1, <1>2, Holds, HoldsNone DEF One
  <2>2. Count(Lists, {Signal(c)}) \in Nat /\ Count(l, {Signal(c)}) = Count(Lists, {Signal(c)})
    BY <1>4, HeldType DEF Core
  <2>3. refs[c] \in Nat
    BY DEF Refs
  <2> QED
    BY <1>3, <2>1, <2>2, <2>3 DEF Refs
<1>6. n \in [Tasks -> Int] /\ refs' = n
  BY <1>3 DEF Refs
<1>20. Balanced(x, fs, n, l)
  BY <1>5 DEF Balanced
<1> QED
  BY <1>1, <1>4, <1>6, <1>20, RefsThen

(* The lists after a push. *)
LEMMA PushSignals ==
  ASSUME Inv, NEW u \in Tasks, NEW t \in Tasks, NEW p \in Nat, Push(u, Flow(t, p))
  PROVE  \A c \in Tasks : Count(Lists', {Signal(c)}) = Count(Lists, {Signal(c)})
<1>1. Flow(t, p) \in Arc /\ \A c : Flow(t, p) \notin {Signal(c)}
  BY DEF Arc, Flow, Signal
<1>2. \A P : Flow(t, p) \notin P => Count(Lists', P) = Count(Lists, P)
  BY <1>1, PushCount DEF One
<1> QED
  BY <1>1, <1>2

LEMMA HeadSignals ==
  ASSUME UNCHANGED head
  PROVE  \A c \in Tasks : Count(Lists', {Signal(c)}) = Count(Lists, {Signal(c)})
<1>1. Lists' = Lists
  BY DEF Lists
<1> QED
  BY <1>1

(* A thread that goes on with nothing, one frame or two, or a few more. *)
LEMMA Few ==
  ASSUME NEW g, NEW h, g.op \notin {"signal", "drop"}, h.op \notin {"signal", "drop"}
  PROVE  /\ \A f \in {g, h} : f.op \notin {"signal", "drop"}
         /\ <<>> \in Seq({g, h}) /\ <<g>> \in Seq({g, h}) /\ <<g, h>> \in Seq({g, h})
  BY Short

LEMMA QuietFew ==
  ASSUME Core, Inv', Refs, NEW x \in Threads, NEW o, o \notin {"signal", "drop"}, At(x, o),
         NEW g, NEW h, g.op \notin {"signal", "drop"}, h.op \notin {"signal", "drop"},
         NEW fs \in {<<>>, <<g>>, <<g, h>>}, Then(x, fs), UNCHANGED <<refs, body>>,
         \A c \in Tasks : Count(Lists', {Signal(c)}) = Count(Lists, {Signal(c)})
  PROVE  Refs'
<1>1. todo[x] # <<>> /\ Cur(x).op \notin {"signal", "drop"}
  BY First
<1>2. fs \in Seq({g, h}) /\ \A f \in {g, h} : f.op \notin {"signal", "drop"}
  BY Few
<1> QED
  BY <1>1, <1>2, RefsQuiet

LEMMA QuietTwo ==
  ASSUME Core, Inv', Refs, NEW x \in Threads, NEW o, o \notin {"signal", "drop"}, At(x, o),
         NEW g, NEW h, g.op \notin {"signal", "drop"}, h.op \notin {"signal", "drop"},
         NEW fs \in Seq({g, h}), Then(x, fs), UNCHANGED <<refs, body, head>>
  PROVE  Refs'
<1>1. todo[x] # <<>> /\ Cur(x).op \notin {"signal", "drop"}
  BY First
<1>2. \A f \in {g, h} : f.op \notin {"signal", "drop"}
  OBVIOUS
<1>3. \A c \in Tasks : Count(Lists', {Signal(c)}) = Count(Lists, {Signal(c)})
  BY HeadSignals
<1> QED
  BY <1>1, <1>2, <1>3, RefsQuiet

LEMMA QuietHead ==
  ASSUME Core, Inv', Refs, NEW x \in Threads, NEW o, o \notin {"signal", "drop"}, At(x, o),
         NEW g, NEW h, g.op \notin {"signal", "drop"}, h.op \notin {"signal", "drop"},
         NEW fs \in {<<>>, <<g>>, <<g, h>>}, Then(x, fs), UNCHANGED <<refs, body, head>>
  PROVE  Refs'
  BY HeadSignals, QuietFew

LEMMA StepsRefs ==
  ASSUME Core, Inv', Refs, NEW x \in Threads,
         \/ MarkFailure(x) \/ SetBit(x) \/ Late(x) \/ Publish(x) \/ Return(x) \/ NotifyArc(x)
         \/ Wakeup(x) \/ Wait(x) \/ Block(x) \/ Status(x)
  PROVE  Refs'
<1>1. CASE MarkFailure(x)
  <2>1. PICK g : g = [op |-> "set", node |-> Cur(x).node, bit |-> Cur(x).bit, word |-> word[Cur(x).node]]
    OBVIOUS
  <2>2. PICK fs \in {<<>>, <<g>>, <<g, g>>} : Then(x, fs)
    BY <1>1, <2>1 DEF MarkFailure
  <2>3. g.op \notin {"signal", "drop"}
    BY <2>1
  <2> QED
    BY <1>1, <2>2, <2>3, QuietHead DEF MarkFailure
<1>2. CASE SetBit(x)
  <2>1. PICK g : g = Mark(Cur(x).node, Cur(x).bit)
    OBVIOUS
  <2>2. PICK fs \in {<<>>, <<g>>, <<g, g>>} : Then(x, fs)
    BY <1>2, <2>1 DEF SetBit, Retry
  <2>3. g.op \notin {"signal", "drop"}
    BY <2>1 DEF Mark
  <2> QED
    BY <1>2, <2>2, <2>3, QuietHead DEF SetBit
<1>3. CASE Late(x)
  <2>1. PICK f \in Frame : f = Cur(x)
    BY <1>3, First DEF Late
  <2>2. PICK g : g = [f EXCEPT !.op = "failure"]
    OBVIOUS
  <2>3. PICK fs \in {<<>>, <<g>>, <<g, g>>} : Then(x, fs)
    BY <1>3, <2>1, <2>2 DEF Late, LateFailure
  <2>4. g.op = "failure"
    BY <2>2 DEF Frame
  <2> QED
    BY <1>3, <2>3, <2>4, QuietHead DEF Late
<1>4. CASE Publish(x)
  <2>1. PICK g : g = [op |-> "pre", node |-> Cur(x).node, k |-> Protection(Cur(x).node)]
    OBVIOUS
  <2>2. PICK fs \in {<<>>, <<g>>, <<g, g>>} : Then(x, fs)
    BY <1>4, <2>1 DEF Publish
  <2>3. g.op \notin {"signal", "drop"}
    BY <2>1
  <2> QED
    BY <1>4, <2>2, <2>3, QuietHead DEF Publish
<1>5. CASE NotifyArc(x)
  <2>1. PICK f \in Frame : f = Cur(x) /\ f.op = "notify"
    BY <1>5, First DEF NotifyArc
  <2>2. PICK g : g = [op |-> "pre", node |-> f.node, k |-> 1]
    OBVIOUS
  <2>3. PICK h : h = [f EXCEPT !.op = "failure"]
    OBVIOUS
  <2>4. g.op \notin {"signal", "drop"} /\ h.op \notin {"signal", "drop"}
    BY <2>1, <2>2, <2>3 DEF Frame
  <2>5. /\ At(x, "notify") /\ UNCHANGED <<refs, body, head>>
        /\ Then(x, (IF f.failed THEN <<h>> ELSE <<>>) \o <<g>>)
    BY <1>5, <2>1, <2>2, <2>3 DEF NotifyArc, NotifyFirst
  <2>6. <<>> \in Seq({g, h}) /\ <<h>> \in Seq({g, h}) /\ <<g>> \in Seq({g, h})
    BY Short
  <2>7. PICK fs \in Seq({g, h}) : fs = (IF f.failed THEN <<h>> ELSE <<>>) \o <<g>>
    BY <2>6, Short
  <2>8. Then(x, fs)
    BY <2>5, <2>7
  <2> QED
    BY <2>4, <2>5, <2>8, QuietTwo
<1>6. CASE Wait(x)
  <2>1. PICK g : g = [op |-> "block", node |-> Cur(x).node]
    OBVIOUS
  <2>2. PICK fs \in {<<>>, <<g>>, <<g, g>>} : Then(x, fs)
    BY <1>6, <2>1 DEF Wait
  <2>3. g.op \notin {"signal", "drop"}
    BY <2>1
  <2> QED
    BY <1>6, <2>2, <2>3, QuietHead DEF Wait
<1>7. ASSUME NEW o \in {"return", "wakeup", "block", "status"}, At(x, o), Then(x, <<>>),
             UNCHANGED <<refs, body, head>>
      PROVE  Refs'
  <2>1. PICK g : g = Mark(x, "user")
    OBVIOUS
  <2>2. PICK fs \in {<<>>, <<g>>, <<g, g>>} : Then(x, fs)
    BY <1>7
  <2>3. g.op \notin {"signal", "drop"}
    BY <2>1 DEF Mark
  <2> QED
    BY <1>7, <2>2, <2>3, QuietHead
<1> QED
  BY <1>1, <1>2, <1>3, <1>4, <1>5, <1>6, <1>7 DEF Return, Wakeup, Block, Status

LEMMA LinkRefs ==
  ASSUME Core, Inv', Refs, NEW x \in Threads, Link(x)
  PROVE  Refs'
<1>1. PICK f \in Frame : f = Cur(x) /\ f.op = "link"
  BY First DEF Link
<1>2. PICK t \in Tasks, u \in Tasks, p \in Nat : f.node = t /\ f.from = u /\ f.port = p
  BY <1>1, Says
<1>3. PICK g : g = [f EXCEPT !.op = "late"]
  OBVIOUS
<1>4. g.op = "late"
  BY <1>3 DEF Frame
<1>5. CASE IsDone(u)
  <2>1. Then(x, <<g>>) /\ At(x, "link") /\ UNCHANGED <<refs, body, head>>
    BY <1>1, <1>2, <1>3, <1>5 DEF Link
  <2>2. PICK fs \in {<<>>, <<g>>, <<g, g>>} : Then(x, fs)
    BY <2>1
  <2>3. g.op \notin {"signal", "drop"}
    BY <1>4
  <2> QED
    BY <2>1, <2>2, <2>3, QuietHead
<1>6. CASE ~IsDone(u)
  <2>1. Push(u, Flow(t, p)) /\ Then(x, <<>>) /\ At(x, "link") /\ UNCHANGED <<refs, body>>
    BY <1>1, <1>2, <1>6 DEF Link
  <2>2. \A c \in Tasks : Count(Lists', {Signal(c)}) = Count(Lists, {Signal(c)})
    BY <2>1, PushSignals DEF Core
  <2> QED
    BY <1>4, <2>1, <2>2, QuietFew
<1> QED
  BY <1>5, <1>6

(* An exception on a list has been thrown. *)
LEMMA OnList ==
  ASSUME Core, Refs, NEW u \in Tasks, NEW c \in LocalControl(u)
  PROVE  c \in Tasks /\ refs[c] >= 1 /\ body[c] = "threw"
<1>1. PICK s \in Seq(Arc) : s = head[u].arcs
  BY ControlType DEF Core, Inv
<1>2. PICK i \in DOMAIN s : s[i].kind = "signal" /\ s[i].node = c
  BY <1>1 DEF LocalControl
<1>3. c \in Tasks /\ s[i] \in {Signal(c)}
  <2>1. s[i] \in Arc
    BY Element
  <2> QED
    BY <1>2, <2>1, ArcKinds
<1>4. Lists \in Family(Tasks, Arc) /\ IsFiniteSet(Tasks) /\ Lists[u] = s
  BY <1>1, Families, Finite DEF Core
<1>5. \A P : Lists[u][i] \in P => Count(Lists, P) >= 1
  BY <1>2, <1>4, CountNone
<1>6. Count(Lists, {Signal(c)}) >= 1
  BY <1>3, <1>4, <1>5
<1>7. Count(Lists, {Signal(c)}) \in Nat /\ Count(todo, Holding(c)) \in Nat /\ refs[c] = Held(c)
  BY <1>3, HeldType DEF Core, Refs
<1>8. refs[c] >= 1
  BY <1>6, <1>7 DEF Held
<1> QED
  BY <1>3, <1>8 DEF Refs

LEMMA OneControl ==
  ASSUME Core, Refs, NEW u \in Tasks, LocalControl(u) # {}
  PROVE  /\ TheControl(u) \in LocalControl(u) /\ TheControl(u) \in Tasks
         /\ body[TheControl(u)] = "threw"
<1>1. TheControl(u) \in LocalControl(u)
  BY DEF TheControl
<1> QED
  BY <1>1, OnList

(* publish_failure_from retains what it carries. *)
LEMMA PublishFailureRefs ==
  ASSUME Core, Inv', Refs, NEW x \in Threads, PublishFailureFrom(x)
  PROVE  Refs'
<1>1. PICK f \in Frame : f = Cur(x) /\ f.op = "failure"
  BY First DEF PublishFailureFrom
<1>2. PICK t \in Tasks, u \in Tasks, p \in Nat : f.node = t /\ f.from = u /\ f.port = p
  BY <1>1, Says
<1>3. PICK r : r = From(t, u, p)
  OBVIOUS
<1>4. PICK n : n = refs'
  OBVIOUS
<1>5. /\ todo[x] # <<>> /\ Then(x, r) /\ UNCHANGED <<head, body>>
      /\ n = [c \in Tasks |-> IF Carry(t, c) \in {r[i] : i \in DOMAIN r} THEN refs[c] + 1 ELSE refs[c]]
  BY ZenonT(60), <1>1, <1>2, <1>3, <1>4, First DEF PublishFailureFrom
<1>6. \/ \E b \in Bits : r = <<Mark(t, b)>>
      \/ \E b \in Bits : \E c \in Tasks : r = <<Carry(t, c), Mark(t, b)>> /\ body[c] = "threw"
  BY <1>3, OneControl DEF From, Bits
<1>7. \A b \in Bits, c \in Tasks : /\ Mark(t, b) \in Frame /\ Carry(t, c) \in Frame
                                   /\ Mark(t, b).op = "mark" /\ Carry(t, c).op = "signal" /\ Carry(t, c).control = c
  BY DEF Mark, Carry, Frame
<1>8. PICK l : l = Lists' /\ l = Lists
  BY <1>5 DEF Lists
<1>9. One(Cur(x) \in Holding(0)) \in Nat /\ \A c \in Tasks : One(Cur(x) \in Holding(c)) = 0
  BY <1>1, Holds DEF One
<1>10. CASE \E b \in Bits : r = <<Mark(t, b)>>
  <2>1. PICK b \in Bits : r = <<Mark(t, b)>>
    BY <1>10
  <2>2. PICK g \in Frame : g = Mark(t, b) /\ g.op = "mark"
    BY <1>7
  <2>3. PICK fs \in {<<>>, <<g>>, <<g, g>>} : fs = r
    BY <2>1, <2>2
  <2>4. \A c \in Tasks : Carry(t, c) \notin {r[i] : i \in DOMAIN r}
    <3>1. \A i \in DOMAIN r : r[i] = g
      BY <2>1, <2>2
    <3> QED
      BY <1>7, <2>2, <3>1
  <2>5. refs' = refs
    BY <1>4, <1>5, <2>4 DEF Refs
  <2>6. At(x, "failure") /\ Then(x, fs) /\ g.op \notin {"signal", "drop"}
    BY <1>5, <2>2, <2>3 DEF PublishFailureFrom
  <2> QED
    BY <1>5, <2>5, <2>6, QuietHead
<1>11. ASSUME NEW b \in Bits, NEW d \in Tasks, r = <<Carry(t, d), Mark(t, b)>>, body[d] = "threw"
       PROVE  Refs'
  <2>1. PICK g \in Frame : g = Carry(t, d) /\ g.op = "signal" /\ g.control = d
    BY <1>7
  <2>2. PICK h \in Frame : h = Mark(t, b) /\ h.op = "mark"
    BY <1>7
  <2>3. r = <<g, h>>
    BY <1>11, <2>1, <2>2
  <2>4. r \in Seq(Frame) /\ \A i \in DOMAIN r : r[i] = g \/ r[i] = h
    BY <2>3, Short
  <2>5. \A c \in Tasks : Carry(t, c) \in {r[i] : i \in DOMAIN r} <=> c = d
    <3>1. 1 \in DOMAIN r /\ r[1] = g
      BY <2>3
    <3> QED
      BY <1>7, <2>1, <2>2, <2>4, <3>1
  <2>6. \A c \in Tasks : n[c] = refs[c] + One(c = d)
    <3>1. \A c \in Tasks : refs[c] \in Nat
      BY DEF Refs
    <3> QED
      BY <1>5, <2>5, <3>1 DEF One
  <2>7. \A c \in Tasks : Number(r, Holding(c)) = One(c = d)
    <3>1. SUFFICES ASSUME NEW c \in Tasks
                   PROVE  Number(r, Holding(c)) = One(c = d)
      OBVIOUS
    <3>2. Number(r, Holding(c)) = One(g \in Holding(c)) + One(h \in Holding(c))
      BY <2>3, NumberTwo
    <3>3. (g \in Holding(c) <=> c = d) /\ h \notin Holding(c)
      BY <2>1, <2>2, Holds
    <3> QED
      BY <3>2, <3>3 DEF One
  <2>9. ASSUME NEW c \in Tasks
        PROVE  /\ Count(l, {Signal(c)}) \in Nat
               /\ n[c] = refs[c] + Count(l, {Signal(c)}) - Count(Lists, {Signal(c)})
                           + Number(r, Holding(c)) - One(Cur(x) \in Holding(c))
               /\ body'[c] # "threw" => n[c] = 0
    <3>1. Count(Lists, {Signal(c)}) \in Nat /\ refs[c] \in Nat /\ One(c = d) \in Nat
      BY HeldType DEF Core, Refs, One
    <3>2. n[c] = refs[c] + One(c = d) /\ Number(r, Holding(c)) = One(c = d) /\ One(Cur(x) \in Holding(c)) = 0
      BY <1>9, <2>6, <2>7
    <3>3. body'[c] # "threw" => n[c] = 0
      BY <1>5, <1>11, <3>2 DEF Refs, One
    <3> QED
      BY <1>8, <3>1, <3>2, <3>3
  <2>10. n \in [Tasks -> Int]
    <3>1. \A c \in Tasks : n[c] \in Int
      BY <2>6 DEF Refs, One
    <3> QED
      BY <1>5, <3>1
  <2>11. Then(x, r) /\ todo[x] # <<>> /\ refs' = n /\ Lists' = l
    BY <1>4, <1>5, <1>8
  <2>12. Balanced(x, r, n, l)
    BY <2>9 DEF Balanced
  <2> QED
    BY <2>4, <2>10, <2>11, <2>12, RefsThen
<1> QED
  BY <1>6, <1>10, <1>11

LEMMA AddSignalRefs ==
  ASSUME Core, Inv', Refs, NEW x \in Threads, AddSignal(x)
  PROVE  Refs'
<1>1. PICK f \in Frame : f = Cur(x) /\ f.op = "signal"
  BY First DEF AddSignal
<1>2. PICK t \in Tasks, d \in Tasks : f.node = t /\ f.control = d
  BY <1>1, Says
<1>3. todo[x] # <<>> /\ UNCHANGED <<refs, body>>
  BY First DEF AddSignal
<1>4. PICK g \in Frame : g = [op |-> "drop", control |-> d]
  <2>1. [op |-> "drop", control |-> d] \in Frame
    BY DEF Frame
  <2> QED
    BY <2>1
<1>5. PICK l : l = Lists'
  OBVIOUS
<1>6. \A c \in Tasks : (f \in Holding(c) <=> c = d) /\ (g \in Holding(c) <=> c = d)
  BY <1>1, <1>2, <1>4, Holds
<1>7. PICK fs \in Seq(Frame) :
        /\ Then(x, fs)
        /\ \A c \in Tasks : /\ Count(l, {Signal(c)}) \in Nat
                            /\ Count(l, {Signal(c)}) - Count(Lists, {Signal(c)}) + Number(fs, Holding(c)) = One(c = d)
  <2>1. CASE IsDone(t)
    <3>1. Then(x, <<g>>) /\ l = Lists
      BY <1>1, <1>2, <1>4, <1>5, <2>1 DEF AddSignal, Lists
    <3>2. <<g>> \in Seq(Frame)
      BY Short
    <3>3. \A c \in Tasks : Number(<<g>>, Holding(c)) = One(c = d) /\ One(c = d) \in Nat
      BY <1>6, NumberOne DEF One
    <3>4. \A c \in Tasks : Count(Lists, {Signal(c)}) \in Nat
      BY HeldType DEF Core
    <3>5. ASSUME NEW c \in Tasks
          PROVE  /\ Count(l, {Signal(c)}) \in Nat
                 /\ Count(l, {Signal(c)}) - Count(Lists, {Signal(c)}) + Number(<<g>>, Holding(c)) = One(c = d)
      <4>1. Count(l, {Signal(c)}) = Count(Lists, {Signal(c)}) /\ Count(l, {Signal(c)}) \in Nat
        BY <3>1, <3>4
      <4> QED
        BY <3>3, <4>1
    <3> QED
      BY <3>1, <3>2, <3>5
  <2>2. CASE ~IsDone(t)
    <3>1. Then(x, <<>>) /\ Push(t, Signal(d))
      BY <1>1, <1>2, <2>2 DEF AddSignal
    <3>2. <<>> \in Seq(Frame) /\ \A P : Number(<<>>, P) = 0
      BY Short, NumberEmpty
    <3>3. Signal(d) \in Arc /\ \A c \in Tasks : Signal(d) \in {Signal(c)} <=> c = d
      BY DEF Arc, Signal
    <3>4. \A P : /\ Count(l, P) \in Nat /\ Count(Lists, P) \in Nat
                 /\ Count(l, P) = Count(Lists, P) + One(Signal(d) \in P)
      BY <1>5, <3>1, <3>3, PushCount DEF Core
    <3>5. \A c \in Tasks : One(Signal(d) \in {Signal(c)}) = One(c = d) /\ One(c = d) \in Nat
      BY <3>3 DEF One
    <3>6. ASSUME NEW c \in Tasks
          PROVE  /\ Count(l, {Signal(c)}) \in Nat
                 /\ Count(l, {Signal(c)}) - Count(Lists, {Signal(c)}) + Number(<<>>, Holding(c)) = One(c = d)
      <4>1. /\ Count(l, {Signal(c)}) \in Nat /\ Count(Lists, {Signal(c)}) \in Nat
            /\ Count(l, {Signal(c)}) = Count(Lists, {Signal(c)}) + One(Signal(d) \in {Signal(c)})
        BY <3>4
      <4>2. Number(<<>>, Holding(c)) = 0
        BY <3>2
      <4> QED
        BY <3>5, <4>1, <4>2
    <3> QED
      BY <3>1, <3>2, <3>6
  <2> QED
    BY <2>1, <2>2
<1>8. PICK n : n = refs
  OBVIOUS
<1>9. ASSUME NEW c \in Tasks
      PROVE  /\ n[c] = refs[c] + Count(l, {Signal(c)}) - Count(Lists, {Signal(c)})
                         + Number(fs, Holding(c)) - One(Cur(x) \in Holding(c))
             /\ body'[c] # "threw" => n[c] = 0
  <2>1. One(Cur(x) \in Holding(c)) = One(c = d) /\ One(c = d) \in Nat
    BY <1>1, <1>6 DEF One
  <2>2. /\ Count(l, {Signal(c)}) \in Nat /\ Count(Lists, {Signal(c)}) \in Nat /\ refs[c] \in Nat
        /\ Number(fs, Holding(c)) \in Nat
    BY <1>7, HeldType, NumberType DEF Refs, Core
  <2>3. Count(l, {Signal(c)}) - Count(Lists, {Signal(c)}) + Number(fs, Holding(c)) = One(c = d)
    BY <1>7
  <2> QED
    BY <1>3, <1>8, <2>1, <2>2, <2>3 DEF Refs
<1>10. refs' = n /\ n \in [Tasks -> Int]
  BY <1>3, <1>8 DEF Refs
<1>11. \A c \in Tasks : Count(l, {Signal(c)}) \in Nat
  BY <1>7
<1>12. Then(x, fs) /\ Lists' = l
  BY <1>5, <1>7
<1>20. Balanced(x, fs, n, l)
  BY <1>9, <1>11 DEF Balanced
<1> QED
  BY <1>3, <1>10, <1>12, <1>20, RefsThen

(* ~arc releases. *)
LEMMA DropSignalRefs ==
  ASSUME Core, Inv', Refs, NEW x \in Threads, DropSignal(x)
  PROVE  Refs'
<1>1. PICK f \in Frame : f = Cur(x) /\ f.op = "drop"
  BY First DEF DropSignal
<1>2. PICK d \in Tasks : f.control = d
  BY <1>1, Says
<1>3. PICK n : n = refs'
  OBVIOUS
<1>4. todo[x] # <<>> /\ UNCHANGED <<head, body>> /\ n = [refs EXCEPT ![d] = @ - 1]
  BY <1>1, <1>2, <1>3, First DEF DropSignal
<1>5. PICK l : l = Lists' /\ l = Lists
  BY <1>4 DEF Lists
<1>6. PICK fs \in Seq(Frame) : fs = <<>> /\ Then(x, fs) /\ \A P : Number(fs, P) = 0
  <2>1. Then(x, <<>>)
    BY DEF DropSignal
  <2> QED
    BY <2>1, Short, NumberEmpty
<1>7. \A c \in Tasks : n[c] = refs[c] - One(c = d) /\ refs[c] \in Nat /\ One(c = d) \in Nat
  BY <1>4 DEF Refs, One
<1>8. ASSUME NEW c \in Tasks
      PROVE  /\ Count(l, {Signal(c)}) \in Nat
             /\ n[c] = refs[c] + Count(l, {Signal(c)}) - Count(Lists, {Signal(c)})
                         + Number(fs, Holding(c)) - One(Cur(x) \in Holding(c))
  <2>1. Count(l, {Signal(c)}) \in Nat /\ Count(l, {Signal(c)}) = Count(Lists, {Signal(c)})
    BY <1>5, HeldType DEF Core
  <2>2. One(Cur(x) \in Holding(c)) = One(c = d)
    BY <1>1, <1>2, Holds DEF One
  <2>3. Number(fs, Holding(c)) = 0
    BY <1>6
  <2> QED
    BY <1>7, <2>1, <2>2, <2>3
<1>9. ASSUME NEW c \in Tasks, body'[c] # "threw"
      PROVE  n[c] = 0
  <2>1. refs[c] = 0
    BY <1>4, <1>9 DEF Refs
  <2>2. c # d
    <3>1. Count(todo, Holding(c)) = 0
      <4>1. Held(c) = 0
        BY <2>1 DEF Refs
      <4>2. Count(Lists, {Signal(c)}) \in Nat /\ Count(todo, Holding(c)) \in Nat
        BY HeldType DEF Core
      <4> QED
        BY <4>1, <4>2 DEF Held
    <3>2. Cur(x) = todo[x][1] /\ 1 \in DOMAIN todo[x]
      BY First DEF DropSignal
    <3>3. todo \in Family(Threads, Frame) /\ IsFiniteSet(Threads)
      BY Families, Finite DEF Core
    <3>4. \A P : Count(todo, P) = 0 => Cur(x) \notin P
      BY <3>2, <3>3, CountNone
    <3>5. Cur(x) \notin Holding(c)
      BY <3>1, <3>4
    <3> QED
      BY <1>1, <1>2, <3>5, Holds
  <2> QED
    BY <1>7, <2>1, <2>2 DEF One
<1>10. n \in [Tasks -> Int]
  BY <1>4 DEF Refs
<1>11. refs' = n /\ Lists' = l /\ \A c \in Tasks : Count(l, {Signal(c)}) \in Nat
  BY <1>3, <1>5, <1>8
<1>12. todo[x] # <<>> /\ Then(x, fs)
  BY <1>4, <1>6
<1>20. Balanced(x, fs, n, l)
  BY <1>8, <1>9, <1>11 DEF Balanced
<1> QED
  BY <1>10, <1>11, <1>12, <1>20, RefsThen

LEMMA NotThrown ==
  ASSUME Core, NEW t \in Tasks, NEW o \in Bottom, At(t, o)
  PROVE  body[t] # "threw"
  BY Own DEF Final

(* set_exception makes the first reference. *)
LEMMA ThrowRefs ==
  ASSUME Core, Inv', Refs, NEW t \in Tasks, Throw(t)
  PROVE  Refs'
<1>1. /\ t \in Threads /\ todo[t] # <<>> /\ Cur(t).op = "functor" /\ Cur(t) \in Frame
      /\ body[t] # "threw" /\ UNCHANGED head /\ body' = [body EXCEPT ![t] = "threw"]
  BY Apart, First, NotThrown DEF Throw, Bottom
<1>2. PICK n : n = refs'
  OBVIOUS
<1>3. refs[t] = 0 /\ n = [refs EXCEPT ![t] = 1]
  BY <1>1, <1>2 DEF Throw, Refs
<1>4. PICK l : l = Lists' /\ l = Lists
  BY <1>1 DEF Lists
<1>5. PICK f \in Frame : f = Carry(t, t) /\ f.op = "signal" /\ f.control = t
  <2>1. Carry(t, t) \in Frame /\ Carry(t, t).op = "signal" /\ Carry(t, t).control = t
    BY DEF Carry, Frame
  <2> QED
    BY <2>1
<1>6. PICK g \in Frame : g = Mark(t, "exception") /\ g.op = "mark"
  <2>1. Mark(t, "exception") \in Frame /\ Mark(t, "exception").op = "mark"
    BY DEF Mark, Frame, Bits
  <2> QED
    BY <2>1
<1>7. PICK c \in Seq(Frame) : c = Complete(t, TRUE) /\ \A d \in Tasks : Number(c, Holding(d)) = 0
  <2>1. PICK e : e = [op |-> "exchange", node |-> t, failed |-> TRUE]
    OBVIOUS
  <2>2. PICK w : w = [op |-> "wakeup", node |-> t]
    OBVIOUS
  <2>3. e \in Frame /\ w \in Frame /\ e.op = "exchange" /\ w.op = "wakeup"
    BY <2>1, <2>2 DEF Frame
  <2>4. Complete(t, TRUE) = <<e, w>> /\ <<e, w>> \in Seq(Frame)
    BY <2>1, <2>2, <2>3, Short DEF Complete
  <2>5. \A i \in DOMAIN <<e, w>> : <<e, w>>[i].op \notin {"signal", "drop"}
    BY <2>3
  <2>6. \A d \in Tasks : Number(<<e, w>>, Holding(d)) = 0
    BY <2>4, <2>5, HoldsNone
  <2> QED
    BY <2>4, <2>6
<1>8. PICK r \in Seq(Frame) : r = <<f, g>>
  BY Short
<1>9. PICK fs \in Seq(Frame) : fs = r \o c
  BY Short
<1>10. Then(t, fs)
  BY <1>5, <1>6, <1>7, <1>8, <1>9 DEF Throw
<1>11. \A d \in Tasks : Number(fs, Holding(d)) = One(d = t)
  <2>1. SUFFICES ASSUME NEW d \in Tasks
                 PROVE  Number(fs, Holding(d)) = One(d = t)
    OBVIOUS
  <2>2. Number(fs, Holding(d)) = Number(r, Holding(d)) + Number(c, Holding(d))
    BY <1>9, NumberCat
  <2>3. Number(r, Holding(d)) = One(f \in Holding(d)) + One(g \in Holding(d))
    BY <1>8, NumberTwo
  <2>4. (f \in Holding(d) <=> d = t) /\ g \notin Holding(d)
    BY <1>5, <1>6, Holds
  <2>5. One(f \in Holding(d)) = One(d = t) /\ One(g \in Holding(d)) = 0 /\ One(d = t) \in Nat
    BY <2>4 DEF One
  <2>6. Number(c, Holding(d)) = 0
    BY <1>7
  <2> QED
    BY <2>2, <2>3, <2>5, <2>6
<1>12. ASSUME NEW d \in Tasks
       PROVE  /\ Count(l, {Signal(d)}) \in Nat
              /\ n[d] = refs[d] + Count(l, {Signal(d)}) - Count(Lists, {Signal(d)})
                          + Number(fs, Holding(d)) - One(Cur(t) \in Holding(d))
              /\ body'[d] # "threw" => n[d] = 0
  <2>1. Count(l, {Signal(d)}) \in Nat /\ Count(l, {Signal(d)}) = Count(Lists, {Signal(d)})
    BY <1>4, HeldType DEF Core
  <2>2. One(Cur(t) \in Holding(d)) = 0 /\ One(d = t) \in Nat
    BY <1>1, Holds DEF One
  <2>3. n[d] = refs[d] + One(d = t) /\ refs[d] \in Nat
    BY <1>3 DEF Refs, One
  <2>4. body'[d] # "threw" => n[d] = 0
    BY <1>1, <1>3 DEF Core, Inv, Types, Refs
  <2> QED
    BY <1>11, <2>1, <2>2, <2>3, <2>4
<1>13. n \in [Tasks -> Int]
  BY <1>3 DEF Refs
<1>14. refs' = n /\ Lists' = l /\ \A d \in Tasks : Count(l, {Signal(d)}) \in Nat
  BY <1>2, <1>4, <1>12
<1>15. t \in Threads /\ todo[t] # <<>>
  BY <1>1
<1>16. \A d \in Tasks : n[d] = refs[d] + Count(l, {Signal(d)}) - Count(Lists, {Signal(d)})
                               + Number(fs, Holding(d)) - One(Cur(t) \in Holding(d))
  BY <1>12
<1>17. \A d \in Tasks : body'[d] # "threw" => n[d] = 0
  BY <1>12
<1>20. Balanced(t, fs, n, l)
  BY <1>14, <1>16, <1>17 DEF Balanced
<1> QED
  BY <1>10, <1>13, <1>14, <1>15, <1>20, RefsThen

(* The other steps of a body. *)
LEMMA BodyRefs ==
  ASSUME Core, Inv', Refs, NEW t \in Tasks, NEW o \in Bottom, At(t, o),
         body' = body \/ \E v : body' = [body EXCEPT ![t] = v], UNCHANGED refs,
         NEW S, NEW fs \in Seq(S), \A f \in S : f.op \notin {"signal", "drop"}, Then(t, fs),
         \A c \in Tasks : Count(Lists', {Signal(c)}) = Count(Lists, {Signal(c)})
  PROVE  Refs'
<1>1. t \in Threads /\ todo[t] # <<>> /\ Cur(t).op \notin {"signal", "drop"}
  BY Apart, First DEF Bottom
<1>2. \A c \in Tasks : body[c] = "threw" => body'[c] = "threw"
  BY NotThrown DEF Core, Inv, Types
<1> QED
  BY <1>1, <1>2, RefsQuiet

LEMMA CompleteQuiet ==
  ASSUME NEW t, NEW e, NEW h, h.op \notin {"signal", "drop"}
  PROVE  \E S : \E fs \in Seq(S), gs \in Seq(S) :
           /\ fs = Complete(t, e) /\ gs = <<h>> \o Complete(t, e)
           /\ \A f \in S : f.op \notin {"signal", "drop"}
<1>1. PICK f : f = [op |-> "exchange", node |-> t, failed |-> e]
  OBVIOUS
<1>2. PICK g : g = [op |-> "wakeup", node |-> t]
  OBVIOUS
<1>3. PICK S : S = {f, g, h}
  OBVIOUS
<1>4. \A d \in S : d.op \notin {"signal", "drop"}
  BY <1>1, <1>2, <1>3
<1>5. PICK fs \in Seq(S) : fs = Complete(t, e)
  BY <1>1, <1>2, <1>3, Short DEF Complete
<1>6. PICK gs \in Seq(S) : gs = <<h>> \o Complete(t, e)
  BY <1>3, <1>5, Short
<1> QED
  BY <1>4, <1>5, <1>6

LEMMA ExecuteRefs ==
  ASSUME Core, Inv', Refs, NEW t \in Tasks,
         Start(t) \/ ReturnValue(t) \/ Emplace(t) \/ Attach(t) \/ Look(t) \/ Resume(t)
  PROVE  Refs'
<1>1. t \in Threads
  BY Apart
<1>2. PICK h : h = [op |-> "failure", node |-> t, from |-> Returns(t), port |-> 0]
  OBVIOUS
<1>3. h.op \notin {"signal", "drop"}
  BY <1>2
<1>4. \A e : \E S : \E fs \in Seq(S), gs \in Seq(S) :
        /\ fs = Complete(t, e) /\ gs = <<h>> \o Complete(t, e)
        /\ \A f \in S : f.op \notin {"signal", "drop"}
  BY <1>3, CompleteQuiet
<1>5. ASSUME NEW o \in Bottom, At(t, o), UNCHANGED <<refs, head>>, NEW v, body' = [body EXCEPT ![t] = v],
             NEW e, Then(t, Complete(t, e)) \/ Then(t, <<h>> \o Complete(t, e))
      PROVE  Refs'
  <2>1. PICK S : \E fs \in Seq(S), gs \in Seq(S) :
          /\ fs = Complete(t, e) /\ gs = <<h>> \o Complete(t, e)
          /\ \A f \in S : f.op \notin {"signal", "drop"}
    BY <1>4
  <2>2. PICK fs \in Seq(S) : Then(t, fs) /\ \A f \in S : f.op \notin {"signal", "drop"}
    BY <1>5, <2>1
  <2>3. \A c \in Tasks : Count(Lists', {Signal(c)}) = Count(Lists, {Signal(c)})
    BY <1>5, HeadSignals
  <2> QED
    BY <1>5, <2>2, <2>3, BodyRefs
<1>6. ASSUME NEW o \in Bottom, At(t, o), UNCHANGED refs, NEW v, body' = [body EXCEPT ![t] = v],
             NEW p \in Bottom, Then(t, <<[op |-> p, node |-> t]>>) \/ Then(t, <<>>),
             \A c \in Tasks : Count(Lists', {Signal(c)}) = Count(Lists, {Signal(c)})
      PROVE  Refs'
  <2>1. PICK g : g = [op |-> p, node |-> t]
    OBVIOUS
  <2>2. PICK S : S = {g}
    OBVIOUS
  <2>3. PICK fs \in Seq(S) : Then(t, fs)
    BY <1>6, <2>1, <2>2, Short
  <2>4. \A f \in S : f.op \notin {"signal", "drop"}
    BY <2>1, <2>2 DEF Bottom
  <2> QED
    BY <1>6, <2>3, <2>4, BodyRefs
<1>7. {"start", "functor", "attach", "look"} \subseteq Bottom
  BY DEF Bottom
<1>8. CASE Start(t)
  <2>1. At(t, "start") /\ UNCHANGED <<refs, head>>
    BY <1>8 DEF Start
  <2>2. CASE Starts(t)
    <3>1. body' = [body EXCEPT ![t] = "running"] /\ Then(t, <<[op |-> "functor", node |-> t]>>)
      BY <1>8, <2>2 DEF Start
    <3> QED
      BY <1>6, <1>7, <2>1, <3>1, HeadSignals
  <2>3. CASE ~Starts(t)
    <3>1. body' = [body EXCEPT ![t] = "skipped"] /\ Then(t, Complete(t, TRUE))
      BY <1>8, <2>3 DEF Start
    <3> QED
      BY <1>5, <1>7, <2>1, <3>1
  <2> QED
    BY <2>2, <2>3
<1>9. CASE ReturnValue(t)
  BY <1>5, <1>7, <1>9 DEF ReturnValue
<1>10. CASE Emplace(t)
  <2>1. /\ At(t, "functor") /\ UNCHANGED <<refs, head>> /\ body' = [body EXCEPT ![t] = "attached"]
        /\ Then(t, <<[op |-> "attach", node |-> t]>>)
    BY <1>10 DEF Emplace
  <2> QED
    BY <1>6, <1>7, <2>1, HeadSignals
<1>11. CASE Attach(t)
  <2>1. Returns(t) \in Tasks
    BY <1>11, ProgramTypes DEF Attach, Forwards, Core, Inv, Types
  <2>2. At(t, "attach") /\ UNCHANGED refs
    BY <1>11 DEF Attach
  <2>3. CASE IsDone(Returns(t))
    <3>1. Then(t, <<[op |-> "look", node |-> t]>>) /\ UNCHANGED <<head, body>>
      BY <1>11, <2>3 DEF Attach
    <3>2. \A c \in Tasks : Count(Lists', {Signal(c)}) = Count(Lists, {Signal(c)})
      BY <3>1, HeadSignals
    <3>3. body' = [body EXCEPT ![t] = body[t]]
      BY <3>1 DEF Core, Inv, Types
    <3> QED
      BY <1>6, <1>7, <2>2, <3>1, <3>2, <3>3
  <2>4. CASE ~IsDone(Returns(t))
    <3>1. /\ Push(Returns(t), Flow(t, 0)) /\ Then(t, <<>>) /\ body' = [body EXCEPT ![t] = "forwarding"]
      BY <1>11, <2>4 DEF Attach
    <3>2. \A c \in Tasks : Count(Lists', {Signal(c)}) = Count(Lists, {Signal(c)})
      BY <2>1, <3>1, PushSignals DEF Core
    <3> QED
      BY <1>6, <1>7, <2>2, <3>1, <3>2
  <2> QED
    BY <2>3, <2>4
<1>12. CASE Look(t)
  <2>1. At(t, "look") /\ UNCHANGED <<refs, head>>
    BY <1>12 DEF Look
  <2>2. CASE AttachedLate(t)
    <3>1. body' = [body EXCEPT ![t] = "skipped"] /\ Then(t, <<h>> \o Complete(t, TRUE))
      BY <1>2, <1>12, <2>2 DEF Look
    <3> QED
      BY <1>5, <1>7, <2>1, <3>1
  <2>3. CASE ~AttachedLate(t)
    <3>1. body' = [body EXCEPT ![t] = "value"] /\ Then(t, Complete(t, FALSE))
      BY <1>12, <2>3 DEF Look
    <3> QED
      BY <1>5, <1>7, <2>1, <3>1
  <2> QED
    BY <2>2, <2>3
<1>13. CASE Resume(t)
  <2>1. /\ At(t, "start") /\ UNCHANGED <<refs, head>> /\ Then(t, Complete(t, ~Starts(t)))
        /\ body' = [body EXCEPT ![t] = IF Starts(t) THEN "value" ELSE "skipped"]
    BY <1>13 DEF Resume
  <2>2. PICK v : v = IF Starts(t) THEN "value" ELSE "skipped"
    OBVIOUS
  <2>3. PICK e : e = ~Starts(t)
    OBVIOUS
  <2> QED
    BY <1>5, <1>7, <2>1, <2>2, <2>3
<1> QED
  BY <1>8, <1>9, <1>10, <1>11, <1>12, <1>13

(* The counts are the same. *)
LEMMA RefsKept ==
  ASSUME Refs, UNCHANGED <<refs, head>>,
         \A c \in Tasks : Count(todo', Holding(c)) = Count(todo, Holding(c)),
         \A c \in Tasks : body'[c] # "threw" => body[c] # "threw"
  PROVE  Refs'
<1>1. Lists' = Lists
  BY DEF Lists
<1>2. \A c \in Tasks : Held(c)' = Held(c)
  BY <1>1 DEF Held, Holding, Carry, Signal
<1> QED
  BY <1>2 DEF Refs

(* The task that loses its last prerequisite has nothing under way. *)
LEMMA NotStarted ==
  ASSUME Core, NEW t \in Tasks, Waiting(t), word[t].count # 0
  PROVE  todo[t] = <<>>
<1>1. todo[t] = <<>> \/ todo[t] = <<[op |-> "start", node |-> t]>>
  BY DEF Waiting, Core, Resting
<1>2. ASSUME todo[t] = <<[op |-> "start", node |-> t]>>
      PROVE  FALSE
  <2>1. At(t, "start") /\ t \in Threads
    BY <1>2, Apart DEF At
  <2>2. Cur(t) = [op |-> "start", node |-> t]
    BY <1>2 DEF Cur
  <2>3. Fits(Cur(t))
    BY <2>1, First
  <2> QED
    BY <2>2, <2>3 DEF Fits
<1> QED
  BY <1>1, <1>2

(* The signals that an exchange takes are dropped one by one, and the terminal arc holds
   what it keeps once more. *)
LEMMA NotifyHolds ==
  ASSUME NEW t \in Tasks, NEW r \in Seq(Arc), NEW b \in BOOLEAN, NEW fs,
         fs = [i \in DOMAIN r |-> Notify(t, r[i], b)], NEW c \in Tasks
  PROVE  Number(fs, Holding(c)) = Number(r, {Signal(c)})
<1>1. /\ fs \in Seq(Frame) /\ DOMAIN fs = DOMAIN r
      /\ \A i \in DOMAIN fs : fs[i].op \in {"drop", "notify"} /\ fs[i] = Notify(t, r[i], b)
  BY NotifyAll
<1>2. ASSUME NEW i \in DOMAIN fs
      PROVE  fs[i] \in Holding(c) <=> r[i] \in {Signal(c)}
  <2>1. PICK a \in Arc : a = r[i]
    BY <1>1, Element
  <2>2. fs[i] \in Frame /\ fs[i] = Notify(t, a, b)
    BY <1>1, <2>1, Element
  <2>3. CASE a.kind = "signal"
    <3>1. fs[i] = [op |-> "drop", control |-> a.node] /\ a = Signal(a.node)
      BY <2>2, <2>3, ArcKinds DEF Notify
    <3>2. fs[i] \in Holding(c) <=> a.node = c
      BY <2>2, <3>1, Holds
    <3>3. a = Signal(c) <=> a.node = c
      BY <3>1 DEF Signal
    <3> QED
      BY <2>1, <3>2, <3>3
  <2>4. CASE a.kind # "signal"
    <3>1. fs[i].op = "notify"
      BY <2>2, <2>4 DEF Notify
    <3>2. a # Signal(c)
      BY <2>4 DEF Signal
    <3> QED
      BY <2>1, <2>2, <3>1, <3>2, Holds
  <2> QED
    BY <2>3, <2>4
<1> QED
  BY <1>1, <1>2, NumberSame

LEMMA ExchangeRefs ==
  ASSUME Core, Inv', Refs, NEW x \in Threads, Exchange(x)
  PROVE  Refs'
<1>1. PICK f \in Frame : f = Cur(x) /\ f.op = "exchange" /\ todo[x] # <<>>
  BY First DEF Exchange
<1>2. PICK t \in Tasks, e \in BOOLEAN : f.node = t /\ f.failed = e
  BY <1>1, Says
<1>3. PICK b \in BOOLEAN : b <=> e /\ Failed(t)
  OBVIOUS
<1>4. PICK h : h = LastHead(t, e)
  OBVIOUS
<1>5. PICK r \in Seq(Arc) : r = head[t].arcs
  BY ControlType DEF Core, Inv
<1>6. PICK fs : fs = [i \in DOMAIN r |-> Notify(t, r[i], b)]
  OBVIOUS
<1>7. PICK n : n = refs'
  OBVIOUS
<1>8. PICK l : l = Lists'
  OBVIOUS
<1>9. head' = [head EXCEPT ![t] = h] /\ Then(x, fs) /\ UNCHANGED body /\ n = Retained(h)
  <2>1. [i \in DOMAIN r |-> Notify(t, r[i], b)] = [i \in DOMAIN r |-> Notify(t, r[i], e /\ Failed(t))]
    BY <1>3
  <2> QED
    BY <1>1, <1>2, <1>4, <1>5, <1>6, <1>7, <2>1 DEF Exchange
<1>10. fs \in Seq(Frame) /\ \A c \in Tasks : Number(fs, Holding(c)) = Number(r, {Signal(c)})
  BY <1>6, NotifyAll, NotifyHolds
<1>11. /\ h.arcs \in Seq(Arc)
       /\ h = Done \/ (LocalControl(t) # {} /\ h = Terminal(TheControl(t)))
  BY <1>4, LastArcs DEF Core
<1>12. \A P : /\ Count(l, P) \in Nat /\ Count(Lists, P) \in Nat /\ Number(r, P) \in Nat
              /\ Count(l, P) = Count(Lists, P) - Number(r, P) + Number(h.arcs, P)
  <2>1. Lists \in Family(Tasks, Arc) /\ IsFiniteSet(Tasks) /\ Lists[t] = r
    BY <1>5, Families, Finite DEF Core
  <2>2. PICK a \in Seq(Arc) : a = h.arcs
    BY <1>11
  <2>3. Replaced(l, Lists, t, a)
    BY <1>8, <1>9, <2>2 DEF Lists, Replaced, Core, Inv, Types
  <2>4. \A P : /\ Count(l, P) \in Nat /\ Count(Lists, P) \in Nat /\ Number(Lists[t], P) \in Nat
               /\ Count(l, P) = Count(Lists, P) - Number(Lists[t], P) + Number(a, P)
    BY <2>1, <2>3, CountAs
  <2> QED
    BY <2>1, <2>2, <2>4
<1>13. ASSUME NEW c \in Tasks
       PROVE  /\ n[c] = refs[c] + Number(h.arcs, {Signal(c)}) /\ Number(h.arcs, {Signal(c)}) \in Nat
              /\ body[c] # "threw" => n[c] = 0
  <2>1. refs[c] \in Nat /\ (body[c] # "threw" => refs[c] = 0)
    BY DEF Refs
  <2>2. CASE h = Done
    <3>1. n = refs /\ h.arcs = <<>>
      BY <1>9, <2>2 DEF Retained, Done
    <3>2. Number(h.arcs, {Signal(c)}) = 0
      BY <3>1, NumberEmpty
    <3> QED
      BY <2>1, <3>1, <3>2
  <2>3. CASE LocalControl(t) # {} /\ h = Terminal(TheControl(t))
    <3>1. PICK d \in Tasks : d = TheControl(t) /\ body[d] = "threw"
      BY <2>3, OneControl
    <3>2. PICK a : a = Signal(d)
      OBVIOUS
    <3>3. h.arcs = <<a>> /\ a.node = d /\ h # Done /\ (a \in {Signal(c)} <=> c = d)
      BY <2>3, <3>1, <3>2 DEF Terminal, Done, Signal
    <3>4. n = [refs EXCEPT ![d] = @ + 1]
      <4>1. h.arcs[1].node = d
        BY <3>3
      <4> QED
        BY <1>9, <3>3, <4>1 DEF Retained
    <3>5. Number(h.arcs, {Signal(c)}) = One(c = d)
      BY <3>3, NumberOne DEF One
    <3>6. n[c] = refs[c] + One(c = d)
      BY <2>1, <3>4 DEF Refs, One
    <3> QED
      BY <2>1, <3>1, <3>5, <3>6 DEF One
  <2> QED
    BY <1>11, <2>2, <2>3
<1>14. ASSUME NEW c \in Tasks
       PROVE  n[c] = refs[c] + Count(l, {Signal(c)}) - Count(Lists, {Signal(c)})
                       + Number(fs, Holding(c)) - One(Cur(x) \in Holding(c))
  <2>1. One(Cur(x) \in Holding(c)) = 0
    BY <1>1, Holds DEF One
  <2>2. /\ Count(l, {Signal(c)}) \in Nat /\ Count(Lists, {Signal(c)}) \in Nat
        /\ Number(r, {Signal(c)}) \in Nat
        /\ Count(l, {Signal(c)}) = Count(Lists, {Signal(c)}) - Number(r, {Signal(c)})
                                     + Number(h.arcs, {Signal(c)})
    BY <1>12
  <2>3. refs[c] \in Nat
    BY DEF Refs
  <2> QED
    BY SMTT(30), <1>10, <1>13, <2>1, <2>2, <2>3
<1>15. n \in [Tasks -> Int]
  <2>1. ASSUME NEW c \in Tasks
        PROVE  n[c] \in Int
    <3>1. refs[c] \in Nat
      BY DEF Refs
    <3>2. PICK k : k = Number(h.arcs, {Signal(c)})
      OBVIOUS
    <3>3. n[c] = refs[c] + k /\ k \in Nat
      BY <1>13, <3>2
    <3> QED
      BY <3>1, <3>3
  <2>2. n = [c \in Tasks |-> n[c]]
    BY <1>9 DEF Retained, Refs
  <2> QED
    BY <2>1, <2>2
<1>16. /\ refs' = n /\ Lists' = l /\ \A c \in Tasks : Count(l, {Signal(c)}) \in Nat
       /\ \A c \in Tasks : body'[c] # "threw" => n[c] = 0
  BY <1>7, <1>8, <1>9, <1>12, <1>13
<1>20. Balanced(x, fs, n, l)
  BY <1>14, <1>16 DEF Balanced
<1> QED
  BY <1>1, <1>9, <1>10, <1>15, <1>16, <1>20, RefsThen

(* Nothing of it is on the thread of a task that is started or completed by another. *)
LEMMA PreRefs ==
  ASSUME Core, Inv', Refs, NEW x \in Threads, Pre(x)
  PROVE  Refs'
<1>1. PICK f \in Frame : f = Cur(x) /\ f.op = "pre" /\ todo[x] # <<>> /\ At(x, "pre") /\ Inv
  BY First DEF Pre, Core
<1>2. PICK t \in Tasks, k \in Int : f.node = t /\ f.k = k
  BY <1>1, Says
<1>3. Waiting(t) /\ x # t /\ k >= 1
  BY <1>1, <1>2, PreTakes
<1>4. PICK last \in BOOLEAN : last <=> word[t].count = k
  OBVIOUS
<1>5. PICK skips \in BOOLEAN : skips <=> last /\ Skips(word[t].bits)
  OBVIOUS
<1>6. PICK fs \in Seq(Frame) : /\ fs = IF skips THEN Complete(t, TRUE) ELSE <<>>
                              /\ \A c \in Tasks : Number(fs, Holding(c)) = 0
  <2>1. PICK h : h = Mark(t, "user")
    OBVIOUS
  <2>2. h.op \notin {"signal", "drop"}
    BY <2>1 DEF Mark
  <2>3. PICK S : \E fs \in Seq(S), gs \in Seq(S) :
          /\ fs = Complete(t, TRUE) /\ gs = <<h>> \o Complete(t, TRUE)
          /\ \A d \in S : d.op \notin {"signal", "drop"}
    BY <2>2, CompleteQuiet
  <2>4. PICK c \in Seq(S) : c = Complete(t, TRUE) /\ \A d \in S : d.op \notin {"signal", "drop"}
    BY <2>3
  <2>5. c \in Seq(Frame)
    <3>1. [op |-> "exchange", node |-> t, failed |-> TRUE] \in Frame /\ [op |-> "wakeup", node |-> t] \in Frame
      BY DEF Frame
    <3> QED
      BY <2>4, <3>1, Short DEF Complete
  <2>6. \A i \in DOMAIN c : c[i].op \notin {"signal", "drop"}
    BY <2>4, Element
  <2>7. \A d \in Tasks : Number(c, Holding(d)) = 0
    BY <2>5, <2>6, HoldsNone
  <2>8. <<>> \in Seq(Frame) /\ \A d \in Tasks : Number(<<>>, Holding(d)) = 0
    BY Short, NumberEmpty
  <2> QED
    BY <2>4, <2>5, <2>7, <2>8
<1>7. PICK b \in BOOLEAN : b <=> last /\ ~skips
  OBVIOUS
<1>8. PICK c : c = IF b THEN <<[op |-> "start", node |-> t]>> ELSE todo[t]
  OBVIOUS
<1>9. /\ todo' = [todo EXCEPT ![x] = fs \o Tail(todo[x]), ![t] = c]
      /\ body' = IF skips THEN [body EXCEPT ![t] = "skipped"] ELSE body
      /\ UNCHANGED <<head, refs>>
  BY <1>1, <1>2, <1>4, <1>5, <1>6, <1>7, <1>8 DEF Pre
<1>10. b => todo[t] = <<>>
  BY <1>1, <1>2, <1>3, <1>4, <1>7, NotStarted
<1>11. ASSUME NEW d \in Tasks
       PROVE  Count(todo', Holding(d)) = Count(todo, Holding(d))
  <2>1. \A u : [op |-> "start", node |-> u] \notin Holding(d)
    BY DEF Holding, Carry
  <2>2. /\ Count(todo, Holding(d)) \in Nat
        /\ Count(todo', Holding(d)) = Count(todo, Holding(d)) - One(Cur(x) \in Holding(d)) + Number(fs, Holding(d))
    BY <1>1, <1>3, <1>8, <1>9, <1>10, <2>1, StartCount
  <2>3. One(Cur(x) \in Holding(d)) = 0
    BY <1>1, Holds DEF One
  <2>4. Number(fs, Holding(d)) = 0
    BY <1>6
  <2> QED
    BY <2>2, <2>3, <2>4
<1>12. Lists' = Lists /\ \A d \in Tasks : body'[d] # "threw" => body[d] # "threw"
  BY <1>3, <1>9 DEF Lists, Waiting, Core, Inv, Types
<1> QED
  BY <1>9, <1>11, <1>12, RefsKept

(***************************************************************************)
(* Calls                                                                   *)
(***************************************************************************)
LEMMA UponRefs ==
  ASSUME Core, Refs, NEW x \in Threads, NEW fs \in Seq(Frame), Upon(todo', todo, x, fs),
         \A i \in DOMAIN fs : fs[i].op \notin {"signal", "drop"}, UNCHANGED <<refs, head>>,
         \A c \in Tasks : body'[c] # "threw" => body[c] # "threw"
  PROVE  Refs'
<1>1. ASSUME NEW c \in Tasks
      PROVE  Count(todo', Holding(c)) = Count(todo, Holding(c))
  <2>1. /\ Count(todo, Holding(c)) \in Nat
        /\ Count(todo', Holding(c)) = Count(todo, Holding(c)) + Number(fs, Holding(c))
    BY UponCount DEF Core
  <2>2. Number(fs, Holding(c)) = 0
    BY HoldsNone
  <2> QED
    BY <2>1, <2>2
<1> QED
  BY <1>1, RefsKept

LEMMA RunRefs ==
  ASSUME Core, Inv', Refs, NEW t \in Tasks, Run(t)
  PROVE  Refs'
<1>1. PICK m : m = Maker(t)
  OBVIOUS
<1>2. PICK fs : fs = Links(t) \o Ends(t)
  OBVIOUS
<1>3. m \in Threads
  BY <1>1, ProgramTypes DEF Core, Inv, Types
<1>4. fs \in Seq(Frame) /\ \A i \in DOMAIN fs : fs[i].op \notin {"signal", "drop"}
  <2>1. Constructs(t, fs)
    BY <1>2, Construction DEF Core
  <2> QED
    BY <2>1 DEF Constructs
<1>5. Upon(todo', todo, m, fs)
  <2>1. todo' = [todo EXCEPT ![m] = Links(t) \o Ends(t) \o todo[m]]
    BY <1>1, <1>3 DEF Run, Links, Ends
  <2> QED
    BY <1>2, <2>1 DEF Upon
<1>6. UNCHANGED <<refs, head>> /\ \A c \in Tasks : body'[c] # "threw" => body[c] # "threw"
  BY DEF Run, Core, Inv, Types
<1> QED
  BY <1>3, <1>4, <1>5, <1>6, UponRefs

LEMMA CallRefs ==
  ASSUME Core, Inv', Refs, NEW x \in Users, Call(x)
  PROVE  Refs'
<1>1. PICK t \in Tasks : Cancel(x, t) \/ WaitFor(x, t)
  BY DEF Call
<1>2. PICK f \in Frame : f = Mark(t, "user") /\ f.op = "mark"
  <2>1. Mark(t, "user") \in Frame /\ Mark(t, "user").op = "mark"
    BY DEF Mark, Frame, Bits
  <2> QED
    BY <2>1
<1>3. PICK g \in Frame : g = [op |-> "wait", node |-> t] /\ g.op = "wait"
  <2>1. [op |-> "wait", node |-> t] \in Frame
    BY DEF Frame
  <2> QED
    BY <2>1
<1>4. PICK h \in Frame : h = [op |-> "status", node |-> t] /\ h.op = "status"
  <2>1. [op |-> "status", node |-> t] \in Frame
    BY DEF Frame
  <2> QED
    BY <2>1
<1>5. PICK fs \in Seq(Frame) : /\ fs = <<f>> \/ fs = <<g, h>>
                              /\ todo' = [todo EXCEPT ![x] = fs]
  BY <1>1, <1>2, <1>3, <1>4, Short DEF Cancel, WaitFor
<1>6. todo[x] = <<>> /\ UNCHANGED <<refs, head, body>>
  BY <1>1 DEF Cancel, WaitFor, InCall
<1>7. fs \o <<>> = fs
  OBVIOUS
<1>8. Upon(todo', todo, x, fs)
  BY <1>5, <1>6, <1>7 DEF Upon
<1>9. \A i \in DOMAIN fs : fs[i].op \notin {"signal", "drop"}
  BY <1>2, <1>3, <1>4, <1>5
<1>10. x \in Threads
  BY Apart
<1> QED
  BY <1>6, <1>8, <1>9, <1>10, UponRefs

(***************************************************************************)
(* The invariant                                                           *)
(***************************************************************************)
LEMMA InitRefs ==
  ASSUME Init
  PROVE  Refs
<1>1. \A P : Count(todo, P) = 0 /\ Count(Lists, P) = 0
  <2>1. todo \in Family(Threads, Frame) /\ Lists \in Family(Tasks, Arc)
        /\ IsFiniteSet(Threads) /\ IsFiniteSet(Tasks)
    BY InitInv, Families, Finite
  <2>2. \A P : \A x \in Threads : \A i \in DOMAIN todo[x] : todo[x][i] \notin P
    BY DEF Init
  <2>3. \A P : \A t \in Tasks : \A i \in DOMAIN Lists[t] : Lists[t][i] \notin P
    BY DEF Lists, Init, Open
  <2> QED
    BY <2>1, <2>2, <2>3, CountNone
<1> QED
  BY <1>1 DEF Init, Refs, Held

LEMMA RefsNext ==
  ASSUME Core, Refs, [Next]_vars
  PROVE  Refs'
<1>1. Inv'
  BY NextInv DEF Core
<1>2. CASE UNCHANGED vars
  <2>1. UNCHANGED <<refs, head, todo, body>>
    BY <1>2 DEF vars
  <2> QED
    BY <2>1, RefsKept
<1>3. ASSUME NEW t \in Tasks, Execute(t)
      PROVE  Refs'
  BY <1>1, <1>3, ExecuteRefs, ThrowRefs, RunRefs DEF Execute
<1>4. ASSUME NEW t \in Tasks, Run(t)
      PROVE  Refs'
  BY <1>1, <1>4, RunRefs
<1>5. ASSUME NEW x \in Users, Call(x)
      PROVE  Refs'
  BY <1>1, <1>5, CallRefs
<1>6. ASSUME NEW x \in Threads, Step(x)
      PROVE  Refs'
  BY <1>1, <1>6, StepsRefs, LinkRefs, PublishFailureRefs, AddSignalRefs, DropSignalRefs,
     ExchangeRefs, PreRefs DEF Step
<1> QED
  BY <1>2, <1>3, <1>4, <1>5, <1>6 DEF Next, Rest

(* In any program an exception has, at any time, as many references as there are arcs that
   hold it: what retains it is released as often, and never too early. *)
THEOREM RefsCounted == Spec => []RefsExact
<1>1. Core /\ Refs => RefsExact
  BY DEF Refs, Held, RefsExact
<1>2. Init => Core /\ Refs
  BY InitCore, InitRefs
<1>3. Core /\ Refs /\ [Next]_vars => (Core /\ Refs)'
  BY CoreNext, RefsNext
<1> QED
  BY <1>1, <1>2, <1>3, PTL DEF Spec

(***************************************************************************)
(* Types                                                                   *)
(***************************************************************************)
(* start_count is never taken below zero. *)
LEMMA CountNext ==
  ASSUME Core, Core', [Next]_vars, NEW t \in Tasks, word[t].count >= 0
  PROVE  word'[t].count >= 0
<1>1. word \in [Tasks -> Word] /\ word' \in [Tasks -> Word]
  BY DEF Core, Inv, Types
<1>2. ASSUME NEW x \in Threads, Pre(x)
      PROVE  word'[t].count >= 0
  <2>1. PICK f \in Frame : f = Cur(x) /\ f.op = "pre" /\ At(x, "pre")
    BY <1>2, First DEF Pre
  <2>2. PICK u \in Tasks, k \in Int : f.node = u /\ f.k = k
    BY <2>1, Says
  <2>3. k <= word[u].count
    BY <2>1, <2>2, PreTakes
  <2>4. word' = [word EXCEPT ![u].count = @ - k]
    BY <1>2, <2>1, <2>2 DEF Pre
  <2> QED
    BY <1>1, <2>2, <2>3, <2>4 DEF Word
<1>3. ASSUME NEW x \in Threads, Step(x), ~Pre(x)
      PROVE  word'[t].count = word[t].count
  <2>1. CASE SetBit(x)
    <3>1. UNCHANGED word \/ \E u, b : word' = [word EXCEPT ![u].bits = @ \cup {b}]
      BY <2>1 DEF SetBit
    <3> QED
      BY <1>1, <3>1 DEF Word
  <2>2. CASE ~SetBit(x)
    <3>1. UNCHANGED word
      BY <1>3, <2>2 DEF Step, MarkFailure, PublishFailureFrom, AddSignal, DropSignal, Link,
         Late, Publish, Return, Exchange, NotifyArc, Wakeup, Wait, Block, Status
    <3> QED
      BY <3>1
  <2> QED
    BY <2>1, <2>2
<1>4. ASSUME NEW u \in Tasks, Execute(u) \/ Run(u)
      PROVE  word'[t].count >= 0
  <2>1. ASSUME NEW v \in Tasks, Run(v)
        PROVE  word'[t].count >= 0
    <3>1. word' = [word EXCEPT ![v] = [count |-> StartMask, bits |-> {}]]
      BY <2>1 DEF Run
    <3> QED
      BY <1>1, <3>1 DEF StartMask
  <2>2. CASE Emplace(u)
    <3>1. word' = [word EXCEPT ![u] = [count |-> 1, bits |-> {}]]
      BY <2>2 DEF Emplace
    <3> QED
      BY <1>1, <3>1
  <2>3. Start(u) \/ ReturnValue(u) \/ Throw(u) => UNCHANGED word
    BY DEF Start, ReturnValue, Throw
  <2>4. Attach(u) \/ Look(u) \/ Resume(u) => UNCHANGED word
    BY DEF Attach, Look, Resume
  <2> QED
    BY <1>4, <2>1, <2>2, <2>3, <2>4 DEF Execute
<1>5. ASSUME NEW x \in Users, Call(x)
      PROVE  UNCHANGED word
  BY <1>5 DEF Call, Cancel, WaitFor
<1> QED
  BY <1>2, <1>3, <1>4, <1>5 DEF Next, Rest, vars

LEMMA OnlyWakeup ==
  ASSUME NEW x, Step(x)
  PROVE  UNCHANGED cancelled /\ (~Wakeup(x) => UNCHANGED woken)
<1>1. MarkFailure(x) \/ SetBit(x) => UNCHANGED <<cancelled, woken>>
  BY DEF MarkFailure, SetBit
<1>2. PublishFailureFrom(x) \/ AddSignal(x) \/ DropSignal(x) => UNCHANGED <<cancelled, woken>>
  BY DEF PublishFailureFrom, AddSignal, DropSignal
<1>3. Link(x) \/ Late(x) \/ Publish(x) \/ Return(x) => UNCHANGED <<cancelled, woken>>
  BY DEF Link, Late, Publish, Return
<1>4. Pre(x) => UNCHANGED <<cancelled, woken>>
  BY DEF Pre
<1>5. Exchange(x) => UNCHANGED <<cancelled, woken>>
  BY DEF Exchange
<1>6. NotifyArc(x) \/ Wait(x) \/ Block(x) \/ Status(x) => UNCHANGED <<cancelled, woken>>
  BY DEF NotifyArc, Wait, Block, Status
<1>7. Wakeup(x) => UNCHANGED cancelled
  BY DEF Wakeup
<1> QED
  BY <1>1, <1>2, <1>3, <1>4, <1>5, <1>6, <1>7 DEF Step

LEMMA WokenNext ==
  ASSUME woken \in [Tasks -> BOOLEAN], [Next]_vars
  PROVE  woken' \in [Tasks -> BOOLEAN]
<1>1. ASSUME NEW x \in Threads, Step(x)
      PROVE  woken' \in [Tasks -> BOOLEAN]
  <2>1. CASE Wakeup(x)
    BY <2>1 DEF Wakeup
  <2>2. CASE ~Wakeup(x)
    BY <1>1, <2>2, OnlyWakeup
  <2> QED
    BY <2>1, <2>2
<1>2. ASSUME NEW u \in Tasks, Execute(u) \/ Run(u)
      PROVE  UNCHANGED woken
  BY <1>2 DEF Execute, Start, ReturnValue, Throw, Run, Emplace, Attach, Look, Resume
<1>3. ASSUME NEW x \in Users, Call(x)
      PROVE  UNCHANGED woken
  BY <1>3 DEF Call, Cancel, WaitFor
<1> QED
  BY <1>1, <1>2, <1>3 DEF Next, Rest, vars

LEMMA CancelledNext ==
  ASSUME cancelled \subseteq Programs[prog].cancels, [Next]_vars
  PROVE  cancelled' \subseteq Programs[prog'].cancels
<1>1. ASSUME NEW x \in Threads, Step(x)
      PROVE  UNCHANGED cancelled
  BY <1>1, OnlyWakeup
<1>2. ASSUME NEW u \in Tasks, Execute(u) \/ Run(u)
      PROVE  UNCHANGED cancelled
  BY <1>2 DEF Execute, Start, ReturnValue, Throw, Run, Emplace, Attach, Look, Resume
<1>3. ASSUME NEW x \in Users, Call(x), UNCHANGED prog
      PROVE  cancelled' \subseteq Programs[prog'].cancels
  BY <1>3 DEF Call, Cancel, WaitFor
<1> QED
  BY <1>1, <1>2, <1>3 DEF Next, Rest, vars

Counts ==
  /\ \A t \in Tasks : word[t].count >= 0
  /\ woken \in [Tasks -> BOOLEAN]
  /\ cancelled \subseteq Programs[prog].cancels

(* Every variable has its type in any program: neither start_count nor the count of an
   exception is ever taken below zero. *)
THEOREM Typed == Spec => []TypeOK
<1>1. Core /\ Refs /\ Counts => TypeOK
  <2>1. SUFFICES ASSUME Core, Refs, Counts
                 PROVE  TypeOK
    OBVIOUS
  <2>2. \A t \in Tasks : /\ head[t].tag \in {"open", "done", "terminal"}
                         /\ \A i \in DOMAIN head[t].arcs : head[t].arcs[i].node \in Tasks
    <3>1. SUFFICES ASSUME NEW t \in Tasks
                   PROVE  /\ head[t].tag \in {"open", "done", "terminal"}
                          /\ \A i \in DOMAIN head[t].arcs : head[t].arcs[i].node \in Tasks
      OBVIOUS
    <3>2. head[t] \in ArcHead
      BY <2>1 DEF Core, Inv, Types
    <3>3. \A i \in DOMAIN head[t].arcs : head[t].arcs[i] \in Arc
      BY <3>2, Element DEF ArcHead
    <3> QED
      BY <3>2, <3>3, ArcKinds DEF ArcHead
  <2>3. word \in [Tasks -> [count : Nat, bits : SUBSET Bits]]
    <3>1. \A t \in Tasks : word[t] \in [count : Nat, bits : SUBSET Bits]
      BY <2>1 DEF Core, Inv, Types, Word, Counts
    <3> QED
      BY <2>1, <3>1 DEF Core, Inv, Types
  <2>4. owed \in [Tasks -> Nat]
    <3>1. \A t \in Tasks : owed[t] \in Nat
      BY <2>1 DEF Core, Inv, Types, Counted
    <3> QED
      BY <2>1, <3>1 DEF Core, Inv, Types
  <2> QED
    BY <2>1, <2>2, <2>3, <2>4 DEF TypeOK, Core, Inv, Types, Refs, Counts
<1>2. Init => Core /\ Refs /\ Counts
  <2>1. Init => Counts
    BY DEF Init, Counts
  <2> QED
    BY <2>1, InitCore, InitRefs
<1>3. Core /\ Refs /\ Counts /\ [Next]_vars => (Core /\ Refs /\ Counts)'
  <2>1. SUFFICES ASSUME Core, Refs, Counts, [Next]_vars
                 PROVE  Core' /\ Refs' /\ Counts'
    OBVIOUS
  <2>2. Core' /\ Refs'
    BY <2>1, CoreNext, RefsNext
  <2>3. \A t \in Tasks : word'[t].count >= 0
    BY <2>1, <2>2, CountNext DEF Counts
  <2> QED
    BY <2>1, <2>2, <2>3, WokenNext, CancelledNext DEF Counts
<1> QED
  BY <1>1, <1>2, <1>3, PTL DEF Spec
=============================================================================
