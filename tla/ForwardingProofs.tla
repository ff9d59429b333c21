--------------------------- MODULE ForwardingProofs ---------------------------
(***************************************************************************)
(* Forwarding keeps the types of the engine under it, for any program of   *)
(* functors: the frames a functor's thread is left with when its task is   *)
(* suspended, and those that release a result, are frames it can run.      *)
(***************************************************************************)
EXTENDS Forwarding, TaskGraphProofs

(* What a task forwards is what its functor returned, from that moment on and never
   before; only tasks whose functor returns a var go through the stages. *)
HoldsResult ==
  \A f \in Tasks :
    /\ result[f] = IF f \in Forwarders /\ stage[f] \notin {"before", "functor"}
                   THEN Returns(f) ELSE NoTask
    /\ stage[f] # "ready" => f \in Forwarders

(* What a program gives: arguments a task may be run with, and nodes for results. *)
LEMMA ProgramTypes ==
  ASSUME prog \in DOMAIN Programs
  PROVE  /\ \A t \in Tasks : Args(t) \in ArgLists[t] /\ Returns(t) \in Nodes \cup {NoTask}
         /\ \A f \in Forwarders : f \in Tasks /\ Returns(f) \in Nodes
<1> DEFINE Program == [by : [Nodes -> Clients \cup {NoTask}],
                       args : [Tasks -> Seq([v : Nodes, w : BOOLEAN])],
                       waits : SUBSET Waitable,
                       returns : [Tasks -> Nodes \cup {NoTask}]]
<1>1. Programs \in Seq(Program)
  BY ForwardingAssumption
<1>2. Programs[prog].returns \in [Tasks -> Nodes \cup {NoTask}]
  <2>1. Programs[prog] \in Program
    <3> HIDE DEF Program
    <3> QED
      BY <1>1, SeqElement
  <2> QED
    BY <2>1
<1> QED
  BY <1>2, ForwardingAssumption DEF Args, Returns, Forwarders

(* A step of the engine that leaves forwarding alone. *)
LEMMA Unforwarded ==
  ASSUME ForwardTypeOK, TypeOK', UNCHANGED forwarding
  PROVE  ForwardTypeOK'
  BY DEF ForwardTypeOK, forwarding

LEMMA FunctorThread ==
  ASSUME NEW f \in Tasks
  PROVE  f \in Threads /\ f \in Nodes /\ Functor[f] \in Clients /\ Functor[f] \in Threads
         /\ Functor[f] # f
<1>1. Functor[f] \in Clients
  BY ForwardingAssumption
<1> QED
  BY <1>1, NodesApart

(***************************************************************************)
(* execute() of a task that forwards                                       *)
(***************************************************************************)
LEMMA StartFunctorType ==
  ASSUME ForwardTypeOK, NEW f \in Tasks, StartFunctor(f)
  PROVE  ForwardTypeOK'
<1>1. TypeOK'
  BY StartType DEF ForwardTypeOK, StartFunctor
<1> QED
  BY <1>1 DEF ForwardTypeOK, StartFunctor

LEMMA EmplaceType ==
  ASSUME ForwardTypeOK, NEW f \in Tasks, Emplace(f)
  PROVE  ForwardTypeOK'
<1>1. /\ TypeOK /\ args' = args /\ making' = making /\ phase' = phase /\ todo' = todo
      /\ startCount' = [startCount EXCEPT ![f] = 1] /\ life' = [life EXCEPT ![f] = life[f] + 1]
  BY DEF ForwardTypeOK, Emplace, setup, ghost, ResumeCount, ContinuationHolds
<1>2. FramesFit'
  BY <1>1, FramesKept
<1>3. startCount' \in [Nodes -> Int] /\ life' \in [Nodes -> Int]
  BY <1>1, FunctorThread DEF TypeOK
<1>4. TypeOK'
  BY <1>1, <1>2, <1>3 DEF TypeOK, Emplace, setup, ghost
<1>5. result' \in [Tasks -> Nodes \cup {NoTask}]
  BY ProgramTypes DEF ForwardTypeOK, Emplace
<1> QED
  BY <1>4, <1>5 DEF ForwardTypeOK, Emplace

(* The guard of execute() fits any thread. *)
LEMMA GuardFrame ==
  ASSUME NEW x \in Threads, NEW f \in Nodes
  PROVE  Guard(f) \in FrameOf(x) /\ <<Guard(f)>> \in Seq(FrameOf(x))
<1>1. Guard(f) \in FrameOf(x)
  BY PlainFrame, NodesApart DEF Guard, WaitOps, BodyOps, CountOps
<1> QED
  BY <1>1, OneFrame

LEMMA AttachFrames ==
  ASSUME ForwardTypeOK, NEW f \in Tasks, Attach(f)
  PROVE  FramesFit'
<1>1. TypeOK /\ args' = args /\ making' = making /\ phase' = phase
  BY DEF ForwardTypeOK, Attach, setup, ghost
<1>2. \A y \in Threads : <<>> \in Seq(FrameOf(y))
  OBVIOUS
<1>3. todo[f] \in Seq(FrameOf(f)) /\ todo \in [Threads -> Seq(Frame)]
  BY <1>1, FunctorThread DEF TypeOK, FramesFit
<1>4. <<Guard(f)>> \o todo[f] \in Seq(FrameOf(f))
  <2> DEFINE S == FrameOf(f)
  <2>1. <<Guard(f)>> \in Seq(S) /\ todo[f] \in Seq(S)
    BY <1>3, FunctorThread, GuardFrame
  <2> HIDE DEF S
  <2>2. <<Guard(f)>> \o todo[f] \in Seq(S)
    BY <2>1
  <2> QED
    BY <2>2 DEF S
<1>5. \/ todo' = [todo EXCEPT ![f] = <<>>, ![Functor[f]] = <<Guard(f)>>]
      \/ todo' = [todo EXCEPT ![f] = <<Guard(f)>> \o todo[f]]
  BY DEF Attach
<1>6. ASSUME NEW y \in Threads
      PROVE  todo'[y] \in Seq(FrameOf(y))
  <2>1. todo[y] \in Seq(FrameOf(y))
    BY <1>1 DEF TypeOK, FramesFit
  <2>2. <<Guard(f)>> \in Seq(FrameOf(y))
    BY FunctorThread, GuardFrame
  <2> QED
    BY <1>2, <1>3, <1>4, <1>5, <2>1, <2>2, FunctorThread
<1>7. \A y \in Threads : todo'[y] \in Seq(Frame) /\ todo'[y] \in Seq(FrameOf(y)')
  BY <1>1, <1>6, FrameIsFrame, FramesStay, SeqGrows
<1>8. todo' \in [Threads -> Seq(Frame)]
  BY <1>3, <1>5, <1>7
<1> QED
  BY <1>7, <1>8 DEF FramesFit

LEMMA AttachType ==
  ASSUME ForwardTypeOK, HoldsResult, NEW f \in Tasks, Attach(f)
  PROVE  ForwardTypeOK'
<1> DEFINE n == Producer(result[f])
<1>1. TypeOK /\ prog \in DOMAIN Programs /\ stage[f] = "attach"
  BY DEF ForwardTypeOK, Attach
<1>2. result[f] \in Nodes
  BY <1>1, ProgramTypes DEF HoldsResult
<1>3. n \in Nodes
  <2>1. var[result[f]] \in OoxVar
    BY <1>1, <1>2 DEF TypeOK
  <2> QED
    BY <2>1 DEF Producer, OoxVar
<1>4. head' \in [Nodes -> ArcHead]
  <2> HIDE DEF n
  <2>1. Push(n, FlowOnly(f, 0)) \/ UNCHANGED head
    BY DEF Attach, n
  <2>2. FlowOnly(f, 0) \in Arc
    BY FunctorThread, NodesApart, ArcTypes
  <2> QED
    BY <1>1, <1>3, <2>1, <2>2, PushHead DEF TypeOK
<1>5. FramesFit'
  BY AttachFrames
<1>6. TypeOK'
  BY <1>1, <1>4, <1>5 DEF TypeOK, Attach, setup, ghost
<1> QED
  BY <1>6 DEF ForwardTypeOK, Attach

LEMMA ResumeType ==
  ASSUME ForwardTypeOK, NEW f \in Tasks, Resume(f)
  PROVE  ForwardTypeOK'
<1>1. TypeOK /\ todo[f] # <<>> /\ Then(f, <<>>) /\ args' = args /\ making' = making /\ phase' = phase
  BY DEF ForwardTypeOK, Resume, At, setup, ghost
<1>2. FramesFit'
  BY <1>1, FunctorThread, PopFrames
<1>3. TypeOK'
  BY <1>1, <1>2 DEF TypeOK, Resume, engine, setup, ghost
<1> QED
  BY <1>3 DEF ForwardTypeOK, Resume

(***************************************************************************)
(* The end of a task that forwards                                         *)
(***************************************************************************)
LEMMA DeleteForwarderType ==
  ASSUME TypeOK, result \in [Tasks -> Nodes \cup {NoTask}], NEW x \in Threads, DeleteForwarder(x)
  PROVE  TypeOK'
<1>1. PICK f \in Forwarders : Deletes(x, f) /\ result[f] # NoTask /\ Free(f) /\ ReleaseResult(x, result[f])
  BY DEF DeleteForwarder
<1> DEFINE r == result[f]
           n == var[r].cur
           p == var[r].port
<1>2. f \in Nodes /\ r \in Nodes /\ todo[x] # <<>>
  BY <1>1, NodesApart DEF Forwarders, Deletes
<1>3. var[r] \in OoxVar
  BY <1>2 DEF TypeOK
<1>4. n \in Nodes /\ p \in Port
  BY <1>3 DEF OoxVar
<1>5. /\ var' = [var EXCEPT ![r] = [var[r] EXCEPT !.live = FALSE]]
      /\ nextWriter' = [nextWriter EXCEPT ![n][p] = FinalOwner(r)]
      /\ Then(x, IF nextWriter[n][p] = Ready THEN <<F("dec", n, p, 1)>> ELSE <<>>)
  BY <1>1 DEF ReleaseResult
<1>6. args' = args /\ making' = making /\ phase' = phase
  BY DEF DeleteForwarder, ghost
<1>7. nextWriter' \in [Nodes -> [Port -> NextWriter]]
  <2> HIDE DEF n, p, r
  <2>1. FinalOwner(r) \in NextWriter
    BY <1>2, NextWriterTypes DEF FinalOwner
  <2> QED
    BY <1>4, <1>5, <2>1, NextWriterUpdate
<1>8. FramesFit'
  <2> HIDE DEF n, p, r
  <2>1. F("dec", n, p, 1) \in FrameOf(x)
    BY <1>4, PlainFrame, NodesApart DEF WaitOps, BodyOps, CountOps
  <2> QED
    BY <1>2, <1>5, <1>6, <2>1, PopFrames, NextFrame
<1>9. var' \in [Nodes -> OoxVar]
  <2> DEFINE e == [var[r] EXCEPT !.live = FALSE]
  <2>1. e \in OoxVar
    BY <1>3, <1>4, VarEdits
  <2>2. var' = [var EXCEPT ![r] = e]
    BY <1>5
  <2> HIDE DEF e, r
  <2> QED
    BY <1>2, <2>1, <2>2, VarUpdate
<1>10. node' \in [Nodes -> {"unborn", "alive", "freed"}] /\ life' \in [Nodes -> Int]
  BY <1>1, <1>2, FreeType
<1> QED
  BY <1>7, <1>8, <1>9, <1>10 DEF TypeOK, DeleteForwarder, ghost

(***************************************************************************)
(* The theorem                                                             *)
(***************************************************************************)
LEMMA InitForward == ForwardInit => ForwardTypeOK /\ HoldsResult
<1> SUFFICES ASSUME ForwardInit
             PROVE  ForwardTypeOK /\ HoldsResult
  OBVIOUS
<1>1. TypeOK
  BY InitType DEF ForwardInit
<1> QED
  BY <1>1 DEF ForwardInit, ForwardTypeOK, HoldsResult, Forwarders

LEMMA NextForwardType ==
  ASSUME ForwardTypeOK, HoldsResult, [ForwardNext]_allVars
  PROVE  ForwardTypeOK'
<1> USE DEF ForwardTypeOK
<1>1. CASE UNCHANGED allVars
  <2>1. TypeOK'
    BY <1>1, NextType DEF allVars
  <2> QED
    BY <1>1, <2>1, Unforwarded DEF allVars
<1>2. ASSUME NEW x \in Clients, Calls(x) \/ Waits(x)
      PROVE  ForwardTypeOK'
  <2>1. TypeOK'
    BY <1>2, ProgramTypes, AllocateType, LaunchType, DropType, WaitVarType
    DEF Calls, Waits, MakeVar, LaunchTask, DropLocal, WaitFor
  <2> QED
    BY <1>2, <2>1, Unforwarded DEF Calls, Waits
<1>3. ASSUME NEW x \in Clients, ForwardClientStep(x)
      PROVE  ForwardTypeOK'
  BY <1>3, Unforwarded, ReadArgType, LinkType, HopType, LateType, HoldType, RedirectVarType,
     MoveType, WriteArgType, BindType, ReturnType, WaitType, BlockType
  DEF ForwardClientStep, ClientStep
<1>4. ASSUME NEW x \in Threads, ForwardCountStep(x)
      PROVE  ForwardTypeOK'
  <2>1. TypeOK'
    BY <1>4, DeleteForwarderType, PreType, JoinType, RelType, SubType, DecType
    DEF ForwardCountStep, CountStep
  <2> QED
    BY <1>4, <2>1, Unforwarded DEF ForwardCountStep
<1>5. ASSUME NEW t \in Tasks, ForwardWorkerStep(t)
      PROVE  ForwardTypeOK'
  <2>1. CASE WorkerStep(t) /\ UNCHANGED forwarding
    BY <2>1, Unforwarded, StartType, FinishType, ExchangeType, FlowType, OutType, WakeupType
    DEF WorkerStep
  <2> QED
    BY <1>5, <2>1, StartFunctorType, EmplaceType, AttachType, ResumeType DEF ForwardWorkerStep
<1>6. CASE ForwardRest
  <2>1. TypeOK'
    BY <1>6, NextType DEF ForwardRest, Rest
  <2> QED
    BY <1>6, <2>1, Unforwarded DEF ForwardRest
<1> QED
  BY <1>1, <1>2, <1>3, <1>4, <1>5, <1>6 DEF ForwardNext

(* Only the four steps of its execute() take a forwarder on, and one of them gives it its
   result. *)
LEMMA NextHoldsResult ==
  ASSUME ForwardTypeOK, HoldsResult, [ForwardNext]_allVars
  PROVE  HoldsResult'
<1>1. CASE UNCHANGED forwarding
  BY <1>1 DEF HoldsResult, Forwarders, Returns, forwarding
<1>2. ASSUME NEW f \in Tasks, StartFunctor(f)
      PROVE  HoldsResult'
  BY <1>2 DEF StartFunctor, HoldsResult, ForwardTypeOK, Forwarders, Returns
<1>3. ASSUME NEW f \in Tasks, Emplace(f)
      PROVE  HoldsResult'
  BY <1>3 DEF Emplace, HoldsResult, ForwardTypeOK, Forwarders, Returns
<1>4. ASSUME NEW f \in Tasks, Attach(f)
      PROVE  HoldsResult'
  <2>1. /\ stage[f] = "attach" /\ prog' = prog /\ result' = result
        /\ \E s \in {"suspended", "ready"} : stage' = [stage EXCEPT ![f] = s]
    BY <1>4 DEF Attach
  <2> QED
    BY <2>1 DEF HoldsResult, ForwardTypeOK, Forwarders, Returns
<1>5. ASSUME NEW f \in Tasks, Resume(f)
      PROVE  HoldsResult'
  BY <1>5 DEF Resume, HoldsResult, ForwardTypeOK, Forwarders, Returns
<1> QED
  BY <1>1, <1>2, <1>3, <1>4, <1>5
  DEF ForwardNext, Calls, Waits, ForwardClientStep, ForwardCountStep, ForwardWorkerStep,
      ForwardRest, allVars

(* Whatever its functors launch and return, the engine's words, frames and counts stay of
   their kinds. *)
THEOREM ForwardTyped == ForwardSpec => []ForwardTypeOK
<1>1. ForwardSpec => [](ForwardTypeOK /\ HoldsResult)
  BY InitForward, NextForwardType, NextHoldsResult, PTL DEF ForwardSpec
<1> QED
  BY <1>1, PTL

(* A task that forwards has the var its functor returned from then on, through its
   suspension and for all whom it notifies: nobody finds it without, or with another. *)
THEOREM ResultKept == ForwardSpec => []HoldsResult
<1>1. ForwardSpec => [](ForwardTypeOK /\ HoldsResult)
  BY InitForward, NextForwardType, NextHoldsResult, PTL DEF ForwardSpec
<1> QED
  BY <1>1, PTL
=============================================================================
