----------------------------- MODULE Ipc_proofs -----------------------------
(***************************************************************************)
(* Proofs about semaphores, mutexes and queues as tasks and interrupt      *)
(* handlers use them, for any number of tasks, mutexes and messages, every *)
(* queue length, every maximal count and every nesting of mutexes: permits *)
(* are conserved, a mutex has one owner, a borrowed priority is given      *)
(* back, no slot of a queue is lost or used twice, and the ring implements *)
(* a bounded first-in first-out queue.                                     *)
(***************************************************************************)
EXTENDS Ipc, PendList_proofs

(***************************************************************************)
(* What all three need of the processor: a task that waits does not go on  *)
(* with its code.  Between the call that makes it wait and the switch it   *)
(* is still the running task, but a switch is due and cannot be refused.   *)
(***************************************************************************)
ProcInv ==
  /\ waiting \subseteq Tasks /\ timed \subseteq waiting
  /\ running \in Tasks \cup {Idle}
  /\ running \in waiting => resched /\ lockDepth = 0

(***************************************************************************)
(* The objects of the kinds that are not used in a behaviour stay as they  *)
(* were initialised.                                                       *)
(***************************************************************************)
OneKind ==
  /\ kind # "sem" => ~semStat /\ semList = <<>> /\ semPending = {}
  /\ kind # "mux" => /\ muxStat = {} /\ muxPending = [t \in Tasks |-> {}]
                     /\ muxList = [m \in Muxes |-> <<>>]
  /\ kind # "queue" => /\ ~queueState /\ queuePending = [t \in Tasks |-> {}]
                       /\ readWriteList = [s \in Sides |-> <<>>]

-----------------------------------------------------------------------------
\* The steps by which the kernel objects touch the processor's state.
LEMMA WaitKeeps ==
  ASSUME ProcInv, NEW limited, Wait(limited), running \in Tasks, lockDepth = 0,
         UNCHANGED <<running, lockDepth>>
  PROVE  ProcInv'
<1>1. waiting' = waiting \cup {running} /\ resched'
  BY DEF Wait
<1>2. timed' \subseteq waiting'
  BY <1>1 DEF Wait, ProcInv
<1> QED
  BY <1>1, <1>2 DEF ProcInv

LEMMA WakeKeeps ==
  ASSUME ProcInv, NEW ts, Wake(ts), NEW inHandler, Reschedule(inHandler),
         UNCHANGED <<running, lockDepth>>
  PROVE  ProcInv'
<1>1. waiting' \subseteq waiting /\ timed' \subseteq waiting'
  BY DEF Wake, ProcInv
<1>2. resched => resched'
  BY DEF Reschedule
<1> QED
  BY <1>1, <1>2 DEF ProcInv

\* The task that goes on with its code does not wait.
LEMMA InTaskAwake ==
  ASSUME ProcInv, InTask
  PROVE  running \in Tasks /\ running \notin waiting
  BY DEF ProcInv, InTask

\* A list that is empty stays empty when tasks leave.
LEMMA LeaveEmpty ==
  ASSUME NEW ts
  PROVE  Leave(<<>>, ts) = <<>>
<1>1. <<>> \in Seq({})
  OBVIOUS
<1>2. ToSet(<<>>) = {}
  BY <1>1, EmptyMembers
<1>3. Leave(<<>>, ts) \in Seq({}) /\ ToSet(Leave(<<>>, ts)) = ToSet(<<>>) \ ts
  BY <1>1, LeaveMembers
<1>4. ToSet(Leave(<<>>, ts)) = {}
  BY <1>2, <1>3
<1> HIDE DEF ToSet, Leave
<1> QED
  BY <1>3, <1>4, EmptyMembers

-----------------------------------------------------------------------------
LEMMA InitProc == IpcInit => ProcInv /\ OneKind
<1> SUFFICES ASSUME IpcInit PROVE ProcInv /\ OneKind
  OBVIOUS
<1>1. ProcInv
  <2>1. waiting = {} /\ timed = {} /\ running \in Candidates
    BY DEF IpcInit, ProcInit
  <2>2. Candidates \subseteq Tasks \cup {Idle}
    BY DEF Candidates, Strongest, Runnable
  <2> QED
    BY <2>1, <2>2 DEF ProcInv
<1>2. OneKind
  BY DEF IpcInit, SemInit, MuxInit, QueueInit, OneKind
<1> QED
  BY <1>1, <1>2

\* The steps of the processor alone.
LEMMA ProcOnlyKeeps ==
  ASSUME ProcInv,
         \/ TaskLock \/ TaskUnlock \/ Switch \/ NoSwitch
         \/ \E t \in Suspendable : TaskSuspend(t, TRUE) \/ TaskResume(t, TRUE)
         \/ \E ts \in SUBSET Tasks : Elapse(ts)
  PROVE  ProcInv'
<1>1. CASE TaskLock
  BY <1>1 DEF TaskLock, InTask, ProcInv
<1>2. CASE TaskUnlock
  BY <1>2 DEF TaskUnlock, InTask, ProcInv
<1>3. CASE Switch
  <2>1. running' \in Candidates /\ waiting' = waiting /\ timed' = timed
    BY <1>3 DEF Switch
  <2>2. Candidates \subseteq (Tasks \ waiting) \cup {Idle}
    BY DEF Candidates, Strongest, Runnable
  <2>3. running' \notin waiting
    BY <2>1, <2>2, TasksAssumption DEF ProcInv
  <2> QED
    BY <2>1, <2>2, <2>3 DEF ProcInv
<1>4. CASE NoSwitch
  <2>1. running \notin waiting
    BY <1>4 DEF NoSwitch, ProcInv
  <2> QED
    BY <1>4, <2>1 DEF NoSwitch, ProcInv
<1>5. ASSUME NEW t, TaskSuspend(t, TRUE) \/ TaskResume(t, TRUE) PROVE ProcInv'
  <2>1. UNCHANGED <<waiting, timed, running, lockDepth>>
    BY <1>5 DEF TaskSuspend, TaskResume
  <2>2. resched => resched'
    BY <1>5 DEF TaskSuspend, TaskResume, Reschedule
  <2> QED
    BY <2>1, <2>2 DEF ProcInv
<1>6. ASSUME NEW ts \in SUBSET Tasks, Elapse(ts) PROVE ProcInv'
  <2>1. /\ waiting' \subseteq waiting /\ timed' \subseteq waiting'
        /\ UNCHANGED <<running, lockDepth>>
    BY <1>6 DEF Elapse, Wake, ProcInv
  <2>2. resched => resched'
    BY <1>6 DEF Elapse
  <2> QED
    BY <2>1, <2>2 DEF ProcInv
<1> QED
  BY <1>1, <1>2, <1>3, <1>4, <1>5, <1>6

-----------------------------------------------------------------------------
(***************************************************************************)
(* The steps of IpcNext by the kind of object they are about.              *)
(***************************************************************************)
SemStep ==
  /\ kind = "sem" /\ UNCHANGED <<muxVars, queueVars, kind>>
  /\ (Free /\ SemCall) \/ SemPendReturns \/ LOS_SemPost(TRUE)

MuxStep ==
  /\ kind = "mux" /\ UNCHANGED <<semVars, queueVars, kind>>
  /\ (Free /\ MuxCall) \/ MuxPendReturns

QueueStep ==
  /\ kind = "queue" /\ UNCHANGED <<semVars, muxVars, kind>>
  /\ \/ Free /\ QueueCall
     \/ QueueOperateReturns
     \/ \E op \in Operations : QueueOperateAtOnce(op, TRUE)

ElapseStep(ts) ==
  Elapse(ts) /\ SemElapse(ts) /\ MuxElapse(ts) /\ QueueElapse(ts) /\ UNCHANGED kind

ProcStep ==
  /\ \/ TaskLock \/ TaskUnlock \/ Switch \/ NoSwitch
     \/ \E t \in Suspendable : TaskSuspend(t, TRUE) \/ TaskResume(t, TRUE)
  /\ UNCHANGED objectVars

\* An object that is not used is not touched, by tasks or by handlers.
LEMMA StepsByKind ==
  ASSUME ProcInv, OneKind, IpcNext
  PROVE  SemStep \/ MuxStep \/ QueueStep \/ ProcStep \/ \E ts \in SUBSET Tasks : ElapseStep(ts)
<1>1. ASSUME SemPendReturns PROVE kind = "sem"
  BY <1>1 DEF SemPendReturns, OneKind
<1>2. ASSUME LOS_SemPost(TRUE) PROVE kind = "sem"
  BY <1>2 DEF LOS_SemPost, OneKind
<1>3. ASSUME MuxPendReturns PROVE kind = "mux"
  <2>1. InTask /\ muxPending[running] # {}
    BY <1>3 DEF MuxPendReturns
  <2>2. running \in Tasks
    BY <2>1, InTaskAwake
  <2> QED
    BY <2>1, <2>2 DEF OneKind
<1>4. ASSUME QueueOperateReturns PROVE kind = "queue"
  <2>1. InTask /\ queuePending[running] # {}
    BY <1>4 DEF QueueOperateReturns
  <2>2. running \in Tasks
    BY <2>1, InTaskAwake
  <2> QED
    BY <2>1, <2>2 DEF OneKind
<1>5. ASSUME NEW op \in Operations, QueueOperateAtOnce(op, TRUE) PROVE kind = "queue"
  BY <1>5 DEF QueueOperateAtOnce, OneKind
<1> QED
  BY <1>1, <1>2, <1>3, <1>4, <1>5
     DEF IpcNext, SemStep, MuxStep, QueueStep, ProcStep, ElapseStep

\* What a step on a semaphore does to the processor.
LEMMA SemStepProc ==
  ASSUME ProcInv, SemStep
  PROVE  ProcInv'
<1>1. ASSUME UNCHANGED procVars PROVE ProcInv'
  BY <1>1 DEF procVars, ProcInv
<1>2. CASE \E limited \in BOOLEAN : SemPendWaits(limited)
  <2>1. PICK limited \in BOOLEAN : SemPendWaits(limited)
    BY <1>2
  <2>2. running \in Tasks
    BY <2>1, InTaskAwake DEF SemPendWaits
  <2> QED
    BY <2>1, <2>2, WaitKeeps DEF SemPendWaits
<1>3. CASE LOS_SemPost(FALSE) \/ LOS_SemPost(TRUE)
  <2>1. PICK inHandler \in BOOLEAN : LOS_SemPost(inHandler)
    BY <1>3
  <2>2. CASE semList = <<>>
    BY <2>1, <2>2 DEF LOS_SemPost, ProcInv
  <2>3. CASE semList # <<>>
    BY <2>1, <2>3, WakeKeeps DEF LOS_SemPost
  <2> QED
    BY <2>2, <2>3
<1> QED
  BY <1>1, <1>2, <1>3
     DEF SemStep, SemCall, SemCreate, LOS_SemDelete, SemPendTakes, SemPendReturns

LEMMA MuxStepProc ==
  ASSUME ProcInv, MuxStep
  PROVE  ProcInv'
<1>1. ASSUME UNCHANGED procVars PROVE ProcInv'
  BY <1>1 DEF procVars, ProcInv
<1>2. ASSUME NEW m \in Muxes, NEW limited \in BOOLEAN, MuxPendWaits(m, limited)
      PROVE  ProcInv'
  <2>1. running \in Tasks
    BY <1>2, InTaskAwake DEF MuxPendWaits
  <2> QED
    BY <1>2, <2>1, WaitKeeps DEF MuxPendWaits
<1>3. ASSUME NEW m \in Muxes, MuxPostLast(m) PROVE ProcInv'
  <2>1. CASE muxList[m] = <<>>
    BY <1>3, <2>1 DEF MuxPostLast, ProcInv
  <2>2. CASE muxList[m] # <<>>
    BY <1>3, <2>2, WakeKeeps DEF MuxPostLast
  <2> QED
    BY <2>1, <2>2
<1> QED
  BY <1>1, <1>2, <1>3
     DEF MuxStep, MuxCall, LOS_MuxCreate, LOS_MuxDelete, MuxPendTakes, MuxPendNests,
         MuxPostNested, MuxPendReturns

LEMMA QueueStepProc ==
  ASSUME ProcInv, QueueStep
  PROVE  ProcInv'
<1>1. ASSUME UNCHANGED procVars PROVE ProcInv'
  BY <1>1 DEF procVars, ProcInv
<1>2. ASSUME NEW side, NEW counts, NEW inHandler, GiveOther(side, counts, inHandler),
             UNCHANGED <<running, lockDepth>>
      PROVE  ProcInv'
  <2>1. CASE readWriteList[OtherSide(side)] # <<>>
    BY <1>2, <2>1, WakeKeeps DEF GiveOther
  <2>2. CASE readWriteList[OtherSide(side)] = <<>>
    BY <1>2, <2>2 DEF GiveOther, ProcInv
  <2> QED
    BY <2>1, <2>2
<1>3. ASSUME NEW op, NEW inHandler, QueueOperateAtOnce(op, inHandler) PROVE ProcInv'
  BY <1>2, <1>3 DEF QueueOperateAtOnce
<1>4. ASSUME NEW op, NEW limited, QueueOperateWaits(op, limited) PROVE ProcInv'
  <2>1. running \in Tasks
    BY <1>4, InTaskAwake DEF QueueOperateWaits
  <2> QED
    BY <1>4, <2>1, WaitKeeps DEF QueueOperateWaits
<1>5. CASE QueueOperateReturns
  <2>1. CASE running \in queueExpired
    BY <1>5, <2>1 DEF QueueOperateReturns, ProcInv
  <2>2. CASE running \notin queueExpired
    BY <1>2, <1>5, <2>2 DEF QueueOperateReturns
  <2> QED
    BY <2>1, <2>2
<1> QED
  BY <1>1, <1>3, <1>4, <1>5
     DEF QueueStep, QueueCall, LOS_QueueCreate, LOS_QueueDelete

LEMMA NextProc ==
  ASSUME ProcInv, OneKind, [IpcNext]_vars
  PROVE  ProcInv' /\ OneKind'
<1>1. CASE UNCHANGED vars
  BY <1>1 DEF vars, procVars, objectVars, semVars, muxVars, queueVars, ProcInv, OneKind
<1>2. CASE SemStep
  BY <1>2, SemStepProc DEF SemStep, OneKind, muxVars, queueVars
<1>3. CASE MuxStep
  BY <1>3, MuxStepProc DEF MuxStep, OneKind, semVars, queueVars
<1>4. CASE QueueStep
  BY <1>4, QueueStepProc DEF QueueStep, OneKind, semVars, muxVars
<1>5. CASE ProcStep
  BY <1>5, ProcOnlyKeeps DEF ProcStep, OneKind, objectVars, semVars, muxVars, queueVars
<1>6. ASSUME NEW ts \in SUBSET Tasks, ElapseStep(ts) PROVE ProcInv' /\ OneKind'
  <2>1. ProcInv'
    BY <1>6, ProcOnlyKeeps DEF ElapseStep
  <2>2. kind # "sem" => ~semStat' /\ semList' = <<>> /\ semPending' = {}
    BY <1>6, LeaveEmpty DEF ElapseStep, SemElapse, OneKind
  <2>3. kind # "mux" => /\ muxStat' = {} /\ muxPending' = [t \in Tasks |-> {}]
                        /\ muxList' = [m \in Muxes |-> <<>>]
    BY <1>6, LeaveEmpty DEF ElapseStep, MuxElapse, OneKind
  <2>4. kind # "queue" => /\ ~queueState' /\ queuePending' = [t \in Tasks |-> {}]
                          /\ readWriteList' = [s \in Sides |-> <<>>]
    BY <1>6, LeaveEmpty DEF ElapseStep, QueueElapse, OneKind
  <2> QED
    BY <1>6, <2>1, <2>2, <2>3, <2>4 DEF ElapseStep, OneKind
<1> QED
  BY <1>1, <1>2, <1>3, <1>4, <1>5, <1>6, StepsByKind

\* A waiting task never goes on with its code.
LEMMA ProcInvariance == IpcSpec => [](ProcInv /\ OneKind)
<1>1. (ProcInv /\ OneKind) /\ [IpcNext]_vars => (ProcInv /\ OneKind)'
  BY NextProc
<1> QED
  BY InitProc, <1>1, PTL DEF IpcSpec

-----------------------------------------------------------------------------
(***************************************************************************)
(* Semaphores.  PermitsConserved is not inductive: that a time-out and a   *)
(* post cannot both reach a task rests on the list holding exactly the     *)
(* callers that still wait.                                                *)
(***************************************************************************)
SemInv ==
  /\ semCount \in Nat /\ semCount <= maxSemCount
  /\ semList \in Seq(Tasks) /\ IsInjective(semList)
  /\ semPending \subseteq Tasks /\ semExpired \subseteq semPending
  /\ ToSet(semList) = semPending \cap waiting
  /\ semExpired \cap waiting = {}
  /\ ~semStat => semCount = 0
  /\ semList # <<>> => semStat /\ semCount = 0
  /\ permits = semCount + Cardinality(semPending \ (semExpired \cup waiting))

\* The callers that were handed a permit and have not noticed.
SemHanded == semPending \ (semExpired \cup waiting)

LEMMA HandedIs ==
  ASSUME SemInv
  PROVE  /\ Handed = SemHanded
         /\ IsFiniteSet(SemHanded) /\ Cardinality(SemHanded) \in Nat
<1>1. \A t : Contains(semList, t) <=> t \in ToSet(semList)
  BY ContainsToSet DEF SemInv
<1>2. Handed = SemHanded
  BY <1>1 DEF SemInv, Handed, SemHanded
<1>3. SemHanded \in SUBSET Tasks
  BY DEF SemInv, SemHanded
<1>4. IsFiniteSet(SemHanded)
  BY <1>3, TasksAssumption, FS_Subset
<1> QED
  BY <1>2, <1>4, FS_CardinalityType

\* The invariant says what PermitsConserved says.
LEMMA SemInvConserves == SemInv => PermitsConserved
<1> SUFFICES ASSUME SemInv PROVE PermitsConserved
  OBVIOUS
<1>1. \A t : Contains(semList, t) <=> t \in ToSet(semList)
  BY ContainsToSet DEF SemInv
<1>2. permits = semCount + Cardinality(Handed)
  BY HandedIs DEF SemInv, SemHanded
<1>3. \A t \in Tasks : Contains(semList, t) => t \in semPending /\ t \notin semExpired
  BY <1>1 DEF SemInv
<1> QED
  BY <1>2, <1>3 DEF SemInv, PermitsConserved

LEMMA SemInvInit == IpcInit => SemInv
<1> SUFFICES ASSUME IpcInit PROVE SemInv
  OBVIOUS
<1>1. /\ semStat = FALSE /\ semCount = 0 /\ semList = <<>> /\ semPending = {}
      /\ semExpired = {} /\ permits = 0
  BY DEF IpcInit, SemInit
<1>2. <<>> \in Seq(Tasks)
  OBVIOUS
<1>3. ToSet(<<>>) = {} /\ IsInjective(<<>>)
  BY <1>2, EmptyMembers
<1>4. Cardinality({}) = 0 /\ semPending \ (semExpired \cup waiting) = {}
  BY <1>1, FS_EmptySet
<1> QED
  BY <1>1, <1>2, <1>3, <1>4, SemAssumption DEF SemInv

\* Steps that leave the semaphore and the waiting of its callers alone.
LEMMA SemUntouched ==
  ASSUME SemInv, UNCHANGED semVars, semPending \cap waiting' = semPending \cap waiting
  PROVE  SemInv'
<1>1. semPending \ (semExpired \cup waiting') = semPending \ (semExpired \cup waiting)
  OBVIOUS
<1>2. semExpired \cap waiting' = {}
  BY DEF SemInv
<1> QED
  BY <1>1, <1>2 DEF SemInv, semVars

\* LOS_SemPost hands its permit to the first waiting task or to the counter.
LEMMA SemPostKeeps ==
  ASSUME SemInv, NEW inHandler, LOS_SemPost(inHandler)
  PROVE  SemInv'
<1>h. IsFiniteSet(SemHanded) /\ Cardinality(SemHanded) \in Nat
  BY HandedIs
<1>1. CASE semList = <<>>
  <2>1. /\ semCount' = semCount + 1 /\ permits' = permits + 1
        /\ UNCHANGED <<waiting, semList, semStat, semPending, semExpired>>
        /\ semCount # maxSemCount /\ semStat
    BY <1>1 DEF LOS_SemPost
  <2>2. SemHanded' = SemHanded
    BY <2>1 DEF SemHanded
  <2>3. permits' = semCount' + Cardinality(SemHanded')
    BY <1>h, <2>1, <2>2 DEF SemInv, SemHanded
  <2> QED
    BY <1>1, <2>1, <2>3, SemAssumption DEF SemInv, SemHanded
<1>2. CASE semList # <<>>
  <2> DEFINE t == Head(semList)
  <2>1. /\ semCount' = semCount /\ permits' = permits + 1
        /\ semList' = Tail(semList) /\ waiting' = waiting \ {t}
        /\ UNCHANGED <<semStat, semPending, semExpired>>
    BY <1>2 DEF LOS_SemPost, Wake
  <2>2. /\ semList' \in Seq(Tasks) /\ IsInjective(semList')
        /\ t \in ToSet(semList) /\ ToSet(semList') = ToSet(semList) \ {t}
    BY <1>2, <2>1, TailMembers DEF SemInv
  <2> HIDE DEF t
  <2>3. ToSet(semList') = semPending \cap waiting' /\ semExpired \cap waiting' = {}
    BY <2>1, <2>2 DEF SemInv
  <2>4. t \in semPending /\ t \in waiting /\ t \notin semExpired
    BY <2>2 DEF SemInv
  <2>5. SemHanded' = SemHanded \cup {t} /\ t \notin SemHanded
    BY <2>1, <2>4 DEF SemHanded
  <2>6. Cardinality(SemHanded') = Cardinality(SemHanded) + 1
    BY <1>h, <2>5, FS_AddElement
  <2>7. permits' = semCount' + Cardinality(SemHanded')
    BY <1>h, <2>1, <2>6 DEF SemInv, SemHanded
  <2> QED
    BY <1>2, <2>1, <2>2, <2>3, <2>7 DEF SemInv, SemHanded
<1> QED
  BY <1>1, <1>2

\* The caller that has to wait joins the list.
LEMMA SemPendWaitsKeeps ==
  ASSUME ProcInv, SemInv, Free, NEW limited, SemPendWaits(limited)
  PROVE  SemInv'
<1>1. /\ semStat /\ semCount = 0
      /\ semList' = Append(semList, running)
      /\ semPending' = semPending \cup {running}
      /\ waiting' = waiting \cup {running}
      /\ UNCHANGED <<semStat, semCount, semExpired, permits>>
  BY DEF SemPendWaits, Wait
<1>2. running \in Tasks /\ running \notin waiting /\ running \notin semPending
  BY InTaskAwake DEF SemPendWaits, Free
<1>3. running \notin ToSet(semList)
  BY <1>2 DEF SemInv
<1>4. /\ semList' \in Seq(Tasks) /\ IsInjective(semList')
      /\ ToSet(semList') = ToSet(semList) \cup {running}
  BY <1>1, <1>2, <1>3, AppendMembers DEF SemInv
<1>5. ToSet(semList') = semPending' \cap waiting'
  BY <1>1, <1>2, <1>4 DEF SemInv
<1>6. semExpired' \cap waiting' = {} /\ semExpired' \subseteq semPending'
  BY <1>1, <1>2 DEF SemInv
<1>7. SemHanded' = SemHanded
  BY <1>1, <1>2 DEF SemHanded
<1> QED
  BY <1>1, <1>2, <1>4, <1>5, <1>6, <1>7 DEF SemInv, SemHanded

\* A caller that goes on has been handed a permit or was timed out.
LEMMA SemPendReturnsKeeps ==
  ASSUME ProcInv, SemInv, SemPendReturns
  PROVE  SemInv'
<1>h. IsFiniteSet(SemHanded) /\ Cardinality(SemHanded) \in Nat
  BY HandedIs
<1>p. permits = semCount + Cardinality(SemHanded) /\ semCount \in Nat
  BY DEF SemInv, SemHanded
<1>1. /\ running \in semPending
      /\ semPending' = semPending \ {running} /\ semExpired' = semExpired \ {running}
      /\ permits' = IF running \in semExpired THEN permits ELSE permits - 1
      /\ UNCHANGED <<waiting, semStat, semCount, semList>>
  BY DEF SemPendReturns, procVars
<1>2. running \notin waiting
  BY InTaskAwake DEF SemPendReturns
<1>3. ToSet(semList') = semPending' \cap waiting'
  BY <1>1, <1>2 DEF SemInv
<1>4. permits' = semCount' + Cardinality(SemHanded')
  <2>1. CASE running \in semExpired
    <3>1. SemHanded' = SemHanded
      BY <1>1, <2>1 DEF SemHanded
    <3> QED
      BY <1>1, <1>p, <2>1, <3>1
  <2>2. CASE running \notin semExpired
    <3>1. SemHanded' = SemHanded \ {running} /\ running \in SemHanded
      BY <1>1, <1>2, <2>2 DEF SemHanded
    <3>2. Cardinality(SemHanded') = Cardinality(SemHanded) - 1
      BY <1>h, <3>1, FS_RemoveElement
    <3> QED
      BY <1>1, <1>h, <1>p, <2>2, <3>2
  <2> QED
    BY <2>1, <2>2
<1>5. semPending' \subseteq Tasks /\ semExpired' \subseteq semPending' /\ semExpired' \cap waiting' = {}
  BY <1>1 DEF SemInv
<1> QED
  BY <1>1, <1>3, <1>4, <1>5 DEF SemInv, SemHanded

\* A task whose time is over leaves the list: it was not handed a permit before,
\* and cannot be handed one after.
LEMMA SemElapseKeeps ==
  ASSUME ProcInv, SemInv, NEW ts \in SUBSET Tasks, Elapse(ts), SemElapse(ts)
  PROVE  SemInv'
<1>1. /\ semList' = Leave(semList, ts)
      /\ semExpired' = semExpired \cup (ts \cap semPending)
      /\ UNCHANGED <<semStat, semCount, semPending, permits>>
      /\ ts \subseteq timed /\ waiting' = waiting \ ts
  BY DEF SemElapse, Elapse, Wake
<1>2. /\ semList' \in Seq(Tasks) /\ IsInjective(semList')
      /\ ToSet(semList') = ToSet(semList) \ ts
  BY <1>1, LeaveMembers DEF SemInv
<1>3. ts \subseteq waiting
  BY <1>1 DEF ProcInv
<1>4. ToSet(semList') = semPending' \cap waiting'
  BY <1>1, <1>2 DEF SemInv
<1>5. semExpired' \cap waiting' = {} /\ semExpired' \subseteq semPending'
  BY <1>1 DEF SemInv
<1>6. SemHanded' = SemHanded
  BY <1>1, <1>3 DEF SemHanded
<1>7. semList' # <<>> => semList # <<>>
  BY <1>1, LeaveEmpty
<1> QED
  BY <1>1, <1>2, <1>4, <1>5, <1>6, <1>7 DEF SemInv, SemHanded

LEMMA SemInvNext ==
  ASSUME ProcInv, OneKind, SemInv, [IpcNext]_vars
  PROVE  SemInv'
<1>p. permits = semCount + Cardinality(SemHanded) /\ semCount \in Nat
  BY DEF SemInv, SemHanded
<1>h. Cardinality(SemHanded) \in Nat
  BY HandedIs
<1>1. CASE UNCHANGED vars
  BY <1>1, SemUntouched DEF vars, objectVars, procVars
<1>2. CASE ProcStep
  BY <1>2, SemUntouched DEF ProcStep, objectVars, TaskLock, TaskUnlock, Switch, NoSwitch,
                            TaskSuspend, TaskResume
<1>3. CASE MuxStep \/ QueueStep
  BY <1>3, SemUntouched DEF MuxStep, QueueStep, OneKind
<1>4. ASSUME NEW ts \in SUBSET Tasks, ElapseStep(ts) PROVE SemInv'
  BY <1>4, SemElapseKeeps DEF ElapseStep
<1>5. CASE SemStep
  <2>1. CASE Free /\ SemCall
    <3>1. ASSUME NEW count \in SemCounts, SemCreate(count) PROVE SemInv'
      <4>1. /\ ~semStat /\ semStat' /\ semCount' = count /\ count <= maxSemCount
            /\ semList' = <<>> /\ permits' = permits + count
            /\ UNCHANGED <<waiting, semPending, semExpired>>
        BY <3>1 DEF SemCreate, procVars
      <4>2. semList = <<>> /\ semCount = 0
        BY <4>1 DEF SemInv
      <4>3. SemHanded' = SemHanded
        BY <4>1 DEF SemHanded
      <4>4. permits' = semCount' + Cardinality(SemHanded') /\ semCount' \in Nat
        BY <1>p, <1>h, <4>1, <4>2, <4>3, SemAssumption
      <4> QED
        BY <4>1, <4>2, <4>4 DEF SemInv, SemHanded
    <3>2. CASE LOS_SemDelete
      <4>1. /\ semStat' = FALSE /\ semCount' = 0 /\ semList = <<>>
            /\ permits' = permits - semCount
            /\ UNCHANGED <<waiting, semPending, semExpired, semList>>
        BY <3>2 DEF LOS_SemDelete, procVars
      <4>2. SemHanded' = SemHanded
        BY <4>1 DEF SemHanded
      <4>3. permits' = semCount' + Cardinality(SemHanded')
        BY <1>p, <1>h, <4>1, <4>2
      <4> QED
        BY <4>1, <4>3, SemAssumption DEF SemInv, SemHanded
    <3>3. CASE SemPendTakes
      <4>1. /\ semStat /\ semCount > 0 /\ semCount' = semCount - 1 /\ permits' = permits - 1
            /\ UNCHANGED <<waiting, semStat, semPending, semExpired, semList>>
        BY <3>3 DEF SemPendTakes, procVars
      <4>2. SemHanded' = SemHanded
        BY <4>1 DEF SemHanded
      <4>3. permits' = semCount' + Cardinality(SemHanded')
        BY <1>p, <1>h, <4>1, <4>2
      <4> QED
        BY <1>p, <4>1, <4>3, SemAssumption DEF SemInv, SemHanded
    <3> QED
      BY <2>1, <3>1, <3>2, <3>3, SemPendWaitsKeeps, SemPostKeeps DEF SemCall
  <2> QED
    BY <1>5, <2>1, SemPendReturnsKeeps, SemPostKeeps DEF SemStep
<1> QED
  BY <1>1, <1>2, <1>3, <1>4, <1>5, StepsByKind

\* No permit is lost or made up, for any number of tasks.
THEOREM PermitsAlwaysConserved == IpcSpec => []PermitsConserved
<1>1. ProcInv /\ OneKind /\ SemInv /\ [IpcNext]_vars => SemInv'
  BY SemInvNext
<1> QED
  BY <1>1, SemInvInit, SemInvConserves, ProcInvariance, PTL DEF IpcSpec

-----------------------------------------------------------------------------
(* Mutexes *)

(***************************************************************************)
(* MutualExclusion is not inductive: the hand-over of LOS_MuxPost is right *)
(* because the list holds exactly the callers that still wait, each once   *)
(* and for one mutex, and a time-out reaches only those.                   *)
(***************************************************************************)
MuxTypes ==
  /\ muxStat \subseteq Muxes
  /\ muxCount \in [Muxes -> Nat]
  /\ muxOwner \in [Muxes -> Tasks \cup {NoTask}]
  /\ muxList \in [Muxes -> Seq(Tasks)]
  /\ muxPending \in [Tasks -> SUBSET Muxes]
  /\ muxExpired \subseteq Tasks
  /\ held \in [Tasks -> Seq(Muxes)]

MuxLists ==
  /\ \A m \in Muxes : IsInjective(muxList[m])
  /\ \A m \in Muxes : ToSet(muxList[m]) = {t \in waiting : m \in muxPending[t]}
  /\ \A m \in Muxes : muxList[m] # <<>> => muxCount[m] > 0
  /\ \A m \in Muxes : m \notin muxStat => muxCount[m] = 0
  /\ \A t \in Tasks : \A m, n \in muxPending[t] : m = n
  /\ \A t \in muxExpired : muxPending[t] # {} /\ t \notin waiting

\* How often t has taken m, and whether m has been handed to it.
Entries(t, m) == Cardinality(Places(held[t], m))
Coming(t, m) == m \in muxPending[t] /\ t \notin muxExpired /\ t \notin waiting

MuxOwners ==
  \A m \in Muxes, t \in Tasks :
    Entries(t, m) + (IF Coming(t, m) THEN 1 ELSE 0) = IF muxOwner[m] = t THEN muxCount[m] ELSE 0

MuxInv == MuxTypes /\ MuxLists /\ MuxOwners

-----------------------------------------------------------------------------
LEMMA EntriesNat ==
  ASSUME MuxTypes, NEW t \in Tasks, NEW m \in Muxes
  PROVE  held[t] \in Seq(Muxes) /\ Entries(t, m) \in Nat /\ muxCount[m] \in Nat
<1>1. held[t] \in Seq(Muxes) /\ muxCount[m] \in Nat
  BY DEF MuxTypes
<1> QED
  BY <1>1, PlacesFinite DEF Entries

\* Nobody has a mutex whose count is 0, and none is on its way.
LEMMA NobodyHas ==
  ASSUME MuxInv, NEW m \in Muxes, NEW t \in Tasks,
         muxCount[m] = 0 \/ muxOwner[m] # t
  PROVE  Entries(t, m) = 0 /\ ~Coming(t, m)
<1>1. Entries(t, m) \in Nat
  BY EntriesNat DEF MuxInv
<1>2. Entries(t, m) + (IF Coming(t, m) THEN 1 ELSE 0) = 0
  BY DEF MuxInv, MuxOwners
<1> QED
  BY <1>1, <1>2

LEMMA MuxInvExcludes == MuxInv => MutualExclusion
<1> SUFFICES ASSUME MuxInv, NEW m \in Muxes, NEW t \in Tasks
             PROVE  /\ Taken(t, m) + (IF OnItsWay(t, m) THEN 1 ELSE 0)
                       = IF muxOwner[m] = t THEN muxCount[m] ELSE 0
                    /\ Contains(muxList[m], t) => m \in muxPending[t] /\ muxCount[m] > 0
  BY DEF MutualExclusion
<1>1. muxList[m] \in Seq(Tasks)
  BY DEF MuxInv, MuxTypes
<1>2. Contains(muxList[m], t) <=> t \in ToSet(muxList[m])
  BY <1>1, ContainsToSet
<1>3. ToSet(muxList[m]) = {u \in waiting : m \in muxPending[u]}
  BY DEF MuxInv, MuxLists
<1>4. Taken(t, m) = Entries(t, m)
  BY DEF Taken, Entries, Places
<1>5. OnItsWay(t, m) <=> Coming(t, m)
  BY <1>2, <1>3 DEF OnItsWay, Coming
<1>6. Contains(muxList[m], t) => m \in muxPending[t] /\ muxList[m] # <<>>
  BY <1>1, <1>2, <1>3, EmptyMembers
<1> QED
  BY <1>4, <1>5, <1>6 DEF MuxInv, MuxOwners, MuxLists

LEMMA MuxInvInit == IpcInit => MuxInv
<1> SUFFICES ASSUME IpcInit PROVE MuxInv
  OBVIOUS
<1>1. MuxInit /\ waiting = {}
  BY DEF IpcInit, ProcInit
<1>2. <<>> \in Seq(Tasks) /\ <<>> \in Seq(Muxes)
  OBVIOUS
<1>3. MuxTypes
  BY <1>1, <1>2 DEF MuxInit, MuxTypes
<1>4. ToSet(<<>>) = {} /\ IsInjective(<<>>)
  BY <1>2, EmptyMembers
<1>5. MuxLists
  BY <1>1, <1>4 DEF MuxInit, MuxLists
<1>6. \A m : Cardinality(Places(<<>>, m)) = 0
  BY FS_EmptySet DEF Places
<1>7. MuxOwners
  BY <1>1, <1>6 DEF MuxInit, MuxOwners, Entries, Coming
<1> QED
  BY <1>3, <1>5, <1>7 DEF MuxInv

\* Steps that leave the mutexes and the waiting of their callers alone.
LEMMA MuxUntouched ==
  ASSUME MuxInv, ProcInv, ProcInv', UNCHANGED muxVars,
         \A t \in Tasks : muxPending[t] # {} => (t \in waiting' <=> t \in waiting)
  PROVE  MuxInv'
<1>u. UNCHANGED <<muxStat, muxCount, muxOwner, muxPriority, muxList, muxPending, muxExpired,
                  held>>
  BY DEF muxVars
<1>t. waiting \subseteq Tasks /\ waiting' \subseteq Tasks
  BY DEF ProcInv
<1>1. MuxTypes'
  BY <1>u DEF MuxInv, MuxTypes
<1>2. ASSUME NEW m \in Muxes
      PROVE  {t \in waiting' : m \in muxPending'[t]} = {t \in waiting : m \in muxPending[t]}
  BY <1>u, <1>t
<1>3. \A t \in muxExpired : t \in Tasks /\ muxPending[t] # {} /\ t \notin waiting'
  BY DEF MuxInv, MuxTypes, MuxLists
<1>4. MuxLists'
  BY <1>u, <1>2, <1>3 DEF MuxInv, MuxLists
<1>5. \A t \in Tasks, m \in Muxes : Coming(t, m)' <=> Coming(t, m)
  BY <1>u DEF Coming
<1>6. \A t \in Tasks, m \in Muxes : Entries(t, m)' = Entries(t, m)
  BY <1>u DEF Entries
<1>7. MuxOwners'
  BY <1>u, <1>5, <1>6 DEF MuxInv, MuxOwners
<1> QED
  BY <1>1, <1>4, <1>7 DEF MuxInv

\* Time-outs reach tasks on the list only: what was handed over stays so.
LEMMA MuxElapseKeeps ==
  ASSUME ProcInv, MuxInv, NEW ts \in SUBSET Tasks, Elapse(ts), MuxElapse(ts)
  PROVE  MuxInv'
<1>u. UNCHANGED <<muxStat, muxCount, muxOwner, muxPending, held>>
  BY DEF MuxElapse
<1>0. /\ ts \subseteq waiting /\ waiting' = waiting \ ts
      /\ muxExpired' = muxExpired \cup {t \in ts : muxPending[t] # {}}
      /\ muxList' = [m \in Muxes |-> Leave(muxList[m], ts)]
  BY DEF Elapse, Wake, MuxElapse, ProcInv
<1>1. ASSUME NEW m \in Muxes
      PROVE  /\ muxList'[m] \in Seq(Tasks)
             /\ IsInjective(muxList'[m])
             /\ ToSet(muxList'[m]) = ToSet(muxList[m]) \ ts
             /\ muxList'[m] # <<>> => muxList[m] # <<>>
  <2>1. muxList[m] \in Seq(Tasks) /\ IsInjective(muxList[m]) /\ muxList'[m] = Leave(muxList[m], ts)
    BY <1>0 DEF MuxInv, MuxTypes, MuxLists
  <2> QED
    BY <2>1, LeaveMembers, LeaveEmpty
<1>2. MuxTypes'
  BY <1>u, <1>0, <1>1 DEF MuxInv, MuxTypes
<1>3. ASSUME NEW m \in Muxes
      PROVE  ToSet(muxList'[m]) = {t \in waiting' : m \in muxPending'[t]}
  BY <1>u, <1>0, <1>1 DEF MuxInv, MuxLists
<1>4. \A t \in muxExpired' : muxPending'[t] # {} /\ t \notin waiting'
  BY <1>u, <1>0 DEF MuxInv, MuxLists
<1>5. MuxLists'
  BY <1>u, <1>1, <1>3, <1>4 DEF MuxInv, MuxLists
<1>6. ASSUME NEW t \in Tasks, NEW m \in Muxes PROVE Coming(t, m)' <=> Coming(t, m)
  BY <1>u, <1>0 DEF Coming
<1>7. \A t \in Tasks, m \in Muxes : Entries(t, m)' = Entries(t, m)
  BY <1>u DEF Entries
<1>8. MuxOwners'
  BY <1>u, <1>6, <1>7 DEF MuxInv, MuxOwners
<1> QED
  BY <1>2, <1>5, <1>8 DEF MuxInv
-----------------------------------------------------------------------------
LEMMA MuxCreateKeeps ==
  ASSUME MuxInv, NEW m \in Muxes, LOS_MuxCreate(m)
  PROVE  MuxInv'
<1>0. /\ m \notin muxStat /\ muxStat' = muxStat \cup {m}
      /\ muxCount' = [muxCount EXCEPT ![m] = 0]
      /\ muxOwner' = [muxOwner EXCEPT ![m] = NoTask]
      /\ muxList' = [muxList EXCEPT ![m] = <<>>]
      /\ UNCHANGED <<waiting, muxPending, muxExpired, held>>
  BY DEF LOS_MuxCreate, procVars
<1>1. muxCount[m] = 0 /\ muxList[m] = <<>>
  BY <1>0 DEF MuxInv, MuxLists
<1>2. MuxTypes'
  <2>1. <<>> \in Seq(Tasks)
    OBVIOUS
  <2> QED
    BY <1>0, <2>1 DEF MuxInv, MuxTypes
<1>3. muxList' = muxList /\ muxCount' = muxCount
  BY <1>0, <1>1 DEF MuxInv, MuxTypes
<1>4. MuxLists'
  BY <1>0, <1>3 DEF MuxInv, MuxLists
<1>5. MuxOwners'
  <2> SUFFICES ASSUME NEW n \in Muxes, NEW t \in Tasks
               PROVE  Entries(t, n)' + (IF Coming(t, n)' THEN 1 ELSE 0)
                      = IF muxOwner'[n] = t THEN muxCount'[n] ELSE 0
    BY DEF MuxOwners
  <2>1. Entries(t, n)' = Entries(t, n) /\ (Coming(t, n)' <=> Coming(t, n))
    BY <1>0 DEF Entries, Coming
  <2>2. CASE n = m
    <3>1. Entries(t, n) = 0 /\ ~Coming(t, n) /\ muxCount'[n] = 0
      BY <1>1, <1>3, <2>2, NobodyHas
    <3> QED
      BY <2>1, <3>1
  <2>3. CASE n # m
    <3>1. muxOwner'[n] = muxOwner[n]
      BY <1>0, <2>3 DEF MuxInv, MuxTypes
    <3> QED
      BY <1>3, <2>1, <3>1 DEF MuxInv, MuxOwners
  <2> QED
    BY <2>2, <2>3
<1> QED
  BY <1>2, <1>4, <1>5 DEF MuxInv

LEMMA MuxDeleteKeeps ==
  ASSUME MuxInv, NEW m \in Muxes, LOS_MuxDelete(m)
  PROVE  MuxInv'
<1>0. /\ muxCount[m] = 0 /\ muxStat' = muxStat \ {m}
      /\ UNCHANGED <<waiting, muxCount, muxOwner, muxList, muxPending, muxExpired, held>>
  BY DEF LOS_MuxDelete, procVars
<1>1. MuxTypes'
  BY <1>0 DEF MuxInv, MuxTypes
<1>2. MuxLists'
  BY <1>0 DEF MuxInv, MuxLists
<1>3. MuxOwners'
  BY <1>0 DEF MuxInv, MuxOwners, Entries, Coming
<1> QED
  BY <1>1, <1>2, <1>3 DEF MuxInv

\* A caller takes a free mutex, or one it has, at once.
LEMMA MuxTakesKeeps ==
  ASSUME ProcInv, MuxInv, NEW m \in Muxes, MuxPendTakes(m) \/ MuxPendNests(m)
  PROVE  MuxInv'
<1>r. running \in Tasks /\ m \in muxStat
  BY InTaskAwake DEF MuxPendTakes, MuxPendNests
<1>0. /\ muxCount[m] = 0 \/ muxOwner[m] = running
      /\ muxCount' = [muxCount EXCEPT ![m] = muxCount[m] + 1]
      /\ muxOwner' = [muxOwner EXCEPT ![m] = running]
      /\ held' = [held EXCEPT ![running] = Append(held[running], m)]
      /\ UNCHANGED <<waiting, muxStat, muxList, muxPending, muxExpired>>
  <2>1. CASE MuxPendTakes(m)
    BY <2>1 DEF MuxPendTakes, procVars
  <2>2. CASE MuxPendNests(m)
    <3>1. muxOwner' = [muxOwner EXCEPT ![m] = running]
      BY <2>2 DEF MuxPendNests, MuxInv, MuxTypes
    <3> QED
      BY <2>2, <3>1 DEF MuxPendNests, procVars
  <2> QED
    BY <2>1, <2>2
<1>1. /\ held[running] \in Seq(Muxes)
      /\ \A n \in Muxes : muxCount[n] \in Nat
  BY <1>r DEF MuxInv, MuxTypes
<1>2. Append(held[running], m) \in Seq(Muxes)
  BY <1>1, AppendProperties
<1>3. MuxTypes'
  BY <1>r, <1>0, <1>1, <1>2 DEF MuxInv, MuxTypes
<1>4. MuxLists'
  <2>1. \A n \in Muxes : muxCount[n] > 0 => muxCount'[n] > 0
    BY <1>0, <1>1 DEF MuxInv, MuxTypes
  <2>2. \A n \in Muxes : n \notin muxStat' => muxCount'[n] = 0
    BY <1>r, <1>0 DEF MuxInv, MuxTypes, MuxLists
  <2> QED
    BY <1>0, <2>1, <2>2 DEF MuxInv, MuxLists
<1>5. MuxOwners'
  <2> SUFFICES ASSUME NEW n \in Muxes, NEW t \in Tasks
               PROVE  Entries(t, n)' + (IF Coming(t, n)' THEN 1 ELSE 0)
                      = IF muxOwner'[n] = t THEN muxCount'[n] ELSE 0
    BY DEF MuxOwners
  <2>0. Coming(t, n)' <=> Coming(t, n)
    BY <1>0 DEF Coming
  <2>t. Entries(t, n) \in Nat /\ muxCount[n] \in Nat
    BY EntriesNat DEF MuxInv
  <2>i. Entries(t, n) + (IF Coming(t, n) THEN 1 ELSE 0) = IF muxOwner[n] = t THEN muxCount[n] ELSE 0
    BY DEF MuxInv, MuxOwners
  <2>1. CASE n # m
    <3>1. Entries(t, n)' = Entries(t, n)
      <4>1. CASE t = running
        <5>1. held'[t] = Append(held[t], m)
          BY <1>0, <4>1 DEF MuxInv, MuxTypes
        <5> QED
          BY <1>1, <2>1, <4>1, <5>1, AppendPlaces DEF Entries
      <4>2. CASE t # running
        BY <1>0, <4>2 DEF Entries, MuxInv, MuxTypes
      <4> QED
        BY <4>1, <4>2
    <3>2. muxOwner'[n] = muxOwner[n] /\ muxCount'[n] = muxCount[n]
      BY <1>0, <2>1 DEF MuxInv, MuxTypes
    <3> QED
      BY <2>0, <2>i, <3>1, <3>2
  <2>2. CASE n = m /\ t = running
    <3>1. held'[t] = Append(held[t], m) /\ muxOwner'[n] = t /\ muxCount'[n] = muxCount[n] + 1
      BY <1>0, <2>2 DEF MuxInv, MuxTypes
    <3>2. Entries(t, n)' = Entries(t, n) + 1
      BY <1>1, <2>2, <3>1, AppendPlaces DEF Entries
    <3>3. Entries(t, n) + (IF Coming(t, n) THEN 1 ELSE 0) = muxCount[n]
      BY <1>0, <2>2, <2>i
    <3> QED
      BY <2>0, <2>t, <3>1, <3>2, <3>3
  <2>3. CASE n = m /\ t # running
    <3>1. held'[t] = held[t] /\ muxOwner'[n] # t
      BY <1>0, <2>3 DEF MuxInv, MuxTypes
    <3>2. Entries(t, n)' = Entries(t, n)
      BY <3>1 DEF Entries
    <3>3. Entries(t, n) = 0 /\ ~Coming(t, n)
      BY <1>0, <2>3, NobodyHas
    <3> QED
      BY <2>0, <3>1, <3>2, <3>3
  <2> QED
    BY <2>1, <2>2, <2>3
<1> QED
  BY <1>3, <1>4, <1>5 DEF MuxInv

\* A caller that has to wait joins the list of one mutex.
LEMMA MuxWaitsKeeps ==
  ASSUME ProcInv, MuxInv, Free, NEW m \in Muxes, NEW limited, MuxPendWaits(m, limited)
  PROVE  MuxInv'
<1>r. /\ running \in Tasks /\ running \notin waiting /\ muxPending[running] = {}
      /\ m \in muxStat /\ muxCount[m] > 0
  BY InTaskAwake DEF MuxPendWaits, Free
<1>0. /\ muxList' = [muxList EXCEPT ![m] = Append(muxList[m], running)]
      /\ muxPending' = [muxPending EXCEPT ![running] = {m}]
      /\ waiting' = waiting \cup {running}
      /\ UNCHANGED <<muxStat, muxCount, muxOwner, muxExpired, held>>
  BY DEF MuxPendWaits, Wait
<1>x. running \notin muxExpired
  BY <1>r DEF MuxInv, MuxLists
<1>1. muxList[m] \in Seq(Tasks) /\ IsInjective(muxList[m]) /\ running \notin ToSet(muxList[m])
  BY <1>r DEF MuxInv, MuxTypes, MuxLists
<1>2. /\ Append(muxList[m], running) \in Seq(Tasks)
      /\ IsInjective(Append(muxList[m], running))
      /\ ToSet(Append(muxList[m], running)) = ToSet(muxList[m]) \cup {running}
  BY <1>r, <1>1, AppendMembers
<1>3. MuxTypes'
  BY <1>r, <1>0, <1>2 DEF MuxInv, MuxTypes
<1>4. ASSUME NEW t \in Tasks
      PROVE  muxPending'[t] = IF t = running THEN {m} ELSE muxPending[t]
  BY <1>0 DEF MuxInv, MuxTypes
<1>5. ASSUME NEW n \in Muxes
      PROVE  /\ IsInjective(muxList'[n])
             /\ ToSet(muxList'[n]) = {t \in waiting' : n \in muxPending'[t]}
  <2>w. waiting \subseteq Tasks
    BY DEF ProcInv
  <2>1. {t \in waiting' : n \in muxPending'[t]} =
          IF n = m THEN {t \in waiting : n \in muxPending[t]} \cup {running}
          ELSE {t \in waiting : n \in muxPending[t]}
    BY <1>r, <1>0, <1>4, <2>w
  <2>2. CASE n = m
    <3>1. muxList'[n] = Append(muxList[m], running)
      BY <1>0, <2>2 DEF MuxInv, MuxTypes
    <3> QED
      BY <1>2, <2>1, <2>2, <3>1 DEF MuxInv, MuxLists
  <2>3. CASE n # m
    <3>1. muxList'[n] = muxList[n]
      BY <1>0, <2>3 DEF MuxInv, MuxTypes
    <3> QED
      BY <2>1, <2>3, <3>1 DEF MuxInv, MuxLists
  <2> QED
    BY <2>2, <2>3
<1>6. \A n \in Muxes : muxList'[n] # <<>> => muxCount'[n] > 0
  BY <1>r, <1>0 DEF MuxInv, MuxTypes, MuxLists
<1>7. \A t \in Tasks : \A k, n \in muxPending'[t] : k = n
  BY <1>4 DEF MuxInv, MuxLists
<1>8. \A t \in muxExpired' : muxPending'[t] # {} /\ t \notin waiting'
  BY <1>0, <1>x, <1>4 DEF MuxInv, MuxLists, MuxTypes
<1>9. MuxLists'
  BY <1>0, <1>5, <1>6, <1>7, <1>8 DEF MuxInv, MuxLists
<1>10. \A t \in Tasks, n \in Muxes : Coming(t, n)' <=> Coming(t, n)
  BY <1>r, <1>0, <1>4 DEF Coming
<1>11. MuxOwners'
  BY <1>0, <1>10 DEF MuxInv, MuxOwners, Entries
<1> QED
  BY <1>3, <1>9, <1>11 DEF MuxInv

\* A caller that goes on has what was handed to it, or was timed out.
LEMMA MuxReturnsKeeps ==
  ASSUME ProcInv, MuxInv, MuxPendReturns
  PROVE  MuxInv'
<1>r. running \in Tasks /\ running \notin waiting /\ muxPending[running] # {}
  BY InTaskAwake DEF MuxPendReturns
<1>0. /\ muxPending' = [muxPending EXCEPT ![running] = {}]
      /\ muxExpired' = muxExpired \ {running}
      /\ UNCHANGED <<waiting, muxStat, muxCount, muxOwner, muxList>>
  BY DEF MuxPendReturns, procVars
<1>m. PICK m \in Muxes : muxPending[running] = {m}
  <2>1. PICK m \in muxPending[running] : TRUE
    BY <1>r
  <2>2. m \in Muxes /\ muxPending[running] = {m}
    BY <1>r DEF MuxInv, MuxTypes, MuxLists
  <2> QED
    BY <2>2
<1>h. held[running] \in Seq(Muxes)
  BY <1>r DEF MuxInv, MuxTypes
<1>1. held' = IF running \in muxExpired THEN held
              ELSE [held EXCEPT ![running] = Append(held[running], m)]
  <2>1. held[running] \o SetToSeq(muxPending[running]) = Append(held[running], m)
    <3>1. SetToSeq(muxPending[running]) = <<m>>
      BY <1>m, SetToSeqSingleton, Zenon
    <3>2. Append(held[running], m) = held[running] \o <<m>>
      BY <1>h, AppendIsConcat
    <3> QED
      BY <3>1, <3>2, Zenon
  <2> QED
    BY <2>1 DEF MuxPendReturns
<1>2. ASSUME NEW t \in Tasks
      PROVE  muxPending'[t] = IF t = running THEN {} ELSE muxPending[t]
  BY <1>0 DEF MuxInv, MuxTypes
<1>3. MuxTypes'
  <2>1. Append(held[running], m) \in Seq(Muxes)
    BY <1>h, AppendProperties
  <2>2. held' \in [Tasks -> Seq(Muxes)]
    BY <1>1, <2>1 DEF MuxInv, MuxTypes
  <2> QED
    BY <1>0, <2>2 DEF MuxInv, MuxTypes
<1>4. MuxLists'
  <2>w. waiting \subseteq Tasks
    BY DEF ProcInv
  <2>1. ASSUME NEW n \in Muxes
        PROVE  {t \in waiting' : n \in muxPending'[t]} = {t \in waiting : n \in muxPending[t]}
    BY <1>r, <1>0, <1>2, <2>w
  <2>2. \A t \in muxExpired' : muxPending'[t] # {} /\ t \notin waiting'
    BY <1>0, <1>2 DEF MuxInv, MuxLists, MuxTypes
  <2>3. \A t \in Tasks : \A k, n \in muxPending'[t] : k = n
    BY <1>2 DEF MuxInv, MuxLists
  <2> QED
    BY <1>0, <2>1, <2>2, <2>3 DEF MuxInv, MuxLists
<1>5. MuxOwners'
  <2> SUFFICES ASSUME NEW n \in Muxes, NEW t \in Tasks
               PROVE  Entries(t, n)' + (IF Coming(t, n)' THEN 1 ELSE 0)
                      = IF muxOwner[n] = t THEN muxCount[n] ELSE 0
    BY <1>0 DEF MuxOwners
  <2>t. Entries(t, n) \in Nat /\ muxCount[n] \in Nat
    BY EntriesNat DEF MuxInv
  <2>i. Entries(t, n) + (IF Coming(t, n) THEN 1 ELSE 0) = IF muxOwner[n] = t THEN muxCount[n] ELSE 0
    BY DEF MuxInv, MuxOwners
  <2>1. CASE t # running
    <3>1. held'[t] = held[t]
      BY <1>1, <2>1 DEF MuxInv, MuxTypes
    <3>2. Entries(t, n)' = Entries(t, n)
      BY <3>1 DEF Entries
    <3>3. Coming(t, n)' <=> Coming(t, n)
      BY <1>0, <1>2, <2>1 DEF Coming
    <3> QED
      BY <2>i, <3>2, <3>3
  <2>2. CASE t = running /\ running \in muxExpired
    <3>1. Entries(t, n)' = Entries(t, n)
      BY <1>1, <2>2 DEF Entries
    <3>2. ~Coming(t, n)' /\ ~Coming(t, n)
      BY <1>2, <2>2 DEF Coming
    <3> QED
      BY <2>i, <3>1, <3>2
  <2>3. CASE t = running /\ running \notin muxExpired
    <3>1. held'[t] = Append(held[t], m)
      BY <1>1, <2>3 DEF MuxInv, MuxTypes
    <3>2. Entries(t, n)' = IF m = n THEN Entries(t, n) + 1 ELSE Entries(t, n)
      BY <1>h, <2>3, <3>1, AppendPlaces DEF Entries
    <3>3. ~Coming(t, n)' /\ (Coming(t, n) <=> m = n)
      BY <1>r, <1>m, <1>2, <2>3 DEF Coming
    <3> QED
      BY <2>t, <2>i, <3>2, <3>3
  <2> QED
    BY <2>1, <2>2, <2>3
<1> QED
  BY <1>3, <1>4, <1>5 DEF MuxInv

\* The latest entry of m leaves a caller's stack: it has one entry of m less, and
\* as many of every other mutex.
LEMMA ReleasedEntries ==
  ASSUME NEW s \in Seq(Muxes), NEW m, Cardinality(Places(s, m)) # 0
  PROVE  /\ Released(s, m) \in Seq(Muxes)
         /\ \A n : Cardinality(Places(Released(s, m), n)) =
                   IF m = n THEN Cardinality(Places(s, n)) - 1 ELSE Cardinality(Places(s, n))
         /\ Max(Places(s, m)) \in DOMAIN s /\ s[Max(Places(s, m))] = m
         /\ \A i \in DOMAIN s : s[i] = m => i <= Max(Places(s, m))
         /\ Released(s, m) = RemoveAt(s, Max(Places(s, m)))
<1> DEFINE k == Max(Places(s, m))
<1>1. /\ Places(s, m) \in SUBSET (1..Len(s)) /\ Len(s) \in Nat /\ IsFiniteSet(Places(s, m))
  BY PlacesFinite
<1>2. Places(s, m) # {}
  BY FS_EmptySet
<1>3. k \in Places(s, m) /\ \A i \in Places(s, m) : i <= k
  BY <1>1, <1>2, LastPosition
<1>4. Released(s, m) = RemoveAt(s, k)
  BY DEF Released, Places
<1> HIDE DEF k
<1>5. k \in DOMAIN s /\ s[k] = m /\ \A i \in DOMAIN s : s[i] = m => i <= k
  BY <1>3 DEF Places
<1>6. RemoveAt(s, k) \in Seq(Muxes)
  BY <1>5, RemoveAtValue
<1>7. \A n : Cardinality(Places(RemoveAt(s, k), n)) =
              IF m = n THEN Cardinality(Places(s, n)) - 1 ELSE Cardinality(Places(s, n))
  BY <1>5, RemoveAtPlaces
<1> QED
  BY <1>4, <1>5, <1>6, <1>7 DEF k

\* The owner that posts has an entry of the mutex to release.
LEMMA OwnerHasEntries ==
  ASSUME MuxInv, Free, NEW m \in Muxes, muxOwner[m] = running, muxCount[m] > 0
  PROVE  /\ running \in Tasks /\ held[running] \in Seq(Muxes)
         /\ Entries(running, m) = muxCount[m] /\ Entries(running, m) # 0
         /\ \A n \in Muxes : ~Coming(running, n)
<1>1. running \in Tasks /\ muxPending[running] = {}
  BY DEF Free
<1>2. \A n \in Muxes : ~Coming(running, n)
  BY <1>1 DEF Coming
<1>3. Entries(running, m) \in Nat /\ held[running] \in Seq(Muxes) /\ muxCount[m] \in Nat
  BY <1>1, EntriesNat DEF MuxInv
<1>4. Entries(running, m) + 0 = muxCount[m]
  BY <1>1, <1>2 DEF MuxInv, MuxOwners
<1> QED
  BY <1>1, <1>2, <1>3, <1>4

LEMMA MuxPostNestedKeeps ==
  ASSUME ProcInv, MuxInv, Free, NEW m \in Muxes, MuxPostNested(m)
  PROVE  MuxInv'
<1>0. /\ muxOwner[m] = running /\ muxCount[m] > 1 /\ m \in muxStat
      /\ muxCount' = [muxCount EXCEPT ![m] = muxCount[m] - 1]
      /\ held' = [held EXCEPT ![running] = Released(held[running], m)]
      /\ UNCHANGED <<waiting, muxStat, muxOwner, muxList, muxPending, muxExpired>>
  BY DEF MuxPostNested, procVars
<1>t. \A n \in Muxes : muxCount[n] \in Nat
  BY DEF MuxInv, MuxTypes
<1>1. /\ running \in Tasks /\ held[running] \in Seq(Muxes)
      /\ Entries(running, m) = muxCount[m] /\ Entries(running, m) # 0
  BY <1>0, <1>t, OwnerHasEntries
<1>2. /\ Released(held[running], m) \in Seq(Muxes)
      /\ \A n : Cardinality(Places(Released(held[running], m), n)) =
                IF m = n THEN Cardinality(Places(held[running], n)) - 1
                ELSE Cardinality(Places(held[running], n))
  BY <1>1, ReleasedEntries DEF Entries
<1>3. MuxTypes'
  <2>1. muxCount[m] - 1 \in Nat
    BY <1>0, <1>t
  <2>2. muxCount' \in [Muxes -> Nat] /\ held' \in [Tasks -> Seq(Muxes)]
    BY <1>0, <1>2, <2>1 DEF MuxInv, MuxTypes
  <2> QED
    BY <1>0, <2>2 DEF MuxInv, MuxTypes
<1>4. MuxLists'
  <2>1. \A n \in Muxes : muxCount[n] > 0 => muxCount'[n] > 0
    BY <1>0, <1>t DEF MuxInv, MuxTypes
  <2>2. \A n \in Muxes : n \notin muxStat' => muxCount'[n] = 0
    BY <1>0 DEF MuxInv, MuxTypes, MuxLists
  <2> QED
    BY <1>0, <2>1, <2>2 DEF MuxInv, MuxLists
<1>5. MuxOwners'
  <2> SUFFICES ASSUME NEW n \in Muxes, NEW t \in Tasks
               PROVE  Entries(t, n)' + (IF Coming(t, n)' THEN 1 ELSE 0)
                      = IF muxOwner[n] = t THEN muxCount'[n] ELSE 0
    BY <1>0 DEF MuxOwners
  <2>t. Entries(t, n) \in Nat /\ muxCount[n] \in Nat
    BY EntriesNat DEF MuxInv
  <2>i. Entries(t, n) + (IF Coming(t, n) THEN 1 ELSE 0) = IF muxOwner[n] = t THEN muxCount[n] ELSE 0
    BY DEF MuxInv, MuxOwners
  <2>c. Coming(t, n)' <=> Coming(t, n)
    BY <1>0 DEF Coming
  <2>1. Entries(t, n)' = IF t = running /\ m = n THEN Entries(t, n) - 1 ELSE Entries(t, n)
    <3>1. held'[t] = IF t = running THEN Released(held[running], m) ELSE held[t]
      BY <1>0, <1>1 DEF MuxInv, MuxTypes
    <3>2. CASE t = running
      BY <1>2, <3>1, <3>2 DEF Entries
    <3>3. CASE t # running
      BY <3>1, <3>3 DEF Entries
    <3> QED
      BY <3>2, <3>3
  <2>2. muxCount'[n] = IF m = n THEN muxCount[n] - 1 ELSE muxCount[n]
    BY <1>0 DEF MuxInv, MuxTypes
  <2> QED
    BY <1>0, <2>t, <2>i, <2>c, <2>1, <2>2
<1> QED
  BY <1>3, <1>4, <1>5 DEF MuxInv

\* The last post frees the mutex or hands it to the first task of its list, with
\* the count it had: nobody can take it in between.
LEMMA MuxPostLastKeeps ==
  ASSUME ProcInv, MuxInv, Free, NEW m \in Muxes, MuxPostLast(m)
  PROVE  MuxInv'
<1>0. /\ muxOwner[m] = running /\ muxCount[m] = 1 /\ m \in muxStat
      /\ held' = [held EXCEPT ![running] = Released(held[running], m)]
      /\ UNCHANGED <<muxStat, muxPending, muxExpired>>
  BY DEF MuxPostLast
<1>t. \A n \in Muxes : muxCount[n] \in Nat
  BY DEF MuxInv, MuxTypes
<1>1. /\ running \in Tasks /\ held[running] \in Seq(Muxes)
      /\ Entries(running, m) = 1
      /\ \A n \in Muxes : ~Coming(running, n)
  BY <1>0, OwnerHasEntries
<1>2. /\ Released(held[running], m) \in Seq(Muxes)
      /\ \A n : Cardinality(Places(Released(held[running], m), n)) =
                IF m = n THEN Cardinality(Places(held[running], n)) - 1
                ELSE Cardinality(Places(held[running], n))
  BY <1>1, ReleasedEntries DEF Entries
<1>3. held' \in [Tasks -> Seq(Muxes)]
  BY <1>0, <1>2 DEF MuxInv, MuxTypes
<1>4. ASSUME NEW t \in Tasks, NEW n \in Muxes
      PROVE  Entries(t, n)' = IF t = running /\ m = n THEN 0 ELSE Entries(t, n)
  <2>1. held'[t] = IF t = running THEN Released(held[running], m) ELSE held[t]
    BY <1>0, <1>1 DEF MuxInv, MuxTypes
  <2>2. CASE t = running
    BY <1>1, <1>2, <2>1, <2>2 DEF Entries
  <2>3. CASE t # running
    BY <2>1, <2>3 DEF Entries
  <2> QED
    BY <2>2, <2>3
<1>5. CASE muxList[m] = <<>>
  <2>0. /\ muxCount' = [muxCount EXCEPT ![m] = 0]
        /\ UNCHANGED <<waiting, muxOwner, muxList>>
    BY <1>5 DEF MuxPostLast
  <2>1. MuxTypes'
    BY <1>0, <1>3, <2>0 DEF MuxInv, MuxTypes
  <2>2. MuxLists'
    <3>1. \A n \in Muxes : muxCount'[n] = IF n = m THEN 0 ELSE muxCount[n]
      BY <2>0 DEF MuxInv, MuxTypes
    <3> QED
      BY <1>0, <1>5, <2>0, <3>1 DEF MuxInv, MuxLists
  <2>3. MuxOwners'
    <3> SUFFICES ASSUME NEW n \in Muxes, NEW t \in Tasks
                 PROVE  Entries(t, n)' + (IF Coming(t, n)' THEN 1 ELSE 0)
                        = IF muxOwner[n] = t THEN muxCount'[n] ELSE 0
      BY <2>0 DEF MuxOwners
    <3>1. muxCount'[n] = IF n = m THEN 0 ELSE muxCount[n]
      BY <2>0 DEF MuxInv, MuxTypes
    <3>2. Coming(t, n)' <=> Coming(t, n)
      BY <1>0, <2>0 DEF Coming
    <3>3. Entries(t, n) + (IF Coming(t, n) THEN 1 ELSE 0) = IF muxOwner[n] = t THEN muxCount[n] ELSE 0
      BY DEF MuxInv, MuxOwners
    <3>4. CASE n = m /\ t = running
      BY <1>1, <1>4, <3>1, <3>2, <3>4
    <3>5. CASE n = m /\ t # running
      <4>1. Entries(t, n) = 0 /\ ~Coming(t, n)
        BY <1>0, <3>5, NobodyHas
      <4> QED
        BY <1>0, <1>4, <3>1, <3>2, <3>5, <4>1
    <3>6. CASE n # m
      BY <1>4, <3>1, <3>2, <3>3, <3>6
    <3> QED
      BY <3>4, <3>5, <3>6
  <2> QED
    BY <2>1, <2>2, <2>3 DEF MuxInv
<1>6. CASE muxList[m] # <<>>
  <2> DEFINE next == Head(muxList[m])
  <2>0. /\ muxOwner' = [muxOwner EXCEPT ![m] = next]
        /\ muxList' = [muxList EXCEPT ![m] = Tail(muxList[m])]
        /\ waiting' = waiting \ {next}
        /\ UNCHANGED muxCount
    BY <1>6 DEF MuxPostLast, Wake
  <2>1. muxList[m] \in Seq(Tasks) /\ IsInjective(muxList[m])
    BY DEF MuxInv, MuxTypes, MuxLists
  <2>2. /\ Tail(muxList[m]) \in Seq(Tasks) /\ IsInjective(Tail(muxList[m]))
        /\ next \in Tasks /\ next \in ToSet(muxList[m])
        /\ ToSet(Tail(muxList[m])) = ToSet(muxList[m]) \ {next}
    BY <1>6, <2>1, TailMembers
  <2> HIDE DEF next
  <2>3. next \in waiting /\ m \in muxPending[next] /\ next \notin muxExpired
    BY <2>2 DEF MuxInv, MuxLists
  <2>4. \A n \in Muxes : n \in muxPending[next] <=> n = m
    BY <2>2, <2>3 DEF MuxInv, MuxLists
  <2>5. next # running
    BY <2>3, <2>2 DEF Free
  <2>6. MuxTypes'
    BY <1>0, <1>3, <2>0, <2>2 DEF MuxInv, MuxTypes
  <2>7. ASSUME NEW n \in Muxes
        PROVE  /\ IsInjective(muxList'[n])
               /\ ToSet(muxList'[n]) = {t \in waiting' : n \in muxPending'[t]}
               /\ muxList'[n] # <<>> => muxCount'[n] > 0
    <3>1. ToSet(muxList[n]) = {t \in waiting : n \in muxPending[t]}
      BY DEF MuxInv, MuxLists
    <3>2. CASE n = m
      <4>1. muxList'[n] = Tail(muxList[m])
        BY <2>0, <3>2 DEF MuxInv, MuxTypes
      <4> QED
        BY <1>0, <2>0, <2>2, <3>1, <3>2, <4>1
    <3>3. CASE n # m
      <4>1. muxList'[n] = muxList[n]
        BY <2>0, <3>3 DEF MuxInv, MuxTypes
      <4>2. {t \in waiting' : n \in muxPending'[t]} = {t \in waiting : n \in muxPending[t]}
        BY <1>0, <2>0, <2>4, <3>3
      <4> QED
        BY <2>0, <3>1, <4>1, <4>2 DEF MuxInv, MuxLists
    <3> QED
      BY <3>2, <3>3
  <2>8. MuxLists'
    BY <1>0, <2>0, <2>7 DEF MuxInv, MuxLists
  <2>9. MuxOwners'
    <3> SUFFICES ASSUME NEW n \in Muxes, NEW t \in Tasks
                 PROVE  Entries(t, n)' + (IF Coming(t, n)' THEN 1 ELSE 0)
                        = IF muxOwner'[n] = t THEN muxCount[n] ELSE 0
      BY <2>0 DEF MuxOwners
    <3>1. muxOwner'[n] = IF n = m THEN next ELSE muxOwner[n]
      BY <2>0 DEF MuxInv, MuxTypes
    <3>2. Coming(t, n)' <=> Coming(t, n) \/ (t = next /\ n = m)
      BY <1>0, <2>0, <2>3, <2>4 DEF Coming
    <3>3. Entries(t, n) + (IF Coming(t, n) THEN 1 ELSE 0) = IF muxOwner[n] = t THEN muxCount[n] ELSE 0
      BY DEF MuxInv, MuxOwners
    <3>4. CASE n = m /\ t = running
      BY <1>1, <1>4, <2>5, <3>1, <3>2, <3>4
    <3>5. CASE n = m /\ t # running
      <4>1. Entries(t, n) = 0 /\ ~Coming(t, n)
        BY <1>0, <3>5, NobodyHas
      <4> QED
        BY <1>0, <1>4, <3>1, <3>2, <3>5, <4>1
    <3>6. CASE n # m
      BY <1>4, <3>1, <3>2, <3>3, <3>6
    <3> QED
      BY <3>4, <3>5, <3>6
  <2> QED
    BY <2>6, <2>8, <2>9 DEF MuxInv
<1> QED
  BY <1>5, <1>6

LEMMA MuxInvNext ==
  ASSUME ProcInv, OneKind, MuxInv, [IpcNext]_vars
  PROVE  MuxInv'
<1>p. ProcInv'
  BY NextProc
<1>1. CASE UNCHANGED vars
  BY <1>1, <1>p, MuxUntouched DEF vars, objectVars, procVars
<1>2. CASE ProcStep
  BY <1>2, <1>p, MuxUntouched DEF ProcStep, objectVars, TaskLock, TaskUnlock, Switch,
                                  NoSwitch, TaskSuspend, TaskResume
<1>3. CASE SemStep \/ QueueStep
  <2>1. UNCHANGED muxVars /\ kind # "mux"
    BY <1>3 DEF SemStep, QueueStep
  <2>2. \A t \in Tasks : muxPending[t] = {}
    BY <2>1 DEF OneKind
  <2> QED
    BY <1>p, <2>1, <2>2, MuxUntouched
<1>4. ASSUME NEW ts \in SUBSET Tasks, ElapseStep(ts) PROVE MuxInv'
  BY <1>4, MuxElapseKeeps DEF ElapseStep
<1>5. CASE MuxStep
  BY <1>5, MuxCreateKeeps, MuxDeleteKeeps, MuxTakesKeeps, MuxWaitsKeeps,
     MuxReturnsKeeps, MuxPostNestedKeeps, MuxPostLastKeeps DEF MuxStep, MuxCall
<1> QED
  BY <1>1, <1>2, <1>3, <1>4, <1>5, StepsByKind

LEMMA MuxInvariance == IpcSpec => []MuxInv
<1>1. ProcInv /\ OneKind /\ MuxInv /\ [IpcNext]_vars => MuxInv'
  BY MuxInvNext
<1> QED
  BY <1>1, MuxInvInit, ProcInvariance, PTL DEF IpcSpec

\* Two tasks are never between LOS_MuxPend and LOS_MuxPost of one mutex, for any
\* number of tasks and mutexes, whatever times out, is suspended or deleted.
THEOREM AlwaysExclusive == IpcSpec => []MutualExclusion
  BY MuxInvariance, MuxInvExcludes, PTL
-----------------------------------------------------------------------------
(***************************************************************************)
(* Priorities.  A task has its own priority while it has no mutex; the     *)
(* first mutex it took, or was handed, remembers that priority, and is the *)
(* last one it gives back.                                                 *)
(***************************************************************************)
NoneComing(t) == \A m \in Muxes : ~Coming(t, m)

PrioInv ==
  /\ prio \in [Tasks -> Nat] /\ muxPriority \in [Muxes -> Nat]
  /\ \A t \in Tasks : held[t] = <<>> /\ NoneComing(t) => prio[t] = InitPriority[t]
  /\ \A t \in Tasks : held[t] # <<>> => muxPriority[held[t][1]] = InitPriority[t]
  /\ \A t \in Tasks, m \in Muxes :
       held[t] = <<>> /\ Coming(t, m) => muxPriority[m] = InitPriority[t]

LEMMA PrioInvGivesBack == MuxInv /\ PrioInv => PriorityGivenBack
  BY DEF PrioInv, PriorityGivenBack, NoneComing, Coming

LEMMA PrioInvInit == IpcInit => PrioInv
<1> SUFFICES ASSUME IpcInit PROVE PrioInv
  OBVIOUS
<1>1. MuxInit /\ prio = InitPriority
  BY DEF IpcInit, ProcInit
<1> QED
  BY <1>1, PriorityAssumption DEF MuxInit, PrioInv, Coming

\* A task without an entry of m did not take m first.
LEMMA FirstIsNot ==
  ASSUME MuxTypes, NEW t \in Tasks, NEW m \in Muxes, held[t] # <<>>
  PROVE  /\ Entries(t, m) = 0 => held[t][1] # m
         /\ held[t][1] \in Muxes
<1>1. held[t] \in Seq(Muxes) /\ 1 \in DOMAIN held[t] /\ held[t][1] \in Muxes
  <2>1. held[t] \in Seq(Muxes)
    BY DEF MuxTypes
  <2> QED
    BY <2>1
<1>2. IsFiniteSet(Places(held[t], m))
  BY <1>1, PlacesFinite
<1>3. Entries(t, m) = 0 => Places(held[t], m) = {}
  BY <1>2, FS_EmptySet DEF Entries
<1> QED
  BY <1>1, <1>3 DEF Places

\* An empty stack has no entries.
LEMMA EntriesOfNone ==
  ASSUME NEW t \in Tasks, NEW m \in Muxes, held[t] = <<>>
  PROVE  Entries(t, m) = 0
<1>1. Places(held[t], m) = {}
  BY DEF Places
<1> QED
  BY <1>1, FS_EmptySet DEF Entries

\* Steps that leave priorities, stacks and hand-overs alone.
LEMMA PrioUntouched ==
  ASSUME PrioInv, UNCHANGED <<prio, muxPriority, held>>,
         \A t \in Tasks, m \in Muxes : Coming(t, m)' <=> Coming(t, m)
  PROVE  PrioInv'
<1>1. \A t \in Tasks : NoneComing(t)' <=> NoneComing(t)
  BY DEF NoneComing
<1> QED
  BY <1>1 DEF PrioInv

\* A new entry on top of a stack: the first is still the first.
LEMMA AppendFirst ==
  ASSUME NEW s \in Seq(Muxes), NEW m \in Muxes
  PROVE  /\ Append(s, m) # <<>>
         /\ Append(s, m)[1] = IF s = <<>> THEN m ELSE s[1]
<1>1. /\ Len(s) \in Nat /\ (s = <<>> <=> Len(s) = 0)
      /\ Len(Append(s, m)) = Len(s) + 1
      /\ \A i \in 1..Len(s) : Append(s, m)[i] = s[i]
      /\ Append(s, m)[Len(s) + 1] = m
  BY AppendProperties, LenProperties, EmptySeq
<1>2. Append(s, m) # <<>>
  BY AppendProperties
<1>3. CASE s = <<>>
  BY <1>1, <1>2, <1>3
<1>4. CASE s # <<>>
  <2>1. 1 \in 1..Len(s)
    BY <1>1, <1>4
  <2> QED
    BY <1>1, <1>2, <1>4, <2>1
<1> QED
  BY <1>3, <1>4

LEMMA PrioCreateKeeps ==
  ASSUME MuxInv, PrioInv, NEW m \in Muxes, LOS_MuxCreate(m)
  PROVE  PrioInv'
<1>0. /\ m \notin muxStat /\ muxPriority' = [muxPriority EXCEPT ![m] = 0]
      /\ UNCHANGED <<waiting, prio, muxPending, muxExpired, held>>
  BY DEF LOS_MuxCreate, procVars
<1>1. muxCount[m] = 0
  BY <1>0 DEF MuxInv, MuxLists
<1>2. \A t \in Tasks : Entries(t, m) = 0 /\ ~Coming(t, m)
  BY <1>1, NobodyHas
<1>3. \A t \in Tasks : held[t] # <<>> => held[t][1] # m /\ held[t][1] \in Muxes
  BY <1>2, FirstIsNot DEF MuxInv
<1>4. \A n \in Muxes : n # m => muxPriority'[n] = muxPriority[n]
  BY <1>0 DEF PrioInv
<1>5. \A t \in Tasks, n \in Muxes : Coming(t, n)' <=> Coming(t, n)
  BY <1>0 DEF Coming
<1>6. \A t \in Tasks : NoneComing(t)' <=> NoneComing(t)
  BY <1>5 DEF NoneComing
<1>7. muxPriority' \in [Muxes -> Nat]
  BY <1>0 DEF PrioInv
<1> QED
  BY <1>0, <1>2, <1>3, <1>4, <1>5, <1>6, <1>7 DEF PrioInv

\* The first mutex a task takes remembers the task's own priority.
LEMMA PrioTakesKeeps ==
  ASSUME ProcInv, MuxInv, PrioInv, Free, NEW m \in Muxes, MuxPendTakes(m)
  PROVE  PrioInv'
<1>r. running \in Tasks /\ muxPending[running] = {} /\ held[running] \in Seq(Muxes)
  BY InTaskAwake DEF MuxPendTakes, Free, MuxInv, MuxTypes
<1>0. /\ muxCount[m] = 0
      /\ muxPriority' = [muxPriority EXCEPT ![m] = prio[running]]
      /\ held' = [held EXCEPT ![running] = Append(held[running], m)]
      /\ UNCHANGED <<waiting, prio, muxPending, muxExpired>>
  BY DEF MuxPendTakes, procVars
<1>1. \A t \in Tasks : Entries(t, m) = 0 /\ ~Coming(t, m)
  BY <1>0, NobodyHas
<1>2. \A t \in Tasks : held[t] # <<>> => held[t][1] # m /\ held[t][1] \in Muxes
  BY <1>1, FirstIsNot DEF MuxInv
<1>3. /\ \A n \in Muxes : muxPriority'[n] = IF n = m THEN prio[running] ELSE muxPriority[n]
      /\ muxPriority' \in [Muxes -> Nat]
  BY <1>r, <1>0 DEF PrioInv
<1>4. \A t \in Tasks : held'[t] = IF t = running THEN Append(held[t], m) ELSE held[t]
  BY <1>0 DEF MuxInv, MuxTypes
<1>5. \A t \in Tasks, n \in Muxes : Coming(t, n)' <=> Coming(t, n)
  BY <1>0 DEF Coming
<1>6. \A t \in Tasks : NoneComing(t)' <=> NoneComing(t)
  BY <1>5 DEF NoneComing
<1>7. NoneComing(running)
  BY <1>r DEF NoneComing, Coming
<1>8. muxPriority'[held'[running][1]] = InitPriority[running] /\ held'[running] # <<>>
  <2>1. /\ held'[running] # <<>>
        /\ held'[running][1] = IF held[running] = <<>> THEN m ELSE held[running][1]
    <3>1. /\ Append(held[running], m) # <<>>
          /\ Append(held[running], m)[1] = IF held[running] = <<>> THEN m ELSE held[running][1]
      BY <1>r, AppendFirst
    <3>2. held'[running] = Append(held[running], m)
      BY <1>r, <1>4
    <3> QED
      BY <3>1, <3>2, Zenon
  <2>2. CASE held[running] = <<>>
    <3>1. prio[running] = InitPriority[running]
      BY <1>r, <1>7, <2>2 DEF PrioInv
    <3> QED
      BY <1>3, <2>1, <2>2, <3>1
  <2>3. CASE held[running] # <<>>
    <3>1. muxPriority[held[running][1]] = InitPriority[running]
      BY <1>r, <2>3 DEF PrioInv
    <3>2. held[running][1] # m /\ held[running][1] \in Muxes
      BY <1>r, <1>2, <2>3
    <3> QED
      BY <1>3, <2>1, <2>3, <3>1, <3>2
  <2> QED
    BY <2>1, <2>2, <2>3
<1>9. ASSUME NEW t \in Tasks, t # running
      PROVE  /\ held'[t] = <<>> /\ NoneComing(t)' => prio'[t] = InitPriority[t]
             /\ held'[t] # <<>> => muxPriority'[held'[t][1]] = InitPriority[t]
             /\ \A n \in Muxes : held'[t] = <<>> /\ Coming(t, n)' => muxPriority'[n] = InitPriority[t]
  BY <1>0, <1>1, <1>2, <1>3, <1>4, <1>5, <1>6, <1>9 DEF PrioInv
<1> QED
  BY <1>0, <1>3, <1>8, <1>9 DEF PrioInv

LEMMA PrioNestsKeeps ==
  ASSUME ProcInv, MuxInv, PrioInv, Free, NEW m \in Muxes, MuxPendNests(m)
  PROVE  PrioInv'
<1>0. /\ muxOwner[m] = running /\ muxCount[m] \in 1 .. MaxNest - 1
      /\ held' = [held EXCEPT ![running] = Append(held[running], m)]
      /\ UNCHANGED <<waiting, prio, muxPriority, muxPending, muxExpired>>
  BY DEF MuxPendNests, procVars
<1>1. running \in Tasks /\ held[running] \in Seq(Muxes) /\ Entries(running, m) # 0
  BY <1>0, OwnerHasEntries
<1>2. held[running] # <<>>
  BY <1>1, EntriesOfNone
<1>3. \A t \in Tasks : held'[t] = IF t = running THEN Append(held[t], m) ELSE held[t]
  BY <1>0 DEF MuxInv, MuxTypes
<1>4. held'[running] # <<>> /\ held'[running][1] = held[running][1]
  BY <1>1, <1>2, <1>3, AppendFirst
<1>5. \A t \in Tasks, n \in Muxes : Coming(t, n)' <=> Coming(t, n)
  BY <1>0 DEF Coming
<1>6. \A t \in Tasks : NoneComing(t)' <=> NoneComing(t)
  BY <1>5 DEF NoneComing
<1> QED
  BY <1>0, <1>2, <1>3, <1>4, <1>5, <1>6 DEF PrioInv

\* The lower of two numbers.
LEMMA MinOfTwo ==
  ASSUME NEW a \in Nat, NEW b \in Nat
  PROVE  Min({a, b}) \in Nat
<1>1. \E x \in {a, b} : \A y \in {a, b} : x <= y
  <2>1. a <= b \/ b <= a
    OBVIOUS
  <2> QED
    BY <2>1
<1>2. Min({a, b}) \in {a, b}
  BY <1>1 DEF Min
<1> QED
  BY <1>2

\* A task lends its priority to the owner, who has the mutex or is about to.
LEMMA PrioWaitsKeeps ==
  ASSUME ProcInv, MuxInv, PrioInv, Free, NEW m \in Muxes, NEW limited, MuxPendWaits(m, limited)
  PROVE  PrioInv'
<1>r. running \in Tasks /\ running \notin waiting /\ muxPending[running] = {} /\ muxCount[m] > 0
  BY InTaskAwake DEF MuxPendWaits, Free
<1>0. /\ muxPending' = [muxPending EXCEPT ![running] = {m}]
      /\ waiting' = waiting \cup {running}
      /\ prio' = [prio EXCEPT ![muxOwner[m]] = Min({prio[muxOwner[m]], prio[running]})]
      /\ UNCHANGED <<muxPriority, muxExpired, held>>
  BY DEF MuxPendWaits, Wait
<1>1. \A t \in Tasks : muxPending'[t] = IF t = running THEN {m} ELSE muxPending[t]
  BY <1>0 DEF MuxInv, MuxTypes
<1>2. \A t \in Tasks, n \in Muxes : Coming(t, n)' <=> Coming(t, n)
  BY <1>r, <1>0, <1>1 DEF Coming
<1>3. \A t \in Tasks : NoneComing(t)' <=> NoneComing(t)
  BY <1>2 DEF NoneComing
<1>4. prio' \in [Tasks -> Nat] /\ \A t \in Tasks : t # muxOwner[m] => prio'[t] = prio[t]
  <2>1. CASE muxOwner[m] \in Tasks
    <3>1. prio[muxOwner[m]] \in Nat /\ prio[running] \in Nat
      BY <1>r, <2>1 DEF PrioInv
    <3>2. Min({prio[muxOwner[m]], prio[running]}) \in Nat
      BY <3>1, MinOfTwo
    <3> QED
      BY <1>0, <3>2 DEF PrioInv
  <2>2. CASE muxOwner[m] \notin Tasks
    BY <1>0, <2>2 DEF PrioInv
  <2> QED
    BY <2>1, <2>2
<1>5. \A t \in Tasks : t = muxOwner[m] => held[t] # <<>> \/ ~NoneComing(t)
  <2> SUFFICES ASSUME NEW t \in Tasks, t = muxOwner[m], held[t] = <<>>, NoneComing(t)
               PROVE  FALSE
    OBVIOUS
  <2>1. Entries(t, m) = 0 /\ ~Coming(t, m)
    BY EntriesOfNone DEF NoneComing
  <2>2. Entries(t, m) + (IF Coming(t, m) THEN 1 ELSE 0) = muxCount[m]
    BY DEF MuxInv, MuxOwners
  <2> QED
    BY <1>r, <2>1, <2>2
<1> QED
  BY <1>0, <1>2, <1>3, <1>4, <1>5 DEF PrioInv

\* What was handed over goes on the stack, with the priority it remembers.
LEMMA PrioReturnsKeeps ==
  ASSUME ProcInv, MuxInv, PrioInv, MuxPendReturns
  PROVE  PrioInv'
<1>r. running \in Tasks /\ running \notin waiting /\ muxPending[running] # {}
  BY InTaskAwake DEF MuxPendReturns
<1>0. /\ muxPending' = [muxPending EXCEPT ![running] = {}]
      /\ muxExpired' = muxExpired \ {running}
      /\ UNCHANGED <<waiting, prio, muxPriority>>
  BY DEF MuxPendReturns, procVars
<1>1. \A t \in Tasks : muxPending'[t] = IF t = running THEN {} ELSE muxPending[t]
  BY <1>0 DEF MuxInv, MuxTypes
<1>2. \A t \in Tasks, n \in Muxes : Coming(t, n)' <=> Coming(t, n) /\ t # running
  BY <1>0, <1>1 DEF Coming
<1>3. CASE running \in muxExpired
  <2>1. \A n \in Muxes : ~Coming(running, n)
    BY <1>3 DEF Coming
  <2>2. \A t \in Tasks, n \in Muxes : Coming(t, n)' <=> Coming(t, n)
    BY <1>2, <2>1
  <2>3. held' = held
    BY <1>3 DEF MuxPendReturns
  <2> QED
    BY <1>0, <2>2, <2>3, PrioUntouched
<1>4. CASE running \notin muxExpired
  <2>m. PICK m \in Muxes : muxPending[running] = {m}
    <3>1. PICK m \in muxPending[running] : TRUE
      BY <1>r
    <3>2. m \in Muxes /\ muxPending[running] = {m}
      BY <1>r DEF MuxInv, MuxTypes, MuxLists
    <3> QED
      BY <3>2
  <2>h. held[running] \in Seq(Muxes)
    BY <1>r DEF MuxInv, MuxTypes
  <2>1. held' = [held EXCEPT ![running] = Append(held[running], m)]
    <3>1. SetToSeq(muxPending[running]) = <<m>>
      BY <2>m, SetToSeqSingleton, Zenon
    <3>2. Append(held[running], m) = held[running] \o <<m>>
      BY <2>h, AppendIsConcat
    <3>3. held[running] \o SetToSeq(muxPending[running]) = Append(held[running], m)
      BY <3>1, <3>2, Zenon
    <3> QED
      BY <1>4, <3>3 DEF MuxPendReturns
  <2>2. \A t \in Tasks : held'[t] = IF t = running THEN Append(held[t], m) ELSE held[t]
    BY <2>1 DEF MuxInv, MuxTypes
  <2>3. /\ Append(held[running], m) # <<>>
        /\ Append(held[running], m)[1] = IF held[running] = <<>> THEN m ELSE held[running][1]
    BY <2>h, AppendFirst
  <2>4. /\ held'[running] # <<>>
        /\ held'[running][1] = IF held[running] = <<>> THEN m ELSE held[running][1]
    <3>1. held'[running] = Append(held[running], m)
      BY <1>r, <2>2
    <3> QED
      BY <2>3, <3>1, Zenon
  <2>5. Coming(running, m)
    BY <1>r, <1>4, <2>m DEF Coming
  <2>6. muxPriority[held'[running][1]] = InitPriority[running]
    <3>1. CASE held[running] = <<>>
      BY <1>r, <2>4, <2>5, <3>1 DEF PrioInv
    <3>2. CASE held[running] # <<>>
      BY <1>r, <2>4, <3>2 DEF PrioInv
    <3> QED
      BY <3>1, <3>2
  <2>7. ASSUME NEW t \in Tasks, t # running
        PROVE  /\ held'[t] = held[t] /\ (NoneComing(t)' <=> NoneComing(t))
               /\ \A n \in Muxes : Coming(t, n)' <=> Coming(t, n)
    BY <1>2, <2>2, <2>7 DEF NoneComing
  <2> QED
    BY <1>0, <2>4, <2>6, <2>7 DEF PrioInv
<1> QED
  BY <1>3, <1>4

\* What a post leaves on the stack: nothing, or the same first entry.
LEMMA ReleasedFirst ==
  ASSUME NEW s \in Seq(Muxes), NEW m, Cardinality(Places(s, m)) # 0
  PROVE  /\ Len(s) = 1 => Released(s, m) = <<>>
         /\ Max(Places(s, m)) > 1 => Released(s, m) # <<>> /\ Released(s, m)[1] = s[1]
<1> DEFINE k == Max(Places(s, m))
           r == RemoveAt(s, k)
<1>1. k \in DOMAIN s /\ Released(s, m) = r
  BY ReleasedEntries
<1> HIDE DEF k
<1>2. /\ r \in Seq(Muxes) /\ Len(s) \in Nat /\ DOMAIN s = 1..Len(s)
      /\ DOMAIN r = 1..(Len(s) - 1)
      /\ \A i \in 1..(Len(s) - 1) : r[i] = IF i < k THEN s[i] ELSE s[i + 1]
  BY <1>1, RemoveAtValue
<1> HIDE DEF r
<1>3. CASE Len(s) = 1
  <2>1. DOMAIN r = {}
    BY <1>2, <1>3
  <2>2. r = <<>>
    BY <1>2, <2>1, EmptySeq, LenProperties
  <2>3. ~(k > 1)
    BY <1>1, <1>2, <1>3
  <2> QED
    BY <1>1, <2>2, <2>3 DEF k
<1>4. CASE Len(s) # 1 /\ k > 1
  <2>1. 1 \in 1..(Len(s) - 1) /\ 1 < k
    BY <1>1, <1>2, <1>4
  <2>2. r[1] = s[1] /\ 1 \in DOMAIN r
    BY <1>2, <2>1
  <2>3. r # <<>>
    BY <2>2
  <2> QED
    BY <1>1, <1>4, <2>2, <2>3
<1> QED
  BY <1>3, <1>4 DEF k

\* A mutex that was taken more than once is not given back yet.
LEMMA PrioPostNestedKeeps ==
  ASSUME ProcInv, MuxInv, PrioInv, Free, NEW m \in Muxes, MuxPostNested(m)
  PROVE  PrioInv'
<1>0. /\ muxOwner[m] = running /\ muxCount[m] > 1
      /\ held' = [held EXCEPT ![running] = Released(held[running], m)]
      /\ UNCHANGED <<waiting, prio, muxPriority, muxPending, muxExpired>>
  BY DEF MuxPostNested, procVars
<1>t. muxCount[m] \in Nat
  BY DEF MuxInv, MuxTypes
<1>1. /\ running \in Tasks /\ held[running] \in Seq(Muxes)
      /\ Entries(running, m) = muxCount[m] /\ Entries(running, m) # 0
  BY <1>0, <1>t, OwnerHasEntries
<1> DEFINE s == held[running]
           k == Max(Places(s, m))
<1>2. /\ Places(s, m) \in SUBSET (1..Len(s)) /\ Len(s) \in Nat /\ Places(s, m) # {}
  BY <1>1, PlacesFinite, FS_EmptySet DEF Entries
<1>3. k \in Places(s, m) /\ \A i \in Places(s, m) : i <= k
  BY <1>2, LastPosition
<1>4. k > 1
  <2> SUFFICES ASSUME ~(k > 1) PROVE FALSE
    OBVIOUS
  <2>0. k \in 1..Len(s)
    BY <1>2, <1>3
  <2> HIDE DEF k
  <2>1. \A i \in 1..Len(s) : i <= k => i = 1
    BY <1>2, <2>0
  <2>2. Places(s, m) \subseteq {1}
    BY <1>2, <1>3, <2>1
  <2>3. IsFiniteSet({1}) /\ Cardinality({1}) = 1
    BY FS_Singleton
  <2>4. Cardinality(Places(s, m)) <= 1
    BY <2>2, <2>3, FS_Subset
  <2> QED
    BY <1>0, <1>1, <1>t, <2>4 DEF Entries
<1>5. Released(s, m) # <<>> /\ Released(s, m)[1] = s[1] /\ s # <<>>
  <2>1. s # <<>>
    BY <1>1, EntriesOfNone
  <2> QED
    BY <1>1, <1>4, <2>1, ReleasedFirst DEF Entries
<1>6. \A t \in Tasks : held'[t] = IF t = running THEN Released(s, m) ELSE held[t]
  BY <1>0 DEF MuxInv, MuxTypes
<1>7. held'[running] # <<>> /\ held'[running][1] = held[running][1] /\ held[running] # <<>>
  <2>1. held'[running] = Released(s, m)
    BY <1>1, <1>6
  <2> QED
    BY <1>5, <2>1, Zenon
<1>8. \A t \in Tasks, n \in Muxes : Coming(t, n)' <=> Coming(t, n)
  BY <1>0 DEF Coming
<1>9. \A t \in Tasks : NoneComing(t)' <=> NoneComing(t)
  BY <1>8 DEF NoneComing
<1>10. \A t \in Tasks : /\ held'[t] = <<>> <=> held[t] = <<>>
                        /\ held[t] # <<>> => held'[t][1] = held[t][1]
  BY <1>6, <1>7
<1> QED
  BY <1>0, <1>8, <1>9, <1>10 DEF PrioInv

(***************************************************************************)
(* The last post of a mutex.  It is the top of the stack: either the only  *)
(* entry, and then it is the one that remembers the task's own priority,   *)
(* or the first entry is another mutex and stays.  A task that is handed   *)
(* the mutex was waiting: if it has nothing yet, its priority is its own.  *)
(***************************************************************************)
LEMMA PrioPostLastKeeps ==
  ASSUME ProcInv, MuxInv, PrioInv, Free, NEW m \in Muxes, MuxPostLast(m),
         held[running] # <<>>, Last(held[running]) = m
  PROVE  PrioInv'
<1> DEFINE s == held[running]
           k == Max(Places(s, m))
<1>0. /\ muxOwner[m] = running /\ muxCount[m] = 1
      /\ held' = [held EXCEPT ![running] = Released(s, m)]
      /\ prio' = [prio EXCEPT ![running] = muxPriority[m]]
      /\ UNCHANGED <<muxPending, muxExpired>>
  BY DEF MuxPostLast
<1>1. /\ running \in Tasks /\ s \in Seq(Muxes) /\ Entries(running, m) = 1
      /\ \A n \in Muxes : ~Coming(running, n)
  BY <1>0, OwnerHasEntries
<1>2. Places(s, m) \in SUBSET (1..Len(s)) /\ IsFiniteSet(Places(s, m)) /\ Len(s) \in Nat \ {0}
      /\ DOMAIN s = 1..Len(s)
  BY <1>1, PlacesFinite, EmptySeq, LenProperties
<1>3. Len(s) \in Places(s, m)
  BY <1>2 DEF Places, Last
<1>4. Places(s, m) = {Len(s)}
  <2>1. Cardinality(Places(s, m)) = 1
    BY <1>1 DEF Entries
  <2>2. PICK x : Places(s, m) = {x}
    BY <1>2, <2>1, FS_Singleton
  <2> QED
    BY <1>3, <2>2
<1>5. k = Len(s)
  BY <1>2, <1>4, LastPosition
<1>6. /\ Len(s) = 1 => Released(s, m) = <<>>
      /\ Len(s) > 1 => Released(s, m) # <<>> /\ Released(s, m)[1] = s[1]
  BY <1>1, <1>5, ReleasedFirst DEF Entries
<1>7. Len(s) > 1 => s[1] # m
  <2>0. Len(s) \in Nat /\ DOMAIN s = 1..Len(s)
    BY <1>2
  <2> HIDE DEF s
  <2>1. Len(s) > 1 => 1 \in 1..Len(s) /\ 1 # Len(s)
    BY <2>0
  <2> QED
    BY <1>4, <2>0, <2>1 DEF Places
<1>8. s[1] \in Muxes /\ (Len(s) = 1 => s[1] = m)
  <2>1. 1 \in 1..Len(s)
    BY <1>2
  <2>2. s[1] \in Muxes
    BY <1>1, <2>1, ElementOfSeq
  <2>3. Len(s) = 1 => s[1] = m
    BY <1>3 DEF Places
  <2> QED
    BY <2>2, <2>3
<1>9. muxPriority[s[1]] = InitPriority[running]
  BY <1>1 DEF PrioInv
<1>10. /\ held'[running] = Released(s, m)
       /\ \A t \in Tasks : t # running => held'[t] = held[t]
  BY <1>0, <1>1 DEF MuxInv, MuxTypes
<1>11. /\ prio' \in [Tasks -> Nat] /\ prio'[running] = muxPriority[m]
       /\ \A t \in Tasks : t # running => prio'[t] = prio[t]
  BY <1>0, <1>1 DEF PrioInv
<1>12. \A t \in Tasks : t # running => Entries(t, m) = 0 /\ ~Coming(t, m)
  BY <1>0, NobodyHas
<1>13. \A t \in Tasks : t # running /\ held[t] # <<>> => held[t][1] # m /\ held[t][1] \in Muxes
  BY <1>12, FirstIsNot DEF MuxInv
<1>14. /\ muxPriority' \in [Muxes -> Nat]
       /\ \A n \in Muxes : n # m => muxPriority'[n] = muxPriority[n]
       /\ \A t \in Tasks, n \in Muxes : n # m => (Coming(t, n)' <=> Coming(t, n))
       /\ \A t \in Tasks : t = running => ~Coming(t, m)'
       /\ \A t \in Tasks : Coming(t, m)' /\ held[t] = <<>> => muxPriority'[m] = InitPriority[t]
  <2>1. CASE muxList[m] = <<>>
    <3>1. UNCHANGED <<waiting, muxPriority>>
      BY <2>1 DEF MuxPostLast
    <3>2. \A t \in Tasks, n \in Muxes : Coming(t, n)' <=> Coming(t, n)
      BY <1>0, <3>1 DEF Coming
    <3> QED
      BY <1>1, <1>12, <3>1, <3>2 DEF PrioInv
  <2>2. CASE muxList[m] # <<>>
    <3> DEFINE next == Head(muxList[m])
    <3>0. /\ muxPriority' = [muxPriority EXCEPT ![m] = prio[next]]
          /\ waiting' = waiting \ {next}
      BY <2>2 DEF MuxPostLast, Wake
    <3>1. muxList[m] \in Seq(Tasks) /\ IsInjective(muxList[m])
      BY DEF MuxInv, MuxTypes, MuxLists
    <3>2. next \in Tasks /\ next \in ToSet(muxList[m])
      BY <2>2, <3>1, TailMembers
    <3> HIDE DEF next
    <3>3. next \in waiting /\ m \in muxPending[next] /\ next \notin muxExpired
      BY <3>2 DEF MuxInv, MuxLists
    <3>4. \A n \in Muxes : n \in muxPending[next] <=> n = m
      BY <3>2, <3>3 DEF MuxInv, MuxLists
    <3>5. next # running
      BY <3>2, <3>3 DEF Free
    <3>6. \A t \in Tasks, n \in Muxes : Coming(t, n)' <=> Coming(t, n) \/ (t = next /\ n = m)
      BY <1>0, <3>0, <3>3, <3>4 DEF Coming
    <3>7. NoneComing(next)
      BY <3>3 DEF NoneComing, Coming
    <3>8. held[next] = <<>> => prio[next] = InitPriority[next]
      BY <3>2, <3>7 DEF PrioInv
    <3>9. /\ muxPriority' \in [Muxes -> Nat] /\ muxPriority'[m] = prio[next]
          /\ \A n \in Muxes : n # m => muxPriority'[n] = muxPriority[n]
      BY <3>0, <3>2 DEF PrioInv
    <3>10. \A t \in Tasks : Coming(t, m)' => t = next
      BY <1>1, <1>12, <3>6
    <3>11. \A t \in Tasks : Coming(t, m)' /\ held[t] = <<>> => muxPriority'[m] = InitPriority[t]
      BY <3>8, <3>9, <3>10
    <3>12. \A t \in Tasks : t = running => ~Coming(t, m)'
      BY <1>1, <3>5, <3>10
    <3>13. \A t \in Tasks, n \in Muxes : n # m => (Coming(t, n)' <=> Coming(t, n))
      BY <3>6
    <3> QED
      BY <3>9, <3>11, <3>12, <3>13
  <2> QED
    BY <2>1, <2>2
<1> HIDE DEF s, k
<1>15. /\ held'[running] = <<>> => prio'[running] = InitPriority[running]
       /\ held'[running] # <<>> => muxPriority'[held'[running][1]] = InitPriority[running]
       /\ \A t \in Tasks, n \in Muxes : t = running => ~Coming(t, n)'
  <2>1. \A t \in Tasks, n \in Muxes : t = running => ~Coming(t, n)'
    BY <1>1, <1>14
  <2>2. CASE Len(s) = 1
    <3>1. held'[running] = <<>>
      BY <1>6, <1>10, <2>2
    <3>2. prio'[running] = InitPriority[running]
      BY <1>8, <1>9, <1>11, <2>2
    <3> QED
      BY <2>1, <3>1, <3>2
  <2>3. CASE Len(s) > 1
    <3>1. held'[running] # <<>> /\ held'[running][1] = s[1]
      BY <1>6, <1>10, <2>3
    <3>2. muxPriority'[s[1]] = muxPriority[s[1]]
      BY <1>7, <1>8, <1>14, <2>3
    <3> QED
      BY <1>9, <2>1, <3>1, <3>2
  <2> QED
    BY <1>2, <2>2, <2>3
<1>16. ASSUME NEW t \in Tasks, t # running
       PROVE  /\ held'[t] = <<>> /\ NoneComing(t)' => prio'[t] = InitPriority[t]
              /\ held'[t] # <<>> => muxPriority'[held'[t][1]] = InitPriority[t]
              /\ \A n \in Muxes : held'[t] = <<>> /\ Coming(t, n)' => muxPriority'[n] = InitPriority[t]
  <2>1. held'[t] = held[t] /\ prio'[t] = prio[t]
    BY <1>10, <1>11, <1>16
  <2>2. NoneComing(t)' => NoneComing(t)
    BY <1>12, <1>14, <1>16 DEF NoneComing
  <2>3. held[t] # <<>> => muxPriority'[held[t][1]] = InitPriority[t]
    BY <1>13, <1>14, <1>16 DEF PrioInv
  <2>4. ASSUME NEW n \in Muxes, held[t] = <<>>, Coming(t, n)'
        PROVE  muxPriority'[n] = InitPriority[t]
    <3>1. CASE n = m
      BY <1>14, <2>4, <3>1
    <3>2. CASE n # m
      BY <1>14, <2>4, <3>2 DEF PrioInv
    <3> QED
      BY <3>1, <3>2
  <2> QED
    BY <2>1, <2>2, <2>3, <2>4 DEF PrioInv
<1> QED
  BY <1>11, <1>14, <1>15, <1>16 DEF PrioInv

LEMMA PrioInvNext ==
  ASSUME "post_any_order" \notin Calls, ProcInv, OneKind, MuxInv, PrioInv, [IpcNext]_vars
  PROVE  PrioInv'
<1>w. waiting \subseteq Tasks
  BY DEF ProcInv
<1>1. CASE UNCHANGED vars
  BY <1>1, PrioUntouched DEF vars, objectVars, procVars, muxVars, Coming
<1>2. CASE ProcStep
  <2>1. UNCHANGED <<waiting, prio, muxVars>>
    BY <1>2 DEF ProcStep, objectVars, TaskLock, TaskUnlock, Switch, NoSwitch, TaskSuspend,
                TaskResume
  <2> QED
    BY <2>1, PrioUntouched DEF muxVars, Coming
<1>3. CASE SemStep \/ QueueStep
  <2>p. prio' = prio
    <3>1. CASE SemStep
      BY <3>1 DEF SemStep, SemCall, SemCreate, LOS_SemDelete, LOS_SemPost, SemPendTakes,
         SemPendWaits, SemPendReturns, procVars
    <3>2. CASE QueueStep
      BY <3>2 DEF QueueStep, QueueCall, LOS_QueueCreate, LOS_QueueDelete, QueueOperateAtOnce,
         QueueOperateWaits, QueueOperateReturns, procVars
    <3> QED
      BY <1>3, <3>1, <3>2
  <2>1. UNCHANGED muxVars /\ kind # "mux" /\ prio' = prio
    BY <1>3, <2>p DEF SemStep, QueueStep
  <2>2. \A t \in Tasks : muxPending[t] = {}
    BY <2>1 DEF OneKind
  <2>3. \A t \in Tasks, m \in Muxes : Coming(t, m)' <=> Coming(t, m)
    BY <2>1, <2>2 DEF Coming, muxVars
  <2> QED
    BY <2>1, <2>3, PrioUntouched DEF muxVars
<1>4. ASSUME NEW ts \in SUBSET Tasks, ElapseStep(ts) PROVE PrioInv'
  <2>1. /\ ts \subseteq waiting /\ waiting' = waiting \ ts
        /\ muxExpired' = muxExpired \cup {t \in ts : muxPending[t] # {}}
        /\ UNCHANGED <<prio, muxPriority, muxPending, held>>
    BY <1>4 DEF ElapseStep, Elapse, Wake, MuxElapse, ProcInv
  <2>2. ASSUME NEW t \in Tasks, NEW m \in Muxes PROVE Coming(t, m)' <=> Coming(t, m)
    BY <2>1 DEF Coming
  <2> QED
    BY <2>1, <2>2, PrioUntouched
<1>5. CASE MuxStep
  <2>1. CASE MuxPendReturns
    BY <2>1, PrioReturnsKeeps
  <2>2. ASSUME NEW m \in Muxes, LOS_MuxDelete(m) PROVE PrioInv'
    BY <2>2, PrioUntouched DEF LOS_MuxDelete, procVars, Coming
  <2>3. ASSUME NEW m \in Muxes, Free, held[running] # <<>>, InOrder(m), MuxPostLast(m)
        PROVE  PrioInv'
    BY <2>3, PrioPostLastKeeps DEF InOrder
  <2> QED
    BY <1>5, <2>1, <2>2, <2>3, PrioCreateKeeps, PrioTakesKeeps, PrioNestsKeeps, PrioWaitsKeeps,
       PrioPostNestedKeeps DEF MuxStep, MuxCall
<1> QED
  BY <1>1, <1>2, <1>3, <1>4, <1>5, StepsByKind

\* A priority that a mutex owner borrowed is given back with its last mutex, for
\* any nesting of mutexes, if they are given back in the reverse order.
THEOREM PriorityAlwaysGivenBack ==
  ASSUME "post_any_order" \notin Calls
  PROVE  IpcSpec => []PriorityGivenBack
<1>1. ProcInv /\ OneKind /\ MuxInv /\ PrioInv /\ [IpcNext]_vars => PrioInv'
  BY PrioInvNext
<1> QED
  BY <1>1, PrioInvInit, PrioInvGivesBack, MuxInvariance, ProcInvariance, PTL DEF IpcSpec

-----------------------------------------------------------------------------
(* Message queues *)

\* Task t is inside an operation of this side that had to wait.
Wants(t, side) == \E op \in queuePending[t] : op.side = side

\* The tasks that were woken on a side and have not used what they claimed.
Claim(side) == {t \in Tasks : Wants(t, side) /\ t \notin queueExpired /\ t \notin waiting}

\* The messages, or the free slots, that are claimed or that nobody has claimed.
Amount(side) == readWriteableCnt[side] + Cardinality(Claim(side))

QueueTypes ==
  /\ queueState \in BOOLEAN
  /\ readWriteableCnt \in [Sides -> Nat]
  /\ readWriteList \in [Sides -> Seq(Tasks)]
  /\ queuePending \in [Tasks -> SUBSET Operations]
  /\ queueExpired \subseteq Tasks

(***************************************************************************)
(* As for the other objects, the lists hold exactly the callers that still *)
(* wait, so a time-out and a hand-over never reach the same task.          *)
(***************************************************************************)
QueueLists ==
  /\ \A s \in Sides : IsInjective(readWriteList[s])
  /\ \A s \in Sides : ToSet(readWriteList[s]) = {t \in waiting : Wants(t, s)}
  /\ \A s \in Sides : readWriteList[s] # <<>> => queueState /\ readWriteableCnt[s] = 0
  /\ \A t \in Tasks : \A op1, op2 \in queuePending[t] : op1 = op2
  /\ \A t \in queueExpired : queuePending[t] # {} /\ t \notin waiting

QueueAmounts ==
  /\ queueState => Amount("read") + Amount("write") = queueLen
  /\ ~queueState => \A s \in Sides : Claim(s) = {}

QueueInv == QueueTypes /\ QueueLists /\ QueueAmounts

(***************************************************************************)
(* The ring: the tail is as many slots after the head as there are         *)
(* messages, claimed or not.                                               *)
(***************************************************************************)
Later(position, n) ==
  IF position + n < queueLen THEN position + n ELSE position + n - queueLen

RingInv ==
  /\ queueHead \in 0 .. queueLen - 1 /\ queueTail \in 0 .. queueLen - 1
  /\ queue \in [0 .. queueLen - 1 -> Msgs \cup {NoMsg}]
  /\ queueState => queueTail = Later(queueHead, Amount("read"))

-----------------------------------------------------------------------------
LEMMA OperationSides ==
  /\ \A op \in Operations : op.side \in Sides
  /\ \A op \in Operations : op.side = "write" => op.msg \in Msgs /\ op.at \in {"head", "tail"}
  BY DEF Operations, Sides

LEMMA SidesAre ==
  /\ Sides = {"read", "write"} /\ OtherSide("read") = "write" /\ OtherSide("write") = "read"
  /\ \A s \in Sides : OtherSide(s) \in Sides /\ OtherSide(s) # s
  /\ \A s, r \in Sides : r # s => r = OtherSide(s)
  BY DEF Sides, OtherSide

\* Claims are finite sets.
LEMMA ClaimsFinite ==
  ASSUME QueueTypes, NEW s \in Sides
  PROVE  /\ IsFiniteSet(Claim(s)) /\ Cardinality(Claim(s)) \in Nat
         /\ readWriteableCnt[s] \in Nat /\ Amount(s) \in Nat
<1>1. Claim(s) \in SUBSET Tasks
  BY DEF Claim
<1>2. IsFiniteSet(Claim(s)) /\ Cardinality(Claim(s)) \in Nat
  BY <1>1, TasksAssumption, FS_Subset, FS_CardinalityType
<1>3. readWriteableCnt[s] \in Nat
  BY DEF QueueTypes
<1> QED
  BY <1>2, <1>3 DEF Amount

\* The invariant's claims are those of the model.
LEMMA ClaimedIs ==
  ASSUME QueueInv, NEW s \in Sides
  PROVE  Claimed(s) = Claim(s)
<1>1. readWriteList[s] \in Seq(Tasks)
  BY DEF QueueInv, QueueTypes
<1>2. \A t : Contains(readWriteList[s], t) <=> t \in ToSet(readWriteList[s])
  BY <1>1, ContainsToSet
<1>3. ToSet(readWriteList[s]) = {t \in waiting : Wants(t, s)}
  BY DEF QueueInv, QueueLists
<1> QED
  BY <1>2, <1>3 DEF Claimed, Claim, Wants

LEMMA QueueInvAccounts == QueueInv => SlotsAccounted
<1> SUFFICES ASSUME QueueInv PROVE SlotsAccounted
  OBVIOUS
<1> DEFINE R == Claim("read")
           W == Claim("write")
<1>s. "read" \in Sides /\ "write" \in Sides
  BY DEF Sides
<1>1. Claimed("read") = R /\ Claimed("write") = W
  BY <1>s, ClaimedIs
<1>2. /\ IsFiniteSet(R) /\ IsFiniteSet(W)
      /\ Cardinality(R) \in Nat /\ Cardinality(W) \in Nat
      /\ readWriteableCnt["read"] \in Nat /\ readWriteableCnt["write"] \in Nat
  BY <1>s, ClaimsFinite DEF QueueInv
<1>3. R \cap W = {}
  <2> SUFFICES ASSUME NEW t \in Tasks, Wants(t, "read"), Wants(t, "write") PROVE FALSE
    BY DEF Claim
  <2>1. PICK op1 \in queuePending[t] : op1.side = "read"
    BY DEF Wants
  <2>2. PICK op2 \in queuePending[t] : op2.side = "write"
    BY DEF Wants
  <2>3. op1 = op2
    BY DEF QueueInv, QueueLists
  <2> QED
    BY <2>1, <2>2, <2>3
<1>4. Cardinality(R \cup W) = Cardinality(R) + Cardinality(W)
  <2> HIDE DEF R, W
  <2>1. Cardinality(R \cup W) = Cardinality(R) + Cardinality(W) - Cardinality(R \cap W)
    BY <1>2, FS_Union
  <2>2. Cardinality(R \cap W) = 0
    BY <1>3, FS_EmptySet
  <2> QED
    BY <1>2, <2>1, <2>2
<1>5. queueState => readWriteableCnt["read"] + readWriteableCnt["write"]
                    + Cardinality(Claimed("read") \cup Claimed("write")) = queueLen
  <2>1. queueState => readWriteableCnt["read"] + Cardinality(R)
                      + (readWriteableCnt["write"] + Cardinality(W)) = queueLen
    BY DEF QueueInv, QueueAmounts, Amount
  <2>2. Claimed("read") \cup Claimed("write") = R \cup W
    BY <1>1
  <2> HIDE DEF R, W
  <2>3. queueState => readWriteableCnt["read"] + readWriteableCnt["write"]
                      + Cardinality(R \cup W) = queueLen
    BY <1>2, <1>4, <2>1
  <2> QED
    BY <2>2, <2>3
<1>6. \A s \in Sides : Claimed(s) = Claim(s)
  BY ClaimedIs
<1> QED
  BY <1>5, <1>6 DEF QueueInv, QueueLists, QueueAmounts, SlotsAccounted

LEMMA QueueInvInit == IpcInit => QueueInv /\ RingInv
<1> SUFFICES ASSUME IpcInit PROVE QueueInv /\ RingInv
  OBVIOUS
<1>1. QueueInit /\ waiting = {}
  BY DEF IpcInit, ProcInit
<1>2. <<>> \in Seq(Tasks) /\ ToSet(<<>>) = {} /\ IsInjective(<<>>)
  <2>1. <<>> \in Seq(Tasks)
    OBVIOUS
  <2> QED
    BY <2>1, EmptyMembers
<1>3. QueueTypes
  BY <1>1, <1>2 DEF QueueInit, QueueTypes
<1>4. QueueLists
  BY <1>1, <1>2 DEF QueueInit, QueueLists, Wants
<1>5. QueueAmounts
  BY <1>1 DEF QueueInit, QueueAmounts, Claim, Wants
<1>6. RingInv
  BY <1>1, QueueAssumption DEF QueueInit, RingInv
<1> QED
  BY <1>3, <1>4, <1>5, <1>6 DEF QueueInv

\* Steps that leave the queue and the waiting of its callers alone.
LEMMA QueueUntouched ==
  ASSUME QueueInv, RingInv, ProcInv, ProcInv', UNCHANGED queueVars,
         \A t \in Tasks : queuePending[t] # {} => (t \in waiting' <=> t \in waiting)
  PROVE  QueueInv' /\ RingInv' /\ \A s \in Sides : Amount(s)' = Amount(s)
<1>u. UNCHANGED <<queueState, queueHead, queueTail, queue, readWriteableCnt, readWriteList,
                  queuePending, queueExpired>>
  BY DEF queueVars, ringVars
<1>t. waiting \subseteq Tasks /\ waiting' \subseteq Tasks
  BY DEF ProcInv
<1>1. QueueTypes'
  BY <1>u DEF QueueInv, QueueTypes
<1>2. \A t \in Tasks, s \in Sides : /\ Wants(t, s)' <=> Wants(t, s)
                                    /\ Wants(t, s) => queuePending[t] # {}
  BY <1>u DEF Wants
<1>3. ASSUME NEW s \in Sides
      PROVE  {t \in waiting' : Wants(t, s)'} = {t \in waiting : Wants(t, s)}
  BY <1>t, <1>2
<1>4. \A t \in queueExpired : t \in Tasks /\ queuePending[t] # {} /\ t \notin waiting'
  BY DEF QueueInv, QueueTypes, QueueLists
<1>5. QueueLists'
  BY <1>u, <1>3, <1>4 DEF QueueInv, QueueLists
<1>6. \A s \in Sides : Claim(s)' = Claim(s)
  BY <1>u, <1>2 DEF Claim
<1>7. \A s \in Sides : Amount(s)' = Amount(s)
  BY <1>u, <1>6 DEF Amount
<1>8. QueueAmounts'
  BY <1>u, <1>6, <1>7 DEF QueueInv, QueueAmounts, Sides
<1>9. RingInv'
  BY <1>u, <1>7 DEF RingInv, Sides, Later
<1> QED
  BY <1>1, <1>5, <1>7, <1>8, <1>9 DEF QueueInv

\* Time-outs reach tasks on the lists only: what was claimed stays claimed.
LEMMA QueueElapseKeeps ==
  ASSUME ProcInv, QueueInv, RingInv, NEW ts \in SUBSET Tasks, Elapse(ts), QueueElapse(ts)
  PROVE  QueueInv' /\ RingInv' /\ \A s \in Sides : Amount(s)' = Amount(s)
<1>u. UNCHANGED <<queueState, queueHead, queueTail, queue, readWriteableCnt, queuePending>>
  BY DEF QueueElapse, ringVars
<1>0. /\ ts \subseteq waiting /\ waiting' = waiting \ ts
      /\ queueExpired' = queueExpired \cup {t \in ts : queuePending[t] # {}}
      /\ readWriteList' = [s \in Sides |-> Leave(readWriteList[s], ts)]
  BY DEF Elapse, Wake, QueueElapse, ProcInv
<1>w. \A t \in Tasks, s \in Sides : /\ Wants(t, s)' <=> Wants(t, s)
                                    /\ Wants(t, s) => queuePending[t] # {}
  BY <1>u DEF Wants
<1>t. waiting \subseteq Tasks
  BY DEF ProcInv
<1>1. ASSUME NEW s \in Sides
      PROVE  /\ readWriteList'[s] \in Seq(Tasks)
             /\ IsInjective(readWriteList'[s])
             /\ ToSet(readWriteList'[s]) = ToSet(readWriteList[s]) \ ts
             /\ readWriteList'[s] # <<>> => readWriteList[s] # <<>>
  <2>1. /\ readWriteList[s] \in Seq(Tasks) /\ IsInjective(readWriteList[s])
        /\ readWriteList'[s] = Leave(readWriteList[s], ts)
    BY <1>0 DEF QueueInv, QueueTypes, QueueLists
  <2> QED
    BY <2>1, LeaveMembers, LeaveEmpty
<1>2. QueueTypes'
  BY <1>u, <1>0, <1>1 DEF QueueInv, QueueTypes
<1>3. ASSUME NEW s \in Sides
      PROVE  ToSet(readWriteList'[s]) = {t \in waiting' : Wants(t, s)'}
  <2>1. ToSet(readWriteList[s]) = {t \in waiting : Wants(t, s)}
    BY DEF QueueInv, QueueLists
  <2> QED
    BY <1>0, <1>1, <1>w, <1>t, <2>1
<1>4. \A t \in queueExpired' : queuePending'[t] # {} /\ t \notin waiting'
  BY <1>u, <1>0 DEF QueueInv, QueueLists
<1>5. QueueLists'
  BY <1>u, <1>1, <1>3, <1>4 DEF QueueInv, QueueLists
<1>6. ASSUME NEW s \in Sides PROVE Claim(s)' = Claim(s)
  <2>1. \A t \in Tasks : Wants(t, s) => (t \notin queueExpired' /\ t \notin waiting'
                                         <=> t \notin queueExpired /\ t \notin waiting)
    BY <1>0, <1>w
  <2> QED
    BY <1>w, <2>1 DEF Claim
<1>7. \A s \in Sides : Amount(s)' = Amount(s)
  BY <1>u, <1>6 DEF Amount
<1>8. QueueAmounts'
  BY <1>u, <1>6, <1>7 DEF QueueInv, QueueAmounts, Sides
<1>9. RingInv'
  BY <1>u, <1>7 DEF RingInv, Sides, Later
<1> QED
  BY <1>2, <1>5, <1>7, <1>8, <1>9 DEF QueueInv

-----------------------------------------------------------------------------
\* A new queue has no claims from an earlier one.
LEMMA QueueCreateKeeps ==
  ASSUME QueueInv, RingInv, LOS_QueueCreate
  PROVE  QueueInv' /\ RingInv' /\ Amount("read")' = 0
<1>0. /\ ~queueState /\ queueState' = TRUE /\ queueHead' = 0 /\ queueTail' = 0
      /\ readWriteableCnt' = [s \in Sides |-> IF s = "write" THEN queueLen ELSE 0]
      /\ readWriteList' = [s \in Sides |-> <<>>]
      /\ UNCHANGED <<waiting, queue, queuePending, queueExpired>>
  BY DEF LOS_QueueCreate, procVars
<1>1. \A s \in Sides : readWriteList[s] = <<>> /\ Claim(s) = {}
  BY <1>0 DEF QueueInv, QueueLists, QueueAmounts
<1>2. readWriteList' = readWriteList
  BY <1>0, <1>1 DEF QueueInv, QueueTypes
<1>3. QueueTypes'
  BY <1>0, <1>2, QueueAssumption DEF QueueInv, QueueTypes
<1>4. \A t \in Tasks, s \in Sides : Wants(t, s)' <=> Wants(t, s)
  BY <1>0 DEF Wants
<1>5. QueueLists'
  BY <1>0, <1>1, <1>2 DEF QueueInv, QueueLists, Wants
<1>6. \A s \in Sides : Cardinality(Claim(s)') = 0
  <2>1. \A s \in Sides : Claim(s)' = {}
    BY <1>0, <1>1, <1>4 DEF Claim
  <2> QED
    BY <2>1, FS_EmptySet
<1>7. Amount("read")' = 0 /\ Amount("write")' = queueLen
  BY <1>0, <1>6, QueueAssumption DEF Amount, Sides
<1>8. QueueAmounts'
  BY <1>0, <1>7, QueueAssumption DEF QueueAmounts
<1>9. RingInv'
  BY <1>0, <1>7, QueueAssumption DEF RingInv, Later
<1> QED
  BY <1>3, <1>5, <1>7, <1>8, <1>9 DEF QueueInv

\* LOS_QueueDelete finds no claim: the counters add up to the length.
LEMMA QueueDeleteKeeps ==
  ASSUME QueueInv, RingInv, LOS_QueueDelete
  PROVE  QueueInv' /\ RingInv'
<1>0. /\ queueState /\ queueState' = FALSE
      /\ \A s \in Sides : readWriteList[s] = <<>>
      /\ readWriteableCnt["read"] + readWriteableCnt["write"] = queueLen
      /\ UNCHANGED <<waiting, queueHead, queueTail, queue, readWriteableCnt, readWriteList,
                     queuePending, queueExpired>>
  BY DEF LOS_QueueDelete, procVars, ringVars
<1>1. /\ "read" \in Sides /\ "write" \in Sides
  BY DEF Sides
<1>2. \A s \in Sides : /\ IsFiniteSet(Claim(s)) /\ Cardinality(Claim(s)) \in Nat
                       /\ readWriteableCnt[s] \in Nat
  BY ClaimsFinite DEF QueueInv
<1>3. Cardinality(Claim("read")) = 0 /\ Cardinality(Claim("write")) = 0
  <2>1. readWriteableCnt["read"] + Cardinality(Claim("read"))
        + (readWriteableCnt["write"] + Cardinality(Claim("write"))) = queueLen
    BY <1>0 DEF QueueInv, QueueAmounts, Amount
  <2> QED
    BY <1>0, <1>1, <1>2, <2>1
<1>4. \A s \in Sides : Claim(s) = {}
  BY <1>1, <1>2, <1>3, FS_EmptySet DEF Sides
<1>5. \A s \in Sides : Claim(s)' = {}
  BY <1>0, <1>4 DEF Claim, Wants
<1>6. QueueTypes'
  BY <1>0 DEF QueueInv, QueueTypes
<1>7. QueueLists'
  BY <1>0 DEF QueueInv, QueueLists, Wants
<1>8. QueueAmounts' /\ RingInv'
  BY <1>0, <1>5 DEF QueueAmounts, RingInv
<1> QED
  BY <1>6, <1>7, <1>8 DEF QueueInv

\* A caller that has to wait joins the list of its side.
LEMMA QueueWaitsKeeps ==
  ASSUME ProcInv, QueueInv, RingInv, Free, NEW op \in Operations, NEW limited,
         QueueOperateWaits(op, limited)
  PROVE  QueueInv' /\ RingInv' /\ \A s \in Sides : Amount(s)' = Amount(s)
<1>r. /\ running \in Tasks /\ running \notin waiting /\ queuePending[running] = {}
      /\ queueState /\ readWriteableCnt[op.side] = 0 /\ op.side \in Sides
  BY InTaskAwake, OperationSides DEF QueueOperateWaits, Free
<1>0. /\ readWriteList' = [readWriteList EXCEPT ![op.side] = Append(readWriteList[op.side], running)]
      /\ queuePending' = [queuePending EXCEPT ![running] = {op}]
      /\ waiting' = waiting \cup {running}
      /\ UNCHANGED <<queueState, queueHead, queueTail, queue, readWriteableCnt, queueExpired>>
  BY DEF QueueOperateWaits, Wait, ringVars
<1>x. running \notin queueExpired
  BY <1>r DEF QueueInv, QueueLists
<1>p. \A t \in Tasks : queuePending'[t] = IF t = running THEN {op} ELSE queuePending[t]
  BY <1>0 DEF QueueInv, QueueTypes
<1>w. ASSUME NEW t \in Tasks, NEW s \in Sides
      PROVE  Wants(t, s)' <=> IF t = running THEN s = op.side ELSE Wants(t, s)
  BY <1>p DEF Wants
<1>n. \A s \in Sides : ~Wants(running, s)
  BY <1>r DEF Wants
<1>t. waiting \subseteq Tasks
  BY DEF ProcInv
<1>1. /\ readWriteList[op.side] \in Seq(Tasks) /\ IsInjective(readWriteList[op.side])
      /\ running \notin ToSet(readWriteList[op.side])
  BY <1>r DEF QueueInv, QueueTypes, QueueLists
<1>2. /\ Append(readWriteList[op.side], running) \in Seq(Tasks)
      /\ IsInjective(Append(readWriteList[op.side], running))
      /\ ToSet(Append(readWriteList[op.side], running)) =
           ToSet(readWriteList[op.side]) \cup {running}
  BY <1>r, <1>1, AppendMembers
<1>3. QueueTypes'
  BY <1>r, <1>0, <1>2 DEF QueueInv, QueueTypes
<1>4. ASSUME NEW s \in Sides
      PROVE  /\ IsInjective(readWriteList'[s])
             /\ ToSet(readWriteList'[s]) = {t \in waiting' : Wants(t, s)'}
  <2>0. ToSet(readWriteList[s]) = {t \in waiting : Wants(t, s)} /\ IsInjective(readWriteList[s])
    BY DEF QueueInv, QueueLists
  <2>1. {t \in waiting' : Wants(t, s)'} =
          IF s = op.side THEN {t \in waiting : Wants(t, s)} \cup {running}
          ELSE {t \in waiting : Wants(t, s)}
    BY <1>r, <1>0, <1>w, <1>t
  <2>2. CASE s = op.side
    <3>1. readWriteList'[s] = Append(readWriteList[op.side], running)
      BY <1>0, <2>2 DEF QueueInv, QueueTypes
    <3> QED
      BY <1>2, <2>0, <2>1, <2>2, <3>1
  <2>3. CASE s # op.side
    <3>1. readWriteList'[s] = readWriteList[s]
      BY <1>0, <2>3 DEF QueueInv, QueueTypes
    <3> QED
      BY <2>0, <2>1, <2>3, <3>1
  <2> QED
    BY <2>2, <2>3
<1>5. \A s \in Sides : readWriteList'[s] # <<>> => queueState' /\ readWriteableCnt'[s] = 0
  BY <1>r, <1>0 DEF QueueInv, QueueTypes, QueueLists
<1>6. \A t \in Tasks : \A op1, op2 \in queuePending'[t] : op1 = op2
  BY <1>p DEF QueueInv, QueueLists
<1>7. \A t \in queueExpired' : queuePending'[t] # {} /\ t \notin waiting'
  BY <1>0, <1>x, <1>p DEF QueueInv, QueueTypes, QueueLists
<1>8. QueueLists'
  BY <1>4, <1>5, <1>6, <1>7 DEF QueueLists
<1>9. ASSUME NEW s \in Sides PROVE Claim(s)' = Claim(s)
  BY <1>r, <1>0, <1>w, <1>n DEF Claim
<1>10. \A s \in Sides : Amount(s)' = Amount(s)
  BY <1>0, <1>9 DEF Amount
<1>11. QueueAmounts' /\ RingInv'
  BY <1>0, <1>9, <1>10 DEF QueueInv, QueueAmounts, RingInv, Sides, Later
<1> QED
  BY <1>3, <1>8, <1>10, <1>11 DEF QueueInv

-----------------------------------------------------------------------------
(***************************************************************************)
(* The end of an operation.  Those of the set who (nobody, or the caller   *)
(* that used its claim) are done; one unit of the operation's side is      *)
(* gone, from the counter or from a claim, and the other side gets one,    *)
(* as a claim of its first waiting task or in its counter.                 *)
(***************************************************************************)
LEMMA GiveOtherMoves ==
  ASSUME ProcInv, QueueInv, queueState, NEW side \in Sides, NEW counts \in [Sides -> Nat],
         NEW inHandler, GiveOther(side, counts, inHandler), NEW who \in SUBSET Tasks,
         who \cap waiting = {}, who \cap queueExpired = {},
         UNCHANGED <<queueState, queueExpired>>,
         queuePending' = [t \in Tasks |-> IF t \in who THEN {} ELSE queuePending[t]],
         \A s \in Sides : readWriteList[s] # <<>> => counts[s] = 0,
         \A s \in Sides : counts[s] + Cardinality(Claim(s) \ who)
                          = IF s = side THEN Amount(s) - 1 ELSE Amount(s)
  PROVE  /\ QueueInv'
         /\ Amount(side)' = Amount(side) - 1
         /\ Amount(OtherSide(side))' = Amount(OtherSide(side)) + 1
<1> DEFINE other == OtherSide(side)
<1>s. other \in Sides /\ other # side /\ \A s \in Sides : s # side => s = other
  BY SidesAre
<1> HIDE DEF other
<1>t. waiting \subseteq Tasks
  BY DEF ProcInv
<1>w. ASSUME NEW t \in Tasks, NEW s \in Sides
      PROVE  Wants(t, s)' <=> t \notin who /\ Wants(t, s)
  BY DEF Wants
<1>n. ASSUME NEW s \in Sides
      PROVE  /\ IsFiniteSet(Claim(s) \ who) /\ Cardinality(Claim(s) \ who) \in Nat
             /\ counts[s] \in Nat /\ Amount(s) \in Nat
  <2>1. (Claim(s) \ who) \in SUBSET Tasks
    BY DEF Claim
  <2>2. IsFiniteSet(Claim(s) \ who) /\ Cardinality(Claim(s) \ who) \in Nat
    BY <2>1, TasksAssumption, FS_Subset, FS_CardinalityType
  <2> QED
    BY <2>2, ClaimsFinite DEF QueueInv
<1>p. /\ queuePending' \in [Tasks -> SUBSET Operations]
      /\ \A t \in Tasks : \A op1, op2 \in queuePending'[t] : op1 = op2
  BY DEF QueueInv, QueueTypes, QueueLists
<1>l. \A s \in Sides : /\ readWriteList[s] \in Seq(Tasks) /\ IsInjective(readWriteList[s])
                       /\ ToSet(readWriteList[s]) = {t \in waiting : Wants(t, s)}
  BY DEF QueueInv, QueueTypes, QueueLists
<1>e. \A t \in queueExpired : t \in Tasks /\ queuePending'[t] # {} /\ t \notin waiting
  BY DEF QueueInv, QueueTypes, QueueLists
<1>1. CASE readWriteList[other] = <<>>
  <2>0. /\ readWriteableCnt' = [counts EXCEPT ![other] = counts[other] + 1]
        /\ UNCHANGED <<waiting, readWriteList>>
    BY <1>1 DEF GiveOther, other
  <2>1. \A s \in Sides : readWriteableCnt'[s] = IF s = other THEN counts[s] + 1 ELSE counts[s]
    BY <2>0
  <2>2. ASSUME NEW s \in Sides PROVE Claim(s)' = Claim(s) \ who
    BY <1>w, <2>0 DEF Claim
  <2>3. ASSUME NEW s \in Sides
        PROVE  Amount(s)' = IF s = side THEN Amount(s) - 1 ELSE Amount(s) + 1
    <3>1. Amount(s)' = readWriteableCnt'[s] + Cardinality(Claim(s) \ who)
      BY <2>2 DEF Amount
    <3>2. counts[s] + Cardinality(Claim(s) \ who) = IF s = side THEN Amount(s) - 1 ELSE Amount(s)
      OBVIOUS
    <3>3. counts[s] \in Nat /\ Cardinality(Claim(s) \ who) \in Nat /\ Amount(s) \in Nat
      BY <1>n
    <3>4. CASE s = side
      <4>1. readWriteableCnt'[s] = counts[s]
        BY <1>s, <2>1, <3>4
      <4> QED
        BY <3>1, <3>2, <3>4, <4>1
    <3>5. CASE s # side
      <4>1. readWriteableCnt'[s] = counts[s] + 1
        BY <1>s, <2>1, <3>5
      <4> QED
        BY <3>1, <3>2, <3>3, <3>5, <4>1, SMTT(30)
    <3> QED
      BY <3>4, <3>5
  <2>4. QueueTypes'
    <3>1. counts[other] + 1 \in Nat
      BY <1>s, <1>n
    <3>2. readWriteableCnt' \in [Sides -> Nat]
      BY <2>0, <3>1
    <3> QED
      BY <1>p, <2>0, <3>2 DEF QueueInv, QueueTypes
  <2>5. ASSUME NEW s \in Sides
        PROVE  {t \in waiting' : Wants(t, s)'} = {t \in waiting : Wants(t, s)}
    BY <1>w, <1>t, <2>0
  <2>6. QueueLists'
    <3>1. \A s \in Sides : readWriteList'[s] # <<>> => queueState' /\ readWriteableCnt'[s] = 0
      BY <1>1, <2>0, <2>1
    <3>2. \A s \in Sides : /\ IsInjective(readWriteList'[s])
                           /\ ToSet(readWriteList'[s]) = {t \in waiting' : Wants(t, s)'}
      BY <1>l, <2>0, <2>5
    <3> QED
      BY <1>p, <1>e, <2>0, <3>1, <3>2 DEF QueueLists
  <2> HIDE DEF QueueInv
  <2>7. QueueAmounts'
    <3>1. Amount("read")' + Amount("write")' = Amount("read") + Amount("write")
      BY <1>n, <2>3 DEF Sides
    <3> QED
      BY <3>1 DEF QueueInv, QueueAmounts
  <2> QED
    BY <1>s, <2>3, <2>4, <2>6, <2>7 DEF QueueInv, other
<1>2. CASE readWriteList[other] # <<>>
  <2> DEFINE next == Head(readWriteList[other])
  <2>0. /\ readWriteableCnt' = counts
        /\ readWriteList' = [readWriteList EXCEPT ![other] = Tail(readWriteList[other])]
        /\ waiting' = waiting \ {next}
    BY <1>2 DEF GiveOther, Wake, other
  <2>1. /\ Tail(readWriteList[other]) \in Seq(Tasks) /\ IsInjective(Tail(readWriteList[other]))
        /\ next \in Tasks /\ next \in ToSet(readWriteList[other])
        /\ ToSet(Tail(readWriteList[other])) = ToSet(readWriteList[other]) \ {next}
    BY <1>s, <1>l, <1>2, TailMembers
  <2> HIDE DEF next
  <2>2. /\ next \in waiting /\ Wants(next, other) /\ next \notin who
        /\ next \notin queueExpired
    BY <1>s, <1>l, <1>e, <2>1
  <2>3. ~Wants(next, side)
    <3> SUFFICES ASSUME Wants(next, side) PROVE FALSE
      OBVIOUS
    <3>1. PICK op1 \in queuePending[next] : op1.side = side
      BY DEF Wants
    <3>2. PICK op2 \in queuePending[next] : op2.side = other
      BY <2>2 DEF Wants
    <3>3. op1 = op2
      BY <2>1 DEF QueueInv, QueueLists
    <3> QED
      BY <1>s, <3>1, <3>2, <3>3
  <2>4. ASSUME NEW s \in Sides
        PROVE  /\ Claim(s)' = IF s = other THEN (Claim(s) \ who) \cup {next} ELSE Claim(s) \ who
               /\ next \notin Claim(s) \ who
    <3>1. next \notin Claim(s) \ who
      BY <2>2 DEF Claim
    <3>2. \A t \in Tasks : t # next => (t \in waiting' <=> t \in waiting)
      BY <2>0
    <3>3. next \notin waiting' /\ (Wants(next, s) <=> s = other)
      BY <1>s, <2>0, <2>2, <2>3
    <3>4. \A t \in Tasks : t \in Claim(s)' <=> t \in Claim(s) \ who \/ (t = next /\ s = other)
      BY <1>w, <2>1, <2>2, <3>2, <3>3 DEF Claim
    <3>5. Claim(s)' \in SUBSET Tasks /\ Claim(s) \in SUBSET Tasks
      BY DEF Claim
    <3> QED
      BY <2>1, <3>1, <3>4, <3>5
  <2>5. ASSUME NEW s \in Sides
        PROVE  Cardinality(Claim(s)') =
                 IF s = other THEN Cardinality(Claim(s) \ who) + 1 ELSE Cardinality(Claim(s) \ who)
    <3> DEFINE rest == Claim(s) \ who
    <3>1. IsFiniteSet(rest) /\ next \notin rest
      BY <1>n, <2>4
    <3> HIDE DEF rest
    <3>2. Cardinality(rest \cup {next}) = Cardinality(rest) + 1
      BY <3>1, FS_AddElement
    <3> QED
      BY <2>4, <3>2 DEF rest
  <2>6. ASSUME NEW s \in Sides
        PROVE  Amount(s)' = IF s = side THEN Amount(s) - 1 ELSE Amount(s) + 1
    <3>1. Amount(s)' = counts[s] + Cardinality(Claim(s)')
      BY <2>0 DEF Amount
    <3>2. counts[s] + Cardinality(Claim(s) \ who) = IF s = side THEN Amount(s) - 1 ELSE Amount(s)
      OBVIOUS
    <3>3. counts[s] \in Nat /\ Cardinality(Claim(s) \ who) \in Nat /\ Amount(s) \in Nat
      BY <1>n
    <3>4. CASE s = side
      <4>1. Cardinality(Claim(s)') = Cardinality(Claim(s) \ who)
        BY <1>s, <2>5, <3>4
      <4> QED
        BY <3>1, <3>2, <3>4, <4>1
    <3>5. CASE s # side
      <4>1. Cardinality(Claim(s)') = Cardinality(Claim(s) \ who) + 1
        BY <1>s, <2>5, <3>5
      <4> QED
        BY <3>1, <3>2, <3>3, <3>5, <4>1, SMTT(30)
    <3> QED
      BY <3>4, <3>5
  <2>7. QueueTypes'
    BY <1>p, <2>0, <2>1 DEF QueueInv, QueueTypes
  <2>8. ASSUME NEW s \in Sides
        PROVE  /\ IsInjective(readWriteList'[s])
               /\ ToSet(readWriteList'[s]) = {t \in waiting' : Wants(t, s)'}
               /\ readWriteList'[s] # <<>> => readWriteableCnt'[s] = 0
    <3>1. {t \in waiting' : Wants(t, s)'} = {t \in waiting : Wants(t, s)} \ {next}
      BY <1>w, <1>t, <2>0
    <3>2. CASE s = other
      <4>1. readWriteList'[s] = Tail(readWriteList[other])
        BY <1>s, <2>0, <3>2 DEF QueueInv, QueueTypes
      <4> QED
        BY <1>l, <1>2, <2>0, <2>1, <3>1, <3>2, <4>1
    <3>3. CASE s # other
      <4>1. readWriteList'[s] = readWriteList[s]
        BY <1>s, <2>0, <3>3 DEF QueueInv, QueueTypes
      <4>2. next \notin ToSet(readWriteList[s])
        BY <1>s, <1>l, <2>3, <3>3
      <4> QED
        BY <1>l, <2>0, <3>1, <4>1, <4>2
    <3> QED
      BY <3>2, <3>3
  <2>9. QueueLists'
    BY <1>p, <1>e, <2>0, <2>8 DEF QueueLists
  <2>10. QueueAmounts'
    <3>1. Amount("read")' + Amount("write")' = Amount("read") + Amount("write")
      BY <1>n, <2>6 DEF Sides
    <3> QED
      BY <3>1 DEF QueueInv, QueueAmounts
  <2> QED
    BY <1>s, <2>6, <2>7, <2>9, <2>10 DEF QueueInv, other
<1> QED
  BY <1>1, <1>2

(***************************************************************************)
(* An operation that is done, at once or after a wait: one message or one  *)
(* free slot of its side becomes one of the other side.                    *)
(***************************************************************************)
Done(op) ==
  /\ queueState /\ queueState'
  /\ BufferOperate(op)
  /\ Amount(op.side) >= 1
  /\ Amount(op.side)' = Amount(op.side) - 1
  /\ Amount(OtherSide(op.side))' = Amount(OtherSide(op.side)) + 1

LEMMA AtOnceIsDone ==
  ASSUME ProcInv, QueueInv, NEW op \in Operations, NEW inHandler,
         QueueOperateAtOnce(op, inHandler)
  PROVE  QueueInv' /\ Done(op)
<1> DEFINE side == op.side
           counts == [readWriteableCnt EXCEPT ![side] = readWriteableCnt[side] - 1]
<1>s. side \in Sides
  BY OperationSides
<1> HIDE DEF side
<1>0. /\ queueState /\ readWriteableCnt[side] > 0 /\ BufferOperate(op)
      /\ GiveOther(side, counts, inHandler)
      /\ UNCHANGED <<queueState, queuePending, queueExpired>>
  BY DEF QueueOperateAtOnce, side
<1>1. \A s \in Sides : /\ readWriteableCnt[s] \in Nat /\ Cardinality(Claim(s)) \in Nat
                       /\ Amount(s) \in Nat
  BY ClaimsFinite DEF QueueInv
<1>2. /\ counts \in [Sides -> Nat]
      /\ \A s \in Sides : counts[s] = IF s = side THEN readWriteableCnt[s] - 1
                                      ELSE readWriteableCnt[s]
  BY <1>s, <1>0, <1>1 DEF QueueInv, QueueTypes
<1> HIDE DEF counts
<1>3. \A s \in Sides : readWriteList[s] # <<>> => counts[s] = 0
  BY <1>0, <1>2 DEF QueueInv, QueueLists
<1>4. ASSUME NEW s \in Sides
      PROVE  counts[s] + Cardinality(Claim(s) \ {}) = IF s = side THEN Amount(s) - 1 ELSE Amount(s)
  <2>1. Claim(s) \ {} = Claim(s)
    OBVIOUS
  <2> QED
    BY <1>1, <1>2, <2>1 DEF Amount
<1>5. queuePending' = [t \in Tasks |-> IF t \in {} THEN {} ELSE queuePending[t]]
  BY <1>0 DEF QueueInv, QueueTypes
<1>6. /\ QueueInv' /\ Amount(side)' = Amount(side) - 1
      /\ Amount(OtherSide(side))' = Amount(OtherSide(side)) + 1
  <2>1. {} \in SUBSET Tasks /\ {} \cap waiting = {} /\ {} \cap queueExpired = {}
    OBVIOUS
  <2> QED
    BY <1>s, <1>0, <1>2, <1>3, <1>4, <1>5, <2>1, GiveOtherMoves
<1>7. Amount(side) >= 1
  BY <1>s, <1>0, <1>1 DEF Amount
<1> QED
  BY <1>0, <1>6, <1>7 DEF Done, side

LEMMA ReturnIsDone ==
  ASSUME ProcInv, QueueInv, QueueOperateReturns, running \notin queueExpired
  PROVE  \E op \in Operations : QueueInv' /\ Done(op)
<1>r. running \in Tasks /\ running \notin waiting
  BY InTaskAwake DEF QueueOperateReturns
<1>0. PICK op \in queuePending[running] : BufferOperate(op) /\ GiveOther(op.side, readWriteableCnt, FALSE)
  BY DEF QueueOperateReturns
<1>1. /\ op \in Operations /\ op.side \in Sides
      /\ \A op2 \in queuePending[running] : op2 = op
  BY <1>r, OperationSides DEF QueueInv, QueueTypes, QueueLists
<1> DEFINE side == op.side
<1>2. /\ running \in Claim(side)
      /\ \A s \in Sides : s # side => running \notin Claim(s)
  BY <1>r, <1>0, <1>1 DEF Claim, Wants
<1>3. queueState
  BY <1>1, <1>2 DEF QueueInv, QueueAmounts
<1>4. /\ queuePending' = [t \in Tasks |-> IF t \in {running} THEN {} ELSE queuePending[t]]
      /\ UNCHANGED <<queueState, queueExpired>>
  BY DEF QueueOperateReturns, QueueInv, QueueTypes
<1> HIDE DEF side
<1>5. \A s \in Sides : /\ IsFiniteSet(Claim(s)) /\ Cardinality(Claim(s)) \in Nat
                       /\ readWriteableCnt[s] \in Nat /\ Amount(s) \in Nat
  BY ClaimsFinite DEF QueueInv
<1>6. ASSUME NEW s \in Sides
      PROVE  /\ Cardinality(Claim(s) \ {running}) =
                  IF s = side THEN Cardinality(Claim(s)) - 1 ELSE Cardinality(Claim(s))
  BY <1>2, <1>5, FS_RemoveElement
<1>7. ASSUME NEW s \in Sides
      PROVE  readWriteableCnt[s] + Cardinality(Claim(s) \ {running})
             = IF s = side THEN Amount(s) - 1 ELSE Amount(s)
  BY <1>5, <1>6 DEF Amount
<1>8. /\ readWriteableCnt \in [Sides -> Nat]
      /\ \A s \in Sides : readWriteList[s] # <<>> => readWriteableCnt[s] = 0
  BY DEF QueueInv, QueueTypes, QueueLists
<1>9. /\ QueueInv' /\ Amount(side)' = Amount(side) - 1
      /\ Amount(OtherSide(side))' = Amount(OtherSide(side)) + 1
  <2>1. {running} \in SUBSET Tasks /\ {running} \cap waiting = {} /\ {running} \cap queueExpired = {}
    BY <1>r
  <2>2. GiveOther(side, readWriteableCnt, FALSE) /\ side \in Sides
    BY <1>0, <1>1 DEF side
  <2> QED
    BY <1>3, <1>4, <1>7, <1>8, <2>1, <2>2, GiveOtherMoves
<1>10. Amount(side) >= 1
  <2>1. side \in Sides
    BY <1>1 DEF side
  <2>2. Cardinality(Claim(side)) # 0
    BY <1>2, <1>5, <2>1, FS_EmptySet
  <2> QED
    BY <1>5, <2>1, <2>2 DEF Amount
<1> QED
  BY <1>0, <1>1, <1>3, <1>4, <1>9, <1>10 DEF Done, side

\* A caller that was timed out had no claim.
LEMMA ExpiredKeeps ==
  ASSUME ProcInv, QueueInv, RingInv, QueueOperateReturns, running \in queueExpired
  PROVE  QueueInv' /\ RingInv' /\ \A s \in Sides : Amount(s)' = Amount(s)
<1>r. running \in Tasks /\ running \notin waiting
  BY InTaskAwake DEF QueueOperateReturns
<1>0. /\ queuePending' = [queuePending EXCEPT ![running] = {}]
      /\ queueExpired' = queueExpired \ {running}
      /\ UNCHANGED <<waiting, queueState, queueHead, queueTail, queue, readWriteableCnt,
                     readWriteList>>
  BY DEF QueueOperateReturns, ringVars
<1>p. \A t \in Tasks : queuePending'[t] = IF t = running THEN {} ELSE queuePending[t]
  BY <1>0 DEF QueueInv, QueueTypes
<1>w. ASSUME NEW t \in Tasks, NEW s \in Sides
      PROVE  Wants(t, s)' <=> t # running /\ Wants(t, s)
  BY <1>p DEF Wants
<1>t. waiting \subseteq Tasks
  BY DEF ProcInv
<1>1. QueueTypes'
  BY <1>0 DEF QueueInv, QueueTypes
<1>2. ASSUME NEW s \in Sides
      PROVE  {t \in waiting' : Wants(t, s)'} = {t \in waiting : Wants(t, s)}
  BY <1>r, <1>0, <1>w, <1>t
<1>3. \A t \in queueExpired' : queuePending'[t] # {} /\ t \notin waiting'
  BY <1>0, <1>p DEF QueueInv, QueueTypes, QueueLists
<1>4. \A t \in Tasks : \A op1, op2 \in queuePending'[t] : op1 = op2
  BY <1>p DEF QueueInv, QueueLists
<1>5. QueueLists'
  BY <1>0, <1>2, <1>3, <1>4 DEF QueueInv, QueueLists
<1>6. ASSUME NEW s \in Sides PROVE Claim(s)' = Claim(s)
  BY <1>0, <1>w DEF Claim
<1>7. \A s \in Sides : Amount(s)' = Amount(s)
  BY <1>0, <1>6 DEF Amount
<1>8. QueueAmounts' /\ RingInv'
  BY <1>0, <1>6, <1>7 DEF QueueInv, QueueAmounts, RingInv, Sides, Later
<1> QED
  BY <1>1, <1>5, <1>7, <1>8 DEF QueueInv

-----------------------------------------------------------------------------
\* Positions of the ring.
LEMMA LaterIs ==
  ASSUME NEW h \in 0 .. queueLen - 1, NEW n \in 0 .. queueLen
  PROVE  /\ Later(h, n) \in 0 .. queueLen - 1
         /\ After(h) \in 0 .. queueLen - 1 /\ Before(h) \in 0 .. queueLen - 1
         /\ Later(h, 0) = h
         /\ n >= 1 => Later(After(h), n - 1) = Later(h, n)
         /\ n < queueLen => /\ After(Later(h, n)) = Later(h, n + 1)
                            /\ Later(Before(h), n + 1) = Later(h, n)
                            /\ \A k \in 0 .. n - 1 : Later(h, k) # Later(h, n)
                            /\ \A k \in 0 .. n - 1 : Later(h, k) # Before(h)
<1> USE QueueAssumption
<1>1. Later(h, n) \in 0 .. queueLen - 1 /\ Later(h, 0) = h
  BY DEF Later
<1>2. After(h) \in 0 .. queueLen - 1 /\ Before(h) \in 0 .. queueLen - 1
  BY DEF After, Before
<1>3. n >= 1 => Later(After(h), n - 1) = Later(h, n)
  BY DEF Later, After
<1>4. ASSUME n < queueLen
      PROVE  /\ After(Later(h, n)) = Later(h, n + 1)
             /\ Later(Before(h), n + 1) = Later(h, n)
             /\ \A k \in 0 .. n - 1 : Later(h, k) # Later(h, n)
             /\ \A k \in 0 .. n - 1 : Later(h, k) # Before(h)
  <2>1. After(Later(h, n)) = Later(h, n + 1)
    BY <1>4 DEF Later, After
  <2>2. Later(Before(h), n + 1) = Later(h, n)
    BY <1>4 DEF Later, Before
  <2>3. ASSUME NEW k \in 0 .. n - 1 PROVE Later(h, k) # Later(h, n) /\ Later(h, k) # Before(h)
    BY <1>4 DEF Later, Before
  <2> QED
    BY <2>1, <2>2, <2>3
<1> QED
  BY <1>1, <1>2, <1>3, <1>4

\* The messages of the queue, as a sequence.
LEMMA MessagesAre ==
  QueueInv /\ RingInv =>
    /\ Stored = IF queueState THEN Amount("read") ELSE 0
    /\ Stored \in 0 .. queueLen
    /\ queueState => Amount("read") + Amount("write") = queueLen /\ Amount("write") \in Nat
    /\ Messages \in Seq(Msgs \cup {NoMsg}) /\ Len(Messages) = Stored
    /\ \A i \in 1 .. Stored : Messages[i] = queue[Later(queueHead, i - 1)]
<1> SUFFICES ASSUME QueueInv, RingInv
             PROVE  /\ Stored = IF queueState THEN Amount("read") ELSE 0
                    /\ Stored \in 0 .. queueLen
                    /\ queueState => Amount("read") + Amount("write") = queueLen /\ Amount("write") \in Nat
                    /\ Messages \in Seq(Msgs \cup {NoMsg}) /\ Len(Messages) = Stored
                    /\ \A i \in 1 .. Stored : Messages[i] = queue[Later(queueHead, i - 1)]
  OBVIOUS
<1>s. "read" \in Sides /\ "write" \in Sides
  BY DEF Sides
<1>1. Amount("read") \in Nat /\ Amount("write") \in Nat
  BY <1>s, ClaimsFinite DEF QueueInv
<1>2. Stored = IF queueState THEN Amount("read") ELSE 0
  BY <1>s, ClaimedIs DEF Stored, Amount
<1>3. queueState => Amount("read") + Amount("write") = queueLen
  BY DEF QueueInv, QueueAmounts
<1>4. Stored \in 0 .. queueLen
  BY <1>1, <1>2, <1>3, QueueAssumption
<1>5. ASSUME NEW i \in 1 .. Stored
      PROVE  Slot(i) = Later(queueHead, i - 1) /\ queue[Slot(i)] \in Msgs \cup {NoMsg}
  <2>1. queueHead \in 0 .. queueLen - 1
    BY DEF RingInv
  <2>2. i \in Nat /\ i - 1 \in 0 .. queueLen
    BY <1>4, QueueAssumption
  <2>3. Slot(i) = Later(queueHead, i - 1)
    BY <2>1, <2>2, QueueAssumption DEF Slot, Later
  <2>4. Later(queueHead, i - 1) \in 0 .. queueLen - 1
    BY <2>1, <2>2, LaterIs
  <2> QED
    BY <2>3, <2>4 DEF RingInv
<1>6. Messages \in [1 .. Stored -> Msgs \cup {NoMsg}]
  BY <1>5 DEF Messages
<1>7. Messages \in Seq(Msgs \cup {NoMsg}) /\ Len(Messages) = Stored
  <2>1. Stored \in Nat
    BY <1>4, QueueAssumption
  <2> QED
    BY <1>6, <2>1
<1> QED
  BY <1>1, <1>2, <1>3, <1>4, <1>5, <1>7 DEF Messages

\* What is true of the ring after a step, in terms of the state after it.
LEMMA MessagesThen ==
  ASSUME QueueInv', RingInv'
  PROVE  /\ Stored' = IF queueState' THEN Amount("read")' ELSE 0
         /\ Stored' \in 0 .. queueLen
         /\ Messages' \in Seq(Msgs \cup {NoMsg}) /\ Len(Messages') = Stored'
         /\ \A i \in 1 .. Stored' : Messages'[i] = queue'[Later(queueHead', i - 1)]
<1>1. (QueueInv /\ RingInv =>
        /\ Stored = IF queueState THEN Amount("read") ELSE 0
        /\ Stored \in 0 .. queueLen
        /\ queueState => Amount("read") + Amount("write") = queueLen /\ Amount("write") \in Nat
        /\ Messages \in Seq(Msgs \cup {NoMsg}) /\ Len(Messages) = Stored
        /\ \A i \in 1 .. Stored : Messages[i] = queue[Later(queueHead, i - 1)])'
  BY MessagesAre, PTL
<1> QED
  BY <1>1 DEF Later

\* A read takes the message at the front.
LEMMA ReadGets ==
  ASSUME QueueInv, RingInv, QueueInv', NEW op \in Operations, Done(op), op.side = "read"
  PROVE  RingInv' /\ Fifo!Get
<1> DEFINE S == Amount("read")
<1>0. /\ queueState /\ queueState' /\ S >= 1 /\ Amount("read")' = S - 1
      /\ lastRead' = queue[queueHead] /\ queueHead' = After(queueHead)
      /\ UNCHANGED <<queueTail, queue>>
  BY DEF Done, BufferOperate
<1>1. /\ Stored = S /\ S \in 0 .. queueLen
      /\ Messages \in Seq(Msgs \cup {NoMsg}) /\ Len(Messages) = S
      /\ \A i \in 1 .. S : Messages[i] = queue[Later(queueHead, i - 1)]
  BY <1>0, MessagesAre
<1> HIDE DEF S
<1>2. queueHead \in 0 .. queueLen - 1 /\ queueTail = Later(queueHead, S)
  BY <1>0 DEF RingInv, S
<1>3. RingInv'
  <2>1. queueHead' \in 0 .. queueLen - 1 /\ queueTail = Later(queueHead', S - 1)
    BY <1>0, <1>1, <1>2, LaterIs
  <2>2. queueTail' = Later(queueHead', Amount("read")')
    BY <1>0, <2>1
  <2> QED
    BY <1>0, <2>1, <2>2 DEF RingInv, Later
<1>4. /\ Messages' \in Seq(Msgs \cup {NoMsg}) /\ Len(Messages') = S - 1
      /\ \A i \in 1 .. S - 1 : Messages'[i] = queue[Later(queueHead', i - 1)]
  BY <1>0, <1>3, MessagesThen
<1>5. Messages # <<>> /\ Head(Messages) = queue[queueHead]
  <2>1. 1 \in 1 .. S
    BY <1>0, <1>1, QueueAssumption
  <2>2. Messages[1] = queue[Later(queueHead, 0)]
    BY <1>1, <2>1
  <2>3. Later(queueHead, 0) = queueHead
    BY <1>1, <1>2, LaterIs
  <2>4. Messages # <<>>
    BY <1>0, <1>1
  <2> QED
    BY <1>1, <2>2, <2>3, <2>4
<1>6. Messages' = Tail(Messages)
  <2>1. /\ Tail(Messages) \in Seq(Msgs \cup {NoMsg}) /\ Len(Tail(Messages)) = S - 1
        /\ \A i \in 1 .. S - 1 : Tail(Messages)[i] = Messages[i + 1]
    BY <1>1, <1>5, QueueAssumption
  <2>2. ASSUME NEW i \in 1 .. S - 1 PROVE Messages'[i] = Tail(Messages)[i]
    <3>1. i + 1 \in 1 .. S /\ i \in 0 .. queueLen /\ (i + 1) - 1 = i /\ i >= 1
      BY <1>1, QueueAssumption
    <3>2. Later(After(queueHead), i - 1) = Later(queueHead, i)
      BY <1>2, <3>1, LaterIs
    <3>3. Messages[i + 1] = queue[Later(queueHead, i)]
      BY <1>1, <3>1
    <3> QED
      BY <1>0, <1>4, <2>1, <3>2, <3>3
  <2> QED
    BY <1>4, <2>1, <2>2, SeqEqual
<1> QED
  BY <1>0, <1>3, <1>5, <1>6 DEF Fifo!Get

\* A write at the tail fills the slot after the last message.
LEMMA WriteTailPuts ==
  ASSUME QueueInv, RingInv, QueueInv', NEW op \in Operations, Done(op),
         op.side = "write", op.at = "tail"
  PROVE  RingInv' /\ Fifo!PutTail(op.msg) /\ op.msg \in Msgs
<1> DEFINE S == Amount("read")
<1>0. /\ queueState /\ queueState' /\ Amount("write") >= 1 /\ Amount("read")' = S + 1
      /\ queue' = [queue EXCEPT ![queueTail] = op.msg] /\ queueTail' = After(queueTail)
      /\ UNCHANGED <<queueHead, lastRead>>
  BY SidesAre DEF Done, BufferOperate
<1>m. op.msg \in Msgs
  BY OperationSides
<1>1. /\ Stored = S /\ S \in 0 .. queueLen
      /\ S + Amount("write") = queueLen /\ Amount("write") \in Nat
      /\ Messages \in Seq(Msgs \cup {NoMsg}) /\ Len(Messages) = S
      /\ \A i \in 1 .. S : Messages[i] = queue[Later(queueHead, i - 1)]
  BY <1>0, MessagesAre
<1> HIDE DEF S
<1>2. /\ queueHead \in 0 .. queueLen - 1 /\ queueTail \in 0 .. queueLen - 1
      /\ queueTail = Later(queueHead, S)
      /\ queue \in [0 .. queueLen - 1 -> Msgs \cup {NoMsg}]
  BY <1>0 DEF RingInv, S
<1>3. S < queueLen
  BY <1>0, <1>1, QueueAssumption
<1>4. /\ After(queueTail) \in 0 .. queueLen - 1 /\ After(queueTail) = Later(queueHead, S + 1)
      /\ \A k \in 0 .. S - 1 : Later(queueHead, k) # queueTail
  BY <1>1, <1>2, <1>3, LaterIs
<1>5. RingInv'
  <2>1. queueTail' = Later(queueHead', Amount("read")')
    BY <1>0, <1>4
  <2>2. queue' \in [0 .. queueLen - 1 -> Msgs \cup {NoMsg}]
    BY <1>m, <1>0, <1>2
  <2> QED
    BY <1>0, <1>2, <1>4, <2>1, <2>2 DEF RingInv, Later
<1>6. /\ Messages' \in Seq(Msgs \cup {NoMsg}) /\ Len(Messages') = S + 1
      /\ \A i \in 1 .. S + 1 : Messages'[i] = queue'[Later(queueHead, i - 1)]
  BY <1>0, <1>5, MessagesThen
<1>7. Messages' = Append(Messages, op.msg)
  <2> DEFINE A == Append(Messages, op.msg)
  <2>1. /\ A \in Seq(Msgs \cup {NoMsg}) /\ Len(A) = S + 1 /\ A[S + 1] = op.msg
        /\ \A i \in 1 .. S : A[i] = Messages[i]
    <3>1. op.msg \in Msgs \cup {NoMsg}
      BY <1>m
    <3> QED
      BY <1>1, <3>1, AppendProperties
  <2> HIDE DEF A
  <2>2. ASSUME NEW i \in 1 .. S PROVE Messages'[i] = A[i]
    <3>1. i - 1 \in 0 .. S - 1 /\ i - 1 \in 0 .. queueLen /\ i \in 1 .. S + 1
      BY <1>1, QueueAssumption
    <3>2. Later(queueHead, i - 1) # queueTail /\ Later(queueHead, i - 1) \in 0 .. queueLen - 1
      BY <1>2, <1>4, <3>1, LaterIs
    <3>3. queue'[Later(queueHead, i - 1)] = queue[Later(queueHead, i - 1)]
      BY <1>0, <1>2, <3>2
    <3>4. Messages'[i] = queue'[Later(queueHead, i - 1)]
      BY <1>6, <3>1
    <3>5. Messages[i] = queue[Later(queueHead, i - 1)]
      BY <1>1
    <3> QED
      BY <2>1, <3>3, <3>4, <3>5
  <2>3. Messages'[S + 1] = A[S + 1]
    <3>1. S + 1 \in 1 .. S + 1 /\ (S + 1) - 1 = S
      BY <1>1, QueueAssumption
    <3>2. Messages'[S + 1] = queue'[Later(queueHead, S)]
      BY <1>6, <3>1
    <3>3. queue'[queueTail] = op.msg
      BY <1>0, <1>2
    <3> QED
      BY <1>2, <2>1, <3>2, <3>3
  <2>4. \A i \in 1 .. S + 1 : Messages'[i] = A[i]
    <3>1. \A i \in 1 .. S + 1 : i \in 1 .. S \/ i = S + 1
      BY <1>1, QueueAssumption
    <3> QED
      BY <2>2, <2>3, <3>1
  <2>5. Messages' = A
    BY <1>6, <2>1, <2>4, SeqEqual
  <2> QED
    BY <2>5 DEF A
<1> QED
  BY <1>m, <1>0, <1>1, <1>3, <1>5, <1>7 DEF Fifo!PutTail

\* A write at the head fills the slot before the first message.
LEMMA WriteHeadPuts ==
  ASSUME QueueInv, RingInv, QueueInv', NEW op \in Operations, Done(op),
         op.side = "write", op.at = "head"
  PROVE  RingInv' /\ Fifo!PutHead(op.msg) /\ op.msg \in Msgs
<1> DEFINE S == Amount("read")
           h == Before(queueHead)
<1>0. /\ queueState /\ queueState' /\ Amount("write") >= 1 /\ Amount("read")' = S + 1
      /\ queueHead' = h /\ queue' = [queue EXCEPT ![h] = op.msg]
      /\ UNCHANGED <<queueTail, lastRead>>
  BY SidesAre DEF Done, BufferOperate
<1>m. op.msg \in Msgs
  BY OperationSides
<1>1. /\ Stored = S /\ S \in 0 .. queueLen
      /\ S + Amount("write") = queueLen /\ Amount("write") \in Nat
      /\ Messages \in Seq(Msgs \cup {NoMsg}) /\ Len(Messages) = S
      /\ \A i \in 1 .. S : Messages[i] = queue[Later(queueHead, i - 1)]
  BY <1>0, MessagesAre
<1> HIDE DEF S
<1>2. /\ queueHead \in 0 .. queueLen - 1 /\ queueTail \in 0 .. queueLen - 1
      /\ queueTail = Later(queueHead, S)
      /\ queue \in [0 .. queueLen - 1 -> Msgs \cup {NoMsg}]
  BY <1>0 DEF RingInv, S
<1>3. S < queueLen
  BY <1>0, <1>1, QueueAssumption
<1>4. /\ h \in 0 .. queueLen - 1
      /\ \A n \in 0 .. S : Later(h, n + 1) = Later(queueHead, n)
      /\ \A k \in 0 .. S - 1 : Later(queueHead, k) # h
  <2>1. h \in 0 .. queueLen - 1 /\ \A k \in 0 .. S - 1 : Later(queueHead, k) # h
    BY <1>1, <1>2, <1>3, LaterIs
  <2>2. ASSUME NEW n \in 0 .. S PROVE Later(h, n + 1) = Later(queueHead, n)
    <3>1. n \in 0 .. queueLen /\ n < queueLen
      BY <1>1, <1>3, QueueAssumption
    <3> QED
      BY <1>2, <3>1, LaterIs
  <2> QED
    BY <2>1, <2>2
<1> HIDE DEF h
<1>5. RingInv'
  <2>1. S \in 0 .. S
    BY <1>1, QueueAssumption
  <2>2. queueTail' = Later(queueHead', Amount("read")')
    BY <1>0, <1>2, <1>4, <2>1
  <2>3. queue' \in [0 .. queueLen - 1 -> Msgs \cup {NoMsg}]
    BY <1>m, <1>0, <1>2
  <2> QED
    BY <1>0, <1>2, <1>4, <2>2, <2>3 DEF RingInv, Later
<1>6. /\ Messages' \in Seq(Msgs \cup {NoMsg}) /\ Len(Messages') = S + 1
      /\ \A i \in 1 .. S + 1 : Messages'[i] = queue'[Later(h, i - 1)]
  BY <1>0, <1>5, MessagesThen
<1>7. Messages' = <<op.msg>> \o Messages
  <2> DEFINE A == <<op.msg>> \o Messages
  <2>1. /\ A \in Seq(Msgs \cup {NoMsg}) /\ Len(A) = S + 1 /\ A[1] = op.msg
        /\ \A i \in 2 .. S + 1 : A[i] = Messages[i - 1]
    <3>1. <<op.msg>> \in Seq(Msgs \cup {NoMsg}) /\ Len(<<op.msg>>) = 1 /\ <<op.msg>>[1] = op.msg
      BY <1>m
    <3>2. /\ A \in Seq(Msgs \cup {NoMsg}) /\ Len(A) = 1 + S
          /\ \A i \in 1 .. 1 + S : A[i] = IF i <= 1 THEN <<op.msg>>[i] ELSE Messages[i - 1]
      BY <1>1, <3>1, ConcatProperties
    <3> HIDE DEF A
    <3>3. S \in Nat /\ 1 \in 1 .. 1 + S /\ 1 + S = S + 1
          /\ \A i \in 2 .. S + 1 : i \in 1 .. 1 + S /\ ~(i <= 1)
      BY <1>1, QueueAssumption
    <3>4. A[1] = op.msg
      BY <3>1, <3>2, <3>3
    <3> QED
      BY <3>2, <3>3, <3>4
  <2> HIDE DEF A
  <2>2. ASSUME NEW i \in 2 .. S + 1 PROVE Messages'[i] = A[i]
    <3>0. /\ i - 2 \in 0 .. S - 1 /\ i - 2 \in 0 .. S /\ (i - 2) + 1 = i - 1
          /\ i - 1 \in 1 .. S /\ (i - 1) - 1 = i - 2 /\ i - 2 \in 0 .. queueLen
          /\ i \in 1 .. S + 1
      BY <1>1, QueueAssumption
    <3>1. Later(h, i - 1) = Later(queueHead, i - 2)
      BY <1>4, <3>0
    <3>2. Later(queueHead, i - 2) # h /\ Later(queueHead, i - 2) \in 0 .. queueLen - 1
      BY <1>2, <1>4, <3>0, LaterIs
    <3>3. queue'[Later(queueHead, i - 2)] = queue[Later(queueHead, i - 2)]
      BY <1>0, <1>2, <3>2
    <3>4. Messages'[i] = queue'[Later(h, i - 1)]
      BY <1>6, <3>0
    <3>5. Messages[i - 1] = queue[Later(queueHead, i - 2)]
      BY <1>1, <3>0
    <3> QED
      BY <2>1, <3>1, <3>3, <3>4, <3>5
  <2>3. Messages'[1] = A[1]
    <3>1. 1 \in 1 .. S + 1 /\ 0 \in 0 .. queueLen
      BY <1>1, QueueAssumption
    <3>2. Messages'[1] = queue'[Later(h, 0)]
      BY <1>6, <3>1
    <3>3. Later(h, 0) = h
      BY <1>4, <3>1, LaterIs
    <3>4. queue'[h] = op.msg
      BY <1>0, <1>2, <1>4
    <3> QED
      BY <2>1, <3>2, <3>3, <3>4
  <2>4. \A i \in 1 .. S + 1 : Messages'[i] = A[i]
    <3>1. \A i \in 1 .. S + 1 : i \in 2 .. S + 1 \/ i = 1
      BY <1>1, QueueAssumption
    <3> QED
      BY <2>2, <2>3, <3>1
  <2>5. Messages' = A
    BY <1>6, <2>1, <2>4, SeqEqual
  <2> QED
    BY <2>5 DEF A
<1> QED
  BY <1>m, <1>0, <1>1, <1>3, <1>5, <1>7 DEF Fifo!PutHead

LEMMA DoneIsFifo ==
  ASSUME QueueInv, RingInv, QueueInv', NEW op \in Operations, Done(op)
  PROVE  RingInv' /\ Fifo!FifoNext
<1>1. \/ op.side = "read"
      \/ op.side = "write" /\ op.at = "tail"
      \/ op.side = "write" /\ op.at = "head"
  BY OperationSides, SidesAre
<1> QED
  BY <1>1, ReadGets, WriteTailPuts, WriteHeadPuts DEF Fifo!FifoNext

\* Steps that move no message.
LEMMA SameMessages ==
  ASSUME QueueInv, RingInv, QueueInv', RingInv', Amount("read")' = Amount("read"),
         UNCHANGED <<queueState, queueHead, queue>>
  PROVE  Messages' = Messages
<1>1. Stored' = Stored
  BY MessagesAre, MessagesThen
<1> QED
  BY <1>1 DEF Messages, Slot

\* A deleted queue, and a new one, holds nothing.
LEMMA EmptyMessages ==
  /\ Stored = 0 => Messages = <<>>
  /\ Stored' = 0 => Messages' = <<>>
  BY DEF Messages

(***************************************************************************)
(* Every step of the kernel keeps the invariant, and is a step of the      *)
(* abstract queue or leaves it alone.                                      *)
(***************************************************************************)
LEMMA QueueSimulates ==
  ASSUME ProcInv, OneKind, QueueInv, RingInv, [IpcNext]_vars
  PROVE  /\ QueueInv' /\ RingInv'
         /\ Fifo!FifoNext \/ UNCHANGED <<Messages, lastRead>>
<1>s. "read" \in Sides
  BY DEF Sides
<1>p. ProcInv'
  BY NextProc
<1>0. ASSUME UNCHANGED queueVars,
             \A t \in Tasks : queuePending[t] # {} => (t \in waiting' <=> t \in waiting)
      PROVE  QueueInv' /\ RingInv' /\ UNCHANGED <<Messages, lastRead>>
  <2>1. QueueInv' /\ RingInv' /\ Amount("read")' = Amount("read")
    BY <1>s, <1>p, <1>0, QueueUntouched
  <2>2. UNCHANGED <<queueState, queueHead, queue, lastRead>>
    BY <1>0 DEF queueVars, ringVars
  <2> QED
    BY <2>1, <2>2, SameMessages
<1>1. CASE UNCHANGED vars
  BY <1>0, <1>1 DEF vars, objectVars, procVars
<1>2. CASE ProcStep
  BY <1>0, <1>2 DEF ProcStep, objectVars, TaskLock, TaskUnlock, Switch, NoSwitch, TaskSuspend,
                    TaskResume
<1>3. CASE SemStep \/ MuxStep
  <2>1. UNCHANGED queueVars /\ kind # "queue"
    BY <1>3 DEF SemStep, MuxStep
  <2>2. \A t \in Tasks : queuePending[t] = {}
    BY <2>1 DEF OneKind
  <2> QED
    BY <1>0, <2>1, <2>2
<1>4. ASSUME NEW ts \in SUBSET Tasks, ElapseStep(ts)
      PROVE  QueueInv' /\ RingInv' /\ UNCHANGED <<Messages, lastRead>>
  <2>1. QueueInv' /\ RingInv' /\ Amount("read")' = Amount("read")
    BY <1>s, <1>4, QueueElapseKeeps DEF ElapseStep
  <2>2. UNCHANGED <<queueState, queueHead, queue, lastRead>>
    BY <1>4 DEF ElapseStep, QueueElapse, ringVars
  <2> QED
    BY <2>1, <2>2, SameMessages
<1>5. CASE QueueStep
  <2>1. ASSUME NEW op \in Operations, NEW inHandler, QueueOperateAtOnce(op, inHandler)
        PROVE  QueueInv' /\ RingInv' /\ Fifo!FifoNext
    BY <2>1, AtOnceIsDone, DoneIsFifo
  <2>2. CASE QueueOperateReturns /\ running \notin queueExpired
    BY <2>2, ReturnIsDone, DoneIsFifo
  <2>3. CASE QueueOperateReturns /\ running \in queueExpired
    BY <2>3, ExpiredKeeps, SameMessages, <1>s DEF QueueOperateReturns, ringVars
  <2>4. ASSUME Free, NEW op \in Operations, NEW limited, QueueOperateWaits(op, limited)
        PROVE  QueueInv' /\ RingInv' /\ UNCHANGED <<Messages, lastRead>>
    <3>1. QueueInv' /\ RingInv' /\ Amount("read")' = Amount("read")
      BY <1>s, <2>4, QueueWaitsKeeps
    <3>2. UNCHANGED <<queueState, queueHead, queue, lastRead>>
      BY <2>4 DEF QueueOperateWaits, ringVars
    <3> QED
      BY <3>1, <3>2, SameMessages
  <2>5. CASE LOS_QueueCreate
    <3>1. QueueInv' /\ RingInv' /\ Amount("read")' = 0
      BY <2>5, QueueCreateKeeps
    <3>2. ~queueState /\ lastRead' = lastRead
      BY <2>5 DEF LOS_QueueCreate
    <3>3. Stored = 0 /\ Stored' = 0
      BY <3>1, <3>2, MessagesAre, MessagesThen
    <3> QED
      BY <3>1, <3>2, <3>3, EmptyMessages
  <2>6. CASE LOS_QueueDelete
    <3>1. QueueInv' /\ RingInv'
      BY <2>6, QueueDeleteKeeps
    <3>2. ~queueState' /\ lastRead' = lastRead
      BY <2>6 DEF LOS_QueueDelete, ringVars
    <3>3. Stored' = 0
      BY <3>1, <3>2, MessagesThen
    <3> QED
      BY <3>1, <3>2, <3>3, EmptyMessages DEF Fifo!FifoNext, Fifo!Drop
  <2> QED
    BY <1>5, <2>1, <2>2, <2>3, <2>4, <2>5, <2>6 DEF QueueStep, QueueCall
<1> QED
  BY <1>1, <1>2, <1>3, <1>0, <1>4, <1>5, StepsByKind

LEMMA QueueInvariance == IpcSpec => [](ProcInv /\ OneKind /\ QueueInv /\ RingInv)
<1>1. ProcInv /\ OneKind /\ QueueInv /\ RingInv /\ [IpcNext]_vars => QueueInv' /\ RingInv'
  BY QueueSimulates
<1> QED
  BY <1>1, QueueInvInit, ProcInvariance, PTL DEF IpcSpec

\* No slot of a queue is lost or used twice, nobody waits for what is there, and
\* no task is left with a claim on a deleted queue, for any number of tasks and
\* every length.
THEOREM SlotsAlwaysAccounted == IpcSpec => []SlotsAccounted
  BY QueueInvariance, QueueInvAccounts, PTL

\* The ring of LOS_QueueRead, LOS_QueueWrite and LOS_QueueWriteHead implements a
\* bounded first-in first-out queue.
THEOREM QueueRefinement == IpcSpec => ImplementsFifo
<1>1. IpcInit => Fifo!FifoInit
  <2> SUFFICES ASSUME IpcInit PROVE Fifo!FifoInit
    OBVIOUS
  <2>1. QueueInit
    BY DEF IpcInit
  <2>2. Stored = 0
    BY <2>1 DEF QueueInit, Stored
  <2> QED
    BY <2>1, <2>2, EmptyMessages DEF QueueInit, Fifo!FifoInit
<1>2. ProcInv /\ OneKind /\ QueueInv /\ RingInv /\ [IpcNext]_vars
      => [Fifo!FifoNext]_<<Messages, lastRead>>
  BY QueueSimulates
<1> QED
  BY <1>1, <1>2, QueueInvariance, PTL DEF IpcSpec, ImplementsFifo, Fifo!FifoSpec
=============================================================================
