--------------------------------- MODULE Ipc ---------------------------------
(***************************************************************************)
(* Tasks and interrupt handlers that use semaphores, mutexes and queues,   *)
(* with and without time limits; the tasks lock the scheduler, and the     *)
(* handlers suspend and resume some meanwhile.  Objects are created,       *)
(* deleted and created again; in one behaviour they are of one kind.       *)
(***************************************************************************)
EXTENDS Sem, Mux, Queue

CONSTANTS
    Kinds,         \* the kinds of objects that are used
    Suspendable    \* the tasks that interrupt handlers suspend and resume

VARIABLE kind    \* the kind of object the tasks use

objectVars == <<semVars, muxVars, queueVars, kind>>
vars == <<procVars, objectVars>>

IpcInit == ProcInit /\ SemInit /\ MuxInit /\ QueueInit /\ kind \in Kinds

\* The running task is not in the middle of a call that waited.
Free ==
    /\ running \in Tasks \ semPending
    /\ muxPending[running] = {}
    /\ queuePending[running] = {}

IpcNext ==
    \/ kind = "sem" /\ Free /\ SemCall /\ UNCHANGED <<muxVars, queueVars, kind>>
    \/ SemPendReturns /\ UNCHANGED <<muxVars, queueVars, kind>>
    \/ LOS_SemPost(TRUE) /\ UNCHANGED <<muxVars, queueVars, kind>>
    \/ kind = "mux" /\ Free /\ MuxCall /\ UNCHANGED <<semVars, queueVars, kind>>
    \/ MuxPendReturns /\ UNCHANGED <<semVars, queueVars, kind>>
    \/ kind = "queue" /\ Free /\ QueueCall /\ UNCHANGED <<semVars, muxVars, kind>>
    \/ QueueOperateReturns /\ UNCHANGED <<semVars, muxVars, kind>>
    \/ \E op \in Operations : QueueOperateAtOnce(op, TRUE) /\ UNCHANGED <<semVars, muxVars, kind>>
    \/ Free /\ TaskLock /\ UNCHANGED objectVars
    \/ Free /\ TaskUnlock /\ UNCHANGED objectVars
    \/ \E t \in Suspendable : TaskSuspend(t, TRUE) /\ UNCHANGED objectVars
    \/ \E t \in Suspendable : TaskResume(t, TRUE) /\ UNCHANGED objectVars
    \/ \E ts \in SUBSET Tasks :
           /\ Elapse(ts) /\ SemElapse(ts) /\ MuxElapse(ts) /\ QueueElapse(ts)
           /\ UNCHANGED kind
    \/ Switch /\ UNCHANGED objectVars
    \/ NoSwitch /\ UNCHANGED objectVars

IpcSpec == IpcInit /\ [][IpcNext]_vars

=============================================================================
