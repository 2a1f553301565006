------------------------------ MODULE Processor ------------------------------
(***************************************************************************)
(* What the scheduler promises to the rest of the kernel: which task may   *)
(* go on.  Ready queues, time slices, the timer list and the two halves of *)
(* a switch are gone; what is left is who waits, who is suspended, and     *)
(* whether a switch is due before the running task goes on.                *)
(*                                                                         *)
(* Scheduler is shown to implement this module, and the objects that tasks *)
(* wait for (Sem, Mux, Queue) are built on it.                             *)
(***************************************************************************)
EXTENDS Integers, Sequences, FiniteSets, SequencesExt, PendList

CONSTANTS
    Tasks,          \* the tasks, without the idle task
    Idle,           \* the idle task
    Priorities,     \* 0 is the strongest
    InitPriority,   \* the priority every task was created with
    MaxLock,        \* bound on the nesting of LOS_TaskLock
    Calls           \* which task calls are made

ASSUME TasksAssumption == IsFiniteSet(Tasks) /\ Idle \notin Tasks
ASSUME PriorityAssumption == /\ Priorities \subseteq Nat
                             /\ InitPriority \in [Tasks -> Priorities]

VARIABLES
    waiting,        \* tasks that are delayed or on a pend list
    timed,          \* those of them that wait with a limit
    suspended,      \* suspended tasks, waiting or not
    prio,           \* the priority of each task
    running,        \* the task that has the processor
    lockDepth,      \* nesting of LOS_TaskLock
    resched         \* a switch is due before the running task goes on

procVars == <<waiting, timed, suspended, prio, running, lockDepth, resched>>

Runnable == Tasks \ (waiting \cup suspended)

Strongest == {t \in Runnable : \A u \in Runnable : prio[t] <= prio[u]}

Candidates == IF Runnable = {} THEN {Idle} ELSE Strongest

ProcInit ==
    /\ waiting = {}
    /\ timed = {}
    /\ suspended = {}
    /\ prio = InitPriority
    /\ running \in Candidates
    /\ lockDepth = 0
    /\ resched = FALSE

-----------------------------------------------------------------------------
\* The running task goes on with its code.
InTask == ~resched /\ running # Idle

\* The end of a call that schedules, by a task or by an interrupt handler.
Reschedule(inHandler) == resched' = (~inHandler \/ resched \/ lockDepth = 0)

\* OsSchedTaskWait, with a limit or without: the caller waits.
Wait(limited) ==
    /\ waiting' = waiting \cup {running}
    /\ timed' = IF limited THEN timed \cup {running} ELSE timed
    /\ resched' = TRUE

\* OsSchedTaskWake, of the tasks of the set ts.
Wake(ts) ==
    /\ waiting' = waiting \ ts
    /\ timed' = timed \ ts

\* The limits of some waiting tasks are over.
Elapse(ts) ==
    /\ ts # {} /\ ts \subseteq timed
    /\ Wake(ts)
    /\ resched' = (resched \/ (lockDepth = 0 /\ ~(ts \subseteq suspended)))
    /\ UNCHANGED <<suspended, prio, running, lockDepth>>

\* The switch takes a strongest task.  One that was interrupted on its way to
\* LOS_Schedule schedules again.
Switch ==
    /\ resched /\ lockDepth = 0
    /\ running' \in Candidates
    /\ resched' \in {FALSE, running' # Idle}
    /\ UNCHANGED <<waiting, timed, suspended, prio, lockDepth>>

\* LOS_Schedule does nothing while the scheduler is locked.
NoSwitch ==
    /\ resched /\ lockDepth > 0
    /\ resched' = FALSE
    /\ UNCHANGED <<waiting, timed, suspended, prio, running, lockDepth>>

-----------------------------------------------------------------------------
(***************************************************************************)
(* The calls on tasks.                                                     *)
(***************************************************************************)
TaskDelay ==
    /\ InTask /\ "delay" \in Calls
    /\ lockDepth = 0
    /\ Wait(TRUE)
    /\ UNCHANGED <<suspended, prio, running, lockDepth>>

TaskYield ==
    /\ InTask /\ "yield" \in Calls
    /\ resched' = TRUE
    /\ UNCHANGED <<waiting, timed, suspended, prio, running, lockDepth>>

TaskLock ==
    /\ InTask /\ "lock" \in Calls
    /\ lockDepth < MaxLock
    /\ lockDepth' = lockDepth + 1
    /\ UNCHANGED <<waiting, timed, suspended, prio, running, resched>>

TaskUnlock ==
    /\ InTask
    /\ lockDepth > 0
    /\ lockDepth' = lockDepth - 1
    /\ resched' = (lockDepth' = 0)
    /\ UNCHANGED <<waiting, timed, suspended, prio, running>>

TaskSuspend(t, inHandler) ==
    /\ IF inHandler THEN "isr_suspend" \in Calls ELSE InTask /\ "suspend" \in Calls
    /\ t \notin suspended
    /\ t = running => lockDepth = 0
    /\ suspended' = suspended \cup {t}
    /\ IF t = running THEN Reschedule(inHandler) ELSE UNCHANGED resched
    /\ UNCHANGED <<waiting, timed, prio, running, lockDepth>>

TaskResume(t, inHandler) ==
    /\ IF inHandler THEN "isr_resume" \in Calls ELSE InTask /\ "resume" \in Calls
    /\ t \in suspended
    /\ suspended' = suspended \ {t}
    /\ IF t \in waiting THEN UNCHANGED resched ELSE Reschedule(inHandler)
    /\ UNCHANGED <<waiting, timed, prio, running, lockDepth>>

TaskPriSet(t, p) ==
    /\ InTask /\ "priority" \in Calls
    /\ prio' = [prio EXCEPT ![t] = p]
    /\ IF t \in Runnable THEN Reschedule(FALSE) ELSE UNCHANGED resched
    /\ UNCHANGED <<waiting, timed, suspended, running, lockDepth>>

ProcTaskCall ==
    \/ TaskDelay \/ TaskYield \/ TaskLock \/ TaskUnlock
    \/ \E t \in Tasks : TaskSuspend(t, FALSE) \/ TaskResume(t, FALSE)
    \/ \E t \in Tasks, p \in Priorities : TaskPriSet(t, p)

ProcHandlerCall == \E t \in Tasks : TaskSuspend(t, TRUE) \/ TaskResume(t, TRUE)

ProcNext ==
    \/ ProcTaskCall
    \/ ProcHandlerCall
    \/ \E ts \in SUBSET Tasks : Elapse(ts)
    \/ Switch
    \/ NoSwitch

ProcSpec == ProcInit /\ [][ProcNext]_procVars

=============================================================================
