------------------------------ MODULE Scheduler ------------------------------
(***************************************************************************)
(* The LiteOS-M scheduler of this firmware (los_sched.c, los_sortlink.c,   *)
(* the task calls of los_task.c and the tick): ready queues, the sorted    *)
(* list of timed waits, the programming of the tick timer, and the         *)
(* software interrupt in which tasks are switched.                         *)
(*                                                                         *)
(* Every section between LOS_IntLock and LOS_IntRestore is one step.       *)
(* Between the LOS_IntRestore at the end of such a section and the         *)
(* LOS_Schedule that follows it a task can be interrupted, and its pc is   *)
(* "schedule" there.  LOS_Schedule only makes the software interrupt       *)
(* pending; it is served before the task continues, but after the          *)
(* interrupt handlers that are running or come first.                      *)
(*                                                                         *)
(* Time is counted in ticks and relative to now: a timed wait is what is   *)
(* left of it, and so is g_schedResponseTime.  OS_CYCLE_PER_TICK is 1.     *)
(***************************************************************************)
EXTENDS Integers, Sequences, FiniteSets, SequencesExt, PendList, SortLink

CONSTANTS
    Tasks,           \* the tasks created so far, without the idle task
    Idle,            \* the idle task
    Priorities,      \* the priorities in use, 0 the strongest
    InitPriority,    \* the priority every task was created with
    Delays,          \* arguments of LOS_TaskDelay and of waits, in ticks
    SLICE,           \* OS_SCHED_TIME_SLICES
    RESPONSE_MAX,    \* OS_TICK_RESPONSE_TIME_MAX
    MaxLock,         \* bound on the nesting of LOS_TaskLock
    Calls            \* which calls tasks and interrupt handlers make

ASSUME SchedulerAssumption ==
    /\ IsFiniteSet(Tasks) /\ Idle \notin Tasks
    /\ Priorities \subseteq Nat
    /\ InitPriority \in [Tasks -> Priorities]
    /\ Delays \subseteq Nat \ {0}
    /\ {SLICE, RESPONSE_MAX} \subseteq Nat \ {0}
    /\ Calls \subseteq {"delay", "yield", "lock", "priority", "suspend",
                        "resume", "isr_suspend", "isr_resume",
                        "isr_resume_running"}

VARIABLES
    taskStatus,          \* of each task, its bits of SUSPEND, READY, PEND, RUNNING,
                         \* DELAY, TIMEOUT and PEND_TIME
    priority,            \* its priority
    timeSlice,           \* what is left of its time slice
    waitTimes,           \* how long it asks to wait, 0 once that is linked
    pc,                  \* "code", or "schedule": about to call LOS_Schedule
    g_priQueueList,      \* the ready queues, one for each priority
    g_taskSortLink,      \* the timed waits, [task, left], soonest first
    runTask,             \* g_losTask.runTask
    g_losTaskLock,       \* nesting of LOS_TaskLock
    swPending,           \* the software interrupt is pending
    g_schedResponseTime, \* ticks until the tick timer fires
    g_schedResponseID    \* the task whose slice ends then, or OS_INVALID

queueVars == <<taskStatus, priority, timeSlice, g_priQueueList>>
timerVars == <<waitTimes, g_taskSortLink, g_schedResponseTime, g_schedResponseID>>
cpuVars == <<pc, runTask, g_losTaskLock, swPending>>
schedVars == <<queueVars, timerVars, cpuVars>>

AllTasks == Tasks \cup {Idle}

OS_INVALID == "OS_INVALID"

\* OS_SCHED_MAX_RESPONSE_TIME: beyond every time the timer can be set to.
FAR == RESPONSE_MAX + 2

Has(t, bit) == bit \in taskStatus[t]

-----------------------------------------------------------------------------
(***************************************************************************)
(* The ready queues (OsSchedTaskEnQueue, OsSchedTaskDeQueue).              *)
(***************************************************************************)

\* OsSchedPriQueueDelete, or LOS_ListDelete: list s without task t.
Without(s, t) == Leave(s, {t})

DeQueued(queues, t) == [p \in Priorities |-> Without(queues[p], t)]

(***************************************************************************)
(* The queues after the tasks of the sequence ts, of priorities pr, were   *)
(* enqueued one after the other: a task with some of its slice left at the *)
(* head of its queue, another, with a new slice, at the tail.              *)
(***************************************************************************)
EnQueued(queues, ts, pr) ==
    [p \in Priorities |->
        Reverse(Only(ts, {t \in Tasks : pr[t] = p /\ timeSlice[t] > 0}))
        \o queues[p]
        \o Only(ts, {t \in Tasks : pr[t] = p /\ timeSlice[t] <= 0})]

SliceRenewed(ts) ==
    [t \in Tasks |-> IF timeSlice[t] <= 0 /\ t \in ts THEN SLICE ELSE timeSlice[t]]

MadeReady(status) ==
    (status \ {"PEND", "SUSPEND", "DELAY", "PEND_TIME"}) \cup {"READY"}

\* OsGetTopTask: the first task of the first queue that is not empty.
TopTask(queues) ==
    LET nonEmpty == {p \in Priorities : queues[p] # <<>>} IN
    IF nonEmpty = {} THEN Idle ELSE Head(queues[Min(nonEmpty)])

-----------------------------------------------------------------------------
(***************************************************************************)
(* The sorted list of timed waits and the tick timer.                      *)
(***************************************************************************)

\* OsGetSortLinkNextExpireTime, for a sorted list.
NextExpireTime(link) ==
    IF link = <<>> THEN FAR - 1 ELSE Max({0, Head(link).left})

(***************************************************************************)
(* OsSchedSetNextExpireTime: program the timer for the first timed wait or *)
(* the end of the slice, unless it fires earlier than that anyway.         *)
(***************************************************************************)
SetNextExpireTime(link, respTime, t, sliceEnd) ==
    LET expire == Min({sliceEnd, NextExpireTime(link)})
        next == Max({1, Min({expire, RESPONSE_MAX})})
    IN  IF expire >= respTime \/ next >= respTime
        THEN /\ g_schedResponseTime' = respTime
             /\ UNCHANGED g_schedResponseID
        ELSE /\ g_schedResponseTime' = next
             /\ g_schedResponseID' = IF sliceEnd < NextExpireTime(link)
                                     THEN t ELSE OS_INVALID

\* The slice of the idle task does not end.
SliceEnd(t, slice) == IF t = Idle THEN FAR - 1 ELSE slice

-----------------------------------------------------------------------------
(***************************************************************************)
(* Task switch (SW_Handler, HalTaskSwitch, OsSchedTaskSwitch).  Enqueueing *)
(* a task that is ready already fails the assertion of OsSchedTaskEnQueue, *)
(* which stops the machine: no step is left then.                          *)
(***************************************************************************)
Timed(t) == Has(t, "PEND_TIME") \/ Has(t, "DELAY")

StillReady(t) == ~Timed(t) /\ ~Has(t, "PEND") /\ ~Has(t, "SUSPEND")

OsSchedTaskSwitch ==
    /\ swPending
    /\ StillReady(runTask) => ~Has(runTask, "READY")
    /\ LET again == IF StillReady(runTask) /\ runTask # Idle THEN <<runTask>> ELSE <<>>
           queues == EnQueued(g_priQueueList, again, priority)
           stopped == IF StillReady(runTask) THEN MadeReady(taskStatus[runTask])
                                             ELSE taskStatus[runTask]
           node == [task |-> runTask, left |-> waitTimes[runTask]]
       IN  \E newTask \in AllTasks :
           /\ newTask = TopTask(queues)
           /\ taskStatus' =
                [[taskStatus EXCEPT ![runTask] = stopped \ {"RUNNING"}]
                    EXCEPT ![newTask] = (@ \ {"READY"}) \cup {"RUNNING"}]
           /\ g_priQueueList' = DeQueued(queues, newTask)
           /\ timeSlice' = SliceRenewed(ToSet(again))
           /\ g_taskSortLink' = IF Timed(runTask) THEN Linked(g_taskSortLink, node)
                                                 ELSE g_taskSortLink
           /\ waitTimes' = [t \in Tasks |-> 0]
           /\ runTask' = newTask
           /\ SetNextExpireTime(g_taskSortLink', g_schedResponseTime, newTask,
                                SliceEnd(newTask, timeSlice'[newTask]))
    /\ swPending' = FALSE
    /\ UNCHANGED <<priority, pc, g_losTaskLock>>

-----------------------------------------------------------------------------
(***************************************************************************)
(* One tick passes.  When the timer fires, LOS_SchedTickHandler wakes the  *)
(* tasks whose time has come (OsSchedScanTimerList), but not if the timer  *)
(* was set for the end of a slice.                                         *)
(***************************************************************************)
TickLeft(left) == [i \in DOMAIN left |-> [left[i] EXCEPT !.left = @ - 1]]

\* OsSchedWakePendTimeTask on the status of a task whose time has come.
TimedOut(status) ==
    LET rest == status \ {"PEND", "PEND_TIME", "DELAY"}
        marked == IF "PEND" \in status THEN rest \cup {"TIMEOUT"} ELSE rest
    IN  IF "SUSPEND" \in status THEN marked ELSE MadeReady(marked)

\* The tasks OsSchedScanTimerList wakes: it walks the list up to the first node that
\* is not due, and the list is sorted (TimersOnTime), so these are all that are due.
Expired(link) == {link[i].task : i \in {j \in DOMAIN link : link[j].left <= 0}}

\* The tasks of the list, in its order.
Sleepers(link) == [i \in DOMAIN link |-> link[i].task]

\* OsDeleteSortLink: the list without the timed waits of the tasks ts.
Unlinked(link, ts) == KeepAt(link, {i \in DOMAIN link : link[i].task \notin ts})

RunSlice == [t \in Tasks |-> IF t = runTask THEN Max({0, timeSlice[t] - 1})
                                            ELSE timeSlice[t]]

\* Tasks were readied, and the scheduler is not locked.
NeedSched(ready) == ready # {} /\ g_losTaskLock = 0

NoResponse ==
    /\ g_schedResponseTime > 1
    /\ g_schedResponseTime' = g_schedResponseTime - 1
    /\ timeSlice' = RunSlice
    /\ g_taskSortLink' = TickLeft(g_taskSortLink)
    /\ UNCHANGED <<taskStatus, g_priQueueList, swPending, g_schedResponseID>>

LOS_SchedTickHandler ==
    /\ g_schedResponseTime = 1
    /\ \E woken \in SUBSET Tasks :
       LET passed == TickLeft(g_taskSortLink)
           ready == {t \in woken : ~Has(t, "SUSPEND")}
           slice == RunSlice
       IN  /\ woken = IF g_schedResponseID = OS_INVALID THEN Expired(passed) ELSE {}
           /\ taskStatus' = [t \in AllTasks |-> IF t \in woken THEN TimedOut(taskStatus[t])
                                                               ELSE taskStatus[t]]
           /\ g_priQueueList' = EnQueued(g_priQueueList, Only(Sleepers(passed), ready), priority)
           /\ timeSlice' = [t \in Tasks |-> IF t \in ready THEN SliceRenewed(ready)[t]
                                                          ELSE slice[t]]
           /\ g_taskSortLink' = Unlinked(passed, woken)
           /\ IF NeedSched(ready)
              THEN /\ swPending' = TRUE
                   /\ g_schedResponseTime' = FAR
                   /\ UNCHANGED g_schedResponseID
              ELSE /\ UNCHANGED swPending
                   /\ SetNextExpireTime(g_taskSortLink', FAR, runTask,
                        SliceEnd(runTask, IF runTask = Idle \/ slice[runTask] > 0
                                          THEN slice[runTask] ELSE SLICE))

Tick ==
    /\ ~swPending
    /\ NoResponse \/ LOS_SchedTickHandler
    /\ UNCHANGED <<priority, waitTimes, pc, runTask, g_losTaskLock>>

-----------------------------------------------------------------------------
(***************************************************************************)
(* The calls.  A task makes them while it runs; an interrupt handler at    *)
(* any time, also when the software interrupt is already pending.          *)
(***************************************************************************)
InTask == ~swPending /\ runTask # Idle /\ pc[runTask] = "code"

\* The running task, with interrupts enabled again, is about to schedule.
WillSchedule ==
    /\ pc' = [pc EXCEPT ![runTask] = "schedule"]
    /\ UNCHANGED swPending

\* LOS_Schedule
LOS_Schedule ==
    /\ ~swPending /\ runTask # Idle /\ pc[runTask] = "schedule"
    /\ pc' = [pc EXCEPT ![runTask] = "code"]
    /\ swPending' = (g_losTaskLock = 0)
    /\ UNCHANGED <<queueVars, timerVars, runTask, g_losTaskLock>>

\* The end of a call that needs a new schedule, by a task or by a handler.
ThenSchedule(inHandler) ==
    IF inHandler THEN /\ swPending' = (swPending \/ g_losTaskLock = 0)
                      /\ UNCHANGED pc
                 ELSE WillSchedule

\* Mutant: LOS_TaskDelay without LOS_Schedule.
LOS_TaskDelayRunning(ticks) ==
    /\ InTask /\ "delay" \in Calls
    /\ g_losTaskLock = 0
    /\ taskStatus' = [taskStatus EXCEPT ![runTask] = @ \cup {"DELAY"}]
    /\ waitTimes' = [waitTimes EXCEPT ![runTask] = ticks]
    /\ UNCHANGED <<priority, timeSlice, g_priQueueList, g_taskSortLink, cpuVars,
                   g_schedResponseTime, g_schedResponseID>>

\* Mutant: a task may wait while it holds the scheduler lock.
LOS_TaskDelayLocked(ticks) ==
    /\ InTask /\ "delay" \in Calls
    /\ taskStatus' = [taskStatus EXCEPT ![runTask] = @ \cup {"DELAY"}]
    /\ waitTimes' = [waitTimes EXCEPT ![runTask] = ticks]
    /\ WillSchedule
    /\ UNCHANGED <<priority, timeSlice, g_priQueueList, g_taskSortLink, runTask,
                   g_losTaskLock, g_schedResponseTime, g_schedResponseID>>

LOS_TaskDelay(ticks) ==
    /\ InTask /\ "delay" \in Calls
    /\ g_losTaskLock = 0
    /\ taskStatus' = [taskStatus EXCEPT ![runTask] = @ \cup {"DELAY"}]
    /\ waitTimes' = [waitTimes EXCEPT ![runTask] = ticks]
    /\ WillSchedule
    /\ UNCHANGED <<priority, timeSlice, g_priQueueList, g_taskSortLink, runTask,
                   g_losTaskLock, g_schedResponseTime, g_schedResponseID>>

\* LOS_TaskYield, which is also LOS_TaskDelay(0).
LOS_TaskYield ==
    /\ InTask /\ "yield" \in Calls
    /\ timeSlice' = [timeSlice EXCEPT ![runTask] = 0]
    /\ WillSchedule
    /\ UNCHANGED <<taskStatus, priority, g_priQueueList, timerVars, runTask,
                   g_losTaskLock>>

LOS_TaskLock ==
    /\ InTask /\ "lock" \in Calls
    /\ g_losTaskLock < MaxLock
    /\ g_losTaskLock' = g_losTaskLock + 1
    /\ UNCHANGED <<queueVars, timerVars, pc, runTask, swPending>>

\* Mutant: what became READY while the scheduler was locked is forgotten.
LOS_TaskUnlockSilent ==
    /\ InTask
    /\ g_losTaskLock > 0
    /\ g_losTaskLock' = g_losTaskLock - 1
    /\ UNCHANGED <<queueVars, timerVars, pc, runTask, swPending>>

LOS_TaskUnlock ==
    /\ InTask
    /\ g_losTaskLock > 0
    /\ g_losTaskLock' = g_losTaskLock - 1
    /\ IF g_losTaskLock' = 0 THEN WillSchedule ELSE UNCHANGED <<pc, swPending>>
    /\ UNCHANGED <<queueVars, timerVars, runTask>>

\* Mutant: a READY task that is suspended stays in its queue.
LOS_TaskSuspendQueued(t, inHandler) ==
    /\ IF inHandler THEN "isr_suspend" \in Calls ELSE InTask /\ "suspend" \in Calls
    /\ ~Has(t, "SUSPEND")
    /\ ~(Has(t, "RUNNING") /\ g_losTaskLock # 0)
    /\ taskStatus' = [taskStatus EXCEPT ![t] = (@ \ {"READY"}) \cup {"SUSPEND"}]
    /\ IF t = runTask THEN ThenSchedule(inHandler) ELSE UNCHANGED <<pc, swPending>>
    /\ UNCHANGED <<g_priQueueList, priority, timeSlice, timerVars, runTask, g_losTaskLock>>

LOS_TaskSuspend(t, inHandler) ==
    /\ IF inHandler THEN "isr_suspend" \in Calls ELSE InTask /\ "suspend" \in Calls
    /\ ~Has(t, "SUSPEND")
    /\ ~(Has(t, "RUNNING") /\ g_losTaskLock # 0)
    /\ taskStatus' = [taskStatus EXCEPT ![t] = (@ \ {"READY"}) \cup {"SUSPEND"}]
    /\ g_priQueueList' = IF Has(t, "READY") THEN DeQueued(g_priQueueList, t)
                                            ELSE g_priQueueList
    /\ IF t = runTask THEN ThenSchedule(inHandler) ELSE UNCHANGED <<pc, swPending>>
    /\ UNCHANGED <<priority, timeSlice, timerVars, runTask, g_losTaskLock>>

LOS_TaskResume(t, inHandler) ==
    /\ IF inHandler THEN IF t = runTask THEN "isr_resume_running" \in Calls
                                       ELSE "isr_resume" \in Calls
                    ELSE InTask /\ "resume" \in Calls
    /\ Has(t, "SUSPEND")
    /\ IF Has(t, "DELAY") \/ Has(t, "PEND")
       THEN /\ taskStatus' = [taskStatus EXCEPT ![t] = @ \ {"SUSPEND"}]
            /\ UNCHANGED <<g_priQueueList, timeSlice, pc, swPending>>
       ELSE /\ taskStatus' = [taskStatus EXCEPT ![t] = MadeReady(@)]
            /\ g_priQueueList' = EnQueued(g_priQueueList, <<t>>, priority)
            /\ timeSlice' = SliceRenewed({t})
            /\ ThenSchedule(inHandler)
    /\ UNCHANGED <<priority, timerVars, runTask, g_losTaskLock>>

\* LOS_TaskPriSet with OsSchedModifyTaskSchedParam.
LOS_TaskPriSet(t, p) ==
    /\ InTask /\ "priority" \in Calls
    /\ priority' = [priority EXCEPT ![t] = p]
    /\ IF Has(t, "READY")
       THEN /\ g_priQueueList' = EnQueued(DeQueued(g_priQueueList, t), <<t>>, priority')
            /\ timeSlice' = SliceRenewed({t})
       ELSE UNCHANGED <<g_priQueueList, timeSlice>>
    /\ IF Has(t, "READY") \/ Has(t, "RUNNING") THEN WillSchedule
                                               ELSE UNCHANGED <<pc, swPending>>
    /\ UNCHANGED <<taskStatus, timerVars, runTask, g_losTaskLock>>

-----------------------------------------------------------------------------
(***************************************************************************)
(* The tasks were created, in some order, before OsSchedStart; the first   *)
(* of the strongest runs, with its first slice.                            *)
(***************************************************************************)
Created(order) ==
    [p \in Priorities |-> Only(order, {t \in Tasks : InitPriority[t] = p})]

Init ==
    \E order \in SetToSeqs(Tasks) :
        LET queues == Created(order)
            first == TopTask(queues)
        IN  /\ taskStatus = [t \in AllTasks |-> IF t = first THEN {"RUNNING"} ELSE {"READY"}]
            /\ priority = InitPriority
            /\ timeSlice = [t \in Tasks |-> SLICE]
            /\ waitTimes = [t \in Tasks |-> 0]
            /\ pc = [t \in Tasks |-> "code"]
            /\ g_priQueueList = DeQueued(queues, first)
            /\ g_taskSortLink = <<>>
            /\ runTask = first
            /\ g_losTaskLock = 0
            /\ swPending = FALSE
            /\ g_schedResponseTime = Min({SLICE, RESPONSE_MAX})
            /\ g_schedResponseID = first

TaskCall ==
    \/ \E ticks \in Delays : LOS_TaskDelay(ticks)
    \/ LOS_TaskYield
    \/ LOS_TaskLock
    \/ LOS_TaskUnlock
    \/ \E t \in Tasks : LOS_TaskSuspend(t, FALSE)
    \/ \E t \in Tasks : LOS_TaskResume(t, FALSE)
    \/ \E t \in Tasks, p \in Priorities : LOS_TaskPriSet(t, p)

HandlerCall ==
    \/ \E t \in Tasks : LOS_TaskSuspend(t, TRUE)
    \/ \E t \in Tasks : LOS_TaskResume(t, TRUE)

Next ==
    \/ TaskCall
    \/ HandlerCall
    \/ LOS_Schedule
    \/ OsSchedTaskSwitch
    \/ Tick

Spec == Init /\ [][Next]_schedVars

(***************************************************************************)
(* Time passes whatever the tasks do: it does not stop for a task that     *)
(* keeps the software interrupt busy, hence strong fairness.  A pending    *)
(* interrupt is served, and the running task goes on to LOS_Schedule.      *)
(***************************************************************************)
Fairness == SF_schedVars(Tick) /\ WF_schedVars(OsSchedTaskSwitch) /\ WF_schedVars(LOS_Schedule)

FairSpec == Spec /\ Fairness

-----------------------------------------------------------------------------
(***************************************************************************)
(* Properties.                                                             *)
(***************************************************************************)

(***************************************************************************)
(* The lists agree with the status bits, whichever of the calls, the tick  *)
(* and the switch touched them last: a task is in a ready queue exactly if *)
(* it is READY, once, and in that of its priority; it is in the timer list *)
(* exactly if it waits with a limit and has been switched away; and it is  *)
(* READY only if nothing holds it back.                                    *)
(***************************************************************************)
Queued(t) == {p \in Priorities : Contains(g_priQueueList[p], t)}

InLink(t) == {i \in DOMAIN g_taskSortLink : g_taskSortLink[i].task = t}

ListsAgree ==
    /\ \A t \in Tasks :
        /\ Queued(t) = IF Has(t, "READY") THEN {priority[t]} ELSE {}
        /\ Cardinality(InLink(t)) = IF Timed(t) /\ t # runTask THEN 1 ELSE 0
        /\ Has(t, "READY") => StillReady(t)
    /\ \A p \in Priorities : IsInjective(g_priQueueList[p])
    /\ \A t \in AllTasks : Has(t, "RUNNING") <=> t = runTask

(***************************************************************************)
(* Priority rule: when no switch is under way and the scheduler is not     *)
(* locked, nothing stronger than the running task is READY.  A call, a     *)
(* handler or a tick that readies a task and forgets to schedule, or an    *)
(* unlock that forgets what happened while it was locked, breaks it.       *)
(***************************************************************************)
StrongestRuns ==
    (~swPending /\ g_losTaskLock = 0 /\ (runTask # Idle => pc[runTask] = "code")) =>
        \A t \in Tasks :
            Has(t, "READY") => runTask # Idle /\ priority[runTask] <= priority[t]

(***************************************************************************)
(* The timer list is sorted, so that the scan, which stops at the first    *)
(* node that is not due, and the timer, which looks at the head only, miss *)
(* none; and a wait that is over is gone by the next tick, although the    *)
(* timer may be set for the end of a slice, a tick for which the list is   *)
(* not scanned.                                                            *)
(***************************************************************************)
TimersOnTime ==
    /\ \A i, j \in DOMAIN g_taskSortLink :
        i < j => g_taskSortLink[i].left <= g_taskSortLink[j].left
    /\ \A i \in DOMAIN g_taskSortLink : g_taskSortLink[i].left >= 0

\* Every delay ends (LOS_TaskDelay, LOS_SchedTickHandler): the timer is never
\* left unset, or set so that the list is never scanned again.
DelayEnds == \A t \in Tasks : Has(t, "DELAY") ~> ~Has(t, "DELAY")

(***************************************************************************)
(* The scheduler implements Processor: whoever waits, is suspended or is   *)
(* switched, whichever interrupt comes between a call and its switch, the  *)
(* task that goes on is a strongest one, a switch that is due takes place  *)
(* before the task goes on, and none takes place that was not asked for.   *)
(***************************************************************************)
SwitchDue == swPending \/ (runTask # Idle /\ pc[runTask] = "schedule")

P == INSTANCE Processor WITH
        waiting <- {t \in Tasks : Timed(t) \/ Has(t, "PEND")},
        timed <- {t \in Tasks : Timed(t)},
        suspended <- {t \in Tasks : Has(t, "SUSPEND")},
        prio <- priority,
        running <- runTask,
        lockDepth <- g_losTaskLock,
        resched <- SwitchDue

ImplementsProcessor == P!ProcSpec

=============================================================================
