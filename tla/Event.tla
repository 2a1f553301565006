-------------------------------- MODULE Event --------------------------------
(***************************************************************************)
(* LiteOS-M events (los_event.c) on top of the scheduler: one event        *)
(* control block, the tasks that read it, with and without a time limit,   *)
(* and the tasks and interrupt handlers that write it.                     *)
(*                                                                         *)
(* A read that has to wait is four steps: the check of its arguments and   *)
(* of the control block, with interrupts enabled; the section that polls   *)
(* and puts the task on the pend list; the call of LOS_Schedule; and, when *)
(* the task runs again, the section that looks for the time-out and polls  *)
(* once more.  A write by a task is its check and its section.  Other      *)
(* tasks and handlers come in between, and one of them may call            *)
(* LOS_EventDestroy: the section then works on links that are NULL.        *)
(***************************************************************************)
EXTENDS Scheduler

CONSTANTS
    Reads,     \* arguments of LOS_EventRead: [mask, mode, timeOut]
    Writes,    \* arguments of LOS_EventWrite: sets of event bits
    Keeps,     \* arguments of LOS_EventClear: the bits that are kept
    Readers    \* the tasks that read

\* LOS_WAIT_FOREVER, the largest UINT32.
FOREVER == -1

Modes == {{"OR"}, {"AND"}, {"OR", "CLR"}, {"AND", "CLR"}}

\* OsEventReadParamCheck lets no other reads through.
ASSUME EventAssumption ==
    /\ \A r \in Reads : r.mask # {} /\ r.mode \in Modes
                        /\ r.timeOut \in Delays \cup {0, FOREVER}
    /\ Readers \subseteq Tasks

VARIABLES
    uwEventID,     \* the bits that are set
    stEventList,   \* the tasks that wait, first come first
    initialized,   \* stEventList has been initialised (its links are not NULL)
    eventMask,     \* what each waiting task waits for, {} once it has returned
    eventMode,     \* and how
    reading,       \* the task is inside a LOS_EventRead that had to wait
    toRead,        \* the read that passed its check, before LOS_IntLock; or none
    toWrite,       \* and the write
    robbed,        \* history: woken readers whose bits were taken off again
    stray          \* history: a section has used links that were NULL

callVars == <<eventMask, eventMode, reading>>
checkVars == <<toRead, toWrite>>
eventVars == <<uwEventID, stEventList, initialized, callVars, checkVars>>
auxVars == <<robbed, stray>>
vars == <<schedVars, eventVars, auxVars>>

EventInit ==
    /\ Init
    /\ uwEventID = {}
    /\ stEventList = <<>>
    /\ initialized = TRUE
    /\ eventMask = [t \in Tasks |-> {}]
    /\ eventMode = [t \in Tasks |-> {}]
    /\ reading = [t \in Tasks |-> FALSE]
    /\ toRead = [t \in Tasks |-> {}]
    /\ toWrite = [t \in Tasks |-> {}]
    /\ robbed = {}
    /\ stray = FALSE

-----------------------------------------------------------------------------
(***************************************************************************)
(* LOS_EventPoll: the bits it returns, and the bits it leaves set.         *)
(***************************************************************************)
Polled(id, mask, mode) ==
    IF "OR" \in mode \/ mask \subseteq id THEN id \cap mask ELSE {}

LeftSet(id, mask, mode) ==
    IF "CLR" \in mode THEN id \ Polled(id, mask, mode) ELSE id

-----------------------------------------------------------------------------
\* The running task is not inside a call on the event.
FreeTask == InTask /\ ~reading[runTask] /\ toRead[runTask] = {} /\ toWrite[runTask] = {}

(***************************************************************************)
(* LOS_EventRead.                                                          *)
(***************************************************************************)
\* OsEventReadParamCheck, before LOS_IntLock; the call fails if it does not pass.
OsEventReadParamCheck(r) ==
    /\ FreeTask /\ runTask \in Readers
    /\ initialized
    /\ toRead' = [toRead EXCEPT ![runTask] = {r}]
    /\ UNCHANGED <<schedVars, uwEventID, stEventList, initialized, callVars, toWrite>>

\* The task goes into the section of LOS_EventRead, whatever became of the event.
EnterRead(r) == /\ InTask /\ r \in toRead[runTask]
                /\ toRead' = [toRead EXCEPT ![runTask] = {}]
                /\ UNCHANGED toWrite

\* It returns at once: the events are there, or the caller will not or may not wait.
ReadAtOnce(r) ==
    /\ EnterRead(r)
    /\ \/ Polled(uwEventID, r.mask, r.mode) # {}
       \/ r.timeOut = 0
       \/ g_losTaskLock # 0
    /\ uwEventID' = LeftSet(uwEventID, r.mask, r.mode)
    /\ UNCHANGED <<schedVars, stEventList, initialized, callVars>>

\* It waits (OsSchedTaskWait); linked to NULL, it is on no list.
ReadWaits(r) ==
    /\ EnterRead(r)
    /\ Polled(uwEventID, r.mask, r.mode) = {}
    /\ r.timeOut # 0
    /\ g_losTaskLock = 0
    /\ eventMask' = [eventMask EXCEPT ![runTask] = r.mask]
    /\ eventMode' = [eventMode EXCEPT ![runTask] = r.mode]
    /\ stEventList' = IF initialized THEN Append(stEventList, runTask) ELSE stEventList
    /\ IF r.timeOut = FOREVER
       THEN /\ taskStatus' = [taskStatus EXCEPT ![runTask] = @ \cup {"PEND"}]
            /\ UNCHANGED waitTimes
       ELSE /\ taskStatus' = [taskStatus EXCEPT ![runTask] = @ \cup {"PEND", "PEND_TIME"}]
            /\ waitTimes' = [waitTimes EXCEPT ![runTask] = r.timeOut]
    /\ reading' = [reading EXCEPT ![runTask] = TRUE]
    /\ WillSchedule
    /\ UNCHANGED <<priority, timeSlice, g_priQueueList, g_taskSortLink, runTask,
                   g_losTaskLock, g_schedResponseTime, g_schedResponseID,
                   uwEventID, initialized>>

\* LOS_Schedule has returned: time-out, or another poll.
ReadReturns ==
    /\ InTask /\ reading[runTask]
    /\ IF Has(runTask, "TIMEOUT")
       THEN /\ taskStatus' = [taskStatus EXCEPT ![runTask] = @ \ {"TIMEOUT"}]
            /\ UNCHANGED uwEventID
       ELSE /\ uwEventID' = LeftSet(uwEventID, eventMask[runTask], eventMode[runTask])
            /\ UNCHANGED taskStatus
    /\ reading' = [reading EXCEPT ![runTask] = FALSE]
    /\ eventMask' = [eventMask EXCEPT ![runTask] = {}]
    /\ eventMode' = [eventMode EXCEPT ![runTask] = {}]
    /\ UNCHANGED <<priority, timeSlice, g_priQueueList, timerVars, cpuVars,
                   stEventList, initialized, checkVars>>

-----------------------------------------------------------------------------
(***************************************************************************)
(* LOS_EventWrite: every waiting task that is concerned is woken           *)
(* (OsSchedTaskWake), one that runs or is suspended without becoming READY.*)
(***************************************************************************)
\* Mutant: a task that waits for all its bits is woken by the last write alone.
ConcernedNewOnly(t, events, id) ==
    \/ "OR" \in eventMode[t] /\ eventMask[t] \cap events # {}
    \/ "AND" \in eventMode[t] /\ eventMask[t] \subseteq events

\* Mutant: a task that waits for all its bits is woken by any of them.
ConcernedAny(t, events, id) == eventMask[t] \cap events # {}

Concerned(t, events, id) ==
    \/ "OR" \in eventMode[t] /\ eventMask[t] \cap events # {}
    \/ "AND" \in eventMode[t] /\ eventMask[t] \subseteq id

\* Mutant: a task that is suspended or running stays PEND.
WokenPending(status) ==
    IF {"SUSPEND", "RUNNING"} \cap status = {}
    THEN MadeReady(status) ELSE status \ {"PEND_TIME"}

Woken(status) ==
    IF {"SUSPEND", "RUNNING"} \cap status = {}
    THEN MadeReady(status) ELSE status \ {"PEND", "PEND_TIME"}

\* The check of a write by a task, before LOS_IntLock.
CheckWrite(events) ==
    /\ FreeTask
    /\ initialized
    /\ toWrite' = [toWrite EXCEPT ![runTask] = {events}]
    /\ UNCHANGED <<schedVars, uwEventID, stEventList, initialized, callVars, toRead>>

\* No task comes between the check and the section of a handler's write.  A walk
\* that starts at NULL finds no task, if it ends.
LOS_EventWrite(events, inHandler) ==
    /\ IF inHandler THEN initialized /\ UNCHANGED toWrite
                    ELSE /\ InTask /\ events \in toWrite[runTask]
                         /\ toWrite' = [toWrite EXCEPT ![runTask] = {}]
    /\ uwEventID' = uwEventID \cup events
    /\ LET woken == {t \in ToSet(stEventList) : Concerned(t, events, uwEventID')}
           ready == {t \in woken : ~Has(t, "SUSPEND") /\ ~Has(t, "RUNNING")}
       IN  /\ stEventList' = Leave(stEventList, woken)
           /\ taskStatus' = [t \in AllTasks |-> IF t \in woken THEN Woken(taskStatus[t])
                                                               ELSE taskStatus[t]]
           /\ g_taskSortLink' = Unlinked(g_taskSortLink, woken)
           /\ g_priQueueList' = EnQueued(g_priQueueList, Only(stEventList, ready), priority)
           /\ timeSlice' = SliceRenewed(ready)
           /\ IF woken = {} THEN UNCHANGED <<pc, swPending>> ELSE ThenSchedule(inHandler)
    /\ UNCHANGED <<priority, waitTimes, runTask, g_losTaskLock, g_schedResponseTime,
                   g_schedResponseID, initialized, callVars, toRead>>

\* LOS_EventClear keeps the bits of its argument.
LOS_EventClear(keep) ==
    /\ FreeTask
    /\ uwEventID' = uwEventID \cap keep
    /\ UNCHANGED <<schedVars, stEventList, initialized, callVars, checkVars>>

\* LOS_EventDestroy refuses while a task waits, but not while one is about to.
LOS_EventDestroy ==
    /\ FreeTask
    /\ initialized
    /\ stEventList = <<>>
    /\ initialized' = FALSE
    /\ UNCHANGED <<schedVars, uwEventID, stEventList, callVars, checkVars>>

\* LOS_EventInit, on a control block that is not in use.
LOS_EventInit ==
    /\ FreeTask
    /\ ~initialized
    /\ initialized' = TRUE
    /\ uwEventID' = {}
    /\ UNCHANGED <<schedVars, stEventList, callVars, checkVars>>

-----------------------------------------------------------------------------
(***************************************************************************)
(* The steps of the scheduler.  A tick that times a task out takes it off  *)
(* the list it waits on (OsSchedWakePendTimeTask).                         *)
(***************************************************************************)
EventTick ==
    /\ Tick
    /\ stEventList' = Leave(stEventList, {t \in Tasks : "PEND" \notin taskStatus'[t]})
    /\ UNCHANGED <<uwEventID, initialized, callVars, checkVars>>

OtherTaskCall ==
    /\ FreeTask
    /\ TaskCall
    /\ UNCHANGED eventVars

\* History: a reader that was woken and has not polled yet loses bits it waited for.
Robbed(t) == \/ t \in robbed
             \/ ~Contains(stEventList, t) /\ eventMask[t] \cap (uwEventID \ uwEventID') # {}

\* History: the section of a read that waits, or of a write, uses the links.
UsesLinks == \E t \in Tasks : \/ (reading'[t] /\ ~reading[t])
                             \/ (toWrite[t] # {} /\ toWrite'[t] = {})

Record == /\ robbed' = {t \in Readers : reading'[t] /\ Robbed(t)}
          /\ stray' = (stray \/ (~initialized /\ UsesLinks))

EventNext ==
    \/ \E r \in Reads : OsEventReadParamCheck(r) /\ Record
    \/ \E events \in Writes : CheckWrite(events) /\ Record
    \/ \E r \in Reads : ReadAtOnce(r) /\ Record
    \/ \E r \in Reads : ReadWaits(r) /\ Record
    \/ ReadReturns /\ Record
    \/ \E events \in Writes, inHandler \in BOOLEAN :
           LOS_EventWrite(events, inHandler) /\ Record
    \/ \E keep \in Keeps : LOS_EventClear(keep) /\ Record
    \/ LOS_EventDestroy /\ Record
    \/ LOS_EventInit /\ Record
    \/ OtherTaskCall /\ Record
    \/ HandlerCall /\ UNCHANGED eventVars /\ Record
    \/ LOS_Schedule /\ UNCHANGED eventVars /\ Record
    \/ OsSchedTaskSwitch /\ UNCHANGED eventVars /\ Record
    \/ EventTick /\ Record

EventSpec == EventInit /\ [][EventNext]_vars

-----------------------------------------------------------------------------
(***************************************************************************)
(* Properties.                                                             *)
(***************************************************************************)

(***************************************************************************)
(* The pend list agrees with the status bits, also when a task is woken,   *)
(* timed out or suspended between LOS_IntRestore and LOS_Schedule: a task  *)
(* is on it exactly if it is PEND, once, and inside a read; and a PEND     *)
(* task that was timed out is neither.  Nothing in the code keeps a        *)
(* LOS_EventDestroy from coming between the check of a call and its        *)
(* section, which then links the reader to NULL or walks from there; from  *)
(* that step on nothing can be said.  It is the only thing that breaks the *)
(* list: a destruction before the section that is followed by an           *)
(* LOS_EventInit, or one that no call was about to pass, does not.         *)
(***************************************************************************)
PendListAgrees ==
    ~stray =>
      /\ IsInjective(stEventList)
      /\ \A t \in Tasks : Contains(stEventList, t) <=> Has(t, "PEND")
      /\ \A t \in Tasks : Has(t, "PEND") \/ Has(t, "TIMEOUT") => reading[t]
      /\ \A t \in Tasks : ~(Has(t, "PEND") /\ Has(t, "TIMEOUT"))

(***************************************************************************)
(* No wake-up is lost: no task waits for what is already there.  It takes  *)
(* the poll and the wait in one section, and a write that looks at all the *)
(* waiting tasks, with the new bits (LOS_WAITMODE_OR) or all that are set  *)
(* (LOS_WAITMODE_AND).                                                     *)
(***************************************************************************)
NoLostWakeup ==
    ~stray =>
      \A t \in Readers :
        Has(t, "PEND") => Polled(uwEventID, eventMask[t], eventMode[t]) = {}

(***************************************************************************)
(* A read that had to wait returns with the events it waited for or with   *)
(* the time-out, unless another reader, LOS_EventClear or LOS_EventInit    *)
(* took bits away between the wake-up and the second poll.  The WiFi       *)
(* thread (thread_WiFi.c:87), the only reader of an event that nobody      *)
(* clears, relies on it: it never wakes up for nothing.                    *)
(***************************************************************************)
ReadDelivers ==
    [][\A t \in Readers :
        reading[t] /\ ~reading'[t] /\ ~Has(t, "TIMEOUT") /\ t \notin robbed /\ ~stray =>
            Polled(uwEventID, eventMask[t], eventMode[t]) # {}]_vars

=============================================================================
