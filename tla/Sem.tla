--------------------------------- MODULE Sem ---------------------------------
(***************************************************************************)
(* LiteOS-M semaphores (los_sem.c): one control block, created, used and   *)
(* deleted over and over.  A post that finds a task waiting hands its      *)
(* permit to that task and leaves the counter alone; the task notices when *)
(* it gets the processor again.                                            *)
(***************************************************************************)
EXTENDS Processor

CONSTANTS
    SemCounts,     \* first arguments of LOS_SemCreate and LOS_BinarySemCreate
    maxSemCount    \* OS_SEM_COUNTING_MAX_COUNT or OS_SEM_BINARY_MAX_COUNT

ASSUME SemAssumption == SemCounts \subseteq Nat /\ maxSemCount \in Nat

VARIABLES
    semStat,       \* the control block is in use
    semCount,      \* permits nobody has
    semList,       \* the tasks that wait, first come first
    semPending,    \* tasks inside a LOS_SemPend that had to wait
    semExpired,    \* those of them that were timed out
    permits        \* history: created and posted, minus taken by callers

semVars == <<semStat, semCount, semList, semPending, semExpired, permits>>

SemInit ==
    /\ semStat = FALSE
    /\ semCount = 0
    /\ semList = <<>>
    /\ semPending = {}
    /\ semExpired = {}
    /\ permits = 0

-----------------------------------------------------------------------------
\* OsSemCreate
SemCreate(count) ==
    /\ InTask /\ ~semStat
    /\ count <= maxSemCount
    /\ semStat' = TRUE
    /\ semCount' = count
    /\ semList' = <<>>
    /\ permits' = permits + count
    /\ UNCHANGED <<procVars, semPending, semExpired>>

\* LOS_SemDelete: refused while a task is on the list.
LOS_SemDelete ==
    /\ InTask /\ semStat
    /\ semList = <<>>
    /\ semStat' = FALSE
    /\ semCount' = 0
    /\ permits' = permits - semCount
    /\ UNCHANGED <<procVars, semList, semPending, semExpired>>

\* LOS_SemPend of a semaphore with permits (OsSemValidCheck: never while locked).
SemPendTakes ==
    /\ InTask /\ semStat /\ lockDepth = 0
    /\ semCount > 0
    /\ semCount' = semCount - 1
    /\ permits' = permits - 1
    /\ UNCHANGED <<procVars, semStat, semList, semPending, semExpired>>

\* LOS_SemPend that has to wait.  With a limit of 0 it returns instead.
SemPendWaits(limited) ==
    /\ InTask /\ semStat /\ lockDepth = 0
    /\ semCount = 0
    /\ semList' = Append(semList, running)
    /\ semPending' = semPending \cup {running}
    /\ Wait(limited)
    /\ UNCHANGED <<suspended, prio, running, lockDepth, semStat, semCount, semExpired,
                   permits>>

\* The rest of LOS_SemPend, when the task has the processor again.
SemPendReturns ==
    /\ InTask /\ running \in semPending
    /\ semPending' = semPending \ {running}
    /\ semExpired' = semExpired \ {running}
    /\ permits' = IF running \in semExpired THEN permits ELSE permits - 1
    /\ UNCHANGED <<procVars, semStat, semCount, semList>>

\* Mutant: a post that wakes a task raises the counter as well.
LOS_SemPostTwice(inHandler) ==
    /\ inHandler \/ InTask
    /\ semStat
    /\ semCount # maxSemCount
    /\ permits' = permits + 1
    /\ semCount' = semCount + 1
    /\ IF semList = <<>>
       THEN UNCHANGED <<waiting, timed, resched, semList>>
       ELSE /\ Wake({Head(semList)})
            /\ semList' = Tail(semList)
            /\ Reschedule(inHandler)
    /\ UNCHANGED <<suspended, prio, running, lockDepth, semStat, semPending, semExpired>>

LOS_SemPost(inHandler) ==
    /\ inHandler \/ InTask
    /\ semStat
    /\ semCount # maxSemCount
    /\ permits' = permits + 1
    /\ IF semList = <<>>
       THEN /\ semCount' = semCount + 1
            /\ UNCHANGED <<waiting, timed, resched, semList>>
       ELSE /\ Wake({Head(semList)})
            /\ semList' = Tail(semList)
            /\ Reschedule(inHandler)
            /\ UNCHANGED semCount
    /\ UNCHANGED <<suspended, prio, running, lockDepth, semStat, semPending, semExpired>>

\* Time is over for some tasks (OsSchedWakePendTimeTask).
SemElapse(ts) ==
    /\ semList' = Leave(semList, ts)
    /\ semExpired' = semExpired \cup (ts \cap semPending)
    /\ UNCHANGED <<semStat, semCount, semPending, permits>>

SemCall ==
    \/ \E count \in SemCounts : SemCreate(count)
    \/ LOS_SemDelete
    \/ SemPendTakes
    \/ \E limited \in BOOLEAN : SemPendWaits(limited)
    \/ LOS_SemPost(FALSE)

-----------------------------------------------------------------------------
(***************************************************************************)
(* No permit is lost or made up, whatever the order of posts, time-outs,   *)
(* suspensions, deletions and switches: what was created and posted and    *)
(* not yet taken is in the counter or on its way to a woken task; a task   *)
(* is timed out or handed a permit, never both; and none waits while a     *)
(* permit is free.                                                         *)
(***************************************************************************)
Handed == {t \in semPending : ~Contains(semList, t) /\ t \notin semExpired}

PermitsConserved ==
    /\ permits = semCount + Cardinality(Handed)
    /\ \A t \in Tasks : Contains(semList, t) => t \in semPending /\ t \notin semExpired
    /\ semList # <<>> => semStat /\ semCount = 0
    /\ semCount <= maxSemCount

=============================================================================
