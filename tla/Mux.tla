--------------------------------- MODULE Mux ---------------------------------
(***************************************************************************)
(* LiteOS-M mutexes (los_mux.c): recursive, handed over in the order of    *)
(* the calls, and with priority inheritance: a task that waits lends its   *)
(* priority to the owner, and the last post of the owner takes it back.    *)
(***************************************************************************)
EXTENDS Processor

CONSTANTS
    Muxes,         \* the control blocks
    MaxNest,       \* bound on how often a task takes a mutex it has
    NoTask         \* no owner

VARIABLES
    muxStat,       \* the control blocks in use
    muxCount,      \* how often each mutex is taken
    muxOwner,      \* by whom
    muxPriority,   \* the priority the owner is given back
    muxList,       \* the tasks that wait, first come first
    muxPending,    \* tasks inside a LOS_MuxPend that had to wait, and for which mutex
    muxExpired,    \* those of them that were timed out
    held           \* history: the mutexes each caller has, in the order it took them

muxVars == <<muxStat, muxCount, muxOwner, muxPriority, muxList, muxPending, muxExpired,
             held>>

MuxInit ==
    /\ muxStat = {}
    /\ muxCount = [m \in Muxes |-> 0]
    /\ muxOwner = [m \in Muxes |-> NoTask]
    /\ muxPriority = [m \in Muxes |-> 0]
    /\ muxList = [m \in Muxes |-> <<>>]
    /\ muxPending = [t \in Tasks |-> {}]
    /\ muxExpired = {}
    /\ held = [t \in Tasks |-> <<>>]

-----------------------------------------------------------------------------
LOS_MuxCreate(m) ==
    /\ InTask /\ m \notin muxStat
    /\ muxStat' = muxStat \cup {m}
    /\ muxCount' = [muxCount EXCEPT ![m] = 0]
    /\ muxOwner' = [muxOwner EXCEPT ![m] = NoTask]
    /\ muxPriority' = [muxPriority EXCEPT ![m] = 0]
    /\ muxList' = [muxList EXCEPT ![m] = <<>>]
    /\ UNCHANGED <<procVars, muxPending, muxExpired, held>>

\* LOS_MuxDelete: refused while a task has it or waits for it.
LOS_MuxDelete(m) ==
    /\ InTask /\ m \in muxStat
    /\ muxList[m] = <<>> /\ muxCount[m] = 0
    /\ muxStat' = muxStat \ {m}
    /\ UNCHANGED <<procVars, muxCount, muxOwner, muxPriority, muxList, muxPending,
                   muxExpired, held>>

\* LOS_MuxPend of a mutex that is free (OsMuxValidCheck: never while locked).
MuxPendTakes(m) ==
    /\ InTask /\ m \in muxStat /\ lockDepth = 0
    /\ muxCount[m] = 0
    /\ muxCount' = [muxCount EXCEPT ![m] = 1]
    /\ muxOwner' = [muxOwner EXCEPT ![m] = running]
    /\ muxPriority' = [muxPriority EXCEPT ![m] = prio[running]]
    /\ held' = [held EXCEPT ![running] = Append(@, m)]
    /\ UNCHANGED <<procVars, muxStat, muxList, muxPending, muxExpired>>

\* LOS_MuxPend of a mutex the task has already.
MuxPendNests(m) ==
    /\ InTask /\ m \in muxStat /\ lockDepth = 0
    /\ muxOwner[m] = running /\ muxCount[m] \in 1 .. MaxNest - 1
    /\ muxCount' = [muxCount EXCEPT ![m] = @ + 1]
    /\ held' = [held EXCEPT ![running] = Append(@, m)]
    /\ UNCHANGED <<procVars, muxStat, muxOwner, muxPriority, muxList, muxPending, muxExpired>>

\* LOS_MuxPend that has to wait and lends its priority to a weaker owner.
MuxPendWaits(m, limited) ==
    /\ InTask /\ m \in muxStat /\ lockDepth = 0
    /\ muxCount[m] > 0 /\ muxOwner[m] # running
    /\ prio' = [prio EXCEPT ![muxOwner[m]] = Min({@, prio[running]})]
    /\ muxList' = [muxList EXCEPT ![m] = Append(@, running)]
    /\ muxPending' = [muxPending EXCEPT ![running] = {m}]
    /\ Wait(limited)
    /\ UNCHANGED <<suspended, running, lockDepth, muxStat, muxCount, muxOwner, muxPriority,
                   muxExpired, held>>

\* The rest of LOS_MuxPend, when the task has the processor again.
MuxPendReturns ==
    /\ InTask /\ muxPending[running] # {}
    /\ muxPending' = [muxPending EXCEPT ![running] = {}]
    /\ muxExpired' = muxExpired \ {running}
    /\ held' = IF running \in muxExpired THEN held
               ELSE [held EXCEPT ![running] = @ \o SetToSeq(muxPending[running])]
    /\ UNCHANGED <<procVars, muxStat, muxCount, muxOwner, muxPriority, muxList>>

\* One entry of m less, the latest.
Released(s, m) == RemoveAt(s, Max({i \in DOMAIN s : s[i] = m}))

\* LOS_MuxPost of a mutex that was taken more than once.
MuxPostNested(m) ==
    /\ InTask /\ m \in muxStat
    /\ muxOwner[m] = running /\ muxCount[m] > 1
    /\ muxCount' = [muxCount EXCEPT ![m] = @ - 1]
    /\ held' = [held EXCEPT ![running] = Released(@, m)]
    /\ UNCHANGED <<procVars, muxStat, muxOwner, muxPriority, muxList, muxPending, muxExpired>>

(***************************************************************************)
(* The last LOS_MuxPost: the priority is given back, and the mutex goes to *)
(* the first task of the list.  Without one, the priority changes and      *)
(* nobody schedules.                                                       *)
(***************************************************************************)
\* Mutant: the borrowed priority is given back only if nobody waits.
MuxPostLends(m) ==
    /\ InTask /\ m \in muxStat
    /\ muxOwner[m] = running /\ muxCount[m] = 1
    /\ held' = [held EXCEPT ![running] = Released(@, m)]
    /\ IF muxList[m] = <<>>
       THEN /\ muxCount' = [muxCount EXCEPT ![m] = 0]
            /\ prio' = [prio EXCEPT ![running] = muxPriority[m]]
            /\ UNCHANGED <<waiting, timed, resched, muxOwner, muxPriority, muxList>>
       ELSE LET next == Head(muxList[m]) IN
            /\ muxOwner' = [muxOwner EXCEPT ![m] = next]
            /\ muxPriority' = [muxPriority EXCEPT ![m] = prio[next]]
            /\ muxList' = [muxList EXCEPT ![m] = Tail(@)]
            /\ Wake({next})
            /\ Reschedule(FALSE)
            /\ UNCHANGED <<prio, muxCount>>
    /\ UNCHANGED <<suspended, running, lockDepth, muxStat, muxPending, muxExpired>>

\* Mutant: the mutex is freed, and whoever comes first takes it.
MuxPostFrees(m) ==
    /\ InTask /\ m \in muxStat
    /\ muxOwner[m] = running /\ muxCount[m] = 1
    /\ prio' = [prio EXCEPT ![running] = muxPriority[m]]
    /\ held' = [held EXCEPT ![running] = Released(@, m)]
    /\ muxCount' = [muxCount EXCEPT ![m] = 0]
    /\ IF muxList[m] = <<>>
       THEN UNCHANGED <<waiting, timed, resched, muxOwner, muxPriority, muxList>>
       ELSE LET next == Head(muxList[m]) IN
            /\ muxOwner' = [muxOwner EXCEPT ![m] = next]
            /\ muxPriority' = [muxPriority EXCEPT ![m] = prio[next]]
            /\ muxList' = [muxList EXCEPT ![m] = Tail(@)]
            /\ Wake({next})
            /\ Reschedule(FALSE)
    /\ UNCHANGED <<suspended, running, lockDepth, muxStat, muxPending, muxExpired>>

MuxPostLast(m) ==
    /\ InTask /\ m \in muxStat
    /\ muxOwner[m] = running /\ muxCount[m] = 1
    /\ prio' = [prio EXCEPT ![running] = muxPriority[m]]
    /\ held' = [held EXCEPT ![running] = Released(@, m)]
    /\ IF muxList[m] = <<>>
       THEN /\ muxCount' = [muxCount EXCEPT ![m] = 0]
            /\ UNCHANGED <<waiting, timed, resched, muxOwner, muxPriority, muxList>>
       ELSE LET next == Head(muxList[m]) IN
            /\ muxOwner' = [muxOwner EXCEPT ![m] = next]
            /\ muxPriority' = [muxPriority EXCEPT ![m] = prio[next]]
            /\ muxList' = [muxList EXCEPT ![m] = Tail(@)]
            /\ Wake({next})
            /\ Reschedule(FALSE)
            /\ UNCHANGED muxCount
    /\ UNCHANGED <<suspended, running, lockDepth, muxStat, muxPending, muxExpired>>

\* Time is over for some tasks.  What they lent stays with the owner.
MuxElapse(ts) ==
    /\ muxList' = [m \in Muxes |-> Leave(muxList[m], ts)]
    /\ muxExpired' = muxExpired \cup {t \in ts : muxPending[t] # {}}
    /\ UNCHANGED <<muxStat, muxCount, muxOwner, muxPriority, muxPending, held>>

(***************************************************************************)
(* The tasks give mutexes back in the reverse of the order they took them, *)
(* unless the call "post_any_order" is made.                               *)
(***************************************************************************)
InOrder(m) == "post_any_order" \in Calls \/ Last(held[running]) = m

MuxCall ==
    \E m \in Muxes :
        \/ LOS_MuxCreate(m)
        \/ LOS_MuxDelete(m)
        \/ MuxPendTakes(m)
        \/ MuxPendNests(m)
        \/ \E limited \in BOOLEAN : MuxPendWaits(m, limited)
        \/ held[running] # <<>> /\ InOrder(m) /\ MuxPostNested(m)
        \/ held[running] # <<>> /\ InOrder(m) /\ MuxPostLast(m)

-----------------------------------------------------------------------------
(***************************************************************************)
(* The callers' view and the control block agree: who took a mutex and has *)
(* not given it back is its owner, as often as muxCount says, or it has    *)
(* been handed to a task that does not know yet and was not timed out.  So *)
(* two tasks are never between pend and post.                              *)
(***************************************************************************)
Taken(t, m) == Cardinality({i \in DOMAIN held[t] : held[t][i] = m})

OnItsWay(t, m) ==
    /\ m \in muxPending[t] /\ t \notin muxExpired
    /\ ~Contains(muxList[m], t)

MutualExclusion ==
    \A m \in Muxes, t \in Tasks :
        /\ Taken(t, m) + (IF OnItsWay(t, m) THEN 1 ELSE 0)
           = IF muxOwner[m] = t THEN muxCount[m] ELSE 0
        /\ Contains(muxList[m], t) => m \in muxPending[t] /\ muxCount[m] > 0

(***************************************************************************)
(* A borrowed priority is given back: a task that has no mutex and is not  *)
(* in LOS_MuxPend has the priority it was created with, if mutexes are     *)
(* given back in the reverse order.                                        *)
(***************************************************************************)
PriorityGivenBack ==
    \A t \in Tasks :
        held[t] = <<>> /\ muxPending[t] = {} => prio[t] = InitPriority[t]

(***************************************************************************)
(* los_mux.h:236: "If a higher-priority thread is waiting on a mutex, it   *)
(* changes the priority of the thread that owns the mutex to avoid         *)
(* priority inversion": no owner is weaker than a task that waits for it.  *)
(***************************************************************************)
OwnerInherits ==
    \A m \in Muxes : \A i \in DOMAIN muxList[m] :
        prio[muxOwner[m]] <= prio[muxList[m][i]]

=============================================================================
