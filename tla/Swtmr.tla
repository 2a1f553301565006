-------------------------------- MODULE Swtmr --------------------------------
(***************************************************************************)
(* LiteOS-M software timers (los_swtmr.c, with LOSCFG_BASE_CORE_SWTMR_ALIGN *)
(* as target_config.h sets it): the control blocks and their free list,    *)
(* the sorted list of running timers, the alignment of periodic timers,    *)
(* the scan of the tick interrupt, and the queue to the task that calls    *)
(* the handlers.  Every call is one section with interrupts locked;        *)
(* LOS_SwtmrCreate fills its block after it has taken it off the free      *)
(* list, where nobody else has its ID yet, and is one step too.  The scan  *)
(* of the tick interrupt is one step for each timer it finds due, and no   *)
(* call comes in between.                                                  *)
(*                                                                         *)
(* Times in the list are cycles from now; a timer counts in ticks.         *)
(***************************************************************************)
EXTENDS Integers, Sequences, FiniteSets, SequencesExt, PendList, SortLink

CONSTANTS
    LIMIT,         \* LOSCFG_BASE_CORE_SWTMR_LIMIT, also the size of the queue
    CYCLES,        \* OS_CYCLE_PER_TICK
    DIVISOR,       \* LOS_COMMON_DIVISOR
    Settings,      \* arguments of LOS_SwtmrCreate: [mode, interval, sensitive]
    Callers,       \* who creates timers; a caller has one ID at a time
    NoCaller,
    MaxLap,        \* bound on how often an ID is renewed, far below its wrap
    MaxLate        \* bound on the cycles by which a scan is late

ASSUME SwtmrAssumption ==
    /\ {LIMIT, CYCLES, DIVISOR} \subseteq Nat \ {0}
    /\ Settings \subseteq [mode : {"ONCE", "PERIOD", "NO_SELFDELETE"},
                           interval : Nat \ {0}, sensitive : BOOLEAN]
    /\ {MaxLap, MaxLate} \subseteq Nat

Timers == 0 .. LIMIT - 1

VARIABLES
    ucState,              \* UNUSED, CREATED or TICKING
    setting,              \* ucMode, uwInterval and ucSensitive
    lap,                  \* usTimerID is the index plus lap * LIMIT
    g_swtmrAlignID,       \* [canAlign, isAligned, times], times 0: not canMultiple
    g_swtmrFreeList,      \* as a sequence
    g_swtmrSortLinkList,  \* [timer, left], soonest first
    g_swtmrHandlerQueue,  \* how many handlers are to be called
    scanning,             \* the tick interrupt is in the loop of OsSwtmrScan
    swtmrId,              \* the IDs the callers have, as sets of [timer, lap]
    creator,              \* history: for whom a block was created last
    misused               \* history: a deleted timer was started

blockVars == <<ucState, setting, lap, g_swtmrAlignID>>
swtmrVars == <<blockVars, g_swtmrFreeList, g_swtmrSortLinkList, g_swtmrHandlerQueue,
               scanning, swtmrId, creator, misused>>

NotAligned == [canAlign |-> FALSE, isAligned |-> FALSE, times |-> 0]

\* OsSwtmrInit
SwtmrInit ==
    /\ ucState = [t \in Timers |-> "UNUSED"]
    /\ setting = [t \in Timers |-> [mode |-> "ONCE", interval |-> 0, sensitive |-> TRUE]]
    /\ lap = [t \in Timers |-> 0]
    /\ g_swtmrAlignID = [t \in Timers |-> NotAligned]
    /\ g_swtmrFreeList = [i \in 1 .. LIMIT |-> i - 1]
    /\ g_swtmrSortLinkList = <<>>
    /\ g_swtmrHandlerQueue = 0
    /\ scanning = FALSE
    /\ swtmrId = [c \in Callers |-> {}]
    /\ creator = [t \in Timers |-> NoCaller]
    /\ misused = FALSE

-----------------------------------------------------------------------------
(***************************************************************************)
(* The sorted list.                                                        *)
(***************************************************************************)

\* OsDeleteSortLink
Removed(link, t) == KeepAt(link, {i \in DOMAIN link : link[i].timer # t})

\* OsSortLinkGetTargetExpireTime: whole ticks, rounded down.
TargetExpireTime(node) == Max({0, node.left}) \div CYCLES

-----------------------------------------------------------------------------
(***************************************************************************)
(* The position of a timer that is to be aligned: the ticks to its first   *)
(* expiry.                                                                 *)
(***************************************************************************)
Interval(t) == setting[t].interval
Mode(t) == setting[t].mode

\* Mutant: the time of the other timer as it is.
CalcAlignCountPlain(interval, node) == TargetExpireTime(node)

\* OsSwtmrCalcAlignCount
CalcAlignCount(interval, node) ==
    interval - ((Interval(node.timer) - TargetExpireTime(node)) % interval)

(***************************************************************************)
(* OsSwtmrFindAlignPos: the time of the first aligned timer of the same    *)
(* interval; or else of the smallest multiple of this interval; or else of *)
(* the largest interval of which this one is a multiple; or else its own.  *)
(***************************************************************************)
FindAlignPos(t, link, align) ==
    LET interval(i) == Interval(link[i].timer)
        times(i) == align[link[i].timer].times
        own == align[t].times
        candidates == {i \in DOMAIN link : /\ align[link[i].timer].isAligned
                                           /\ align[link[i].timer].canAlign}
        same == {i \in candidates : interval(i) = Interval(t)}
        multiples == {i \in candidates : own > 0 /\ times(i) >= own /\ times(i) % own = 0}
        divisors == {i \in candidates : times(i) \in 1 .. own - 1 /\ own % times(i) = 0}
        smallest == {i \in multiples : \A j \in multiples : times(i) <= times(j)}
        largest == {i \in divisors : \A j \in divisors : times(i) >= times(j)}
    IN  IF same # {} THEN TargetExpireTime(link[Min(same)])
        ELSE IF multiples # {} THEN CalcAlignCount(Interval(t), link[Min(smallest)])
        ELSE IF divisors # {} THEN TargetExpireTime(link[Min(largest)])
        ELSE Interval(t)

\* OsSwtmrStart of a timer whose node is not in link.
OsSwtmrStart(t, link, align) ==
    LET first == align[t].canAlign /\ ~align[t].isAligned
        after == IF first THEN [align EXCEPT ![t].isAligned = TRUE] ELSE align
        count == IF first THEN FindAlignPos(t, link, after) ELSE Interval(t)
    IN  /\ ucState' = [ucState EXCEPT ![t] = "TICKING"]
        /\ g_swtmrAlignID' = after
        /\ g_swtmrSortLinkList' = Linked(link, [timer |-> t, left |-> count * CYCLES])

-----------------------------------------------------------------------------
(***************************************************************************)
(* The calls.  An ID is refused unless it is the one its block has now.    *)
(***************************************************************************)
LOS_SwtmrCreate(c, s) ==
    /\ swtmrId[c] = {}
    /\ g_swtmrFreeList # <<>>
    /\ LET t == Head(g_swtmrFreeList) IN
        /\ lap[t] < MaxLap
        /\ g_swtmrFreeList' = Tail(g_swtmrFreeList)
        /\ ucState' = [ucState EXCEPT ![t] = "CREATED"]
        /\ setting' = [setting EXCEPT ![t] = s]
        /\ swtmrId' = [swtmrId EXCEPT ![c] = {[timer |-> t, lap |-> lap[t]]}]
        /\ creator' = [creator EXCEPT ![t] = c]
    /\ UNCHANGED <<lap, g_swtmrAlignID, g_swtmrSortLinkList, g_swtmrHandlerQueue, misused>>

Accepted(id) == lap[id.timer] = id.lap

\* What LOS_SwtmrStart notes of a timer before it looks at its state.
AlignNoted(t) ==
    IF setting[t].mode = "PERIOD" /\ ~setting[t].sensitive
    THEN [g_swtmrAlignID EXCEPT
            ![t].canAlign = TRUE,
            ![t].times = IF Interval(t) % DIVISOR = 0 THEN Interval(t) \div DIVISOR ELSE @]
    ELSE g_swtmrAlignID

LOS_SwtmrStart(id) ==
    /\ Accepted(id)
    /\ LET t == id.timer
           noted == AlignNoted(t) IN
       \/ /\ ucState[t] = "TICKING"
          /\ OsSwtmrStart(t, Removed(g_swtmrSortLinkList, t),
                          [noted EXCEPT ![t].isAligned = FALSE])
       \/ /\ ucState[t] = "CREATED"
          /\ OsSwtmrStart(t, g_swtmrSortLinkList, noted)
    /\ UNCHANGED <<setting, lap, g_swtmrFreeList, g_swtmrHandlerQueue, swtmrId, creator, misused>>

\* LOS_SwtmrStart with the ID of a timer that was deleted: NOT_CREATED, too late.
SwtmrStartDeleted(t) ==
    /\ ucState[t] = "UNUSED"
    /\ g_swtmrAlignID' = AlignNoted(t)
    /\ g_swtmrAlignID' # g_swtmrAlignID
    /\ misused' = TRUE
    /\ UNCHANGED <<ucState, setting, lap, g_swtmrFreeList, g_swtmrSortLinkList,
                   g_swtmrHandlerQueue, swtmrId, creator>>

LOS_SwtmrStop(id) ==
    /\ Accepted(id) /\ ucState[id.timer] = "TICKING"
    /\ ucState' = [ucState EXCEPT ![id.timer] = "CREATED"]
    /\ g_swtmrSortLinkList' = Removed(g_swtmrSortLinkList, id.timer)
    /\ g_swtmrAlignID' = [g_swtmrAlignID EXCEPT ![id.timer].isAligned = FALSE]
    /\ UNCHANGED <<setting, lap, g_swtmrFreeList, g_swtmrHandlerQueue, swtmrId, creator, misused>>

\* Mutant: the alignment data of the block survives.
LOS_SwtmrDeleteAligned(id, c) ==
    /\ Accepted(id) /\ ucState[id.timer] # "UNUSED"
    /\ ucState' = [ucState EXCEPT ![id.timer] = "UNUSED"]
    /\ g_swtmrSortLinkList' = Removed(g_swtmrSortLinkList, id.timer)
    /\ g_swtmrFreeList' = <<id.timer>> \o g_swtmrFreeList
    /\ swtmrId' = [swtmrId EXCEPT ![c] = {}]
    /\ UNCHANGED <<setting, lap, g_swtmrAlignID, g_swtmrHandlerQueue, creator, misused>>

\* LOS_SwtmrDelete, after which the caller forgets the ID.
LOS_SwtmrDelete(id, c) ==
    /\ Accepted(id) /\ ucState[id.timer] # "UNUSED"
    /\ ucState' = [ucState EXCEPT ![id.timer] = "UNUSED"]
    /\ g_swtmrSortLinkList' = Removed(g_swtmrSortLinkList, id.timer)
    /\ g_swtmrFreeList' = <<id.timer>> \o g_swtmrFreeList
    /\ g_swtmrAlignID' = [g_swtmrAlignID EXCEPT ![id.timer] = NotAligned]
    /\ swtmrId' = [swtmrId EXCEPT ![c] = {}]
    /\ UNCHANGED <<setting, lap, g_swtmrHandlerQueue, creator, misused>>

\* A caller whose ID was refused creates another timer.
Forget(id, c) ==
    /\ ~Accepted(id)
    /\ swtmrId' = [swtmrId EXCEPT ![c] = {}]
    /\ UNCHANGED <<blockVars, g_swtmrFreeList, g_swtmrSortLinkList, g_swtmrHandlerQueue,
                   creator, misused>>

-----------------------------------------------------------------------------
(***************************************************************************)
(* A cycle passes.  The list is not scanned before its head is due, and    *)
(* the timer interrupt may then be for the end of a slice, or up to a tick *)
(* late.                                                                   *)
(***************************************************************************)
Passed == [i \in DOMAIN g_swtmrSortLinkList |->
              [g_swtmrSortLinkList[i] EXCEPT !.left = @ - 1]]

FirstIsDue(link) == link # <<>> /\ Head(link).left <= 0

Cycle ==
    /\ ~scanning
    /\ Passed # <<>>
    /\ g_swtmrSortLinkList' = Passed
    /\ \/ FirstIsDue(Passed) /\ scanning' = TRUE
       \/ Passed[1].left >= -MaxLate + 1 /\ scanning' = FALSE
    /\ UNCHANGED <<blockVars, g_swtmrFreeList, g_swtmrHandlerQueue, swtmrId, creator, misused>>

(***************************************************************************)
(* OsSwtmrScan, as long as the first timer is due: it leaves the list, its *)
(* handler is written to the queue, if there is room, and a one-shot timer *)
(* is deleted and its ID renewed, a periodic one is started again.         *)
(***************************************************************************)

\* Mutant: a one-shot timer keeps its ID.
RenewedKept(t) == lap

\* usTimerID of the blocks after that of t was renewed.
Renewed(t) == [lap EXCEPT ![t] = @ + 1]

OsSwtmrTimeoutHandle(t, link) ==
    \/ /\ Mode(t) = "ONCE"
       /\ ucState' = [ucState EXCEPT ![t] = "UNUSED"]
       /\ g_swtmrFreeList' = <<t>> \o g_swtmrFreeList
       /\ g_swtmrAlignID' = [g_swtmrAlignID EXCEPT ![t] = NotAligned]
       /\ lap' = Renewed(t)
       /\ g_swtmrSortLinkList' = link
    \/ /\ Mode(t) = "PERIOD"
       /\ OsSwtmrStart(t, link, g_swtmrAlignID)
       /\ UNCHANGED <<lap, g_swtmrFreeList>>
    \/ /\ Mode(t) = "NO_SELFDELETE"
       /\ ucState' = [ucState EXCEPT ![t] = "CREATED"]
       /\ g_swtmrSortLinkList' = link
       /\ UNCHANGED <<lap, g_swtmrFreeList, g_swtmrAlignID>>

OsSwtmrScan ==
    /\ scanning
    /\ FirstIsDue(g_swtmrSortLinkList)
    /\ OsSwtmrTimeoutHandle(Head(g_swtmrSortLinkList).timer, Tail(g_swtmrSortLinkList))
    /\ g_swtmrHandlerQueue' = Min({g_swtmrHandlerQueue + 1, LIMIT})
    /\ UNCHANGED <<setting, scanning, swtmrId, creator, misused>>

ScanEnds ==
    /\ scanning
    /\ ~FirstIsDue(g_swtmrSortLinkList)
    /\ scanning' = FALSE
    /\ UNCHANGED <<blockVars, g_swtmrFreeList, g_swtmrSortLinkList, g_swtmrHandlerQueue,
                   swtmrId, creator, misused>>

\* OsSwtmrTask calls the next handler.
OsSwtmrTask ==
    /\ g_swtmrHandlerQueue > 0
    /\ g_swtmrHandlerQueue' = g_swtmrHandlerQueue - 1
    /\ UNCHANGED <<blockVars, g_swtmrFreeList, g_swtmrSortLinkList, swtmrId, creator, misused>>

\* What tasks, and interrupts other than the tick, do.
Calls ==
    \/ \E c \in Callers : \E s \in Settings : LOS_SwtmrCreate(c, s)
    \/ \E c \in Callers : \E id \in swtmrId[c] :
           LOS_SwtmrStart(id) \/ LOS_SwtmrStop(id) \/ LOS_SwtmrDelete(id, c) \/ Forget(id, c)
    \/ \E t \in Timers : SwtmrStartDeleted(t)
    \/ OsSwtmrTask

SwtmrNext ==
    \/ ~scanning /\ Calls /\ UNCHANGED scanning
    \/ Cycle
    \/ OsSwtmrScan
    \/ ScanEnds

SwtmrSpec == SwtmrInit /\ [][SwtmrNext]_swtmrVars

-----------------------------------------------------------------------------
Nodes(t) == {i \in DOMAIN g_swtmrSortLinkList : g_swtmrSortLinkList[i].timer = t}

(***************************************************************************)
(* State, lists and times agree through every order of calls and scans: a  *)
(* TICKING timer, and no other, is in the sorted list, once, and never     *)
(* further away than its interval, whatever it was aligned with; the free  *)
(* list has the UNUSED blocks, once each; the list is sorted, so that the  *)
(* scan, which stops at the first timer that is not due, misses none.      *)
(***************************************************************************)
TimersAgree ==
    /\ \A t \in Timers :
        /\ Cardinality(Nodes(t)) = IF ucState[t] = "TICKING" THEN 1 ELSE 0
        /\ Contains(g_swtmrFreeList, t) <=> ucState[t] = "UNUSED"
    /\ IsInjective(g_swtmrFreeList)
    /\ \A i, j \in DOMAIN g_swtmrSortLinkList :
        i < j => g_swtmrSortLinkList[i].left <= g_swtmrSortLinkList[j].left
    /\ ~misused => \A i \in DOMAIN g_swtmrSortLinkList :
        LET node == g_swtmrSortLinkList[i] IN node.left <= Interval(node.timer) * CYCLES

(***************************************************************************)
(* An ID that is accepted is that of a timer created for the caller who    *)
(* has it: the ID of a one-shot timer that has expired and deleted itself  *)
(* is refused, although its block may belong to somebody else by now.      *)
(***************************************************************************)
OwnTimer ==
    \A c \in Callers : \A id \in swtmrId[c] :
        Accepted(id) => creator[id.timer] = c /\ ucState[id.timer] # "UNUSED"

(***************************************************************************)
(* OS_SWTMR_ALIGN_SENSITIVE (los_swtmr.h:225) and one-shot timers are not  *)
(* aligned: whenever one is started, or starts again, all of its interval  *)
(* is ahead, whatever its block was used for before.                       *)
(***************************************************************************)
Left(t) == {g_swtmrSortLinkList[i].left : i \in Nodes(t)}

NeverEarly ==
    [][\A t \in Timers :
          (~misused /\ (setting[t].sensitive \/ Mode(t) # "PERIOD")) =>
              Left(t)' \in {{}, Left(t), {left - 1 : left \in Left(t)},
                            {Interval(t) * CYCLES}}]_swtmrVars

=============================================================================
