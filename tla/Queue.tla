-------------------------------- MODULE Queue --------------------------------
(***************************************************************************)
(* LiteOS-M message queues (los_queue.c): a ring of message slots, and two *)
(* counters that say how many messages and how many free slots nobody has  *)
(* claimed.  Whoever completes an operation gives the other side one more, *)
(* directly to its first waiting task if there is one: that task has then  *)
(* claimed a message or a slot that the counters no longer show, and uses  *)
(* it when it gets the processor.  A message is one value, written whole   *)
(* or as a pointer.                                                        *)
(***************************************************************************)
EXTENDS Processor

CONSTANTS
    Msgs,             \* messages
    NoMsg,            \* nothing read yet
    queueLen          \* slots of the ring

\* LOS_QueueCreate refuses a length of 0.
ASSUME QueueAssumption == queueLen \in Nat \ {0}

Sides == {"read", "write"}

\* The operations: LOS_QueueRead, LOS_QueueWrite and LOS_QueueWriteHead.
Operations == {[side |-> "read", at |-> "head", msg |-> NoMsg]} \cup
              [side : {"write"}, at : {"head", "tail"}, msg : Msgs]

OtherSide(side) == IF side = "read" THEN "write" ELSE "read"

VARIABLES
    queueState,       \* the control block is in use
    queueHead, queueTail,
    queue,            \* the slots
    readWriteableCnt, \* messages and free slots nobody has claimed
    readWriteList,    \* the tasks that wait on either side, first come first
    queuePending,     \* the operation a task waits with, as a set
    queueExpired,     \* waiting tasks that were timed out
    lastRead          \* history: what the last read returned

ringVars == <<queueHead, queueTail, queue, lastRead>>
queueVars == <<queueState, ringVars, readWriteableCnt, readWriteList, queuePending,
               queueExpired>>

QueueInit ==
    /\ queueState = FALSE
    /\ queueHead = 0 /\ queueTail = 0
    /\ queue = [i \in 0 .. queueLen - 1 |-> NoMsg]
    /\ readWriteableCnt = [s \in Sides |-> 0]
    /\ readWriteList = [s \in Sides |-> <<>>]
    /\ queuePending = [t \in Tasks |-> {}]
    /\ queueExpired = {}
    /\ lastRead = NoMsg

-----------------------------------------------------------------------------
\* LOS_QueueCreate
LOS_QueueCreate ==
    /\ InTask /\ ~queueState
    /\ queueState' = TRUE
    /\ queueHead' = 0 /\ queueTail' = 0
    /\ readWriteableCnt' = [s \in Sides |-> IF s = "write" THEN queueLen ELSE 0]
    /\ readWriteList' = [s \in Sides |-> <<>>]
    /\ UNCHANGED <<procVars, queue, lastRead, queuePending, queueExpired>>

\* Mutant: only the tasks on the lists are looked at.
LOS_QueueDeleteListed ==
    /\ InTask /\ queueState
    /\ \A s \in Sides : readWriteList[s] = <<>>
    /\ queueState' = FALSE
    /\ UNCHANGED <<procVars, ringVars, readWriteableCnt, readWriteList, queuePending,
                   queueExpired>>

\* LOS_QueueDelete: refused while a task waits or has claimed something.
LOS_QueueDelete ==
    /\ InTask /\ queueState
    /\ \A s \in Sides : readWriteList[s] = <<>>
    /\ readWriteableCnt["read"] + readWriteableCnt["write"] = queueLen
    /\ queueState' = FALSE
    /\ UNCHANGED <<procVars, ringVars, readWriteableCnt, readWriteList, queuePending,
                   queueExpired>>

After(position) == IF position + 1 = queueLen THEN 0 ELSE position + 1
Before(position) == IF position = 0 THEN queueLen - 1 ELSE position - 1

\* Mutant: a message written at the head goes to the slot the head leaves.
BufferOperateLate(op) ==
    CASE op.side = "read" ->
            /\ lastRead' = queue[queueHead]
            /\ queueHead' = After(queueHead)
            /\ UNCHANGED <<queueTail, queue>>
      [] op.side = "write" /\ op.at = "head" ->
            /\ queueHead' = Before(queueHead)
            /\ queue' = [queue EXCEPT ![queueHead] = op.msg]
            /\ UNCHANGED <<queueTail, lastRead>>
      [] op.side = "write" /\ op.at = "tail" ->
            /\ queue' = [queue EXCEPT ![queueTail] = op.msg]
            /\ queueTail' = After(queueTail)
            /\ UNCHANGED <<queueHead, lastRead>>

\* OsQueueBufferOperate
BufferOperate(op) ==
    CASE op.side = "read" ->
            /\ lastRead' = queue[queueHead]
            /\ queueHead' = After(queueHead)
            /\ UNCHANGED <<queueTail, queue>>
      [] op.side = "write" /\ op.at = "head" ->
            /\ queueHead' = Before(queueHead)
            /\ queue' = [queue EXCEPT ![queueHead'] = op.msg]
            /\ UNCHANGED <<queueTail, lastRead>>
      [] op.side = "write" /\ op.at = "tail" ->
            /\ queue' = [queue EXCEPT ![queueTail] = op.msg]
            /\ queueTail' = After(queueTail)
            /\ UNCHANGED <<queueHead, lastRead>>

\* The other side has one more, by its first waiting task or by its counter.
GiveOther(side, counts, inHandler) ==
    LET other == OtherSide(side) IN
    IF readWriteList[other] # <<>>
    THEN /\ Wake({Head(readWriteList[other])})
         /\ readWriteList' = [readWriteList EXCEPT ![other] = Tail(@)]
         /\ readWriteableCnt' = counts
         /\ Reschedule(inHandler)
    ELSE /\ readWriteableCnt' = [counts EXCEPT ![other] = @ + 1]
         /\ UNCHANGED <<waiting, timed, resched, readWriteList>>

(***************************************************************************)
(* OsQueueOperate that finds what it needs.  A handler may not ask to      *)
(* wait (OsQueueReadParameterCheck, OsQueueWriteParameterCheck).           *)
(***************************************************************************)
QueueOperateAtOnce(op, inHandler) ==
    /\ inHandler \/ InTask
    /\ queueState
    /\ readWriteableCnt[op.side] > 0
    /\ BufferOperate(op)
    /\ GiveOther(op.side, [readWriteableCnt EXCEPT ![op.side] = @ - 1], inHandler)
    /\ UNCHANGED <<suspended, prio, running, lockDepth, queueState, queuePending, queueExpired>>

\* OsQueueOperate that has to wait; with LOS_NO_WAIT, or locked, it returns.
QueueOperateWaits(op, limited) ==
    /\ InTask /\ queueState
    /\ readWriteableCnt[op.side] = 0
    /\ lockDepth = 0
    /\ readWriteList' = [readWriteList EXCEPT ![op.side] = Append(@, running)]
    /\ queuePending' = [queuePending EXCEPT ![running] = {op}]
    /\ Wait(limited)
    /\ UNCHANGED <<suspended, prio, running, lockDepth, queueState, ringVars,
                   readWriteableCnt, queueExpired>>

\* The rest of it: time-out, or the operation on what was claimed for it.
QueueOperateReturns ==
    /\ InTask /\ queuePending[running] # {}
    /\ queuePending' = [queuePending EXCEPT ![running] = {}]
    /\ queueExpired' = queueExpired \ {running}
    /\ IF running \in queueExpired
       THEN UNCHANGED <<waiting, timed, resched, ringVars, readWriteableCnt, readWriteList>>
       ELSE \E op \in queuePending[running] :
                /\ BufferOperate(op)
                /\ GiveOther(op.side, readWriteableCnt, FALSE)
    /\ UNCHANGED <<suspended, prio, running, lockDepth, queueState>>

QueueElapse(ts) ==
    /\ readWriteList' = [s \in Sides |-> Leave(readWriteList[s], ts)]
    /\ queueExpired' = queueExpired \cup {t \in ts : queuePending[t] # {}}
    /\ UNCHANGED <<queueState, ringVars, readWriteableCnt, queuePending>>

QueueCall ==
    \/ LOS_QueueCreate
    \/ LOS_QueueDelete
    \/ \E op \in Operations : QueueOperateAtOnce(op, FALSE)
    \/ \E op \in Operations, limited \in BOOLEAN : QueueOperateWaits(op, limited)

-----------------------------------------------------------------------------
\* Tasks that were woken on a side and have not used what they claimed.
Claimed(side) ==
    {t \in Tasks : /\ \E op \in queuePending[t] : op.side = side
                   /\ t \notin queueExpired
                   /\ ~Contains(readWriteList[side], t)}

(***************************************************************************)
(* Every slot is accounted for: free, full, or claimed by one woken task.  *)
(* A side with something left in its counter has nobody waiting.  And no   *)
(* task is left with a claim on a queue that was deleted under it.         *)
(***************************************************************************)
SlotsAccounted ==
    /\ queueState =>
        /\ readWriteableCnt["read"] + readWriteableCnt["write"]
           + Cardinality(Claimed("read") \cup Claimed("write")) = queueLen
        /\ \A s \in Sides : readWriteList[s] # <<>> => readWriteableCnt[s] = 0
    /\ ~queueState => \A s \in Sides : readWriteList[s] = <<>> /\ Claimed(s) = {}

(***************************************************************************)
(* The ring, its counters and the claims of woken tasks implement a        *)
(* bounded first-in first-out queue: every read, at once or after a wait,  *)
(* returns the message at the front, and none is lost or overwritten.      *)
(***************************************************************************)
Stored == IF queueState THEN readWriteableCnt["read"] + Cardinality(Claimed("read")) ELSE 0

\* The slot of the i-th message from the front.
Slot(i) == IF queueHead + i - 1 < queueLen
           THEN queueHead + i - 1
           ELSE queueHead + i - 1 - queueLen

Messages == [i \in 1 .. Stored |-> queue[Slot(i)]]

Fifo == INSTANCE BoundedFifo WITH
            Size <- queueLen,
            items <- Messages,
            out <- lastRead

ImplementsFifo == Fifo!FifoSpec

=============================================================================
