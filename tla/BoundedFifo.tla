----------------------------- MODULE BoundedFifo -----------------------------
(***************************************************************************)
(* What a message queue promises: a sequence of at most Size messages,     *)
(* written at the end or, out of turn, at the front, and read at the       *)
(* front.  Deleting the queue drops what is in it.                         *)
(***************************************************************************)
EXTENDS Naturals, Sequences

CONSTANTS Msgs, Size, NoMsg

VARIABLES
    items,   \* the messages
    out      \* what the last read returned

FifoInit == items = <<>> /\ out = NoMsg

PutTail(m) == Len(items) < Size /\ items' = Append(items, m) /\ UNCHANGED out

PutHead(m) == Len(items) < Size /\ items' = <<m>> \o items /\ UNCHANGED out

Get == items # <<>> /\ out' = Head(items) /\ items' = Tail(items)

Drop == items' = <<>> /\ UNCHANGED out

FifoNext ==
    \/ \E m \in Msgs : PutTail(m) \/ PutHead(m)
    \/ Get
    \/ Drop

FifoSpec == FifoInit /\ [][FifoNext]_<<items, out>>

=============================================================================
