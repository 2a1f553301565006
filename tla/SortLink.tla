------------------------------ MODULE SortLink ------------------------------
(***************************************************************************)
(* The sorted lists of los_sortlink.c, one of timed waits and one of       *)
(* software timers: nodes that have the cycles left until they are due,    *)
(* soonest first.                                                          *)
(***************************************************************************)
EXTENDS Integers, Sequences, SequencesExt

\* Mutant: every node at the end.
LinkedAtTail(link, node) == Append(link, node)

\* OsAddNode2SortLink: a node as late as the first goes right behind it, any
\* other behind all that are not later.
Linked(link, node) ==
    LET behind ==
            IF link = <<>> \/ Head(link).left > node.left THEN 0
            ELSE IF Head(link).left = node.left THEN 1
            ELSE Max({i \in DOMAIN link : link[i].left <= node.left})
    IN  InsertAt(link, behind + 1, node)

=============================================================================
