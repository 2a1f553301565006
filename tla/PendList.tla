------------------------------ MODULE PendList ------------------------------
(***************************************************************************)
(* The lists of waiting tasks.  LOS_ListTailInsert is Append, the first    *)
(* node is Head; LOS_ListDelete takes nodes out of the middle, and the     *)
(* others keep their order.  What is left is described by the positions    *)
(* that stay, rather than by recursion, so that it can be reasoned about.  *)
(***************************************************************************)
EXTENDS Naturals, Sequences, FiniteSets

\* How many of the positions of the set kept are not after position i.
Rank(kept, i) == Cardinality({j \in kept : j <= i})

\* The elements of s at the positions of the set kept, in their order.
KeepAt(s, kept) ==
    [k \in 1 .. Cardinality(kept) |-> s[CHOOSE i \in kept : Rank(kept, i) = k]]

\* The tasks of the list that are in the set ts.
Only(s, ts) == KeepAt(s, {i \in DOMAIN s : s[i] \in ts})

\* The list without the tasks of the set ts.
Leave(s, ts) == KeepAt(s, {i \in DOMAIN s : s[i] \notin ts})

=============================================================================
