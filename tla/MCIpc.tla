------------------------------- MODULE MCIpc -------------------------------
(* Instances of the kernel objects: three tasks of three priorities.       *)
EXTENDS Ipc

CONSTANTS a, b, c

\* Nothing depends on which message is which.
MsgSymmetry == Permutations(Msgs)

Descending == [t \in Tasks |-> IF t = a THEN 0 ELSE IF t = b THEN 1 ELSE 2]
=============================================================================
