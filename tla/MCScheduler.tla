---------------------------- MODULE MCScheduler ----------------------------
(* Instances of the scheduler: two tasks beside the idle task.             *)
EXTENDS Scheduler

CONSTANTS a, b

\* They start with different priorities; LOS_TaskPriSet may make them equal.
OneStronger == [t \in Tasks |-> IF t = a THEN 0 ELSE 1]
=============================================================================
