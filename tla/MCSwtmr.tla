------------------------------ MODULE MCSwtmr ------------------------------
(* Instances of the software timers.                                       *)
EXTENDS Swtmr

\* Nothing depends on which caller is which.
CallerSymmetry == Permutations(Callers)

Kind(mode, interval, sensitive) ==
    [mode |-> mode, interval |-> interval, sensitive |-> sensitive]

\* Two intervals that are to be aligned with each other, and two timers that
\* are not to be aligned.
SomeSettings == {Kind("PERIOD", 1, FALSE), Kind("PERIOD", 2, FALSE),
                 Kind("ONCE", 1, FALSE), Kind("NO_SELFDELETE", 1, TRUE)}
=============================================================================
