------------------------------ MODULE MCEvent ------------------------------
(* Instances of the event: reads for any and for all of two bits.          *)
EXTENDS Event

CONSTANTS a, b

OneStronger == [t \in Tasks |-> IF t = a THEN 0 ELSE 1]

Read(mask, mode, timeOut) == [mask |-> mask, mode |-> mode, timeOut |-> timeOut]

\* Any and all of the bits, for a while and for ever.
SomeReads == {Read({1}, {"OR", "CLR"}, FOREVER), Read({1, 2}, {"AND"}, 2),
              Read({1, 2}, {"OR", "CLR"}, 0), Read({1, 2}, {"AND", "CLR"}, FOREVER)}
=============================================================================
