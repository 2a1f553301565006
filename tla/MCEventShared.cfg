SPECIFICATION EventSpec
CONSTANTS
    a = a  b = b
    Tasks = {a, b}  Idle = Idle  Readers = {a, b}
    Priorities = {0, 1}  InitPriority <- OneStronger
    Delays = {2}  SLICE = 2  RESPONSE_MAX = 3  MaxLock = 1
    Calls = {"isr_suspend", "resume", "lock"}
    Reads <- SomeReads  Writes = {{1}, {2}}  Keeps = {{2}}
INVARIANTS PendListAgrees NoLostWakeup
PROPERTIES ReadDelivers
