SPECIFICATION IpcSpec
CONSTANTS
    a = a  b = b  c = c
    Tasks = {a, b, c}  Idle = Idle  NoTask = NoTask
    Priorities = {0, 1, 2}  InitPriority <- Descending
    MaxLock = 1  Calls = {"lock", "isr_suspend", "isr_resume"}
    Suspendable = {a, b}  Kinds = {"mux"}
    SemCounts = {0, 1}  maxSemCount = 2
    Muxes = {m1}  MaxNest = 2
    Msgs = {x, y}  NoMsg = NoMsg  queueLen = 2
INVARIANTS OwnerInherits
SYMMETRY MsgSymmetry
CHECK_DEADLOCK FALSE
