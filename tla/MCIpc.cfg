SPECIFICATION IpcSpec
CONSTANTS
    a = a  b = b  c = c
    Tasks = {a, b, c}  Idle = Idle  NoTask = NoTask
    Priorities = {0, 1, 2}  InitPriority <- Descending
    MaxLock = 1  Calls = {"lock", "isr_suspend", "isr_resume"}
    Suspendable = {a}  Kinds = {"sem", "mux", "queue"}
    SemCounts = {0, 1}  maxSemCount = 2
    Muxes = {m1, m2}  MaxNest = 2
    Msgs = {x, y}  NoMsg = NoMsg  queueLen = 2
INVARIANTS PermitsConserved MutualExclusion PriorityGivenBack SlotsAccounted
PROPERTIES ImplementsFifo
SYMMETRY MsgSymmetry
CHECK_DEADLOCK FALSE
