SPECIFICATION FairSpec
CONSTANTS
    a = a  b = b
    Tasks = {a, b}  Idle = Idle
    Priorities = {0, 1}  InitPriority <- OneStronger
    Delays = {1, 3}  SLICE = 2  RESPONSE_MAX = 4  MaxLock = 1
    Calls = {"delay", "yield", "lock", "priority", "suspend", "resume", "isr_suspend", "isr_resume"}
INVARIANTS ListsAgree StrongestRuns TimersOnTime
PROPERTIES DelayEnds ImplementsProcessor
