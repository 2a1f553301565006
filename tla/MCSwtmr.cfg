SPECIFICATION SwtmrSpec
CONSTANTS
    LIMIT = 3  CYCLES = 2  DIVISOR = 1
    Settings <- SomeSettings
    Callers = {c1, c2, c3}  NoCaller = NoCaller
    MaxLap = 1  MaxLate = 1
INVARIANTS TimersAgree OwnTimer
PROPERTIES NeverEarly
SYMMETRY CallerSymmetry
CHECK_DEADLOCK FALSE
