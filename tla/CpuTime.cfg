SPECIFICATION TimeSpec
CONSTANTS
    Pcb = {p1, p2}
    RootPcb = p1
    NULL = NULL
    Mutex = {m1}
    Device = {}
    Clock = Clock
    TrapTypes = {}
    MaxSem = 1
    MaxDebt = 2
    MaxTime = 5
    MaxHandler = 1
INVARIANTS
    EnoughCpuTime
    ChargedOnce
CHECK_DEADLOCK FALSE
