SPECIFICATION Spec
CONSTANTS
    Pcb = {p1, p2, p3, p4}
    RootPcb = p1
    NULL = NULL
    SemdPool = {sd1, sd2, sd3}
    FirstDummy = first
    LastDummy = last
    ReadyQ = readyQ
    ProcQ = {sd1, sd2, sd3, first, last, readyQ}
    SemAdd = {1, 2, 3}
    MAXINT = 4
    Mutex = {1}
    Device = {2}
    Clock = 3
    MaxSem = 0
    MaxDebt = 1
INVARIANT
    TypeOK
ACTION_CONSTRAINT TimerMatters
SYMMETRY BlockSymmetry
PROPERTY
    ImplementsNucleus
    KillsOneSubtree
CHECK_DEADLOCK FALSE
