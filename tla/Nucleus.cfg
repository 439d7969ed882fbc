\* More semaphores than blocks, and blocks that are used again.
SPECIFICATION FairSpec
CONSTANTS
    Pcb = {p1, p2, p3}
    RootPcb = p1
    NULL = NULL
    Mutex = {m1, m2}
    Device = {d1}
    Clock = Clock
    TrapTypes = {PROG}
    MaxSem = 1
    MaxDebt = 2
INVARIANTS
    TypeOK
    NoProcessLost
    CountsAgree
    SemaphoresAgree
    VerdictIsRight
    OneTree
PROPERTIES
    VectorsLastALifetime
    ImplementsLifecycle
    ReadyRuns
CHECK_DEADLOCK FALSE
