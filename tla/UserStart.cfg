SPECIFICATION StartSpec
CONSTANTS
    Pcb = {p1, p2, p3}
    RootPcb = p1
    NULL = NULL
    Mutex = {masterSem}
    masterSem = masterSem
    Device = {disk7}
    TapeSem = disk7
    Clock = Clock
    TrapTypes = {"PROGTRAP"}
    MaxSem = 1
    MaxDebt = 3
    MAXUPROC = 2
PROPERTY
    TestEnds
CHECK_DEADLOCK FALSE
