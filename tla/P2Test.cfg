SPECIFICATION TestSpec
CONSTANTS
    procTable <- MCProcTable
    semdTable <- MCSemdTable
    Pcb <- MCPcb
    RootPcb = "a1"
    NULL = NULL
    SemdPool <- MCSemd
    FirstDummy = "first"
    LastDummy = "last"
    ReadyQ = "readyQ"
    ProcQ <- MCProcQ
    SemAdd <- MCSemAdd
    MAXINT = 16
    Mutex <- MCMutex
    Device = {14}
    Clock = 15
    MaxSem = 5
    MaxDebt = 10
    Address <- MCAddress
    MaxEarly = 2
INVARIANTS
    QuietTestPasses
    PassesUnlessMissed
    OneWriter
CHECK_DEADLOCK FALSE
