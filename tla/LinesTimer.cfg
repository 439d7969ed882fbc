SPECIFICATION FairLines
CONSTANTS
    Pcb = {p1, p2}
    RootPcb = p1
    NULL = NULL
    disk = disk
    transmitter = transmitter
    receiver = receiver
    Mutex = {m1}
    Device = {disk, transmitter}
    Clock = Clock
    TrapTypes = {}
    MaxSem = 1
    MaxDebt = 2
    Position <- MCPosition
    Receivers = {}
    RootIsQuick = FALSE
PROPERTY
    ClockServed
CHECK_DEADLOCK FALSE
