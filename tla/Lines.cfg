SPECIFICATION FairLines
CONSTANTS
    Pcb = {p1, p2, p3}
    RootPcb = p1
    NULL = NULL
    disk = disk
    transmitter = transmitter
    receiver = receiver
    Mutex = {}
    Device = {disk, transmitter}
    Clock = Clock
    TrapTypes = {}
    MaxSem = 1
    MaxDebt = 2
    Position <- MCPosition
    Receivers = {}
    RootIsQuick = TRUE
PROPERTY
    ClockServed
    DeviceServed
CHECK_DEADLOCK FALSE
