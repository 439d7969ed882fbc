SPECIFICATION MCSpec
CONSTANTS
    Pcb = {p1, p2, p3}
    NULL = NULL
    ProcQ = {qa}
INVARIANT
    OutTakesIt
