SPECIFICATION Spec
CONSTANTS
    Pcb = {p1, p2, p3, p4}
    NULL = NULL
    SemdPool = {sd1, sd2}
    FirstDummy = first
    LastDummy = last
    ProcQ = {sd1, sd2, first, last}
    SemAdd = {1, 2, 3}
    MAXINT = 4
INVARIANTS
    TypeOK
    DescriptorsKept
    MarksAgree
PROPERTY
    ImplementsWaitLists
SYMMETRY BlockSymmetry
