SPECIFICATION MCSpec
CONSTANTS
    Pcb = {p1, p2, p3, p4}
    NULL = NULL
    ProcQ = {qa, qb}
INVARIANTS
    TypeOK
    LinksAgree
PROPERTY
    ImplementsLists
SYMMETRY BlockSymmetry
