------------------------------ MODULE PcbMemory ------------------------------
(***************************************************************************)
(* The functions of src/phase1/pcb.c on the memory they work in.           *)
(*                                                                         *)
(* A memory m gives a value to every location: next(p), parent(p), ... are *)
(* the fields of the block p, tail(q) is the tail pointer of the process   *)
(* queue q and FreeHead is pcbFree_h.  A function that changes memory is   *)
(* an operator that returns the memory after it and the pointer it         *)
(* returns.  A parameter pcb_PTR *tp is a location.  That makes the call   *)
(* of removeProcQ with *tp in outProcQ, a block where a location is        *)
(* expected, what it is to the compiled code: a call with the location of  *)
(* the first field of the block, p_next.                                   *)
(*                                                                         *)
(* A definition marked SLIP is a mistake the code could have made and does *)
(* not make.                                                               *)
(***************************************************************************)
EXTENDS Integers, Sequences, FiniteSets

CONSTANTS
    Pcb,     \* the blocks of procTable
    NULL,    \* the null pointer
    ProcQ    \* the variables that hold the tail of a process queue

next(p) == <<"p_next", p>>
prev(p) == <<"p_prev", p>>
parent(p) == <<"p_parent", p>>
child(p) == <<"p_child", p>>
nextSib(p) == <<"p_nextSib", p>>
prevSib(p) == <<"p_prevSib", p>>
p_semAdd(p) == <<"p_semAdd", p>>
tail(q) == <<"tail", q>>
FreeHead == <<"pcbFree_h", NULL>>

Fields == {"p_next", "p_prev", "p_parent", "p_child", "p_nextSib", "p_prevSib",
           "p_semAdd"}

Locations == (Fields \X Pcb) \cup {tail(q) : q \in ProcQ} \cup {FreeHead}

Returns(m, p) == [mem |-> m, ptr |-> p]

\* The value a function returns where the code has no return statement.
Undefined == "undefined"

ASSUME BlockAssumption == /\ IsFiniteSet(Pcb) /\ Pcb # {} /\ NULL \notin Pcb
                          /\ Undefined \notin Pcb \cup {NULL}

------------------------------------------------------------------------------
(* The free list. *)

freePcb(m, p) == [m EXCEPT ![next(p)] = m[FreeHead], ![FreeHead] = p]

\* SLIP: only the links of the queue are reset.
AllocStale(m) ==
    LET p == m[FreeHead] IN
    IF p = NULL THEN Returns(m, NULL)
    ELSE Returns([m EXCEPT ![FreeHead] = m[next(p)], ![next(p)] = NULL, ![prev(p)] = NULL], p)

\* A block leaves the free list with all its links reset.
allocPcb(m) ==
    LET p == m[FreeHead]
        popped == [m EXCEPT ![FreeHead] = m[next(p)]]
    IN  IF p = NULL THEN Returns(m, NULL)
        ELSE Returns([l \in DOMAIN m |->
                        IF l \in Fields \X {p} THEN NULL ELSE popped[l]], p)

------------------------------------------------------------------------------
(* Process queues: circular, doubly linked, known by their tail. *)

\* SLIP: the head does not learn of its new predecessor.
InsertHalf(m, tp, p) ==
    IF m[tp] = NULL
    THEN [m EXCEPT ![next(p)] = p, ![prev(p)] = p, ![tp] = p]
    ELSE [m EXCEPT ![next(p)] = m[next(m[tp])],
                   ![next(m[tp])] = p,
                   ![prev(p)] = m[tp],
                   ![tp] = p]

insertProcQ(m, tp, p) ==
    IF m[tp] = NULL
    THEN [m EXCEPT ![next(p)] = p, ![prev(p)] = p, ![tp] = p]
    ELSE [m EXCEPT ![next(p)] = m[next(m[tp])],
                   ![next(m[tp])] = p,
                   ![prev(p)] = m[tp],
                   ![prev(m[next(m[tp])])] = p,
                   ![tp] = p]

removeProcQ(m, tp) ==
    LET last == m[tp]
        head == m[next(last)]
    IN  IF last = NULL THEN Returns(m, NULL)
        ELSE IF head = last THEN Returns([m EXCEPT ![tp] = NULL], last)
        ELSE Returns([m EXCEPT ![prev(m[next(head)])] = last,
                               ![next(last)] = m[next(head)]], head)

headProcQ(m, tp) == IF m[tp] = NULL THEN NULL ELSE m[next(m[tp])]

\* What is met from p on along the links of one field, p first: a list of all
\* blocks ends within this length.
Chase(m, field, p) ==
    LET met[i \in 0 .. Cardinality(Pcb) + 2] ==
          IF i = 0 THEN p
          ELSE LET before == met[i - 1] IN
               IF before = NULL THEN NULL ELSE m[<<field, before>>]
    IN  met

\* The search loop of outProcQ finds p between the head and the tail.
InTheMiddle(m, tp, p) ==
    LET met == Chase(m, "p_next", m[tp]) IN
    \E i \in 2 .. Cardinality(Pcb) : met[i] = p /\ \A j \in 2 .. i : met[j] # m[tp]

\* p is unlinked from its neighbours in a queue.
Unlinked(m, p) ==
    [m EXCEPT ![next(m[prev(p)])] = m[next(p)], ![prev(m[next(p)])] = m[prev(p)]]

\* SLIP: when the last block is taken the tail pointer still points to it.
OutKeepsTail(m, tp, p) ==
    LET last == m[tp] IN
    IF last = NULL THEN Returns(m, NULL)
    ELSE IF m[next(last)] = p THEN removeProcQ(m, next(last))
    ELSE IF last = p THEN Returns(Unlinked(m, p), p)
    ELSE IF InTheMiddle(m, tp, p) THEN Returns(Unlinked(m, p), p)
    ELSE Returns(m, NULL)

\* Where p is the head, removeProcQ is called with the tail block itself
\* instead of the location of the tail pointer.
outProcQ(m, tp, p) ==
    LET last == m[tp] IN
    IF last = NULL THEN Returns(m, NULL)
    ELSE IF m[next(last)] = p THEN removeProcQ(m, next(last))
    ELSE IF last = p
         THEN Returns([Unlinked(m, p) EXCEPT ![tp] = m[prev(p)]], p)
    ELSE IF InTheMiddle(m, tp, p) THEN Returns(Unlinked(m, p), p)
    ELSE Returns(m, NULL)

------------------------------------------------------------------------------
(* Process trees: the children of a block are a doubly linked list. *)

emptyChild(m, p) == m[child(p)] = NULL

insertChild(m, par, p) ==
    IF emptyChild(m, par)
    THEN [m EXCEPT ![child(par)] = p, ![parent(p)] = par]
    ELSE [m EXCEPT ![prevSib(m[child(par)])] = p,
                   ![parent(p)] = par,
                   ![nextSib(p)] = m[child(par)],
                   ![child(par)] = p]

\* A child that has siblings keeps its links.
removeChild(m, par) ==
    LET p == m[child(par)] IN
    IF emptyChild(m, par) THEN Returns(m, NULL)
    ELSE IF m[nextSib(p)] = NULL
    THEN Returns([m EXCEPT ![parent(p)] = NULL, ![child(par)] = NULL,
                           ![nextSib(p)] = NULL, ![prevSib(p)] = NULL], p)
    ELSE Returns([m EXCEPT ![child(par)] = m[nextSib(p)],
                           ![prevSib(m[nextSib(p)])] = NULL], p)

\* The last test asks for p_prevSib = NULL where a child has siblings on both
\* sides: such a child stays where it is and the function returns no value.
outChild(m, p) ==
    IF m[parent(p)] = NULL THEN Returns(m, NULL)
    ELSE IF m[child(m[parent(p)])] = p THEN removeChild(m, m[parent(p)])
    ELSE IF m[nextSib(p)] = NULL
    THEN Returns([m EXCEPT ![nextSib(m[prevSib(p)])] = NULL,
                           ![prevSib(p)] = NULL, ![parent(p)] = NULL], p)
    ELSE Returns(m, Undefined)

------------------------------------------------------------------------------
(* What the links stand for. *)

\* The number of links that are followed to meet stop, or 0.
UpTo(met, stop) ==
    IF \E n \in DOMAIN met \ {0} : met[n] = stop
    THEN CHOOSE n \in DOMAIN met \ {0} :
             met[n] = stop /\ \A i \in 1 .. n - 1 : met[i] # stop
    ELSE 0

\* What is found where the links of a queue do not lead back to its tail.
NoQueue == <<NULL>>

\* The queue behind the tail pointer tp, head first.
QueueAt(m, tp) ==
    LET met == Chase(m, "p_next", m[tp])
        length == UpTo(met, m[tp])
    IN  IF m[tp] = NULL THEN <<>>
        ELSE IF length = 0 THEN NoQueue
        ELSE [i \in 1 .. length |-> met[i]]

\* A list that ends in NULL and starts with p.
ListFrom(m, field, p) ==
    IF p = NULL THEN <<>>
    ELSE LET met == Chase(m, field, p) IN
         [i \in 1 .. UpTo(met, NULL) |-> met[i - 1]]

\* The memory m with a list of these things, in this order, behind head.
Stacked(m, head, field, order) ==
    LET n == Len(order)
        At(l) == CHOOSE i \in 1 .. n : l = <<field, order[i]>>
    IN  [l \in DOMAIN m |->
            IF l = head THEN order[1]
            ELSE IF \E i \in 1 .. n - 1 : l = <<field, order[i]>>
            THEN order[At(l) + 1]
            ELSE m[l]]

Orders(S) == {o \in [1 .. Cardinality(S) -> S] : \A x \in S : \E i \in DOMAIN o : o[i] = x}

KidsOf(m, par) == ListFrom(m, "p_nextSib", m[child(par)])

FreeBlocks(m) ==
    LET list == ListFrom(m, "p_next", m[FreeHead]) IN {list[i] : i \in DOMAIN list}
==============================================================================
