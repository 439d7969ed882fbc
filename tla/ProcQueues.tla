------------------------------ MODULE ProcQueues ------------------------------
(***************************************************************************)
(* src/phase1/pcb.c as its callers use it: any sequence of calls that the  *)
(* nucleus, or the test in src/phase1/p1test.c, could make.                *)
(*                                                                         *)
(* The callers' side is the same as in ProcLists: a guard here speaks of   *)
(* the lists that the links stand for.                                     *)
(***************************************************************************)
EXTENDS PcbMemory, Queues

VARIABLES
    mem,      \* the memory: procTable, pcbFree_h and the tail pointers
    queue,    \* what mem stands for: the blocks on each queue, head first,
    kids,     \*   the children of each block
    free,     \*   and the free blocks (Views)
    used,     \* the blocks that were in a tree since they were allocated
    call,     \* the last call
    result    \* what it returned, or NULL

vars == <<mem, queue, kids, free, used, call, result>>

\* The lists that memory m stands for.
Views(m) == [queue |-> [q \in ProcQ |-> QueueAt(m, tail(q))],
             kids |-> [p \in Pcb |-> KidsOf(m, p)],
             free |-> FreeBlocks(m)]

Queued == UNION {Range(queue[q]) : q \in ProcQ}
Kids == UNION {Range(kids[p]) : p \in Pcb}

\* The call c leaves memory m behind.
Leaves(c, m) ==
    /\ call' = c
    /\ mem' = m
    /\ queue' = Views(mem').queue
    /\ kids' = Views(mem').kids
    /\ free' = Views(mem').free

\* The caller sees the returned pointer, or anything where there is none.
Return(c, r) ==
    /\ Leaves(c, r.mem)
    /\ result' \in IF r.ptr = Undefined THEN Pcb \cup {NULL} ELSE {r.ptr}

\* A function of type void.
Done(c, m) == Leaves(c, m) /\ result' = NULL

\* initPcbs(): the free list holds all blocks, whose other fields are zeros
\* that nobody reads before allocPcb() resets them.
Init ==
    \E order \in Orders(Pcb) :
        /\ mem = Stacked([l \in Locations |-> NULL], FreeHead, "p_next", order)
        /\ queue = Views(mem).queue
        /\ kids = Views(mem).kids
        /\ free = Views(mem).free
        /\ used = {}
        /\ call = <<"initPcbs">>
        /\ result = NULL

------------------------------------------------------------------------------
Alloc == Return(<<"allocPcb">>, allocPcb(mem)) /\ UNCHANGED used

Free(p) ==
    /\ p \notin free \cup Queued \cup Kids
    /\ kids[p] = <<>>
    /\ Done(<<"freePcb", p>>, freePcb(mem, p))
    /\ used' = used \ {p}

Insert(q, p) ==
    /\ p \notin free \cup Queued
    /\ Done(<<"insertProcQ", q, p>>, insertProcQ(mem, tail(q), p))
    /\ UNCHANGED used

Remove(q) == Return(<<"removeProcQ", q>>, removeProcQ(mem, tail(q))) /\ UNCHANGED used

HeadOf(q) ==
    /\ call' = <<"headProcQ", q>>
    /\ result' = headProcQ(mem, tail(q))
    /\ UNCHANGED <<mem, queue, kids, free, used>>

Out(q, p) == Return(<<"outProcQ", q, p>>, outProcQ(mem, tail(q), p)) /\ UNCHANGED used

Adopt(par, p) ==
    /\ {par, p} \cap free = {}
    /\ p \notin used
    /\ par \notin Descendants(kids, p)
    /\ Done(<<"insertChild", par, p>>, insertChild(mem, par, p))
    /\ used' = used \cup {p}

RemoveFirst(par) ==
    /\ par \notin free
    /\ Return(<<"removeChild", par>>, removeChild(mem, par))
    /\ UNCHANGED used

OutChild(p) ==
    /\ p \notin free
    /\ p \in Kids \/ p \notin used
    /\ Return(<<"outChild", p>>, outChild(mem, p))
    /\ UNCHANGED used

\* The code gets two calls wrong, outProcQ for the head of a queue and outChild
\* for a middle child (see OutTakesIt, and IsMiddleChild in Queues).  The callers of
\* this module avoid them.
OutOfHead(q, p) == queue[q] # <<>> /\ Head(queue[q]) = p

ListStep == Alloc \/ \E p \in Pcb : Free(p)

QueueStep ==
    \/ \E q \in ProcQ : Remove(q) \/ HeadOf(q)
    \/ \E q \in ProcQ, p \in Pcb : Insert(q, p) \/ (~ OutOfHead(q, p) /\ Out(q, p))

TreeStep ==
    \/ \E p \in Pcb : RemoveFirst(p) \/ (~ IsMiddleChild(kids, p) /\ OutChild(p))
    \/ \E par, p \in Pcb : Adopt(par, p)

Next == ListStep \/ QueueStep \/ TreeStep

Spec == Init /\ [][Next]_vars

------------------------------------------------------------------------------
\* Type correctness: the links of a queue always lead back to its tail, those
\* of the other lists end, and no function leaves the blocks.
TypeOK ==
    /\ mem \in [Locations -> Pcb \cup {NULL}]
    /\ queue \in [ProcQ -> Seq(Pcb)]
    /\ kids \in [Pcb -> Seq(Pcb)]
    /\ free \in SUBSET Pcb
    /\ used \in SUBSET Pcb
    /\ result \in Pcb \cup {NULL}

\* Both directions of every queue and every list of children agree, and a child
\* points to the parent that lists it: what is walked one way is unlinked the
\* other way.
LinksAgree ==
    /\ \A q \in ProcQ : \A i \in DOMAIN queue[q] :
          mem[prev(mem[next(queue[q][i])])] = queue[q][i]
    /\ \A p \in Pcb \ free : \A i \in DOMAIN kids[p] :
          /\ mem[parent(kids[p][i])] = p
          /\ mem[prevSib(kids[p][i])] = IF i = 1 THEN NULL ELSE kids[p][i - 1]

\* The links stand for lists, and the functions do to them what ProcLists says.
Lists == INSTANCE ProcLists

ImplementsLists == Lists!Spec

\* outProcQ, called now, would take the block it is asked for out of its queue,
\* and no other, and return it.
OutTakesIt ==
    \A q \in ProcQ : \A p \in Range(queue[q]) :
        LET r == outProcQ(mem, tail(q), p) IN
        r.ptr = p /\ QueueAt(r.mem, tail(q)) = Without(queue[q], {p})
===============================================================================
