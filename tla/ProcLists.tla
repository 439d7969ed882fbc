------------------------------ MODULE ProcLists ------------------------------
(***************************************************************************)
(* What src/phase1/pcb.c promises: a set of free blocks, queues of blocks  *)
(* and lists of children, which each function changes in one place, and    *)
(* the pointer each function returns.                                      *)
(***************************************************************************)
EXTENDS Sequences, FiniteSets, Queues

CONSTANTS Pcb, NULL, ProcQ

VARIABLES
    free,     \* the free blocks
    queue,    \* the blocks on each queue, head first
    kids,     \* the children of each block, the youngest first
    used,     \* the blocks that were in a tree since they were allocated
    call,     \* the last call
    result    \* what it returned, or NULL

vars == <<free, queue, kids, used, call, result>>

Queued == UNION {Range(queue[q]) : q \in ProcQ}
Kids == UNION {Range(kids[p]) : p \in Pcb}

Init ==
    /\ free = Pcb
    /\ queue = [q \in ProcQ |-> <<>>]
    /\ kids = [p \in Pcb |-> <<>>]
    /\ used = {}
    /\ call = <<"initPcbs">>
    /\ result = NULL

------------------------------------------------------------------------------
Alloc ==
    /\ call' = <<"allocPcb">>
    /\ IF free = {} THEN result' = NULL /\ UNCHANGED free
       ELSE result' \in free /\ free' = free \ {result'}
    /\ UNCHANGED <<queue, kids, used>>

\* The caller gives back a block that is in no queue and in no tree.
Free(p) ==
    /\ p \notin free \cup Queued \cup Kids
    /\ kids[p] = <<>>
    /\ call' = <<"freePcb", p>>
    /\ result' = NULL
    /\ free' = free \cup {p}
    /\ used' = used \ {p}
    /\ UNCHANGED <<queue, kids>>

Insert(q, p) ==
    /\ p \notin free \cup Queued
    /\ call' = <<"insertProcQ", q, p>>
    /\ result' = NULL
    /\ queue' = [queue EXCEPT ![q] = Append(@, p)]
    /\ UNCHANGED <<free, kids, used>>

Remove(q) ==
    /\ call' = <<"removeProcQ", q>>
    /\ \/ queue[q] = <<>> /\ result' = NULL /\ UNCHANGED queue
       \/ /\ queue[q] # <<>>
          /\ result' = Head(queue[q])
          /\ queue' = [queue EXCEPT ![q] = Tail(@)]
    /\ UNCHANGED <<free, kids, used>>

HeadOf(q) ==
    /\ call' = <<"headProcQ", q>>
    /\ result' = IF queue[q] = <<>> THEN NULL ELSE Head(queue[q])
    /\ UNCHANGED <<free, queue, kids, used>>

Out(q, p) ==
    /\ call' = <<"outProcQ", q, p>>
    /\ result' = IF p \in Range(queue[q]) THEN p ELSE NULL
    /\ queue' = [queue EXCEPT ![q] = Without(@, {p})]
    /\ UNCHANGED <<free, kids, used>>

\* The caller makes a child only of a block that comes from Alloc and has had
\* no parent since, and no ancestor of the new parent.
Adopt(par, p) ==
    /\ {par, p} \cap free = {}
    /\ p \notin used
    /\ par \notin Descendants(kids, p)
    /\ call' = <<"insertChild", par, p>>
    /\ result' = NULL
    /\ kids' = [kids EXCEPT ![par] = <<p>> \o @]
    /\ used' = used \cup {p}
    /\ UNCHANGED <<free, queue>>

RemoveFirst(par) ==
    /\ par \notin free
    /\ call' = <<"removeChild", par>>
    /\ \/ kids[par] = <<>> /\ result' = NULL /\ UNCHANGED kids
       \/ /\ kids[par] # <<>>
          /\ result' = Head(kids[par])
          /\ kids' = [kids EXCEPT ![par] = Tail(@)]
    /\ UNCHANGED <<free, queue, used>>

\* The caller asks for a block that is a child or never was one.
OutChild(p) ==
    /\ p \notin free
    /\ p \in Kids \/ p \notin used
    /\ call' = <<"outChild", p>>
    /\ result' = IF p \in Kids THEN p ELSE NULL
    /\ kids' = [par \in Pcb |-> Without(kids[par], {p})]
    /\ UNCHANGED <<free, queue, used>>

Next ==
    \/ Alloc
    \/ \E p \in Pcb : Free(p) \/ RemoveFirst(p) \/ OutChild(p)
    \/ \E q \in ProcQ : Remove(q) \/ HeadOf(q)
    \/ \E q \in ProcQ, p \in Pcb : Insert(q, p) \/ Out(q, p)
    \/ \E par, p \in Pcb : Adopt(par, p)

Spec == Init /\ [][Next]_vars
==============================================================================
