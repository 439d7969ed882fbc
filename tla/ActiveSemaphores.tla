--------------------------- MODULE ActiveSemaphores ---------------------------
(***************************************************************************)
(* The active semaphore list of src/phase1/asl.c: what any sequence of     *)
(* calls of its functions leaves in memory and returns.                    *)
(***************************************************************************)
EXTENDS AslMemory

VARIABLES
    mem,      \* the memory: procTable, semdTable and the heads of the lists
    semQ,     \* what mem stands for: the queue of each semaphore (QueuesIn)
    call,     \* the last call
    result    \* what it returned

vars == <<mem, semQ, call, result>>

Waiting == UNION {Range(semQ[s]) : s \in SemAdd}

\* initASL(), after all blocks have been allocated.
Init ==
    /\ \E order \in Orders(SemdPool) :
          mem = InitASL([l \in AslLocations |-> NULL], order)
    /\ semQ = QueuesIn(mem)
    /\ call = <<"initASL">>
    /\ result = NULL

Return(c, r) ==
    /\ call' = c
    /\ mem' = r.mem
    /\ semQ' = QueuesIn(mem')
    /\ result' = r.ptr

\* The callers hand over a block that waits nowhere.
Insert(s, p) ==
    /\ p \notin Waiting
    /\ Return(<<"insertBlocked", s, p>>, insertBlocked(mem, s, p))

Remove(s) == Return(<<"removeBlocked", s>>, removeBlocked(mem, s))

\* The callers do not ask for the first block of a queue, for which outProcQ
\* goes wrong (see OutTakesIt in ProcQueues).
Out(p) ==
    /\ \A s \in SemAdd : semQ[s] # <<>> => Head(semQ[s]) # p
    /\ Return(<<"outBlocked", p>>, outBlocked(mem, p))

HeadOf(s) ==
    /\ call' = <<"headBlocked", s>>
    /\ result' = headBlocked(mem, s)
    /\ UNCHANGED <<mem, semQ>>

Next ==
    \/ \E s \in SemAdd : Remove(s) \/ HeadOf(s)
    \/ \E p \in Pcb : Out(p)
    \/ \E s \in SemAdd, p \in Pcb : Insert(s, p)

Spec == Init /\ [][Next]_vars

------------------------------------------------------------------------------
\* Type correctness: every location holds what belongs there, a descriptor a queue,
\* and no function reads through a null pointer.
TypeOK ==
    /\ semQ \in [SemAdd -> Seq(Pcb)]
    /\ DOMAIN mem = AslLocations
    /\ \A l \in Locations \ (Fields \X Pcb) : mem[l] \in Pcb \cup {NULL}
    /\ \A p \in Pcb : mem[p_semAdd(p)] \in SemAdd \cup {NULL}
    /\ \A d \in Descriptors : /\ mem[s_next(d)] \in Descriptors \cup {NULL}
                        /\ mem[s_semAdd(d)] \in 0 .. MAXINT \cup {NULL}
    /\ result \in Pcb \cup {NULL, 0, 1}

\* No descriptor is lost: each is on the free list or between the dummies, and
\* those there are sorted by address and have somebody who waits.
DescriptorsKept ==
    LET list == ActiveList(mem)
        unused == FreeSemd(mem)
        n == Len(list)
    IN  /\ n + Len(unused) = Cardinality(Descriptors)
        /\ Range(list) \cup Range(unused) = Descriptors
        /\ \A i \in 2 .. n : mem[s_semAdd(list[i - 1])] < mem[s_semAdd(list[i])]
        /\ \A i \in 2 .. n - 1 : mem[s_procQ(list[i])] # NULL
        /\ list[1] = FirstDummy /\ list[n] = LastDummy

\* p_semAdd says where a block waits, which killEverything decides by.
MarksAgree ==
    \A p \in Pcb : \A s \in SemAdd : mem[p_semAdd(p)] = s <=> p \in Range(semQ[s])

\* The list stands for a queue per semaphore, and the functions do to it what
\* WaitLists says.
Lists == INSTANCE WaitLists WITH MaxSemd <- Cardinality(SemdPool)

ImplementsWaitLists == Lists!Spec
===============================================================================
