------------------------------ MODULE AslMemory ------------------------------
(***************************************************************************)
(* The functions of src/phase1/asl.c on the memory they work in, with the  *)
(* process queues of PcbMemory in the semaphore descriptors.               *)
(*                                                                         *)
(* The list is sorted by address between two dummy descriptors, of address *)
(* 0 and of address MAXINT.  An address is a number, since the code        *)
(* compares addresses.                                                     *)
(***************************************************************************)
EXTENDS PcbMemory, Queues

CONSTANTS
    SemdPool,    \* the descriptors of semdTable that are not dummies
    FirstDummy,  \* semdTable[MAXPROC]
    LastDummy,   \* semdTable[MAXPROC + 1]
    SemAdd,      \* the addresses of semaphores
    MAXINT       \* an address above all of them

Descriptors == SemdPool \cup {FirstDummy, LastDummy}

ASSUME AddressAssumption == /\ MAXINT \in Nat \ {0} /\ NULL \notin 0 .. MAXINT
                            /\ SemAdd \subseteq 1 .. MAXINT - 1
ASSUME DescriptorAssumption == /\ Descriptors \subseteq ProcQ /\ NULL \notin Descriptors
                               /\ FirstDummy \notin SemdPool
                               /\ LastDummy \notin SemdPool \cup {FirstDummy}
                               /\ SemdPool # {} /\ IsFiniteSet(SemdPool)
                               /\ Cardinality(SemdPool) <= Cardinality(Pcb)

s_next(d) == <<"s_next", d>>
s_semAdd(d) == <<"s_semAdd", d>>
s_procQ(d) == tail(d)
SemdFree == <<"semdFree_h", NULL>>
SemdActive == <<"semdActive_h", NULL>>

------------------------------------------------------------------------------
(* The functions of asl.c. *)

\* The descriptor before the first one whose address is not below a.
search(m, a) ==
    LET key == IF a = NULL THEN MAXINT ELSE a
        met == Chase(m, "s_next", m[SemdActive])
        Stops(i) == \/ met[i + 1] = NULL
                    \/ key <= m[s_semAdd(met[i + 1])]
        i == CHOOSE i \in 0 .. Cardinality(SemdPool) + 1 :
                Stops(i) /\ \A j \in 0 .. i - 1 : ~ Stops(j)
    IN  met[i]

allocSemd(m) ==
    LET d == m[SemdFree] IN
    IF d = NULL THEN Returns(m, NULL)
    ELSE Returns([m EXCEPT ![SemdFree] = m[s_next(d)], ![s_next(d)] = NULL,
                           ![s_semAdd(d)] = NULL, ![s_procQ(d)] = NULL], d)

\* free() of asl.c.
freeSemd(m, d) == [m EXCEPT ![s_next(d)] = m[SemdFree], ![SemdFree] = d]

\* SLIP: the new descriptor goes to the front of the list.
InsertInFront(m, a, p) ==
    LET found == search(m, a)
        old == m[s_next(found)]
        new == allocSemd(m)
        d == new.ptr
        linked == [new.mem EXCEPT ![s_next(d)] = m[s_next(m[SemdActive])],
                                  ![s_next(m[SemdActive])] = d,
                                  ![s_semAdd(d)] = a]
    IN  IF m[s_semAdd(old)] = a
        THEN Returns(insertProcQ([m EXCEPT ![p_semAdd(p)] = a], s_procQ(old), p), 0)
        ELSE IF d = NULL THEN Returns(m, 1)
        ELSE Returns([insertProcQ(linked, s_procQ(d), p) EXCEPT ![p_semAdd(p)] = a], 0)

insertBlocked(m, a, p) ==
    LET found == search(m, a)
        old == m[s_next(found)]
        new == allocSemd(m)
        d == new.ptr
        linked == [new.mem EXCEPT ![s_next(d)] = m[s_next(found)],
                                  ![s_next(found)] = d,
                                  ![s_semAdd(d)] = a]
    IN  IF m[s_semAdd(old)] = a
        THEN Returns(insertProcQ([m EXCEPT ![p_semAdd(p)] = a], s_procQ(old), p), 0)
        ELSE IF d = NULL THEN Returns(m, 1)
        ELSE Returns([insertProcQ(linked, s_procQ(d), p) EXCEPT ![p_semAdd(p)] = a], 0)

\* SLIP: a descriptor with an empty queue stays in the list.
NeverUnlinked(m, found) == m

\* A descriptor whose queue is empty leaves the list.
UnlinkedIfEmpty(m, found) ==
    LET d == m[s_next(found)] IN
    IF m[s_procQ(d)] = NULL
    THEN freeSemd([m EXCEPT ![s_next(found)] = m[s_next(d)]], d)
    ELSE m

\* SLIP: the block is still said to wait.
TakenButMarked(r, found) == Returns(UnlinkedIfEmpty(r.mem, found), r.ptr)

\* The block a queue has returned waits no more.
Taken(r, found) ==
    Returns([UnlinkedIfEmpty(r.mem, found) EXCEPT ![p_semAdd(r.ptr)] = NULL], r.ptr)

removeBlocked(m, a) ==
    LET found == search(m, a)
        d == m[s_next(found)]
    IN  IF m[s_semAdd(d)] = a THEN Taken(removeProcQ(m, s_procQ(d)), found)
        ELSE Returns(m, NULL)

outBlocked(m, p) ==
    LET found == search(m, m[p_semAdd(p)])
        d == m[s_next(found)]
    IN  IF m[s_semAdd(d)] = m[p_semAdd(p)]
        THEN Taken(outProcQ(m, s_procQ(d), p), found)
        ELSE Returns(m, NULL)

headBlocked(m, a) ==
    LET d == m[s_next(search(m, a))] IN
    IF m[s_semAdd(d)] = a THEN headProcQ(m, s_procQ(d)) ELSE NULL

------------------------------------------------------------------------------
(* The list and its memory. *)

ActiveList(m) == ListFrom(m, "s_next", m[SemdActive])

FreeSemd(m) == ListFrom(m, "s_next", m[SemdFree])

\* The queue of a semaphore is in the descriptor that has its address.
QueuesIn(m) ==
    LET active == Range(ActiveList(m)) IN
    [s \in SemAdd |->
        IF \E d \in active : m[s_semAdd(d)] = s
        THEN QueueAt(m, s_procQ(CHOOSE d \in active : m[s_semAdd(d)] = s))
        ELSE <<>>]

AslLocations ==
    Locations \cup ({"s_next", "s_semAdd"} \X Descriptors) \cup {SemdFree, SemdActive}

\* The memory initASL() leaves, with the descriptors in this order on the free
\* list.
InitASL(m, order) ==
    [Stacked(m, SemdFree, "s_next", order)
        EXCEPT ![SemdActive] = FirstDummy,
               ![s_next(FirstDummy)] = LastDummy,
               ![s_semAdd(FirstDummy)] = 0,
               ![s_semAdd(LastDummy)] = MAXINT]
==============================================================================
