------------------------------ MODULE WaitLists ------------------------------
(***************************************************************************)
(* What src/phase1/asl.c promises: a queue of blocks for each semaphore,   *)
(* at most MaxSemd of them not empty at a time, and what each function     *)
(* returns.                                                                *)
(***************************************************************************)
EXTENDS Integers, Sequences, FiniteSets, Queues

CONSTANTS Pcb, NULL, SemAdd, MaxSemd

VARIABLES
    semQ,      \* the blocks that wait on each semaphore, head first
    call,      \* the last call
    result     \* what it returned

vars == <<semQ, call, result>>

Waiting == UNION {Range(semQ[s]) : s \in SemAdd}

Active == {s \in SemAdd : semQ[s] # <<>>}

Init ==
    /\ semQ = [s \in SemAdd |-> <<>>]
    /\ call = <<"initASL">>
    /\ result = NULL

\* The caller hands over a block that waits nowhere.
Insert(s, p) ==
    /\ p \notin Waiting
    /\ call' = <<"insertBlocked", s, p>>
    /\ IF s \in Active \/ Cardinality(Active) < MaxSemd
       THEN semQ' = [semQ EXCEPT ![s] = Append(@, p)] /\ result' = 0
       ELSE result' = 1 /\ UNCHANGED semQ

Remove(s) ==
    /\ call' = <<"removeBlocked", s>>
    /\ \/ semQ[s] = <<>> /\ result' = NULL /\ UNCHANGED semQ
       \/ /\ semQ[s] # <<>>
          /\ result' = Head(semQ[s])
          /\ semQ' = [semQ EXCEPT ![s] = Tail(@)]

Out(p) ==
    /\ call' = <<"outBlocked", p>>
    /\ result' = IF p \in Waiting THEN p ELSE NULL
    /\ semQ' = [s \in SemAdd |-> Without(semQ[s], {p})]

HeadOf(s) ==
    /\ call' = <<"headBlocked", s>>
    /\ result' = IF semQ[s] = <<>> THEN NULL ELSE Head(semQ[s])
    /\ UNCHANGED semQ

Next ==
    \/ \E s \in SemAdd : Remove(s) \/ HeadOf(s)
    \/ \E p \in Pcb : Out(p)
    \/ \E s \in SemAdd, p \in Pcb : Insert(s, p)

Spec == Init /\ [][Next]_vars
==============================================================================
