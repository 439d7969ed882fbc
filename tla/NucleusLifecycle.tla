-------------------------- MODULE NucleusLifecycle --------------------------
(***************************************************************************)
(* The nucleus implements Lifecycle.  Mode "broken" is mapped to a machine *)
(* that still runs: what the lists hold from then on is not modelled, and  *)
(* no step follows.                                                        *)
(***************************************************************************)
EXTENDS Nucleus

Waiting == [s \in Sem |-> Range(semQ[s])]

Tokens == [s \in Sem |-> IF sem[s] > 0 THEN sem[s] ELSE 0]

\* A device semaphore is as far below zero as processes wait, and the lower
\* by one for each that was killed while it waited.
Owed == [s \in Sem |-> IF s \in Semd /\ sem[s] < 0 THEN - sem[s] - Len(semQ[s])
                       ELSE 0]

Parent ==
    [p \in Pcb |-> IF \E q \in Pcb : p \in Range(kids[q])
                   THEN CHOOSE q \in Pcb : p \in Range(kids[q])
                   ELSE NULL]

Rest == IF mode = "broken" THEN "run" ELSE mode

Abstract == INSTANCE Lifecycle WITH
    ready <- Range(readyQ),
    running <- currentProcess,
    waiting <- Waiting,
    tokens <- Tokens,
    owed <- Owed,
    parent <- Parent,
    rest <- Rest

\* The handlers of the nucleus, with their queues, counters and semaphore
\* values, do to the processes what Lifecycle says: a V wakes exactly one
\* waiter or lets exactly one later P pass, also after waiters were killed, a
\* kill ends exactly a family, and the processor idles only if nobody can run.
ImplementsLifecycle == Abstract!Spec
==============================================================================
