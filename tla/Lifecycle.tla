------------------------------ MODULE Lifecycle ------------------------------
(***************************************************************************)
(* What the nucleus promises to the processes: processes that are created, *)
(* run one at a time, wait on counting semaphores and end with all their   *)
(* descendants.  No queue, no counter and no semaphore descriptor occurs   *)
(* here, and what the machine does when nobody can run is decided by where *)
(* the processes are.                                                      *)
(***************************************************************************)
EXTENDS Integers, FiniteSets

CONSTANTS Pcb, RootPcb, NULL, Mutex, Device, Clock

Semd == Device \cup {Clock}
Sem == Mutex \cup Semd

VARIABLES
    ready,     \* the processes that could run
    running,   \* the one that does, or NULL
    waiting,   \* the processes that wait on each semaphore
    tokens,    \* the P operations each semaphore will let pass
    owed,      \* the answers a device or the clock still owes to the dead
    parent,    \* the parent of each process, or NULL
    rest       \* what the machine does

vars == <<ready, running, waiting, tokens, owed, parent, rest>>

Live == ready \cup ({running} \ {NULL}) \cup UNION {waiting[s] : s \in Sem}

\* Somebody of R runs if anybody can.  Otherwise the machine waits for an
\* interrupt, if one can help, and stops if none can.
Serve(R) ==
    /\ \/ running' \in R /\ ready' = R \ {running'}
       \/ R = {} /\ running' = NULL /\ ready' = {}
    /\ rest' = IF running' # NULL THEN "run"
               ELSE IF \E s \in Semd : waiting'[s] # {} THEN "wait"
               ELSE IF \E s \in Mutex : waiting'[s] # {} THEN "panic"
               ELSE "halt"

Init ==
    /\ ready = {}
    /\ running = RootPcb
    /\ waiting = [s \in Sem |-> {}]
    /\ tokens \in [Sem -> Nat]
    /\ \A s \in Semd : tokens[s] = 0
    /\ owed = [s \in Sem |-> 0]
    /\ parent = [p \in Pcb |-> NULL]
    /\ rest = "run"

------------------------------------------------------------------------------
Create ==
    /\ rest = "run"
    /\ \E child \in Pcb \ Live :
          /\ ready' = ready \cup {child}
          /\ parent' = [parent EXCEPT ![child] = running]
    /\ UNCHANGED <<running, waiting, tokens, owed, rest>>

\* The family of the running process: itself, and whoever has a parent in it.
IsFamily(K) ==
    /\ running \in K
    /\ \A p \in Live \ {running} : p \in K <=> parent[p] \in K

\* A waiter that ends gives a Mutex its place back.  A device, which does not
\* know of it, will still answer.
End ==
    /\ rest = "run"
    /\ \E K \in SUBSET Live :
          /\ IsFamily(K)
          /\ waiting' = [s \in Sem |-> waiting[s] \ K]
          /\ owed' = [s \in Sem |-> IF s \in Semd
                                    THEN owed[s] + Cardinality(waiting[s] \cap K)
                                    ELSE 0]
          /\ parent' = [p \in Pcb |-> IF p \in K THEN NULL ELSE parent[p]]
          /\ Serve(ready \ K)
    /\ UNCHANGED tokens

\* P on any semaphore.  The pseudo-clock never has a token.
P(s) ==
    /\ rest = "run"
    /\ \/ /\ tokens[s] > 0
          /\ tokens' = [tokens EXCEPT ![s] = @ - 1]
          /\ UNCHANGED <<ready, running, waiting, rest>>
       \/ /\ tokens[s] = 0
          /\ waiting' = [waiting EXCEPT ![s] = @ \cup {running}]
          /\ Serve(ready)
          /\ UNCHANGED tokens
    /\ UNCHANGED <<owed, parent>>

\* V on a Mutex: a waiter goes on, or the next P passes.
V(s) ==
    /\ rest = "run"
    /\ \/ \E p \in waiting[s] :
             /\ waiting' = [waiting EXCEPT ![s] = @ \ {p}]
             /\ ready' = ready \cup {p}
             /\ UNCHANGED tokens
       \/ /\ waiting[s] = {}
          /\ tokens' = [tokens EXCEPT ![s] = @ + 1]
          /\ UNCHANGED <<waiting, ready>>
    /\ UNCHANGED <<running, owed, parent, rest>>

Runnable == ready \cup ({running} \ {NULL})

\* The processor goes to another process.
Preempt ==
    /\ rest = "run"
    /\ Serve(Runnable)
    /\ UNCHANGED <<waiting, tokens, owed, parent>>

\* A device answers a waiter, a waiter that ended, or the next P.
Answer(d) ==
    /\ rest \in {"run", "wait"}
    /\ \/ \E p \in waiting[d] :
             /\ waiting' = [waiting EXCEPT ![d] = @ \ {p}]
             /\ Serve(Runnable \cup {p})
             /\ UNCHANGED <<tokens, owed>>
       \/ /\ waiting[d] = {}
          /\ IF owed[d] > 0
             THEN owed' = [owed EXCEPT ![d] = @ - 1] /\ UNCHANGED tokens
             ELSE tokens' = [tokens EXCEPT ![d] = @ + 1] /\ UNCHANGED owed
          /\ Serve(Runnable)
          /\ UNCHANGED waiting
    /\ UNCHANGED parent

\* The pseudo-clock answers everybody.
Tick ==
    /\ rest \in {"run", "wait"}
    /\ waiting' = [waiting EXCEPT ![Clock] = {}]
    /\ owed' = [owed EXCEPT ![Clock] = 0]
    /\ Serve(Runnable \cup waiting[Clock])
    /\ UNCHANGED <<tokens, parent>>

Next ==
    \/ Create \/ End \/ Preempt \/ Tick
    \/ \E s \in Sem : P(s)
    \/ \E s \in Mutex : V(s)
    \/ \E d \in Device : Answer(d)

Spec == Init /\ [][Next]_vars
==============================================================================
