------------------------------- MODULE Nucleus -------------------------------
(***************************************************************************)
(* The Kaya nucleus: the kernel of src/phase2 over the process queues,     *)
(* process tree and active semaphore list of src/phase1.                   *)
(*                                                                         *)
(* Every handler of the nucleus runs with interrupts disabled and ends by  *)
(* loading a process state (LDST) or in scheduler(), so that one handler   *)
(* activation is one atomic step.  What is concurrent is around it: the    *)
(* order in which processes make requests, quanta expire, the interval     *)
(* timer fires and devices answer.  Each of these is an action.            *)
(*                                                                         *)
(* A process queue is a sequence (head first), a list of children is a     *)
(* sequence (p_child first) and the free list is a set.  The pointers that *)
(* represent them are the subject of module ProcQueues; the two defects    *)
(* found there lead this module to mode "broken" (see Terminate).          *)
(*                                                                         *)
(* A definition marked SLIP is a mistake the code could have made and does *)
(* not make; a property must be able to tell it from the code.             *)
(***************************************************************************)
EXTENDS Integers, Sequences, FiniteSets, Functions, Queues

CONSTANTS
    Pcb,         \* the process control blocks of procTable
    RootPcb,     \* the block main() allocates for the first process
    NULL,        \* the null pcb pointer
    Mutex,       \* the semaphores the processes keep in their own memory
    Device,      \* the device semaphores, semd[0] to semd[SEMNUM - 2]
    Clock,       \* the pseudo-clock semaphore, semd[SEMNUM - 1]
    TrapTypes,   \* the kinds of trap: TLBTRAP, PROGTRAP, SYSTRAP
    MaxSem,      \* BOUND: a semaphore is not raised beyond this value
    MaxDebt      \* BOUND: nor a semaphore of semd lowered below -MaxDebt

Semd == Device \cup {Clock}
Sem == Mutex \cup Semd

ASSUME PcbAssumption == IsFiniteSet(Pcb) /\ RootPcb \in Pcb /\ NULL \notin Pcb
ASSUME SemAssumption == Clock \notin Device /\ Mutex \cap Semd = {}
ASSUME BoundAssumption == MaxSem \in Nat /\ MaxDebt \in Nat

Modes == {"run", "wait", "halt", "panic", "returned", "broken"}

VARIABLES
    free,             \* pcbFree_h: the free blocks
    readyQ,           \* the ready queue
    currentProcess,   \* the running process, or NULL
    kids,             \* p_child and p_nextSib: the children of each process
    semQ,             \* the active semaphore list: who waits on which semaphore
    sem,              \* the value of every semaphore
    processCount,
    softBlockCount,
    traps,            \* the kinds of trap each process has a vector for
    busy,             \* the devices that are working on an operation
    mode              \* what the machine does between two handlers

vars == <<free, readyQ, currentProcess, kids, semQ, sem, processCount,
          softBlockCount, traps, busy, mode>>

------------------------------------------------------------------------------
(* Derived state. *)

Live == Pcb \ free

SoftBlocked == UNION {Range(semQ[s]) : s \in Semd}

\* p and its descendants: what killEverything(p) visits.
Subtree(p) == Descendants(kids, p)

------------------------------------------------------------------------------
(* The scheduler and the active semaphore list. *)

\* LDST(statep): the process that made the request goes on.
Resume == UNCHANGED <<currentProcess, mode>>

\* SLIP: scheduler() waits for an interrupt whenever a process is left.
WaitsForever(q, count, soft) ==
    /\ processCount' = count
    /\ softBlockCount' = soft
    /\ \/ q # <<>> /\ currentProcess' = Head(q) /\ readyQ' = Tail(q) /\ mode' = "run"
       \/ /\ q = <<>> /\ currentProcess' = NULL /\ readyQ' = q
          /\ mode' = IF count = 0 THEN "halt" ELSE "wait"

\* scheduler() with ready queue q and the counters at count and soft.
Scheduler(q, count, soft) ==
    /\ processCount' = count
    /\ softBlockCount' = soft
    /\ \/ /\ q # <<>>
          /\ currentProcess' = Head(q)
          /\ readyQ' = Tail(q)
          /\ mode' = "run"
       \/ /\ q = <<>>
          /\ currentProcess' = NULL
          /\ readyQ' = q
          /\ mode' = CASE count = 0 -> "halt"
                       [] count > 0 /\ soft > 0 -> "wait"
                       [] count > 0 /\ soft = 0 -> "panic"
                       [] OTHER -> "returned"

\* SLIP: done() does not ask whether a process was running.
DoneUnasked(q, soft) == Scheduler(Append(q, currentProcess), processCount, soft)

\* SLIP: the interrupted process goes back to the head of the ready queue.
DoneAtHead(q, soft) ==
    Scheduler(IF currentProcess = NULL THEN q ELSE <<currentProcess>> \o q,
              processCount, soft)

\* done(): an interrupted process rejoins the ready queue before scheduler().
Done(q, soft) ==
    Scheduler(IF currentProcess = NULL THEN q ELSE Append(q, currentProcess),
              processCount, soft)

\* Each active semaphore holds one of the MAXPROC semaphore descriptors.
ActiveSemd == {s \in Sem : semQ[s] # <<>>}

\* SLIP: initASL() takes one descriptor too few.
OneDescriptorShort(s) ==
    s \in ActiveSemd \/ Cardinality(ActiveSemd) < Cardinality(Pcb) - 1

DescriptorFor(s) == s \in ActiveSemd \/ Cardinality(ActiveSemd) < Cardinality(Pcb)

\* insertBlocked(s, currentProcess).  Its callers ignore the failure code.
InsertBlocked(s) ==
    semQ' = IF DescriptorFor(s)
            THEN [semQ EXCEPT ![s] = Append(@, currentProcess)]
            ELSE semQ

------------------------------------------------------------------------------
(* main(): one process, ready to run, and every semaphore of semd zero.  The  *)
(* value of a Mutex is what the program that owns it put there.               *)

Init ==
    /\ free = Pcb \ {RootPcb}
    /\ readyQ = <<>>
    /\ currentProcess = RootPcb
    /\ kids = [p \in Pcb |-> <<>>]
    /\ semQ = [s \in Sem |-> <<>>]
    /\ sem \in [Sem -> 0 .. MaxSem]
    /\ \A s \in Semd : sem[s] = 0
    /\ processCount = 1
    /\ softBlockCount = 0
    /\ traps = [p \in Pcb |-> {}]
    /\ busy = {}
    /\ mode = "run"

------------------------------------------------------------------------------
(* System calls of the running process. *)

\* SLIP: allocPcb() leaves the vectors of the last process in the block.
OldVectors ==
    /\ mode = "run"
    /\ \E child \in free :
          /\ free' = free \ {child}
          /\ kids' = [kids EXCEPT ![currentProcess] = <<child>> \o @,
                                  ![child] = <<>>]
          /\ readyQ' = Append(readyQ, child)
    /\ processCount' = processCount + 1
    /\ Resume
    /\ UNCHANGED <<traps, semQ, sem, softBlockCount, busy>>

\* SYS1 with a free block: the new process is the first child and is ready.
SysCall1 ==
    /\ mode = "run"
    /\ \E child \in free :
          /\ free' = free \ {child}
          /\ kids' = [kids EXCEPT ![currentProcess] = <<child>> \o @,
                                  ![child] = <<>>]
          /\ readyQ' = Append(readyQ, child)
          /\ traps' = [traps EXCEPT ![child] = {}]
    /\ processCount' = processCount + 1
    /\ Resume
    /\ UNCHANGED <<semQ, sem, softBlockCount, busy>>

\* SYS1 without one: v0 is FAIL and nothing else changes.
SysCall1Fails ==
    /\ mode = "run"
    /\ free = {}
    /\ UNCHANGED vars

\* outProcQ is asked for the head of a queue, or outChild for a middle child.
OutOfReach(K) ==
    \/ readyQ # <<>> /\ Head(readyQ) \in K
    \/ \E s \in Sem : semQ[s] # <<>> /\ Head(semQ[s]) \in K
    \/ IsMiddleChild(kids, currentProcess)

\* SLIP: the children are taken from the victims but no victim from its parent.
KidsKept(K) == [p \in Pcb |-> IF p \in K THEN <<>> ELSE kids[p]]

\* removeChild for the descendants, outChild for the process itself.
KidsWithout(K) ==
    [p \in Pcb |-> IF p \in K THEN <<>> ELSE Without(kids[p], {currentProcess})]

\* SLIP: no semaphore gets back what its victims took.
NothingGivenBack(K) == sem

\* SLIP: the semaphores of semd get it back as well.
AllGivenBack(K) ==
    [s \in Sem |-> sem[s] + Cardinality(Range(semQ[s]) \cap K)]

\* A waiter gives back what it took from a Mutex; the semaphores of semd are
\* left as they are.
SemWithout(K) ==
    [s \in Sem |-> IF s \in Mutex
                   THEN sem[s] + Cardinality(Range(semQ[s]) \cap K)
                   ELSE sem[s]]

\* SLIP: a victim that waits for a device is still counted.
SoftKept(K) == softBlockCount

SoftWithout(K) == softBlockCount - Cardinality(SoftBlocked \cap K)

\* killEverything() where every unlinking succeeds.
KillEverything(K) ==
    /\ free' = free \cup K
    /\ kids' = KidsWithout(K)
    /\ semQ' = [s \in Sem |-> Without(semQ[s], K)]
    /\ sem' = SemWithout(K)
    /\ Scheduler(Without(readyQ, K), processCount - Cardinality(K), SoftWithout(K))
    /\ UNCHANGED <<traps, busy>>

\* sysCall2(): SYS2, and every request or trap that ends in it.  When a process
\* to unlink is out of reach of outProcQ or outChild, the queue or tree keeps a
\* block that is freed: the lists are sequences no more, and this module stops.
Terminate ==
    LET K == Subtree(currentProcess) IN
    \/ /\ OutOfReach(K)
       /\ mode' = "broken"
       /\ UNCHANGED <<free, readyQ, currentProcess, kids, semQ, sem,
                      processCount, softBlockCount, traps, busy>>
    \/ /\ ~ OutOfReach(K)
       /\ KillEverything(K)

SysCall2 == mode = "run" /\ Terminate

\* SYS3: V on a Mutex.
SysCall3(s) ==
    /\ mode = "run"
    /\ sem[s] < MaxSem
    /\ sem' = [sem EXCEPT ![s] = @ + 1]
    /\ \/ /\ sem'[s] <= 0 /\ semQ[s] # <<>>
          /\ semQ' = [semQ EXCEPT ![s] = Tail(@)]
          /\ readyQ' = Append(readyQ, Head(semQ[s]))
       \/ /\ sem'[s] > 0 \/ semQ[s] = <<>>
          /\ UNCHANGED <<semQ, readyQ>>
    /\ Resume
    /\ UNCHANGED <<free, kids, processCount, softBlockCount, traps, busy>>

\* SYS4: P on a Mutex.
SysCall4(s) ==
    /\ mode = "run"
    /\ sem' = [sem EXCEPT ![s] = @ - 1]
    /\ \/ /\ sem'[s] < 0
          /\ InsertBlocked(s)
          /\ Scheduler(readyQ, processCount, softBlockCount)
       \/ /\ sem'[s] >= 0
          /\ Resume
          /\ UNCHANGED <<readyQ, semQ, processCount, softBlockCount>>
    /\ UNCHANGED <<free, kids, traps, busy>>

\* SYS5: a second vector for the same kind of trap ends the process.
SysCall5(t) ==
    /\ mode = "run"
    /\ \/ t \in traps[currentProcess] /\ Terminate
       \/ /\ t \notin traps[currentProcess]
          /\ traps' = [traps EXCEPT ![currentProcess] = @ \cup {t}]
          /\ Resume
          /\ UNCHANGED <<free, readyQ, kids, semQ, sem, processCount,
                         softBlockCount, busy>>

\* SYS7: P on the pseudo-clock.
SysCall7 ==
    /\ mode = "run"
    /\ sem[Clock] > - MaxDebt
    /\ sem' = [sem EXCEPT ![Clock] = @ - 1]
    /\ IF sem[Clock] - 1 < 0 THEN InsertBlocked(Clock) ELSE UNCHANGED semQ
    /\ Scheduler(readyQ, processCount,
                 IF sem[Clock] - 1 < 0 THEN softBlockCount + 1 ELSE softBlockCount)
    /\ UNCHANGED <<free, kids, traps, busy>>

\* SYS8: P on the semaphore of device d.  A line that is no device line ends
\* the process, which is SysCall2.
SysCall8(d) ==
    /\ mode = "run"
    /\ sem[d] > - MaxDebt
    /\ sem' = [sem EXCEPT ![d] = @ - 1]
    /\ \/ /\ sem'[d] < 0
          /\ InsertBlocked(d)
          /\ Scheduler(readyQ, processCount, softBlockCount + 1)
       \/ /\ sem'[d] >= 0
          /\ Resume
          /\ UNCHANGED <<readyQ, semQ, processCount, softBlockCount>>
    /\ UNCHANGED <<free, kids, traps, busy>>

\* passUpOrDie(t): the handler of the process itself, or its end.
PassUpOrDie(t) ==
    /\ mode = "run"
    /\ \/ t \in traps[currentProcess] /\ UNCHANGED vars
       \/ t \notin traps[currentProcess] /\ Terminate

------------------------------------------------------------------------------
(* Interrupts.  They are enabled while a process runs and during WAIT. *)

\* Line 1: the quantum of the running process is over.  The timer may also be
\* pending when the processor waits; nobody becomes ready then.
LocalTimer ==
    /\ mode \in {"run", "wait"}
    /\ Done(readyQ, softBlockCount)
    /\ UNCHANGED <<free, kids, semQ, sem, traps, busy>>

\* Line 2: everybody who waits for the pseudo-clock is ready again.
IntervalTimer ==
    /\ mode \in {"run", "wait"}
    /\ semQ' = [semQ EXCEPT ![Clock] = <<>>]
    /\ sem' = [sem EXCEPT ![Clock] = 0]
    /\ Done(readyQ \o semQ[Clock], softBlockCount - Len(semQ[Clock]))
    /\ UNCHANGED <<free, kids, traps, busy>>

\* SLIP: a V wakes only if it brings the value to zero.
WakesAtZero(d) ==
    /\ sem' = [sem EXCEPT ![d] = @ + 1]
    /\ \/ /\ sem'[d] = 0 /\ semQ[d] # <<>>
          /\ semQ' = [semQ EXCEPT ![d] = Tail(@)]
          /\ Done(Append(readyQ, Head(semQ[d])), softBlockCount - 1)
       \/ /\ sem'[d] # 0 \/ semQ[d] = <<>>
          /\ Done(readyQ, softBlockCount)
          /\ UNCHANGED semQ
    /\ UNCHANGED <<free, kids, traps>>

\* The V on the semaphore of device d, and the end of the handler.
Signal(d) ==
    /\ sem' = [sem EXCEPT ![d] = @ + 1]
    /\ \/ /\ sem'[d] <= 0 /\ semQ[d] # <<>>
          /\ semQ' = [semQ EXCEPT ![d] = Tail(@)]
          /\ Done(Append(readyQ, Head(semQ[d])), softBlockCount - 1)
       \/ /\ sem'[d] > 0 \/ semQ[d] = <<>>
          /\ Done(readyQ, softBlockCount)
          /\ UNCHANGED semQ
    /\ UNCHANGED <<free, kids, traps>>

\* Lines 3 to 7: device d has completed its operation.
DeviceInterrupt(d) ==
    /\ mode \in {"run", "wait"}
    /\ d \in busy
    /\ busy' = busy \ {d}
    /\ Signal(d)

\* The running process writes the command register of an idle device.
StartIO(d) ==
    /\ mode = "run"
    /\ d \notin busy
    /\ sem[d] < MaxSem
    /\ busy' = busy \cup {d}
    /\ UNCHANGED <<free, readyQ, currentProcess, kids, semQ, sem, processCount,
                   softBlockCount, traps, mode>>

------------------------------------------------------------------------------
Next ==
    \/ SysCall1 \/ SysCall1Fails \/ SysCall2 \/ SysCall7
    \/ \E s \in Mutex : SysCall3(s) \/ SysCall4(s)
    \/ \E d \in Device : SysCall8(d) \/ StartIO(d) \/ DeviceInterrupt(d)
    \/ \E t \in TrapTypes : SysCall5(t) \/ PassUpOrDie(t)
    \/ LocalTimer \/ IntervalTimer

Spec == Init /\ [][Next]_vars

\* The quantum of a process runs out if it keeps the processor.  Not so of the
\* first process: main() gives it no IEPON, and interrupts wait while it runs.
\* Which line is served when, and so whether a waiter is ever released, is the
\* subject of module Interrupts: nothing is assumed of it here.
Fairness == \A p \in Pcb \ {RootPcb} : WF_vars(currentProcess = p /\ LocalTimer)

FairSpec == Spec /\ Fairness

------------------------------------------------------------------------------
(* Safety. *)

\* Type correctness: the one type invariant of this module.
TypeOK ==
    /\ free \in SUBSET Pcb
    /\ readyQ \in Seq(Pcb)
    /\ currentProcess \in Pcb \cup {NULL}
    /\ kids \in [Pcb -> Seq(Pcb)]
    /\ semQ \in [Sem -> Seq(Pcb)]
    /\ sem \in [Sem -> Int]
    /\ processCount \in Int
    /\ softBlockCount \in Int
    /\ traps \in [Pcb -> SUBSET TrapTypes]
    /\ busy \in SUBSET Device
    /\ mode \in Modes

Running == {currentProcess} \ {NULL}

Blocked == UNION {Range(semQ[s]) : s \in Sem}

\* No process is lost and none is in two places: every live process runs, or is
\* on the ready queue once, or waits once on one semaphore, and a free block is
\* nowhere.  insertBlocked fails when no descriptor is left, and none of its
\* callers looks at the result: this holds only because that cannot happen.
NoProcessLost ==
    /\ Live = Running \cup Range(readyQ) \cup Blocked
    /\ currentProcess \notin Range(readyQ) \cup Blocked
    /\ Range(readyQ) \cap Blocked = {}
    /\ \A s, t \in Sem : s # t => Range(semQ[s]) \cap Range(semQ[t]) = {}
    /\ IsInjective(readyQ)
    /\ \A s \in Sem : IsInjective(semQ[s])

\* The counters the scheduler decides by agree with the queues: processCount
\* with the live processes, softBlockCount with those that wait on semd.
CountsAgree ==
    /\ processCount = Cardinality(Live)
    /\ softBlockCount = Cardinality(SoftBlocked)

\* As many processes wait on a Mutex as its negative value says, whatever was
\* killed while waiting; a device semaphore says at least as many, since a
\* killed waiter does not give it back; the pseudo-clock says exactly as many
\* until a waiter is killed, and never lets a process pass.
SemaphoresAgree ==
    /\ \A s \in Mutex : \/ sem[s] >= 0 /\ semQ[s] = <<>>
                        \/ sem[s] < 0 /\ Len(semQ[s]) = - sem[s]
    /\ \A s \in Semd : semQ[s] # <<>> => Len(semQ[s]) <= - sem[s]
    /\ sem[Clock] <= 0

\* scheduler() is right about the machine: it panics exactly when every live
\* process waits for a V that only a process could make, waits only when an
\* interrupt can make a process ready, halts when the last process is gone, and
\* never returns to its caller.
VerdictIsRight ==
    /\ mode = "panic" => free # Pcb /\ Live = UNION {Range(semQ[s]) : s \in Mutex}
    /\ mode = "wait" => readyQ = <<>> /\ \E s \in Semd : semQ[s] # <<>>
    /\ mode = "halt" => free = Pcb
    /\ mode # "returned"

\* The live processes are one tree below the first process: a kill takes a whole
\* subtree and nothing else, so no process outlives its parent, and a process
\* is the child of one parent, once.
OneTree ==
    /\ free # Pcb => Live = Subtree(RootPcb)
    /\ \A p, q \in Pcb : p # q => Range(kids[p]) \cap Range(kids[q]) = {}
    /\ \A p \in Pcb : IsInjective(kids[p])
    /\ \A p \in free : kids[p] = <<>>

\* The parts an induction needs besides: a process runs unless the machine
\* stands still, and the first process is nobody's child.
ModeAgrees ==
    /\ mode \in {"run", "broken"} => currentProcess \in Pcb
    /\ mode \in {"wait", "halt", "panic"} => currentProcess = NULL /\ readyQ = <<>>

RootIsNoChild == \A p \in Pcb : RootPcb \notin Range(kids[p])

IInv ==
    /\ TypeOK
    /\ NoProcessLost
    /\ CountsAgree
    /\ SemaphoresAgree
    /\ VerdictIsRight
    /\ OneTree
    /\ ModeAgrees
    /\ RootIsNoChild

------------------------------------------------------------------------------
(* Action properties. *)

\* A process keeps the trap vectors it has specified as long as it lives and
\* starts with none, whatever the block it got was used for before.
VectorsLastALifetime ==
    [][\A p \in Pcb \ free' : IF p \in free THEN traps'[p] = {}
                              ELSE traps[p] \subseteq traps'[p]]_vars

------------------------------------------------------------------------------
(* Liveness, under Fairness.  A process that is killed is free.  That a     *)
(* waiter becomes ready at all is the subject of Interrupts.               *)

Gone(p) == p \in free \/ mode = "broken"

\* The first process lets others run, or the processor wait, again and again.
RootYields == []<> (currentProcess # RootPcb)

\* A ready process gets the processor: the ready queue is served in turn.
ReadyRuns ==
    RootYields => \A p \in Pcb : p \in Range(readyQ) ~> currentProcess = p \/ Gone(p)
==============================================================================
