---------------------------- MODULE NucleusMemory ----------------------------
(***************************************************************************)
(* The handlers of src/phase2 that create, block, wake and end processes,  *)
(* on the pointers of pcb.c and asl.c.                                     *)
(*                                                                         *)
(* A C function that changes globals of the nucleus is an operator on a    *)
(* record of them, k: what it returns is the record after the call.  The   *)
(* two loops, that of killEverything and that of the interval timer, are   *)
(* taken round by round.  Interrupts are disabled meanwhile, so nobody     *)
(* sees what is in between: the rounds change the globals in work, and     *)
(* the variables hold what was there before until the handler ends.        *)
(* Module Nucleus describes the same handlers on lists; this one shows     *)
(* that the pointers implement them, up to the first unlinking that goes   *)
(* wrong (missed), and what the nucleus does after that.                   *)
(***************************************************************************)
EXTENDS AslMemory

CONSTANTS
    RootPcb,     \* the block main() allocates for the first process
    ReadyQ,      \* the variable readyQ
    Mutex,       \* the addresses of the semaphores processes have
    Device,      \* the addresses of semd[0] to semd[SEMNUM - 2]
    Clock,       \* the address of semd[SEMNUM - 1]
    MaxSem,      \* BOUND: a semaphore is not raised beyond this value
    MaxDebt      \* BOUND: nor a semaphore of semd lowered below -MaxDebt

ASSUME NucleusAssumption == /\ SemAdd = Mutex \cup Device \cup {Clock}
                            /\ Mutex \cap (Device \cup {Clock}) = {} /\ Clock \notin Device
                            /\ ReadyQ \in ProcQ \ Descriptors
                            /\ RootPcb \in Pcb
                            /\ MaxSem \in Nat /\ MaxDebt \in Nat
\* semdTable has a descriptor for every block, besides the dummies; one for every
\* semaphore is as good.
ASSUME TableAssumption == \/ Cardinality(SemdPool) = Cardinality(Pcb)
                          \/ Cardinality(SemdPool) >= Cardinality(SemAdd)

VARIABLES
    mem,             \* procTable, semdTable, readyQ and the heads of the lists
    currentProcess,
    sem,             \* the value at each address of a semaphore
    processCount,
    softBlockCount,
    busy,            \* the devices that are working on an operation
    mode,            \* what the machine does, or the loop a handler is in
    missed,          \* an unlinking has left a block where it was
    lists,           \* what mem stands for (ListsIn)
    calls,           \* whom killEverything is at work on, the innermost call first
    work             \* the globals as the loop has changed them, or NULL

vars == <<mem, currentProcess, sem, processCount, softBlockCount, busy, mode, missed, lists,
          calls, work>>

readyQ == tail(ReadyQ)

semd == Device \cup {Clock}

\* The modes of the handlers that loop.
Loops == {"kill", "wake"}

ListsIn(m) ==
    [free |-> FreeBlocks(m), ready |-> QueueAt(m, readyQ),
     kids |-> [p \in Pcb |-> KidsOf(m, p)], waits |-> QueuesIn(m)]

\* The globals of the nucleus.
Globals == [mem |-> mem, current |-> currentProcess, sem |-> sem, count |-> processCount,
            soft |-> softBlockCount, missed |-> missed, mode |-> mode]

\* The handler ends and leaves the globals k.
Become(k) ==
    /\ mem' = k.mem
    /\ lists' = ListsIn(k.mem)
    /\ currentProcess' = k.current
    /\ sem' = k.sem
    /\ processCount' = k.count
    /\ softBlockCount' = k.soft
    /\ missed' = k.missed
    /\ mode' = k.mode
    /\ calls' = <<>>
    /\ work' = NULL

\* The handler goes on in a loop.
Loop(k, c, m) ==
    /\ work' = k
    /\ calls' = c
    /\ mode' = m
    /\ UNCHANGED <<mem, lists, currentProcess, sem, processCount, softBlockCount, missed>>

\* removeProcQ would follow a null pointer: an address error of the nucleus.
Faults(m, tp) ==
    LET last == m[tp]
        head == m[next(last)]
    IN  /\ last # NULL
        /\ head = NULL \/ (head # last /\ m[next(head)] = NULL)

Scheduler(k) ==
    LET r == removeProcQ(k.mem, readyQ) IN
    Become(IF Faults(k.mem, readyQ) THEN [k EXCEPT !.mode = "fault"]
           ELSE [k EXCEPT !.mem = r.mem, !.current = r.ptr,
                          !.mode = CASE r.ptr # NULL -> "run"
                                     [] r.ptr = NULL /\ k.count = 0 -> "halt"
                                     [] r.ptr = NULL /\ k.count > 0 /\ k.soft > 0 -> "wait"
                                     [] r.ptr = NULL /\ k.count > 0 /\ k.soft = 0 -> "panic"
                                     [] OTHER -> "returned"])

Done(k) ==
    Scheduler(IF k.current = NULL THEN k
              ELSE [k EXCEPT !.mem = insertProcQ(k.mem, readyQ, k.current)])

------------------------------------------------------------------------------
(* main(), with the blocks and the descriptors in this order on the free      *)
(* lists.                                                                     *)

InitialMemory(pcbs, semds) ==
    allocPcb(Stacked(InitASL([l \in AslLocations |-> NULL], semds), FreeHead, "p_next", pcbs)).mem

InitWith(pcbs, semds) ==
    /\ mem = InitialMemory(pcbs, semds)
    /\ currentProcess = pcbs[1]
    /\ processCount = 1
    /\ softBlockCount = 0
    /\ busy = {}
    /\ mode = "run"
    /\ missed = FALSE
    /\ lists = ListsIn(mem)
    /\ calls = <<>>
    /\ work = NULL

Init ==
    /\ \E pcbs \in Orders(Pcb), semds \in Orders(SemdPool) :
          pcbs[1] = RootPcb /\ InitWith(pcbs, semds)
    /\ sem \in [SemAdd -> 0 .. MaxSem]
    /\ \A s \in semd : sem[s] = 0

------------------------------------------------------------------------------
(* System calls of the running process. *)

SysCall1 ==
    LET new == allocPcb(mem) IN
    /\ mode = "run"
    /\ Become(IF new.ptr = NULL THEN Globals
              ELSE [Globals EXCEPT
                      !.count = @ + 1,
                      !.mem = insertProcQ(insertChild(new.mem, currentProcess, new.ptr),
                                          readyQ, new.ptr)])
    /\ UNCHANGED busy

\* The queue behind tp, or the list of children, is not what it was without p.
Misses(before, after, p) == after # Without(before, {p})

\* SLIP: whoever waits is taken for somebody who waits on semd.
CountedOnly(k, s) == [k EXCEPT !.soft = @ - 1]

\* What the end of a waiter does to the semaphore s it waited on.
GiveBack(k, s) ==
    IF s \in semd THEN [k EXCEPT !.soft = @ - 1] ELSE [k EXCEPT !.sem[s] = @ + 1]

\* What killEverything does with a process that is blocked, running or ready.
Unlink(k, p) ==
    LET s == k.mem[p_semAdd(p)]
        blocked == outBlocked(k.mem, p)
        orphan == outChild(k.mem, p)
        ready == outProcQ(k.mem, readyQ, p)
    IN  IF s # NULL
        THEN [GiveBack(k, s) EXCEPT
                       !.mem = blocked.mem,
                       !.missed = @ \/ Misses(QueuesIn(k.mem)[s], QueuesIn(blocked.mem)[s], p)]
        ELSE IF p = k.current
        THEN [k EXCEPT !.mem = orphan.mem,
                       !.missed = @ \/ orphan.ptr = Undefined]
        ELSE [k EXCEPT !.mem = ready.mem,
                       !.missed = @ \/ Misses(QueueAt(k.mem, readyQ), QueueAt(ready.mem, readyQ), p)]

\* killEverything(p) behind its loop.
Ended(k, p) ==
    LET alone == Unlink(k, p) IN
    [alone EXCEPT !.mem = freePcb(alone.mem, p), !.count = @ - 1]

\* SLIP: killEverything() frees the children it takes without a call for them.
ChildrenOnly ==
    LET p == Head(calls)
        eldest == removeChild(work.mem, p)
        below == Tail(calls) = <<>> /\ ~ emptyChild(work.mem, p)
    IN  /\ mode = "kill"
        /\ \/ /\ below
              /\ Loop([work EXCEPT !.mem = eldest.mem], <<eldest.ptr>> \o calls, "kill")
           \/ /\ Tail(calls) # <<>>
              /\ Loop(Ended(work, p), Tail(calls), "kill")
           \/ /\ ~ below /\ Tail(calls) = <<>>
              /\ Scheduler([Ended(work, p) EXCEPT !.current = NULL])
        /\ UNCHANGED busy

\* A round of the loop of killEverything(p), which calls itself for the eldest
\* child, or what follows the loop; with the first call sysCall2 ends.
KillEverything ==
    LET p == Head(calls)
        eldest == removeChild(work.mem, p)
    IN  /\ mode = "kill"
        /\ \/ /\ ~ emptyChild(work.mem, p)
              /\ Loop([work EXCEPT !.mem = eldest.mem], <<eldest.ptr>> \o calls, "kill")
           \/ /\ emptyChild(work.mem, p) /\ Tail(calls) # <<>>
              /\ Loop(Ended(work, p), Tail(calls), "kill")
           \/ /\ emptyChild(work.mem, p) /\ Tail(calls) = <<>>
              /\ Scheduler([Ended(work, p) EXCEPT !.current = NULL])
        /\ UNCHANGED busy

\* sysCall2() for a process without children.
EndAlone(k) ==
    LET orphan == outChild(k.mem, k.current) IN
    [k EXCEPT !.mem = freePcb(orphan.mem, k.current), !.count = @ - 1,
              !.current = NULL, !.missed = @ \/ orphan.ptr = Undefined]

SysCall2 ==
    /\ mode = "run"
    /\ IF emptyChild(mem, currentProcess)
       THEN Scheduler(EndAlone(Globals))
       ELSE Loop(Globals, <<currentProcess>>, "kill")
    /\ UNCHANGED busy

\* SLIP: the first waiter of s is ready and still waits.
WakeOnly(k, s) ==
    LET p == headBlocked(k.mem, s) IN
    IF k.sem[s] <= 0 /\ p # NULL
    THEN [k EXCEPT !.mem = insertProcQ(k.mem, readyQ, p),
                   !.soft = IF s \in semd THEN @ - 1 ELSE @]
    ELSE k

\* The first waiter of s, if there is one, is ready.
Wake(k, s) ==
    LET r == removeBlocked(k.mem, s) IN
    IF k.sem[s] <= 0 /\ r.ptr # NULL
    THEN [k EXCEPT !.mem = insertProcQ(r.mem, readyQ, r.ptr),
                   !.soft = IF s \in semd THEN @ - 1 ELSE @]
    ELSE k

SysCall3(s) ==
    /\ mode = "run"
    /\ sem[s] < MaxSem
    /\ Become(Wake([Globals EXCEPT !.sem[s] = @ + 1], s))
    /\ UNCHANGED busy

\* SLIP: whoever waits on semd is not counted.
BlockUncounted(k, s) == [k EXCEPT !.mem = insertBlocked(k.mem, s, k.current).mem]

\* The caller waits on s.  The result of insertBlocked is ignored.
Block(k, s) ==
    [k EXCEPT !.mem = insertBlocked(k.mem, s, k.current).mem,
              !.soft = IF s \in semd THEN @ + 1 ELSE @]

Passeren(s) ==
    /\ mode = "run"
    /\ LET k == [Globals EXCEPT !.sem[s] = @ - 1] IN
       IF k.sem[s] < 0 THEN Scheduler(Block(k, s)) ELSE Become(k)
    /\ UNCHANGED busy

SysCall4(s) == Passeren(s)

SysCall7 ==
    /\ mode = "run"
    /\ sem[Clock] > - MaxDebt
    /\ LET k == [Globals EXCEPT !.sem[Clock] = @ - 1] IN
       Scheduler(IF k.sem[Clock] < 0 THEN Block(k, Clock) ELSE k)
    /\ UNCHANGED busy

SysCall8(d) ==
    /\ sem[d] > - MaxDebt
    /\ Passeren(d)

------------------------------------------------------------------------------
(* Interrupts. *)

LocalTimer ==
    /\ mode \in {"run", "wait"}
    /\ Done(Globals)
    /\ UNCHANGED busy

IntervalTimer ==
    /\ mode \in {"run", "wait"}
    /\ Loop(Globals, <<>>, "wake")
    /\ UNCHANGED busy

\* A round of the loop that makes everybody ready who waits for the
\* pseudo-clock, or what follows it.
WakeAll ==
    LET r == removeBlocked(work.mem, Clock) IN
    /\ mode = "wake"
    /\ IF headBlocked(work.mem, Clock) = NULL THEN Done([work EXCEPT !.sem[Clock] = 0])
       ELSE Loop([work EXCEPT !.mem = insertProcQ(r.mem, readyQ, r.ptr), !.soft = @ - 1],
                 <<>>, "wake")
    /\ UNCHANGED busy

DeviceInterrupt(d) ==
    /\ mode \in {"run", "wait"}
    /\ d \in busy
    /\ busy' = busy \ {d}
    /\ Done(Wake([Globals EXCEPT !.sem[d] = @ + 1], d))

StartIO(d) ==
    /\ mode = "run"
    /\ d \notin busy
    /\ sem[d] < MaxSem
    /\ busy' = busy \cup {d}
    /\ UNCHANGED <<mem, currentProcess, sem, processCount, softBlockCount, mode, missed, lists,
                   calls, work>>

------------------------------------------------------------------------------
\* What a nucleus that has missed does to its queues depends on all that is in
\* memory: this module stops there.
Next ==
    /\ ~ missed
    /\ \/ SysCall1 \/ SysCall2 \/ SysCall7
       \/ \E s \in Mutex : SysCall3(s) \/ SysCall4(s)
       \/ \E d \in Device : SysCall8(d) \/ StartIO(d) \/ DeviceInterrupt(d)
       \/ LocalTimer \/ IntervalTimer \/ KillEverything \/ WakeAll

Spec == Init /\ [][Next]_vars

------------------------------------------------------------------------------
\* Type correctness: while nothing has been missed each tail pointer has a queue
\* behind it, and the scheduler does not return.
TypeOK ==
    /\ DOMAIN mem = AslLocations
    /\ sem \in [SemAdd -> Int]
    /\ processCount \in Int /\ softBlockCount \in Int
    /\ busy \in SUBSET Device
    /\ mode \in {"run", "wait", "halt", "panic", "returned", "fault"} \cup Loops
    /\ missed \in BOOLEAN
    /\ ~ missed => /\ mode \notin {"returned", "fault"}
                   /\ currentProcess \in Pcb \cup {NULL}
                   /\ lists.ready \in Seq(Pcb)
                   /\ lists.waits \in [SemAdd -> Seq(Pcb)]
    /\ mode \in Loops => DOMAIN work.mem = AslLocations
    /\ mode = "kill" /\ ~ work.missed => calls \in Seq(Pcb) \ {<<>>}

\* The lists of Nucleus are in memory.
Lists == INSTANCE Nucleus WITH
    TrapTypes <- {},
    free <- lists.free,
    readyQ <- lists.ready,
    kids <- lists.kids,
    semQ <- lists.waits,
    traps <- [p \in Pcb |-> {}],
    mode <- IF mode \in Loops THEN work.mode ELSE mode

\* However deep killEverything() calls itself, a handler that lowers processCount
\* takes off one for the running process and one for each of its descendants,
\* even if one of them could not be unlinked; and when all could, just these
\* blocks are freed besides those that were.
KillsOneSubtree ==
    [][processCount' < processCount =>
         /\ processCount' = processCount - Cardinality(Lists!Subtree(currentProcess))
         /\ ~ missed' => lists'.free = lists.free \cup Lists!Subtree(currentProcess)]_vars

\* As long as no unlinking misses, the pointers do to the lists what Nucleus
\* says: a loop is no step of Nucleus before it ends, with all its rounds; and
\* one misses exactly when a kill has a victim that Nucleus calls out of reach.
ImplementsNucleus ==
    /\ Lists!Init
    /\ [][IF missed'
          THEN missed \/ Lists!OutOfReach(Lists!Subtree(currentProcess))
          ELSE [Lists!Next]_(Lists!vars)]_vars
==============================================================================
