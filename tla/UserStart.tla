------------------------------ MODULE UserStart ------------------------------
(***************************************************************************)
(* test() and initUProc() of src/phase3/initProc.c as processes of the     *)
(* nucleus.                                                                *)
(*                                                                         *)
(* test() writes the state of a user process through a pointer it never    *)
(* sets and passes SYS1 the address of the pointer.  Either write traps,   *)
(* or the memory behind it is overwritten; and the new process starts in   *)
(* whatever state that memory holds: it traps, or it runs initUProc().     *)
(* Tables of segments and pages are not state that anybody reads.          *)
(***************************************************************************)
EXTENDS Nucleus

CONSTANTS
    MAXUPROC,     \* how many user processes test() creates
    masterSem,    \* the semaphore test() waits on, a Mutex
    TapeSem       \* the Device whose semaphore WAITIO on tape asid - 1 selects

VARIABLES
    i,            \* the loop variable of test()
    at            \* where each process is

startVars == <<vars, i, at>>

At(l) == mode = "run" /\ at[currentProcess] = l

Goto(l) == at' = [at EXCEPT ![currentProcess] = l]

------------------------------------------------------------------------------
\* A write through uProc, or a start in a meaningless state: no vector is set,
\* and the process ends.
Trap ==
    /\ At("create") \/ At("nowhere")
    /\ PassUpOrDie("PROGTRAP")
    /\ UNCHANGED <<i, at>>

\* The body of the loop that creates the processes.
CreateUser ==
    /\ At("create")
    /\ SysCall1 \/ SysCall1Fails
    /\ i' = IF i + 1 = MAXUPROC THEN 0 ELSE i + 1
    /\ \E l \in {"initUProc", "nowhere"} :
          at' = [p \in Pcb |-> IF p \in free \ free' THEN l
                               ELSE IF p = currentProcess /\ i' = 0 THEN "master"
                               ELSE at[p]]

\* The loop that waits for the user processes.
PMaster ==
    /\ At("master")
    /\ SysCall4(masterSem)
    /\ i' = i + 1
    /\ Goto(IF i + 1 = MAXUPROC THEN "end" ELSE "master")

TestEnd ==
    /\ At("end")
    /\ SysCall2
    /\ UNCHANGED <<i, at>>

\* readTape(): the condition of its loop always holds, and it waits before it
\* gives the device a command.
WaitForTape ==
    /\ At("initUProc")
    /\ SysCall8(TapeSem)
    /\ Goto("READBLK")
    /\ UNCHANGED i

ReadBlock ==
    /\ At("READBLK")
    /\ StartIO(TapeSem)
    /\ Goto("diskOp")
    /\ UNCHANGED i

\* diskOp() makes a P on the address asid - 1, which is no address of an int.
DiskOp ==
    /\ At("diskOp")
    /\ PassUpOrDie("PROGTRAP")
    /\ UNCHANGED <<i, at>>

Interrupted ==
    /\ currentProcess # RootPcb
    /\ LocalTimer \/ IntervalTimer \/ \E d \in Device : DeviceInterrupt(d)
    /\ UNCHANGED <<i, at>>

------------------------------------------------------------------------------
StartInit ==
    /\ Init
    /\ sem[masterSem] = 0
    /\ i = 0
    /\ at = [p \in Pcb |-> "create"]

Executes ==
    \/ Trap \/ CreateUser \/ PMaster \/ TestEnd \/ WaitForTape \/ ReadBlock \/ DiskOp

\* The running process goes on, and interrupts are served.
StartSpec ==
    /\ StartInit
    /\ [][Executes \/ Interrupted]_startVars
    /\ WF_startVars(Executes)
    /\ WF_startVars(Interrupted)

------------------------------------------------------------------------------
\* test() ends, after the user processes have.
TestEnds == <> (RootPcb \in free \/ mode = "broken")
==============================================================================
