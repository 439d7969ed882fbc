------------------------------ MODULE Interrupts ------------------------------
(***************************************************************************)
(* Pending interrupt lines, their order in src/phase2/interrupts.c, and    *)
(* the status a WAITIO returns, around the handlers of Nucleus.            *)
(*                                                                         *)
(* The machine takes a pending interrupt before the next instruction of a  *)
(* process that does not mask it, and in WAIT.  Line 1 stays pending until *)
(* the local timer is loaded, line 2 until the interval timer is, and a    *)
(* device until its answer is acknowledged; an acknowledgement changes     *)
(* nothing while the device works.                                         *)
(***************************************************************************)
EXTENDS Nucleus, FiniteSetsExt

CONSTANTS
    Position,      \* a device by its line and number: 8 * line + number
    Receivers,     \* the devices that are the receiving half of a terminal
    RootIsQuick    \* the first process never runs as long as a quantum

ASSUME PositionAssumption ==
    /\ Position \in [Device -> Nat]
    /\ Receivers \subseteq Device
    /\ RootIsQuick \in BOOLEAN

VARIABLES
    quantumOver,   \* line 1 is pending
    clockOver,     \* line 2 is pending
    answered,      \* the devices whose operation is complete
    v0             \* what the last WAITIO of a process left in its register v0

lineVars == <<vars, quantumOver, clockOver, answered, v0>>

\* What v0 may hold after a WAITIO: what was there before the call, the status of a
\* device at work, or that of a completed operation, which is no other case here
\* than that of a process that has not waited.
Statuses == {"old", "busy", "fine"}

\* The first process runs with interrupts masked.
Masked == currentProcess = RootPcb

Pending == quantumOver \/ clockOver \/ answered # {}

\* The running process executes its next instruction.
Free == mode = "run" /\ (Masked \/ ~ Pending)

\* The machine calls interruptHandler().
Taken == Pending /\ (mode = "wait" \/ (mode = "run" /\ ~ Masked))

------------------------------------------------------------------------------
(* interruptHandler().                                                        *)

SelectsClock == clockOver /\ ~ quantumOver

SelectsDevice == answered # {} /\ ~ quantumOver /\ ~ clockOver

\* The lowest line and, in getDevice(), the lowest number on it.
Selected == {d \in Device : Position[d] = Min({Position[e] : e \in answered})}

\* Of the halves of a terminal the transmitter, unless it is READY.
Chosen ==
    CHOOSE d \in Selected :
        d \in Receivers <=> \A t \in Selected \ Receivers : t \notin busy

\* SLIP: scheduler() dispatches a process without loading the local timer.
TimerKept == UNCHANGED quantumOver

\* scheduler() loads the local timer when it dispatches a process.
TimerLoaded == quantumOver' = (quantumOver /\ mode' # "run")

\* SLIP: every device with a bit in the bitmap is acknowledged.
AllAcknowledged(d) == busy' = busy \ answered /\ answered' = {}

Acknowledge(d) ==
    IF d \in answered
    THEN busy' = busy \ {d} /\ answered' = answered \ {d}
    ELSE UNCHANGED <<busy, answered>>

Line1 ==
    /\ Taken /\ quantumOver
    /\ LocalTimer
    /\ TimerLoaded
    /\ UNCHANGED <<clockOver, answered, v0>>

Line2 ==
    /\ Taken /\ SelectsClock
    /\ IntervalTimer
    /\ clockOver' = FALSE
    /\ TimerLoaded
    /\ UNCHANGED <<answered, v0>>

DeviceLine ==
    LET d == Chosen
        status == IF d \in answered THEN "fine" ELSE "busy"
    IN  /\ Taken /\ SelectsDevice
        /\ Signal(d)
        /\ Acknowledge(d)
        /\ v0' = [p \in Pcb |-> IF p \in Range(semQ[d]) \ Range(semQ'[d]) THEN status ELSE v0[p]]
        /\ TimerLoaded
        /\ UNCHANGED clockOver

------------------------------------------------------------------------------
(* The running process. *)

\* A system call goes through scheduler() unless its caller goes on.
CallLoadsTimer ==
    IF currentProcess' = currentProcess THEN UNCHANGED quantumOver ELSE TimerLoaded

\* A new process has not waited for a device.
Call ==
    /\ Free
    /\ \/ SysCall1 \/ SysCall2 \/ SysCall7
       \/ \E s \in Mutex : SysCall3(s) \/ SysCall4(s)
    /\ v0' = [p \in Pcb |-> IF p \in free' THEN "fine" ELSE v0[p]]
    /\ CallLoadsTimer
    /\ UNCHANGED <<clockOver, answered>>

WaitIO(d) ==
    /\ Free
    /\ SysCall8(d)
    /\ v0' = [v0 EXCEPT ![currentProcess] = "old"]
    /\ CallLoadsTimer
    /\ UNCHANGED <<clockOver, answered>>

Command(d) ==
    /\ Free
    /\ StartIO(d)
    /\ UNCHANGED <<quantumOver, clockOver, answered, v0>>

------------------------------------------------------------------------------
(* The timers and the devices.  The local timer runs only while a process      *)
(* executes, since the handlers and WAIT have it disabled.                     *)

QuantumEnds ==
    /\ Free
    /\ RootIsQuick => ~ Masked
    /\ quantumOver' = TRUE
    /\ UNCHANGED <<vars, clockOver, answered, v0>>

\* It takes less than the period of the interval timer to serve the devices that
\* have answered.
ClockEnds ==
    /\ ~ (Taken /\ SelectsDevice)
    /\ clockOver' = TRUE
    /\ UNCHANGED <<vars, quantumOver, answered, v0>>

Answers(d) ==
    /\ d \in busy \ answered
    /\ answered' = answered \cup {d}
    /\ UNCHANGED <<vars, quantumOver, clockOver, v0>>

------------------------------------------------------------------------------
LineInit ==
    /\ Init
    /\ quantumOver = FALSE
    /\ clockOver = FALSE
    /\ answered = {}
    /\ v0 = [p \in Pcb |-> "fine"]

Handler == Line1 \/ Line2 \/ DeviceLine

LineNext ==
    \/ Call
    \/ \E d \in Device : WaitIO(d) \/ Command(d) \/ Answers(d)
    \/ QuantumEnds \/ ClockEnds
    \/ Line1 \/ Line2 \/ DeviceLine

LineSpec == LineInit /\ [][LineNext]_lineVars

\* A timer runs down, a device answers, and the machine takes an interrupt that
\* is pending and not masked.
FairLines ==
    /\ LineSpec
    /\ \A p \in Pcb \ {RootPcb} : WF_lineVars(currentProcess = p /\ QuantumEnds)
    /\ SF_lineVars(ClockEnds)
    /\ \A d \in Device : WF_lineVars(Answers(d))
    /\ WF_lineVars(Handler)

------------------------------------------------------------------------------
\* A process that goes on after WAITIO has the status of its completed operation
\* in v0: not what was there before the call, nor that of a device that still
\* works because the other half of the terminal interrupted.
StatusDelivered == mode = "run" => v0[currentProcess] \notin {"old", "busy"}

\* From some time on the first process no longer runs.
RootLeaves == <>[] (currentProcess # RootPcb)

Released(p) == p \in Range(readyQ) \/ currentProcess = p \/ Gone(p)

\* Whoever waits for the pseudo-clock is released, whatever lines are pending.
ClockServed ==
    RootLeaves => \A p \in Pcb : p \in Range(semQ[Clock]) ~> Released(p)

\* The first waiter of a device at work is released, whatever lines are pending.
DeviceServed ==
    RootLeaves => \A p \in Pcb :
        (\E d \in busy : semQ[d] # <<>> /\ p = Head(semQ[d])) ~> Released(p)
==============================================================================
