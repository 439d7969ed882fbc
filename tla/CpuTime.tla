------------------------------- MODULE CpuTime -------------------------------
(***************************************************************************)
(* The processor time src/phase2 charges to each process, around the       *)
(* handlers of Nucleus.                                                    *)
(*                                                                         *)
(* Time is a number of ticks; within a handler the clock is read after the *)
(* ticks the handler takes.  A handler that goes through scheduler()       *)
(* charges the interval since startTOD to the process it leaves.           *)
(***************************************************************************)
EXTENDS Nucleus

CONSTANTS
    MaxTime,    \* BOUND: the last tick
    MaxHandler  \* BOUND: the ticks a handler takes

ASSUME TimeAssumption == MaxTime \in Nat /\ MaxHandler \in Nat

VARIABLES
    now,        \* the time of day
    startTOD,   \* when the running process was dispatched, or asked for its time
    p_time,     \* what each process has been charged
    twice,      \* what SYS4 has charged each process before scheduler() did
    used,       \* how long the instructions of each process took
    born        \* when each process was created

timeVars == <<vars, now, startTOD, p_time, twice, used, born>>

\* A handler that takes c ticks.
Takes(c) == now + c <= MaxTime /\ now' = now + c

Charge(p, t) == p_time' = [p_time EXCEPT ![p] = @ + t]

\* What scheduler() charges to the process it finds, c ticks after the call.
Elapsed(c) == now + c - startTOD

\* scheduler() reads the clock when it dispatches a process.
Dispatch == startTOD' = IF mode' = "run" THEN now' ELSE startTOD

------------------------------------------------------------------------------
\* The running process executes for a tick.
Compute ==
    /\ mode = "run"
    /\ Takes(1)
    /\ used' = [used EXCEPT ![currentProcess] = @ + 1]
    /\ UNCHANGED <<vars, startTOD, p_time, twice, born>>

Create(c) ==
    /\ Takes(c)
    /\ SysCall1
    /\ p_time' = [p \in Pcb |-> IF p \in free \ free' THEN 0 ELSE p_time[p]]
    /\ twice' = [p \in Pcb |-> IF p \in free \ free' THEN 0 ELSE twice[p]]
    /\ used' = [p \in Pcb |-> IF p \in free \ free' THEN 0 ELSE used[p]]
    /\ born' = [p \in Pcb |-> IF p \in free \ free' THEN now' ELSE born[p]]
    /\ UNCHANGED startTOD

\* Nobody is charged for the last interval of a process that ends.
End(c) ==
    /\ Takes(c)
    /\ SysCall2
    /\ Dispatch
    /\ UNCHANGED <<p_time, twice, used, born>>

Signals(c, s) ==
    /\ Takes(c)
    /\ SysCall3(s)
    /\ UNCHANGED <<startTOD, p_time, twice, used, born>>

\* SYS4 charges a caller that waits, and scheduler() charges it again.
Waits(c, s) ==
    /\ Takes(c)
    /\ SysCall4(s)
    /\ IF sem'[s] < 0
       THEN /\ \E k \in 0 .. c :
                  /\ Charge(currentProcess, Elapsed(k) + Elapsed(c))
                  /\ twice' = [twice EXCEPT ![currentProcess] = @ + Elapsed(k)]
            /\ Dispatch
       ELSE UNCHANGED <<p_time, twice, startTOD>>
    /\ UNCHANGED <<used, born>>

\* SLIP: SYS6 does not begin a new interval.
AsksAgain(c) ==
    /\ mode = "run"
    /\ Takes(c)
    /\ Charge(currentProcess, Elapsed(c))
    /\ UNCHANGED <<vars, startTOD, twice, used, born>>

\* SYS6 reads the clock twice: for the charge, and for the new interval.
SysCall6(c) ==
    /\ mode = "run"
    /\ Takes(c)
    /\ \E k \in 0 .. c : Charge(currentProcess, Elapsed(k))
    /\ startTOD' = now'
    /\ UNCHANGED <<vars, twice, used, born>>

WaitsForClock(c) ==
    /\ Takes(c)
    /\ SysCall7
    /\ Charge(currentProcess, Elapsed(c))
    /\ Dispatch
    /\ UNCHANGED <<twice, used, born>>

\* SLIP: done() begins a new interval, and the last one is forgotten.
IntervalForgotten(c) == 0

\* done() moves startTOD by what the handler took, so that the interrupted
\* process is not charged for it.
Interrupted(c) == Elapsed(c) - c

Preempt(c) ==
    /\ Takes(c)
    /\ LocalTimer
    /\ IF currentProcess = NULL THEN UNCHANGED p_time
       ELSE Charge(currentProcess, Interrupted(c))
    /\ Dispatch
    /\ UNCHANGED <<twice, used, born>>

\* The interval timer charges the handler to those it releases, each until its
\* own turn.
Tick(c) ==
    /\ Takes(c)
    /\ IntervalTimer
    /\ \E share \in [Range(semQ[Clock]) -> 0 .. c] :
          p_time' = [p \in Pcb |-> IF p \in Range(semQ[Clock]) THEN p_time[p] + share[p]
                                   ELSE IF p = currentProcess THEN p_time[p] + Interrupted(c)
                                   ELSE p_time[p]]
    /\ Dispatch
    /\ UNCHANGED <<twice, used, born>>

------------------------------------------------------------------------------
TimeInit ==
    /\ Init
    /\ now = 0
    /\ startTOD = 0
    /\ p_time = [p \in Pcb |-> 0]
    /\ twice = [p \in Pcb |-> 0]
    /\ used = [p \in Pcb |-> 0]
    /\ born = [p \in Pcb |-> 0]

TimeNext ==
    \/ Compute
    \/ \E c \in 0 .. MaxHandler :
          \/ Create(c) \/ End(c) \/ SysCall6(c) \/ WaitsForClock(c) \/ Preempt(c) \/ Tick(c)
          \/ \E s \in Mutex : Signals(c, s) \/ Waits(c, s)

TimeSpec == TimeInit /\ [][TimeNext]_timeVars

------------------------------------------------------------------------------
\* What SYS6 would answer.
CpuTime(p) == p_time[p] + (IF p = currentProcess THEN now - startTOD ELSE 0)

\* No tick of a process is forgotten, whoever interrupts it and whatever it
\* waits for.
EnoughCpuTime == \A p \in Pcb \ free : CpuTime(p) >= used[p]

\* But for what SYS4 charges and scheduler() charges again, no interval is
\* charged twice: a process is not charged more than the time since it was
\* created, through any sequence of waits, interrupts and questions.
ChargedOnce == \A p \in Pcb \ free : CpuTime(p) - twice[p] <= now - born[p]

\* What an induction needs besides: the types, and that no process was
\* dispatched in the future.
TimeInv ==
    /\ now \in Nat /\ startTOD \in Nat /\ startTOD <= now
    /\ p_time \in [Pcb -> Int] /\ twice \in [Pcb -> Int]
    /\ used \in [Pcb -> Int] /\ born \in [Pcb -> Int]
    /\ EnoughCpuTime
    /\ ChargedOnce
==============================================================================
