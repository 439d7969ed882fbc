------------------------------- MODULE P2Test -------------------------------
(***************************************************************************)
(* The test program of src/phase2/p2test.c on the nucleus of NucleusMemory.*)
(*                                                                         *)
(* Programs gives the calls of each process in their order.  A message is  *)
(* one character long, a loop that wastes time is left out, a loop over    *)
(* semaphores nobody else knows goes round once, a loop that waits for     *)
(* time to pass goes round any number of times ("again"), and what a       *)
(* process compares is an instruction of its own, "expect" or "check".     *)
(***************************************************************************)
EXTENDS NucleusMemory

CONSTANTS
    Address,     \* the address of each semaphore, by the name p2test.c gives it
    procTable,   \* the blocks, in the order of the free list
    semdTable,   \* the descriptors, in the order of theirs
    MaxEarly     \* BOUND: so many interrupts come while a process runs

VARIABLES
    state,       \* p_state: the program a block runs, how far, whether
                 \* interrupts are masked, and what WAITIO left in v0
    vectors,     \* the kinds of trap a process has a handler for
    global,      \* the variables of p2test.c the processes share
    early        \* how many interrupts came while a process ran

testVars == <<mem, currentProcess, sem, processCount, softBlockCount, busy, mode,
              missed, lists, calls, work, state, vectors, global, early>>

Terminal0 == Address["terminal"]

\* SLIP: without mutual exclusion.
PrintAtOnce == <<<<"out">>, <<"waitio">>, <<"check">>>>

print == <<<<"P", "term_mut">>, <<"out">>, <<"waitio">>, <<"check">>, <<"V", "term_mut">>>>

\* The handlers of p5 run with interrupts masked until they load the old state.
Handler == print \o <<<<"ldst">>>>

\* One round of the loop of test() over the incarnations of p8root.
Incarnation == <<<<"create", "p8root">>, <<"P", "endp8">>>>

test ==
    <<<<"V", "testsem">>>> \o print
    \o <<<<"create", "p2">>>> \o print \o <<<<"V", "startp2">>, <<"P", "endp2">>, <<"expect", "p1p2synch">>>>
    \o <<<<"create", "p3">>>> \o print \o <<<<"P", "endp3">>>>
    \o <<<<"create", "p4">>, <<"create", "p5">>, <<"create", "p6">>, <<"create", "p7">>>>
    \o <<<<"P", "endp5">>>> \o print \o <<<<"P", "blkp4">>>>
    \o Incarnation \o Incarnation \o Incarnation \o Incarnation
    \o print \o <<<<"finish">>, <<"trap", "PROGTRAP">>>>

p2 ==
    <<<<"P", "startp2">>>> \o print \o <<<<"V", "s">>, <<"P", "s">>, <<"expect", "s">>>> \o print
    \o print \o <<<<"set", "p1p2synch">>, <<"V", "endp2">>, <<"end">>>>

\* WAITCLOCK until half an interval has passed.
Delay == <<<<"clock">>, <<"again">>>>

CLOCKLOOP == 10

p3 ==
    Delay \o print \o [i \in 1 .. CLOCKLOOP |-> <<"clock">>] \o print
    \o <<<<"V", "endp3">>, <<"end">>>>

p4 ==
    print \o <<<<"V", "synp4">>, <<"P", "blkp4">>, <<"P", "synp4">>, <<"create", "p4">>>>
    \o <<<<"P", "synp4">>>> \o print \o <<<<"V", "endp4">>, <<"end">>>>

p5 ==
    print \o print
    \o <<<<"vector", "PROGTRAP">>, <<"vector", "TLBTRAP">>, <<"vector", "SYSTRAP">>>>
    \o <<<<"trap", "PROGTRAP">>>> \o Handler

p5a == <<<<"trap", "TLBTRAP">>>> \o Handler

\* In user mode SYS4 is a program trap, after which p5b starts again.
p5b ==
    <<<<"trap", "SYSTRAP">>>> \o Handler \o <<<<"trap", "PROGTRAP">>>> \o Handler
    \o <<<<"trap", "SYSTRAP">>>> \o Handler
    \o <<<<"P", "endp4">>>> \o Delay
    \o <<<<"V", "blkp4">>, <<"V", "endp5">>, <<"vector", "PROGTRAP">>>>

p6 == print \o <<<<"trap", "SYSTRAP">>>>

p7 == print \o <<<<"trap", "PROGTRAP">>>>

p8root ==
    print \o <<<<"create", "child1">>, <<"create", "child2">>>>
    \o <<<<"P", "endcreate">>, <<"P", "endcreate">>, <<"P", "endcreate">>, <<"P", "endcreate">>>>
    \o <<<<"V", "endp8">>, <<"end">>>>

child1 == print \o <<<<"create", "p8leaf">>, <<"create", "p8leaf">>, <<"P", "blkp8">>>>

child2 == print \o <<<<"create", "p8leaf">>, <<"create", "p8leaf">>, <<"P", "blkp8">>>>

p8leaf == print \o <<<<"V", "endcreate">>, <<"P", "blkp8">>>>

Programs ==
    [test |-> test, p2 |-> p2, p3 |-> p3, p4 |-> p4, p5 |-> p5 \o p5a \o p5b,
     p6 |-> p6, p7 |-> p7, p8root |-> p8root, child1 |-> child1, child2 |-> child2,
     p8leaf |-> p8leaf]

Start(program, masked) ==
    [program |-> program, at |-> 1, masked |-> masked, v0 |-> "other"]

Running == state[currentProcess]

\* Behind the last call of a process an error is reported.
Instruction ==
    LET program == Programs[Running.program] IN
    IF Running.at \in DOMAIN program THEN program[Running.at] ELSE <<"error">>

------------------------------------------------------------------------------
TestInit ==
    /\ InitWith(procTable, semdTable)
    /\ sem = [a \in SemAdd |-> IF a \in {Address["term_mut"], Address["blkp4"]} THEN 1 ELSE 0]
    \* main() leaves interrupts off in the state the first process is loaded from
    /\ state = [p \in Pcb |-> Start("test", TRUE)]
    /\ vectors = [p \in Pcb |-> {}]
    /\ global = [p1p2synch |-> FALSE, failed |-> FALSE, panic |-> FALSE, finished |-> FALSE]
    /\ early = 0

Executes(op) == mode = "run" /\ Instruction[1] = op

GoOn == state' = [state EXCEPT ![currentProcess].at = @ + 1]

Semaphore == Address[Instruction[2]]

PerformV ==
    /\ Executes("V")
    /\ SysCall3(Semaphore)
    /\ GoOn
    /\ UNCHANGED <<vectors, global, early>>

PerformP ==
    /\ Executes("P")
    /\ SysCall4(Semaphore)
    /\ GoOn
    /\ UNCHANGED <<vectors, global, early>>

Create ==
    /\ Executes("create")
    /\ SysCall1
    /\ LET new == allocPcb(mem).ptr IN
       IF new = NULL
       THEN /\ global' = [global EXCEPT !.failed = TRUE]
            /\ GoOn
            /\ UNCHANGED vectors
       ELSE /\ state' = [state EXCEPT ![currentProcess].at = @ + 1,
                                      ![new] = Start(Instruction[2], FALSE)]
            /\ vectors' = [vectors EXCEPT ![new] = {}]
            /\ UNCHANGED global
    /\ UNCHANGED early

End ==
    /\ Executes("end")
    /\ SysCall2
    /\ UNCHANGED <<state, vectors, global, early>>

WaitClock ==
    /\ Executes("clock")
    /\ SysCall7
    /\ GoOn
    /\ UNCHANGED <<vectors, global, early>>

Out ==
    /\ Executes("out")
    /\ StartIO(Terminal0)
    /\ GoOn
    /\ UNCHANGED <<vectors, global, early>>

\* A caller that waits gets its answer from the interrupt.  One that does not, for
\* the terminal has answered, finds in v0 what was there before: by chance the
\* status it expects, or something "stale".
WaitIO ==
    /\ Executes("waitio")
    /\ SysCall8(Terminal0)
    /\ \E v \in IF currentProcess' = currentProcess THEN {"received", "stale"} ELSE {"other"} :
          state' = [state EXCEPT ![currentProcess].at = @ + 1,
                                 ![currentProcess].v0 = v]
    /\ UNCHANGED <<vectors, global, early>>

\* print() panics unless v0 holds the status of a character received.
Check ==
    /\ Executes("check")
    /\ IF Running.v0 = "received"
       THEN /\ state' = [state EXCEPT ![currentProcess].at = @ + 1,
                                      ![currentProcess].v0 = "other"]
            /\ UNCHANGED global
       ELSE /\ global' = [global EXCEPT !.panic = TRUE]
            /\ UNCHANGED state
    /\ UNCHANGED <<vars, vectors, early>>

\* SYS5: the second vector of a kind ends the process.
Vector ==
    LET t == Instruction[2] IN
    /\ Executes("vector")
    /\ IF t \in vectors[currentProcess]
       THEN SysCall2 /\ UNCHANGED <<state, vectors>>
       ELSE /\ vectors' = [vectors EXCEPT ![currentProcess] = @ \cup {t}]
            /\ Become(Globals)
            /\ GoOn
            /\ UNCHANGED busy
    /\ UNCHANGED <<global, early>>

\* A trap is passed up to the handler of the process, or ends it.
Trap ==
    /\ Executes("trap")
    /\ IF Instruction[2] \in vectors[currentProcess]
       THEN /\ state' = [state EXCEPT ![currentProcess].at = @ + 1,
                                      ![currentProcess].masked = TRUE]
            /\ Become(Globals)
            /\ UNCHANGED busy
       ELSE SysCall2 /\ UNCHANGED state
    /\ UNCHANGED <<vectors, global, early>>

\* What the process finds is not what it expects.
Wrong ==
    CASE Instruction[1] = "error" -> TRUE
      [] Instruction[2] = "s" -> sem[Semaphore] # 0
      [] OTHER -> ~ global[Instruction[2]]

\* What a process does without the nucleus.
Compute ==
    /\ mode = "run"
    /\ \/ /\ Instruction[1] = "ldst"
          /\ state' = [state EXCEPT ![currentProcess].at = @ + 1,
                                    ![currentProcess].masked = FALSE]
          /\ UNCHANGED global
       \/ /\ Instruction[1] = "again"
          /\ \E n \in {-1, 1} : state' = [state EXCEPT ![currentProcess].at = @ + n]
          /\ UNCHANGED global
       \/ /\ Instruction[1] = "set"
          /\ global' = [global EXCEPT ![Instruction[2]] = TRUE]
          /\ GoOn
       \/ /\ Instruction[1] \in {"expect", "error"}
          /\ global' = [global EXCEPT !.failed = Wrong]
          /\ GoOn
       \/ /\ Instruction[1] = "finish"
          /\ global' = [global EXCEPT !.finished = TRUE]
          /\ GoOn
    /\ UNCHANGED <<vars, vectors, early>>

\* The answer of the terminal is in v0 of the process it wakes.
Answered ==
    LET p == headBlocked(mem, Terminal0) IN
    /\ DeviceInterrupt(Terminal0)
    /\ state' = IF sem[Terminal0] < 0 /\ p # NULL
                THEN [state EXCEPT ![p].v0 = "received"] ELSE state

\* An interrupt: while a process runs that does not mask it, or in WAIT.
Interrupt ==
    /\ \/ mode = "wait" /\ UNCHANGED early
       \/ /\ mode = "run" /\ ~ Running.masked
          /\ early < MaxEarly
          /\ early' = early + 1
    /\ \/ LocalTimer /\ mode = "run" /\ UNCHANGED state
       \/ IntervalTimer /\ lists.waits[Clock] # <<>> /\ UNCHANGED state
       \/ Answered
    /\ UNCHANGED <<vectors, global>>

\* A round of a loop of the nucleus.
Round ==
    /\ KillEverything \/ WakeAll
    /\ UNCHANGED <<state, vectors, global, early>>

\* The first error ends the test.
TestNext ==
    /\ ~ global.failed /\ ~ global.panic
    /\ \/ PerformV \/ PerformP \/ Create \/ End \/ WaitClock \/ Out \/ WaitIO \/ Check
       \/ Vector \/ Trap \/ Compute \/ Interrupt \/ Round

\* The processor goes on, and an operation of the terminal completes.
TestSpec == TestInit /\ [][TestNext]_testVars

------------------------------------------------------------------------------
\* The test passes: no process reports an error or panics, and the nucleus
\* neither stops nor faults before test() has printed its last line.
TestPasses ==
    /\ ~ global.failed /\ ~ global.panic
    /\ mode \in {"halt", "panic", "fault", "returned"} => global.finished

\* It passes when interrupts come only in WAIT, though unlinkings miss.
QuietTestPasses == early = 0 => TestPasses

\* print() panics over a command that was answered before its WAITIO: that call
\* passes at once, and sysCall8 leaves v0 as it was.
LateForStatus == global.panic /\ Running.v0 = "stale"

\* Whatever interrupts come, nothing else goes wrong unless an unlinking misses.
PassesUnlessMissed == ~ missed => TestPasses \/ (LateForStatus /\ ~ global.failed)

\* The processes between the P and the V of print().
Writing(p) ==
    LET program == Programs[state[p].program] IN
    /\ p \notin lists.free
    /\ p \notin Range(lists.waits[Address["term_mut"]])
    /\ state[p].at \in DOMAIN program
    /\ program[state[p].at] \in {<<"out">>, <<"waitio">>, <<"check">>, <<"V", "term_mut">>}

\* One process writes on the terminal at a time, also with the memory a missed
\* unlinking leaves behind.
OneWriter == \A p, q \in Pcb : Writing(p) /\ Writing(q) => p = q
==============================================================================
