# A specification of the Kaya nucleus

The repository is an operating system in C for the uMPS2 machine, written in
three phases: lists of process control blocks (phase 1), a nucleus with eight
system calls, a scheduler and interrupt handlers (phase 2), and the beginning of
a support level for user processes (phase 3).  This directory holds TLA+ modules
that model phases 1 and 2 and the parts of phase 3 that have a body, configurations
that check them with TLC, and proofs that TLAPS checks.

Contents: 1 the system, 2 the modules, 3 what each run shows, 4 bounds,
5 fairness and stopping, 6 what is proved, 7 what is not modelled, 8 plan.

## 1. The system

### Components

| component | state | operations |
|---|---|---|
| process queues (`phase1/pcb.c` 72-200) | circular doubly linked lists, reached by a tail pointer | `insertProcQ`, `removeProcQ`, `outProcQ`, `headProcQ` |
| process tree (`phase1/pcb.c` 206-289) | `p_child`, `p_parent`, `p_nextSib`, `p_prevSib` of each block | `insertChild`, `removeChild`, `outChild` |
| free list (`phase1/pcb.c` 12-67) | `pcbFree_h`, singly linked by `p_next` | `allocPcb`, `freePcb`, `initPcbs` |
| active semaphore list (`phase1/asl.c`) | a list of descriptors sorted by address between two dummies, a free list of descriptors, `p_semAdd` of each block | `insertBlocked`, `removeBlocked`, `outBlocked`, `headBlocked`, `initASL` |
| nucleus start (`phase2/initial.c`) | `readyQ`, `currentProcess`, `processCount`, `softBlockCount`, `semd[]` | `main` |
| scheduler (`phase2/scheduler.c`) | the quantum, `startTOD`, `p_time` | `scheduler` |
| system calls and traps (`phase2/exceptions.c`) | the semaphores of the processes, the trap vectors of each block | SYS1 to SYS8, `killEverything`, `passUpOrDie` |
| interrupts (`phase2/interrupts.c`) | the device semaphores, the interval timer | `interruptHandler`, `done`, `getDevice` |
| user process start (`phase3/initProc.c`) | `userProcs[]`, `masterSem`, `semTable[]`, segment tables | `test`, `initUProc`, `readTape`, `diskOp` |
| user system calls (`phase3/sysSupport.c`) | none of its own: the old area of the system calls | SYS10, SYS17, and eight empty ones |
| test of phase 2 (`phase2/p2test.c`) | the semaphores and flags its processes share | the processes `test`, `p2` to `p8leaf` |

The queues, the tree and the active semaphore list are libraries that only the
nucleus (and `p1test.c`) calls.  The nucleus is entered by the machine through
four new areas (system call, program trap, TLB trap, interrupt); each handler runs
with interrupts disabled and ends in `LDST`, in `scheduler()`, or in
`HALT`/`PANIC`.  Processes and devices interact only through the nucleus: a
process writes a device register, the device interrupts, the handler makes a V on
`semd[]`, and the process waits with SYS8 (or SYS7 for the pseudo-clock).

### What is hard

* *Order of events around atomic handlers.*  Handlers do not interleave, but a
  device may answer before anyone waits, while somebody waits, or after the
  waiter was killed; the quantum may end, and the clock fire, at any instruction.
* *Kills.*  SYS2, a second SYS5, a trap with no vector, a SYS8 for a bad line:
  each ends a whole subtree whose members may be running, ready, waiting for a
  mutex, for a device or for the clock, and each kind of waiter needs different
  repairs of `processCount`, `softBlockCount` and the semaphore.
* *Verdicts by counters.*  `scheduler()` halts, waits or panics by two counters
  that ten code paths maintain.
* *Pointers.*  Blocks and descriptors are used again with the links and marks of
  their last use; the functions of `pcb.c` unlink a block in different ways for
  head, tail and middle.
* *Ignored failures.*  `insertBlocked` reports that no descriptor is left, and
  none of its callers looks.
* *Progress.*  Ready processes must run, and waiters must be released, though
  every interrupt puts the interrupted process at the end of the queue, lines are
  served in a fixed order, and the first process masks interrupts.
* *Charges.*  Five places move `startTOD` or `p_time`; each interval should be
  charged once.
* *Shared areas.*  The machine has one old area for system calls, which the next
  call of anybody overwrites.

`PROJECT.json` lists these hazards line by line, with the properties that catch
them.

### What makes each component correct

* Queues and tree: pointers always stand for lists; each function changes the list
  at one place and returns what it says, for blocks that are used again too.
* Active semaphore list: descriptors are conserved; the list is sorted, without
  empty entries; `p_semAdd` agrees with where a block waits; failure only with no
  descriptor left.
* Nucleus: a live process is in exactly one place; counters agree with the
  queues; the value of a semaphore agrees with its queue, also after kills; the
  live processes are one tree; a kill ends a subtree and nothing else; the
  scheduler is right to halt, wait or panic; a V wakes exactly one waiter or
  lets exactly one later P pass; ready processes run; waiters are released.

## 2. The modules

| module | what it is | code |
|---|---|---|
| `PcbMemory` | the functions of `pcb.c` on memory | `phase1/pcb.c` |
| `ProcQueues` | state machine: any legal sequence of calls of `pcb.c` | `phase1/pcb.c` |
| `ProcLists` | abstract: queues, child lists and a free set | implemented by `ProcQueues` |
| `AslMemory` | the functions of `asl.c` on memory | `phase1/asl.c` |
| `ActiveSemaphores` | state machine: any legal sequence of calls of `asl.c` | `phase1/asl.c` |
| `WaitLists` | abstract: one queue per semaphore, a bounded number not empty | implemented by `ActiveSemaphores` |
| `Queues` | operators on queues (sequences) and on the process tree | used by the others |
| `Nucleus` | the handlers of the nucleus over the abstract lists | `phase2/*.c` |
| `NucleusMemory` | the handlers over the pointers of `PcbMemory` and `AslMemory` | `phase2/*.c`; implements `Nucleus` |
| `Lifecycle` | abstract: processes that run, wait and end; no queues or counters | implemented by `Nucleus` |
| `NucleusLifecycle` | the refinement mapping from `Nucleus` to `Lifecycle` | |
| `Interrupts` | pending lines, their order, acknowledgement, status in `v0`, around `Nucleus` | `phase2/interrupts.c` |
| `CpuTime` | what is charged to whom, around `Nucleus` | `phase2/scheduler.c`, `exceptions.c`, `interrupts.c` |
| `P2Test` | the processes of the test over `NucleusMemory` | `phase2/p2test.c` |
| `UserStart` | `test()` and `initUProc()` as processes of `Nucleus` | `phase3/initProc.c` |
| `UserSyscalls` | the handler of user system calls in several processes | `phase3/sysSupport.c` |
| `QueueLemmas`, `NucleusProofs` | lemmas and theorems | about `Queues` and `Nucleus` |
| `MachineProofs` | theorems on what is around the nucleus | about `NucleusLifecycle`, `Interrupts` and `CpuTime` |
| `PcbLemmas`, `ProcQueuesProofs` | lemmas on each function of `pcb.c`, and theorems | about `PcbMemory` and `ProcQueues` |
| `AslLemmas`, `ActiveSemaphoresProofs` | lemmas on each function of `asl.c`, and theorems | about `AslMemory` and `ActiveSemaphores` |
| `NucleusMemoryProofs` | the pointers implement the nucleus | about `NucleusMemory`, with the lemmas of the three before and the theorems of `NucleusProofs` |
| `MCProcQueues`, `MCActiveSemaphores`, `MCNucleusMemory` | symmetry sets for TLC | |
| `MCInterrupts`, `MCP2Test` | positions of devices, addresses and blocks for TLC | |

### The two levels

The pointer level (`PcbMemory`, `ProcQueues`, `ActiveSemaphores`) shows that the
pointers implement lists, and where they do not.  The list level (`Nucleus`)
takes the lists that `ProcLists` and `WaitLists` describe and models the handlers.
They meet in `NucleusMemory`, which has the handlers as operators on a record of
the globals, with the calls of `pcb.c` and `asl.c` in the order of the code, and
the recursion of `killEverything` call by call.  Its property `ImplementsNucleus` says
that every handler is a step of `Nucleus` on the lists in memory until an unlinking misses
(`missed`), and that one misses exactly in a kill that `Nucleus` calls out of reach.
It is checked on a small instance and proved for all (section 6).

* `ProcQueues` implements `ProcLists` and `ActiveSemaphores` implements
  `WaitLists` **for all calls except two**: `outProcQ` (hence `outBlocked`) for
  the head of a queue, and `outChild` for a child with siblings on both sides.
  Those two are defects of the code, after which the pointers stand for no list.
  The run `out_head` shows the first; that both always miss, and nothing else does, is
  part of `ImplementsNucleus`.
* The only caller of these functions in the nucleus is `killEverything` (with
  `sysCall2`).  In `Nucleus`, a kill that would make one of the two calls
  (`OutOfReach`) leads to `mode = "broken"`, where the module stops: everything
  that is checked and proved about `Nucleus` is about executions up to the first
  such kill.  It is the boundary of the list level, not a claim that the code stops
  there: what it does then is seen in the run of `P2Test`.
* `OutOfReach` looks at the queues before the kill.  That is exact: a victim at the
  head of a queue is still its head when its turn comes, whatever victims were
  taken before it, and the heads that are no victims stay heads.  That is part of what
  the proof of `ImplementsNucleus` shows.

### PcbMemory, ProcQueues, ProcLists

Memory is a function from locations (`next(p)`, `tail(q)`, `FreeHead`, ...) to
blocks or `NULL`.  A C function is an operator that takes a memory and returns
one, with the pointer it returns.  A parameter `pcb_PTR *tp` is a location, so
that the mistaken `removeProcQ(*tp)` of `outProcQ` can be modelled as what it
compiles to: the location of the first field of that block, `p_next`.  A function
that ends without `return` yields `Undefined`, and the caller may see any pointer.
A write through `NULL` changes nothing; a read through it is an error that TLC reports
and that the proofs exclude.  The last call is part of the state (`call`, with its arguments, and `result`), in the
abstract modules too: without it, a `removeProcQ` that does nothing could pass for a
`headProcQ` of another, empty queue.

`ProcQueues` has an action per function.  `queue`, `kids` and `free` are *views*:
they are computed from `mem` after each call (`Leaves`) and kept as variables
because invariants and guards read them often.  Guards say what a legal caller
does (it frees only blocks in no list, adopts only blocks that have been in no
tree since they were allocated, as the nucleus does); `ProcLists` has the same
guards on its own lists.  The callers may use queues and trees together, and the
theorems are about such callers; `MCProcQueues` lets a behaviour use one of the two
(`use`), so that four blocks can be checked.

### AslMemory, ActiveSemaphores, WaitLists

Descriptors are located in the same memory, the tail of a descriptor's queue
being `tail(d)`.  The addresses of semaphores are numbers, for the list is sorted
by them.  The two dummies (`semdTable[MAXPROC]` and the next) delimit it as in
`initASL`.  `semQ` is a view again.

### Nucleus

One handler activation is one action, since the handlers run with interrupts
disabled.

| action | code |
|---|---|
| `Init` | `main()` |
| `SysCall1`, `SysCall1Fails` | `sysCall1` with and without a free block |
| `SysCall2`, `Terminate`, `KillEverything` | `sysCall2`, `killEverything` |
| `SysCall3(s)`, `SysCall4(s)` | V and P |
| `SysCall5(t)` | trap vector, or death for the second of its kind |
| `SysCall7`, `SysCall8(d)` | wait for the clock, wait for a device |
| `PassUpOrDie(t)` | `passUpOrDie`: the user's handler, or death |
| `LocalTimer`, `IntervalTimer`, `DeviceInterrupt(d)` | the lines of `interruptHandler` |
| `StartIO(d)` | a process writes a command register (machine, not code) |

`Scheduler(q, count, soft)` and `Done(q, soft)` are the common tails.  `readyQ`,
`kids`, `semQ` are sequences, `free` is a set, and `sem` gives the value of every
semaphore, those of processes (`Mutex`) and those of `semd[]` (`Device`, `Clock`).
`mode` says what the machine does between two handlers: run a process, WAIT, HALT,
PANIC; "returned" is a `scheduler()` that falls through all its tests, which
`VerdictIsRight` shows never happens before a kill is out of reach.  SYS6, a SYS5
with a trap type that does not exist and a failed SYS1 change no state at this level.

A block that SYS1 takes is any free block: which one the free list has first
matters to nobody above it.

### Lifecycle

`Lifecycle` knows neither queues nor counters: processes are in sets, `tokens[s]`
is how many P operations pass, `owed[s]` is how many answers a device still owes to
waiters that ended, and `rest` is decided by where the processes are.
`NucleusLifecycle` maps `tokens` to the positive part of `sem`, `owed` to how much
deeper a `semd[]` semaphore is than its queue is long, and `parent` to the inverse
of `kids`.

### NucleusMemory

The same handlers as in `Nucleus`, for one kind of request each, on `mem`: the
record `Globals` goes through the calls of a handler in their order, and `Become`
takes what is left.  `lists` is the view that `ImplementsNucleus` compares.

Two handlers loop, over a number of blocks that nothing bounds: `killEverything`, which
is besides recursive, and the interval timer.  Each round is an action
(`KillEverything`, `WakeAll`).  `work` holds the globals as the rounds so far have
changed them, and `calls` the calls of `killEverything` that are open, the innermost
first; the variables that stand for the globals change when the handler ends.  Since
handlers run with interrupts disabled nobody sees what is in between, and for `Nucleus`
the rounds before the last are stutters.

| action | code |
|---|---|
| `SysCall2` | `sysCall2`: `EndAlone`, or the first call of `killEverything` |
| `KillEverything` | its `while` goes down to the eldest child, or the call returns (`Ended`) to the one that made it, or, from the first call, to `scheduler()` |
| `IntervalTimer` | the interrupt of line 2, up to its loop |
| `WakeAll` | one waiter made ready, or what is behind the loop |

`missed` becomes true with the first unlinking that leaves a block where it was;
`Spec` stops there, since every pointer in memory matters after it and the states
are too many.  `mode = "fault"` is a `removeProcQ` that would follow a null pointer.
`InitWith` takes the order of the free lists as an argument; `Init` allows every order
with `RootPcb` in front, since it is the block that `main()` allocates first.

### P2Test

Each process of `p2test.c` is a sequence of calls (`Programs`), and `state` says
where each block is in its own.  An interrupt may come before any instruction of a
process that does not mask it; `MaxEarly` of them may, besides those in WAIT.  The
free lists are in one order, as the start of the machine leaves them up to the
names of blocks.  What is not there: the text of messages (one character each), the
loops that waste time, and the comparisons of times by p2 and p3 (`CpuTime` treats
the charges).  The loop of p3 that waits until half an interval has passed, and that of
p5b, go round any number of times (`Delay`); the ten WAITCLOCKs of p3 (`CLOCKLOOP`) are
all there.  SYS4 in user mode is a program trap, after which `p5b` starts again,
as `p5prog` has it.  The first error ends the behaviour.

`print()` panics unless its WAITIO returns the status of a received character
(`Check`, `p2test.c` 125-126).  The interrupt handler leaves that status in `v0` of
the process it wakes (`Answered`); a WAITIO that does not wait leaves what was there
(`WaitIO`: either value, since the code says nothing of it).

### Interrupts

`Interrupts` adds to `Nucleus` which lines are pending (`quantumOver`, `clockOver`,
`answered`) and what `v0` holds.  `Taken` is the machine's rule, and `Line1`,
`Line2`, `DeviceLine` the branches of `interruptHandler()` in their order; a
terminal is two devices at one position, of which `Chosen` picks one as the code
does.  Assumed of the machine, and not to be read in the repository:

* a pending line 1 stays until the local timer is loaded, a pending line 2 until
  the interval timer is, a device until it is acknowledged;
* an acknowledgement of a device at work changes nothing;
* the local timer runs only while a process executes: the new areas of the handlers
  and the status of WAIT have TE off (`phase2/initial.c` 54, `phase2/scheduler.c` 65);
* the devices that have answered are served in less than a period of the clock.

### CpuTime

Time is a number of ticks.  A process uses one per `Compute`, and each handler takes
up to `MaxHandler`; between two reads of the clock in a handler any part of them may
pass.  `p_time` is charged as the code does, `used` is what the process should have
been charged at least, `born` when the block was allocated, and `twice` what SYS4
charged before `scheduler()` charged the same interval.  Interrupts of
devices charge as line 1 does and are left out, as are traps.

### UserStart, UserSyscalls

In `UserStart`, the state that SYS1 gets in `test()` is behind a pointer that was
never set: writing it may trap, and the new process may start anywhere (`Trap`,
"nowhere"), or in `initUProc()`.  `TapeSem` is the semaphore that SYS8 computes for
the tape: `asid` is 0 in all of them, so that the device number is -1 and the
semaphore is the last disk's.  `StartIO(TapeSem)` stands for the command to the
tape, so that the model is kinder than the code: in the code no interrupt of a tape
makes a V on that semaphore.  Segment and page tables are written and never read.

In `UserSyscalls`, a state is only the process it belongs to, which is what
`sysCall17` may get wrong.  A call without body falls off the end of the handler,
which has no caller; here it stays in it.  `sysCall10` makes a P on address 1, which
traps in the nucleus itself.

### SLIP definitions

An operator whose comment begins with `SLIP` is a mistake that the code could have
made and does not make, such as a missing reset or the wrong end of a queue.  No
behaviour uses them.  For each property there is one that replaces the definition
named in `PROJECT.json` ("mutants"): with it, TLC finds the property violated,
which shows that the property can tell the code from a slip in it.

## 3. The runs

| run | shows |
|---|---|
| `nucleus` | `TypeOK`, `NoProcessLost`, `CountsAgree`, `SemaphoresAgree`, `VerdictIsRight`, `OneTree`, `VectorsLastALifetime` in every order of calls, traps and interrupts; `ImplementsLifecycle`; `ReadyRuns` under `Fairness` |
| `proc_queues` | `TypeOK`, `LinksAgree`, `ImplementsLists`: four blocks in two queues or in trees, so that heads, tails, two middles, and moves between the queues occur |
| `asl` | four blocks, three semaphores, two descriptors: `DescriptorsKept`, `MarksAgree`, `ImplementsWaitLists`; `insertBlocked` does fail here |
| `nucleus_memory` | `TypeOK` and `ImplementsNucleus` on the pointers, for four blocks with all kinds of waiters, so that trees have grandchildren and middle children; `KillsOneSubtree`: the recursion of `killEverything` takes each process of a subtree off `processCount` once, also in a kill in which an unlinking misses |
| `p2test` | `QuietTestPasses`: with interrupts only in WAIT, the test of phase 2 prints its last line and reports no error, though unlinkings miss on the way; with up to two interrupts at any instruction, `PassesUnlessMissed` (whose exception is the panic of `print()` after a WAITIO that came too late to wait) and `OneWriter` |
| `lines` | `ClockServed`, `DeviceServed` under `FairLines`, for a disk and a terminal, if the first process never runs a whole quantum; with three processes a waiter may be killed and survived, and the answer that is owed to the dead keeps nobody from being released |
| `cpu_time` | `EnoughCpuTime`, `ChargedOnce` |
| `out_head` | **violated**: `outProcQ` for the head of a queue |
| `lines_status` | **violated**: the receiver's interrupt wakes the writer |
| `lines_timer` | **violated**: the clock is not served if the first process runs a whole quantum |
| `user_start` | **violated**: `test()` of phase 3 never ends |
| `user_syscalls` | **violated**: SYS17 returns to another process |

`nucleus` has four semaphores and three descriptors, so that `NoProcessLost` covers
the ignored result of `insertBlocked`: it is never a failure, since a running process
leaves at most MAXPROC - 1 waiters.

The violated runs check what comments and tests of the repository expect, and are
findings:

* `outProcQ` (`phase1/pcb.c` 151 and 163) passes `*tp` where `removeProcQ` takes
  the location `tp`.  With one block the tail pointer keeps pointing to it; with
  more, the second block is unlinked and returned.  The test of phase 1 reports
  "outProcQ failed on first entry" unless the block asked for is returned.
* The handler tells the halves of a terminal apart by "not READY", which BUSY is too
  (`phase2/interrupts.c` 147): an interrupt of the receiver makes the V for a
  transmission that still goes on.
* If the quantum of the first process runs out before it blocks and leaves nobody
  ready, WAIT is entered with line 1 pending, `done()` goes back to WAIT without
  loading the timer, and neither clock nor devices are served again
  (`phase2/interrupts.c` 64): `ClockServed` fails with `RootIsQuick = FALSE`.
* `test()` of phase 3 waits for a semaphore that nobody signals
  (`phase3/initProc.c` 103).
* `userSyscallHandler` (`phase3/sysSupport.c` 39) reads the old area of the machine
  instead of the one of the process, with interrupts enabled.  With `readTape()` as it
  is no process gets as far as to specify this handler; the run is about some that have.

### What the models say besides

The following was seen while modelling.  It is in the models, but no run is
kept for it.

* `outChild` (`phase1/pcb.c` 281) tests `p->p_prevSib == NULL` in the only case
  where it cannot hold, and falls off the end of the function: a middle child stays.
  `p1test.c` 225-227 expects it to be returned.  `OutOtherFamily` in `PcbLemmas` proves
  what happens, and `ImplementsNucleus` that it is a miss.
* `outBlocked` (`phase1/asl.c` 78) and `killEverything` (`phase2/exceptions.c` 199)
  inherit the defect of `outProcQ`: a killed process at the head of a queue is freed
  and stays there.  At the head of the ready queue it is dispatched after its end.
  These are the kills `OutOfReach` names, and `missed` after them.
* Why the test of phase 2 passes all the same: in a quiet run its kills meet the
  defect of `outChild` (p5 and p6 end between siblings), which leaves freed blocks
  among the children of the first process.  Nobody looks at them until that process
  ends, after its last line.  Then their blocks are ended again, `processCount` is
  -2, and `scheduler()` (`phase2/scheduler.c` 59-71) has no case for that and returns.
* `main()` (`phase2/initial.c` 108) sets the current but not the previous interrupt
  bit, which is the one that counts when a state is loaded: the first process runs with
  interrupts masked, and keeps the processor as long as it likes.  `scheduler.c` 3-4
  calls the algorithm round robin.  `RootYields` is the assumption this costs.
* SYS8 that passes at once (`phase2/exceptions.c` 382) leaves `v0` as it was, where
  `print()` of `p2test.c` 125-126 panics unless it holds the status.  It takes an
  interrupt of the terminal between two instructions; a quiet run has none.  It is
  the exception in `PassesUnlessMissed` (`LateForStatus`): without it the run fails, and
  `StatusDelivered` would without any receiver too.
* `sysCall4` and `scheduler()` both charge the interval before a P that waits
  (`phase2/exceptions.c` 245, `phase2/scheduler.c` 46); `p2test.c` 315-316 calls more
  processor time than real time an error.  `ChargedOnce` is about all other charges,
  and `twice` is what it leaves out.
* `readTape()` (`phase3/initProc.c` 206) waits for the tape before it gives it a
  command, in a loop whose condition is always true (line 203), on a semaphore that is
  not the tape's: in `UserStart` no process gets behind it.

## 4. Bounds

* Blocks: three in `nucleus`, four at the pointer level.  Four is the least number with
  a middle child below a running parent, and with head, middle and tail of a ready
  queue besides it.  With three there are a parent, a child and a grandchild, or two
  children; what `nucleus` says of safety is proved for every number, and
  `nucleus_memory` has four blocks and the definitions of `Nucleus` as its abstraction.
* Semaphores: one device and the clock, as each kind has its own code path, and two
  mutexes, so that there are more semaphores than descriptors; one mutex with four
  blocks.
* `MaxSem` bounds from above: a V that would go beyond it is not taken, and
  no operation is started on a device whose semaphore is at it.  With 1 one token
  exists, which suffices for "a V that nobody waits for lets a later P pass"; the
  theorems hold for any value.  `nucleus_memory` has 0, for the value of a semaphore
  that nobody waits for touches no pointer; `P2Test` has tokens on the pointers.
* `MaxDebt` (1, 2 or 3) bounds how far a semaphore of `semd[]` falls; in `P2Test` (10)
  it is never reached.  A killed waiter lowers the semaphore of a device for good, so
  that values below what the queue explains do occur where it is at least 2 (`nucleus`,
  `lines`).  In `nucleus_memory` it is 1: a device and the clock have one waiter at a
  time, so that the loop of the clock goes round once and a soft waiter that is killed
  is at the head of its queue and always missed; longer queues there are those of the
  mutex, and the theorems cover the rest.  The semaphore of a mutex needs no bound: kills
  give it back.
* `TimerMatters`: in `nucleus_memory` the interval timer interrupts only when somebody
  waits for it; when nobody does, its handler does what that of line 1 does.  The theorems
  have no such restriction.
* `MAXINT` is an address above all semaphores.
* `MaxEarly` (2): how many interrupts come while a process of `P2Test` runs.  Behaviours
  with `early = 0` are the quiet ones; the others have both timers and the terminal at
  every pair of instructions of the whole test.
* `MaxTime` (5) and `MaxHandler` (1): a process is created, waits, is interrupted and
  asks for its time within five ticks; a handler of one tick suffices to tell reads
  of the clock before it from those after it.
* `MAXUPROC` (2): the loops of `test()` go round more than once.
* `Position`: a disk on line 3 and a terminal on line 7, the lowest and the highest line
  with devices; in `lines_status` both halves of terminal 0.
* `RootIsQuick` says whether the first process may run as long as a quantum.  It is an
  assumption on the program, under which `ClockServed` and `DeviceServed` hold
  (`lines`), and without which they do not (`lines_timer`).
* `lines` has three processes, so that one can wait where another was killed, and no
  mutex, which no line depends on.  It has `Receivers = {}`: with both halves the writer
  may be woken too early, which is `lines_status`.

Symmetry: blocks are interchangeable at the pointer level, in `nucleus_memory` all but
`RootPcb`, and so are its descriptors (`BlockSymmetry`).  No run with symmetry checks
liveness; the refinements checked under it have no fairness.

## 5. Fairness and stopping

`FairSpec` of `Nucleus` assumes one thing of the machine and nothing of the processes:
the quantum runs out for a process that keeps the processor (`scheduler()` loads
the local timer before every dispatch; `phase2/scheduler.c` 55).  The fairness is
per process, so that it is asked only of a process that keeps the processor, and
weak.  The first process is exempt, for it masks interrupts (`phase2/initial.c` 108):
`ReadyRuns` has as its hypothesis that it lets others run, or the processor wait, again
and again (`RootYields`).  Nothing is assumed of system calls: a process may compute
forever.

`Nucleus` assumes nothing of the clock and the devices, since the order of the lines may
keep the handler from them; that waiters are released is a question for `Interrupts`.

In `Interrupts` the machine takes pending interrupts itself, so that only the events
are assumed: the quantum of a process other than the first runs out, devices answer,
a pending interrupt that is not masked is taken (weak fairness), and the clock runs
down (strong, since `ClockEnds` may not come while devices are being served).
`ClockServed` and `DeviceServed` assume that the first process leaves the processor for
good at some time, as `test()` does while it waits.

`QuietTestPasses` is safety: the machine does not stop, and no process reports an error,
before the last line.  That the test gets there is not a property; the behaviours of the
run do reach it (the double end above is behind it).

`UserStart` is fair to the running process and to interrupts: its counterexample is no
process that stops by itself.

Deadlock is not checked in the runs of `Nucleus` and of the modules built on it
because the system does stop: in HALT, in PANIC, in mode "broken", after a miss in
`NucleusMemory`, at the last tick in `CpuTime`, and at the end of `P2Test`.
That it stops in no other case is `VerdictIsRight`.  The runs of the lists check for deadlock.

## 6. What is proved

Everything in this section holds for every number of blocks, processes, queues,
descriptors, semaphores, devices and kinds of trap, and for every value of the bounds.

| theorem | statement |
|---|---|
| `NucleusProofs.Invariance` | `Spec => []IInv` |
| `NucleusProofs.TypeCorrect` | `Spec => []TypeOK` |
| `NucleusProofs.ProcessesKept` | `Spec => []NoProcessLost` |
| `NucleusProofs.CountsRight` | `Spec => []CountsAgree` |
| `NucleusProofs.SemaphoresRight` | `Spec => []SemaphoresAgree` |
| `NucleusProofs.VerdictRight` | `Spec => []VerdictIsRight` |
| `NucleusProofs.TreeRight` | `Spec => []OneTree` |
| `NucleusProofs.VectorsRight` | `Spec => VectorsLastALifetime` |
| `MachineProofs.Implementation` | `Spec => ImplementsLifecycle` |
| `MachineProofs.LineInvariance` | `LineSpec => []LineInv` |
| `MachineProofs.LineImplementation` | `LineSpec => ImplementsLifecycle` |
| `MachineProofs.TimeSpecIsSpec` | `TimeSpec => Spec` |
| `MachineProofs.TimeInvariance` | `TimeSpec => []TimeInv` |
| `MachineProofs.NothingForgotten` | `TimeSpec => []EnoughCpuTime` |
| `MachineProofs.NothingTwice` | `TimeSpec => []ChargedOnce` |
| `ProcQueuesProofs.Invariance` | `Spec => []IInv` |
| `ProcQueuesProofs.TypeCorrectness` | `Spec => []TypeOK` |
| `ProcQueuesProofs.LinksStayAgreed` | `Spec => []LinksAgree` |
| `ProcQueuesProofs.Implementation` | `Spec => ImplementsLists` |
| `ActiveSemaphoresProofs.Invariance` | `Spec => []IInv` |
| `ActiveSemaphoresProofs.TypeCorrectness` | `Spec => []TypeOK` |
| `ActiveSemaphoresProofs.DescriptorsStayKept` | `Spec => []DescriptorsKept` |
| `ActiveSemaphoresProofs.MarksStayAgreed` | `Spec => []MarksAgree` |
| `ActiveSemaphoresProofs.Implementation` | `Spec => ImplementsWaitLists` |
| `NucleusMemoryProofs.Invariance` | `Spec => []MInv` |
| `NucleusMemoryProofs.TypeCorrectness` | `Spec => []TypeOK` |
| `NucleusMemoryProofs.MemorySafety` | `Spec => [](~missed => NoProcessLost /\ CountsAgree /\ SemaphoresAgree /\ VerdictIsRight /\ OneTree)`, of the lists in memory |
| `NucleusMemoryProofs.Implementation` | `Spec => ImplementsNucleus` |
| `NucleusMemoryProofs.KillsRight` | `Spec => KillsOneSubtree` |

### Nucleus

Assumed of the constants: the set of blocks is finite, contains the block of the
first process and does not contain `NULL`; the clock is no device and no mutex is a
semaphore of `semd[]`; the bounds are natural numbers.

`IInv` is the conjunction of the six invariants that TLC checks and
of two parts that make it inductive:

* `ModeAgrees`: a process runs exactly in the modes in which handlers can be
  entered by one.  Without it `done()`, which asks whether there is a current
  process, could not be shown to keep everyone.
* `RootIsNoChild`: without it the tree below the first process could shrink when
  its own block is adopted.

The invariants need each other.  `DescriptorsSuffice` shows by `NoProcessLost`
that each active semaphore has a waiter of its own and that the running process is
none of them, so that a descriptor is left and `insertBlocked` succeeds, which is
what keeps `NoProcessLost` when a process blocks.  `VerdictIsRight` follows from
`CountsAgree`, for the counters are all that the scheduler looks at.
`KillStep` is the longest: the victims are the descendants of the running process,
so that by `OneTree` and `NoProcessLost` each of them is found in exactly one
queue (`FewerWaiters` counts them), the counters fall by as many, and the tree
that is left is still one (`TreeShrinks`: a way from the root to a survivor meets
no victim).  `Descendants` is the least closed set, not a recursion, so that these
facts are about sets.  There is one lemma per action, and `NextStep` puts them
together.  The facts on sequences (what `Without`, `Append`, `Tail` and
concatenation do to the range and to injectivity) are in `QueueLemmas`.

### Nucleus implements Lifecycle

The first part of `MachineProofs` has a lemma per handler: which step of `Lifecycle` it is, under
`IInv` before and after it.  Three things are not read off the definitions.
`SchedulerServes`: `rest` is decided in `Lifecycle` by where the processes are and
in `scheduler()` by the counters, which `CountsAgree` makes the same.  `Owed` of a
killed waiter: a semaphore of `semd[]` keeps the value it had, so that the answer
the device still owes grows by one for each victim that waited there.  And `Parent`,
which is the inverse of `kids`, loses exactly the victims, for by `OneTree` every
child has one parent.

### Interrupts

`LineSpec` does not imply `Spec` of `Nucleus`: the handler of a terminal may signal
the half that has not answered, a step that no `DeviceInterrupt` allows.  So
`SignalStep` in `NucleusProofs` is about a V on any device, busy or not, and
`LineInv` adds to `IInv` that only a device at work has answered, without which
`Chosen` would be no device.  `ChosenIsDevice` is the fact about `getDevice()`: the
lowest position has a half that it may choose.

### CpuTime

`TimeSpecIsSpec` is the first step: around a handler of `Nucleus` the clock only adds
to it, so that its theorems hold here.  `TimeInv` adds to the two properties that
`startTOD` is not in the future, which makes every charge a number of ticks that have
passed.  A handler that ends in `scheduler()` needs `VerdictIsRight` (`Dispatched`):
a process runs after it only if `startTOD` was set anew.

### The pointers

The functions of `pcb.c` and `asl.c` are proved one by one, for every memory that holds
lists (`PcbLemmas` and `AslLemmas`).  The three
predicates that say what a memory holds are

* `Ring(m, tp, s)`: the links of the queue behind the tail pointer `tp` are those of
  the sequence `s`, in both directions;
* `Linked(m, field, head, s)`: a list that ends in `NULL`;
* `Family(m, par, s)`: the children of `par`.

Each lemma (`InsertRing`, `RemoveRing`, `OutRing`, `FreeLinked`, `AllocLinked`,
`InsertFamily`, `RemoveFamily`, `OutLastFamily`) says which sequence the links stand
for afterwards and which locations changed (`Changes`), and the frame lemmas say that
a list none of whose locations changed stays.  `RingIsQueue` and `LinkedList` say that
what is read by following links (`QueueAt`, `ListFrom`) is that sequence: `Chase`
needs no more steps than there are blocks since a list holds no block twice.

`ProcQueuesProofs.IInv` says that memory holds the lists of the three views, that
no block is in two queues, in two families, or both free and listed, and that a block
that may be adopted has no relatives (`Orphans`).  The last part is what makes it
inductive: `insertChild` does not write all links of the block it is given, and is
right only for one whose links are reset, as `allocPcb` leaves it.

`ActiveSemaphoresProofs.IInv` says the same of descriptors: `Sorted` (every descriptor
is between the dummies, by ascending address, or on the free list), `HoldsQueues` (each
has a ring of blocks that are in no other), `Marked` (`p_semAdd`), and `WaitedFor` (the
descriptors with somebody who waits are those between the dummies).  `SearchFinds`
is the lemma on `search`: it stops before the one place where the address is or
belongs, and never runs off the list, since the last dummy's address is above all.
`FreeDescriptor` counts: fewer active semaphores than descriptors is the same as a
free list that is not empty, so that `insertBlocked` fails exactly when `WaitLists`
says.  `TakenIs` is what `removeBlocked` and `outBlocked` have in common; an emptied
descriptor leaves the list and is freed.

The calls that the code gets wrong, `outProcQ` for the head of a queue and
`outChild` for a middle child, are outside these theorems, as `ProcQueues` and
`ActiveSemaphores` leave them out; the run `out_head` shows one of them, and
`PcbLemmas` has what they do to a queue that is a ring (`OutHeadLinks`) and to a family
(`OutOtherFamily`), for the proof that follows.

Assumed of the constants: there is a block, and finitely many; `NULL` is neither a
block nor a descriptor nor an address from 0 to `MAXINT` (it is 0xFFFFFFFF and
`MAXINT` 0xEFFFFFFF in `h/const.h` 111 and 12); semaphores have addresses between those
of the dummies; and there is a descriptor but not more than blocks (`semdTable` has
MAXPROC besides the dummies, `phase1/asl.c` 111), so that `search` in the model, which
follows no more links than there are blocks and dummies, sees the whole list.

### The nucleus on pointers

`NucleusMemoryProofs` joins the two levels.  `Holds(m, f, r, k, w)` says that the memory
`m` holds the free list `f`, the ready queue `r`, the families `k` and the queues `w` of
the semaphores.  Each of the four has an area of memory of its own (`FreeArea`,
`ReadyArea`, `KidsArea`, `WaitArea`, shown disjoint by `AreasApart`), though the first
two and the last share the field `p_next`: a block is on one list at most.  Each function
of `pcb.c` and `asl.c` changes one area, so that one lemma per function says which of
`f`, `r`, `k`, `w` is another one afterwards, and a handler is a chain of these lemmas.

`MInv` is `TypeOK` and, until something is missed, `Sound`:

* memory holds the lists that `Nucleus` sees (`Agrees`), and these satisfy `IInv` of
  `NucleusProofs`, whose lemmas are used as they stand.  It is what the pointer code
  relies on: `insertBlocked` finds a descriptor because `DescriptorsSuffice`, the block
  that is woken is on no list but that of its semaphore because of `NoProcessLost`, and
  `removeProcQ` faults on nothing;
* in the loop of the interval timer, `Waking`: the blocks made ready so far, and those
  still waiting, are together, in this order, the ready queue and the waiters from
  before the loop;
* in `killEverything`, `Killing`: the blocks `D` ended so far are not on any list
  but the free one, and the counters and semaphores have changed by what these were
  (`Books`); and the recursion has come as far as `Visited` says.  `Visited` is the
  argument about the recursion: the open calls and the blocks ended are descendants,
  no descendant lists either as a child, and every set of blocks that contains the open
  calls and is closed under the children that are left contains the descendants that are
  still to be ended.  So when the first call is at its end (`VisitEnds`), all
  descendants but its own process have been ended, each of them once.  `Descendants` is
  the least closed set, and no induction over the tree is needed.

What a miss is, is in the same invariant.  Either `work.missed` holds and a victim is
out of reach (`Stuck`, which is `OutOfReach` of `Nucleus` for the processes that are
ending), or it does not and no head of a queue is among the blocks ended
(`HeadsAreNot`).  A head that is a victim is the head of what is left of its queue until
its own turn, when `outProcQ` or `outBlocked` leaves it there; and the process itself is
taken from its parent last, when only a middle child can be missed.  So at the end of
the handler nothing has been missed if and only if nobody was out of reach, which is
where `Nucleus` says "broken" and this module `missed`.

`KillsRight` says that the recursion visits one subtree, whatever its shape, and goes
beyond the first miss: the same kill goes on after it, with queues that stand for no
list.  What carries the count past it is that no function on queues writes a location of
the tree (`OutBlockedKeepsTree`, `QueueKeepsTree`), and that `freePcb` and the links of the
ended blocks do not reach those of the blocks still to be visited (`EndedKeepsTree`).  So
`Counts` keeps from `Killing` what is about the tree and the counter, `Astray` is what
the invariant says of a kill after a miss, and at the end of the first call the number of
blocks ended is that of the descendants (`AllCounted`).  The blocks freed are known only
without a miss, from `Killing`.

The module has two instances of `Nucleus`: `Lists`, in which `ImplementsNucleus` is
stated, and `NP`, with the theorems of `NucleusProofs`.  `SameStep` shows that they are
the same.

Assumed of the constants besides what `AslMemory` and `Nucleus` assume: the semaphores
are `Mutex`, `Device` and `Clock`; `ReadyQ` is not the tail of a descriptor; and there
are as many descriptors as blocks, as `semdTable` has, or as many as semaphores
(`TableAssumption`), without which `insertBlocked` might fail and a process be lost.

### Only model-checked

* Liveness: TLAPS has no fairness or ENABLED.  This is `ReadyRuns`,
  `ClockServed` and `DeviceServed`.
* `QuietTestPasses`, `PassesUnlessMissed` and `OneWriter` of `P2Test`: they are about one
  concrete program of a few hundred calls, and about what the nucleus does after a miss,
  where no list is left to reason about.  There is nothing in them to generalise.
* The modules of phase 3, whose runs show violations.

## 7. What is not modelled

* The registers and processor states, but for `v0` after SYS8: copying a state is not
  interleaved with anything.
* What a nucleus does after an unlinking has missed, with any workload other than
  the test of phase 2: `NucleusMemory` stops there.
* That a value wraps around: times are compared for a few ticks, and semaphores and
  counters are bounded far below 2^31.
* Of phase 3: the tables of segments and pages, which nothing reads; the vectors that
  `initUProc()` specifies after `readTape()`, which never returns; the eight system
  calls without a body; `pager.c`, `adl.c`, `avsl.c`, `vmIOsupport.c`, which are empty.
  The programs in `testers/` need those calls.
* `p1test.c`: one sequence of calls with nothing beside it.  The calls it makes are
  among those the callers in `ProcQueues` and `ActiveSemaphores` may make, but for the
  two that go wrong (`outProcQ` for a head, as `outBlocked` in lines 297 and 305 too, and
  `outChild` for a middle child) and for line 274, which inserts a block that waits
  elsewhere to see `insertBlocked` fail.  What it expects is in the findings.

## 8. Plan

In order:

1. `P2Test` with times, so that what p2 and p3 print of them is part of the test.
2. Phase 3 as far as the repository gets a body for its calls.
