----------------------------- MODULE UserSyscalls -----------------------------
(***************************************************************************)
(* userSyscallHandler() of src/phase3/sysSupport.c in several user         *)
(* processes.                                                              *)
(*                                                                         *)
(* initUProc() makes it the handler of SYSTRAP with interrupts enabled.    *)
(* The nucleus passes the state of the caller up in an area of the         *)
(* process, but the handler reads the area of the machine, which the next  *)
(* system call of anybody overwrites.  A state is the process it belongs   *)
(* to and the request it makes.                                            *)
(***************************************************************************)
CONSTANTS
    User,           \* the user processes
    Request         \* "GETTOD", "WRITETERM" and the calls that are empty

VARIABLES
    current,        \* the running process
    oldArea,        \* SYSCALLBREAKOLD: the state of the last caller
    doing,          \* where each process is
    state           \* whose state each process continues

supportVars == <<current, oldArea, doing, state>>

Does(what) == doing[current] = what

Becomes(what) == doing' = [doing EXCEPT ![current] = what]

Init ==
    /\ current \in User
    /\ oldArea = [of |-> current, request |-> "GETTOD"]
    /\ doing = [u \in User |-> "computes"]
    /\ state = [u \in User |-> u]

\* A request of the program, which the nucleus passes up.
PassUp(r) ==
    /\ Does("computes")
    /\ oldArea' = [of |-> state[current], request |-> r]
    /\ Becomes("handles")
    /\ UNCHANGED <<current, state>>

\* userSyscallHandler() reads the request.
userSyscallHandler ==
    /\ Does("handles")
    /\ Becomes(oldArea.request)
    /\ UNCHANGED <<current, oldArea, state>>

\* SYS17 puts the time into the area and loads the state in it.
sysCall17 ==
    /\ Does("GETTOD")
    /\ state' = [state EXCEPT ![current] = oldArea.of]
    /\ Becomes("computes")
    /\ UNCHANGED <<current, oldArea>>

\* SYS10 begins with a P on address 1, in the middle of a word: the nucleus
\* traps, and passes that up to the handler initUProc() names, pgmTrapHandler(),
\* which is the nucleus's own and passes it up once more.
sysCall10 ==
    /\ Does("WRITETERM")
    /\ oldArea' = [of |-> state[current], request |-> "PASSERN"]
    /\ UNCHANGED <<current, doing, state>>

\* The quantum is over, in the program or in the handler.
Preempt ==
    /\ current' \in User \ {current}
    /\ UNCHANGED <<oldArea, doing, state>>

Next ==
    \/ \E r \in Request : PassUp(r)
    \/ userSyscallHandler \/ sysCall17 \/ sysCall10 \/ Preempt

Spec == Init /\ [][Next]_supportVars

\* A system call returns to the process that made it.
ReturnsToCaller == \A u \in User : state[u] = u
==============================================================================
