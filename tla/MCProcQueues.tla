----------------------------- MODULE MCProcQueues -----------------------------
(* ProcQueues on small instances for TLC. *)
EXTENDS ProcQueues, TLC

\* A caller that uses both queues and trees reaches too many states: here it
\* decides for one of the two.
VARIABLE use    \* "queues" or "trees"

MCInit == Init /\ use \in {"queues", "trees"}

MCNext ==
    /\ \/ ListStep
       \/ use = "queues" /\ QueueStep
       \/ use = "trees" /\ TreeStep
    /\ UNCHANGED use

MCSpec == MCInit /\ [][MCNext]_<<vars, use>>

\* No block and no queue is different from another: initPcbs() may have put the
\* blocks on the free list in any order.
BlockSymmetry == Permutations(Pcb) \cup Permutations(ProcQ)
===============================================================================
