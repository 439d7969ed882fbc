-------------------------- MODULE MCActiveSemaphores --------------------------
(* ActiveSemaphores on small instances for TLC. *)
EXTENDS ActiveSemaphores, TLC

\* No block and no descriptor is different from another.
BlockSymmetry == Permutations(Pcb) \cup Permutations(SemdPool)
===============================================================================
