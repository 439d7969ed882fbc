--------------------------- MODULE MCNucleusMemory ---------------------------
(* NucleusMemory on a small instance for TLC. *)
EXTENDS NucleusMemory, TLC

\* No block but the first and no descriptor is different from another.
BlockSymmetry == Permutations(Pcb \ {RootPcb}) \cup Permutations(SemdPool)

\* With nobody waiting for the clock, line 2 does what line 1 does: that handler has
\* nobody to wake, and the semaphore is 0 as it is.
TimerMatters == mode # "wake" /\ mode' = "wake" => lists.waits[Clock] # <<>>
==============================================================================
