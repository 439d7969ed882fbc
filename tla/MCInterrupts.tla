----------------------------- MODULE MCInterrupts -----------------------------
(* Interrupts on small instances for TLC. *)
EXTENDS Interrupts

CONSTANTS disk, transmitter, receiver

\* Number 0 on line 3, and terminal 0 on line 7.
MCPosition == [d \in Device |-> IF d = disk THEN 24 ELSE 56]
==============================================================================
