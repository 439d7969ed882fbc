------------------------------ MODULE MCP2Test ------------------------------
(* P2Test with the blocks and addresses as numbers, for TLC. *)
EXTENDS P2Test

Names == <<"term_mut", "testsem", "startp2", "endp2", "endp3", "blkp4", "synp4", "endp4",
           "endp5", "endp8", "endcreate", "blkp8", "s", "terminal", "clock">>

MCAddress == [n \in Range(Names) |-> CHOOSE i \in DOMAIN Names : Names[i] = n]
MCMutex == 1 .. 13
MCSemAdd == 1 .. 15
MCProcTable == <<"a1", "a2", "a3", "a4", "a5", "a6", "a7", "a8", "a9">>
MCSemdTable == <<"d1", "d2", "d3", "d4", "d5", "d6", "d7", "d8", "d9">>
MCPcb == Range(MCProcTable)
MCSemd == Range(MCSemdTable)
MCProcQ == MCSemd \cup {"first", "last", "readyQ"}
==============================================================================
