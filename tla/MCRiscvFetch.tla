---------------------------- MODULE MCRiscvFetch ----------------------------
(* Instance of RiscvFetch for TLC: three word addresses that wrap around.   *)
EXTENDS RiscvFetch, Naturals

MCPcs == 0..2
MCNextPc == [p \in MCPcs |-> (p + 1) % 3]
MCPrivs == {"M", "U"}
MCFaults == {"ok", "page"}
=============================================================================
