----------------------------- MODULE MCRiscvPipe ----------------------------
(* Instances of RiscvPipe for TLC. *)
EXTENDS RiscvPipe

I(op, rd, ra, rb) == [op |-> op, rd |-> rd, ra |-> ra, rb |-> rb]

MCPcs == 0..2
MCNextPc == [p \in MCPcs |-> (p + 1) % 3]
TwoPcs == 0..1
TwoNextPc == [p \in TwoPcs |-> 1 - p]

(* alu and branches complement a, mul and div add; no value makes none *)
MCResult(i, a, b) ==
    IF Junk \in {a, b} THEN Junk
    ELSE IF i.op \in {"mul", "div"} THEN (a + b) % 2 ELSE 1 - a

(* The result of everything is 0: only the control is left. *)
NoData(i, a, b) == IF Junk \in {a, b} THEN Junk ELSE 0

(* Data hazards: every producer before every consumer. *)
DataInstrs == {I("alu", 1, 1, 2), I("alu", 2, 1, 1), I("alu", 0, 2, 1),
               I("load", 1, 2, 0), I("load", 2, 1, 1), I("store", 1, 1, 2),
               I("mul", 2, 1, 2), I("mul", 1, 2, 2), I("csr", 2, 1, 0),
               I("ecall", 0, 0, 0)}
DataIdle == {I("alu", 0, 0, 0)}

(* Every way to leave the program order, in front of and behind the others. *)
TrapInstrs == {I("load", 1, 1, 0), I("store", 0, 1, 1), I("div", 1, 1, 0),
               I("csr", 1, 1, 0), I("br", 1, 1, 1), I("mis", 0, 1, 1),
               I("ecall", 0, 0, 0), I("fence", 0, 0, 0), I("eret", 0, 0, 0),
               I("fault", 0, 0, 0)}
TrapIdle == {I("alu", 0, 0, 0), I("csr", 1, 1, 0)}

(* The programs of the three disagreements. *)
DivInstrs == {I("alu", 1, 1, 1), I("div", 2, 1, 1)}
SquashInstrs == {I("load", 1, 1, 0), I("store", 0, 1, 1), I("mis", 0, 1, 1)}
SatpInstrs == {I("alu", 1, 1, 1), I("satp", 1, 1, 0)}
=============================================================================
