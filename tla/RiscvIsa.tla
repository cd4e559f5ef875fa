------------------------------ MODULE RiscvIsa ------------------------------
(***************************************************************************)
(* The instruction set simulator (isa_sim/riscv.cpp): one instruction, one *)
(* trap or one interrupt per step.  It is what the pipeline promises to    *)
(* software: instructions retire in program order, every operand is the    *)
(* value the latest older instruction left in the register, and a trap     *)
(* changes no register and leaves the program at the faulting instruction. *)
(*                                                                         *)
(* Memory and the CSRs are free: a load and a CSR read return any value.   *)
(*                                                                         *)
(* With TrapMisaligned FALSE it is the simulator.  With TRUE it is the     *)
(* instruction set of riscv_defs.v, where a jump to a target that is not   *)
(* aligned traps (EXCEPTION_MISALIGNED_FETCH): the core differs from the   *)
(* simulator in this instruction.                                          *)
(***************************************************************************)
CONSTANTS
    Regs,            \* register numbers; 0 is the register that reads as 0
    Vals,            \* register values
    Pcs,             \* word addresses
    NextPc,          \* the address of the next instruction
    ResetPc,
    HandlerPc,       \* the trap vector
    Instrs,          \* instructions the program may hold
    Result(_, _, _), \* the value instruction i computes from operands a, b
    TrapMisaligned,  \* whether a jump to a target that is not aligned traps
    None

VARIABLES
    pc,        \* m_pc, or None when it is not aligned
    regs,      \* m_gpr
    irq_on,    \* some interrupt is enabled at the present privilege
    retired    \* the last thing that happened

vars == <<pc, regs, irq_on, retired>>

Jumping   == {"br"} \cup (IF TrapMisaligned THEN {} ELSE {"mis"})
Computing == {"alu", "mul", "div"} \cup Jumping
Accessing == {"load", "csr", "satp"}
Trapping  == {"ecall", "fault", "load", "store"} \cup (IF TrapMisaligned THEN {"mis"} ELSE {})

(* The cause of a trap at instruction i. *)
Cause(i) ==
    CASE i.op = "ecall" -> "ecall"
      [] i.op = "fault" -> "fetch"
      [] i.op = "mis" -> "misaligned"
      [] i.op \in {"load", "store"} -> "mem"

Init ==
    /\ pc = ResetPc
    /\ regs = [r \in Regs |-> 0]
    /\ irq_on = FALSE
    /\ retired = None

(* reg_rs1 and reg_rs2 *)
Completed(i, next) ==
    [pc |-> pc, ins |-> i, a |-> regs[i.ra], b |-> regs[i.rb], npc |-> next]

WriteRd(i, v) ==
    regs' = IF i.rd = 0 THEN regs ELSE [regs EXCEPT ![i.rd] = v]

(* Where an instruction that computes goes on: jal, jalr and the branches  *)
(* do not look whether their target is aligned.                            *)
NextPcs(i) ==
    IF i.op = "br" THEN Pcs ELSE IF i.op = "mis" THEN {None} ELSE {NextPc[pc]}

Compute(i) ==
    /\ i.op \in Computing
    /\ pc' \in NextPcs(i)
    /\ WriteRd(i, Result(i, regs[i.ra], regs[i.rb]))
    /\ retired' = Completed(i, pc')
    /\ UNCHANGED irq_on

(* A CSR write may enable or disable interrupts. *)
Access(i) ==
    /\ i.op \in Accessing
    /\ pc' = NextPc[pc]
    /\ \E v \in Vals : WriteRd(i, v)
    /\ retired' = Completed(i, pc')
    /\ irq_on' \in IF i.op = "csr" THEN BOOLEAN ELSE {irq_on}

Store(i) ==
    /\ i.op = "store"
    /\ pc' = NextPc[pc]
    /\ retired' = Completed(i, pc')
    /\ UNCHANGED <<regs, irq_on>>

(* fence, fence.i, sfence *)
Fence(i) ==
    /\ i.op = "fence"
    /\ pc' = NextPc[pc]
    /\ retired' = Completed(i, pc')
    /\ UNCHANGED <<regs, irq_on>>

(* mret, sret *)
Return(i) ==
    /\ i.op = "eret"
    /\ pc' \in Pcs
    /\ irq_on' \in BOOLEAN
    /\ retired' = Completed(i, pc')
    /\ UNCHANGED regs

(* exception(): a trap may lower, and never raises, what can interrupt. *)
Vector(cause) ==
    /\ pc' = HandlerPc
    /\ irq_on' \in {FALSE, irq_on}
    /\ retired' = [pc |-> pc, cause |-> cause]
    /\ UNCHANGED regs

Trap(i) == i.op \in Trapping /\ Vector(Cause(i))

Interrupt == irq_on /\ Vector("interrupt")

(* A fetch at an address that is not aligned ends the simulator with an    *)
(* assertion (memory.h).                                                   *)
Fetchable == pc \in Pcs

(* The pipeline retires nothing in this cycle. *)
Idle == retired' = None /\ UNCHANGED <<pc, regs, irq_on>>

Next ==
    \/ Interrupt
    \/ Idle
    \/ Fetchable /\ \E i \in Instrs :
          \/ Compute(i)
          \/ Access(i)
          \/ Store(i)
          \/ Fence(i)
          \/ Return(i)
          \/ Trap(i)

Spec == Init /\ [][Next]_vars

=============================================================================
