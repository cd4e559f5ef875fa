------------------------------ MODULE RiscvPipe -----------------------------
(***************************************************************************)
(* The issue stage and the in-order pipeline: riscv_issue.v with           *)
(* riscv_pipe_ctrl.v (E1, E2, WB), riscv_divider.v, the E1 registers and   *)
(* the trap redirect of riscv_csr.v, and riscv_regfile.v.                  *)
(*                                                                         *)
(* A step is one edge of clk_i.  The bus is what the fetch stage shows in  *)
(* the cycle: [valid, ins].  The load/store unit is seen through its       *)
(* handshake: complete (mem_complete_i), fault (mem_exception_e2_i # 0),   *)
(* data (mem_result_e2_i) and lsuBusy (lsu_stall_i).                       *)
(*                                                                         *)
(* An instruction is [op, rd, ra, rb]; rd, ra, rb are the register fields  *)
(* of the opcode, whether the instruction uses them or not.  The ops:      *)
(*   alu           one cycle, also branches that are not taken             *)
(*   br, mis       taken branches; mis has a target that is not aligned    *)
(*   load, store, mul, div                                                 *)
(*   csr, satp     CSR accesses; satp is a write that changes the MMU      *)
(*   ecall         whatever the CSR unit refuses: ecall, ebreak, illegal   *)
(*   fence, eret   fence.i and sfence; mret and sret                       *)
(*   fault         what a fetch fault is decoded to                        *)
(***************************************************************************)
EXTENDS Naturals

CONSTANTS
    Regs, Vals, Pcs, NextPc, ResetPc, HandlerPc, Instrs, Result(_, _, _), None,
    Junk,                \* what a unit outputs that has no result: no value
    IdleBus,             \* opcodes the bus may show with its valid bit low
    MemFaults,           \* outcomes of a memory access: TRUE is a fault
    SUPPORT_LOAD_BYPASS,
    SUPPORT_MUL_BYPASS

Branches == {"br", "mis"}
MemOps   == {"load", "store"}
CsrOps   == {"csr", "satp", "ecall", "fence", "eret", "fault"}
Writing  == {"alu", "load", "mul", "div", "csr", "satp"} \cup Branches
Ops      == Writing \cup CsrOps \cup MemOps
Traps    == {"ecall", "fetch", "misaligned", "mem", "interrupt"}
Flushes  == {"fence", "eret"}
IrqStates == {"off", "on", "pending"}

ASSUME PipeAssumption ==
    /\ 0 \in Regs /\ 0 \in Vals
    /\ NextPc \in [Pcs -> Pcs] /\ ResetPc \in Pcs /\ HandlerPc \in Pcs
    /\ Instrs \cup IdleBus \subseteq [op : Ops, rd : Regs, ra : Regs, rb : Regs]
    /\ \A i \in Instrs, a, b \in Vals : Result(i, a, b) \in Vals
    /\ MemFaults \subseteq BOOLEAN
    /\ SUPPORT_LOAD_BYPASS \in BOOLEAN /\ SUPPORT_MUL_BYPASS \in BOOLEAN

(* What a pipeline register holds, and what the CSR unit answers to E1. *)
Stages ==
    [ins : Instrs, pc : Pcs, npc : Pcs, a : Vals, b : Vals, intr : BOOLEAN,
     exc : Traps \cup Flushes \cup {None}, valid : BOOLEAN,
     res : Vals \cup {Junk}, irq : IrqStates \cup {None}]

CsrAnswers == [val : Vals, exc : {"ecall"} \cup Flushes \cup {None}]

(* None stands for an empty register: it is nothing a register holds. *)
ASSUME NoneAssumption ==
    /\ None \notin Stages /\ None \notin CsrAnswers
    /\ None \notin Instrs /\ None \notin Pcs
    /\ None \notin Traps \cup Flushes \cup IrqStates

VARIABLES
    \* the front end, as RiscvFetch provides it
    next_pc,         \* the address of the next instruction it delivers
    refill,          \* cycles before it can deliver after a redirect
    held,            \* the instruction shown and not taken, or None
    \* riscv_issue
    div_pending_q, csr_pending_q,
    \* riscv_pipe_ctrl: the instruction in each stage, or None
    e1, e2, wb,
    squash_e1_e2_q,
    \* riscv_divider
    div_s1,          \* a div opcode in the operand registers, or None
    div_valid_q, div_result_q,
    \* riscv_csr
    csr_e1,          \* result and exception of the CSR access in E1, or None
    take_interrupt_q,
    irq,             \* what interrupt_o of the CSR file stands for
    csr_branch,      \* branch_q: the target, or None
    regs             \* riscv_regfile

vars == <<next_pc, refill, held, div_pending_q, csr_pending_q, e1, e2, wb,
          squash_e1_e2_q, div_s1, div_valid_q, div_result_q, csr_e1,
          take_interrupt_q, irq, csr_branch, regs>>

Init ==
    /\ next_pc = ResetPc /\ refill = 2 /\ held = None
    /\ div_pending_q = FALSE /\ csr_pending_q = FALSE
    /\ e1 = None /\ e2 = None /\ wb = None
    /\ squash_e1_e2_q = FALSE
    /\ div_s1 = None /\ div_valid_q = FALSE /\ div_result_q = 0
    /\ csr_e1 = None /\ take_interrupt_q = FALSE /\ irq = "off"
    /\ csr_branch = ResetPc
    /\ regs = [r \in Regs |-> 0]

-----------------------------------------------------------------------------
(* Wires of the stages. *)

(* The kind flags of a stage: an interrupted instruction has none. *)
Op(e) == IF e = None THEN "none" ELSE IF e.intr THEN "none" ELSE e.ins.op

Mem(e) == Op(e) \in MemOps

(* rd_e1_o, and rd_e2_o in a cycle without a stall *)
Rd(e) == IF Op(e) \in Writing /\ e.valid THEN e.ins.rd ELSE 0

(* rd_wb_o in a cycle without a stall: RD_VALID is cleared by an exception *)
RdWb == IF wb = None THEN 0 ELSE IF wb.exc = None THEN Rd(wb) ELSE 0

(* stall_o *)
Stalled(complete) ==
    \/ Op(e1) = "div" /\ ~div_valid_q
    \/ Mem(e2) /\ ~complete

(* exception_e2_r *)
ExceptionE2(complete, fault) ==
    IF Mem(e2) /\ complete
    THEN IF fault THEN "mem" ELSE None
    ELSE IF e2 = None THEN None ELSE e2.exc

(* squash_e1_e2_o *)
Squashed(complete, fault) ==
    ExceptionE2(complete, fault) # None \/ squash_e1_e2_q

(* result_e2_o *)
ResultE2(data) ==
    IF SUPPORT_LOAD_BYPASS /\ Mem(e2) THEN data
    ELSE IF SUPPORT_MUL_BYPASS /\ Op(e2) = "mul" THEN Result(e2.ins, e2.a, e2.b)
    ELSE e2.res

(* Faulty variant: an older result takes priority over a newer one.        *)
Operand_OldestFirst(r, data) ==
    CASE r = 0       -> 0
      [] r = RdWb    -> wb.res
      [] r = Rd(e2) /\ r # RdWb -> ResultE2(data)
      [] r = Rd(e1) /\ r \notin {RdWb, Rd(e2)} -> e1.res
      [] OTHER       -> regs[r]

(* issue_ra_value_r, issue_rb_value_r: the newest version has priority *)
Operand(r, data) ==
    IF r = 0 THEN 0
    ELSE IF r = Rd(e1) THEN e1.res
    ELSE IF r = Rd(e2) THEN ResultE2(data)
    ELSE IF r = RdWb THEN wb.res
    ELSE regs[r]

-----------------------------------------------------------------------------
(* The issue decision. *)

(* scoreboard_r: registers whose value is still being produced *)
Busy(r) ==
    \/ ~SUPPORT_LOAD_BYPASS /\ Op(e2) = "load" /\ r = Rd(e2)
    \/ ~SUPPORT_MUL_BYPASS /\ Op(e2) = "mul" /\ r = Rd(e2)
    \/ Op(e1) \in {"load", "mul"} /\ r = Rd(e1)

(* Faulty variant: a CSR access may follow a load at once.                 *)
Clear_NoMemRule(ins) == \A r \in {ins.ra, ins.rb, ins.rd} : ~Busy(r)

(* No multiply, division or CSR access in the cycle after a load or store *)
Clear(ins) ==
    /\ \A r \in {ins.ra, ins.rb, ins.rd} : ~Busy(r)
    /\ ~(Mem(e1) /\ ins.op \in {"mul", "div"} \cup CsrOps)

(* opcode_valid_w *)
OpcodeValid(bus, complete, fault) ==
    bus.valid /\ ~Squashed(complete, fault) /\ csr_branch = None

(* opcode_issue_r *)
Issues(bus, complete, fault, lsuBusy) ==
    /\ OpcodeValid(bus, complete, fault)
    /\ ~(lsuBusy \/ Stalled(complete) \/ div_pending_q \/ csr_pending_q)
    /\ Clear(bus.ins)

(* fetch_accept_o *)
Accepts(bus, complete, fault, issue) ==
    OpcodeValid(bus, complete, fault) => issue /\ ~take_interrupt_q

-----------------------------------------------------------------------------
(* The pipeline registers. *)

(* issue_exception_i and branch_misaligned_w *)
IssueException(op) ==
    CASE op = "fault" -> "fetch"
      [] op = "mis"   -> "misaligned"
      [] OTHER        -> None

(* What enters E1.  res is the output of the ALU (riscv_exec), which has   *)
(* the result of the instruction one cycle after its issue.                *)
Enter(bus, target, data) ==
    LET a == Operand(bus.ins.ra, data)
        b == Operand(bus.ins.rb, data)
    IN [ins |-> bus.ins, pc |-> next_pc, npc |-> target, a |-> a, b |-> b,
        intr |-> take_interrupt_q,
        exc |-> IssueException(bus.ins.op),
        valid |-> TRUE,
        res |-> IF bus.ins.op \in {"alu"} \cup Branches
                THEN Result(bus.ins, a, b) ELSE Junk,
        irq |-> None]

StageE1(bus, target, data, issue, stalled) ==
    e1' = IF stalled THEN e1 ELSE IF issue THEN Enter(bus, target, data) ELSE None

(* E1 after its cycle: "Launch interrupt", the early exceptions of the     *)
(* front end, then those of the CSR unit.                                  *)
LeaveE1 ==
    [e1 EXCEPT
        !.exc = IF e1.intr THEN "interrupt"
                ELSE IF @ # None THEN @
                ELSE IF csr_e1 # None THEN csr_e1.exc ELSE None,
        !.valid = e1.intr \/ e1.exc = None,
        !.res = IF Op(e1) = "div" THEN div_result_q
                ELSE IF Op(e1) \notin CsrOps THEN @
                ELSE IF csr_e1 # None THEN csr_e1.val ELSE 0]

(* Faulty variant: the flush misses the instruction that enters E2.        *)
StageE2_NoFlush(stalled, squashed) ==
    e2' = IF stalled THEN e2 ELSE IF e1 = None THEN None ELSE LeaveE1

StageE2(stalled, squashed) ==
    e2' = IF stalled THEN e2
          ELSE IF squashed \/ e1 = None THEN None ELSE LeaveE1

(* What an instruction that reaches WB with exception exc does to the      *)
(* interrupt state of the CSR file: None is nothing.                       *)
IrqAfter(e, exc) ==
    IF exc \in Traps THEN IF irq = "off" THEN {"off"} ELSE IrqStates
    ELSE IF exc = "eret" \/ (exc = None /\ Op(e) = "csr") THEN IrqStates
    ELSE {None}

StageWB(complete, fault, data, stalled) ==
    LET exc == ExceptionE2(complete, fault) IN
    IF stalled THEN wb' = wb
    ELSE IF e2 = None THEN wb' = None
    ELSE \E after \in IrqAfter(e2, exc) :
           wb' = [e2 EXCEPT !.exc = exc,
                            !.valid = @ /\ exc # "mem",
                            !.irq = after,
                            !.res = IF Mem(e2) /\ e2.valid THEN data
                                    ELSE IF Op(e2) = "mul" /\ e2.valid
                                    THEN Result(e2.ins, e2.a, e2.b)
                                    ELSE @]

(* squash_e1_e2_q *)
Squash(complete, fault, stalled) ==
    squash_e1_e2_q' = IF stalled THEN squash_e1_e2_q
                      ELSE ExceptionE2(complete, fault) # None

(* Faulty variant: a write to register 0 is not discarded.                 *)
RegisterFile_WritesZero(stalled) ==
    regs' = IF stalled \/ wb = None THEN regs
            ELSE IF Op(wb) \in Writing /\ wb.exc = None
            THEN [regs EXCEPT ![wb.ins.rd] = wb.res] ELSE regs

RegisterFile(stalled) ==
    regs' = IF stalled \/ RdWb = 0 THEN regs ELSE [regs EXCEPT ![RdWb] = wb.res]

-----------------------------------------------------------------------------
(* Blocking instructions, the divider, the CSR unit and the front end. *)

(* Faulty variant: a flush does not end the wait for a CSR access.         *)
Pending_NoFlush(bus, issue, stalled, squashed) ==
    /\ div_pending_q' = IF issue /\ bus.ins.op = "div" THEN TRUE
                        ELSE div_pending_q /\ ~div_valid_q
    /\ csr_pending_q' = IF issue /\ ~take_interrupt_q /\ bus.ins.op \in CsrOps THEN TRUE
                        ELSE csr_pending_q /\ (Op(wb) \notin CsrOps \/ stalled)

(* Faulty variant: a CSR access does not block the issue.                  *)
Pending_NoCsr(bus, issue, stalled, squashed) ==
    /\ div_pending_q' = IF squashed THEN FALSE
                        ELSE IF issue /\ bus.ins.op = "div" THEN TRUE
                        ELSE div_pending_q /\ ~div_valid_q
    /\ csr_pending_q' = FALSE

(* div_pending_q and csr_pending_q.  An interrupted division sets the      *)
(* former: div_opcode_valid_o is not masked by take_interrupt_i.           *)
Pending(bus, issue, stalled, squashed) ==
    /\ div_pending_q' = IF squashed THEN FALSE
                        ELSE IF issue /\ bus.ins.op = "div" THEN TRUE
                        ELSE div_pending_q /\ ~div_valid_q
    /\ csr_pending_q' =
          IF squashed THEN FALSE
          ELSE IF issue /\ ~take_interrupt_q /\ bus.ins.op \in CsrOps THEN TRUE
          ELSE csr_pending_q /\ (Op(wb) \notin CsrOps \/ stalled)

(* The operand registers load whatever is on the bus in every cycle; the   *)
(* result registers change only when a div opcode is in the former.        *)
Divider(bus, data, issue) ==
    /\ div_s1' = IF bus.ins.op # "div" THEN None
                 ELSE [valid |-> issue,
                       val |-> Result(bus.ins, Operand(bus.ins.ra, data),
                                               Operand(bus.ins.rb, data))]
    /\ IF div_s1 = None
       THEN UNCHANGED <<div_valid_q, div_result_q>>
       ELSE div_valid_q' = div_s1.valid /\ div_result_q' = div_s1.val

(* exception_e1_q of riscv_csr; that of a fault is ignored by E1. *)
CsrException(op) ==
    CASE op \in {"ecall", "fault"} -> "ecall"
      [] op \in {"fence", "satp"}  -> "fence"
      [] op = "eret"               -> "eret"
      [] op = "csr"                -> None

(* The CSR unit answers in the next cycle and for one cycle. *)
CsrUnit(bus, issue) ==
    IF issue /\ ~take_interrupt_q /\ bus.ins.op \in CsrOps
    THEN \E read \in IF bus.ins.op \in Writing THEN Vals ELSE {0} :
            csr_e1' = [val |-> read, exc |-> CsrException(bus.ins.op)]
    ELSE csr_e1' = None

(* Faulty variant: only the opcode on the bus inhibits an interrupt.       *)
TakeInterrupt_NoPending(bus) ==
    take_interrupt_q' = (irq = "pending" /\ bus.ins.op \notin CsrOps)

(* interrupt_inhibit_o looks at the opcode on the bus, valid or not. *)
TakeInterrupt(bus) ==
    take_interrupt_q' =
        (irq = "pending" /\ ~csr_pending_q /\ bus.ins.op \notin CsrOps)

(* The CSR writes and traps of WB, or an interrupt that becomes pending. *)
InterruptState ==
    IF wb # None /\ wb.irq # None THEN irq' = wb.irq
    ELSE IF irq = "on" THEN irq' \in {"on", "pending"}
    ELSE irq' = irq

(* csr_target_w; for eret it is mepc or sepc, chosen when eret issues. *)
Target(e) ==
    CASE e.exc \in Traps  -> HandlerPc
      [] e.exc = "fence"  -> NextPc[e.pc]
      [] e.exc = "eret"   -> e.npc

CsrBranch ==
    csr_branch' = IF wb = None THEN None
                  ELSE IF wb.exc = None THEN None ELSE Target(wb)

(* branch_request_o redirects riscv_fetch, which delivers nothing for at   *)
(* least two cycles; otherwise it moves on, or holds what is not taken.    *)
FrontEnd(bus, target, issue, accept) ==
    LET branch == issue /\ bus.ins.op \in Branches
        redirect == csr_branch # None \/ branch
    IN /\ next_pc' = IF csr_branch # None THEN csr_branch
                     ELSE IF branch THEN target
                     ELSE IF bus.valid /\ accept THEN NextPc[next_pc] ELSE next_pc
       /\ refill' = IF redirect THEN 2 ELSE IF refill = 0 THEN 0 ELSE refill - 1
       /\ held' = IF bus.valid /\ ~accept /\ ~redirect THEN bus.ins ELSE None

-----------------------------------------------------------------------------
Cycle(bus, target, complete, fault, data, lsuBusy) ==
    LET stalled  == Stalled(complete)
        squashed == Squashed(complete, fault)
        issue    == Issues(bus, complete, fault, lsuBusy)
        accept   == Accepts(bus, complete, fault, issue)
    IN /\ StageE1(bus, target, data, issue, stalled)
       /\ StageE2(stalled, squashed)
       /\ StageWB(complete, fault, data, stalled)
       /\ Squash(complete, fault, stalled)
       /\ RegisterFile(stalled)
       /\ Pending(bus, issue, stalled, squashed)
       /\ Divider(bus, data, issue)
       /\ CsrUnit(bus, issue)
       /\ TakeInterrupt(bus)
       /\ InterruptState
       /\ CsrBranch
       /\ FrontEnd(bus, target, issue, accept)

(* What the bus can show. *)
Buses ==
    IF held # None THEN {[valid |-> TRUE, ins |-> held]}
    ELSE {[valid |-> FALSE, ins |-> i] : i \in IdleBus}
         \cup (IF refill = 0 THEN {[valid |-> TRUE, ins |-> i] : i \in Instrs} ELSE {})

(* Targets of an instruction: pc + 4 unless it may go elsewhere. *)
Targets(ins) ==
    IF ins.op \in Branches \cup {"eret"} THEN Pcs ELSE {NextPc[next_pc]}

(* What the load/store unit can answer to E2: [complete, fault, data]. *)
Answers ==
    {[complete |-> FALSE, fault |-> FALSE, data |-> Junk]} \cup
    (IF Mem(e2)
     THEN [complete : {TRUE}, fault : MemFaults,
           data : IF Op(e2) = "load" THEN Vals ELSE {Junk}]
     ELSE {})

(* lsu_stall_i matters only when there is something to issue. *)
Next ==
    \E bus \in Buses, m \in Answers :
        \E lsuBusy \in {FALSE, bus.valid}, target \in Targets(bus.ins) :
            Cycle(bus, target, m.complete, m.fault, m.data, lsuBusy)

Spec == Init /\ [][Next]_vars

(* The memory answers, the fetch stage delivers and the load/store unit is *)
(* ready in the same cycle, again and again.                               *)
Serve ==
    \E bus \in Buses, m \in Answers :
        /\ refill = 0 => bus.valid
        /\ Mem(e2) => m.complete
        /\ \E target \in Targets(bus.ins) :
              Cycle(bus, target, m.complete, m.fault, m.data, FALSE)

FairSpec == Spec /\ WF_vars(Serve)

-----------------------------------------------------------------------------
(* Properties. *)

(* Every register has its type; no operand is ever the output of a unit    *)
(* that had no result (the scoreboard of riscv_issue.v), and register 0    *)
(* keeps reading as 0.                                                     *)
TypeOK ==
    /\ next_pc \in Pcs /\ refill \in 0..2 /\ held \in Instrs \cup {None}
    /\ {div_pending_q, csr_pending_q, squash_e1_e2_q, div_valid_q,
        take_interrupt_q} \subseteq BOOLEAN
    /\ {e1, e2, wb} \subseteq Stages \cup {None}
    /\ div_s1 = None \/ div_s1.valid \in BOOLEAN
    /\ csr_e1 = None \/ csr_e1.val \in Vals
    /\ irq \in IrqStates
    /\ csr_branch \in Pcs \cup {None}
    /\ regs \in [Regs -> Vals] /\ regs[0] = 0

(* An instruction that traps, flushes or writes a CSR is alone when it     *)
(* reaches WB: WB is then never held for a second cycle, so the trap is    *)
(* taken once, the CSR written once, and nothing younger is under way      *)
(* (csr_pending_q and the squash of riscv_issue.v, riscv_pipe_ctrl.v).     *)
SystemAlone ==
    wb # None /\ (wb.exc # None \/ wb.irq # None) => e1 = None /\ e2 = None

(* The issue stage waits for a division or a CSR access only while that    *)
(* instruction is in the pipeline: a flush that removes the instruction    *)
(* also ends the wait (div_pending_q, csr_pending_q).                      *)
PendingHasOwner ==
    /\ div_pending_q => \E e \in {e1, e2} \ {None} : e.ins.op = "div"
    /\ csr_pending_q => \E e \in {e1, e2, wb} : Op(e) \in CsrOps

(* The CSR unit holds its answer for one cycle, stalled or not: when it    *)
(* has one, the instruction is in E1 and nothing can hold it there.        *)
CsrResultKept ==
    csr_e1 # None => Op(e1) \in CsrOps /\ ~Mem(e2)

(* A load or store enters the load/store unit when it enters E1.  Only a   *)
(* fault of the memory access before it makes the unit drop it             *)
(* (riscv_lsu.v), so whatever else flushes the pipeline must not find a    *)
(* load or store in E1.                                                    *)
NoSquashedAccess ==
    Mem(e1) => ~squash_e1_e2_q /\ (e2 = None \/ e2.exc = None)

(* A division takes at least two cycles: in the first one, when its        *)
(* operands have just entered the divider, the pipeline stalls.            *)
DivisionStalls ==
    Op(e1) = "div" /\ div_s1 # None /\ div_s1.valid => ~div_valid_q

(* A CSR access that retires writes its destination register, also when    *)
(* it flushes the pipeline because it changes the MMU.                     *)
CsrReadWritten ==
    Op(wb) \in {"csr", "satp"} /\ wb.valid /\ wb.exc \notin Traps => RdWb = wb.ins.rd

-----------------------------------------------------------------------------
(* The program the pipeline runs. *)

Redirecting == wb # None /\ wb.exc # None

(* The oldest instruction that has not reached WB. *)
ArchPc ==
    IF csr_branch # None THEN csr_branch
    ELSE IF Redirecting THEN Target(wb)
    ELSE IF e2 # None THEN e2.pc
    ELSE IF e1 # None THEN e1.pc
    ELSE next_pc

ArchRegs == IF RdWb = 0 THEN regs ELSE [regs EXCEPT ![RdWb] = wb.res]

ArchIrq == IF wb # None /\ wb.irq # None THEN wb.irq # "off" ELSE irq # "off"

Retired ==
    IF wb = None THEN None
    ELSE IF wb.exc \in Traps THEN [pc |-> wb.pc, cause |-> wb.exc]
    ELSE [pc |-> wb.pc, ins |-> wb.ins, a |-> wb.a, b |-> wb.b,
          npc |-> IF wb.exc = None THEN wb.npc ELSE Target(wb)]

Simulator == INSTANCE RiscvIsa WITH
           pc <- ArchPc, regs <- ArchRegs, irq_on <- ArchIrq, retired <- Retired,
           TrapMisaligned <- FALSE

CoreIsa == INSTANCE RiscvIsa WITH
           pc <- ArchPc, regs <- ArchRegs, irq_on <- ArchIrq, retired <- Retired,
           TrapMisaligned <- TRUE

(* The pipeline executes the program as the instruction set simulator      *)
(* does, an instruction, a trap or an interrupt whenever one reaches WB:   *)
(* in order, none lost or repeated, every operand up to date, traps        *)
(* precise, and no interrupt after the CSR write that disables it.  This   *)
(* is so only without mis: at a jump to a target that is not aligned the   *)
(* simulator writes rd and goes there.                                     *)
ImplementsIsa == Simulator!Spec

(* The same for programs with such jumps, against the instruction set of   *)
(* riscv_defs.v and not the simulator: the jump is a precise trap, at its  *)
(* own address and with rd unwritten, although it has redirected the       *)
(* front end by then (riscv_pipe_ctrl.v, riscv_fetch.v).                   *)
ImplementsCoreIsa == CoreIsa!Spec

(* Something retires again and again: no combination of a stall, a busy    *)
(* divider, a pending CSR access and a flush blocks the issue for good.    *)
KeepsRetiring == []<>(wb # None)

=============================================================================
