--------------------------- MODULE RiscvPipeProofs --------------------------
(***************************************************************************)
(* Proofs of the safety properties of RiscvPipe, for every program, every  *)
(* register file, every bypass option and every behaviour of the memory,   *)
(* the fetch stage and the interrupt lines.                                *)
(*                                                                         *)
(* None of the properties is inductive.  They hold because of what the     *)
(* issue stage refuses (a CSR access or a division blocks everything until *)
(* it is done, and never follows a load or store), so the invariant says   *)
(* where such an instruction is while it blocks (CsrBlocks, DivBlocks);    *)
(* and because a trap empties the pipeline before it redirects it          *)
(* (TrapEmpties).  The operands of TypeOK need the results that may be     *)
(* bypassed to be values (InE1, InE2, InWb, DivResult).                    *)
(***************************************************************************)
EXTENDS RiscvPipe, TLAPS

(* The exception an instruction brings from decode, branch and CSR unit. *)
EarlyException(op) ==
    CASE op \in {"fault", "mis"}  -> IssueException(op)
      [] op = "ecall"             -> "ecall"
      [] op \in {"fence", "satp"} -> "fence"
      [] op = "eret"              -> "eret"
      [] OTHER                    -> None

InE1 ==
    e1 # None =>
        /\ e1.exc = IssueException(e1.ins.op)
        /\ e1.valid
        /\ Op(e1) \in {"alu"} \cup Branches => e1.res \in Vals

InE2 ==
    e2 # None =>
        /\ e2.exc = IF e2.intr THEN "interrupt" ELSE EarlyException(e2.ins.op)
        /\ e2.exc = None => e2.valid
        /\ Op(e2) \in Writing \ {"load", "mul"} => e2.res \in Vals

InWb == RdWb # 0 => wb.res \in Vals

(* The pipeline is empty when an exception is in WB, and until the front   *)
(* end has been redirected.                                                *)
TrapEmpties ==
    /\ squash_e1_e2_q <=> Redirecting
    /\ Redirecting => e1 = None /\ e2 = None /\ csr_branch = None
    /\ csr_branch # None => e1 = None /\ e2 = None /\ wb = None

(* A CSR access holds back everything younger until it leaves WB, and the  *)
(* CSR unit's answer is there when the access is in E1.                    *)
CsrBlocks ==
    /\ csr_e1 \in CsrAnswers \cup {None}
    /\ Op(e1) \in CsrOps => csr_pending_q /\ csr_e1 # None
                            /\ csr_e1.exc = CsrException(Op(e1))
    /\ Op(e2) \in CsrOps => csr_pending_q /\ e1 = None
    /\ Op(wb) \in CsrOps => /\ e1 = None /\ e2 = None
                            /\ wb.exc = None => csr_pending_q
    /\ wb # None /\ wb.irq # None => wb.exc # None \/ Op(wb) = "csr"
    /\ csr_pending_q => \E e \in {e1, e2, wb} : Op(e) \in CsrOps

(* So does a division; one that is held in E1 behind an exception has lost *)
(* its pending flag, but then nothing issues either.                       *)
DivBlocks ==
    /\ Op(e1) \in CsrOps \cup {"div"} => ~Mem(e2)
    /\ Op(e1) = "div" => div_pending_q \/ (e2 # None /\ e2.exc # None)
    /\ div_pending_q => \/ e1 # None /\ e1.ins.op = "div"
                        \/ e2 # None /\ e2.intr /\ e2.ins.op = "div"

(* The divider may show an old result, but never none. *)
DivResult ==
    /\ div_valid_q => div_result_q \in Vals
    /\ div_s1 # None /\ div_s1.valid => div_s1.val \in Vals

(* An interrupt is taken only while it is pending. *)
Interrupts ==
    /\ take_interrupt_q => irq = "pending" \/ csr_branch # None
    /\ \A e \in {e1, e2} \ {None} : e.intr => irq = "pending"

IInv ==
    /\ TypeOK
    /\ CsrResultKept
    /\ InE1 /\ InE2 /\ InWb
    /\ TrapEmpties
    /\ CsrBlocks
    /\ DivBlocks
    /\ DivResult
    /\ Interrupts

-----------------------------------------------------------------------------
(* What the pipeline is offered in a cycle, and the cycle. *)
Offered(bus, target, complete, fault, data) ==
    /\ bus \in Buses /\ target \in Targets(bus.ins)
    /\ [complete |-> complete, fault |-> fault, data |-> data] \in Answers

Step(bus, target, complete, fault, data, lsuBusy) ==
    /\ Offered(bus, target, complete, fault, data)
    /\ Cycle(bus, target, complete, fault, data, lsuBusy)

(* A step of Next is a cycle of the pipeline with what it may be offered. *)
LEMMA NextSteps ==
    ASSUME Next
    PROVE  \E bus, target, complete, fault, data, lsuBusy :
              Step(bus, target, complete, fault, data, lsuBusy)
<1>1. PICK bus \in Buses, m \in Answers :
           \E lsuBusy \in {FALSE, bus.valid}, target \in Targets(bus.ins) :
              Cycle(bus, target, m.complete, m.fault, m.data, lsuBusy)
  BY Zenon DEF Next
<1>2. PICK lsuBusy \in {FALSE, bus.valid}, target \in Targets(bus.ins) :
           Cycle(bus, target, m.complete, m.fault, m.data, lsuBusy)
  BY <1>1, Zenon
<1>3. m = [complete |-> m.complete, fault |-> m.fault, data |-> m.data]
  BY DEF Answers
<1>4. Step(bus, target, m.complete, m.fault, m.data, lsuBusy)
  BY <1>2, <1>3, Zenon DEF Step, Offered
<1>. QED
  BY <1>4, Zenon

(* An instruction has an op and registers. *)
LEMMA InstrType ==
    ASSUME NEW i \in Instrs \cup IdleBus
    PROVE  i.op \in Ops /\ i.rd \in Regs /\ i.ra \in Regs /\ i.rb \in Regs
  BY PipeAssumption

(* The load/store unit answers a load or store only, and a load with data. *)
LEMMA AnswerType ==
    ASSUME NEW m \in Answers
    PROVE  /\ m.complete \in BOOLEAN /\ m.fault \in BOOLEAN
           /\ m.complete => Mem(e2)
           /\ m.complete /\ Op(e2) = "load" => m.data \in Vals
           /\ m.data \in Vals \cup {Junk}
<1>1. CASE m = [complete |-> FALSE, fault |-> FALSE, data |-> Junk]
  <2>1. m.complete = FALSE /\ m.fault = FALSE /\ m.data = Junk
    BY <1>1
  <2>. QED
    BY <2>1
<1>2. CASE m # [complete |-> FALSE, fault |-> FALSE, data |-> Junk]
  <2>1. /\ Mem(e2) /\ m.complete = TRUE /\ m.fault \in MemFaults
        /\ m.data \in IF Op(e2) = "load" THEN Vals ELSE {Junk}
    BY <1>2 DEF Answers
  <2>. QED
    BY <2>1, PipeAssumption
<1>. QED
  BY <1>1, <1>2

(* The types of what is offered; data comes with the completion of a load. *)
LEMMA OfferedType ==
    ASSUME TypeOK,
           NEW bus, NEW target, NEW complete, NEW fault, NEW data,
           Offered(bus, target, complete, fault, data)
    PROVE  /\ bus.valid \in BOOLEAN /\ bus.ins \in Instrs \cup IdleBus
           /\ bus.valid => bus.ins \in Instrs
           /\ held # None => bus.valid /\ bus.ins = held
           /\ held = None /\ ~bus.valid => bus.ins \in IdleBus
           /\ target \in Pcs
           /\ bus.ins.op \notin Branches \cup {"eret"} => target = NextPc[next_pc]
           /\ complete \in BOOLEAN /\ fault \in BOOLEAN
           /\ complete => Mem(e2)
           /\ complete /\ Op(e2) = "load" => data \in Vals
           /\ data \in Vals \cup {Junk}
<1>1. /\ bus.valid \in BOOLEAN /\ bus.ins \in Instrs \cup IdleBus
      /\ bus.valid => bus.ins \in Instrs
      /\ held # None => bus.valid /\ bus.ins = held
      /\ held = None /\ ~bus.valid => bus.ins \in IdleBus
  <2>1. \/ held # None /\ bus = [valid |-> TRUE, ins |-> held]
        \/ held = None /\ \E i \in IdleBus : bus = [valid |-> FALSE, ins |-> i]
        \/ held = None /\ \E i \in Instrs : bus = [valid |-> TRUE, ins |-> i]
    <3>1. CASE held # None
      <4>1. bus \in {[valid |-> TRUE, ins |-> held]}
        BY <3>1 DEF Offered, Buses
      <4>. QED
        BY <3>1, <4>1
    <3>2. CASE held = None
      <4>1. \/ bus \in {[valid |-> FALSE, ins |-> i] : i \in IdleBus}
            \/ bus \in {[valid |-> TRUE, ins |-> i] : i \in Instrs}
        BY <3>2, Zenon DEF Offered, Buses
      <4>. QED
        BY <3>2, <4>1
    <3>. QED
      BY <3>1, <3>2
  <2>2. held # None => held \in Instrs
    BY DEF TypeOK
  <2>3. CASE held # None /\ bus = [valid |-> TRUE, ins |-> held]
    <3>1. bus.valid = TRUE /\ bus.ins = held
      BY <2>3
    <3>. QED
      BY <2>2, <2>3, <3>1
  <2>4. CASE held = None /\ \E i \in IdleBus : bus = [valid |-> FALSE, ins |-> i]
    <3>1. bus.valid = FALSE /\ bus.ins \in IdleBus
      BY <2>4
    <3>. QED
      BY <2>4, <3>1
  <2>5. CASE held = None /\ \E i \in Instrs : bus = [valid |-> TRUE, ins |-> i]
    <3>1. bus.valid = TRUE /\ bus.ins \in Instrs
      BY <2>5
    <3>. QED
      BY <2>5, <3>1
  <2>. QED
    BY <2>1, <2>3, <2>4, <2>5
<1>2. /\ target \in Pcs
      /\ bus.ins.op \notin Branches \cup {"eret"} => target = NextPc[next_pc]
  BY PipeAssumption DEF Offered, Targets, TypeOK
<1>3. /\ complete \in BOOLEAN /\ fault \in BOOLEAN
      /\ complete => Mem(e2)
      /\ complete /\ Op(e2) = "load" => data \in Vals
      /\ data \in Vals \cup {Junk}
  <2>. DEFINE m == [complete |-> complete, fault |-> fault, data |-> data]
  <2>1. m \in Answers
    BY DEF Offered
  <2>2. m.complete = complete /\ m.fault = fault /\ m.data = data
    OBVIOUS
  <2>. HIDE DEF m
  <2>. QED
    BY <2>1, <2>2, AnswerType
<1>. QED
  BY <1>1, <1>2, <1>3

(* What a pipeline register that is not empty holds. *)
LEMMA StageType ==
    ASSUME NEW e \in Stages
    PROVE  /\ e # None /\ e.ins \in Instrs /\ e.pc \in Pcs /\ e.npc \in Pcs
           /\ e.a \in Vals /\ e.b \in Vals /\ e.intr \in BOOLEAN
           /\ e.exc \in Traps \cup Flushes \cup {None} /\ e.valid \in BOOLEAN
           /\ e.res \in Vals \cup {Junk} /\ e.irq \in IrqStates \cup {None}
           /\ e.ins.op \in Ops /\ e.ins.rd \in Regs
<1>1. e # None
  BY NoneAssumption
<1>2. e.ins \in Instrs
  BY DEF Stages
<1>3. e.ins.op \in Ops /\ e.ins.rd \in Regs
  BY <1>2, InstrType
<1>. QED
  BY <1>1, <1>2, <1>3 DEF Stages

(* What the stages hold is what they may hold. *)
LEMMA StagesType ==
    ASSUME TypeOK
    PROVE  /\ e1 # None => e1 \in Stages
           /\ e2 # None => e2 \in Stages
           /\ wb # None => wb \in Stages
  BY DEF TypeOK

(* A stage with an op is not empty and was not interrupted. *)
LEMMA OpKinds ==
    ASSUME NEW e \in Stages \cup {None}
    PROVE  /\ Op(e) # "none" => e # None /\ ~e.intr /\ Op(e) = e.ins.op
           /\ e # None /\ ~e.intr => Op(e) = e.ins.op
           /\ e # None /\ e.intr => Op(e) = "none"
           /\ Op(e) \in Ops \cup {"none"} /\ "none" \notin Ops
           /\ Rd(e) \in Regs
<1>1. "none" \notin Ops
  BY DEF Ops, Writing, CsrOps, MemOps, Branches
<1>2. e # None => e.ins.op \in Ops /\ e.ins.rd \in Regs
  BY StageType
<1>. QED
  <2>1. /\ Op(e) # "none" => e # None /\ ~e.intr /\ Op(e) = e.ins.op
        /\ e # None /\ ~e.intr => Op(e) = e.ins.op
        /\ e # None /\ e.intr => Op(e) = "none"
    BY DEF Op
  <2>2. Op(e) \in Ops \cup {"none"}
    BY <1>2, <2>1 DEF Op
  <2>3. Op(e) \in Writing => e # None
    BY <1>1, <2>1 DEF Ops
  <2>4. Rd(e) \in Regs
    BY <1>2, <2>3, PipeAssumption DEF Rd
  <2>. QED
    BY <1>1, <2>1, <2>2, <2>4

-----------------------------------------------------------------------------
(* A cycle that stalls, and one that issues. *)

(* What is in the stages of a state that satisfies the invariant. *)
LEMMA StageOps ==
    ASSUME IInv
    PROVE  /\ e1 \in Stages \cup {None} /\ e2 \in Stages \cup {None}
           /\ wb \in Stages \cup {None}
           /\ wb # None /\ (wb.exc # None \/ wb.irq # None) => e1 = None /\ e2 = None
           /\ e1 # None \/ e2 # None => csr_branch = None /\ ~Redirecting
                                        /\ ~squash_e1_e2_q
           /\ Mem(e2) => e2 # None /\ e2.exc = None
<1>1. /\ e1 \in Stages \cup {None} /\ e2 \in Stages \cup {None}
      /\ wb \in Stages \cup {None}
  BY DEF IInv, TypeOK
<1>2. wb # None /\ wb.exc # None => e1 = None /\ e2 = None
  BY DEF IInv, TrapEmpties, Redirecting
<1>3. wb # None /\ wb.irq # None => e1 = None /\ e2 = None
  <2>1. "csr" \in CsrOps
    BY DEF CsrOps
  <2>. QED
    BY <1>2, <2>1 DEF IInv, CsrBlocks
<1>4. e1 # None \/ e2 # None => csr_branch = None /\ ~Redirecting /\ ~squash_e1_e2_q
  BY DEF IInv, TrapEmpties
<1>5. Mem(e2) => e2 # None /\ e2.exc = None
  <2>. SUFFICES ASSUME Mem(e2) PROVE e2 # None /\ e2.exc = None
    OBVIOUS
  <2>1. Op(e2) \in {"load", "store"}
    BY DEF Mem, MemOps
  <2>2. e2 # None /\ ~e2.intr /\ e2.ins.op \in {"load", "store"}
    BY <1>1, <2>1, OpKinds
  <2>. QED
    BY <2>2 DEF IInv, InE2, EarlyException
<1>. QED
  BY <1>1, <1>2, <1>3, <1>4, <1>5

(* While a division or a memory access holds the pipeline nothing issues,  *)
(* and no exception, flush or redirect is under way in front of it.        *)
LEMMA StallCycle ==
    ASSUME IInv,
           NEW bus, NEW target, NEW complete, NEW fault, NEW data, NEW lsuBusy,
           Step(bus, target, complete, fault, data, lsuBusy),
           Stalled(complete)
    PROVE  /\ ~Issues(bus, complete, fault, lsuBusy)
           /\ UNCHANGED <<e1, e2, wb, squash_e1_e2_q, regs>>
           /\ csr_branch = None /\ csr_branch' = None /\ ~Redirecting
           /\ wb # None => wb.exc = None /\ wb.irq = None
           /\ csr_e1' = None
           /\ \/ Op(e1) = "div" /\ e1 # None /\ ~div_valid_q /\ ~Mem(e2)
              \/ /\ Mem(e2) /\ Op(e1) \notin CsrOps \cup {"div"}
                 /\ ~Squashed(complete, fault)
           /\ e1 # None \/ e2 # None
<1>. USE DEF Step
<1>1. ~Issues(bus, complete, fault, lsuBusy)
  BY DEF Issues
<1>2. UNCHANGED <<e1, e2, wb, squash_e1_e2_q, regs>>
  BY DEF Cycle, StageE1, StageE2, StageWB, Squash, RegisterFile
<1>3. csr_e1' = None
  BY <1>1 DEF Cycle, CsrUnit
<1>4. \/ Op(e1) = "div" /\ e1 # None /\ ~div_valid_q /\ ~Mem(e2)
      \/ Mem(e2) /\ ~complete /\ Op(e1) \notin CsrOps \cup {"div"}
  <2>1. Op(e1) = "div" => e1 # None
    BY DEF Op
  <2>2. Op(e1) \in CsrOps \cup {"div"} => ~Mem(e2)
    BY DEF IInv, DivBlocks
  <2>. QED
    BY <2>1, <2>2 DEF Stalled
<1>5. e1 # None \/ e2 # None
  BY <1>4, StageOps
<1>6. csr_branch = None /\ ~Redirecting /\ ~squash_e1_e2_q
  BY <1>5, StageOps
<1>7. wb # None => wb.exc = None /\ wb.irq = None
  BY <1>5, StageOps
<1>8. csr_branch' = None
  BY <1>7 DEF Cycle, CsrBranch
<1>9. Mem(e2) /\ ~complete => ~Squashed(complete, fault)
  BY <1>6, StageOps DEF Squashed, ExceptionE2
<1>. QED
  BY <1>1, <1>2, <1>3, <1>4, <1>5, <1>6, <1>7, <1>8, <1>9

(* An instruction issues only when nothing that blocks is in the pipeline. *)
LEMMA IssueCycle ==
    ASSUME IInv,
           NEW bus, NEW target, NEW complete, NEW fault, NEW data, NEW lsuBusy,
           Step(bus, target, complete, fault, data, lsuBusy),
           Issues(bus, complete, fault, lsuBusy)
    PROVE  /\ bus.valid /\ bus.ins \in Instrs
           /\ ~Stalled(complete) /\ ~Squashed(complete, fault)
           /\ ExceptionE2(complete, fault) = None
           /\ ~div_pending_q /\ ~csr_pending_q /\ csr_branch = None
           /\ Clear(bus.ins)
           /\ Op(e1) \notin CsrOps \cup {"div"}
           /\ Op(e2) \notin CsrOps /\ Op(wb) \notin CsrOps
           /\ wb # None => wb.exc = None /\ wb.irq = None
<1>1. /\ bus.valid
      /\ ~Stalled(complete) /\ ~Squashed(complete, fault)
      /\ ~div_pending_q /\ ~csr_pending_q /\ csr_branch = None
      /\ Clear(bus.ins)
  BY DEF Issues, OpcodeValid
<1>2. bus.ins \in Instrs
  BY <1>1, OfferedType DEF IInv, Step
<1>3. ExceptionE2(complete, fault) = None /\ ~squash_e1_e2_q
  BY <1>1 DEF Squashed
<1>4. wb # None => wb.exc = None
  BY <1>3 DEF IInv, TrapEmpties, Redirecting
<1>5. Op(e1) \notin CsrOps /\ Op(e2) \notin CsrOps /\ Op(wb) \notin CsrOps
  <2>1. Op(wb) \in CsrOps => wb # None
    BY DEF Op, CsrOps
  <2>. QED
    BY <1>1, <1>4, <2>1 DEF IInv, CsrBlocks
<1>6. wb # None => wb.irq = None
  <2>1. "csr" \in CsrOps
    BY DEF CsrOps
  <2>. QED
    BY <1>4, <1>5, <2>1 DEF IInv, CsrBlocks
<1>7. Op(e1) # "div"
  <2>. SUFFICES ASSUME Op(e1) = "div" PROVE FALSE
    OBVIOUS
  <2>1. e2 # None /\ e2.exc # None /\ ~Mem(e2)
    BY <1>1 DEF IInv, DivBlocks
  <2>. QED
    BY <1>3, <2>1 DEF ExceptionE2
<1>. QED
  BY <1>1, <1>2, <1>3, <1>4, <1>5, <1>6, <1>7

(* The scoreboard: what an operand is read from has a value. *)
LEMMA OperandType ==
    ASSUME IInv,
           NEW bus, NEW target, NEW complete, NEW fault, NEW data, NEW lsuBusy,
           Step(bus, target, complete, fault, data, lsuBusy),
           Issues(bus, complete, fault, lsuBusy),
           NEW r \in {bus.ins.ra, bus.ins.rb}
    PROVE  Operand(r, data) \in Vals
<1>1. ~Busy(r) /\ r \in Regs
  BY IssueCycle, InstrType DEF Clear
<1>2. CASE r = 0
  BY <1>2, PipeAssumption DEF Operand
<1>3. CASE r # 0 /\ r = Rd(e1)
  <2>1. Op(e1) \in Writing
    BY <1>3 DEF Rd
  <2>2. Op(e1) \notin {"load", "mul"}
    BY <1>1, <1>3 DEF Busy
  <2>3. Op(e1) \notin CsrOps \cup {"div"}
    BY IssueCycle
  <2>4. Op(e1) \in {"alu"} \cup Branches
    BY <2>1, <2>2, <2>3 DEF Writing, CsrOps
  <2>5. e1 # None
    BY <2>1 DEF Op, Writing, Branches
  <2>. QED
    BY <1>3, <2>4, <2>5 DEF Operand, IInv, InE1
<1>4. CASE r # 0 /\ r # Rd(e1) /\ r = Rd(e2)
  <2>1. Op(e2) \in Writing
    BY <1>4 DEF Rd
  <2>2. e2 \in Stages
    BY <2>1, StageOps DEF Op, Writing, Branches
  <2>3. Operand(r, data) = ResultE2(data)
    BY <1>4 DEF Operand
  <2>4. CASE Op(e2) = "load"
    <3>1. SUPPORT_LOAD_BYPASS
      BY <1>1, <1>4, <2>4 DEF Busy
    <3>2. Mem(e2)
      BY <2>4 DEF Mem, MemOps
    <3>3. complete
      BY <3>2, IssueCycle DEF Stalled
    <3>4. data \in Vals
      BY <2>4, <3>3, OfferedType DEF Step, IInv
    <3>. QED
      BY <2>3, <3>1, <3>2, <3>4 DEF ResultE2
  <2>5. CASE Op(e2) = "mul"
    <3>1. SUPPORT_MUL_BYPASS
      BY <1>1, <1>4, <2>5 DEF Busy
    <3>2. ~Mem(e2)
      BY <2>5 DEF Mem, MemOps
    <3>3. Result(e2.ins, e2.a, e2.b) \in Vals
      BY <2>2, StageType, PipeAssumption
    <3>. QED
      BY <2>3, <2>5, <3>1, <3>2, <3>3 DEF ResultE2
  <2>6. CASE Op(e2) \notin {"load", "mul"}
    <3>1. e2 # None /\ e2.res \in Vals
      BY <2>1, <2>2, <2>6, StageType DEF IInv, InE2
    <3>2. ~Mem(e2)
      BY <2>1, <2>6 DEF Mem, MemOps, Writing, Branches
    <3>. QED
      BY <2>3, <2>6, <3>1, <3>2 DEF ResultE2
  <2>. QED
    BY <2>4, <2>5, <2>6
<1>5. CASE r # 0 /\ r # Rd(e1) /\ r # Rd(e2) /\ r = RdWb
  BY <1>5 DEF Operand, IInv, InWb
<1>6. CASE r # 0 /\ r # Rd(e1) /\ r # Rd(e2) /\ r # RdWb
  BY <1>1, <1>6 DEF Operand, IInv, TypeOK
<1>. QED
  BY <1>2, <1>3, <1>4, <1>5, <1>6

(* What an issue puts into E1. *)
LEMMA EnterCycle ==
    ASSUME IInv,
           NEW bus, NEW target, NEW complete, NEW fault, NEW data, NEW lsuBusy,
           Step(bus, target, complete, fault, data, lsuBusy),
           Issues(bus, complete, fault, lsuBusy)
    PROVE  /\ e1' \in Stages /\ e1' # None
           /\ e1'.ins = bus.ins /\ e1'.pc = next_pc /\ e1'.npc = target
           /\ e1'.a = Operand(bus.ins.ra, data) /\ e1'.b = Operand(bus.ins.rb, data)
           /\ e1'.intr = take_interrupt_q
           /\ e1'.exc = IssueException(bus.ins.op)
           /\ e1'.valid
           /\ bus.ins.op \in {"alu"} \cup Branches =>
                 /\ e1'.res \in Vals
                 /\ e1'.res = Result(bus.ins, e1'.a, e1'.b)
<1>1. bus.ins \in Instrs /\ ~Stalled(complete)
  BY IssueCycle
<1>2. Operand(bus.ins.ra, data) \in Vals /\ Operand(bus.ins.rb, data) \in Vals
  BY OperandType
<1>3. target \in Pcs /\ next_pc \in Pcs /\ take_interrupt_q \in BOOLEAN
  BY OfferedType DEF IInv, TypeOK, Step
<1>4. Result(bus.ins, Operand(bus.ins.ra, data), Operand(bus.ins.rb, data)) \in Vals
  BY <1>1, <1>2, PipeAssumption
<1>5. e1' = Enter(bus, target, data)
  BY <1>1 DEF Step, Cycle, StageE1
<1>6. Enter(bus, target, data) \in Stages
  <2>1. IssueException(bus.ins.op) \in Traps \cup {None}
    BY DEF IssueException, Traps
  <2>. QED
    BY <1>1, <1>2, <1>3, <1>4, <2>1 DEF Enter, Stages
<1>7. e1' # None
  BY <1>5, <1>6, NoneAssumption
<1>. QED
  BY <1>4, <1>5, <1>6, <1>7 DEF Enter

(* A division leaves E1 with its result, a CSR access with its answer. *)
LEMMA LeaveType ==
    ASSUME IInv, NEW complete, ~Stalled(complete), e1 # None
    PROVE  /\ LeaveE1 \in Stages
           /\ LeaveE1.ins = e1.ins /\ LeaveE1.pc = e1.pc /\ LeaveE1.npc = e1.npc
           /\ LeaveE1.a = e1.a /\ LeaveE1.b = e1.b
           /\ LeaveE1.intr = e1.intr
           /\ LeaveE1.exc = IF e1.intr THEN "interrupt" ELSE EarlyException(e1.ins.op)
           /\ LeaveE1.exc = None => LeaveE1.valid
           /\ Op(LeaveE1) = Op(e1)
           /\ Op(e1) \in Writing \ {"load", "mul"} => LeaveE1.res \in Vals
           /\ Op(e1) \in {"alu"} \cup Branches => LeaveE1.res = e1.res
<1>. DEFINE exc == IF e1.intr THEN "interrupt"
                   ELSE IF e1.exc # None THEN e1.exc
                   ELSE IF csr_e1 # None THEN csr_e1.exc ELSE None
            res == IF Op(e1) = "div" THEN div_result_q
                   ELSE IF Op(e1) \notin CsrOps THEN e1.res
                   ELSE IF csr_e1 # None THEN csr_e1.val ELSE 0
<1>1. LeaveE1 = [e1 EXCEPT !.exc = exc, !.valid = e1.intr \/ e1.exc = None, !.res = res]
  BY DEF LeaveE1
<1>2. e1 \in Stages
  BY StageOps
<1>3. exc = IF e1.intr THEN "interrupt" ELSE EarlyException(e1.ins.op)
  <2>1. CASE e1.intr
    BY <2>1
  <2>2. CASE ~e1.intr /\ e1.ins.op \in {"fault", "mis"}
    <3>1. e1.exc = IssueException(e1.ins.op)
      BY <2>2 DEF IInv, InE1
    <3>2. e1.exc # None
      BY <2>2, <3>1, NoneAssumption DEF IssueException, Traps
    <3>. QED
      BY <2>2, <3>1, <3>2 DEF EarlyException, IssueException
  <2>3. CASE ~e1.intr /\ e1.ins.op \notin {"fault", "mis"}
    <3>1. e1.exc = None /\ Op(e1) = e1.ins.op
      BY <2>3 DEF IInv, InE1, IssueException, Op
    <3>2. CASE Op(e1) \in CsrOps
      <4>1. csr_e1 # None /\ csr_e1.exc = CsrException(Op(e1))
        BY <3>2 DEF IInv, CsrBlocks
      <4>2. exc = CsrException(e1.ins.op)
        BY <2>3, <3>1, <4>1
      <4>3. e1.ins.op \in {"csr", "satp", "ecall", "fence", "eret"}
        BY <2>3, <3>1, <3>2 DEF CsrOps
      <4>. QED
        BY <2>3, <4>2, <4>3 DEF CsrException, EarlyException
    <3>3. CASE Op(e1) \notin CsrOps
      <4>1. csr_e1 = None
        BY <3>3 DEF IInv, CsrResultKept
      <4>2. exc = None
        BY <2>3, <3>1, <4>1
      <4>. QED
        BY <2>3, <3>1, <3>3, <4>2 DEF EarlyException, IssueException, CsrOps
    <3>. QED
      BY <3>2, <3>3
  <2>. QED
    BY <2>1, <2>2, <2>3
<1>4. exc \in Traps \cup Flushes \cup {None}
  BY <1>3 DEF EarlyException, IssueException, Traps, Flushes
<1>5. res \in Vals \cup {Junk} /\ (Op(e1) \in Writing \ {"load", "mul"} => res \in Vals)
  <2>1. CASE Op(e1) = "div"
    <3>1. div_valid_q
      BY <2>1 DEF Stalled
    <3>. QED
      BY <2>1, <3>1 DEF IInv, DivResult
  <2>2. CASE Op(e1) \in CsrOps
    <3>1. csr_e1 # None => csr_e1.val \in Vals
      BY DEF IInv, TypeOK
    <3>2. Op(e1) # "div"
      BY <2>2 DEF CsrOps
    <3>. QED
      BY <2>2, <3>1, <3>2, PipeAssumption
  <2>3. CASE Op(e1) \notin CsrOps /\ Op(e1) # "div"
    <3>1. Op(e1) \in Writing \ {"load", "mul"} => Op(e1) \in {"alu"} \cup Branches
      BY <2>3 DEF Writing, CsrOps
    <3>2. e1.res \in Vals \cup {Junk}
      BY <1>2, StageType
    <3>. QED
      BY <2>3, <3>1, <3>2 DEF IInv, InE1
  <2>. QED
    BY <2>1, <2>2, <2>3
<1>6. Op(e1) \in {"alu"} \cup Branches => res = e1.res
  BY DEF Branches, CsrOps
<1>7. exc = None => e1.exc = None
  <2>1. IssueException(e1.ins.op) # None => EarlyException(e1.ins.op) = IssueException(e1.ins.op)
    BY DEF EarlyException, IssueException
  <2>2. "interrupt" # None
    BY NoneAssumption DEF Traps
  <2>. QED
    BY <1>3, <2>1, <2>2 DEF IInv, InE1
<1>. HIDE DEF exc, res
<1>8. (e1.intr \/ e1.exc = None) \in BOOLEAN
  OBVIOUS
<1>9. LeaveE1 \in Stages
  BY <1>1, <1>2, <1>4, <1>5, <1>8 DEF Stages
<1>10. /\ LeaveE1.ins = e1.ins /\ LeaveE1.pc = e1.pc /\ LeaveE1.npc = e1.npc
       /\ LeaveE1.a = e1.a /\ LeaveE1.b = e1.b
       /\ LeaveE1.intr = e1.intr /\ LeaveE1.exc = exc /\ LeaveE1.res = res
       /\ LeaveE1.valid = (e1.intr \/ e1.exc = None)
  BY <1>1, <1>2 DEF Stages
<1>11. Op(LeaveE1) = Op(e1)
  BY <1>9, <1>10, NoneAssumption DEF Op
<1>. QED
  BY <1>3, <1>5, <1>6, <1>7, <1>9, <1>10, <1>11

(* A cycle without a stall moves E1 to E2, unless a flush removes it. *)
LEMMA LeaveCycle ==
    ASSUME IInv,
           NEW bus, NEW target, NEW complete, NEW fault, NEW data, NEW lsuBusy,
           Step(bus, target, complete, fault, data, lsuBusy),
           ~Stalled(complete)
    PROVE  /\ Squashed(complete, fault) \/ e1 = None => e2' = None
           /\ ~Squashed(complete, fault) /\ e1 # None => e2' = LeaveE1
           /\ ~Issues(bus, complete, fault, lsuBusy) => e1' = None
  BY DEF Step, Cycle, StageE1, StageE2

(* A cycle without a stall moves E2 to WB, with what the memory answers. *)
LEMMA WriteBackCycle ==
    ASSUME IInv,
           NEW bus, NEW target, NEW complete, NEW fault, NEW data, NEW lsuBusy,
           Step(bus, target, complete, fault, data, lsuBusy),
           ~Stalled(complete)
    PROVE  /\ e2 = None => wb' = None
           /\ e2 # None =>
                 /\ wb' \in Stages /\ wb' # None
                 /\ wb'.ins = e2.ins /\ wb'.pc = e2.pc /\ wb'.npc = e2.npc
                 /\ wb'.a = e2.a /\ wb'.b = e2.b /\ wb'.intr = e2.intr
                 /\ wb'.exc = ExceptionE2(complete, fault)
                 /\ wb'.irq \in IrqAfter(e2, ExceptionE2(complete, fault))
                 /\ wb'.exc = None => wb'.valid
                 /\ wb'.res = IF Mem(e2) /\ e2.valid THEN data
                              ELSE IF Op(e2) = "mul" /\ e2.valid
                              THEN Result(e2.ins, e2.a, e2.b)
                              ELSE e2.res
                 /\ wb'.exc = None /\ Op(e2) \in Writing => wb'.res \in Vals
                 /\ wb'.exc # None => wb'.exc = e2.exc \/ (wb'.exc = "mem" /\ Mem(e2))
<1>1. e2 = None => wb' = None
  BY DEF Step, Cycle, StageWB
<1>2. ASSUME e2 # None
      PROVE  /\ wb' \in Stages /\ wb' # None
             /\ wb'.ins = e2.ins /\ wb'.pc = e2.pc /\ wb'.npc = e2.npc
             /\ wb'.a = e2.a /\ wb'.b = e2.b /\ wb'.intr = e2.intr
             /\ wb'.exc = ExceptionE2(complete, fault)
             /\ wb'.irq \in IrqAfter(e2, ExceptionE2(complete, fault))
             /\ wb'.exc = None => wb'.valid
             /\ wb'.res = IF Mem(e2) /\ e2.valid THEN data
                          ELSE IF Op(e2) = "mul" /\ e2.valid
                          THEN Result(e2.ins, e2.a, e2.b)
                          ELSE e2.res
             /\ wb'.exc = None /\ Op(e2) \in Writing => wb'.res \in Vals
             /\ wb'.exc # None => wb'.exc = e2.exc \/ (wb'.exc = "mem" /\ Mem(e2))
  <2>. DEFINE exc == ExceptionE2(complete, fault)
              res == IF Mem(e2) /\ e2.valid THEN data
                     ELSE IF Op(e2) = "mul" /\ e2.valid
                     THEN Result(e2.ins, e2.a, e2.b)
                     ELSE e2.res
              valid == e2.valid /\ exc # "mem"
  <2>1. PICK after \in IrqAfter(e2, exc) :
             wb' = [e2 EXCEPT !.exc = exc, !.valid = valid, !.irq = after, !.res = res]
    BY <1>2, Zenon DEF Step, Cycle, StageWB
  <2>2. e2 \in Stages
    BY <1>2, StageOps
  <2>3. after \in IrqStates \cup {None}
    BY DEF IrqAfter, IrqStates
  <2>4. exc \in Traps \cup Flushes \cup {None}
        /\ (exc # None => exc = e2.exc \/ (exc = "mem" /\ Mem(e2)))
    BY <1>2, <2>2, StageType DEF ExceptionE2, Traps
  <2>5. res \in Vals \cup {Junk}
    BY <2>2, StageType, OfferedType, PipeAssumption DEF Step, IInv
  <2>6. exc = None => e2.exc = None
    <3>1. Mem(e2) => e2.exc = None
      BY StageOps
    <3>. QED
      BY <1>2, <3>1 DEF ExceptionE2
  <2>7. exc = None => e2.valid
    BY <1>2, <2>6 DEF IInv, InE2
  <2>8. exc = None /\ Op(e2) \in Writing => res \in Vals
    <3>. SUFFICES ASSUME exc = None, Op(e2) \in Writing PROVE res \in Vals
      OBVIOUS
    <3>1. CASE Op(e2) = "load"
      <4>1. Mem(e2)
        BY <3>1 DEF Mem, MemOps
      <4>2. complete
        BY <4>1 DEF Stalled
      <4>3. data \in Vals
        BY <3>1, <4>2, OfferedType DEF Step, IInv
      <4>. QED
        BY <2>7, <4>1, <4>3
    <3>2. CASE Op(e2) = "mul"
      <4>1. ~Mem(e2)
        BY <3>2 DEF Mem, MemOps
      <4>2. Result(e2.ins, e2.a, e2.b) \in Vals
        BY <2>2, StageType, PipeAssumption
      <4>. QED
        BY <2>7, <3>2, <4>1, <4>2
    <3>3. CASE Op(e2) \notin {"load", "mul"}
      <4>1. ~Mem(e2)
        BY <3>3 DEF Mem, MemOps, Writing, Branches
      <4>2. e2.res \in Vals
        BY <1>2, <3>3 DEF IInv, InE2
      <4>. QED
        BY <3>3, <4>1, <4>2
    <3>. QED
      BY <3>1, <3>2, <3>3
  <2>9. exc # "mem" \/ exc # None
    BY NoneAssumption DEF Traps
  <2>10. valid \in BOOLEAN /\ (exc = None => valid)
    <3>1. "mem" # None
      BY NoneAssumption DEF Traps
    <3>2. e2.valid \in BOOLEAN
      BY <2>2, StageType
    <3>3. valid \in BOOLEAN
      BY <3>2
    <3>4. exc = None => valid
      BY <2>7, <3>1
    <3>. QED
      BY <3>3, <3>4, Zenon
  <2>. HIDE DEF exc, res, valid
  <2>11. wb' \in Stages
    BY <2>1, <2>2, <2>3, <2>4, <2>5, <2>10 DEF Stages
  <2>12. wb' # None
    BY <2>11, NoneAssumption
  <2>13. /\ wb'.ins = e2.ins /\ wb'.pc = e2.pc /\ wb'.npc = e2.npc
         /\ wb'.a = e2.a /\ wb'.b = e2.b /\ wb'.intr = e2.intr
         /\ wb'.exc = exc /\ wb'.irq = after /\ wb'.valid = valid /\ wb'.res = res
    BY <2>1, <2>2 DEF Stages
  <2>14. wb'.irq \in IrqAfter(e2, exc)
    BY <2>1, <2>13, Zenon
  <2>15. wb'.exc = None => wb'.valid
    BY <2>10, <2>13, Zenon
  <2>16. /\ wb'.exc = None /\ Op(e2) \in Writing => wb'.res \in Vals
         /\ wb'.exc # None => wb'.exc = e2.exc \/ (wb'.exc = "mem" /\ Mem(e2))
    BY <2>4, <2>8, <2>13, Zenon
  <2>17. /\ wb'.exc = ExceptionE2(complete, fault)
         /\ wb'.irq \in IrqAfter(e2, ExceptionE2(complete, fault))
         /\ wb'.res = IF Mem(e2) /\ e2.valid THEN data
                      ELSE IF Op(e2) = "mul" /\ e2.valid
                      THEN Result(e2.ins, e2.a, e2.b)
                      ELSE e2.res
    BY <2>13, <2>14 DEF exc, res
  <2>. QED
    BY <2>11, <2>12, <2>13, <2>15, <2>16, <2>17, Zenon
<1>. QED
  BY <1>1, <1>2, Zenon

-----------------------------------------------------------------------------
(* Every part of the invariant is kept, one lemma for each. *)

(* The first cycle: nothing is in the pipeline. *)
LEMMA InitInvariant == Init => IInv
<1>. SUFFICES ASSUME Init PROVE IInv
  OBVIOUS
<1>1. Op(None) = "none" /\ ~Mem(None)
  BY DEF Op, Mem, MemOps
<1>2. TypeOK
  <2>1. regs \in [Regs -> Vals] /\ regs[0] = 0
    BY PipeAssumption DEF Init
  <2>2. next_pc \in Pcs /\ refill \in 0..2 /\ csr_branch \in Pcs
    BY PipeAssumption DEF Init
  <2>3. irq \in IrqStates
    BY DEF Init, IrqStates
  <2>. QED
    BY <2>1, <2>2, <2>3 DEF Init, TypeOK
<1>3. CsrResultKept
  BY DEF Init, CsrResultKept
<1>4. InE1 /\ InE2 /\ InWb
  BY DEF Init, InE1, InE2, InWb, RdWb
<1>5. TrapEmpties
  BY DEF Init, TrapEmpties, Redirecting
<1>6. CsrBlocks
  BY <1>1 DEF Init, CsrBlocks, CsrOps
<1>7. DivBlocks
  BY <1>1 DEF Init, DivBlocks
<1>8. DivResult
  BY DEF Init, DivResult
<1>9. Interrupts
  BY DEF Init, Interrupts
<1>. QED
  BY <1>2, <1>3, <1>4, <1>5, <1>6, <1>7, <1>8, <1>9 DEF IInv

(* The front end and the flags of the issue stage keep their types. *)
LEMMA FrontEndType ==
    ASSUME IInv,
           NEW bus, NEW target, NEW complete, NEW fault, NEW data, NEW lsuBusy,
           Step(bus, target, complete, fault, data, lsuBusy)
    PROVE  /\ next_pc' \in Pcs /\ refill' \in 0..2 /\ held' \in Instrs \cup {None}
           /\ {div_pending_q, csr_pending_q, squash_e1_e2_q, div_valid_q,
               take_interrupt_q}' \subseteq BOOLEAN
           /\ div_s1' = None \/ div_s1'.valid \in BOOLEAN
<1>1. TypeOK
  BY DEF IInv
<1>2. /\ bus.valid => bus.ins \in Instrs
      /\ target \in Pcs
  BY <1>1, OfferedType DEF Step
<1>3. next_pc' \in Pcs
  BY <1>1, <1>2, PipeAssumption DEF Step, Cycle, FrontEnd, TypeOK
<1>4. refill' \in 0..2
  BY <1>1 DEF Step, Cycle, FrontEnd, TypeOK
<1>5. held' \in Instrs \cup {None}
  BY <1>2 DEF Step, Cycle, FrontEnd
<1>6. div_pending_q' \in BOOLEAN /\ csr_pending_q' \in BOOLEAN
  BY <1>1 DEF Step, Cycle, Pending, TypeOK
<1>7. squash_e1_e2_q' \in BOOLEAN
  BY <1>1 DEF Step, Cycle, Squash, TypeOK
<1>8. take_interrupt_q' \in BOOLEAN
  BY DEF Step, Cycle, TakeInterrupt
<1>9. div_valid_q' \in BOOLEAN
  BY <1>1 DEF Step, Cycle, Divider, TypeOK
<1>10. div_s1' = None \/ div_s1'.valid \in BOOLEAN
  <2>1. Issues(bus, complete, fault, lsuBusy) \in BOOLEAN
    BY DEF Issues
  <2>. QED
    BY <2>1 DEF Step, Cycle, Divider
<1>. QED
  BY <1>3, <1>4, <1>5, <1>6, <1>7, <1>8, <1>9, <1>10

(* What leaves WB redirects to an address and writes a value. *)
LEMMA WriteBackType ==
    ASSUME IInv,
           NEW bus, NEW target, NEW complete, NEW fault, NEW data, NEW lsuBusy,
           Step(bus, target, complete, fault, data, lsuBusy)
    PROVE  /\ irq' \in IrqStates
           /\ csr_branch' \in Pcs \cup {None}
           /\ wb # None /\ wb.exc # None => csr_branch' = Target(wb) /\ csr_branch' # None
           /\ regs' \in [Regs -> Vals] /\ regs'[0] = 0
           /\ csr_e1' \in CsrAnswers \cup {None}
<1>1. TypeOK
  BY DEF IInv
<1>2. wb # None => wb \in Stages
  BY StageOps
<1>3. irq' \in IrqStates
  <2>1. CASE wb # None /\ wb.irq # None
    BY <1>2, <2>1, StageType DEF Step, Cycle, InterruptState
  <2>2. CASE ~(wb # None /\ wb.irq # None)
    BY <1>1, <2>2 DEF Step, Cycle, InterruptState, IrqStates, TypeOK
  <2>. QED
    BY <2>1, <2>2
<1>4. wb # None /\ wb.exc # None => Target(wb) \in Pcs
  <2>. SUFFICES ASSUME wb # None, wb.exc # None PROVE Target(wb) \in Pcs
    OBVIOUS
  <2>1. /\ wb.exc \in Traps \cup Flushes /\ wb.pc \in Pcs /\ wb.npc \in Pcs
    BY <1>2, StageType
  <2>. QED
    BY <2>1, PipeAssumption DEF Target, Traps, Flushes
<1>5. csr_branch' = IF wb # None /\ wb.exc # None THEN Target(wb) ELSE None
  BY DEF Step, Cycle, CsrBranch
<1>6. regs' \in [Regs -> Vals] /\ regs'[0] = 0
  <2>1. RdWb # 0 => RdWb \in Regs /\ wb.res \in Vals
    <3>1. RdWb # 0 => RdWb \in Regs
      BY StageOps, OpKinds DEF RdWb
    <3>. QED
      BY <3>1 DEF IInv, InWb
  <2>. QED
    BY <1>1, <2>1 DEF Step, Cycle, RegisterFile, TypeOK
<1>7. csr_e1' \in CsrAnswers \cup {None}
  <2>1. CASE ~(/\ Issues(bus, complete, fault, lsuBusy) /\ ~take_interrupt_q
               /\ bus.ins.op \in CsrOps)
    BY <2>1 DEF Step, Cycle, CsrUnit
  <2>2. CASE /\ Issues(bus, complete, fault, lsuBusy) /\ ~take_interrupt_q
             /\ bus.ins.op \in CsrOps
    <3>1. \E read \in IF bus.ins.op \in Writing THEN Vals ELSE {0} :
            csr_e1' = [val |-> read, exc |-> CsrException(bus.ins.op)]
      BY <2>2 DEF Step, Cycle, CsrUnit
    <3>2. CsrException(bus.ins.op) \in {"ecall"} \cup Flushes \cup {None}
      BY <2>2 DEF CsrOps, CsrException, Flushes
    <3>. QED
      BY <3>1, <3>2, PipeAssumption DEF CsrAnswers
  <2>. QED
    BY <2>1, <2>2
<1>. QED
  BY <1>3, <1>4, <1>5, <1>6, <1>7, NoneAssumption

(* The pipeline registers hold instructions. *)
LEMMA StagesStep ==
    ASSUME IInv,
           NEW bus, NEW target, NEW complete, NEW fault, NEW data, NEW lsuBusy,
           Step(bus, target, complete, fault, data, lsuBusy)
    PROVE  {e1, e2, wb}' \subseteq Stages \cup {None}
<1>1. CASE Stalled(complete)
  BY <1>1, StallCycle, StageOps
<1>2. CASE ~Stalled(complete)
  <2>1. e1' \in Stages \cup {None}
    BY <1>2, EnterCycle, LeaveCycle
  <2>2. e2' \in Stages \cup {None}
    BY <1>2, LeaveCycle, LeaveType
  <2>3. wb' \in Stages \cup {None}
    BY <1>2, WriteBackCycle
  <2>. QED
    BY <2>1, <2>2, <2>3
<1>. QED
  BY <1>1, <1>2

(* A trap or flush that reaches WB finds the pipeline empty after it. *)
LEMMA TrapEmptiesStep ==
    ASSUME IInv,
           NEW bus, NEW target, NEW complete, NEW fault, NEW data, NEW lsuBusy,
           Step(bus, target, complete, fault, data, lsuBusy)
    PROVE  TrapEmpties'
<1>1. CASE Stalled(complete)
  <2>1. /\ UNCHANGED <<e1, e2, wb, squash_e1_e2_q>> /\ ~Redirecting /\ csr_branch' = None
    BY <1>1, StallCycle
  <2>2. squash_e1_e2_q <=> Redirecting
    BY DEF IInv, TrapEmpties
  <2>. QED
    BY <2>1, <2>2 DEF TrapEmpties, Redirecting
<1>2. CASE ~Stalled(complete)
  <2>1. squash_e1_e2_q' = (ExceptionE2(complete, fault) # None)
    BY <1>2 DEF Step, Cycle, Squash
  <2>2. e2 = None => ExceptionE2(complete, fault) = None
    BY DEF ExceptionE2, Mem, Op, MemOps
  <2>3. Redirecting' <=> ExceptionE2(complete, fault) # None
    BY <1>2, <2>2, WriteBackCycle DEF Redirecting
  <2>4. squash_e1_e2_q' <=> Redirecting'
    BY <2>1, <2>3
  <2>5. Squashed(complete, fault) => e1' = None /\ e2' = None
    BY <1>2, LeaveCycle, IssueCycle
  <2>6. ASSUME Redirecting' PROVE e1' = None /\ e2' = None /\ csr_branch' = None
    <3>1. Squashed(complete, fault) /\ e2 # None
      BY <2>2, <2>3, <2>6 DEF Squashed
    <3>2. ~Redirecting
      BY <3>1, StageOps
    <3>3. csr_branch' = None
      BY <3>2 DEF Step, Cycle, CsrBranch, Redirecting
    <3>. QED
      BY <2>5, <3>1, <3>3
  <2>7. ASSUME csr_branch' # None PROVE e1' = None /\ e2' = None /\ wb' = None
    <3>1. Redirecting
      BY <2>7 DEF Step, Cycle, CsrBranch, Redirecting
    <3>2. squash_e1_e2_q /\ e2 = None
      BY <3>1 DEF IInv, TrapEmpties
    <3>3. Squashed(complete, fault)
      BY <3>2 DEF Squashed
    <3>. QED
      BY <1>2, <2>5, <3>2, <3>3, WriteBackCycle
  <2>. QED
    BY <2>4, <2>6, <2>7 DEF TrapEmpties
<1>. QED
  BY <1>1, <1>2

(* A CSR access is alone with what is older until it has left WB. *)
LEMMA CsrBlocksStep ==
    ASSUME IInv,
           NEW bus, NEW target, NEW complete, NEW fault, NEW data, NEW lsuBusy,
           Step(bus, target, complete, fault, data, lsuBusy)
    PROVE  CsrBlocks'
<1>. DEFINE issue == Issues(bus, complete, fault, lsuBusy)
            squashed == Squashed(complete, fault)
<1>1. CASE Stalled(complete)
  <2>1. /\ UNCHANGED <<e1, e2, wb>> /\ csr_e1' = None /\ ~issue
        /\ wb # None => wb.exc = None /\ wb.irq = None
        /\ e1 # None \/ e2 # None
        /\ Op(e1) \notin CsrOps
    <3>1. "div" \notin CsrOps
      BY DEF CsrOps
    <3>. QED
      BY <1>1, <3>1, StallCycle
  <2>2. Op(e2) \notin CsrOps
    <3>. SUFFICES ASSUME Op(e2) \in CsrOps PROVE FALSE
      OBVIOUS
    <3>1. ~Mem(e2)
      BY DEF Mem, MemOps, CsrOps
    <3>2. e1 = None
      BY DEF IInv, CsrBlocks
    <3>. QED
      BY <1>1, <3>1, <3>2, StallCycle
  <2>3. Op(wb) \notin CsrOps
    BY <2>1 DEF IInv, CsrBlocks
  <2>4. ~csr_pending_q
    BY <2>1, <2>2, <2>3 DEF IInv, CsrBlocks
  <2>5. ~csr_pending_q'
    BY <2>1, <2>4 DEF Step, Cycle, Pending
  <2>. QED
    BY <2>1, <2>2, <2>3, <2>5 DEF CsrBlocks, Op
<1>2. CASE ~Stalled(complete)
  <2>1. csr_pending_q' = IF squashed THEN FALSE
                         ELSE IF issue /\ ~take_interrupt_q /\ bus.ins.op \in CsrOps
                         THEN TRUE
                         ELSE csr_pending_q /\ Op(wb) \notin CsrOps
    BY <1>2 DEF Step, Cycle, Pending
  <2>2. csr_e1' \in CsrAnswers \cup {None}
    BY WriteBackType
  <2>3. ASSUME Op(e1)' \in CsrOps
        PROVE  /\ csr_pending_q' /\ csr_e1' # None
               /\ csr_e1'.exc = CsrException(Op(e1)')
    <3>1. e1' # None /\ ~e1'.intr /\ Op(e1)' = e1'.ins.op
      BY <2>3 DEF Op, CsrOps
    <3>2. issue
      BY <1>2, <3>1, LeaveCycle
    <3>3. e1'.ins = bus.ins /\ e1'.intr = take_interrupt_q
      BY <3>2, EnterCycle
    <3>4. issue /\ ~take_interrupt_q /\ bus.ins.op \in CsrOps /\ ~squashed
      BY <2>3, <3>1, <3>2, <3>3, IssueCycle
    <3>5. \E read \in IF bus.ins.op \in Writing THEN Vals ELSE {0} :
            csr_e1' = [val |-> read, exc |-> CsrException(bus.ins.op)]
      BY <3>4 DEF Step, Cycle, CsrUnit
    <3>6. csr_e1'.exc = CsrException(bus.ins.op)
      BY <3>5
    <3>7. csr_e1' # None
      <4>1. CsrException(bus.ins.op) \in {"ecall"} \cup Flushes \cup {None}
        BY <3>4 DEF CsrOps, CsrException, Flushes
      <4>2. csr_e1' \in CsrAnswers
        BY <3>5, <4>1, PipeAssumption DEF CsrAnswers
      <4>. QED
        BY <4>2, NoneAssumption
    <3>. QED
      BY <2>1, <3>1, <3>3, <3>4, <3>6, <3>7
  <2>4. ASSUME Op(e2)' \in CsrOps PROVE csr_pending_q' /\ e1' = None
    <3>1. e2' # None
      BY <2>4 DEF Op, CsrOps
    <3>2. ~squashed /\ e1 # None /\ e2' = LeaveE1
      BY <1>2, <3>1, LeaveCycle
    <3>3. Op(e2)' = Op(e1)
      BY <1>2, <3>2, LeaveType DEF Op
    <3>4. csr_pending_q
      BY <2>4, <3>3 DEF IInv, CsrBlocks
    <3>5. ~issue
      BY <3>4 DEF Issues
    <3>6. Op(wb) \notin CsrOps
      BY <3>2 DEF IInv, CsrBlocks
    <3>. QED
      BY <1>2, <2>1, <3>2, <3>4, <3>5, <3>6, LeaveCycle
  <2>5. e2 # None => Op(wb)' = Op(e2)
    BY <1>2, WriteBackCycle DEF Op
  <2>6. ASSUME Op(wb)' \in CsrOps
        PROVE  /\ e1' = None /\ e2' = None
               /\ wb'.exc = None => csr_pending_q'
    <3>1. wb' # None
      BY <2>6 DEF Op, CsrOps
    <3>2. e2 # None
      BY <1>2, <3>1, WriteBackCycle
    <3>3. csr_pending_q /\ e1 = None
      BY <2>5, <2>6, <3>2 DEF IInv, CsrBlocks
    <3>4. ~issue
      BY <3>3 DEF Issues
    <3>5. e1' = None /\ e2' = None
      BY <1>2, <3>3, <3>4, LeaveCycle
    <3>6. ASSUME wb'.exc = None PROVE csr_pending_q'
      <4>1. ExceptionE2(complete, fault) = None
        BY <1>2, <3>2, <3>6, WriteBackCycle
      <4>2. ~squashed
        BY <3>2, <4>1, StageOps DEF Squashed
      <4>3. Op(wb) \notin CsrOps
        BY <3>2 DEF IInv, CsrBlocks
      <4>. QED
        BY <2>1, <3>3, <3>4, <4>2, <4>3
    <3>. QED
      BY <3>5, <3>6
  <2>7. ASSUME wb' # None, wb'.irq # None PROVE wb'.exc # None \/ Op(wb)' = "csr"
    <3>1. e2 # None
      BY <1>2, <2>7, WriteBackCycle
    <3>2. /\ wb'.exc = ExceptionE2(complete, fault)
          /\ wb'.irq \in IrqAfter(e2, ExceptionE2(complete, fault))
      BY <1>2, <3>1, WriteBackCycle
    <3>3. wb'.exc \in Traps \/ wb'.exc = "eret" \/ (wb'.exc = None /\ Op(e2) = "csr")
      BY <2>7, <3>2 DEF IrqAfter
    <3>. QED
      BY <2>5, <3>1, <3>3, NoneAssumption DEF Flushes
  <2>8. ASSUME csr_pending_q' PROVE \E e \in {e1', e2', wb'} : Op(e) \in CsrOps
    <3>1. ~squashed
      BY <2>1, <2>8
    <3>2. CASE issue /\ ~take_interrupt_q /\ bus.ins.op \in CsrOps
      <4>1. Op(e1') = bus.ins.op
        BY <3>2, EnterCycle DEF Op
      <4>. QED
        BY <3>2, <4>1
    <3>3. CASE csr_pending_q /\ Op(wb) \notin CsrOps
      <4>1. Op(e1) \in CsrOps \/ Op(e2) \in CsrOps
        BY <3>3 DEF IInv, CsrBlocks
      <4>2. CASE Op(e1) \in CsrOps
        <5>1. e1 # None
          BY <4>2 DEF Op, CsrOps
        <5>2. e2' = LeaveE1
          BY <1>2, <3>1, <5>1, LeaveCycle
        <5>3. Op(e2') = Op(e1)
          BY <1>2, <5>1, <5>2, LeaveType
        <5>. QED
          BY <4>2, <5>3
      <4>3. CASE Op(e2) \in CsrOps
        <5>1. e2 # None
          BY <4>3 DEF Op, CsrOps
        <5>2. Op(wb') = Op(e2)
          BY <2>5, <5>1 DEF Op
        <5>. QED
          BY <4>3, <5>2
      <4>. QED
        BY <4>1, <4>2, <4>3
    <3>. QED
      BY <2>1, <2>8, <3>1, <3>2, <3>3
  <2>9. csr_pending_q' => (\E e \in {e1, e2, wb} : Op(e) \in CsrOps)'
    BY <2>8 DEF Op
  <2>. QED
    BY <2>2, <2>3, <2>4, <2>6, <2>7, <2>9, Zenon DEF CsrBlocks
<1>. QED
  BY <1>1, <1>2

(* A division never follows a load or store, and keeps its pending flag    *)
(* until it leaves E1 or something flushes it.                             *)
LEMMA DivBlocksStep ==
    ASSUME IInv,
           NEW bus, NEW target, NEW complete, NEW fault, NEW data, NEW lsuBusy,
           Step(bus, target, complete, fault, data, lsuBusy)
    PROVE  DivBlocks'
<1>. DEFINE issue == Issues(bus, complete, fault, lsuBusy)
            squashed == Squashed(complete, fault)
<1>1. div_pending_q' = IF squashed THEN FALSE
                       ELSE IF issue /\ bus.ins.op = "div" THEN TRUE
                       ELSE div_pending_q /\ ~div_valid_q
  BY DEF Step, Cycle, Pending
<1>2. CASE Stalled(complete)
  <2>1. UNCHANGED <<e1, e2>> /\ ~issue
    BY <1>2, StallCycle
  <2>2. Op(e1)' \in CsrOps \cup {"div"} => ~Mem(e2)'
    BY <2>1 DEF IInv, DivBlocks, Op, Mem
  <2>3. ASSUME Op(e1)' = "div" PROVE div_pending_q' \/ (e2' # None /\ e2'.exc # None)
    <3>1. Op(e1) = "div"
      BY <2>1, <2>3 DEF Op
    <3>2. ~div_valid_q /\ ~Mem(e2)
      BY <1>2, <3>1, StallCycle
    <3>3. ~squash_e1_e2_q
      BY <1>2, StallCycle, StageOps
    <3>4. squashed => e2 # None /\ e2.exc # None
      BY <3>2, <3>3 DEF Squashed, ExceptionE2
    <3>5. div_pending_q \/ (e2 # None /\ e2.exc # None)
      BY <3>1 DEF IInv, DivBlocks
    <3>. QED
      BY <1>1, <2>1, <3>2, <3>4, <3>5
  <2>4. div_pending_q' => div_pending_q
    BY <1>1, <2>1
  <2>. QED
    BY <2>1, <2>2, <2>3, <2>4 DEF IInv, DivBlocks
<1>3. CASE ~Stalled(complete)
  <2>1. e2' # None => e1 # None /\ e2' = LeaveE1 /\ ~squashed
    BY <1>3, LeaveCycle
  <2>2. Mem(e2)' => Mem(e1)
    <3>1. Mem(e2)' => e2' # None
      BY DEF Mem, MemOps, Op
    <3>2. e2' # None => Op(e2)' = Op(e1)
      BY <1>3, <2>1, LeaveType DEF Op
    <3>. QED
      BY <3>1, <3>2 DEF Mem
  <2>3. ASSUME Op(e1)' \in CsrOps \cup {"div"}
        PROVE  issue /\ bus.ins.op = Op(e1)' /\ ~take_interrupt_q
    <3>1. e1' # None /\ ~e1'.intr /\ Op(e1)' = e1'.ins.op
      BY <2>3 DEF Op, CsrOps
    <3>2. issue
      BY <1>3, <3>1, LeaveCycle
    <3>. QED
      BY <3>1, <3>2, EnterCycle
  <2>4. Op(e1)' \in CsrOps \cup {"div"} => ~Mem(e2)'
    <3>1. issue /\ bus.ins.op \in CsrOps \cup {"div"} => ~Mem(e1)
      BY IssueCycle DEF Clear
    <3>. QED
      BY <2>2, <2>3, <3>1
  <2>5. Op(e1)' = "div" => div_pending_q'
    <3>1. issue => ~squashed
      BY IssueCycle
    <3>. QED
      BY <1>1, <2>3, <3>1
  <2>6. ASSUME div_pending_q'
        PROVE  \/ e1' # None /\ e1'.ins.op = "div"
               \/ e2' # None /\ e2'.intr /\ e2'.ins.op = "div"
    <3>1. ~squashed
      BY <1>1, <2>6
    <3>2. CASE issue /\ bus.ins.op = "div"
      BY <3>2, EnterCycle
    <3>3. CASE div_pending_q /\ ~div_valid_q
      <4>1. ~(e2 # None /\ e2.intr)
        <5>. SUFFICES ASSUME e2 # None, e2.intr PROVE FALSE
          OBVIOUS
        <5>1. e2.exc = "interrupt" /\ ~Mem(e2)
          BY DEF IInv, InE2, Mem, Op, MemOps
        <5>2. "interrupt" # None
          BY NoneAssumption DEF Traps
        <5>. QED
          BY <3>1, <5>1, <5>2 DEF Squashed, ExceptionE2
      <4>2. e1 # None /\ e1.ins.op = "div"
        BY <3>3, <4>1 DEF IInv, DivBlocks
      <4>3. e1.intr
        BY <1>3, <3>3, <4>2 DEF Stalled, Op
      <4>4. e2' = LeaveE1
        BY <1>3, <3>1, <4>2, LeaveCycle
      <4>5. e2' # None /\ e2'.intr /\ e2'.ins = e1.ins
        BY <1>3, <4>2, <4>3, <4>4, LeaveType, NoneAssumption
      <4>. QED
        BY <4>2, <4>5
    <3>. QED
      BY <1>1, <2>6, <3>1, <3>2, <3>3
  <2>. QED
    BY <2>4, <2>5, <2>6 DEF DivBlocks
<1>. QED
  BY <1>2, <1>3

(* What is in the stages has the exceptions and results of its kind. *)
LEMMA InStagesStep ==
    ASSUME IInv,
           NEW bus, NEW target, NEW complete, NEW fault, NEW data, NEW lsuBusy,
           Step(bus, target, complete, fault, data, lsuBusy)
    PROVE  InE1' /\ InE2' /\ InWb'
<1>1. CASE Stalled(complete)
  <2>1. UNCHANGED <<e1, e2, wb>>
    BY <1>1, StallCycle
  <2>. QED
    BY <2>1 DEF IInv, InE1, InE2, InWb, RdWb, Rd, Op
<1>2. CASE ~Stalled(complete)
  <2>1. ASSUME e1' # None
        PROVE  /\ e1'.exc = IssueException(e1'.ins.op)
               /\ e1'.valid
               /\ Op(e1)' \in {"alu"} \cup Branches => e1'.res \in Vals
    <3>1. Issues(bus, complete, fault, lsuBusy)
      BY <1>2, <2>1, LeaveCycle
    <3>2. Op(e1)' \in {"alu"} \cup Branches => e1'.ins.op = Op(e1)'
      BY DEF Op, Branches
    <3>. QED
      BY <3>1, <3>2, EnterCycle
  <2>2. ASSUME e2' # None
        PROVE  /\ e2'.exc = IF e2'.intr THEN "interrupt" ELSE EarlyException(e2'.ins.op)
               /\ e2'.exc = None => e2'.valid
               /\ Op(e2)' \in Writing \ {"load", "mul"} => e2'.res \in Vals
    <3>1. e1 # None /\ e2' = LeaveE1
      BY <1>2, <2>2, LeaveCycle
    <3>2. Op(e2)' = Op(e1)
      BY <1>2, <3>1, LeaveType DEF Op
    <3>. QED
      BY <1>2, <3>1, <3>2, LeaveType
  <2>3. ASSUME RdWb' # 0 PROVE wb'.res \in Vals
    <3>1. wb' # None /\ wb'.exc = None /\ Op(wb)' \in Writing
      BY <2>3 DEF RdWb, Rd
    <3>2. e2 # None
      BY <1>2, <3>1, WriteBackCycle
    <3>3. Op(wb)' = Op(e2)
      BY <1>2, <3>2, WriteBackCycle DEF Op
    <3>. QED
      BY <1>2, <3>1, <3>2, <3>3, WriteBackCycle
  <2>. QED
    BY <2>1, <2>2, <2>3 DEF InE1, InE2, InWb
<1>. QED
  BY <1>1, <1>2

(* The divider's registers load a quotient only for an issued division. *)
LEMMA DivResultStep ==
    ASSUME IInv,
           NEW bus, NEW target, NEW complete, NEW fault, NEW data, NEW lsuBusy,
           Step(bus, target, complete, fault, data, lsuBusy)
    PROVE  DivResult'
<1>1. div_valid_q' => div_result_q' \in Vals
  BY DEF Step, Cycle, Divider, IInv, DivResult
<1>2. ASSUME div_s1' # None, div_s1'.valid PROVE div_s1'.val \in Vals
  <2>1. div_s1' = [valid |-> Issues(bus, complete, fault, lsuBusy),
                   val |-> Result(bus.ins, Operand(bus.ins.ra, data),
                                           Operand(bus.ins.rb, data))]
    BY <1>2 DEF Step, Cycle, Divider
  <2>2. Issues(bus, complete, fault, lsuBusy)
    BY <1>2, <2>1
  <2>3. bus.ins \in Instrs
    BY <2>2, IssueCycle
  <2>4. Operand(bus.ins.ra, data) \in Vals /\ Operand(bus.ins.rb, data) \in Vals
    BY <2>2, OperandType
  <2>. QED
    BY <2>1, <2>3, <2>4, PipeAssumption
<1>. QED
  BY <1>1, <1>2 DEF DivResult

(* Nothing withdraws an interrupt that an instruction has been marked for: *)
(* only WB changes irq, and it does not while anything else is under way.  *)
LEMMA InterruptsStep ==
    ASSUME IInv,
           NEW bus, NEW target, NEW complete, NEW fault, NEW data, NEW lsuBusy,
           Step(bus, target, complete, fault, data, lsuBusy)
    PROVE  Interrupts'
<1>1. (wb = None \/ wb.irq = None) /\ irq = "pending" => irq' = "pending"
  BY DEF Step, Cycle, InterruptState
<1>2. ASSUME take_interrupt_q' PROVE irq' = "pending" \/ csr_branch' # None
  <2>1. irq = "pending" /\ ~csr_pending_q
    BY <1>2 DEF Step, Cycle, TakeInterrupt
  <2>2. CASE wb # None /\ wb.irq # None
    <3>1. Op(wb) = "csr" => wb.exc # None
      BY <2>1, <2>2 DEF IInv, CsrBlocks, CsrOps
    <3>2. wb.exc # None
      BY <2>2, <3>1 DEF IInv, CsrBlocks
    <3>. QED
      BY <2>2, <3>2, WriteBackType
  <2>3. CASE ~(wb # None /\ wb.irq # None)
    BY <1>1, <2>1, <2>3
  <2>. QED
    BY <2>2, <2>3
<1>3. CASE Stalled(complete)
  <2>1. UNCHANGED <<e1, e2>> /\ (wb # None => wb.irq = None)
    BY <1>3, StallCycle
  <2>2. \A e \in {e1', e2'} \ {None} : e.intr => irq' = "pending"
    BY <1>1, <2>1 DEF IInv, Interrupts
  <2>. QED
    BY <1>2, <2>2 DEF Interrupts
<1>4. CASE ~Stalled(complete)
  <2>1. ASSUME e1' # None, e1'.intr PROVE irq' = "pending"
    <3>1. Issues(bus, complete, fault, lsuBusy)
      BY <1>4, <2>1, LeaveCycle
    <3>2. take_interrupt_q /\ csr_branch = None /\ (wb # None => wb.irq = None)
      BY <2>1, <3>1, EnterCycle, IssueCycle
    <3>. QED
      BY <1>1, <3>2 DEF IInv, Interrupts
  <2>2. ASSUME e2' # None, e2'.intr PROVE irq' = "pending"
    <3>1. e1 # None /\ e2' = LeaveE1
      BY <1>4, <2>2, LeaveCycle
    <3>2. e1.intr
      BY <1>4, <2>2, <3>1, LeaveType
    <3>3. irq = "pending" /\ (wb # None => wb.irq = None)
      BY <3>1, <3>2, StageOps DEF IInv, Interrupts
    <3>. QED
      BY <1>1, <3>3
  <2>. QED
    BY <1>2, <2>1, <2>2 DEF Interrupts
<1>. QED
  BY <1>3, <1>4

(* The CSR unit answers in the cycle in which the access is in E1. *)
LEMMA CsrResultStep ==
    ASSUME IInv,
           NEW bus, NEW target, NEW complete, NEW fault, NEW data, NEW lsuBusy,
           Step(bus, target, complete, fault, data, lsuBusy)
    PROVE  CsrResultKept'
<1>. SUFFICES ASSUME csr_e1' # None PROVE Op(e1)' \in CsrOps /\ ~Mem(e2)'
  BY DEF CsrResultKept
<1>1. /\ Issues(bus, complete, fault, lsuBusy) /\ ~take_interrupt_q
      /\ bus.ins.op \in CsrOps
  BY DEF Step, Cycle, CsrUnit
<1>2. Op(e1)' = bus.ins.op
  BY <1>1, EnterCycle DEF Op
<1>3. DivBlocks'
  BY DivBlocksStep
<1>. QED
  BY <1>1, <1>2, <1>3 DEF DivBlocks

(* A cycle keeps the invariant. *)
LEMMA StepInvariant == IInv /\ [Next]_vars => IInv'
<1>. SUFFICES ASSUME IInv, [Next]_vars PROVE IInv'
  OBVIOUS
<1>1. CASE Next
  <2>1. PICK bus, target, complete, fault, data, lsuBusy :
             Step(bus, target, complete, fault, data, lsuBusy)
    BY <1>1, NextSteps, Zenon
  <2>2. TypeOK'
    <3>1. csr_e1' = None \/ csr_e1'.val \in Vals
      BY <2>1, WriteBackType DEF CsrAnswers
    <3>. QED
      BY <2>1, <3>1, FrontEndType, WriteBackType, StagesStep DEF TypeOK
  <2>3. CsrResultKept' /\ InE1' /\ InE2' /\ InWb'
    BY <2>1, CsrResultStep, InStagesStep
  <2>4. TrapEmpties' /\ CsrBlocks' /\ DivBlocks'
    BY <2>1, TrapEmptiesStep, CsrBlocksStep, DivBlocksStep
  <2>5. DivResult' /\ Interrupts'
    BY <2>1, DivResultStep, InterruptsStep
  <2>. QED
    BY <2>2, <2>3, <2>4, <2>5 DEF IInv
<1>2. CASE UNCHANGED vars
  BY <1>2 DEF vars, IInv, TypeOK, CsrResultKept, InE1, InE2, InWb, TrapEmpties,
     Redirecting, CsrBlocks, DivBlocks, DivResult, Interrupts, RdWb, Rd, Op, Mem
<1>. QED
  BY <1>1, <1>2

(* The invariant holds in every reachable state. *)
THEOREM Invariance == Spec => []IInv
<1>1. Init => IInv
  BY InitInvariant
<1>2. IInv /\ [Next]_vars => IInv'
  BY StepInvariant
<1>. QED
  BY <1>1, <1>2, PTL DEF Spec

(* Every register keeps its type; above all, no operand and no written     *)
(* register is ever the output of a unit that had no result: the           *)
(* scoreboard and the bypass of riscv_issue.v cover every unit.            *)
THEOREM TypeCorrect == Spec => []TypeOK
<1>1. IInv => TypeOK
  BY DEF IInv
<1>. QED
  BY <1>1, Invariance, PTL

(* The CSR unit's answer, which is there for one cycle, finds its          *)
(* instruction in E1 with nothing that could hold it there.                *)
THEOREM CsrResultIsKept == Spec => []CsrResultKept
<1>1. IInv => CsrResultKept
  BY DEF IInv
<1>. QED
  BY <1>1, Invariance, PTL

(* What traps, flushes or writes a CSR is alone in the pipeline when it    *)
(* reaches WB, so it takes effect once and nothing younger is lost.        *)
THEOREM SystemIsAlone == Spec => []SystemAlone
<1>1. IInv => SystemAlone
  BY StageOps DEF SystemAlone
<1>. QED
  BY <1>1, Invariance, PTL

(* The issue stage never waits for a division or CSR access that a flush   *)
(* has removed.                                                            *)
THEOREM PendingIsOwned == Spec => []PendingHasOwner
<1>1. IInv => PendingHasOwner
  BY DEF IInv, CsrBlocks, DivBlocks, PendingHasOwner
<1>. QED
  BY <1>1, Invariance, PTL

-----------------------------------------------------------------------------
(* A load or store in E1 is not flushed.  That needs two restrictions.     *)
(* A misaligned branch brings an exception to E1 that does not stop the    *)
(* issue behind it.  An interrupted instruction relies on take_interrupt_i *)
(* to stay up until it leaves E1, so that nothing issues behind it in      *)
(* earnest; interrupt_inhibit_o of riscv_issue.v can take it down, because *)
(* it looks at the opcode whether it is valid or not.  It does so only     *)
(* when the front end was redirected in between, that is, when the         *)
(* interrupted instruction is a taken branch, and then shows a CSR opcode  *)
(* with its valid bit low.                                                 *)
NoMisaligned == \A i \in Instrs : i.op # "mis"

NoBranches == \A i \in Instrs : i.op \notin Branches

QuietIdle == \A i \in IdleBus : i.op \notin CsrOps

(* Behind an interrupted instruction in E1, take_interrupt_q stays up or   *)
(* the instruction shown is a CSR access, which the flush removes in time. *)
InterruptHolds ==
    e1 # None /\ e1.intr =>
        /\ ~csr_pending_q
        /\ take_interrupt_q \/ (held # None /\ held.op \in CsrOps)
        /\ QuietIdle \/ held # None

AccessInv == IInv /\ InterruptHolds /\ NoSquashedAccess

(* An interrupted instruction is held by the front end, to be shown again. *)
LEMMA InterruptHoldsStep ==
    ASSUME AccessInv, NoMisaligned, NoBranches \/ QuietIdle,
           NEW bus, NEW target, NEW complete, NEW fault, NEW data, NEW lsuBusy,
           Step(bus, target, complete, fault, data, lsuBusy)
    PROVE  InterruptHolds'
<1>. DEFINE issue == Issues(bus, complete, fault, lsuBusy)
            accept == Accepts(bus, complete, fault, issue)
<1>. SUFFICES ASSUME e1' # None, e1'.intr
              PROVE  /\ ~csr_pending_q'
                     /\ take_interrupt_q' \/ (held' # None /\ held'.op \in CsrOps)
                     /\ QuietIdle \/ held' # None
  BY DEF InterruptHolds, QuietIdle
<1>1. IInv /\ TypeOK
  BY DEF AccessInv, IInv
<1>2. /\ bus.valid => bus.ins \in Instrs
      /\ held # None => bus.valid /\ bus.ins = held
      /\ held = None /\ ~bus.valid => bus.ins \in IdleBus
  BY <1>1, OfferedType DEF Step
<1>3. take_interrupt_q' <=> irq = "pending" /\ ~csr_pending_q /\ bus.ins.op \notin CsrOps
  BY DEF Step, Cycle, TakeInterrupt
<1>4. held' = IF bus.valid /\ ~accept /\ csr_branch = None
                 /\ ~(issue /\ bus.ins.op \in Branches)
              THEN bus.ins ELSE None
  BY DEF Step, Cycle, FrontEnd
<1>5. bus.valid => bus.ins # None
  BY <1>2, NoneAssumption
<1>6. csr_pending_q' => (issue /\ ~take_interrupt_q) \/ csr_pending_q
  BY DEF Step, Cycle, Pending
<1>7. CASE Stalled(complete)
  <2>1. e1' = e1 /\ ~issue /\ csr_branch = None
    BY <1>1, <1>7, StallCycle
  <2>2. ~Squashed(complete, fault)
    <3>1. Op(e1) # "div"
      BY <2>1 DEF Op
    <3>. QED
      BY <1>1, <1>7, <3>1, StallCycle
  <2>3. bus.valid => held' = bus.ins
    BY <1>4, <2>1, <2>2 DEF Accepts, OpcodeValid
  <2>4. irq = "pending"
    BY <1>1, <2>1 DEF IInv, Interrupts
  <2>5. ~csr_pending_q /\ (QuietIdle \/ held # None)
    BY <2>1 DEF AccessInv, InterruptHolds
  <2>6. ~bus.valid => bus.ins.op \notin CsrOps
    BY <1>2, <2>5 DEF QuietIdle
  <2>. QED
    BY <1>2, <1>3, <1>5, <1>6, <2>1, <2>3, <2>4, <2>5, <2>6
<1>8. CASE ~Stalled(complete)
  <2>1. issue
    BY <1>1, <1>8, LeaveCycle
  <2>2. take_interrupt_q
    BY <1>1, <2>1, EnterCycle
  <2>3. bus.valid /\ ~csr_pending_q /\ csr_branch = None /\ bus.ins \in Instrs
    BY <1>1, <2>1, IssueCycle
  <2>4. irq = "pending"
    BY <1>1, <2>2, <2>3 DEF IInv, Interrupts
  <2>5. ~accept
    BY <1>1, <2>1, <2>2, IssueCycle DEF Accepts, Issues
  <2>6. bus.ins.op \notin Branches => held' = bus.ins
    BY <1>4, <2>3, <2>5
  <2>7. bus.ins.op \in CsrOps => bus.ins.op \notin Branches
    BY DEF CsrOps, Branches
  <2>8. QuietIdle \/ held' # None
    BY <1>5, <2>3, <2>6 DEF NoBranches
  <2>. QED
    BY <1>3, <1>5, <1>6, <2>2, <2>3, <2>4, <2>6, <2>7, <2>8
<1>. QED
  BY <1>7, <1>8

(* What a load or store follows into the pipeline has no exception. *)
LEMMA NoSquashedAccessStep ==
    ASSUME AccessInv, NoMisaligned,
           NEW bus, NEW target, NEW complete, NEW fault, NEW data, NEW lsuBusy,
           Step(bus, target, complete, fault, data, lsuBusy)
    PROVE  NoSquashedAccess'
<1>. SUFFICES ASSUME Mem(e1)'
              PROVE  ~squash_e1_e2_q' /\ (e2' = None \/ e2'.exc = None)
  BY DEF NoSquashedAccess
<1>1. IInv /\ TypeOK
  BY DEF AccessInv, IInv
<1>2. e1' # None /\ ~e1'.intr /\ e1'.ins.op \in MemOps
  BY DEF Mem, MemOps, Op
<1>3. CASE Stalled(complete)
  <2>1. UNCHANGED <<e1, e2, squash_e1_e2_q>>
    BY <1>1, <1>3, StallCycle
  <2>2. Mem(e1)
    BY <2>1 DEF Mem, Op
  <2>. QED
    BY <2>1, <2>2 DEF AccessInv, NoSquashedAccess
<1>4. CASE ~Stalled(complete)
  <2>1. Issues(bus, complete, fault, lsuBusy)
    BY <1>1, <1>2, <1>4, LeaveCycle
  <2>2. bus.ins.op \in MemOps /\ ~take_interrupt_q
    BY <1>1, <1>2, <2>1, EnterCycle
  <2>3. ExceptionE2(complete, fault) = None
    BY <1>1, <2>1, IssueCycle
  <2>4. ~squash_e1_e2_q'
    BY <1>4, <2>3 DEF Step, Cycle, Squash
  <2>5. ASSUME e2' # None PROVE e2'.exc = None
    <3>1. e1 # None /\ e2' = LeaveE1
      BY <1>1, <1>4, <2>5, LeaveCycle
    <3>2. ~e1.intr
      <4>. SUFFICES ASSUME e1.intr PROVE FALSE
        OBVIOUS
      <4>1. held # None /\ held.op \in CsrOps
        BY <2>2, <3>1 DEF AccessInv, InterruptHolds
      <4>2. bus.ins = held
        BY <1>1, <4>1, OfferedType DEF Step
      <4>. QED
        BY <2>2, <4>1, <4>2 DEF CsrOps, MemOps
    <3>3. Op(e1) = e1.ins.op
      BY <3>1, <3>2 DEF Op
    <3>4. e1.ins.op \notin CsrOps
      BY <1>1, <2>1, <3>3, IssueCycle
    <3>5. e1.ins \in Instrs
      BY <1>1, <3>1, StageOps, StageType
    <3>6. e1.ins.op # "mis"
      BY <3>5 DEF NoMisaligned
    <3>7. EarlyException(e1.ins.op) = None
      BY <3>4, <3>6 DEF EarlyException, IssueException, CsrOps
    <3>. QED
      BY <1>1, <1>4, <3>1, <3>2, <3>7, LeaveType
  <2>. QED
    BY <2>4, <2>5
<1>. QED
  BY <1>3, <1>4

(* A load or store that has entered the load/store unit is never flushed   *)
(* out of E1 by anything but the fault of the access before it: without    *)
(* misaligned branches, and either without branches or with no CSR opcode  *)
(* on the bus while it is not valid.  Both restrictions are needed.        *)
THEOREM AccessesAreNotFlushed ==
    ASSUME NoMisaligned, NoBranches \/ QuietIdle
    PROVE  Spec => []NoSquashedAccess
<1>1. Init => AccessInv
  <2>. SUFFICES ASSUME Init PROVE AccessInv
    OBVIOUS
  <2>1. e1 = None /\ ~Mem(e1)
    BY DEF Init, Mem, Op, MemOps
  <2>. QED
    BY <2>1, InitInvariant DEF AccessInv, InterruptHolds, NoSquashedAccess
<1>2. AccessInv /\ [Next]_vars => AccessInv'
  <2>. SUFFICES ASSUME AccessInv, [Next]_vars PROVE AccessInv'
    OBVIOUS
  <2>1. IInv'
    BY StepInvariant DEF AccessInv
  <2>2. CASE Next
    <3>1. PICK bus, target, complete, fault, data, lsuBusy :
               Step(bus, target, complete, fault, data, lsuBusy)
      BY <2>2, NextSteps, Zenon
    <3>2. InterruptHolds'
      BY <3>1, InterruptHoldsStep
    <3>3. NoSquashedAccess'
      BY <3>1, NoSquashedAccessStep
    <3>. QED
      BY <2>1, <3>2, <3>3 DEF AccessInv
  <2>3. CASE UNCHANGED vars
    <3>1. InterruptHolds'
      BY <2>3 DEF vars, AccessInv, InterruptHolds, QuietIdle
    <3>2. NoSquashedAccess'
      BY <2>3 DEF vars, AccessInv, NoSquashedAccess, Mem, Op
    <3>. QED
      BY <2>1, <3>1, <3>2 DEF AccessInv
  <2>. QED
    BY <2>2, <2>3
<1>3. AccessInv => NoSquashedAccess
  BY DEF AccessInv
<1>. QED
  BY <1>1, <1>2, <1>3, PTL DEF Spec

-----------------------------------------------------------------------------
(***************************************************************************)
(* The pipeline implements RiscvIsa, for every program without the two     *)
(* instructions whose hardware has a fault of its own, divisions           *)
(* (DivisionStalls) and satp writes (CsrReadWritten): with the traps of    *)
(* riscv_defs.v (CoreIsa), and so, when there are no jumps to targets that *)
(* are not aligned, as the simulator has it (Simulator).                   *)
(*                                                                         *)
(* The step in which E2 moves to WB is the step of RiscvIsa, and every     *)
(* other cycle stutters or is Idle.  The invariant relates what is still   *)
(* under way to the state of RiscvIsa: the addresses in the stages follow  *)
(* one another (ProgramOrder), the operands are what the registers hold    *)
(* when their instruction's turn comes (OperandsCurrent), and the ALU's    *)
(* results are those of the operands (Results).                            *)
(***************************************************************************)

NoDivisions == \A i \in Instrs : i.op # "div"

NoSatpWrites == \A i \in Instrs : i.op # "satp"

(* The address of the instruction after E2. *)
YoungerPc == IF e1 # None THEN e1.pc ELSE next_pc

(* E2 has brought no exception that will flush what is younger. *)
Unsquashed == e2 = None \/ e2.exc = None

ProgramOrder ==
    /\ \A e \in {e1, e2, wb} \ {None} :
          e.ins.op \notin Branches \cup {"eret"} => e.npc = NextPc[e.pc]
    /\ e2 # None /\ e2.exc = None => YoungerPc = e2.npc
    /\ e1 # None /\ ~e1.intr /\ EarlyException(e1.ins.op) = None /\ Unsquashed =>
          next_pc = e1.npc

(* What register r holds once E2 has retired without an exception. *)
Current(r) == IF r # 0 /\ r = Rd(e2) THEN e2.res ELSE ArchRegs[r]

OperandsCurrent ==
    /\ e2 # None => e2.a = ArchRegs[e2.ins.ra] /\ e2.b = ArchRegs[e2.ins.rb]
    /\ e1 # None /\ Unsquashed =>
          /\ e1.a = Current(e1.ins.ra) /\ e1.b = Current(e1.ins.rb)
          /\ Op(e2) \in {"load", "mul"} =>
                Rd(e2) = 0 \/ Rd(e2) \notin {e1.ins.ra, e1.ins.rb}

Results ==
    /\ Op(e1) \in {"alu"} \cup Branches => e1.res = Result(e1.ins, e1.a, e1.b)
    /\ Op(e2) \in {"alu"} \cup Branches => e2.res = Result(e2.ins, e2.a, e2.b)

RefInv ==
    /\ IInv
    /\ ProgramOrder
    /\ OperandsCurrent
    /\ Results

-----------------------------------------------------------------------------
(* The front end shows an instruction again until it is taken. *)
LEMMA NextPcHolds ==
    ASSUME IInv,
           NEW bus, NEW target, NEW complete, NEW fault, NEW data, NEW lsuBusy,
           Step(bus, target, complete, fault, data, lsuBusy),
           ~Issues(bus, complete, fault, lsuBusy),
           ~Squashed(complete, fault), csr_branch = None
    PROVE  next_pc' = next_pc
<1>1. bus.valid => ~Accepts(bus, complete, fault, Issues(bus, complete, fault, lsuBusy))
  BY DEF Accepts, OpcodeValid
<1>. QED
  BY <1>1 DEF Step, Cycle, FrontEnd

(* When nothing is flushed, E2 has brought no exception. *)
LEMMA NotSquashed ==
    ASSUME IInv, NEW complete, NEW fault, ~Squashed(complete, fault)
    PROVE  Unsquashed /\ ExceptionE2(complete, fault) = None
<1>1. ExceptionE2(complete, fault) = None
  BY DEF Squashed
<1>2. Mem(e2) => e2.exc = None
  BY StageOps
<1>. QED
  BY <1>1, <1>2 DEF ExceptionE2, Unsquashed

(* The addresses in the pipeline follow one another. *)
LEMMA ProgramOrderStep ==
    ASSUME RefInv,
           NEW bus, NEW target, NEW complete, NEW fault, NEW data, NEW lsuBusy,
           Step(bus, target, complete, fault, data, lsuBusy)
    PROVE  ProgramOrder'
<1>. DEFINE issue == Issues(bus, complete, fault, lsuBusy)
            squashed == Squashed(complete, fault)
            sequel(e) == e # None =>
               (e.ins.op \notin Branches \cup {"eret"} => e.npc = NextPc[e.pc])
<1>1. IInv /\ TypeOK
  BY DEF RefInv, IInv
<1>2. sequel(e1) /\ sequel(e2) /\ sequel(wb)
  BY DEF RefInv, ProgramOrder
<1>3. CASE Stalled(complete)
  <2>1. /\ UNCHANGED <<e1, e2, wb>> /\ ~issue /\ csr_branch = None
        /\ \/ Op(e1) = "div" /\ e1 # None /\ ~Mem(e2)
           \/ ~squashed
    BY <1>1, <1>3, StallCycle
  <2>2. ~squashed => next_pc' = next_pc
    BY <1>1, <2>1, NextPcHolds
  <2>3. ~squash_e1_e2_q
    BY <1>1, <1>3, StallCycle, StageOps
  <2>4. Unsquashed => ~squashed
    BY <2>1, <2>3 DEF Unsquashed, Squashed, ExceptionE2
  <2>5. e2' # None /\ e2'.exc = None => YoungerPc' = e2'.npc
    BY <2>1, <2>2, <2>4 DEF RefInv, ProgramOrder, YoungerPc, Unsquashed
  <2>6. e1' # None /\ ~e1'.intr /\ EarlyException(e1'.ins.op) = None /\ Unsquashed' =>
           next_pc' = e1'.npc
    BY <2>1, <2>2, <2>4 DEF RefInv, ProgramOrder, Unsquashed
  <2>7. \A e \in {e1', e2', wb'} \ {None} :
           e.ins.op \notin Branches \cup {"eret"} => e.npc = NextPc[e.pc]
    BY <1>2, <2>1
  <2>. QED
    BY <2>5, <2>6, <2>7 DEF ProgramOrder, EarlyException
<1>4. CASE ~Stalled(complete)
  <2>1. issue => /\ e1' # None /\ e1'.ins = bus.ins /\ e1'.pc = next_pc
                 /\ e1'.npc = target /\ e1'.intr = take_interrupt_q
    BY <1>1, EnterCycle
  <2>2. issue => /\ bus.valid /\ ~squashed /\ csr_branch = None
    BY <1>1, IssueCycle
  <2>3. ~issue => e1' = None
    BY <1>1, <1>4, LeaveCycle
  <2>4. e2' # None => /\ e1 # None /\ ~squashed
                      /\ e2'.ins = e1.ins /\ e2'.pc = e1.pc /\ e2'.npc = e1.npc
                      /\ e2'.exc = IF e1.intr THEN "interrupt"
                                   ELSE EarlyException(e1.ins.op)
    BY <1>1, <1>4, LeaveCycle, LeaveType
  <2>5. wb' # None => /\ e2 # None
                      /\ wb'.ins = e2.ins /\ wb'.pc = e2.pc /\ wb'.npc = e2.npc
    BY <1>1, <1>4, WriteBackCycle
  <2>6. bus.ins.op \notin Branches \cup {"eret"} => target = NextPc[next_pc]
    BY <1>1, OfferedType DEF Step
  <2>7. sequel(e1') /\ sequel(e2') /\ sequel(wb')
    BY <1>2, <2>1, <2>3, <2>4, <2>5, <2>6
  <2>8. ASSUME e2' # None, e2'.exc = None PROVE YoungerPc' = e2'.npc
    <3>1. ~e1.intr /\ EarlyException(e1.ins.op) = None
      BY <2>4, <2>8, NoneAssumption DEF Traps
    <3>2. Unsquashed
      BY <1>1, <2>4, <2>8, NotSquashed
    <3>3. next_pc = e1.npc
      BY <2>4, <2>8, <3>1, <3>2 DEF RefInv, ProgramOrder
    <3>4. csr_branch = None
      BY <1>1, <2>4, <2>8, StageOps
    <3>5. ~issue => next_pc' = next_pc
      BY <1>1, <2>4, <2>8, <3>4, NextPcHolds
    <3>. QED
      BY <2>1, <2>3, <2>4, <2>8, <3>3, <3>5 DEF YoungerPc
  <2>9. ASSUME e1' # None, ~e1'.intr, EarlyException(e1'.ins.op) = None
        PROVE  next_pc' = e1'.npc
    <3>1. issue
      BY <2>3, <2>9
    <3>2. bus.ins.op # "eret"
      BY <2>1, <2>9, <3>1, NoneAssumption DEF EarlyException, IssueException, Flushes
    <3>3. Accepts(bus, complete, fault, issue)
      BY <2>1, <2>9, <3>1 DEF Accepts
    <3>. QED
      BY <2>1, <2>2, <2>6, <3>1, <3>2, <3>3 DEF Step, Cycle, FrontEnd
  <2>. QED
    BY <2>7, <2>8, <2>9 DEF ProgramOrder, EarlyException
<1>. QED
  BY <1>3, <1>4

(* The results of the ALU are those of the operands. *)
LEMMA ResultsStep ==
    ASSUME RefInv,
           NEW bus, NEW target, NEW complete, NEW fault, NEW data, NEW lsuBusy,
           Step(bus, target, complete, fault, data, lsuBusy)
    PROVE  Results'
<1>1. IInv
  BY DEF RefInv
<1>2. CASE Stalled(complete)
  <2>1. UNCHANGED <<e1, e2>>
    BY <1>1, <1>2, StallCycle
  <2>. QED
    BY <2>1 DEF RefInv, Results, Op
<1>3. CASE ~Stalled(complete)
  <2>1. ASSUME Op(e1)' \in {"alu"} \cup Branches
        PROVE  e1'.res = Result(e1'.ins, e1'.a, e1'.b)
    <3>1. e1' # None /\ e1'.ins.op = Op(e1)'
      BY <2>1 DEF Op, Branches
    <3>2. Issues(bus, complete, fault, lsuBusy)
      BY <1>1, <1>3, <3>1, LeaveCycle
    <3>. QED
      BY <1>1, <2>1, <3>1, <3>2, EnterCycle
  <2>2. ASSUME Op(e2)' \in {"alu"} \cup Branches
        PROVE  e2'.res = Result(e2'.ins, e2'.a, e2'.b)
    <3>1. e2' # None
      BY <2>2 DEF Op, Branches
    <3>2. e1 # None /\ e2' = LeaveE1
      BY <1>1, <1>3, <3>1, LeaveCycle
    <3>3. Op(e1) = Op(e2)'
      BY <1>1, <1>3, <3>2, LeaveType DEF Op
    <3>4. e1.res = Result(e1.ins, e1.a, e1.b)
      BY <2>2, <3>3 DEF RefInv, Results
    <3>. QED
      BY <1>1, <1>3, <2>2, <3>2, <3>3, <3>4, LeaveType
  <2>. QED
    BY <2>1, <2>2 DEF Results
<1>. QED
  BY <1>2, <1>3

-----------------------------------------------------------------------------
(* The registers of RiscvIsa are what WB leaves in the register file. *)
LEMMA ArchRegsType ==
    ASSUME IInv
    PROVE  ArchRegs \in [Regs -> Vals] /\ ArchRegs[0] = 0
<1>1. RdWb # 0 => RdWb \in Regs /\ wb.res \in Vals
  <2>1. RdWb # 0 => RdWb \in Regs
    BY StageOps, OpKinds DEF RdWb
  <2>. QED
    BY <2>1 DEF IInv, InWb
<1>. QED
  BY <1>1, PipeAssumption DEF ArchRegs, IInv, TypeOK

(* A cycle without a stall: E2 retires into the registers of RiscvIsa. *)
LEMMA ArchRegsCycle ==
    ASSUME IInv,
           NEW bus, NEW target, NEW complete, NEW fault, NEW data, NEW lsuBusy,
           Step(bus, target, complete, fault, data, lsuBusy),
           ~Stalled(complete)
    PROVE  /\ regs' = ArchRegs
           /\ e2 = None \/ ExceptionE2(complete, fault) # None => ArchRegs' = ArchRegs
           /\ e2 # None /\ ExceptionE2(complete, fault) = None =>
                 /\ RdWb' = Rd(e2)
                 /\ ArchRegs' = IF Rd(e2) = 0 THEN ArchRegs
                                ELSE [ArchRegs EXCEPT ![Rd(e2)] = wb'.res]
<1>1. regs' = ArchRegs
  BY DEF Step, Cycle, RegisterFile, ArchRegs
<1>2. ASSUME e2 = None \/ ExceptionE2(complete, fault) # None PROVE ArchRegs' = ArchRegs
  <2>1. RdWb' = 0
    BY <1>2, WriteBackCycle DEF RdWb
  <2>. QED
    BY <1>1, <2>1 DEF ArchRegs
<1>3. ASSUME e2 # None, ExceptionE2(complete, fault) = None
      PROVE  RdWb' = Rd(e2)
  <2>1. /\ wb' # None /\ wb'.exc = None /\ wb'.valid
        /\ wb'.ins = e2.ins /\ wb'.intr = e2.intr
    BY <1>3, WriteBackCycle
  <2>2. e2.exc = None
    BY <1>3, StageOps DEF ExceptionE2
  <2>3. e2.valid
    BY <1>3, <2>2 DEF IInv, InE2
  <2>4. Op(wb') = Op(e2)
    BY <1>3, <2>1 DEF Op
  <2>5. Rd(wb') = Rd(e2)
    BY <2>1, <2>3, <2>4 DEF Rd
  <2>. QED
    BY <2>1, <2>5 DEF RdWb, Rd, Op
<1>. QED
  BY <1>1, <1>2, <1>3 DEF ArchRegs

(* What the bypass from E2 delivers is what WB writes. *)
LEMMA BypassCycle ==
    ASSUME IInv,
           NEW bus, NEW target, NEW complete, NEW fault, NEW data, NEW lsuBusy,
           Step(bus, target, complete, fault, data, lsuBusy),
           ~Stalled(complete), e2 # None, ExceptionE2(complete, fault) = None,
           Op(e2) \in Writing
    PROVE  /\ Op(e2) \notin {"load", "mul"} => wb'.res = e2.res
           /\ ~Busy(Rd(e2)) => wb'.res = ResultE2(data)
<1>1. e2.valid
  BY StageOps DEF ExceptionE2, IInv, InE2
<1>2. Mem(e2) <=> Op(e2) = "load"
  BY DEF Mem, MemOps, Writing, Branches
<1>3. wb'.res = IF Op(e2) = "load" THEN data
                ELSE IF Op(e2) = "mul" THEN Result(e2.ins, e2.a, e2.b)
                ELSE e2.res
  BY <1>1, <1>2, WriteBackCycle
<1>4. ~Busy(Rd(e2)) => /\ Op(e2) = "load" => SUPPORT_LOAD_BYPASS
                       /\ Op(e2) = "mul" => SUPPORT_MUL_BYPASS
  BY DEF Busy
<1>. QED
  BY <1>2, <1>3, <1>4 DEF ResultE2

(* The operands of what is under way are up to date. *)
LEMMA OperandsCurrentStep ==
    ASSUME RefInv,
           NEW bus, NEW target, NEW complete, NEW fault, NEW data, NEW lsuBusy,
           Step(bus, target, complete, fault, data, lsuBusy)
    PROVE  OperandsCurrent'
<1>. DEFINE issue == Issues(bus, complete, fault, lsuBusy)
            squashed == Squashed(complete, fault)
<1>1. IInv /\ TypeOK
  BY DEF RefInv, IInv
<1>2. CASE Stalled(complete)
  <2>1. UNCHANGED <<e1, e2, wb, regs>>
    BY <1>1, <1>2, StallCycle
  <2>. QED
    BY <2>1 DEF RefInv, OperandsCurrent, Current, Unsquashed, ArchRegs, RdWb, Rd, Op
<1>3. CASE ~Stalled(complete)
  <2>1. /\ regs' = ArchRegs
        /\ e2 = None \/ ExceptionE2(complete, fault) # None => ArchRegs' = ArchRegs
        /\ e2 # None /\ ExceptionE2(complete, fault) = None =>
              ArchRegs' = IF Rd(e2) = 0 THEN ArchRegs
                          ELSE [ArchRegs EXCEPT ![Rd(e2)] = wb'.res]
    BY <1>1, <1>3, ArchRegsCycle
  <2>2. ArchRegs \in [Regs -> Vals] /\ ArchRegs[0] = 0
    BY <1>1, ArchRegsType
  <2>3. Rd(e2) \in Regs
    BY <1>1, StageOps, OpKinds
  <2>4. e2 = None => Rd(e2) = 0
    BY DEF Rd, Op, Writing, Branches
  <2>5. ASSUME ~squashed, NEW r \in Regs
        PROVE  ArchRegs'[r] = IF r # 0 /\ r = Rd(e2) THEN wb'.res ELSE ArchRegs[r]
    <3>1. ExceptionE2(complete, fault) = None
      BY <1>1, <2>5, NotSquashed
    <3>. QED
      BY <2>1, <2>2, <2>3, <2>4, <2>5, <3>1
  <2>6. Rd(e2) # 0 => Op(e2) \in Writing /\ e2 # None
    BY <2>4 DEF Rd
  <2>7. ASSUME e2' # None
        PROVE  e2'.a = ArchRegs'[e2'.ins.ra] /\ e2'.b = ArchRegs'[e2'.ins.rb]
    <3>1. /\ e1 # None /\ ~squashed
          /\ e2'.ins = e1.ins /\ e2'.a = e1.a /\ e2'.b = e1.b
      BY <1>1, <1>3, <2>7, LeaveCycle, LeaveType
    <3>2. Unsquashed /\ ExceptionE2(complete, fault) = None
      BY <1>1, <3>1, NotSquashed
    <3>3. /\ e1.a = Current(e1.ins.ra) /\ e1.b = Current(e1.ins.rb)
          /\ Op(e2) \in {"load", "mul"} =>
                Rd(e2) = 0 \/ Rd(e2) \notin {e1.ins.ra, e1.ins.rb}
      BY <3>1, <3>2 DEF RefInv, OperandsCurrent
    <3>4. e1.ins.ra \in Regs /\ e1.ins.rb \in Regs
      BY <1>1, <3>1, StageOps, StageType, InstrType
    <3>5. Rd(e2) # 0 /\ Op(e2) \notin {"load", "mul"} => wb'.res = e2.res
      BY <1>1, <1>3, <2>6, <3>2, BypassCycle
    <3>6. ASSUME NEW r \in {e1.ins.ra, e1.ins.rb} PROVE Current(r) = ArchRegs'[r]
      BY <2>5, <3>1, <3>3, <3>4, <3>5, <3>6 DEF Current
    <3>. QED
      BY <3>1, <3>3, <3>6
  <2>8. ASSUME e1' # None, Unsquashed'
        PROVE  /\ e1'.a = Current(e1.ins.ra)' /\ e1'.b = Current(e1.ins.rb)'
               /\ Op(e2)' \in {"load", "mul"} =>
                     Rd(e2)' = 0 \/ Rd(e2)' \notin {e1'.ins.ra, e1'.ins.rb}
    <3>1. issue
      BY <1>1, <1>3, <2>8, LeaveCycle
    <3>2. /\ e1'.ins = bus.ins
          /\ e1'.a = Operand(bus.ins.ra, data) /\ e1'.b = Operand(bus.ins.rb, data)
      BY <1>1, <3>1, EnterCycle
    <3>3. /\ ~squashed /\ ExceptionE2(complete, fault) = None
          /\ bus.ins \in Instrs /\ Clear(bus.ins)
          /\ Op(e1) \notin CsrOps \cup {"div"}
      BY <1>1, <3>1, IssueCycle
    <3>4. ~Busy(bus.ins.ra) /\ ~Busy(bus.ins.rb)
          /\ bus.ins.ra \in Regs /\ bus.ins.rb \in Regs
      BY <3>3, InstrType DEF Clear
    <3>5. Rd(e2)' = Rd(e1) /\ Op(e2)' = Op(e1)
      <4>1. CASE e1 = None
        <5>1. e2' = None
          BY <1>1, <1>3, <4>1, LeaveCycle
        <5>. QED
          BY <4>1, <5>1 DEF Rd, Op
      <4>2. CASE e1 # None
        <5>1. e2' = LeaveE1
          BY <1>1, <1>3, <3>3, <4>2, LeaveCycle
        <5>2. /\ LeaveE1.ins = e1.ins /\ LeaveE1 # None /\ Op(LeaveE1) = Op(e1)
              /\ LeaveE1.exc = None => LeaveE1.valid
          BY <1>1, <1>3, <4>2, LeaveType, NoneAssumption
        <5>3. e2'.valid /\ e1.valid
          BY <1>1, <2>8, <4>2, <5>1, <5>2 DEF Unsquashed, IInv, InE1
        <5>. QED
          BY <5>1, <5>2, <5>3 DEF Rd, Op
      <4>. QED
        BY <4>1, <4>2
    <3>6. ASSUME NEW r \in {bus.ins.ra, bus.ins.rb}
          PROVE  Operand(r, data) = IF r # 0 /\ r = Rd(e2)' THEN e2'.res ELSE ArchRegs'[r]
      <4>1. r \in Regs /\ ~Busy(r)
        BY <3>4
      <4>2. CASE r = 0
        <5>1. ArchRegs'[0] = 0
          BY <2>2, <2>5, <3>3, <4>1, <4>2
        <5>. QED
          BY <4>2, <5>1 DEF Operand
      <4>3. CASE r # 0 /\ r = Rd(e1)
        <5>1. Op(e1) \in Writing /\ e1 # None
          BY <4>3 DEF Rd, Op, Writing, Branches
        <5>2. Op(e1) \notin {"load", "mul"}
          BY <4>1, <4>3 DEF Busy
        <5>3. Op(e1) \in {"alu"} \cup Branches
          BY <3>3, <5>1, <5>2 DEF Writing, CsrOps
        <5>4. e2'.res = e1.res
          BY <1>1, <1>3, <3>3, <5>1, <5>3, LeaveCycle, LeaveType
        <5>. QED
          BY <3>5, <4>3, <5>4 DEF Operand
      <4>4. CASE r # 0 /\ r # Rd(e1) /\ r = Rd(e2)
        <5>1. wb'.res = ResultE2(data)
          BY <1>1, <1>3, <2>6, <3>3, <4>1, <4>4, BypassCycle
        <5>2. ArchRegs'[r] = wb'.res
          BY <2>5, <3>3, <4>1, <4>4
        <5>. QED
          BY <3>5, <4>4, <5>1, <5>2 DEF Operand
      <4>5. CASE r # 0 /\ r # Rd(e1) /\ r # Rd(e2)
        <5>1. ArchRegs'[r] = ArchRegs[r]
          BY <2>5, <3>3, <4>1, <4>5
        <5>2. ArchRegs[r] = IF r = RdWb THEN wb.res ELSE regs[r]
          BY <1>1, <4>1, <4>5 DEF ArchRegs, TypeOK
        <5>. QED
          BY <3>5, <4>5, <5>1, <5>2 DEF Operand
      <4>. QED
        BY <4>2, <4>3, <4>4, <4>5
    <3>7. Op(e1) \in {"load", "mul"} => Rd(e1) \notin {bus.ins.ra, bus.ins.rb}
      BY <3>4 DEF Busy
    <3>8. /\ e1'.a = IF bus.ins.ra # 0 /\ bus.ins.ra = Rd(e2)'
                     THEN e2'.res ELSE ArchRegs'[bus.ins.ra]
          /\ e1'.b = IF bus.ins.rb # 0 /\ bus.ins.rb = Rd(e2)'
                     THEN e2'.res ELSE ArchRegs'[bus.ins.rb]
      BY <3>2, <3>6
    <3>. QED
      BY <3>2, <3>5, <3>7, <3>8 DEF Current
  <2>. QED
    BY <2>7, <2>8 DEF OperandsCurrent
<1>. QED
  BY <1>2, <1>3

-----------------------------------------------------------------------------
(* The simulation. *)

(* The pipeline is empty and every register of RiscvIsa is reset. *)
LEMMA RefInvInit == Init => RefInv
<1>. SUFFICES ASSUME Init PROVE RefInv
  OBVIOUS
<1>1. Op(None) \notin {"alu"} \cup Branches
  BY DEF Op, Branches
<1>2. ProgramOrder /\ OperandsCurrent
  BY DEF Init, ProgramOrder, OperandsCurrent
<1>3. Results
  BY <1>1 DEF Init, Results
<1>. QED
  BY <1>2, <1>3, InitInvariant DEF RefInv

(* Every cycle preserves the invariant of the refinement. *)
LEMMA RefInvStep == RefInv /\ [Next]_vars => RefInv'
<1>. SUFFICES ASSUME RefInv, [Next]_vars PROVE RefInv'
  OBVIOUS
<1>1. IInv'
  BY StepInvariant DEF RefInv
<1>2. CASE Next
  <2>1. PICK bus, target, complete, fault, data, lsuBusy :
             Step(bus, target, complete, fault, data, lsuBusy)
    BY <1>2, NextSteps, Zenon
  <2>. QED
    BY <1>1, <2>1, ProgramOrderStep, OperandsCurrentStep, ResultsStep DEF RefInv
<1>3. CASE UNCHANGED vars
  <2>1. ProgramOrder'
    BY <1>3 DEF vars, RefInv, ProgramOrder, YoungerPc, Unsquashed, EarlyException
  <2>2. OperandsCurrent'
    BY <1>3 DEF vars, RefInv, OperandsCurrent, Current, Unsquashed, ArchRegs, RdWb, Rd, Op
  <2>3. Results'
    BY <1>3 DEF vars, RefInv, Results, Op
  <2>. QED
    BY <1>1, <2>1, <2>2, <2>3 DEF RefInv
<1>. QED
  BY <1>2, <1>3

(* Only what WB holds changes which interrupts are enabled. *)
LEMMA ArchIrqCycle ==
    ASSUME IInv,
           NEW bus, NEW target, NEW complete, NEW fault, NEW data, NEW lsuBusy,
           Step(bus, target, complete, fault, data, lsuBusy)
    PROVE  (irq' # "off") = ArchIrq
<1>1. CASE wb # None /\ wb.irq # None
  <2>1. irq' = wb.irq
    BY <1>1 DEF Step, Cycle, InterruptState
  <2>. QED
    BY <1>1, <2>1 DEF ArchIrq
<1>2. CASE ~(wb # None /\ wb.irq # None)
  <2>1. irq' # "off" <=> irq # "off"
    BY <1>2 DEF Step, Cycle, InterruptState
  <2>. QED
    BY <1>2, <2>1 DEF ArchIrq
<1>. QED
  BY <1>1, <1>2

(* The program's next address when nothing is flushed and nothing is in E2 *)
(* after the cycle but what was in E1.                                     *)
LEMMA ArchPcCycle ==
    ASSUME IInv,
           NEW bus, NEW target, NEW complete, NEW fault, NEW data, NEW lsuBusy,
           Step(bus, target, complete, fault, data, lsuBusy),
           ~Stalled(complete), ~Squashed(complete, fault),
           csr_branch = None, ~Redirecting
    PROVE  ArchPc' = YoungerPc
<1>1. csr_branch' = None
  BY DEF Step, Cycle, CsrBranch, Redirecting
<1>2. ~Redirecting'
  <2>1. ExceptionE2(complete, fault) = None
    BY NotSquashed
  <2>. QED
    BY <2>1, WriteBackCycle DEF Redirecting
<1>3. CASE e1 # None
  <2>1. e2' # None /\ e2'.pc = e1.pc
    BY <1>3, LeaveCycle, LeaveType, NoneAssumption
  <2>. QED
    BY <1>1, <1>2, <1>3, <2>1 DEF ArchPc, YoungerPc
<1>4. CASE e1 = None
  <2>1. e2' = None
    BY <1>4, LeaveCycle
  <2>2. IF e1' # None THEN e1'.pc = next_pc ELSE next_pc' = next_pc
    <3>1. CASE Issues(bus, complete, fault, lsuBusy)
      BY <3>1, EnterCycle
    <3>2. CASE ~Issues(bus, complete, fault, lsuBusy)
      BY <3>2, LeaveCycle, NextPcHolds
    <3>. QED
      BY <3>1, <3>2
  <2>. QED
    BY <1>1, <1>2, <1>4, <2>1, <2>2 DEF ArchPc, YoungerPc
<1>. QED
  BY <1>3, <1>4

(* While the pipeline is stalled RiscvIsa stands still. *)
LEMMA StallStutters ==
    ASSUME RefInv,
           NEW bus, NEW target, NEW complete, NEW fault, NEW data, NEW lsuBusy,
           Step(bus, target, complete, fault, data, lsuBusy),
           Stalled(complete)
    PROVE  UNCHANGED <<ArchPc, ArchRegs, ArchIrq, Retired>>
<1>1. IInv
  BY DEF RefInv
<1>2. /\ UNCHANGED <<e1, e2, wb, regs>>
      /\ csr_branch = None /\ csr_branch' = None /\ ~Redirecting
      /\ wb # None => wb.exc = None /\ wb.irq = None
      /\ e1 # None \/ e2 # None
  BY <1>1, StallCycle
<1>3. ArchPc' = ArchPc
  BY <1>2 DEF ArchPc, Redirecting
<1>4. ArchRegs' = ArchRegs
  BY <1>2 DEF ArchRegs, RdWb, Rd, Op
<1>5. ArchIrq' = ArchIrq
  <2>1. (irq' # "off") = ArchIrq
    BY <1>1, ArchIrqCycle
  <2>. QED
    BY <1>2, <2>1 DEF ArchIrq
<1>6. Retired' = Retired
  BY <1>2 DEF Retired, Target
<1>. QED
  BY <1>3, <1>4, <1>5, <1>6

(* When E2 is empty RiscvIsa is idle. *)
LEMMA EmptyIsIdle ==
    ASSUME RefInv,
           NEW bus, NEW target, NEW complete, NEW fault, NEW data, NEW lsuBusy,
           Step(bus, target, complete, fault, data, lsuBusy),
           ~Stalled(complete), e2 = None
    PROVE  CoreIsa!Idle
<1>1. IInv
  BY DEF RefInv
<1>2. wb' = None
  BY <1>1, WriteBackCycle
<1>3. Retired' = None
  BY <1>2 DEF Retired
<1>4. ArchRegs' = ArchRegs
  BY <1>1, ArchRegsCycle
<1>5. ArchIrq' = ArchIrq
  <2>1. (irq' # "off") = ArchIrq
    BY <1>1, ArchIrqCycle
  <2>. QED
    BY <1>2, <2>1 DEF ArchIrq
<1>6. ArchPc' = ArchPc
  <2>1. CASE csr_branch # None
    <3>1. e1 = None /\ wb = None
      BY <1>1, <2>1 DEF IInv, TrapEmpties
    <3>2. e1' = None /\ e2' = None
      BY <1>1, <2>1, <3>1, LeaveCycle, IssueCycle
    <3>3. csr_branch' = None /\ next_pc' = csr_branch
      BY <2>1, <3>1 DEF Step, Cycle, CsrBranch, FrontEnd
    <3>. QED
      BY <1>2, <2>1, <3>2, <3>3 DEF ArchPc, Redirecting
  <2>2. CASE csr_branch = None /\ Redirecting
    <3>1. csr_branch' = Target(wb) /\ csr_branch' # None
      BY <1>1, <2>2, WriteBackType DEF Redirecting
    <3>. QED
      BY <2>2, <3>1 DEF ArchPc
  <2>3. CASE csr_branch = None /\ ~Redirecting
    <3>1. ~squash_e1_e2_q
      BY <1>1, <2>3 DEF IInv, TrapEmpties
    <3>2. ~Squashed(complete, fault)
      BY <3>1 DEF Squashed, ExceptionE2, Mem, Op, MemOps
    <3>3. ArchPc' = YoungerPc
      BY <1>1, <2>3, <3>2, ArchPcCycle
    <3>. QED
      BY <2>3, <3>3 DEF ArchPc, YoungerPc
  <2>. QED
    BY <2>1, <2>2, <2>3
<1>. QED
  BY <1>3, <1>4, <1>5, <1>6 DEF CoreIsa!Idle

(* RiscvIsa before E2 moves to WB, and what it sees there then. *)
LEMMA RetireCycle ==
    ASSUME IInv,
           NEW bus, NEW target, NEW complete, NEW fault, NEW data, NEW lsuBusy,
           Step(bus, target, complete, fault, data, lsuBusy),
           ~Stalled(complete), e2 # None
    PROVE  /\ ArchPc = e2.pc /\ csr_branch = None /\ ~Redirecting
           /\ e2 \in Stages /\ e2.ins \in Instrs
           /\ csr_branch' = None
           /\ ArchIrq = (irq # "off")
           /\ ArchIrq' = IF wb'.irq # None THEN wb'.irq # "off" ELSE ArchIrq
           /\ Squashed(complete, fault) <=> ExceptionE2(complete, fault) # None
           /\ ExceptionE2(complete, fault) # None =>
                 ArchPc' = Target(wb') /\ ArchRegs' = ArchRegs
           /\ e2.intr => ExceptionE2(complete, fault) = "interrupt"
           /\ ~e2.intr => \/ ExceptionE2(complete, fault) = EarlyException(e2.ins.op)
                          \/ /\ ExceptionE2(complete, fault) = "mem"
                             /\ e2.ins.op \in MemOps
<1>1. /\ csr_branch = None /\ ~Redirecting /\ ~squash_e1_e2_q /\ e2 \in Stages
      /\ wb # None => wb.irq = None
  BY StageOps
<1>2. ArchPc = e2.pc
  BY <1>1 DEF ArchPc
<1>3. e2.ins \in Instrs
  BY <1>1, StageType
<1>4. csr_branch' = None
  BY <1>1 DEF Step, Cycle, CsrBranch, Redirecting
<1>5. ArchIrq = (irq # "off")
  BY <1>1 DEF ArchIrq
<1>6. wb' # None /\ wb'.exc = ExceptionE2(complete, fault)
  BY WriteBackCycle
<1>7. ArchIrq' = IF wb'.irq # None THEN wb'.irq # "off" ELSE ArchIrq
  <2>1. (irq' # "off") = ArchIrq
    BY ArchIrqCycle
  <2>2. CASE wb'.irq # None
    BY <1>6, <2>2 DEF ArchIrq
  <2>3. CASE wb'.irq = None
    <3>1. ArchIrq' = (irq' # "off")
      BY <2>3 DEF ArchIrq
    <3>. QED
      BY <2>1, <2>3, <3>1, Zenon
  <2>. QED
    BY <2>2, <2>3
<1>8. Squashed(complete, fault) <=> ExceptionE2(complete, fault) # None
  BY <1>1 DEF Squashed
<1>9. ASSUME ExceptionE2(complete, fault) # None
      PROVE  ArchPc' = Target(wb') /\ ArchRegs' = ArchRegs
  <2>1. ArchRegs' = ArchRegs
    BY <1>9, ArchRegsCycle
  <2>2. Redirecting'
    BY <1>6, <1>9 DEF Redirecting
  <2>. QED
    BY <1>4, <2>1, <2>2 DEF ArchPc, Target
<1>10. e2.intr => ExceptionE2(complete, fault) = "interrupt"
  BY DEF ExceptionE2, Mem, Op, MemOps, IInv, InE2
<1>11. ASSUME ~e2.intr
       PROVE  \/ ExceptionE2(complete, fault) = EarlyException(e2.ins.op)
              \/ /\ ExceptionE2(complete, fault) = "mem"
                 /\ e2.ins.op \in MemOps
  <2>1. e2.exc = EarlyException(e2.ins.op)
    BY <1>11 DEF IInv, InE2
  <2>2. Op(e2) = e2.ins.op
    BY <1>11 DEF Op
  <2>3. CASE Mem(e2)
    <3>1. e2.ins.op \in MemOps /\ complete
      BY <2>2, <2>3 DEF Mem, Stalled
    <3>2. EarlyException(e2.ins.op) = None
      BY <3>1 DEF EarlyException, IssueException, MemOps
    <3>. QED
      BY <2>3, <3>1, <3>2 DEF ExceptionE2
  <2>4. CASE ~Mem(e2)
    BY <2>1, <2>4 DEF ExceptionE2
  <2>. QED
    BY <2>3, <2>4
<1>. QED
  BY <1>1, <1>2, <1>3, <1>4, <1>5, <1>7, <1>8, <1>9, <1>10, <1>11

(* A trap or an interrupt in E2 is one of RiscvIsa. *)
LEMMA TrapsTrap ==
    ASSUME RefInv,
           NEW bus, NEW target, NEW complete, NEW fault, NEW data, NEW lsuBusy,
           Step(bus, target, complete, fault, data, lsuBusy),
           ~Stalled(complete), e2 # None,
           ExceptionE2(complete, fault) \in Traps
    PROVE  CoreIsa!Next
<1>. DEFINE exc == ExceptionE2(complete, fault)
<1>1. IInv
  BY DEF RefInv
<1>2. exc # None
  BY NoneAssumption
<1>3. /\ ArchPc = e2.pc /\ e2.ins \in Instrs /\ ArchPc' = Target(wb')
      /\ ArchRegs' = ArchRegs
      /\ ArchIrq = (irq # "off")
      /\ ArchIrq' = IF wb'.irq # None THEN wb'.irq # "off" ELSE ArchIrq
      /\ e2.intr => exc = "interrupt"
      /\ ~e2.intr => \/ exc = EarlyException(e2.ins.op)
                     \/ exc = "mem" /\ e2.ins.op \in MemOps
  BY <1>1, <1>2, RetireCycle
<1>4. wb' # None /\ wb'.exc = exc /\ wb'.pc = e2.pc /\ wb'.irq \in IrqAfter(e2, exc)
  BY <1>1, WriteBackCycle
<1>5. ArchPc' = HandlerPc
  BY <1>3, <1>4 DEF Target, Traps
<1>6. Retired' = [pc |-> ArchPc, cause |-> exc]
  BY <1>3, <1>4 DEF Retired
<1>7. ArchIrq' \in {FALSE, ArchIrq}
  <2>1. wb'.irq \in IF irq = "off" THEN {"off"} ELSE IrqStates
    BY <1>4 DEF IrqAfter
  <2>2. wb'.irq # None
    BY <2>1, NoneAssumption DEF IrqStates
  <2>3. ArchIrq' = (wb'.irq # "off")
    BY <1>3, <2>2
  <2>4. CASE irq = "off"
    <3>1. ArchIrq' = FALSE
      BY <2>1, <2>3, <2>4
    <3>. QED
      BY <3>1
  <2>5. CASE irq # "off"
    <3>1. ArchIrq = TRUE
      BY <1>3, <2>5
    <3>2. ArchIrq' \in BOOLEAN
      BY <2>3
    <3>. QED
      BY <3>1, <3>2
  <2>. QED
    BY <2>4, <2>5
<1>8. CoreIsa!Vector(exc)
  BY <1>3, <1>5, <1>6, <1>7 DEF CoreIsa!Vector
<1>11. CoreIsa!Fetchable
  <2>1. e2 \in Stages
    BY <1>1, RetireCycle
  <2>. QED
    BY <1>3, <2>1, StageType DEF CoreIsa!Fetchable
<1>9. CASE e2.intr
  <2>1. ArchIrq
    BY <1>1, <1>3, <1>9 DEF IInv, Interrupts
  <2>2. CoreIsa!Interrupt
    BY <1>3, <1>8, <1>9, <2>1 DEF CoreIsa!Interrupt
  <2>. QED
    BY <2>2 DEF CoreIsa!Next
<1>10. CASE ~e2.intr
  <2>1. exc = CoreIsa!Cause(e2.ins) /\ e2.ins.op \in CoreIsa!Trapping
    <3>1. CASE exc = "mem" /\ e2.ins.op \in MemOps
      BY <3>1 DEF CoreIsa!Cause, CoreIsa!Trapping, MemOps
    <3>2. CASE exc = EarlyException(e2.ins.op)
      <4>1. e2.ins.op \in {"fault", "mis", "ecall"}
        BY <3>2, NoneAssumption DEF EarlyException, IssueException, Traps, Flushes
      <4>. QED
        BY <3>2, <4>1 DEF EarlyException, IssueException, CoreIsa!Cause, CoreIsa!Trapping
    <3>. QED
      BY <1>3, <1>10, <3>1, <3>2
  <2>2. CoreIsa!Trap(e2.ins)
    BY <1>8, <2>1 DEF CoreIsa!Trap
  <2>. QED
    BY <1>3, <1>11, <2>2 DEF CoreIsa!Next
<1>. QED
  BY <1>9, <1>10

(* A fence or a return in E2 is one of RiscvIsa. *)
LEMMA FlushesFlush ==
    ASSUME RefInv, NoSatpWrites,
           NEW bus, NEW target, NEW complete, NEW fault, NEW data, NEW lsuBusy,
           Step(bus, target, complete, fault, data, lsuBusy),
           ~Stalled(complete), e2 # None,
           ExceptionE2(complete, fault) \in Flushes
    PROVE  CoreIsa!Next
<1>. DEFINE exc == ExceptionE2(complete, fault)
<1>1. IInv
  BY DEF RefInv
<1>2. exc # None /\ exc \notin Traps
  BY NoneAssumption DEF Flushes, Traps
<1>3. /\ ArchPc = e2.pc /\ e2 \in Stages /\ e2.ins \in Instrs /\ ArchPc' = Target(wb')
      /\ ArchRegs' = ArchRegs
      /\ ArchIrq' = IF wb'.irq # None THEN wb'.irq # "off" ELSE ArchIrq
      /\ e2.intr => exc = "interrupt"
      /\ ~e2.intr => \/ exc = EarlyException(e2.ins.op)
                     \/ exc = "mem" /\ e2.ins.op \in MemOps
  BY <1>1, <1>2, RetireCycle
<1>4. /\ wb' # None /\ wb'.exc = exc /\ wb'.irq \in IrqAfter(e2, exc)
      /\ wb'.pc = e2.pc /\ wb'.npc = e2.npc /\ wb'.ins = e2.ins
      /\ wb'.a = e2.a /\ wb'.b = e2.b
  BY <1>1, WriteBackCycle
<1>5. exc = EarlyException(e2.ins.op)
  BY <1>2, <1>3 DEF Traps
<1>6. e2.a = ArchRegs[e2.ins.ra] /\ e2.b = ArchRegs[e2.ins.rb]
  BY DEF RefInv, OperandsCurrent
<1>7. Retired' = CoreIsa!Completed(e2.ins, ArchPc')
  BY <1>2, <1>3, <1>4, <1>6 DEF Retired, CoreIsa!Completed, Target
<1>8. CoreIsa!Fetchable
  BY <1>3, StageType DEF CoreIsa!Fetchable
<1>9. CASE exc = "fence"
  <2>1. e2.ins.op = "fence"
    BY <1>3, <1>5, <1>9, NoneAssumption DEF EarlyException, IssueException, NoSatpWrites, Flushes
  <2>2. ArchPc' = NextPc[ArchPc]
    BY <1>3, <1>4, <1>9 DEF Target, Traps
  <2>3. wb'.irq = None
    BY <1>2, <1>4, <1>9 DEF IrqAfter
  <2>4. ArchIrq' = ArchIrq
    BY <1>3, <2>3
  <2>5. CoreIsa!Fence(e2.ins)
    BY <1>3, <1>7, <2>1, <2>2, <2>4 DEF CoreIsa!Fence
  <2>. QED
    BY <1>3, <1>8, <2>5 DEF CoreIsa!Next
<1>10. CASE exc = "eret"
  <2>1. e2.ins.op = "eret"
    BY <1>5, <1>10, NoneAssumption DEF EarlyException, IssueException, Flushes
  <2>2. ArchPc' \in Pcs
    <3>1. ArchPc' = e2.npc
      BY <1>3, <1>4, <1>10 DEF Target, Traps
    <3>. QED
      BY <1>3, <3>1, StageType
  <2>3. wb'.irq # None
    BY <1>4, <1>10, NoneAssumption DEF IrqAfter, Traps
  <2>4. ArchIrq' \in BOOLEAN
    <3>1. ArchIrq' = (wb'.irq # "off")
      BY <1>3, <2>3
    <3>. QED
      BY <3>1
  <2>5. CoreIsa!Return(e2.ins)
    BY <1>3, <1>7, <2>1, <2>2, <2>4 DEF CoreIsa!Return
  <2>. QED
    BY <1>3, <1>8, <2>5 DEF CoreIsa!Next
<1>. QED
  BY <1>9, <1>10 DEF Flushes

(* What E2 retires without an exception is an instruction of RiscvIsa with *)
(* its operands, address and successor.                                    *)
LEMMA RetireOperands ==
    ASSUME RefInv,
           NEW bus, NEW target, NEW complete, NEW fault, NEW data, NEW lsuBusy,
           Step(bus, target, complete, fault, data, lsuBusy),
           ~Stalled(complete), e2 # None,
           ExceptionE2(complete, fault) = None
    PROVE  /\ Op(e2) = e2.ins.op /\ e2.valid
           /\ e2.ins.op \in {"alu", "br", "mul", "div", "csr"} \cup MemOps
           /\ ArchPc' = e2.npc
           /\ e2.ins.op # "br" => ArchPc' = NextPc[ArchPc]
           /\ Retired' = CoreIsa!Completed(e2.ins, ArchPc')
           /\ e2.a = ArchRegs[e2.ins.ra] /\ e2.b = ArchRegs[e2.ins.rb]
<1>1. IInv
  BY DEF RefInv
<1>2. /\ ArchPc = e2.pc /\ csr_branch = None /\ ~Redirecting
      /\ e2.ins \in Instrs
      /\ ~Squashed(complete, fault)
      /\ ~e2.intr /\ EarlyException(e2.ins.op) = None
  BY <1>1, RetireCycle, NoneAssumption DEF Traps
<1>3. Op(e2) = e2.ins.op
  BY <1>2 DEF Op
<1>4. e2.exc = None /\ e2.valid
  BY <1>1, <1>2 DEF IInv, InE2
<1>5. e2.ins.op \in {"alu", "br", "mul", "div", "csr"} \cup MemOps
  <2>1. e2.ins.op \in Ops
    BY <1>2, InstrType
  <2>2. e2.ins.op \notin {"fault", "mis"}
    BY <1>2, NoneAssumption DEF EarlyException, IssueException, Traps
  <2>3. e2.ins.op \notin {"ecall", "fence", "satp", "eret"}
    BY <1>2, <2>2, NoneAssumption DEF EarlyException, Traps, Flushes
  <2>. QED
    BY <2>1, <2>2, <2>3 DEF Ops, Writing, CsrOps, MemOps, Branches
<1>6. ArchPc' = e2.npc
  <2>1. ArchPc' = YoungerPc
    BY <1>1, <1>2, ArchPcCycle
  <2>. QED
    BY <1>4, <2>1 DEF RefInv, ProgramOrder
<1>7. e2.ins.op # "br" => e2.npc = NextPc[e2.pc]
  <2>1. e2.ins.op # "br" => e2.ins.op \notin Branches \cup {"eret"}
    BY <1>5 DEF Branches, MemOps
  <2>. QED
    BY <2>1 DEF RefInv, ProgramOrder
<1>8. e2.a = ArchRegs[e2.ins.ra] /\ e2.b = ArchRegs[e2.ins.rb]
  BY DEF RefInv, OperandsCurrent
<1>9. /\ wb' # None /\ wb'.exc = None /\ wb'.pc = e2.pc /\ wb'.npc = e2.npc
      /\ wb'.ins = e2.ins /\ wb'.a = e2.a /\ wb'.b = e2.b
  BY <1>1, WriteBackCycle
<1>10. Retired' = CoreIsa!Completed(e2.ins, ArchPc')
  BY <1>2, <1>6, <1>8, <1>9, NoneAssumption DEF Retired, CoreIsa!Completed, Traps
<1>. QED
  BY <1>2, <1>3, <1>4, <1>5, <1>6, <1>7, <1>8, <1>10

(* An instruction in E2 without an exception is executed as RiscvIsa       *)
(* executes it.                                                            *)
LEMMA InstructionsExecute ==
    ASSUME RefInv, NoDivisions,
           NEW bus, NEW target, NEW complete, NEW fault, NEW data, NEW lsuBusy,
           Step(bus, target, complete, fault, data, lsuBusy),
           ~Stalled(complete), e2 # None,
           ExceptionE2(complete, fault) = None
    PROVE  CoreIsa!Next
<1>1. IInv
  BY DEF RefInv
<1>2. /\ e2 \in Stages /\ e2.ins \in Instrs /\ ArchPc = e2.pc
      /\ ArchIrq' = IF wb'.irq # None THEN wb'.irq # "off" ELSE ArchIrq
  BY <1>1, RetireCycle
<1>3. /\ Op(e2) = e2.ins.op /\ e2.valid
      /\ e2.ins.op \in {"alu", "br", "mul", "csr", "load", "store"}
      /\ ArchPc' = e2.npc
      /\ e2.ins.op # "br" => ArchPc' = NextPc[ArchPc]
      /\ Retired' = CoreIsa!Completed(e2.ins, ArchPc')
      /\ e2.a = ArchRegs[e2.ins.ra] /\ e2.b = ArchRegs[e2.ins.rb]
  BY <1>2, RetireOperands DEF NoDivisions, MemOps
<1>4. /\ wb'.irq \in IrqAfter(e2, None) /\ wb'.exc = None
      /\ wb'.res = IF Mem(e2) /\ e2.valid THEN data
                   ELSE IF Op(e2) = "mul" /\ e2.valid
                   THEN Result(e2.ins, e2.a, e2.b)
                   ELSE e2.res
      /\ Op(e2) \in Writing => wb'.res \in Vals
  BY <1>1, WriteBackCycle
<1>5. ArchRegs' = IF Rd(e2) = 0 THEN ArchRegs ELSE [ArchRegs EXCEPT ![Rd(e2)] = wb'.res]
  BY <1>1, ArchRegsCycle
<1>6. e2.ins.op \in Writing => CoreIsa!WriteRd(e2.ins, wb'.res)
  <2>1. e2.ins.op \in Writing => Rd(e2) = e2.ins.rd
    BY <1>3 DEF Rd
  <2>. QED
    BY <1>5, <2>1 DEF CoreIsa!WriteRd
<1>7. e2.ins.op # "csr" => ArchIrq' = ArchIrq
  <2>1. e2.ins.op # "csr" => wb'.irq = None
    BY <1>3, <1>4, NoneAssumption DEF IrqAfter, Traps, Flushes
  <2>. QED
    BY <1>2, <2>1
<1>8. CoreIsa!Fetchable
  BY <1>2, StageType DEF CoreIsa!Fetchable
<1>9. CASE e2.ins.op \in {"alu", "br", "mul"}
  <2>1. Op(e2) \in {"alu", "mul"} \cup Branches /\ e2.ins.op \in Writing /\ ~Mem(e2)
    BY <1>3, <1>9 DEF Branches, Writing, Mem, MemOps
  <2>2. Op(e2) # "mul" => e2.res = Result(e2.ins, e2.a, e2.b)
    BY <2>1 DEF RefInv, Results
  <2>3. wb'.res = Result(e2.ins, ArchRegs[e2.ins.ra], ArchRegs[e2.ins.rb])
    BY <1>3, <1>4, <2>1, <2>2
  <2>4. CoreIsa!WriteRd(e2.ins, Result(e2.ins, ArchRegs[e2.ins.ra], ArchRegs[e2.ins.rb]))
    BY <1>6, <2>1, <2>3
  <2>5. ArchPc' \in CoreIsa!NextPcs(e2.ins)
    BY <1>2, <1>3, <1>9, StageType DEF CoreIsa!NextPcs
  <2>6. CoreIsa!Compute(e2.ins)
    BY <1>3, <1>7, <1>9, <2>4, <2>5 DEF CoreIsa!Compute, CoreIsa!Computing, CoreIsa!Jumping
  <2>. QED
    BY <1>2, <1>8, <2>6 DEF CoreIsa!Next
<1>10. CASE e2.ins.op \in {"load", "csr"}
  <2>1. Op(e2) \in Writing
    BY <1>3, <1>10 DEF Writing
  <2>2. \E v \in Vals : CoreIsa!WriteRd(e2.ins, v)
    BY <1>3, <1>4, <1>6, <2>1
  <2>3. ArchIrq' \in IF e2.ins.op = "csr" THEN BOOLEAN ELSE {ArchIrq}
    <3>1. CASE e2.ins.op = "csr"
      <4>1. wb'.irq # None
        BY <1>3, <1>4, <3>1, NoneAssumption DEF IrqAfter, Traps
      <4>2. ArchIrq' = (wb'.irq # "off")
        BY <1>2, <4>1
      <4>. QED
        BY <3>1, <4>2
    <3>2. CASE e2.ins.op # "csr"
      BY <1>7, <3>2
    <3>. QED
      BY <3>1, <3>2
  <2>4. CoreIsa!Access(e2.ins)
    BY <1>3, <1>10, <2>2, <2>3 DEF CoreIsa!Access, CoreIsa!Accessing
  <2>. QED
    BY <1>2, <1>8, <2>4 DEF CoreIsa!Next
<1>11. CASE e2.ins.op = "store"
  <2>1. Rd(e2) = 0
    BY <1>3, <1>11 DEF Rd, Writing, Branches
  <2>2. CoreIsa!Store(e2.ins)
    BY <1>3, <1>5, <1>7, <1>11, <2>1 DEF CoreIsa!Store
  <2>. QED
    BY <1>2, <1>8, <2>2 DEF CoreIsa!Next
<1>. QED
  BY <1>3, <1>9, <1>10, <1>11

(* The pipeline executes every program without divisions and satp writes   *)
(* in order, nothing lost or repeated, every operand up to date, traps     *)
(* precise, those of misaligned jumps included, and no interrupt after the *)
(* CSR write that disables it.                                             *)
THEOREM ImplementsInstructionSet ==
    ASSUME NoDivisions, NoSatpWrites
    PROVE  Spec => ImplementsCoreIsa
<1>1. Init => RefInv
  BY RefInvInit
<1>2. RefInv /\ [Next]_vars => RefInv'
  BY RefInvStep
<1>3. Init => CoreIsa!Init
  <2>. SUFFICES ASSUME Init PROVE CoreIsa!Init
    OBVIOUS
  <2>1. ArchPc = ResetPc
    BY PipeAssumption, NoneAssumption DEF Init, ArchPc
  <2>2. ArchRegs = [r \in Regs |-> 0]
    BY DEF Init, ArchRegs, RdWb
  <2>3. ArchIrq = FALSE /\ Retired = None
    BY DEF Init, ArchIrq, Retired
  <2>. QED
    BY <2>1, <2>2, <2>3 DEF CoreIsa!Init
<1>4. RefInv /\ [Next]_vars => [CoreIsa!Next]_(CoreIsa!vars)
  <2>. SUFFICES ASSUME RefInv, [Next]_vars
                PROVE  CoreIsa!Next \/ UNCHANGED <<ArchPc, ArchRegs, ArchIrq, Retired>>
    BY DEF CoreIsa!vars
  <2>1. CASE Next
    <3>1. PICK bus, target, complete, fault, data, lsuBusy :
               Step(bus, target, complete, fault, data, lsuBusy)
      BY <2>1, NextSteps, Zenon
    <3>2. CASE Stalled(complete)
      BY <3>1, <3>2, StallStutters
    <3>3. CASE ~Stalled(complete) /\ e2 = None
      <4>1. CoreIsa!Idle
        BY <3>1, <3>3, EmptyIsIdle
      <4>. QED
        BY <4>1 DEF CoreIsa!Next
    <3>4. CASE ~Stalled(complete) /\ e2 # None
      <4>1. ExceptionE2(complete, fault) \in Traps \cup Flushes \cup {None}
        BY <3>4, StageOps, StageType DEF RefInv, ExceptionE2, Traps
      <4>. QED
        BY <3>1, <3>4, <4>1, TrapsTrap, FlushesFlush, InstructionsExecute
    <3>. QED
      BY <3>2, <3>3, <3>4
  <2>2. CASE UNCHANGED vars
    BY <2>2 DEF vars, ArchPc, Redirecting, Target, ArchRegs, RdWb, Rd, Op, ArchIrq, Retired
  <2>. QED
    BY <2>1, <2>2
<1>. QED
  BY <1>1, <1>2, <1>3, <1>4, PTL DEF Spec, ImplementsCoreIsa, CoreIsa!Spec

(* Without misaligned jumps the two instruction sets are the same.         *)
LEMMA InstructionSetsAgree ==
    ASSUME NoMisaligned
    PROVE  CoreIsa!Next => Simulator!Next
<1>. SUFFICES ASSUME CoreIsa!Next PROVE Simulator!Next
  OBVIOUS
<1>1. CASE CoreIsa!Interrupt \/ CoreIsa!Idle
  BY <1>1 DEF CoreIsa!Interrupt, CoreIsa!Vector, CoreIsa!Idle, Simulator!Next,
              Simulator!Interrupt, Simulator!Vector, Simulator!Idle
<1>2. CASE CoreIsa!Fetchable /\ \E i \in Instrs :
              \/ CoreIsa!Compute(i) \/ CoreIsa!Access(i) \/ CoreIsa!Store(i)
              \/ CoreIsa!Fence(i) \/ CoreIsa!Return(i) \/ CoreIsa!Trap(i)
  <2>1. PICK i \in Instrs :
              \/ CoreIsa!Compute(i) \/ CoreIsa!Access(i) \/ CoreIsa!Store(i)
              \/ CoreIsa!Fence(i) \/ CoreIsa!Return(i) \/ CoreIsa!Trap(i)
    BY <1>2
  <2>2. i.op # "mis"
    BY DEF NoMisaligned
  <2>3. CoreIsa!Compute(i) => Simulator!Compute(i)
    BY <2>2 DEF CoreIsa!Compute, CoreIsa!Computing, CoreIsa!Jumping, CoreIsa!NextPcs,
                CoreIsa!WriteRd, CoreIsa!Completed, Simulator!Compute, Simulator!Computing,
                Simulator!Jumping, Simulator!NextPcs, Simulator!WriteRd, Simulator!Completed
  <2>4. CoreIsa!Access(i) => Simulator!Access(i)
    BY DEF CoreIsa!Access, CoreIsa!Accessing, CoreIsa!WriteRd, CoreIsa!Completed,
           Simulator!Access, Simulator!Accessing, Simulator!WriteRd, Simulator!Completed
  <2>5. CoreIsa!Store(i) => Simulator!Store(i)
    BY DEF CoreIsa!Store, CoreIsa!Completed, Simulator!Store, Simulator!Completed
  <2>6. CoreIsa!Fence(i) => Simulator!Fence(i)
    BY DEF CoreIsa!Fence, CoreIsa!Completed, Simulator!Fence, Simulator!Completed
  <2>7. CoreIsa!Return(i) => Simulator!Return(i)
    BY DEF CoreIsa!Return, CoreIsa!Completed, Simulator!Return, Simulator!Completed
  <2>8. CoreIsa!Trap(i) => Simulator!Trap(i)
    BY <2>2 DEF CoreIsa!Trap, CoreIsa!Trapping, CoreIsa!Cause, CoreIsa!Vector,
                Simulator!Trap, Simulator!Trapping, Simulator!Cause, Simulator!Vector
  <2>9. Simulator!Fetchable
    BY <1>2 DEF CoreIsa!Fetchable, Simulator!Fetchable
  <2>. QED
    BY <2>1, <2>3, <2>4, <2>5, <2>6, <2>7, <2>8, <2>9 DEF Simulator!Next
<1>. QED
  BY <1>1, <1>2 DEF CoreIsa!Next

(* The pipeline executes every program without divisions, satp writes and  *)
(* jumps to targets that are not aligned as the instruction set simulator  *)
(* does.                                                                   *)
THEOREM ImplementsSimulator ==
    ASSUME NoDivisions, NoSatpWrites, NoMisaligned
    PROVE  Spec => ImplementsIsa
<1>1. Spec => CoreIsa!Spec
  BY ImplementsInstructionSet DEF ImplementsCoreIsa
<1>2. CoreIsa!Init => Simulator!Init
  BY DEF CoreIsa!Init, Simulator!Init
<1>3. [CoreIsa!Next]_(CoreIsa!vars) => [Simulator!Next]_(Simulator!vars)
  BY InstructionSetsAgree DEF CoreIsa!vars, Simulator!vars
<1>. QED
  BY <1>1, <1>2, <1>3, PTL DEF ImplementsIsa, CoreIsa!Spec, Simulator!Spec

=============================================================================
