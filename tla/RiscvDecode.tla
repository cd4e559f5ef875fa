---------------------------- MODULE RiscvDecode -----------------------------
(***************************************************************************)
(* Which instruction a word is, decided three times: by the decoder of the *)
(* core (riscv_decoder.v, with the masks of riscv_defs.v), by the          *)
(* simulator and by its disassembler (riscv.cpp and riscv_inst_dump.cpp,   *)
(* with the masks of riscv_isa.h).  The two headers hold the same masks    *)
(* and values, but for the returns from a trap.                            *)
(*                                                                         *)
(* An instruction is the fields its mask keeps and their values: mask 7f   *)
(* keeps op, 707f op and f3, fe00707f also bits 31 to 25, fc00707f those   *)
(* less b25.                                                               *)
(***************************************************************************)
EXTENDS Integers, FiniteSets, TLC, SequencesExt

OpF3(op, f3) == [op |-> op, f3 |-> f3]

(* Bits 31:30, 29:28 and 27:26. *)
High(f7) == [top |-> f7 \div 32, priv |-> (f7 \div 8) % 4, mid |-> (f7 \div 2) % 4]
Funct7(f7) == High(f7) @@ [b25 |-> f7 % 2]

ShiftImm(f3, f7) == OpF3(19, f3) @@ High(f7)
Reg(f3, f7)      == OpF3(51, f3) @@ Funct7(f7)
System(rs2, f7)  == [op |-> 115, rd |-> 0, rs1 |-> 0, rs2 |-> rs2] @@ Funct7(f7)

AluImm == [andi  |-> OpF3(19, 7), addi |-> OpF3(19, 0), slti |-> OpF3(19, 2),
           sltiu |-> OpF3(19, 3), ori |-> OpF3(19, 6), xori |-> OpF3(19, 4),
           slli  |-> ShiftImm(1, 0), srli |-> ShiftImm(5, 0), srai |-> ShiftImm(5, 32),
           lui   |-> [op |-> 55], auipc |-> [op |-> 23]]

AluReg == [add |-> Reg(0, 0), sub |-> Reg(0, 32), slt |-> Reg(2, 0), sltu |-> Reg(3, 0),
           xor |-> Reg(4, 0), or |-> Reg(6, 0), and |-> Reg(7, 0),
           sll |-> Reg(1, 0), srl |-> Reg(5, 0), sra |-> Reg(5, 32)]

Jumps    == [jal |-> [op |-> 111], jalr |-> OpF3(103, 0)]
Branches == [beq |-> OpF3(99, 0), bne |-> OpF3(99, 1), blt |-> OpF3(99, 4),
             bge |-> OpF3(99, 5), bltu |-> OpF3(99, 6), bgeu |-> OpF3(99, 7)]
Loads    == [lb |-> OpF3(3, 0), lh |-> OpF3(3, 1), lw |-> OpF3(3, 2),
             lbu |-> OpF3(3, 4), lhu |-> OpF3(3, 5), lwu |-> OpF3(3, 6)]
Stores   == [sb |-> OpF3(35, 0), sh |-> OpF3(35, 1), sw |-> OpF3(35, 2)]

Fences == [fence |-> OpF3(15, 0), ifence |-> OpF3(15, 1),
           sfence |-> [op |-> 115, f3 |-> 0, rd |-> 0] @@ Funct7(9)]
Csrs   == [csrrw  |-> OpF3(115, 1), csrrs  |-> OpF3(115, 2), csrrc  |-> OpF3(115, 3),
           csrrwi |-> OpF3(115, 5), csrrsi |-> OpF3(115, 6), csrrci |-> OpF3(115, 7)]
Muls   == [mul |-> Reg(0, 1), mulh |-> Reg(1, 1), mulhsu |-> Reg(2, 1), mulhu |-> Reg(3, 1)]
Divs   == [div |-> Reg(4, 1), divu |-> Reg(5, 1), rem |-> Reg(6, 1), remu |-> Reg(7, 1)]

(* WFI is the one mask that leaves f3 out, and so has words of CSRs in it. *)
Wfi   == [wfi |-> System(5, 8)]
Calls == [ecall |-> System(0, 0) @@ [f3 |-> 0], ebreak |-> System(1, 0) @@ [f3 |-> 0]]

(* riscv_isa.h: one level each.  riscv_defs.v: any level, bits 29:28. *)
Returns == [mret |-> System(2, 24) @@ [f3 |-> 0], sret |-> System(2, 8) @@ [f3 |-> 0]]
Eret    == [eret |-> [op |-> 115, rd |-> 0, f3 |-> 0, rs1 |-> 0, rs2 |-> 2,
                      b25 |-> 0, mid |-> 0, top |-> 0]]

Is(word, pattern) == \A field \in DOMAIN pattern : word[field] = pattern[field]
IsAny(word, table) == \E name \in DOMAIN table : Is(word, table[name])

(* Every value of a field that some mask names, and one that none does. *)
Opcodes ==
    [op : {0, 3, 15, 19, 23, 35, 51, 55, 99, 103, 111, 115}, rd : {0, 1}, f3 : 0 .. 7,
     rs1 : {0, 1}, rs2 : {0, 1, 2, 3, 5}, b25 : {0, 1}, mid : {0, 1}, priv : 0 .. 3, top : 0 .. 2]

-----------------------------------------------------------------------------
(* The decoder of the core.                                                *)

MulDiv == Muls @@ Divs

(* invalid_w: what it does not list goes to the CSR unit, which faults it. *)
Invalid(word, muldiv) ==
    ~ (\/ IsAny(word, AluImm) \/ IsAny(word, AluReg) \/ IsAny(word, Jumps)
       \/ IsAny(word, Branches) \/ IsAny(word, Loads) \/ IsAny(word, Stores)
       \/ IsAny(word, Calls) \/ IsAny(word, Eret) \/ IsAny(word, Csrs)
       \/ IsAny(word, Wfi) \/ IsAny(word, Fences)
       \/ (muldiv /\ IsAny(word, MulDiv)))

RdValid(word) ==
    \/ IsAny(word, Jumps) \/ IsAny(word, AluImm) \/ IsAny(word, AluReg)
    \/ IsAny(word, Loads) \/ IsAny(word, MulDiv) \/ IsAny(word, Csrs)

(* exec_o, lsu_o, branch_o, mul_o, div_o and csr_o *)
Units(word, muldiv) ==
    {unit \in {"exec", "lsu", "branch", "mul", "div", "csr"} :
        CASE unit = "exec"   -> IsAny(word, AluImm) \/ IsAny(word, AluReg)
          [] unit = "lsu"    -> IsAny(word, Loads) \/ IsAny(word, Stores)
          [] unit = "branch" -> IsAny(word, Jumps) \/ IsAny(word, Branches)
          [] unit = "mul"    -> muldiv /\ IsAny(word, Muls)
          [] unit = "div"    -> muldiv /\ IsAny(word, Divs)
          [] unit = "csr"    -> \/ IsAny(word, Calls) \/ IsAny(word, Eret) \/ IsAny(word, Csrs)
                                \/ IsAny(word, Wfi) \/ IsAny(word, Fences)
                                \/ Invalid(word, muldiv)}

-----------------------------------------------------------------------------
(* The simulator and the disassembler, which test in the same order: the   *)
(* first test that holds decides.  The simulator's own first test, for a   *)
(* word of zeros, is left out: no mask fits that word.                     *)

Isa == AluImm @@ AluReg @@ Jumps @@ Branches @@ Loads @@ Stores @@ MulDiv @@ Calls
           @@ Returns @@ Fences @@ Csrs @@ Wfi

AluTests == <<"andi", "ori", "xori", "addi", "slti", "sltiu", "slli", "srli", "srai", "lui",
              "auipc", "add", "sub", "slt", "sltu", "xor", "or", "and", "sll", "srl", "sra">>
MemTests == <<"jal", "jalr", "beq", "bne", "blt", "bge", "bltu", "bgeu",
              "lb", "lh", "lw", "lbu", "lhu", "lwu", "sb", "sh", "sw">>
SystemTests == <<"mul", "mulh", "mulhsu", "mulhu", "div", "divu", "rem", "remu",
                 "ecall", "ebreak", "mret", "sret", "sfence", "fence", "ifence",
                 "csrrw", "csrrs", "csrrc", "csrrwi", "csrrsi", "csrrci", "wfi">>

Tests == AluTests \o MemTests \o SystemTests

Decoded(word) ==
    LET n == SelectInSeq(Tests, LAMBDA name : Is(word, Isa[name]))
    IN IF n = 0 THEN "illegal" ELSE Tests[n]

(* m_gpr[rd] = reg_rd at the end of execute(), which a branch and a store  *)
(* avoid with rd = 0 and a trap of an access by returning.                 *)
WritesRd(word) ==
    word.rd # 0 /\ Decoded(word) \notin DOMAIN Branches \cup DOMAIN Stores \cup {"illegal"}

-----------------------------------------------------------------------------
(* Every word, with multiplication or without, is the work of exactly one  *)
(* unit of the core.                                                       *)
OneUnit(word) == \A muldiv \in BOOLEAN : Cardinality(Units(word, muldiv)) = 1

(* The core and the simulator accept the same words, but for the returns   *)
(* to the two levels that the simulator has no return to.                  *)
SameWords(word) ==
    Invalid(word, TRUE) <=> Decoded(word) = "illegal" /\ ~IsAny(word, Eret)

(* No two masks of the simulator have a word in common, but for wfi and    *)
(* the CSR instructions with a CSR number of 105, where the first is taken.*)
OneMeaning(word) ==
    LET fits == {name \in DOMAIN Isa : Is(word, Isa[name])}
    IN Cardinality(fits \ {"wfi"}) <= 1 /\ ("wfi" \in fits => fits \subseteq DOMAIN (Csrs @@ Wfi))

(* They write a register at the same words, but for a fence with a         *)
(* destination, which the simulator clears.                                *)
SameWrites(word) ==
    Decoded(word) \notin {"illegal", "fence", "ifence"} =>
        (WritesRd(word) <=> RdValid(word) /\ word.rd # 0)

DecodersAgree(word) ==
    OneUnit(word) /\ SameWords(word) /\ OneMeaning(word) /\ SameWrites(word)

=============================================================================
