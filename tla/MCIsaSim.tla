------------------------------ MODULE MCIsaSim ------------------------------
(* Instance of IsaSim for TLC: bytes of two bits, so that a word and an    *)
(* address have eight; a page table has four entries, a page 16 bytes.     *)
(* With it, what simulator and core compute, for words of five bits, and  *)
(* what they take an instruction for, for every instruction.              *)
EXTENDS IsaSim, RiscvArith, RiscvDecode

(* The units of the core compute what the simulator computes.             *)
ASSUME ArithmeticAgrees == \A a, b \in Word : UnitsAgree(a, b)

(* The decoder of the core and the simulator's read a word alike.         *)
ASSUME DecodingAgrees == \A word \in Opcodes : DecodersAgree(word)

Bytes(base, words) ==
    [base |-> base,
     bytes |-> [n \in 1 .. 4 * Len(words) |->
                  (words[((n - 1) \div 4) + 1] \div (Byte^((n - 1) % 4))) % Byte]]

Pte(frame, flags) == (frame * PfnScale) + flags
SystemCode == Present + CanRead + CanExec
UserAll    == Present + CanRead + CanWrite + CanExec + UserPage
SystemData == Present + CanRead + CanWrite

Jump(a) == [op |-> "jump", target |-> a]
Do(op)  == [op |-> op]
Csr(op, csr, data) == [op |-> op, csr |-> csr, data |-> data]
Load(a, width, signed) == [op |-> "load", addr |-> a, width |-> width, signed |-> signed]
Store(a, width, val)   == [op |-> "store", addr |-> a, width |-> width, val |-> val]

(* Machine and supervisor code without translation, timer and external     *)
(* interrupts.                                                             *)
Interrupted(mideleg, medeleg, external) ==
    [sections |-> <<Bytes(32, <<1, 1>>), Bytes(48, <<1, 1>>)>>,
     start |-> 32,
     boot  |-> <<Csr("rw", "mtvec", 32), Csr("rw", "stvec", 48), Csr("rw", "mepc", 48),
                 Csr("rw", "mideleg", mideleg), Csr("rw", "medeleg", medeleg),
                 Csr("rw", "mie", {5, 7, 11}), Csr("rw", "mstatus", {"MPP0"})>>,
     instrs |-> {Jump(48), Do("ecall"), Do("mret"), Do("sret"), Csr("rs", "mstatus", {"MIE"}),
                 Csr("rs", "sstatus", {"SIE"})}
                \cup (IF external THEN {Csr("rc", "mip", {11})} ELSE {Csr("rw", "mtime", 2)}),
     external |-> external]

(* User and supervisor code behind page tables they may change: the root   *)
(* is frame 0, with a table in frame 1, a large page for the user (from    *)
(* 64) and one for the supervisor (from 128); code is in frame 2, data in  *)
(* frame 3, mapped by entry 3 of the table.                                *)
Entry3   == 16 + 12
Variants == {Pte(3, SystemData), Pte(3, Present + CanRead + UserPage),
             Pte(3, Present + CanWrite + UserPage)}
Translated ==
    [sections |-> <<Bytes(0, <<Pte(1, Present), Pte(0, UserAll), Pte(0, SystemData), 0>>),
                    Bytes(16, <<0, 0, Pte(2, SystemCode), Pte(3, SystemData + UserPage)>>),
                    Bytes(32, <<1, 1>>),
                    Bytes(48, <<27>>)>>,
     start |-> 32,
     boot  |-> <<Csr("rw", "mtvec", 200), Csr("rw", "stvec", 32), Csr("rw", "mepc", 96),
                 Csr("rw", "satp", SatpMode), Csr("rw", "medeleg", {8, 9, 12, 13, 15})>>,
     instrs |-> {Do("mret"), Do("sret"), Do("ecall"), Do("ebreak"), Do("fence"), Do("bad"),
                 Jump(32), Csr("rs", "sstatus", {"SUM"}),
                 Load(49, 1, TRUE), Load(200, 4, FALSE),
                 Load(129, 1, FALSE), Store(50, 2, 9)}
                \cup {Store(128 + Entry3, 4, v) : v \in Variants},
     external |-> FALSE]

MCPrograms == {Interrupted({5}, {}, FALSE), Interrupted({}, {9}, TRUE), Translated}

(* The programs are of those the theorem about accesses speaks of.         *)
ASSUME WholePrograms == WholeSections
=============================================================================
