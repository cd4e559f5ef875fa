----------------------------- MODULE IsaSimProofs ---------------------------
(***************************************************************************)
(* Proofs about the instruction set simulator: the types of its registers  *)
(* and of its memory, what traps and returns do to the contexts they save, *)
(* and that every access is the one the page tables grant, for every       *)
(* program, every size of the machine and every width of the timer.        *)
(***************************************************************************)
EXTENDS IsaSim, FiniteSetTheorems, TLAPS

(* The types of the registers.                                             *)
Cause == {"trap", "irq"} \X (0 .. 31)

Cpus == [pc : Address, mpriv : 0 .. Machine, msr : SUBSET StatusBits,
         mideleg : SUBSET IrqBits, medeleg : SUBSET Causes, mepc : Address,
         mie : SUBSET IrqBits, mip : SUBSET IrqBits, mcause : Cause, mevec : Address,
         mtime : 0 .. TimeValues - 1, mtimecmp : 0 .. TimeValues - 1,
         sepc : Address, sevec : Address, scause : Cause, stval : Address,
         satp : Address, stopped : BOOLEAN]

Contexts == [pc : Address, priv : 0 .. Machine, ie : BOOLEAN]
Saved    == [{"m", "s"} -> Contexts \cup {None}]

(* The types of the memory.                                                *)
Region ==
    {r \in [base : Address, size : Address, words : UNION {[0 .. n - 1 -> Address] : n \in Nat}] :
        /\ r.base + r.size < WordValues
        /\ DOMAIN r.words = 0 .. (r.size + 3) \div 4 - 1}

Memories == {mem \in Seq(Region) : Len(mem) <= MaxRegions}

Types ==
    /\ cpu \in Cpus
    /\ regions \in Memories
    /\ program \in Programs
    /\ running \in BOOLEAN
    /\ saved \in Saved

-----------------------------------------------------------------------------
(* Numbers and recursive functions. *)

(* A set of natural numbers that is not empty has a least element.         *)
LEMMA Least ==
    ASSUME NEW T \in SUBSET Nat, T # {}
    PROVE  \E n \in T : \A k \in T : n <= k
<1> DEFINE less == {p \in Nat \X Nat : p[1] < p[2]}
<1>1. IsWellFoundedOn(OpToRel(<,Nat), Nat)
  BY NatLessThanWellFounded
<1>2. OpToRel(<,Nat) = less
  BY Zenon DEF OpToRel
<1>3. IsWellFoundedOn(less, Nat)
  BY <1>1, <1>2
<1>4. \E n \in T : \A k \in T : <<k, n>> \notin less
  <2> HIDE DEF less
  <2> QED
    BY <1>3, WFMin
<1>5. \A k, n \in Nat : k < n => <<k, n>> \in less
  OBVIOUS
<1>6. PICK n \in T : \A k \in T : <<k, n>> \notin less
  BY <1>4
<1>7. \A k \in T : ~(k < n)
  <2> HIDE DEF less
  <2> QED
    BY <1>5, <1>6
<1> HIDE DEF less
<1> QED
  BY <1>7

(* What holds of the first value, and of the next when it holds of one,    *)
(* holds of all: the values of a loop of the simulator.                    *)
LEMMA Along ==
    ASSUME NEW N \in Nat, NEW A, NEW f, f[0] \in A,
           \A n \in 1 .. N : f[n - 1] \in A => f[n] \in A
    PROVE  \A n \in 0 .. N : f[n] \in A
<1> DEFINE T == {n \in 0 .. N : f[n] \notin A}
<1> SUFFICES ASSUME T # {} PROVE FALSE
  OBVIOUS
<1>1. PICK n \in T : \A k \in T : n <= k
  <2>1. T \in SUBSET Nat
    OBVIOUS
  <2> HIDE DEF T
  <2> QED
    BY <2>1, Least
<1>2. n # 0
  OBVIOUS
<1>3. n - 1 \in 0 .. N /\ n - 1 \notin T /\ n \in 1 .. N
  BY <1>1, <1>2
<1> QED
  BY <1>3

(* A loop of N rounds over A: g[n] is what round n makes of the value      *)
(* before it.                                                              *)
Rounds(g, N, A) == g \in [1 .. N -> [A -> A]]

(* The values of a loop make up a function.                                *)
LEMMA Iteration ==
    ASSUME NEW N \in Nat, NEW A, NEW base \in A, NEW g, Rounds(g, N, A)
    PROVE  \E f \in [0 .. N -> A] :
              /\ f[0] = base
              /\ \A n \in 1 .. N : f[n] = g[n][f[n - 1]]
<1> DEFINE Unrolled(m, f) == /\ f \in [0 .. m -> A]
                             /\ f[0] = base
                             /\ \A n \in 1 .. m : f[n] = g[n][f[n - 1]]
           T == {m \in 0 .. N : ~ \E f : Unrolled(m, f)}
<1>0. g \in [1 .. N -> [A -> A]]
  BY DEF Rounds
<1>1. T = {}
  <2> SUFFICES ASSUME T # {} PROVE FALSE
    OBVIOUS
  <2>1. PICK m \in T : \A k \in T : m <= k
    <3>1. T \in SUBSET Nat
      OBVIOUS
    <3> HIDE DEF T
    <3> QED
      BY <3>1, Least
  <2>2. Unrolled(0, [n \in 0 .. 0 |-> base])
    OBVIOUS
  <2>3. m # 0
    BY <2>2
  <2>4. m - 1 \in 0 .. N /\ m - 1 \notin T /\ m \in 1 .. N
    <3>1. m \in 1 .. N
      BY <2>3
    <3> HIDE DEF T
    <3> QED
      BY <2>1, <3>1
  <2>5. PICK f : Unrolled(m - 1, f)
    BY <2>4
  <2> DEFINE h == [n \in 0 .. m |-> IF n = m THEN g[m][f[m - 1]] ELSE f[n]]
  <2>6. f[m - 1] \in A
    BY <2>4, <2>5
  <2>7. g[m][f[m - 1]] \in A
    BY <1>0, <2>4, <2>6
  <2>8. h \in [0 .. m -> A]
    BY <2>4, <2>5, <2>7
  <2>9. h[0] = base
    BY <2>4, <2>5
  <2>10. ASSUME NEW n \in 1 .. m PROVE h[n] = g[n][h[n - 1]]
    <3>1. CASE n = m
      <4>1. h[n - 1] = f[m - 1] /\ h[n] = g[m][f[m - 1]]
        BY <2>4, <3>1
      <4> QED
        BY <3>1, <4>1
    <3>2. CASE n # m
      <4>1. n \in 1 .. m - 1 /\ n \in 0 .. m /\ n - 1 \in 0 .. m /\ n - 1 # m
        BY <2>4, <3>2
      <4>2. h[n - 1] = f[n - 1] /\ h[n] = f[n]
        BY <4>1, <3>2
      <4> QED
        BY <2>5, <4>1, <4>2
    <3> QED
      BY <3>1, <3>2
  <2> HIDE DEF h
  <2>11. Unrolled(m, h)
    BY <2>8, <2>9, <2>10
  <2> QED
    BY <2>11
<1>2. N \notin T /\ N \in 0 .. N
  <2> HIDE DEF T
  <2> QED
    BY <1>1
<1>3. \E f : Unrolled(N, f)
  BY <1>2
<1> QED
  BY <1>3

-----------------------------------------------------------------------------
(* The registers. *)

(* The sizes are positive numbers, and address 0 is one.                   *)
LEMMA Sizes ==
    /\ WordValues \in Nat /\ WordValues > 4 /\ 0 \in Address
    /\ \A x \in Int : x % WordValues \in Address
<1>1. WordValues = Byte * Byte * Byte * Byte
  BY DEF WordValues, ValuesOf
<1>2. \A b \in Nat : b > 1 => b * b \in Nat /\ b * b > 3
  OBVIOUS
<1>3. \A b, c \in Nat : b > 3 /\ c > 1 => b * c \in Nat /\ b * c > 4
  OBVIOUS
<1>4. Byte \in Nat /\ Byte > 1
  BY SimMemoryAssumption
<1>5. Byte * Byte \in Nat /\ Byte * Byte > 3
  BY <1>2, <1>4
<1>6. Byte * Byte * Byte \in Nat /\ Byte * Byte * Byte > 4
  BY <1>3, <1>4, <1>5
<1>7. Byte * Byte * Byte * Byte \in Nat /\ Byte * Byte * Byte * Byte > 4
  BY <1>3, <1>4, <1>6
<1>8. WordValues \in Nat /\ WordValues > 4
  BY <1>1, <1>7
<1> QED
  BY <1>8 DEF Address

(* The status register after some bits are cleared and others set.         *)
LEMMA StatusSet ==
    ASSUME NEW msr \in SUBSET StatusBits, NEW D, NEW x \in SUBSET StatusBits,
           NEW y \in SUBSET StatusBits
    PROVE  (msr \ D) \cup x \cup y \in SUBSET StatusBits
OBVIOUS

(* exception() keeps the types of the registers.                           *)
LEMMA ToMachineTypes ==
    ASSUME NEW c \in Cpus, NEW cause \in Cause, NEW pc \in Address
    PROVE  ToMachine(c, cause, pc) \in Cpus
<1> DEFINE m == (c.msr \ {"MPIE", "MIE", "MPP0", "MPP1"})
                \cup If("MPIE", "MIE" \in c.msr) \cup MppBits(c.mpriv)
<1>1. m \in SUBSET StatusBits
  <2>1. c.msr \in SUBSET StatusBits
    BY DEF Cpus
  <2>2. If("MPIE", "MIE" \in c.msr) \subseteq {"MPIE"} /\ MppBits(c.mpriv) \subseteq {"MPP0", "MPP1"}
    BY DEF If, MppBits
  <2>3. {"MPIE", "MPP0", "MPP1"} \subseteq StatusBits
    BY DEF StatusBits
  <2>4. /\ If("MPIE", "MIE" \in c.msr) \in SUBSET StatusBits
        /\ MppBits(c.mpriv) \in SUBSET StatusBits
    BY <2>2, <2>3
  <2> QED
    BY <2>1, <2>4, StatusSet, Zenon
<1>2. ToMachine(c, cause, pc) =
        [c EXCEPT !.msr = m, !.mpriv = Machine, !.mepc = pc, !.mcause = cause, !.pc = c.mevec]
  BY DEF ToMachine
<1> HIDE DEF m
<1>3. c.mevec \in Address /\ Machine \in 0 .. Machine
  BY DEF Cpus, Machine
<1>4. [c EXCEPT !.msr = m, !.mpriv = Machine, !.mepc = pc, !.mcause = cause, !.pc = c.mevec] \in Cpus
  BY <1>1, <1>3 DEF Cpus
<1> QED
  BY <1>2, <1>4, Zenon

(* A trap into supervisor mode gives registers.                            *)
LEMMA ToSupervisorTypes ==
    ASSUME NEW c \in Cpus, NEW cause \in Cause, NEW pc \in Address, NEW badaddr \in Address
    PROVE  ToSupervisor(c, cause, pc, badaddr) \in Cpus
<1> DEFINE m == (c.msr \ {"SPIE", "SIE", "SPP"})
                \cup If("SPIE", "SIE" \in c.msr) \cup If("SPP", c.mpriv = Super)
<1>1. m \in SUBSET StatusBits
  <2>1. c.msr \in SUBSET StatusBits
    BY DEF Cpus
  <2>2. If("SPIE", "SIE" \in c.msr) \subseteq {"SPIE"} /\ If("SPP", c.mpriv = Super) \subseteq {"SPP"}
    BY DEF If
  <2>3. {"SPIE", "SPP"} \subseteq StatusBits
    BY DEF StatusBits
  <2>4. /\ If("SPIE", "SIE" \in c.msr) \in SUBSET StatusBits
        /\ If("SPP", c.mpriv = Super) \in SUBSET StatusBits
    BY <2>2, <2>3
  <2> QED
    BY <2>1, <2>4, StatusSet, Zenon
<1>2. ToSupervisor(c, cause, pc, badaddr) =
        [c EXCEPT !.msr = m, !.mpriv = Super, !.sepc = pc, !.scause = cause,
                  !.stval = badaddr, !.pc = c.sevec]
  BY DEF ToSupervisor
<1> HIDE DEF m
<1>3. c.sevec \in Address /\ Super \in 0 .. Machine
  BY DEF Cpus, Machine, Super
<1>4. [c EXCEPT !.msr = m, !.mpriv = Super, !.sepc = pc, !.scause = cause,
                !.stval = badaddr, !.pc = c.sevec] \in Cpus
  BY <1>1, <1>3 DEF Cpus
<1> QED
  BY <1>2, <1>4, Zenon

(* So does a trap into either mode.                                        *)
LEMMA ExceptionTypes ==
    ASSUME NEW c \in Cpus, NEW cause \in Cause, NEW pc \in Address, NEW badaddr \in Address
    PROVE  Exception(c, cause, pc, badaddr) \in Cpus
BY ToMachineTypes, ToSupervisorTypes, Zenon DEF Exception

(* mret and sret keep the types of the registers.                          *)
LEMMA ReturnTypes ==
    ASSUME NEW c \in Cpus
    PROVE  ReturnFromM(c) \in Cpus /\ ReturnFromS(c) \in Cpus
<1> DEFINE m == ((c.msr \ {"MIE", "MPP0", "MPP1"}) \cup If("MIE", "MPIE" \in c.msr)) \cup {"MPIE"}
           s == ((c.msr \ {"SIE", "SPP"}) \cup If("SIE", "SPIE" \in c.msr)) \cup {"SPIE"}
           priv == IF "SPP" \in c.msr THEN Super ELSE User
<1>1. c.msr \in SUBSET StatusBits
  BY DEF Cpus
<1>2. {"MPIE"} \in SUBSET StatusBits /\ {"SPIE"} \in SUBSET StatusBits
  BY DEF StatusBits
<1>3. /\ If("MIE", "MPIE" \in c.msr) \in SUBSET StatusBits
      /\ If("SIE", "SPIE" \in c.msr) \in SUBSET StatusBits
  BY DEF If, StatusBits
<1>4. m \in SUBSET StatusBits /\ s \in SUBSET StatusBits
  BY <1>1, <1>2, <1>3, StatusSet, Zenon
<1>5. Mpp(c.msr) \in 0 .. Machine /\ priv \in 0 .. Machine
  BY DEF Mpp, Machine, Super, User
<1>6. c.mepc \in Address /\ c.sepc \in Address
  BY DEF Cpus
<1>7. /\ ReturnFromM(c) = [c EXCEPT !.msr = m, !.mpriv = Mpp(c.msr), !.pc = c.mepc]
      /\ ReturnFromS(c) = [c EXCEPT !.msr = s, !.mpriv = priv, !.pc = c.sepc]
  BY DEF ReturnFromM, ReturnFromS
<1> HIDE DEF m, s, priv
<1>8. /\ [c EXCEPT !.msr = m, !.mpriv = Mpp(c.msr), !.pc = c.mepc] \in Cpus
      /\ [c EXCEPT !.msr = s, !.mpriv = priv, !.pc = c.sepc] \in Cpus
  BY <1>4, <1>5, <1>6 DEF Cpus
<1> QED
  BY <1>7, <1>8, Zenon

(* The timer of step(): the registers keep their types, and only the time  *)
(* and the pending interrupts change.                                      *)
LEMMA TickTypes ==
    ASSUME NEW c \in Cpus
    PROVE  /\ Tick(c) \in Cpus
           /\ \E now \in 0 .. TimeValues - 1, mip \in SUBSET IrqBits :
                 Tick(c) = [c EXCEPT !.mtime = now, !.mip = mip]
<1> DEFINE now == (c.mtime + 1) % TimeValues
           mip == IF now = c.mtimecmp THEN c.mip \cup {TimerBit(c)} ELSE c.mip
<1>1. now \in 0 .. TimeValues - 1
  BY IsaSimAssumption DEF Cpus
<1>2. mip \in SUBSET IrqBits
  BY DEF Cpus, TimerBit, IrqBits
<1>3. Tick(c) = [c EXCEPT !.mtime = now, !.mip = mip]
  BY DEF Tick
<1> HIDE DEF now, mip
<1>4. [c EXCEPT !.mtime = now, !.mip = mip] \in Cpus
  BY <1>1, <1>2 DEF Cpus
<1> QED
  BY <1>1, <1>2, <1>3, <1>4, Zenon

(* The next instruction keeps the types.                                   *)
LEMMA Next4Types ==
    ASSUME NEW c \in Cpus
    PROVE  Next4(c) \in Cpus
<1>1. (c.pc + 4) % WordValues \in Address
  BY Sizes DEF Cpus, Address
<1>2. \A x \in Address : [c EXCEPT !.pc = x] \in Cpus
  BY DEF Cpus
<1>3. Next4(c) = [c EXCEPT !.pc = (c.pc + 4) % WordValues]
  BY DEF Next4
<1> QED
  BY <1>1, <1>2, <1>3, Zenon

(* A write of a CSR keeps the types of the registers.                      *)
LEMMA WriteTimeTypes ==
    ASSUME NEW c \in Cpus, NEW data \in 0 .. TimeValues - 1
    PROVE  WriteTime(c, data) \in Cpus
<1> DEFINE mip == c.mip \ {TimerBit(c)}
<1>1. mip \in SUBSET IrqBits
  BY DEF Cpus
<1>2. WriteTime(c, data) = IF data = 0 THEN c ELSE [c EXCEPT !.mtimecmp = data, !.mip = mip]
  BY DEF WriteTime
<1> HIDE DEF mip
<1>3. [c EXCEPT !.mtimecmp = data, !.mip = mip] \in Cpus
  BY <1>1 DEF Cpus
<1> QED
  BY <1>2, <1>3

(* The registers that are sets of bits.                                    *)
BitsOf == [msr |-> StatusBits, mie |-> IrqBits, mip |-> IrqBits, mideleg |-> IrqBits,
           medeleg |-> Causes]

(* A register that is a set of bits is one of its type, and may be set to  *)
(* any other.                                                              *)
LEMMA BitField ==
    ASSUME NEW c \in Cpus, NEW f \in {"msr", "mie", "mip", "mideleg", "medeleg"}
    PROVE  /\ c[f] \in SUBSET BitsOf[f]
           /\ \A x \in SUBSET BitsOf[f] : [c EXCEPT ![f] = x] \in Cpus
<1>1. CASE f = "msr"
  BY <1>1 DEF Cpus, BitsOf
<1>2. CASE f = "mie"
  BY <1>2 DEF Cpus, BitsOf
<1>3. CASE f = "mip"
  BY <1>3 DEF Cpus, BitsOf
<1>4. CASE f = "mideleg"
  BY <1>4 DEF Cpus, BitsOf
<1>5. CASE f = "medeleg"
  BY <1>5 DEF Cpus, BitsOf
<1> QED
  BY <1>1, <1>2, <1>3, <1>4, <1>5

(* A register that is an address may be set to any address.                *)
LEMMA AddressField ==
    ASSUME NEW c \in Cpus, NEW f \in {"mepc", "sepc", "mevec", "sevec", "satp"}, NEW x \in Address
    PROVE  [c EXCEPT ![f] = x] \in Cpus
<1>1. CASE f = "mepc"
  BY <1>1 DEF Cpus
<1>2. CASE f = "sepc"
  BY <1>2 DEF Cpus
<1>3. CASE f = "mevec"
  BY <1>3 DEF Cpus
<1>4. CASE f = "sevec"
  BY <1>4 DEF Cpus
<1>5. CASE f = "satp"
  BY <1>5 DEF Cpus
<1> QED
  BY <1>1, <1>2, <1>3, <1>4, <1>5

(* The bits a write leaves in a register: masked, and old ones.            *)
NewBits(old, op, data) ==
    CASE op = "rw" -> data [] op = "rs" -> old \cup data [] op = "rc" -> old \ data

(* The field and the mask of a CSR have the type of the register it is a   *)
(* view of.                                                                *)
LEMMA CsrFields ==
    /\ \A csr \in AddressCsrs : CsrField[csr] \in {"mepc", "sepc", "mevec", "sevec", "satp"}
    /\ \A csr \in StatusCsrs : CsrField[csr] = "msr" /\ CsrMask(csr) \in SUBSET StatusBits
    /\ \A csr \in BitCsrs : /\ CsrField[csr] \in {"mie", "mip", "mideleg", "medeleg"}
                            /\ CsrMask(csr) \in SUBSET BitsOf[CsrField[csr]]
    /\ "mtime" \notin StatusCsrs \cup BitCsrs \cup AddressCsrs
    /\ (StatusCsrs \cup BitCsrs) \cap AddressCsrs = {}
<1>1. \A csr \in AddressCsrs : CsrField[csr] \in {"mepc", "sepc", "mevec", "sevec", "satp"}
  BY DEF AddressCsrs, CsrField
<1>2. \A csr \in StatusCsrs : CsrField[csr] = "msr" /\ CsrMask(csr) \in SUBSET StatusBits
  BY DEF StatusCsrs, CsrField, CsrMask, StatusBits
<1>3. ASSUME NEW csr \in BitCsrs
      PROVE  /\ CsrField[csr] \in {"mie", "mip", "mideleg", "medeleg"}
             /\ CsrMask(csr) \in SUBSET BitsOf[CsrField[csr]]
  <2>1. CASE csr \in {"mie", "mip"}
    BY <2>1 DEF CsrField, CsrMask, BitsOf
  <2>2. CASE csr \in {"sie", "sip"}
    BY <2>2 DEF CsrField, CsrMask, BitsOf, IrqBits
  <2>3. CASE csr = "mideleg"
    BY <2>3 DEF CsrField, CsrMask, BitsOf
  <2>4. CASE csr = "medeleg"
    BY <2>4 DEF CsrField, CsrMask, BitsOf
  <2> QED
    BY <2>1, <2>2, <2>3, <2>4 DEF BitCsrs
<1>4. /\ "mtime" \notin StatusCsrs \cup BitCsrs \cup AddressCsrs
      /\ (StatusCsrs \cup BitCsrs) \cap AddressCsrs = {}
  BY DEF StatusCsrs, BitCsrs, AddressCsrs
<1> QED
  BY <1>1, <1>2, <1>3, <1>4

(* A write of a CSR by its kind: the timer, an address, or some bits.      *)
LEMMA CsrWrite ==
    ASSUME NEW c \in Cpus, NEW i, IsCsrInstr(i)
    PROVE  \/ /\ i.csr = "mtime"
              /\ \/ AccessCsr(c, i) = c
                 \/ i.data \in 0 .. TimeValues - 1 /\ AccessCsr(c, i) = WriteTime(c, i.data)
           \/ /\ i.csr \in AddressCsrs /\ i.data \in Address
              /\ AccessCsr(c, i) = [c EXCEPT ![CsrField[i.csr]] = i.data]
           \/ /\ i.csr \in StatusCsrs \cup BitCsrs
              /\ \E data \in SUBSET CsrMask(i.csr) :
                    AccessCsr(c, i) = [c EXCEPT ![CsrField[i.csr]] =
                                          NewBits(c[CsrField[i.csr]], i.op, data)]
<1>1. CASE i.csr = "mtime"
  BY <1>1, CsrFields DEF IsCsrInstr, AccessCsr
<1>2. CASE i.csr \in AddressCsrs
  BY <1>2, CsrFields DEF IsCsrInstr, AccessCsr
<1>3. CASE i.csr \in StatusCsrs \cup BitCsrs
  <2>1. i.csr # "mtime" /\ i.csr \notin AddressCsrs
    BY <1>3, CsrFields
  <2> DEFINE data == i.data \cap CsrMask(i.csr)
  <2>2. AccessCsr(c, i) =
          [c EXCEPT ![CsrField[i.csr]] = NewBits(c[CsrField[i.csr]], i.op, data)]
    BY <2>1 DEF AccessCsr, NewBits
  <2>3. data \in SUBSET CsrMask(i.csr)
    OBVIOUS
  <2> QED
    BY <1>3, <2>2, <2>3
<1> QED
  BY <1>1, <1>2, <1>3 DEF IsCsrInstr

(* A masked write leaves bits of the register.                             *)
LEMMA NewBitsTypes ==
    ASSUME NEW S, NEW old \in SUBSET S, NEW data \in SUBSET S, NEW op \in {"rw", "rs", "rc"}
    PROVE  NewBits(old, op, data) \in SUBSET S
BY DEF NewBits

(* A CSR instruction leaves registers.                                     *)
LEMMA AccessTypes ==
    ASSUME NEW c \in Cpus, NEW i, IsCsrInstr(i)
    PROVE  AccessCsr(c, i) \in Cpus
<1>1. CASE i.csr = "mtime"
  <2>1. \/ AccessCsr(c, i) = c
        \/ i.data \in 0 .. TimeValues - 1 /\ AccessCsr(c, i) = WriteTime(c, i.data)
    BY <1>1, CsrWrite, CsrFields
  <2> QED
    <3>1. CASE AccessCsr(c, i) = c
      BY <3>1
    <3>2. CASE i.data \in 0 .. TimeValues - 1 /\ AccessCsr(c, i) = WriteTime(c, i.data)
      <4>1. WriteTime(c, i.data) \in Cpus
        BY <3>2, WriteTimeTypes
      <4> QED
        BY <3>2, <4>1
    <3> QED
      BY <2>1, <3>1, <3>2
<1>2. CASE i.csr \in AddressCsrs
  <2>1. AccessCsr(c, i) = [c EXCEPT ![CsrField[i.csr]] = i.data] /\ i.data \in Address
    BY <1>2, CsrWrite, CsrFields
  <2>2. CsrField[i.csr] \in {"mepc", "sepc", "mevec", "sevec", "satp"}
    BY <1>2, CsrFields
  <2>3. [c EXCEPT ![CsrField[i.csr]] = i.data] \in Cpus
    BY <2>1, <2>2, AddressField, Zenon
  <2> QED
    BY <2>1, <2>3, Zenon
<1>3. CASE i.csr \in StatusCsrs \cup BitCsrs
  <2> DEFINE f == CsrField[i.csr]
  <2>1. PICK data \in SUBSET CsrMask(i.csr) :
               AccessCsr(c, i) = [c EXCEPT ![f] = NewBits(c[f], i.op, data)]
    BY <1>3, CsrWrite, CsrFields
  <2>2. f \in {"msr", "mie", "mip", "mideleg", "medeleg"} /\ data \in SUBSET BitsOf[f]
    <3>1. CASE i.csr \in StatusCsrs
      <4>1. f = "msr" /\ CsrMask(i.csr) \in SUBSET StatusBits
        BY <3>1, CsrFields
      <4>2. BitsOf["msr"] = StatusBits
        BY DEF BitsOf
      <4> QED
        BY <4>1, <4>2
    <3>2. CASE i.csr \in BitCsrs
      BY <3>2, CsrFields
    <3> QED
      BY <1>3, <3>1, <3>2
  <2>3. i.op \in {"rw", "rs", "rc"}
    BY DEF IsCsrInstr
  <2> HIDE DEF f
  <2>4. c[f] \in SUBSET BitsOf[f]
    BY <2>2, BitField
  <2>5. NewBits(c[f], i.op, data) \in SUBSET BitsOf[f]
    BY <2>2, <2>3, <2>4 DEF NewBits
  <2>6. [c EXCEPT ![f] = NewBits(c[f], i.op, data)] \in Cpus
    BY <2>2, <2>5, BitField
  <2> QED
    BY <2>1, <2>6
<1> QED
  BY <1>1, <1>2, <1>3 DEF IsCsrInstr

(* The boot code leaves the registers with their types.                    *)
LEMMA BootedTypes ==
    ASSUME NEW p \in Programs
    PROVE  Booted(p) \in Cpus
<1> DEFINE N == Len(p.boot)
           g == [n \in 1 .. N |-> [c \in Cpus |-> AccessCsr(c, p.boot[n])]]
           Unroll(at) == [n \in 0 .. N |-> IF n = 0 THEN Reset(p.start)
                                           ELSE AccessCsr(at[n - 1], p.boot[n])]
           at == CHOOSE f : f = Unroll(f)
<1>1. N \in Nat /\ p.start \in Address /\ \A n \in 1 .. N : IsCsrInstr(p.boot[n])
  BY IsaSimAssumption DEF IsProgram
<1>2. Reset(p.start) \in Cpus
  <2>1. <<"trap", 0>> \in Cause
    BY DEF Cause
  <2>2. /\ 0 \in Address /\ Machine \in 0 .. Machine /\ 0 \in 0 .. TimeValues - 1
        /\ {} \in SUBSET StatusBits /\ {} \in SUBSET IrqBits /\ {} \in SUBSET Causes
    BY Sizes, IsaSimAssumption DEF Machine
  <2> QED
    BY <1>1, <2>1, <2>2 DEF Reset, Cpus
<1>3. \A c \in Cpus, n \in 1 .. N : AccessCsr(c, p.boot[n]) \in Cpus
  BY <1>1, AccessTypes
<1>4. Rounds(g, N, Cpus)
  BY <1>3 DEF Rounds
<1>5. \A c \in Cpus, n \in 1 .. N : g[n][c] = AccessCsr(c, p.boot[n])
  OBVIOUS
<1> HIDE DEF N, g
<1>6. PICK f \in [0 .. N -> Cpus] : /\ f[0] = Reset(p.start)
                                    /\ \A n \in 1 .. N : f[n] = g[n][f[n - 1]]
  <2> DEFINE base == Reset(p.start)
  <2>1. base \in Cpus
    BY <1>2
  <2> HIDE DEF base, Unroll, at
  <2>2. \E f \in [0 .. N -> Cpus] : /\ f[0] = base
                                   /\ \A n \in 1 .. N : f[n] = g[n][f[n - 1]]
    BY <1>1, <1>4, <2>1, Iteration
  <2> QED
    BY <2>2 DEF base
<1>7. f = Unroll(f)
  <2>1. ASSUME NEW n \in 0 .. N
        PROVE  f[n] = IF n = 0 THEN Reset(p.start) ELSE AccessCsr(f[n - 1], p.boot[n])
    <3>1. CASE n = 0
      BY <1>6, <3>1
    <3>2. CASE n # 0
      <4>1. n \in 1 .. N /\ n - 1 \in 0 .. N
        BY <1>1, <3>2
      <4>2. f[n - 1] \in Cpus
        BY <4>1
      <4>3. f[n] = g[n][f[n - 1]]
        BY <1>6, <4>1
      <4> QED
        BY <1>5, <3>2, <4>1, <4>2, <4>3
    <3> QED
      BY <3>1, <3>2
  <2> QED
    BY <2>1
<1>8. at = Unroll(at)
  BY <1>7
<1> HIDE DEF at
<1>9. at[0] \in Cpus
  BY <1>1, <1>2, <1>8
<1>10. \A n \in 1 .. N : at[n - 1] \in Cpus => at[n] \in Cpus
  BY <1>1, <1>3, <1>8
<1>11. at[N] \in Cpus
  <2>1. \A n \in 0 .. N : at[n] \in Cpus
    BY <1>1, <1>9, <1>10, Along, Zenon
  <2> QED
    BY <1>1, <2>1
<1>12. Booted(p) = at[N]
  BY DEF Booted, at, N
<1> QED
  BY <1>11, <1>12

-----------------------------------------------------------------------------
(* Memory. *)

(* Bytes have values, and a quotient is a number.                          *)
LEMMA Quotients ==
    /\ \A n \in 0 .. 4 : ValuesOf(n) \in Nat /\ ValuesOf(n) > 0
    /\ \A a \in Nat, b \in Nat : b > 0 => /\ a \div b \in Nat /\ a % b \in Nat /\ a % b < b
                                          /\ a = (a \div b) * b + (a % b)
                                          /\ (a \div b) * b \in Nat
<1>1. \A a, b \in Nat : b > 0 => /\ a \div b \in Nat /\ a % b \in Nat /\ a % b < b
                                 /\ a = (a \div b) * b + (a % b)
  OBVIOUS
<1>2. \A a, b \in Nat : a * b \in Nat /\ (a > 0 /\ b > 0 => a * b > 0)
  OBVIOUS
<1>3. Byte \in Nat /\ Byte > 0
  BY SimMemoryAssumption
<1>4. /\ Byte * Byte \in Nat /\ Byte * Byte > 0
      /\ Byte * Byte * Byte \in Nat /\ Byte * Byte * Byte > 0
      /\ Byte * Byte * Byte * Byte \in Nat /\ Byte * Byte * Byte * Byte > 0
  BY <1>2, <1>3
<1>5. \A n \in 0 .. 4 : ValuesOf(n) \in Nat /\ ValuesOf(n) > 0
  <2> HIDE DEF ValuesOf
  <2>1. /\ ValuesOf(0) = 1 /\ ValuesOf(1) = Byte /\ ValuesOf(2) = Byte * Byte
        /\ ValuesOf(3) = Byte * Byte * Byte /\ ValuesOf(4) = Byte * Byte * Byte * Byte
    BY DEF ValuesOf
  <2>2. \A n \in 0 .. 4 : n = 0 \/ n = 1 \/ n = 2 \/ n = 3 \/ n = 4
    OBVIOUS
  <2> QED
    BY <1>3, <1>4, <2>1, <2>2
<1> QED
  BY <1>1, <1>2, <1>5

(* Bytes follow one another.                                               *)
LEMMA Powers ==
    \A j, w \in 0 .. 4 : j + w <= 4 => ValuesOf(j + w) = ValuesOf(j) * ValuesOf(w)
<1> DEFINE b == Byte
<1>1. b \in Nat
  BY SimMemoryAssumption
<1>2. /\ ValuesOf(0) = 1 /\ ValuesOf(1) = b /\ ValuesOf(2) = b * b
      /\ ValuesOf(3) = b * b * b /\ ValuesOf(4) = b * b * b * b
  BY DEF ValuesOf
<1> HIDE DEF b
<1>3. /\ b * b * b = b * (b * b) /\ b * b * b * b = b * (b * b * b)
      /\ b * b * b * b = (b * b) * (b * b)
      /\ \A x \in {1, b, b * b, b * b * b, b * b * b * b} : x * 1 = x /\ 1 * x = x
  BY <1>1
<1>4. \A j, w \in 0 .. 4 : j + w <= 4 =>
         \/ j = 0 /\ w \in {0, 1, 2, 3, 4}
         \/ j = 1 /\ w \in {0, 1, 2, 3}
         \/ j = 2 /\ w \in {0, 1, 2}
         \/ j = 3 /\ w \in {0, 1}
         \/ j = 4 /\ w = 0
  OBVIOUS
<1>5. ASSUME NEW j \in 0 .. 4, NEW w \in 0 .. 4, j + w <= 4
      PROVE  ValuesOf(j + w) = ValuesOf(j) * ValuesOf(w)
  <2>1. CASE j = 0 /\ w \in {0, 1, 2, 3, 4}
    BY <1>2, <1>3, <2>1
  <2>2. CASE j = 1 /\ w \in {0, 1, 2, 3}
    BY <1>2, <1>3, <2>2
  <2>3. CASE j = 2 /\ w \in {0, 1, 2}
    BY <1>2, <1>3, <2>3
  <2>4. CASE j = 3 /\ w \in {0, 1}
    BY <1>2, <1>3, <2>4
  <2>5. CASE j = 4 /\ w = 0
    BY <1>2, <1>3, <2>5
  <2> QED
    BY <1>4, <1>5, <2>1, <2>2, <2>3, <2>4, <2>5
<1> QED
  BY <1>5

(* A word is the lane stored to, the lanes below it and those above it.    *)
LEMMA Lanes ==
    ASSUME NEW a \in Nat, NEW width \in {1, 2, 4}, a % width = 0
    PROVE  /\ a % 4 \in 0 .. 3 /\ (a % 4) + width <= 4
           /\ \E rest \in Nat \ {0} : WordValues = (ValuesOf(a % 4) * ValuesOf(width)) * rest
<1>1. PICK k \in 0 .. 3 : k = a % 4
  OBVIOUS
<1>2. k + width <= 4
  <2>1. CASE width = 1
    BY <2>1
  <2>2. CASE width = 2
    BY <1>1, <2>2
  <2>3. CASE width = 4
    BY <1>1, <2>3
  <2> QED
    BY <2>1, <2>2, <2>3
<1>3. PICK n \in 0 .. 4 : n = k + width
  BY <1>2
<1>4. PICK m \in 0 .. 4 : n + m = 4
  <2>1. 4 - n \in 0 .. 4 /\ n + (4 - n) = 4
    OBVIOUS
  <2> QED
    BY <2>1
<1>5. width \in 0 .. 4 /\ k \in 0 .. 4
  OBVIOUS
<1>6. ValuesOf(n) = ValuesOf(k) * ValuesOf(width)
  BY <1>2, <1>3, <1>5, Powers
<1>7. ValuesOf(4) = ValuesOf(n) * ValuesOf(m)
  BY <1>4, Powers
<1>8. ValuesOf(m) \in Nat \ {0}
  BY Quotients
<1> QED
  BY <1>1, <1>2, <1>6, <1>7, <1>8 DEF WordValues

(* A lane of l values between what is above and below it: d in place of    *)
(* what old has there.                                                     *)
LEMMA Replaced ==
    ASSUME NEW l \in Nat \ {0}, NEW v \in Nat \ {0}, NEW rest \in Nat \ {0},
           NEW old \in Nat, old < (l * v) * rest, NEW d \in Nat, d < v
    PROVE  /\ ((old \div (l * v)) * (l * v)) + (d * l) + (old % l) \in Nat
           /\ ((old \div (l * v)) * (l * v)) + (d * l) + (old % l) < (l * v) * rest
<1>1. PICK n \in Nat : n = l * v /\ n > 0
  OBVIOUS
<1>2. PICK q \in Nat : q = old \div n
  BY <1>1
<1>3. q * n <= old
  BY <1>1, <1>2
<1>4. q < rest
  <2>1. \A x, y, z \in Nat : x >= y => x * z >= y * z
    OBVIOUS
  <2> QED
    BY <1>1, <1>3, <2>1
<1>5. q * n \in Nat /\ q * n <= n * rest - n
  <2>1. \A x, y, z \in Nat : x < y => x * z \in Nat /\ x * z <= z * y - z
    OBVIOUS
  <2> QED
    BY <1>1, <1>4, <2>1
<1>6. d * l \in Nat /\ d * l <= n - l
  <2>1. \A x, y, z \in Nat : x < y => x * z \in Nat /\ x * z <= z * y - z
    OBVIOUS
  <2> QED
    BY <1>1, <2>1
<1>7. old % l \in Nat /\ old % l <= l - 1
  OBVIOUS
<1>8. n * rest \in Nat
  BY <1>1
<1>9. \A x, y, z, t, u \in Nat : /\ x <= t - n /\ y <= n - u /\ z <= u - 1
                                 => x + y + z \in Nat /\ x + y + z < t
  BY <1>1
<1> QED
  BY <1>1, <1>2, <1>5, <1>6, <1>7, <1>8, <1>9

(* What a region is made of.                                               *)
LEMMA RegionParts ==
    ASSUME NEW r \in Region
    PROVE  /\ r.base \in Nat /\ r.size \in Nat /\ r.base + r.size < WordValues
           /\ r.words \in [0 .. (r.size + 3) \div 4 - 1 -> Address]
           /\ \A w \in [0 .. (r.size + 3) \div 4 - 1 -> Address] : [r EXCEPT !.words = w] \in Region
<1>1. r.base \in Nat /\ r.size \in Nat /\ r.base + r.size < WordValues
  BY DEF Region, Address
<1>2. PICK k \in Nat : r.words \in [0 .. k - 1 -> Address]
  BY DEF Region
<1>3. DOMAIN r.words = 0 .. (r.size + 3) \div 4 - 1
  BY DEF Region
<1>4. r.words \in [0 .. (r.size + 3) \div 4 - 1 -> Address]
  BY <1>2, <1>3
<1>5. ASSUME NEW w \in [0 .. (r.size + 3) \div 4 - 1 -> Address]
      PROVE  [r EXCEPT !.words = w] \in Region
  <2>1. PICK m \in Nat : m = (r.size + 3) \div 4
    BY <1>1
  <2>2. w \in UNION {[0 .. n - 1 -> Address] : n \in Nat}
    BY <2>1
  <2>3. DOMAIN w = 0 .. (r.size + 3) \div 4 - 1
    OBVIOUS
  <2>4. r \in [base : Address, size : Address, words : UNION {[0 .. n - 1 -> Address] : n \in Nat}]
    BY DEF Region
  <2>5. [r EXCEPT !.words = w] \in
          [base : Address, size : Address, words : UNION {[0 .. n - 1 -> Address] : n \in Nat}]
    BY <2>2, <2>4
  <2>6. /\ [r EXCEPT !.words = w].base = r.base /\ [r EXCEPT !.words = w].size = r.size
        /\ [r EXCEPT !.words = w].words = w
    BY <2>4
  <2> QED
    BY <1>1, <2>3, <2>5, <2>6 DEF Region
<1> QED
  BY <1>1, <1>4, <1>5

(* The region of an address is the first one that covers it.               *)
LEMMA RegionFound ==
    ASSUME NEW mem \in Memories, NEW a
    PROVE  /\ Valid(mem, a) => /\ RegionOf(mem, a) \in 1 .. Len(mem)
                               /\ Covers(mem[RegionOf(mem, a)], a)
                               /\ \A j \in 1 .. RegionOf(mem, a) - 1 : ~Covers(mem[j], a)
           /\ ~Valid(mem, a) => RegionOf(mem, a) = 0
<1> DEFINE I == {j \in 1 .. Len(mem) : Covers(mem[j], a)}
           min == CHOOSE x \in I : \A y \in I : x <= y
<1>1. RegionOf(mem, a) = IF I # {} THEN min ELSE 0
  BY DEF RegionOf, SelectInSeq, Min
<1>2. Valid(mem, a) <=> I # {}
  BY DEF Valid
<1>3. Len(mem) \in Nat
  BY DEF Memories
<1>4. ASSUME I # {}
      PROVE  min \in I /\ \A y \in I : min <= y
  <2>1. I \in SUBSET Nat
    BY <1>3
  <2> HIDE DEF I
  <2>2. \E x \in I : \A y \in I : x <= y
    BY <1>4, <2>1, Least
  <2> QED
    BY <2>2
<1>5. ASSUME I # {}
      PROVE  \A j \in 1 .. min - 1 : ~Covers(mem[j], a)
  <2>1. min \in I /\ \A y \in I : min <= y
    BY <1>4, <1>5
  <2> HIDE DEF min
  <2> QED
    BY <1>3, <2>1
<1>6. min \in I => min \in 1 .. Len(mem) /\ Covers(mem[min], a)
  <2> HIDE DEF min
  <2> QED
    OBVIOUS
<1> HIDE DEF I, min
<1> QED
  BY <1>1, <1>2, <1>4, <1>5, <1>6

(* A store into a region leaves a region.                                  *)
LEMMA StoreToTypes ==
    ASSUME NEW r \in Region, NEW a \in 0 .. r.size - 1, NEW data \in Nat, NEW width \in {1, 2, 4},
           Aligned(a, width)
    PROVE  StoreTo(r, a, data, width) \in Region
<1> DEFINE lane == ValuesOf(a % 4)
           v    == ValuesOf(width)
           i    == a \div 4
           old  == r.words[i]
           new  == ((old \div (lane * v)) * (lane * v)) + ((data % v) * lane) + (old % lane)
           D    == 0 .. (r.size + 3) \div 4 - 1
<1>1. r.size \in Nat /\ r.words \in [D -> Address]
  BY RegionParts
<1>2. i \in D
  BY <1>1
<1>3. old \in Nat /\ old < WordValues
  <2>1. old \in Address
    BY <1>1, <1>2
  <2> QED
    BY <2>1, Sizes DEF Address
<1>4. lane \in Nat \ {0} /\ v \in Nat \ {0}
  <2>1. a % 4 \in 0 .. 4 /\ width \in 0 .. 4
    BY <1>1
  <2> QED
    BY <2>1, Quotients
<1>5. PICK rest \in Nat \ {0} : WordValues = (lane * v) * rest
  <2>1. a \in Nat /\ a % width = 0
    BY <1>1 DEF Aligned
  <2> QED
    BY <2>1, Lanes, Zenon
<1>6. PICK d \in Nat : d = data % v /\ d < v
  BY <1>4, Quotients
<1>7. StoreTo(r, a, data, width) = [r EXCEPT !.words = [r.words EXCEPT ![i] = new]]
  BY <1>1 DEF StoreTo, LoadWord, Region
<1> HIDE DEF lane, v, old
<1>8. new \in Nat /\ new < WordValues
  BY <1>3, <1>4, <1>5, <1>6, Replaced
<1>9. new \in Address
  BY <1>8, Sizes DEF Address
<1> HIDE DEF new, D, i
<1>10. [r.words EXCEPT ![i] = new] \in [D -> Address]
  BY <1>1, <1>2, <1>9
<1> QED
  BY <1>7, <1>10, RegionParts DEF D

(* A store keeps the type of the memory, wherever it goes.                 *)
LEMMA WriteTypes ==
    ASSUME NEW mem \in Memories, NEW a \in Int, NEW data \in Nat, NEW width \in {1, 2, 4},
           Valid(mem, a) => AlignedIn(mem, a, width)
    PROVE  Write(mem, a, data, width) \in Memories
<1> DEFINE j == RegionOf(mem, a)
           r == StoreTo(mem[j], a - mem[j].base, data, width)
<1>1. Write(mem, a, data, width) = [mem EXCEPT ![j] = r]
  BY DEF Write
<1>2. mem \in Seq(Region) /\ Len(mem) \in Nat /\ Len(mem) <= MaxRegions
  BY DEF Memories
<1>3. CASE Valid(mem, a)
  <2>1. j \in 1 .. Len(mem) /\ Covers(mem[j], a)
    BY <1>3, RegionFound
  <2>2. mem[j] \in Region
    BY <1>2, <2>1
  <2>3. a - mem[j].base \in 0 .. mem[j].size - 1
    BY <2>1, <2>2, RegionParts DEF Covers
  <2>4. Aligned(a - mem[j].base, width)
    BY <1>3 DEF AlignedIn
  <2>5. r \in Region
    BY <2>2, <2>3, <2>4, StoreToTypes
  <2> HIDE DEF j, r
  <2>6. [mem EXCEPT ![j] = r] \in Seq(Region) /\ Len([mem EXCEPT ![j] = r]) = Len(mem)
    BY <1>2, <2>1, <2>5
  <2> QED
    BY <1>1, <1>2, <2>6 DEF Memories
<1>4. CASE ~Valid(mem, a)
  <2>1. j = 0
    BY <1>4, RegionFound
  <2> HIDE DEF j, r
  <2>2. [mem EXCEPT ![j] = r] = mem
    BY <1>2, <2>1
  <2> QED
    BY <1>1, <2>2
<1> QED
  BY <1>3, <1>4

(* A load returns a word value when it is as wide as a word, and a number. *)
LEMMA ReadTypes ==
    ASSUME NEW mem \in Memories, NEW a \in Int, Valid(mem, a)
    PROVE  Read(mem, a, 4, FALSE) \in Address
<1> DEFINE j == RegionOf(mem, a)
           r == mem[j]
           w == r.words[(a - r.base) \div 4]
           lane == ValuesOf((a - r.base) % 4)
<1>1. Read(mem, a, 4, FALSE) = (w \div lane) % WordValues
  BY DEF Read, LoadFrom, LoadWord, WordValues
<1>2. mem \in Seq(Region) /\ Len(mem) \in Nat
  BY DEF Memories
<1>3. r \in Region /\ Covers(r, a)
  BY <1>2, RegionFound
<1> HIDE DEF r
<1>4. r.base \in Nat /\ r.size \in Nat /\ a - r.base \in Nat /\ a - r.base < r.size
  BY <1>3, RegionParts DEF Covers
<1>5. (a - r.base) \div 4 \in 0 .. (r.size + 3) \div 4 - 1
  BY <1>4
<1>6. w \in Address
  BY <1>3, <1>5, RegionParts
<1>7. w \in Nat
  BY <1>6, Sizes DEF Address
<1>8. lane \in Nat /\ lane > 0
  <2>1. (a - r.base) % 4 \in 0 .. 4
    BY <1>4
  <2> QED
    BY <2>1, Quotients
<1> HIDE DEF w, lane
<1>9. PICK q \in Nat : q = w \div lane
  BY <1>7, <1>8, Quotients
<1>10. q % WordValues \in Address
  BY Sizes
<1> QED
  BY <1>1, <1>9, <1>10

(* attach_memory appends an empty region, when there is room.              *)
LEMMA CreateMemoryTypes ==
    ASSUME NEW mem \in Memories, NEW base \in Address, NEW size \in Nat, base + size < WordValues
    PROVE  CreateMemory(mem, base, size) \in Memories
<1> DEFINE words == [i \in 0 .. (size + 3) \div 4 - 1 |-> 0]
           r == [base |-> base, size |-> size, words |-> words]
<1>1. mem \in Seq(Region) /\ Len(mem) \in Nat /\ Len(mem) <= MaxRegions
  BY DEF Memories
<1>2. base \in Nat /\ size \in Address /\ WordValues \in Nat /\ MaxRegions \in Nat
  BY Sizes, SimMemoryAssumption DEF Address
<1>3. words \in UNION {[0 .. n - 1 -> Address] : n \in Nat}
  <2>1. PICK n \in Nat : n = (size + 3) \div 4
    OBVIOUS
  <2>2. words \in [0 .. n - 1 -> Address]
    BY <2>1, Sizes
  <2> QED
    BY <2>2
<1>4. DOMAIN words = 0 .. (size + 3) \div 4 - 1
  OBVIOUS
<1>5. /\ r \in [base : Address, size : Address, words : UNION {[0 .. n - 1 -> Address] : n \in Nat}]
      /\ r.base = base /\ r.size = size /\ r.words = words
  <2> HIDE DEF words
  <2> QED
    BY <1>2, <1>3
<1> HIDE DEF r, words
<1>6. r \in Region
  BY <1>4, <1>5 DEF Region
<1>7. Append(mem, r) \in Seq(Region) /\ Len(Append(mem, r)) = Len(mem) + 1
  BY <1>1, <1>6
<1>8. CreateMemory(mem, base, size) = IF Len(mem) < MaxRegions THEN Append(mem, r) ELSE mem
  BY DEF CreateMemory, r, words
<1> QED
  BY <1>1, <1>2, <1>7, <1>8 DEF Memories

(* elf_load: one section, and all of them.                                 *)
IsSection(s) ==
    /\ s.base \in Address /\ s.bytes \in Seq(0 .. Byte - 1)
    /\ s.base + Len(s.bytes) < WordValues

WritesKeep(M) == \A m \in M, a \in Int, b \in Nat : Write(m, a, b, 1) \in M
SectionsKeep(M, sections) == \A m \in M, n \in 1 .. Len(sections) : LoadSection(m, sections[n]) \in M

(* A set of memories that byte writes do not leave has the memory with a   *)
(* section loaded.                                                         *)
LEMMA LoadSectionIn ==
    ASSUME NEW M, NEW mem, NEW s, IsSection(s),
           CreateMemory(mem, s.base, Len(s.bytes)) \in M, WritesKeep(M)
    PROVE  LoadSection(mem, s) \in M
<1> DEFINE N == Len(s.bytes)
           base == CreateMemory(mem, s.base, N)
           Round(m, n) == Write(m, s.base + n - 1, s.bytes[n], 1)
           g == [n \in 1 .. N |-> [m \in M |-> Round(m, n)]]
           Unroll(at) == [n \in 0 .. N |-> IF n = 0 THEN base ELSE Round(at[n - 1], n)]
           at == CHOOSE f : f = Unroll(f)
<1>1. /\ N \in Nat /\ s.base \in Nat /\ s.base \in Address /\ s.base + N < WordValues
      /\ \A n \in 1 .. N : s.bytes[n] \in Nat
  <2>1. s.bytes \in Seq(0 .. Byte - 1) /\ s.base \in Address /\ s.base + Len(s.bytes) < WordValues
    BY DEF IsSection
  <2>2. \A n \in 1 .. Len(s.bytes) : s.bytes[n] \in Nat
    BY <2>1, SimMemoryAssumption
  <2> QED
    BY <2>1, <2>2 DEF Address
<1>2. base \in M
  OBVIOUS
<1>3. ASSUME NEW m \in M, NEW n \in 1 .. N
      PROVE  Round(m, n) \in M
  <2>1. PICK a \in Int : a = s.base + n - 1
    BY <1>1
  <2>2. PICK b \in Nat : b = s.bytes[n]
    BY <1>1
  <2>3. Write(m, a, b, 1) \in M
    BY DEF WritesKeep
  <2> QED
    BY <2>1, <2>2, <2>3
<1> HIDE DEF base, Round
<1>4. Rounds(g, N, M)
  BY <1>3 DEF Rounds
<1>5. \A m \in M, n \in 1 .. N : g[n][m] = Round(m, n)
  OBVIOUS
<1> HIDE DEF N, g
<1>6. PICK f \in [0 .. N -> M] : /\ f[0] = base
                                        /\ \A n \in 1 .. N : f[n] = g[n][f[n - 1]]
  <2> HIDE DEF Unroll, at
  <2>1. N \in Nat
    BY <1>1
  <2> QED
    BY <1>2, <1>4, <2>1, Iteration, SMTT(30)
<1>7. f = Unroll(f)
  <2>1. ASSUME NEW n \in 0 .. N
        PROVE  f[n] = IF n = 0 THEN base ELSE Round(f[n - 1], n)
    <3>1. CASE n = 0
      BY <1>6, <3>1
    <3>2. CASE n # 0
      <4>1. n \in 1 .. N /\ n - 1 \in 0 .. N
        BY <1>1, <3>2
      <4>2. f[n - 1] \in M
        BY <4>1
      <4>3. f[n] = g[n][f[n - 1]]
        BY <1>6, <4>1
      <4> QED
        BY <1>5, <3>2, <4>1, <4>2, <4>3
    <3> QED
      BY <3>1, <3>2
  <2> QED
    BY <2>1
<1>8. at = Unroll(at)
  BY <1>7
<1> HIDE DEF at
<1>9. at[0] \in M
  BY <1>1, <1>2, <1>8
<1>10. \A n \in 1 .. N : at[n - 1] \in M => at[n] \in M
  BY <1>1, <1>3, <1>8
<1>11. at[N] \in M
  <2>1. \A n \in 0 .. N : at[n] \in M
    BY <1>1, <1>9, <1>10, Along, Zenon
  <2> QED
    BY <1>1, <2>1
<1>12. LoadSection(mem, s) = at[N]
  BY DEF LoadSection, at, N, base, Round
<1> QED
  BY <1>11, <1>12

(* All of them; memory is in M when every section leaves it there.         *)
LEMMA LoadedIn ==
    ASSUME NEW M, NEW sections, Len(sections) \in Nat, <<>> \in M,
           SectionsKeep(M, sections)
    PROVE  Loaded(sections) \in M
<1> DEFINE N == Len(sections)
           g == [n \in 1 .. N |-> [m \in M |-> LoadSection(m, sections[n])]]
           Unroll(at) == [n \in 0 .. N |-> IF n = 0 THEN <<>>
                                           ELSE LoadSection(at[n - 1], sections[n])]
           at == CHOOSE f : f = Unroll(f)
<1>1. N \in Nat /\ <<>> \in M
  OBVIOUS
<1>3. \A m \in M, n \in 1 .. N : LoadSection(m, sections[n]) \in M
  BY DEF SectionsKeep
<1>4. Rounds(g, N, M)
  BY <1>3 DEF Rounds
<1>5. \A m \in M, n \in 1 .. N : g[n][m] = LoadSection(m, sections[n])
  OBVIOUS
<1> HIDE DEF N, g
<1>6. PICK f \in [0 .. N -> M] : /\ f[0] = <<>>
                                        /\ \A n \in 1 .. N : f[n] = g[n][f[n - 1]]
  <2> HIDE DEF Unroll, at
  <2> DEFINE base == <<>>
  <2> HIDE DEF base
  <2>1. base \in M
    BY <1>1 DEF base
  <2>2. \E f \in [0 .. N -> M] : /\ f[0] = base
                                        /\ \A n \in 1 .. N : f[n] = g[n][f[n - 1]]
    BY <1>1, <1>4, <2>1, Iteration
  <2> QED
    BY <2>2 DEF base
<1>7. f = Unroll(f)
  <2>1. ASSUME NEW n \in 0 .. N
        PROVE  f[n] = IF n = 0 THEN <<>> ELSE LoadSection(f[n - 1], sections[n])
    <3>1. CASE n = 0
      BY <1>6, <3>1
    <3>2. CASE n # 0
      <4>1. n \in 1 .. N /\ n - 1 \in 0 .. N
        BY <1>1, <3>2
      <4>2. f[n - 1] \in M
        BY <4>1
      <4>3. f[n] = g[n][f[n - 1]]
        BY <1>6, <4>1
      <4> QED
        BY <1>5, <3>2, <4>1, <4>2, <4>3
    <3> QED
      BY <3>1, <3>2
  <2> QED
    BY <2>1
<1>8. at = Unroll(at)
  BY <1>7
<1> HIDE DEF at
<1>9. at[0] \in M
  BY <1>1, <1>8
<1>10. \A n \in 1 .. N : at[n - 1] \in M => at[n] \in M
  BY <1>1, <1>3, <1>8
<1>11. at[N] \in M
  <2>1. \A n \in 0 .. N : at[n] \in M
    BY <1>1, <1>9, <1>10, Along, Zenon
  <2> QED
    BY <1>1, <2>1
<1>12. Loaded(sections) = at[N]
  BY DEF Loaded, at, N
<1> QED
  BY <1>11, <1>12

(* A store of a byte is aligned.                                           *)
LEMMA WriteByte ==
    ASSUME NEW m \in Memories, NEW a \in Int, NEW b \in Nat
    PROVE  Valid(m, a) => AlignedIn(m, a, 1)
<1>1. SUFFICES ASSUME Valid(m, a) PROVE Aligned(a - m[RegionOf(m, a)].base, 1)
  BY DEF AlignedIn
<1>2. m[RegionOf(m, a)] \in Region
  BY <1>1, RegionFound DEF Memories
<1>3. a - m[RegionOf(m, a)].base \in Int
  BY <1>2, RegionParts
<1> QED
  BY <1>3 DEF Aligned

(* The memory that elf_load fills has its type.                            *)
LEMMA LoadedTypes ==
    ASSUME NEW sections, Len(sections) \in Nat,
           \A n \in 1 .. Len(sections) : IsSection(sections[n])
    PROVE  Loaded(sections) \in Memories
<1>1. <<>> \in Memories
  <2>1. <<>> \in Seq(Region) /\ Len(<<>>) = 0
    OBVIOUS
  <2> QED
    BY <2>1, SimMemoryAssumption DEF Memories
<1>2. \A m \in Memories, a \in Int, b \in Nat : Write(m, a, b, 1) \in Memories
  <2>1. 1 \in {1, 2, 4}
    OBVIOUS
  <2> QED
    BY <2>1, WriteByte, WriteTypes
<1>3. ASSUME NEW m \in Memories, NEW n \in 1 .. Len(sections)
      PROVE  LoadSection(m, sections[n]) \in Memories
  <2>1. PICK s : s = sections[n]
    OBVIOUS
  <2>2. IsSection(s)
    BY <2>1
  <2>3. s.base \in Address /\ Len(s.bytes) \in Nat /\ s.base + Len(s.bytes) < WordValues
    BY <2>2 DEF IsSection
  <2>4. CreateMemory(m, s.base, Len(s.bytes)) \in Memories
    BY <2>3, CreateMemoryTypes
  <2>5. LoadSection(m, s) \in Memories
    BY <1>2, <2>2, <2>4, LoadSectionIn DEF WritesKeep
  <2> QED
    BY <2>1, <2>5
<1> QED
  BY <1>1, <1>3, LoadedIn DEF SectionsKeep

-----------------------------------------------------------------------------
(* Address translation. *)

OrDomain == (0 .. Entries - 1) \X (0 .. Entries - 1)
Half(p)  == <<p[1] \div 2, p[2] \div 2>>
LowBit(p) == IF p[1] % 2 = 1 \/ p[2] % 2 = 1 THEN 1 ELSE 0

(* Half of a pair is a pair, and smaller.                                  *)
LEMMA HalfTypes ==
    ASSUME NEW p \in OrDomain
    PROVE  /\ p[1] \in Nat /\ p[2] \in Nat
           /\ Half(p) \in OrDomain /\ Half(p)[1] \in Nat /\ LowBit(p) \in Nat
           /\ p[1] # 0 => Half(p)[1] < p[1]
<1>1. p[1] \in 0 .. Entries - 1 /\ p[2] \in 0 .. Entries - 1
  BY DEF OrDomain
<1>2. \A x \in 0 .. Entries - 1 : /\ x \div 2 \in 0 .. Entries - 1
                                 /\ x # 0 => x \div 2 < x
  BY SimMmuAssumption
<1>3. Half(p)[1] = p[1] \div 2
  BY DEF Half
<1>4. Half(p) \in OrDomain
  <2> DEFINE h1 == p[1] \div 2
             h2 == p[2] \div 2
  <2>1. h1 \in 0 .. Entries - 1
    BY <1>1, <1>2, SimMmuAssumption
  <2>2. h2 \in 0 .. Entries - 1
    BY <1>1, <1>2, SimMmuAssumption
  <2>3. Half(p) = <<h1, h2>>
    BY DEF Half
  <2> HIDE DEF h1, h2
  <2> QED
    BY <2>1, <2>2, <2>3 DEF OrDomain
<1>5. LowBit(p) \in Nat
  BY DEF LowBit
<1> QED
  BY <1>1, <1>2, <1>3, <1>4, <1>5

(* The bitwise or of the code is well defined: halving ends at zero.       *)
LEMMA OrUnrolls ==
    \A p \in OrDomain : Or[p] = IF p[1] = 0 THEN p[2] ELSE (2 * Or[Half(p)]) + LowBit(p)
<1> DEFINE Value(f, p) == IF p[1] = 0 THEN p[2] ELSE (2 * f[Half(p)]) + LowBit(p)
           Made(m, f) == /\ f \in [OrDomain -> Nat]
                         /\ \A p \in OrDomain : p[1] < m => f[p] = Value(f, p)
           T == {m \in 0 .. Entries : ~ \E f : Made(m, f)}
<1>1. T = {}
  <2> SUFFICES ASSUME T # {} PROVE FALSE
    OBVIOUS
  <2>1. PICK m \in T : \A k \in T : m <= k
    <3>1. T \in SUBSET Nat
      BY SimMmuAssumption
    <3> HIDE DEF T
    <3> QED
      BY <3>1, Least
  <2>2. Made(0, [p \in OrDomain |-> 0])
    BY HalfTypes
  <2>3. m # 0
    <3> HIDE DEF Made
    <3> QED
      BY <2>2
  <2>4. m \in 1 .. Entries
    BY <2>3
  <2>5. PICK f : Made(m - 1, f)
    <3>1. m - 1 \in 0 .. Entries /\ m - 1 \notin T
      <4> HIDE DEF T
      <4> QED
        BY <2>1, <2>4, SimMmuAssumption
    <3> HIDE DEF Made
    <3> QED
      BY <3>1
  <2> DEFINE h == [p \in OrDomain |-> IF p[1] = m - 1 THEN Value(f, p) ELSE f[p]]
  <2>6. ASSUME NEW p \in OrDomain PROVE Value(f, p) \in Nat
    <3>1. f[Half(p)] \in Nat
      BY <2>5, HalfTypes
    <3> QED
      BY <3>1, HalfTypes
  <2>7. h \in [OrDomain -> Nat]
    <3> HIDE DEF Value
    <3> QED
      BY <2>5, <2>6
  <2>8. ASSUME NEW p \in OrDomain, p[1] < m PROVE h[p] = Value(h, p)
    <3>1. h[p] = Value(f, p)
      <4>1. p[1] = m - 1 \/ p[1] < m - 1
        BY <2>4, <2>8, HalfTypes
      <4>2. p[1] < m - 1 => p[1] # m - 1
        BY <2>4, HalfTypes
      <4> HIDE DEF Value
      <4> QED
        BY <2>5, <4>1, <4>2
    <3>2. p[1] # 0 => h[Half(p)] = f[Half(p)]
      <4> SUFFICES ASSUME p[1] # 0 PROVE h[Half(p)] = f[Half(p)]
        OBVIOUS
      <4>1. Half(p) \in OrDomain /\ Half(p)[1] # m - 1
        BY <2>4, <2>8, HalfTypes
      <4> HIDE DEF Value
      <4> QED
        BY <4>1
    <3> HIDE DEF h
    <3> QED
      BY <3>1, <3>2
  <2> HIDE DEF h, Value
  <2>9. Made(m, h)
    BY <2>7, <2>8
  <2> HIDE DEF Made
  <2> QED
    BY <2>1, <2>9
<1>2. PICK f : Made(Entries, f)
  <2>1. Entries \notin T /\ Entries \in 0 .. Entries
    <3> HIDE DEF T
    <3> QED
      BY <1>1, SimMmuAssumption
  <2> HIDE DEF Made
  <2> QED
    BY <2>1
<1>3. f \in [OrDomain -> Nat] /\ \A p \in OrDomain : f[p] = Value(f, p)
  <2>1. \A p \in OrDomain : p[1] < Entries
    BY SimMmuAssumption DEF OrDomain
  <2> HIDE DEF Value
  <2> QED
    BY <1>2, <2>1
<1> DEFINE Unroll(g) == [p \in OrDomain |-> Value(g, p)]
           or == CHOOSE g : g = Unroll(g)
<1>4. f = Unroll(f)
  <2> HIDE DEF Value
  <2> QED
    BY <1>3
<1>5. or = Unroll(or)
  <2> HIDE DEF Unroll
  <2> QED
    BY <1>4
<1>6. Or = or
  BY DEF Or, OrDomain, Half, LowBit
<1> HIDE DEF or
<1> QED
  BY <1>5, <1>6

(* The bitwise or of the entries of a table is a number.                   *)
LEMMA OrTypes == \A p \in OrDomain : Or[p] \in Nat
<1> DEFINE T == {k \in Nat : \E p \in OrDomain : p[1] = k /\ Or[p] \notin Nat}
<1>1. T = {}
  <2> SUFFICES ASSUME T # {} PROVE FALSE
    OBVIOUS
  <2>1. PICK k \in T : \A n \in T : k <= n
    <3>1. T \in SUBSET Nat
      OBVIOUS
    <3> HIDE DEF T
    <3> QED
      BY <3>1, Least
  <2>2. PICK p \in OrDomain : p[1] = k /\ Or[p] \notin Nat
    OBVIOUS
  <2>3. k \in Nat /\ p[1] # 0
    BY <2>2, OrUnrolls, HalfTypes
  <2>4. Or[Half(p)] \notin Nat
    BY <2>2, <2>3, OrUnrolls, HalfTypes
  <2>5. Half(p)[1] \in T
    BY <2>4, HalfTypes
  <2>6. Half(p)[1] < k /\ Half(p)[1] \in Nat
    BY <2>2, <2>3, HalfTypes
  <2> HIDE DEF T
  <2> QED
    BY <2>1, <2>3, <2>5, <2>6
<1> HIDE DEF OrDomain
<1> QED
  BY <1>1, HalfTypes

(* The sizes of a page and of what an entry covers.                        *)
LEMMA PageSizes ==
    /\ Entries \in Nat /\ Entries > 0 /\ PageSize \in Nat /\ PageSize > 0
    /\ SatpMode \in Nat /\ SatpMode > 0
    /\ \A i \in {0, 1} : Reach(i) \in 1 .. Entries /\ Span(i) \in Nat /\ Span(i) > 0
<1>1. Entries \in Nat /\ Entries > 0 /\ PageSize \in Nat /\ PageSize > 0
  BY SimMmuAssumption DEF PageSize
<1>2. SatpMode \in Nat /\ SatpMode > 0
  BY Sizes DEF SatpMode
<1>3. \A x, y \in Nat : x > 0 /\ y > 0 => x * y \in Nat /\ x * y > 0
  OBVIOUS
<1>4. Span(0) = PageSize * 1 /\ Span(1) = PageSize * Entries
  BY DEF Span, Reach
<1>5. \A i \in {0, 1} : Reach(i) \in 1 .. Entries
  BY <1>1 DEF Reach
<1> HIDE DEF PageSize
<1>6. \A i \in {0, 1} : Span(i) \in Nat /\ Span(i) > 0
  BY <1>1, <1>3, <1>4
<1> QED
  BY <1>1, <1>2, <1>5, <1>6

(* mmu_walk ends at a word, of one of the two levels.                      *)
Walked == [pte : Address, level : {0, 1}]

(* The entry an address has in a table is a word.                          *)
LEMMA EntryOfTypes ==
    ASSUME NEW mem \in Memories, NEW base \in Address, NEW addr \in Address, NEW i \in {0, 1}
    PROVE  EntryOf(mem, base, addr, i) \in Address
<1>1. base \in Nat /\ addr \in Nat
  BY Sizes DEF Address
<1>2. PICK e \in Nat : e = addr \div Span(i)
  BY <1>1, PageSizes, Quotients
<1>3. PICK x \in Nat : x = e % Entries
  BY PageSizes, Quotients
<1>4. PICK a \in Int : a = base + (x * 4)
  BY <1>1
<1>5. EntryOf(mem, base, addr, i) = MmuReadWord(mem, a)
  BY <1>2, <1>3, <1>4 DEF EntryOf
<1>6. MmuReadWord(mem, a) \in Address
  <2>1. CASE Valid(mem, a)
    BY <2>1, ReadTypes DEF MmuReadWord
  <2>2. CASE ~Valid(mem, a)
    BY <2>2, Sizes DEF MmuReadWord
  <2> QED
    BY <2>1, <2>2
<1> QED
  BY <1>5, <1>6

(* A page number, cut to a word, gives the address of a table.             *)
LEMMA TableTypes ==
    ASSUME NEW ppn \in Nat
    PROVE  TableAt(ppn) \in Address
<1>1. PICK x \in Int : x = ppn * PageSize
  BY PageSizes
<1> QED
  BY <1>1, Sizes DEF TableAt

(* The walk ends at a word, of one of the two levels.                      *)
LEMMA WalkTypes ==
    ASSUME NEW mem \in Memories, NEW satp \in Address, NEW addr \in Address
    PROVE  Walk(mem, satp, addr) \in Walked
<1> DEFINE first == EntryOf(mem, TableAt(satp % SatpMode), addr, Levels - 1)
           next  == EntryOf(mem, TableAt(first \div PfnScale), addr, 0)
<1>1. satp \in Nat /\ SatpMode \in Nat /\ SatpMode > 0 /\ PfnScale \in Nat /\ PfnScale > 0
  BY Sizes, PageSizes, SimMmuAssumption DEF Address
<1>2. TableAt(satp % SatpMode) \in Address
  BY <1>1, TableTypes, Quotients
<1>3. first \in Address
  <2>1. Levels - 1 \in {0, 1}
    BY DEF Levels
  <2> QED
    BY <1>2, <2>1, EntryOfTypes
<1>4. Walk(mem, satp, addr) = WalkOn(mem, first, addr)
  BY DEF Walk
<1>5. WalkOn(mem, first, addr) = IF Pointer(first) THEN Found(next, 0) ELSE Found(first, 1)
  BY DEF WalkOn, Levels
<1> HIDE DEF first
<1>6. TableAt(first \div PfnScale) \in Address
  <2>1. first \in Nat
    BY <1>3, Sizes DEF Address
  <2> QED
    BY <1>1, <2>1, TableTypes, Quotients
<1>7. next \in Address
  BY <1>6, EntryOfTypes
<1>8. \A pte \in Address, i \in {0, 1} : Found(pte, i) \in Walked
  BY Sizes DEF Found, Walked
<1> HIDE DEF next
<1> QED
  BY <1>3, <1>4, <1>5, <1>7, <1>8

(* The address a page gives is a number.                                   *)
LEMMA FrameTypes ==
    ASSUME NEW pte \in Nat, NEW addr \in Nat, NEW i \in {0, 1}
    PROVE  Frame(pte, addr, i) \in Nat
<1>1. PICK R \in Nat : R = Reach(i) /\ R > 0 /\ R <= Entries
  BY PageSizes
<1>2. PICK ppn \in Nat : ppn = pte \div PfnScale
  BY SimMmuAssumption, Quotients
<1>3. PICK high \in Nat : high = (ppn \div R) * R
  BY <1>1, Quotients
<1>4. PICK vpn \in Nat : vpn = addr \div PageSize
  BY PageSizes, Quotients
<1>5. ppn % R \in 0 .. Entries - 1 /\ vpn % R \in 0 .. Entries - 1
  BY <1>1, PageSizes
<1>6. Or[<<ppn % R, vpn % R>>] \in Nat
  BY <1>5, OrTypes DEF OrDomain
<1>7. Frame(pte, addr, i) = high + Or[<<ppn % R, vpn % R>>]
  BY <1>1, <1>2, <1>3, <1>4 DEF Frame
<1> QED
  BY <1>6, <1>7

(* A translation returns a number: an address, or what stands for none.    *)
LEMMA TranslateTypes ==
    ASSUME NEW mem \in Memories, NEW satp \in Address, NEW kind \in {"fetch", "load", "store"},
           NEW priv \in 0 .. Machine, NEW sum \in BOOLEAN, NEW addr \in Address
    PROVE  Translate(mem, satp, kind, priv, sum, addr) \in Int
<1> DEFINE e == Entry(mem, satp, addr)
           bars == Permission(kind, priv, sum, e.flags)
<1>1. addr \in Nat /\ satp \in Nat /\ PageSize \in Nat /\ PageSize > 0
  BY Sizes, PageSizes DEF Address
<1>2. e.frame \in Nat
  <2>1. CASE satp < SatpMode
    BY <1>1, <2>1, Quotients DEF Entry
  <2>2. CASE ~(satp < SatpMode)
    <3>1. PICK w \in Walked : w = Walk(mem, satp, addr)
      BY WalkTypes
    <3>2. w.pte \in Nat /\ w.level \in {0, 1}
      BY Sizes DEF Walked, Address
    <3>3. Frame(w.pte, addr, w.level) \in Nat
      BY <1>1, <3>2, FrameTypes
    <3>4. e.frame = IF w.pte = 0 THEN 0 ELSE Frame(w.pte, addr, w.level)
      BY <2>2, <3>1 DEF Entry, Split
    <3> QED
      BY <3>3, <3>4
  <2> QED
    BY <2>1, <2>2
<1>3. bars \in Int
  BY DEF Permission, PageFault, Exits
<1>4. addr % PageSize \in Nat
  BY <1>1, Quotients
<1> HIDE DEF e, bars
<1>5. PICK x \in Nat : x = e.frame * PageSize
  BY <1>1, <1>2
<1>6. Resolve(mem, satp, addr, e, bars) \in Int
  BY <1>3, <1>4, <1>5 DEF Resolve, Exits
<1>7. Translate(mem, satp, kind, priv, sum, addr) =
        IF priv > Super THEN addr ELSE Resolve(mem, satp, addr, e, bars)
  BY DEF Translate, Guarded, e, bars
<1> QED
  BY <1>1, <1>6, <1>7

-----------------------------------------------------------------------------
(* Instructions. *)

(* What execute() does with the registers: the instruction traps, or it    *)
(* goes on, returns, or writes a CSR.                                      *)
TrapTo(n, badaddr) == Exception(cpu, <<"trap", n>>, cpu.pc, badaddr)

Traps(i, out) ==
    /\ i.op \notin {"mret", "sret", "rw", "rs", "rc"}
    /\ out.mem = regions
    /\ \E n \in 0 .. 31, badaddr \in Address :
          /\ out.cause = <<"trap", n>>
          /\ out.c = TrapTo(n, badaddr) \/ out.c = [TrapTo(n, badaddr) EXCEPT !.stopped = TRUE]

GoesOn(i, c) ==
    \/ /\ i.op \notin {"mret", "sret", "rw", "rs", "rc"}
       /\ c = Next4(cpu) \/ \E target \in Address : c = [cpu EXCEPT !.pc = target]
    \/ i.op = "mret" /\ cpu.mpriv = Machine /\ c = ReturnFromM(cpu)
    \/ i.op = "sret" /\ cpu.mpriv = Super /\ c = ReturnFromS(cpu)
    \/ IsCsrInstr(i) /\ c = Next4(AccessCsr(cpu, i))

(* The parts of an outcome that changes registers only.                    *)
LEMMA OutcomeParts ==
    ASSUME NEW c
    PROVE  /\ Outcome(c).c = c /\ Outcome(c).mem = regions /\ Outcome(c).cause = None
           /\ Outcome(c).data = None /\ Outcome(c).value = None
BY DEF Outcome

(* The parts of an outcome that traps, and of one that stops the simulator *)
(* as well.                                                                *)
LEMMA TrappedParts ==
    ASSUME NEW n, NEW badaddr
    PROVE  /\ Trapped(n, badaddr).c = TrapTo(n, badaddr)
           /\ Trapped(n, badaddr).mem = regions
           /\ Trapped(n, badaddr).cause = <<"trap", n>>
           /\ Trapped(n, badaddr).data = None /\ Trapped(n, badaddr).value = None
           /\ [Trapped(n, badaddr) EXCEPT !.c.stopped = TRUE].c =
                 [TrapTo(n, badaddr) EXCEPT !.stopped = TRUE]
           /\ [Trapped(n, badaddr) EXCEPT !.c.stopped = TRUE].mem = regions
           /\ [Trapped(n, badaddr) EXCEPT !.c.stopped = TRUE].cause = <<"trap", n>>
BY DEF Outcome, Trapped, TrapTo

(* The address of a data access is an integer (a fault is a negative one). *)
LEMMA DataAddressTypes ==
    ASSUME Types, NEW i, i.op \in {"load", "store"}, i.addr \in Address
    PROVE  DataAddress(i) \in Int
<1>1. cpu.satp \in Address /\ cpu.mpriv \in 0 .. Machine
  BY DEF Types, Cpus
<1>2. ("SUM" \in cpu.msr) \in BOOLEAN
  OBVIOUS
<1>3. i.op \in {"fetch", "load", "store"}
  OBVIOUS
<1> QED
  BY <1>1, <1>2, <1>3, TranslateTypes, Zenon DEF DataAddress, Types

(* A load or a store traps or goes on to the next instruction.             *)
LEMMA LoadOrStoreCases ==
    ASSUME Types, NEW i, IsInstr(i), i.op \in {"load", "store"}, ~Dies(i)
    PROVE  LET out == LoadOrStore(i) IN
           \/ Traps(i, out)
           \/ /\ out.c = Next4(cpu) /\ out.mem \in Memories /\ out.cause = None
<1> DEFINE pa == DataAddress(i)
<1>1. /\ i.addr \in Address /\ i.width \in {1, 2, 4}
      /\ i.op = "store" => i.val \in Address
  BY DEF IsInstr, IsCsrInstr
<1>2. pa \in Int
  BY <1>1, DataAddressTypes
<1>3. CASE pa = PageFault
  <2> DEFINE n == IF i.op = "store" THEN 15 ELSE 13
  <2>1. LoadOrStore(i) = Trapped(n, i.addr)
    BY <1>3 DEF LoadOrStore
  <2>2. n \in 0 .. 31 /\ i.op \notin {"mret", "sret", "rw", "rs", "rc"}
    OBVIOUS
  <2> HIDE DEF n
  <2>3. /\ Trapped(n, i.addr).c = TrapTo(n, i.addr) /\ Trapped(n, i.addr).mem = regions
        /\ Trapped(n, i.addr).cause = <<"trap", n>>
    BY DEF Trapped, Outcome, TrapTo
  <2> QED
    BY <1>1, <2>1, <2>2, <2>3 DEF Traps
<1>4. CASE pa # PageFault
  <2>1. Valid(regions, pa) => AlignedIn(regions, pa, i.width)
    BY <1>4 DEF Dies, BadAddress
  <2>2. CASE i.op = "store"
    <3>1. i.val \in Nat
      BY <1>1, <2>2, Sizes DEF Address
    <3>2. Write(regions, pa, i.val, i.width) \in Memories
      BY <1>1, <1>2, <2>1, <3>1, WriteTypes DEF Types
    <3>3. LoadOrStore(i) = [Outcome(Next4(cpu)) EXCEPT !.data = pa,
                                                       !.mem = Write(regions, pa, i.val, i.width)]
      BY <1>4, <2>2 DEF LoadOrStore
    <3> HIDE DEF pa
    <3>4. /\ LoadOrStore(i).c = Next4(cpu) /\ LoadOrStore(i).cause = None
          /\ LoadOrStore(i).mem = Write(regions, pa, i.val, i.width)
      BY <3>3 DEF Outcome
    <3> QED
      BY <3>2, <3>4
  <2>3. CASE i.op = "load"
    <3>1. LoadOrStore(i) = [Outcome(Next4(cpu)) EXCEPT !.data = pa,
                               !.value = Read(regions, pa, i.width, i.signed)]
      BY <1>4, <2>3 DEF LoadOrStore
    <3> HIDE DEF pa
    <3>2. /\ LoadOrStore(i).c = Next4(cpu) /\ LoadOrStore(i).cause = None
          /\ LoadOrStore(i).mem = regions
      BY <3>1 DEF Outcome
    <3> QED
      BY <3>2 DEF Types
  <2> QED
    BY <2>2, <2>3
<1> QED
  BY <1>3, <1>4

(* An instruction traps or goes on.                                        *)
LEMMA EffectCases ==
    ASSUME Types, NEW i, IsInstr(i), ~Dies(i)
    PROVE  LET out == Effect(i) IN
           \/ Traps(i, out)
           \/ GoesOn(i, out.c) /\ out.mem \in Memories /\ out.cause = None
<1>0. regions \in Memories /\ cpu.mpriv \in 0 .. 3
  BY DEF Types, Cpus, Machine
<1>1. CASE i.op \in {"load", "store"}
  <2>1. Effect(i) = LoadOrStore(i)
    BY <1>1 DEF Effect
  <2>2. i.op \notin {"mret", "sret", "rw", "rs", "rc"}
    BY <1>1
  <2> QED
    BY <1>1, <2>1, <2>2, LoadOrStoreCases DEF GoesOn
<1>2. CASE i.op = "jump"
  <2>1. Effect(i) = Outcome([cpu EXCEPT !.pc = i.target]) /\ i.target \in Address
    BY <1>2 DEF Effect, IsInstr, IsCsrInstr
  <2>2. /\ Effect(i).c = [cpu EXCEPT !.pc = i.target] /\ Effect(i).mem = regions
        /\ Effect(i).cause = None
    BY <2>1, OutcomeParts
  <2>3. i.op \notin {"mret", "sret", "rw", "rs", "rc"}
    BY <1>2
  <2> QED
    BY <1>0, <2>1, <2>2, <2>3 DEF GoesOn
<1>3. CASE i.op = "ecall"
  <2>1. PICK n \in 0 .. 31 : n = 8 + cpu.mpriv
    BY <1>0
  <2>2. Effect(i) = Trapped(n, 0)
    BY <1>3, <2>1 DEF Effect
  <2>3. /\ Effect(i).c = TrapTo(n, 0) /\ Effect(i).mem = regions
        /\ Effect(i).cause = <<"trap", n>>
    BY <2>2 DEF Trapped, Outcome, TrapTo
  <2> QED
    BY <1>3, <2>3, Sizes DEF Traps
<1>4. CASE i.op = "ebreak"
  <2>1. Effect(i) = [Trapped(3, 0) EXCEPT !.c.stopped = TRUE]
    BY <1>4 DEF Effect
  <2>2. /\ Effect(i).c = [TrapTo(3, 0) EXCEPT !.stopped = TRUE] /\ Effect(i).mem = regions
        /\ Effect(i).cause = <<"trap", 3>>
    BY <2>1 DEF Trapped, Outcome, TrapTo
  <2>3. 3 \in 0 .. 31
    OBVIOUS
  <2> QED
    BY <1>4, <2>2, <2>3, Sizes DEF Traps
<1>5. CASE i.op = "mret"
  <2>1. Effect(i) = Outcome(ReturnFromM(cpu)) /\ cpu.mpriv = Machine
    BY <1>5 DEF Effect, Dies
  <2> QED
    BY <1>0, <1>5, <2>1, OutcomeParts DEF GoesOn
<1>6. CASE i.op = "sret"
  <2>1. Effect(i) = Outcome(ReturnFromS(cpu)) /\ cpu.mpriv = Super
    BY <1>6 DEF Effect, Dies
  <2> QED
    BY <1>0, <1>6, <2>1, OutcomeParts DEF GoesOn
<1>7. CASE i.op = "fence"
  <2>1. Effect(i) = Outcome(Next4(cpu))
    BY <1>7 DEF Effect
  <2>2. i.op \notin {"mret", "sret", "rw", "rs", "rc"}
    BY <1>7
  <2> QED
    BY <1>0, <2>1, <2>2, OutcomeParts DEF GoesOn
<1>8. CASE IsCsrInstr(i)
  <2>1. i.op \in {"rw", "rs", "rc"}
    BY <1>8 DEF IsCsrInstr
  <2>2. Effect(i) = Outcome(Next4(AccessCsr(cpu, i)))
    BY <2>1 DEF Effect
  <2> QED
    BY <1>0, <1>8, <2>2, OutcomeParts DEF GoesOn
<1>9. i.op # "bad"
  BY DEF Dies
<1> QED
  BY <1>1, <1>2, <1>3, <1>4, <1>5, <1>6, <1>7, <1>8, <1>9 DEF IsInstr

(* An instruction that traps leaves registers.                             *)
LEMMA TrapsTypes ==
    ASSUME Types, NEW i, NEW out, Traps(i, out)
    PROVE  out.c \in Cpus /\ out.mem \in Memories /\ out.cause \in Cause
<1>1. PICK n \in 0 .. 31, badaddr \in Address :
          /\ out.cause = <<"trap", n>>
          /\ out.c = TrapTo(n, badaddr) \/ out.c = [TrapTo(n, badaddr) EXCEPT !.stopped = TRUE]
  BY DEF Traps
<1>2. <<"trap", n>> \in Cause
  BY DEF Cause
<1>3. cpu \in Cpus /\ cpu.pc \in Address
  BY DEF Types, Cpus
<1>4. TrapTo(n, badaddr) \in Cpus
  BY <1>2, <1>3, ExceptionTypes DEF TrapTo
<1>5. [TrapTo(n, badaddr) EXCEPT !.stopped = TRUE] \in Cpus
  BY <1>4 DEF Cpus
<1> QED
  BY <1>1, <1>2, <1>4, <1>5 DEF Traps, Types

(* Registers that go on are registers.                                     *)
LEMMA GoesOnTypes ==
    ASSUME Types, NEW i, NEW c, GoesOn(i, c)
    PROVE  c \in Cpus
<1>1. cpu \in Cpus
  BY DEF Types
<1>2. \A target \in Address : [cpu EXCEPT !.pc = target] \in Cpus
  BY <1>1 DEF Cpus
<1> QED
  BY <1>1, <1>2, Next4Types, ReturnTypes, AccessTypes DEF GoesOn

(* The interrupt that is taken is pending, enabled, and for its level.     *)
LEMMA LowestIn ==
    ASSUME NEW irqs \in SUBSET IrqBits, irqs # {}
    PROVE  Lowest(irqs) \in irqs
<1>1. irqs \in SUBSET Nat
  BY DEF IrqBits
<1>2. \E n \in irqs : \A k \in irqs : n <= k
  BY <1>1, Least
<1> QED
  BY <1>2 DEF Lowest

(* No cause, level or number is None.                                      *)
LEMMA CauseNotNone == None \notin Cause /\ None \notin {"m", "s"} /\ None \notin Int
<1>1. Cause \subseteq {"trap", "irq"} \X Nat
  <2>1. 0 .. 31 \subseteq Nat
    OBVIOUS
  <2> QED
    BY <2>1, Zenon DEF Cause
<1> QED
  BY <1>1, IsaSimAssumption

(* What is taken at the end of an instruction is its own trap, or else an  *)
(* enabled interrupt, or nothing.                                          *)
LEMMA Taken ==
    ASSUME NEW out, out.c \in Cpus
    PROVE  \/ TakenCause(out) = out.cause
           \/ /\ out.cause = None
              /\ \E n \in Interrupts(out.c) : /\ TakenCause(out) = <<"irq", n>>
                                              /\ <<"irq", n>> \in Cause
<1> DEFINE irqs == Interrupts(out.c)
<1>1. irqs \in SUBSET IrqBits
  <2>1. out.c.mip \in SUBSET IrqBits
    BY DEF Cpus
  <2> QED
    BY <2>1 DEF Interrupts
<1>2. TakenCause(out) = IF out.cause = None /\ irqs # {} THEN <<"irq", Lowest(irqs)>> ELSE out.cause
  BY DEF TakenCause
<1> HIDE DEF irqs
<1>3. CASE out.cause = None /\ irqs # {}
  <2>1. PICK n \in irqs : n = Lowest(irqs)
    BY <1>1, <1>3, LowestIn
  <2>2. n \in 0 .. 31
    BY <1>1 DEF IrqBits
  <2>3. <<"irq", n>> \in Cause
    BY <2>2 DEF Cause
  <2> QED
    BY <1>2, <1>3, <2>1, <2>3 DEF irqs
<1>4. CASE ~(out.cause = None /\ irqs # {})
  BY <1>2, <1>4
<1> QED
  BY <1>3, <1>4

(* The end of a step, in the three ways it goes: an interrupt after the    *)
(* instruction, the trap of the instruction, neither.                      *)
SavedAs(i, level, ctx) ==
    [l \in {"m", "s"} |-> IF l = level THEN ctx ELSE IF Ends(i, l) THEN None ELSE saved[l]]

Interrupted(i, out, c, sv, done) ==
    \E n \in Interrupts(out.c) :
       LET cause == <<"irq", n>>
           level == Level(out.c, cause)
       IN /\ cause \in Cause
          /\ c = Exception(out.c, cause, out.c.pc, 0)
          /\ sv = SavedAs(i, level, Context(out.c, out.c.pc, level))
          /\ done.level = level /\ done.cause = cause

Ended(i, out, c, sv, done) ==
    /\ c = out.c
    /\ done.cause = out.cause
    /\ IF out.cause = None
       THEN done.level = None /\ sv = SavedAs(i, None, None)
       ELSE LET level == Level(cpu, out.cause)
            IN done.level = level /\ sv = SavedAs(i, level, Context(cpu, cpu.pc, level))

(* After its effect an instruction is interrupted, or ends with its own    *)
(* trap or without.                                                        *)
LEMMA FinishCases ==
    ASSUME NEW i, NEW out, NEW fetch, out.c \in Cpus, out.cause \in Cause \cup {None},
           FinishWith(i, out, fetch, TakenCause(out))
    PROVE  /\ regions' = out.mem /\ running' = ~out.c.stopped /\ program' = program
           /\ did'.i = i /\ did'.fetch = fetch /\ did'.data = out.data /\ did'.value = out.value
           /\ \E c : /\ cpu' = Tick(c)
                     /\ \/ out.cause = None /\ Interrupted(i, out, c, saved', did')
                        \/ Ended(i, out, c, saved', did')
<1> DEFINE cause == TakenCause(out)
           irq   == cause # out.cause
           from  == IF irq THEN out.c ELSE cpu
           level == IF cause = None THEN None ELSE Level(from, cause)
           c     == IF irq THEN Exception(out.c, cause, out.c.pc, 0) ELSE out.c
<1>1. /\ cpu' = Tick(c)
      /\ regions' = out.mem
      /\ running' = ~out.c.stopped
      /\ did' = [i |-> i, fetch |-> fetch, data |-> out.data,
                 value |-> out.value, cause |-> cause, level |-> level]
      /\ saved' = [l \in {"m", "s"} |-> IF l = level THEN Context(from, from.pc, l)
                                        ELSE IF Ends(i, l) THEN None ELSE saved[l]]
      /\ program' = program
  BY DEF FinishWith
<1>2. saved' = SavedAs(i, level, Context(from, from.pc, level))
  <2>1. \A l \in {"m", "s"} :
           (IF l = level THEN Context(from, from.pc, l)
            ELSE IF Ends(i, l) THEN None ELSE saved[l])
           = (IF l = level THEN Context(from, from.pc, level)
              ELSE IF Ends(i, l) THEN None ELSE saved[l])
    <3> HIDE DEF level, from
    <3> QED
      OBVIOUS
  <2> HIDE DEF level, from
  <2> QED
    BY <1>1, <2>1 DEF SavedAs
<1>3. /\ did'.i = i /\ did'.fetch = fetch /\ did'.data = out.data /\ did'.value = out.value
      /\ did'.cause = cause /\ did'.level = level
  <2> HIDE DEF level, from, cause
  <2> QED
    BY <1>1
<1>4. CASE irq
  <2>1. PICK n \in Interrupts(out.c) : cause = <<"irq", n>> /\ <<"irq", n>> \in Cause /\ out.cause = None
    BY <1>4, Taken
  <2>2. cause # None
    BY <2>1, CauseNotNone
  <2>3. from = out.c /\ level = Level(out.c, cause) /\ c = Exception(out.c, cause, out.c.pc, 0)
    BY <1>4, <2>2
  <2> HIDE DEF from, level, c, cause
  <2>4. Interrupted(i, out, c, saved', did')
    BY <1>2, <1>3, <2>1, <2>3 DEF Interrupted
  <2> QED
    BY <1>1, <1>3, <2>1, <2>4
<1>5. CASE ~irq
  <2>1. cause = out.cause /\ from = cpu /\ c = out.c
    BY <1>5
  <2>2. level = IF out.cause = None THEN None ELSE Level(cpu, out.cause)
    BY <2>1
  <2> HIDE DEF from, level, c, cause
  <2>3. saved' = IF out.cause = None THEN SavedAs(i, None, None)
                 ELSE SavedAs(i, level, Context(cpu, cpu.pc, level))
    <3>1. CASE out.cause = None
      <4>1. level = None /\ \A l \in {"m", "s"} : l # None
        BY <2>2, <3>1, CauseNotNone
      <4>2. saved' = [l \in {"m", "s"} |-> IF l = None THEN Context(from, from.pc, None)
                                           ELSE IF Ends(i, l) THEN None ELSE saved[l]]
        BY <1>2, <4>1 DEF SavedAs
      <4> QED
        BY <3>1, <4>1, <4>2 DEF SavedAs
    <3>2. CASE out.cause # None
      BY <1>2, <2>1, <3>2
    <3> QED
      BY <3>1, <3>2
  <2>4. Ended(i, out, c, saved', did')
    BY <1>3, <2>1, <2>2, <2>3 DEF Ended
  <2> QED
    BY <1>1, <1>3, <2>4
<1> QED
  BY <1>4, <1>5

(* A context has its type, and is not None.                                *)
LEMMA ContextTypes ==
    ASSUME NEW c \in Cpus, NEW level \in {"m", "s"}
    PROVE  /\ Context(c, c.pc, level) \in Contexts /\ Context(c, c.pc, level) # None
           /\ Context(c, c.pc, level).pc = c.pc /\ Context(c, c.pc, level).priv = c.mpriv
           /\ level = "m" => Context(c, c.pc, level).ie = ("MIE" \in c.msr)
           /\ level = "s" => Context(c, c.pc, level).ie = ("SIE" \in c.msr)
<1> DEFINE ie == (IF level = "m" THEN "MIE" ELSE "SIE") \in c.msr
<1>1. Context(c, c.pc, level) = [pc |-> c.pc, priv |-> c.mpriv, ie |-> ie]
  BY DEF Context
<1>2. ie \in BOOLEAN /\ c.pc \in Address /\ c.mpriv \in 0 .. Machine
  BY DEF Cpus
<1>3. /\ level = "m" => ie = ("MIE" \in c.msr)
      /\ level = "s" => ie = ("SIE" \in c.msr)
  OBVIOUS
<1> HIDE DEF ie
<1>4. [pc |-> c.pc, priv |-> c.mpriv, ie |-> ie] \in Contexts
  BY <1>2 DEF Contexts
<1>5. None \notin Contexts
  BY IsaSimAssumption DEF Contexts
<1> QED
  BY <1>1, <1>3, <1>4, <1>5

(* A trap is taken into machine or supervisor mode.                        *)
LEMMA LevelTypes == \A c, cause : Level(c, cause) \in {"m", "s"}
BY DEF Level

(* Ending and saving contexts leaves contexts.                             *)
LEMMA SavedAsTypes ==
    ASSUME saved \in Saved, NEW i, NEW level, NEW ctx \in Contexts \cup {None}
    PROVE  SavedAs(i, level, ctx) \in Saved
BY DEF Saved, SavedAs

(* The end of an instruction keeps the types.                              *)
LEMMA FinishTypes ==
    ASSUME Types, NEW i, NEW out, NEW fetch, out.c \in Cpus, out.mem \in Memories,
           out.cause \in Cause \cup {None}, Finish(i, out, fetch)
    PROVE  Types'
<1>1. FinishWith(i, out, fetch, TakenCause(out))
  BY DEF Finish
<1>2. /\ regions' = out.mem /\ running' = ~out.c.stopped /\ program' = program
      /\ \E c : /\ cpu' = Tick(c)
                /\ \/ out.cause = None /\ Interrupted(i, out, c, saved', did')
                   \/ Ended(i, out, c, saved', did')
  BY <1>1, FinishCases
<1>3. PICK c : /\ cpu' = Tick(c)
               /\ \/ out.cause = None /\ Interrupted(i, out, c, saved', did')
                  \/ Ended(i, out, c, saved', did')
  BY <1>2
<1>4. cpu \in Cpus /\ saved \in Saved
  BY DEF Types
<1>5. c \in Cpus /\ saved' \in Saved
  <2>1. CASE Interrupted(i, out, c, saved', did')
    <3>1. PICK n \in Interrupts(out.c) :
             LET cause == <<"irq", n>>
                 level == Level(out.c, cause)
             IN /\ cause \in Cause
                /\ c = Exception(out.c, cause, out.c.pc, 0)
                /\ saved' = SavedAs(i, level, Context(out.c, out.c.pc, level))
      BY <2>1 DEF Interrupted
    <3> DEFINE level == Level(out.c, <<"irq", n>>)
    <3>2. level \in {"m", "s"}
      BY LevelTypes
    <3>3. out.c.pc \in Address /\ 0 \in Address
      BY Sizes DEF Cpus
    <3>4. c \in Cpus
      BY <3>1, <3>3, ExceptionTypes
    <3> HIDE DEF level
    <3>5. Context(out.c, out.c.pc, level) \in Contexts
      BY <3>2, ContextTypes
    <3>6. saved' = SavedAs(i, level, Context(out.c, out.c.pc, level))
      BY <3>1 DEF level
    <3>7. SavedAs(i, level, Context(out.c, out.c.pc, level)) \in Saved
      BY <1>4, <3>5, SavedAsTypes
    <3> QED
      BY <3>4, <3>6, <3>7
  <2>2. CASE Ended(i, out, c, saved', did')
    <3> DEFINE level == Level(cpu, out.cause)
    <3>1. level \in {"m", "s"}
      BY LevelTypes
    <3>2. c = out.c /\ saved' = IF out.cause = None THEN SavedAs(i, None, None)
                                ELSE SavedAs(i, level, Context(cpu, cpu.pc, level))
      BY <2>2 DEF Ended
    <3> HIDE DEF level
    <3>3. Context(cpu, cpu.pc, level) \in Contexts
      BY <1>4, <3>1, ContextTypes
    <3>4. /\ SavedAs(i, level, Context(cpu, cpu.pc, level)) \in Saved
          /\ SavedAs(i, None, None) \in Saved
      BY <1>4, <3>3, SavedAsTypes
    <3> QED
      BY <3>2, <3>4
  <2> QED
    BY <1>3, <2>1, <2>2
<1>6. cpu' \in Cpus
  BY <1>3, <1>5, TickTypes
<1>7. running' \in BOOLEAN
  BY <1>2
<1> QED
  BY <1>2, <1>5, <1>6, <1>7 DEF Types

(* The program and its instructions.                                       *)
LEMMA InstrTypes ==
    ASSUME Types, NEW i \in program.instrs
    PROVE  IsInstr(i)
BY IsaSimAssumption DEF Types, IsProgram

(* A step of the simulator, by what it does: it dies, an instruction or a  *)
(* fetch that faults ends, or an interrupt line is raised.                 *)
Instruction(i, out, fetch) ==
    /\ \/ i = NoInstr
       \/ IsInstr(i) /\ ~Dies(i)
    /\ \/ Traps(i, out)
       \/ GoesOn(i, out.c) /\ out.mem \in Memories /\ out.cause = None
    /\ Finish(i, out, fetch)

(* A fetch fault is a trap.                                                *)
LEMMA FetchFaultCases ==
    ASSUME Types
    PROVE  Traps(NoInstr, Trapped(12, cpu.pc))
<1>1. cpu.pc \in Address /\ 12 \in 0 .. 31
  BY DEF Types, Cpus
<1>2. /\ Trapped(12, cpu.pc).c = TrapTo(12, cpu.pc)
      /\ Trapped(12, cpu.pc).mem = regions
      /\ Trapped(12, cpu.pc).cause = <<"trap", 12>>
  BY DEF Trapped, Outcome, TrapTo
<1>3. NoInstr.op \notin {"mret", "sret", "rw", "rs", "rc"}
  BY DEF NoInstr
<1> QED
  BY <1>1, <1>2, <1>3 DEF Traps

(* A step executes an instruction, stops the simulator, or raises or       *)
(* clears an external interrupt.                                           *)
LEMMA Steps ==
    ASSUME Types, [Next]_vars
    PROVE  \/ \E i, out, fetch : Instruction(i, out, fetch)
           \/ Die
           \/ SetInterrupt
           \/ UNCHANGED vars
<1>1. CASE FetchFaults
  <2>1. Finish(NoInstr, Trapped(12, cpu.pc), None)
    BY <1>1 DEF FetchFaults
  <2>2. Instruction(NoInstr, Trapped(12, cpu.pc), None)
    <3>1. Traps(NoInstr, Trapped(12, cpu.pc))
      BY FetchFaultCases
    <3> QED
      BY <2>1, <3>1, Zenon DEF Instruction
  <2> QED
    BY <2>2
<1>2. CASE FetchDies
  BY <1>2 DEF FetchDies
<1>3. CASE \E i \in program.instrs : Execute(i)
  <2>1. PICK i \in program.instrs : Execute(i)
    BY <1>3
  <2>2. CASE Dies(i)
    BY <2>1, <2>2 DEF Execute
  <2>3. CASE ~Dies(i)
    <3>1. Finish(i, Effect(i), Fetched)
      BY <2>1, <2>3 DEF Execute
    <3>2. IsInstr(i)
      BY InstrTypes
    <3>3. \/ Traps(i, Effect(i))
          \/ GoesOn(i, Effect(i).c) /\ Effect(i).mem \in Memories /\ Effect(i).cause = None
      BY <2>3, <3>2, EffectCases
    <3> QED
      BY <2>3, <3>1, <3>2, <3>3 DEF Instruction
  <2> QED
    BY <2>2, <2>3
<1> QED
  BY <1>1, <1>2, <1>3 DEF Next, Step

(* What an instruction computes has its type.                              *)
LEMMA InstructionTypes ==
    ASSUME Types, NEW i, NEW out, NEW fetch, Instruction(i, out, fetch)
    PROVE  out.c \in Cpus /\ out.mem \in Memories /\ out.cause \in Cause \cup {None}
<1>1. CASE Traps(i, out)
  BY <1>1, TrapsTypes
<1>2. CASE GoesOn(i, out.c) /\ out.mem \in Memories /\ out.cause = None
  BY <1>2, GoesOnTypes
<1> QED
  BY <1>1, <1>2 DEF Instruction

(* Every step keeps the types.                                             *)
LEMMA StepTypes == Types /\ [Next]_vars => Types'
<1> SUFFICES ASSUME Types, [Next]_vars PROVE Types'
  OBVIOUS
<1>1. ASSUME NEW i, NEW out, NEW fetch, Instruction(i, out, fetch) PROVE Types'
  <2>1. out.c \in Cpus /\ out.mem \in Memories /\ out.cause \in Cause \cup {None}
    BY <1>1, InstructionTypes
  <2>2. Finish(i, out, fetch)
    BY <1>1 DEF Instruction
  <2> QED
    BY <2>1, <2>2, FinishTypes
<1>2. CASE Die
  BY <1>2 DEF Die, Types
<1>3. CASE SetInterrupt
  <2>1. cpu \in Cpus /\ cpu.mip \cup {11} \in SUBSET IrqBits
    BY DEF Types, Cpus, IrqBits
  <2>2. PICK mip \in SUBSET IrqBits : mip = cpu.mip \cup {11}
    BY <2>1
  <2>3. cpu' = [cpu EXCEPT !.mip = mip]
    BY <1>3, <2>2 DEF SetInterrupt
  <2>4. cpu' \in Cpus
    BY <2>1, <2>3 DEF Cpus
  <2> QED
    BY <1>3, <2>4 DEF SetInterrupt, Types
<1>4. CASE UNCHANGED vars
  BY <1>4 DEF vars, Types
<1> QED
  BY <1>1, <1>2, <1>3, <1>4, Steps

(* A program that has been loaded and booted has the types.                *)
LEMMA InitTypes == Init => Types
<1> SUFFICES ASSUME Init PROVE Types
  OBVIOUS
<1>1. program \in Programs /\ IsProgram(program)
  BY IsaSimAssumption DEF Init
<1>2. cpu \in Cpus
  BY <1>1, BootedTypes DEF Init
<1>3. regions \in Memories
  <2>1. Len(program.sections) \in Nat
    BY <1>1 DEF IsProgram
  <2>2. \A n \in 1 .. Len(program.sections) : IsSection(program.sections[n])
    BY <1>1 DEF IsProgram, IsSection
  <2> QED
    BY <2>1, <2>2, LoadedTypes DEF Init
<1>4. saved \in Saved
  BY DEF Init, Saved
<1> QED
  BY <1>1, <1>2, <1>3, <1>4 DEF Init, Types

(* The types imply the type invariant of the model.                        *)
LEMMA TypesAreOK == Types => TypeOK
<1> SUFFICES ASSUME Types PROVE TypeOK
  OBVIOUS
<1>1. cpu \in Cpus /\ regions \in Memories /\ running \in BOOLEAN
  BY DEF Types
<1>2. /\ {cpu.pc, cpu.mepc, cpu.mevec, cpu.sepc, cpu.sevec, cpu.stval, cpu.satp} \subseteq Address
      /\ cpu.mpriv \in 0 .. Machine
      /\ cpu.msr \subseteq StatusBits
      /\ cpu.mie \cup cpu.mip \cup cpu.mideleg \subseteq IrqBits /\ cpu.medeleg \subseteq Causes
      /\ cpu.mtime \in 0 .. TimeValues - 1 /\ cpu.mtimecmp \in 0 .. TimeValues - 1
  BY <1>1 DEF Cpus
<1>3. Len(regions) <= MaxRegions /\ regions \in Seq(Region)
  BY <1>1 DEF Memories
<1>4. ASSUME NEW j \in DOMAIN regions, NEW w \in DOMAIN regions[j].words
      PROVE  regions[j].words[w] \in 0 .. WordValues - 1
  <2>1. regions[j] \in Region
    BY <1>3
  <2>2. PICK r \in Region : r = regions[j]
    BY <2>1
  <2>3. r.words \in [0 .. (r.size + 3) \div 4 - 1 -> Address]
    BY RegionParts
  <2>4. w \in DOMAIN r.words
    BY <2>2
  <2>5. r.words[w] \in Address
    BY <2>3, <2>4
  <2> QED
    BY <2>2, <2>5 DEF Address
<1>5. {running, cpu.stopped} \subseteq BOOLEAN
  BY <1>1 DEF Cpus
<1> QED
  BY <1>2, <1>3, <1>4, <1>5 DEF TypeOK

(* The registers of the simulator have their types, and every word of its  *)
(* memory is a word, whatever is loaded, written or stored.                *)
THEOREM TypeCorrect == Spec => []TypeOK
<1>1. Init => Types
  BY InitTypes
<1>2. Types /\ [Next]_vars => Types'
  BY StepTypes
<1>3. Types => TypeOK
  BY TypesAreOK
<1> QED
  BY <1>1, <1>2, <1>3, PTL DEF Spec

-----------------------------------------------------------------------------
(* Traps and returns. *)

(* While a trap is not over, the registers of its level hold its context,  *)
(* that level is not interrupted, and no lower one runs.                   *)
HoldsM(c, ctx) ==
    \/ ctx = None
    \/ /\ c.mpriv = Machine /\ "MIE" \notin c.msr
       /\ c.mepc = ctx.pc /\ Mpp(c.msr) = ctx.priv /\ ctx.ie = ("MPIE" \in c.msr)

HoldsS(c, ctx) ==
    \/ ctx = None
    \/ /\ c.mpriv \in {Super, Machine} /\ "SIE" \notin c.msr
       /\ c.sepc = ctx.pc /\ ctx.ie = ("SPIE" \in c.msr)
       /\ ctx.priv \in {User, Super} /\ ("SPP" \in c.msr <=> ctx.priv = Super)

Nested(c, sv) ==
    /\ HoldsM(c, sv["m"]) /\ HoldsS(c, sv["s"])
    /\ \/ sv["m"] = None
       \/ sv["s"] = None
       \/ sv["m"].priv \in {Super, Machine}

IInv == Types /\ Nested(cpu, saved)

(* What a trap to the machine level does to the registers.                 *)
LEMMA ToMachineParts ==
    ASSUME NEW c \in Cpus, NEW cause, NEW pc
    PROVE  LET t == ToMachine(c, cause, pc) IN
           /\ t.mpriv = Machine /\ t.mepc = pc /\ t.sepc = c.sepc /\ t.pc = c.mevec
           /\ "MIE" \notin t.msr /\ Mpp(t.msr) = c.mpriv
           /\ ("MPIE" \in t.msr) = ("MIE" \in c.msr)
           /\ \A b \in {"SIE", "SPIE", "SPP"} : (b \in t.msr) = (b \in c.msr)
<1> DEFINE m == (c.msr \ {"MPIE", "MIE", "MPP0", "MPP1"})
                \cup If("MPIE", "MIE" \in c.msr) \cup MppBits(c.mpriv)
<1>1. If("MPIE", "MIE" \in c.msr) = IF "MIE" \in c.msr THEN {"MPIE"} ELSE {}
  BY DEF If
<1>2. c.mpriv \in 0 .. 3
  BY DEF Cpus, Machine
<1>3. MppBits(c.mpriv) = (IF c.mpriv % 2 = 1 THEN {"MPP0"} ELSE {})
                         \cup (IF c.mpriv >= 2 THEN {"MPP1"} ELSE {})
  BY DEF MppBits, If
<1>4. "MIE" \notin m /\ (("MPIE" \in m) <=> ("MIE" \in c.msr))
  BY <1>1, <1>3
<1>5. \A b \in {"SIE", "SPIE", "SPP"} : (b \in m) <=> (b \in c.msr)
  BY <1>1, <1>3
<1>6. ("MPP0" \in m <=> c.mpriv % 2 = 1) /\ ("MPP1" \in m <=> c.mpriv >= 2)
  BY <1>1, <1>3
<1>7. ToMachine(c, cause, pc) =
        [c EXCEPT !.msr = m, !.mpriv = Machine, !.mepc = pc, !.mcause = cause, !.pc = c.mevec]
  BY DEF ToMachine
<1> HIDE DEF m
<1>8. Mpp(m) = c.mpriv
  BY <1>2, <1>6 DEF Mpp
<1>9. /\ ToMachine(c, cause, pc).msr = m /\ ToMachine(c, cause, pc).mpriv = Machine
      /\ ToMachine(c, cause, pc).mepc = pc /\ ToMachine(c, cause, pc).sepc = c.sepc
      /\ ToMachine(c, cause, pc).pc = c.mevec
  BY <1>7 DEF Cpus
<1> QED
  BY <1>4, <1>5, <1>8, <1>9

(* What a trap to the supervisor does to them.                             *)
LEMMA ToSupervisorParts ==
    ASSUME NEW c \in Cpus, NEW cause, NEW pc, NEW badaddr
    PROVE  LET t == ToSupervisor(c, cause, pc, badaddr) IN
           /\ t.mpriv = Super /\ t.sepc = pc /\ t.mepc = c.mepc /\ t.pc = c.sevec
           /\ "SIE" \notin t.msr /\ ("SPP" \in t.msr <=> c.mpriv = Super)
           /\ ("SPIE" \in t.msr) = ("SIE" \in c.msr)
<1> DEFINE m == (c.msr \ {"SPIE", "SIE", "SPP"})
                \cup If("SPIE", "SIE" \in c.msr) \cup If("SPP", c.mpriv = Super)
<1>1. /\ If("SPIE", "SIE" \in c.msr) = IF "SIE" \in c.msr THEN {"SPIE"} ELSE {}
      /\ If("SPP", c.mpriv = Super) = IF c.mpriv = Super THEN {"SPP"} ELSE {}
  BY DEF If
<1>2. /\ "SIE" \notin m /\ (("SPIE" \in m) <=> ("SIE" \in c.msr))
      /\ ("SPP" \in m <=> c.mpriv = Super)
  BY <1>1
<1>3. ToSupervisor(c, cause, pc, badaddr) =
        [c EXCEPT !.msr = m, !.mpriv = Super, !.sepc = pc, !.scause = cause,
                  !.stval = badaddr, !.pc = c.sevec]
  BY DEF ToSupervisor
<1> HIDE DEF m
<1>4. LET t == ToSupervisor(c, cause, pc, badaddr) IN
      /\ t.msr = m /\ t.mpriv = Super /\ t.sepc = pc /\ t.mepc = c.mepc /\ t.pc = c.sevec
  BY <1>3 DEF Cpus
<1> QED
  BY <1>2, <1>4

(* What the returns do to them.                                            *)
LEMMA ReturnFromMParts ==
    ASSUME NEW c \in Cpus
    PROVE  LET t == ReturnFromM(c) IN
           /\ t.mpriv = Mpp(c.msr) /\ t.pc = c.mepc /\ t.sepc = c.sepc
           /\ ("MIE" \in t.msr) = ("MPIE" \in c.msr)
           /\ \A b \in {"SIE", "SPIE", "SPP"} : (b \in t.msr) = (b \in c.msr)
<1> DEFINE m == ((c.msr \ {"MIE", "MPP0", "MPP1"}) \cup If("MIE", "MPIE" \in c.msr)) \cup {"MPIE"}
<1>1. If("MIE", "MPIE" \in c.msr) = IF "MPIE" \in c.msr THEN {"MIE"} ELSE {}
  BY DEF If
<1>2. /\ ("MIE" \in m) <=> ("MPIE" \in c.msr)
      /\ \A b \in {"SIE", "SPIE", "SPP"} : (b \in m) <=> (b \in c.msr)
  BY <1>1
<1>3. ReturnFromM(c) = [c EXCEPT !.msr = m, !.mpriv = Mpp(c.msr), !.pc = c.mepc]
  BY DEF ReturnFromM
<1> HIDE DEF m
<1>4. LET t == ReturnFromM(c) IN
      t.msr = m /\ t.mpriv = Mpp(c.msr) /\ t.pc = c.mepc /\ t.sepc = c.sepc
  BY <1>3 DEF Cpus
<1> QED
  BY <1>2, <1>4

(* What sret does to the privilege, the program counter and the interrupt  *)
(* enable.                                                                 *)
LEMMA ReturnFromSParts ==
    ASSUME NEW c \in Cpus
    PROVE  LET t == ReturnFromS(c) IN
           /\ t.mpriv = (IF "SPP" \in c.msr THEN Super ELSE User) /\ t.pc = c.sepc
           /\ ("SIE" \in t.msr) = ("SPIE" \in c.msr)
<1> DEFINE m == ((c.msr \ {"SIE", "SPP"}) \cup If("SIE", "SPIE" \in c.msr)) \cup {"SPIE"}
           priv == IF "SPP" \in c.msr THEN Super ELSE User
<1>1. If("SIE", "SPIE" \in c.msr) = IF "SPIE" \in c.msr THEN {"SIE"} ELSE {}
  BY DEF If
<1>2. ("SIE" \in m) <=> ("SPIE" \in c.msr)
  BY <1>1
<1>3. ReturnFromS(c) = [c EXCEPT !.msr = m, !.mpriv = priv, !.pc = c.sepc]
  BY DEF ReturnFromS
<1> HIDE DEF m, priv
<1>4. LET t == ReturnFromS(c) IN t.msr = m /\ t.mpriv = priv /\ t.pc = c.sepc
  BY <1>3 DEF Cpus
<1> QED
  BY <1>2, <1>4 DEF priv

(* A trap saves the context it was taken in, at a level that is free.      *)
LEMMA TrapNests ==
    ASSUME NEW c \in Cpus, NEW sv \in Saved, Nested(c, sv), NEW cause, NEW badaddr,
           NEW sv2 \in Saved,
           sv2[Level(c, cause)] = Context(c, c.pc, Level(c, cause)),
           \A l \in {"m", "s"} \ {Level(c, cause)} : sv2[l] = sv[l]
    PROVE  /\ Nested(Exception(c, cause, c.pc, badaddr), sv2)
           /\ c.mpriv <= Exception(c, cause, c.pc, badaddr).mpriv
<1>0. c.mpriv \in 0 .. 3 /\ Machine = 3 /\ Super = 1 /\ User = 0
  BY DEF Cpus, Machine, Super, User
<1>1. CASE Level(c, cause) = "m"
  <2> DEFINE t == ToMachine(c, cause, c.pc)
             x == Context(c, c.pc, "m")
             y == sv["s"]
  <2>1. Exception(c, cause, c.pc, badaddr) = t
    BY <1>1 DEF Exception
  <2>2. sv2["m"] = x /\ sv2["s"] = y
    BY <1>1
  <2>3. /\ t.mpriv = Machine /\ t.mepc = c.pc /\ t.sepc = c.sepc
        /\ "MIE" \notin t.msr /\ Mpp(t.msr) = c.mpriv
        /\ ("MPIE" \in t.msr) = ("MIE" \in c.msr)
        /\ ("SIE" \in t.msr) = ("SIE" \in c.msr)
        /\ ("SPIE" \in t.msr) = ("SPIE" \in c.msr)
        /\ ("SPP" \in t.msr) = ("SPP" \in c.msr)
    BY ToMachineParts
  <2>4. x.pc = c.pc /\ x.priv = c.mpriv /\ x.ie = ("MIE" \in c.msr)
    BY ContextTypes
  <2>5. HoldsS(c, y)
    BY DEF Nested
  <2> HIDE DEF t, x, y
  <2>6. HoldsM(t, x)
    BY <2>3, <2>4 DEF HoldsM
  <2>7. HoldsS(t, y)
    BY <2>3, <2>5 DEF HoldsS
  <2>8. y = None \/ x.priv \in {Super, Machine}
    BY <2>4, <2>5 DEF HoldsS
  <2>9. Nested(t, sv2)
    BY <2>2, <2>6, <2>7, <2>8 DEF Nested
  <2>10. c.mpriv <= t.mpriv
    BY <1>0, <2>3
  <2> QED
    BY <2>1, <2>9, <2>10
<1>2. CASE Level(c, cause) = "s"
  <2> DEFINE t == ToSupervisor(c, cause, c.pc, badaddr)
             x == sv["m"]
             y == Context(c, c.pc, "s")
  <2>1. Exception(c, cause, c.pc, badaddr) = t
    BY <1>2 DEF Exception
  <2>2. sv2["m"] = x /\ sv2["s"] = y
    BY <1>2
  <2>3. c.mpriv \in {User, Super}
    BY <1>0, <1>2 DEF Level
  <2>4. /\ t.mpriv = Super /\ t.sepc = c.pc
        /\ "SIE" \notin t.msr /\ ("SPP" \in t.msr <=> c.mpriv = Super)
        /\ ("SPIE" \in t.msr) = ("SIE" \in c.msr)
    BY ToSupervisorParts
  <2>5. y.pc = c.pc /\ y.priv = c.mpriv /\ y.ie = ("SIE" \in c.msr)
    BY ContextTypes
  <2>6. HoldsM(c, x)
    BY DEF Nested
  <2> HIDE DEF t, x, y
  <2>7. x = None
    BY <1>0, <2>3, <2>6 DEF HoldsM
  <2>8. HoldsS(t, y)
    BY <2>3, <2>4, <2>5 DEF HoldsS
  <2>9. Nested(t, sv2)
    BY <2>2, <2>7, <2>8 DEF Nested, HoldsM
  <2>10. c.mpriv <= t.mpriv
    BY <1>0, <2>3, <2>4
  <2> QED
    BY <2>1, <2>9, <2>10
<1> QED
  BY <1>1, <1>2, LevelTypes

(* What the contexts depend on.                                            *)
Alike(c, d) == d.mpriv = c.mpriv /\ d.msr = c.msr /\ d.mepc = c.mepc /\ d.sepc = c.sepc

(* Contexts stay held by registers that agree on what they depend on, and  *)
(* when they are given up.                                                 *)
LEMMA AlikeNests ==
    ASSUME NEW c, NEW d, Alike(c, d), NEW sv, NEW sv2, Nested(c, sv),
           \A l \in {"m", "s"} : sv2[l] = sv[l] \/ sv2[l] = None
    PROVE  Nested(d, sv2)
<1>1. sv2["m"] = sv["m"] \/ sv2["m"] = None
  OBVIOUS
<1>2. sv2["s"] = sv["s"] \/ sv2["s"] = None
  OBVIOUS
<1>3. \A x : HoldsM(c, x) => HoldsM(d, x)
  BY DEF HoldsM, Alike
<1>4. \A x : HoldsS(c, x) => HoldsS(d, x)
  BY DEF HoldsS, Alike
<1>5. HoldsM(d, None) /\ HoldsS(d, None)
  BY DEF HoldsM, HoldsS
<1> QED
  BY <1>1, <1>2, <1>3, <1>4, <1>5 DEF Nested

(* The program counter is not one of those registers.                      *)
LEMMA Next4Alike ==
    ASSUME NEW c \in Cpus
    PROVE  Alike(c, Next4(c)) /\ \A x : Alike(c, [c EXCEPT !.pc = x])
BY DEF Alike, Next4, Cpus

(* Nor is the timer.                                                       *)
LEMMA TickAlike ==
    ASSUME NEW c \in Cpus
    PROVE  Alike(c, Tick(c)) /\ Tick(c).pc = c.pc
<1>1. PICK now, mip : Tick(c) = [c EXCEPT !.mtime = now, !.mip = mip]
  BY TickTypes
<1> QED
  BY <1>1 DEF Alike, Cpus

(* A write of a register that holds no context leaves the contexts alone.  *)
LEMMA AccessAlike ==
    ASSUME NEW c \in Cpus, NEW i, IsCsrInstr(i),
           i.csr \notin {"mstatus", "sstatus", "mepc", "sepc"}
    PROVE  Alike(c, AccessCsr(c, i))
<1>1. CASE i.csr = "mtime"
  <2>1. \/ AccessCsr(c, i) = c
        \/ i.data \in 0 .. TimeValues - 1 /\ AccessCsr(c, i) = WriteTime(c, i.data)
    BY <1>1, CsrWrite, CsrFields
  <2>2. Alike(c, c) /\ Alike(c, WriteTime(c, i.data))
    BY DEF Alike, WriteTime, Cpus
  <2> QED
    BY <2>1, <2>2
<1>2. CASE i.csr \in AddressCsrs
  <2>1. AccessCsr(c, i) = [c EXCEPT ![CsrField[i.csr]] = i.data]
    BY <1>2, CsrWrite, CsrFields
  <2>2. \/ CsrField[i.csr] = "mevec"
        \/ CsrField[i.csr] = "sevec"
        \/ CsrField[i.csr] = "satp"
    BY <1>2 DEF AddressCsrs, CsrField
  <2>3. \A x : /\ Alike(c, [c EXCEPT !["mevec"] = x]) /\ Alike(c, [c EXCEPT !["sevec"] = x])
               /\ Alike(c, [c EXCEPT !["satp"] = x])
    BY DEF Alike, Cpus
  <2>4. \/ AccessCsr(c, i) = [c EXCEPT !["mevec"] = i.data]
        \/ AccessCsr(c, i) = [c EXCEPT !["sevec"] = i.data]
        \/ AccessCsr(c, i) = [c EXCEPT !["satp"] = i.data]
    BY <2>1, <2>2
  <2> QED
    BY <2>3, <2>4, Zenon
<1>3. CASE i.csr \in BitCsrs
  <2>1. PICK x : AccessCsr(c, i) = [c EXCEPT ![CsrField[i.csr]] = x]
    BY <1>3, CsrWrite, CsrFields
  <2>2. CsrField[i.csr] \in {"mie", "mip", "mideleg", "medeleg"}
    BY <1>3, CsrFields
  <2>3. /\ Alike(c, [c EXCEPT !["mie"] = x]) /\ Alike(c, [c EXCEPT !["mip"] = x])
        /\ Alike(c, [c EXCEPT !["mideleg"] = x]) /\ Alike(c, [c EXCEPT !["medeleg"] = x])
    BY DEF Alike, Cpus
  <2> QED
    BY <2>1, <2>2, <2>3, Zenon
<1> QED
  BY <1>1, <1>2, <1>3 DEF IsCsrInstr, StatusCsrs

(* Setting or clearing bits through sstatus leaves those of the machine.   *)
LEMMA AccessSstatus ==
    ASSUME NEW c \in Cpus, NEW i, IsCsrInstr(i), i.csr = "sstatus", i.op # "rw"
    PROVE  LET d == AccessCsr(c, i) IN
           /\ d.mpriv = c.mpriv /\ d.mepc = c.mepc
           /\ \A b \in {"MIE", "MPIE", "MPP0", "MPP1"} : (b \in d.msr) = (b \in c.msr)
<1>1. i.op \in {"rs", "rc"}
  BY DEF IsCsrInstr
<1>2. i.csr # "mtime" /\ i.csr \notin AddressCsrs /\ CsrField[i.csr] = "msr"
  BY DEF AddressCsrs, CsrField
<1> DEFINE data == i.data \cap CsrMask(i.csr)
           x == IF i.op = "rs" THEN c.msr \cup data ELSE c.msr \ data
<1>3. AccessCsr(c, i) = [c EXCEPT !["msr"] = x]
  BY <1>1, <1>2 DEF AccessCsr
<1>4. data \subseteq {"SIE", "SPIE", "SPP", "SUM"}
  BY DEF CsrMask
<1>5. \A b \in {"MIE", "MPIE", "MPP0", "MPP1"} : (b \in x) <=> (b \in c.msr)
  <2> HIDE DEF data
  <2> QED
    BY <1>4
<1> HIDE DEF x
<1>6. LET d == [c EXCEPT !["msr"] = x] IN d.mpriv = c.mpriv /\ d.mepc = c.mepc /\ d.msr = x
  BY DEF Cpus
<1> QED
  BY <1>3, <1>5, <1>6

(* Which contexts an instruction ends.                                     *)
Left(i) == SavedAs(i, None, None)

(* The contexts left after those the instruction ends.                     *)
LEMMA LeftIs ==
    ASSUME NEW i
    PROVE  \A l \in {"m", "s"} : Left(i)[l] = IF Ends(i, l) THEN None ELSE saved[l]
BY CauseNotNone DEF Left, SavedAs

(* An instruction that goes on leaves the contexts of the others held:     *)
(* only a return changes what they are held in, and it ends its own.       *)
LEMMA GoesOnNests ==
    ASSUME IInv, NEW i, NEW c, GoesOn(i, c)
    PROVE  Nested(c, Left(i))
<1>0. cpu \in Cpus /\ saved \in Saved /\ Nested(cpu, saved)
  BY DEF IInv, Types
<1> DEFINE x == saved["m"]
           y == saved["s"]
<1>1. HoldsM(cpu, x) /\ HoldsS(cpu, y) /\ (x = None \/ y = None \/ x.priv \in {Super, Machine})
  BY <1>0 DEF Nested
<1>2. \A l \in {"m", "s"} : Left(i)[l] = saved[l] \/ Left(i)[l] = None
  BY LeftIs
<1>3. ASSUME Left(i)["m"] = None, Left(i)["s"] = None
      PROVE  Nested(c, Left(i))
  BY <1>3 DEF Nested, HoldsM, HoldsS
<1>4. CASE c = Next4(cpu) \/ \E target \in Address : c = [cpu EXCEPT !.pc = target]
  <2>1. Alike(cpu, c)
    BY <1>0, <1>4, Next4Alike
  <2> QED
    BY <1>0, <1>2, <2>1, AlikeNests
<1>5. CASE i.op = "mret" /\ cpu.mpriv = Machine /\ c = ReturnFromM(cpu)
  <2>1. Ends(i, "m")
    BY <1>5 DEF Ends
  <2>2. Left(i)["m"] = None
    BY <2>1, LeftIs
  <2>3. CASE x = None
    <3>1. Ends(i, "s")
      BY <1>5, <2>3 DEF Ends
    <3> QED
      BY <1>3, <2>2, <3>1, LeftIs
  <2>4. CASE y = None
    <3>1. Left(i)["s"] = None
      BY <1>2, <2>4
    <3> QED
      BY <1>3, <2>2, <3>1
  <2>5. CASE x # None /\ y # None
    <3>1. Mpp(cpu.msr) \in {Super, Machine}
      BY <1>1, <2>5 DEF HoldsM
    <3>2. /\ c.mpriv = Mpp(cpu.msr) /\ c.sepc = cpu.sepc
          /\ ("SIE" \in c.msr) = ("SIE" \in cpu.msr)
          /\ ("SPIE" \in c.msr) = ("SPIE" \in cpu.msr)
          /\ ("SPP" \in c.msr) = ("SPP" \in cpu.msr)
      BY <1>0, <1>5, ReturnFromMParts
    <3> HIDE DEF x, y
    <3>3. HoldsS(c, y)
      BY <1>1, <3>1, <3>2 DEF HoldsS
    <3>4. HoldsS(c, Left(i)["s"])
      BY <1>2, <3>3 DEF y, HoldsS
    <3> QED
      BY <2>2, <3>4 DEF Nested, HoldsM
  <2> QED
    BY <2>3, <2>4, <2>5
<1>6. CASE i.op = "sret" /\ cpu.mpriv = Super /\ c = ReturnFromS(cpu)
  <2>1. Ends(i, "s")
    BY <1>6 DEF Ends
  <2>2. x = None
    BY <1>1, <1>6 DEF HoldsM, Super, Machine
  <2>3. Left(i)["m"] = None
    BY <1>2, <2>2
  <2> QED
    BY <1>3, <2>1, <2>3, LeftIs
<1>7. CASE IsCsrInstr(i) /\ c = Next4(AccessCsr(cpu, i))
  <2> DEFINE d == AccessCsr(cpu, i)
  <2>1. d \in Cpus /\ i.op \in {"rw", "rs", "rc"}
    BY <1>0, <1>7, AccessTypes DEF IsCsrInstr
  <2>2. Alike(d, c)
    BY <1>7, <2>1, Next4Alike
  <2>3. CASE i.csr \in {"mstatus", "mepc", "sepc"}
    <3>1. Ends(i, "m") /\ Ends(i, "s")
      BY <2>1, <2>3 DEF Ends
    <3> QED
      BY <1>3, <3>1, LeftIs
  <2>4. CASE i.csr = "sstatus" /\ i.op = "rw"
    <3>1. Ends(i, "m") /\ Ends(i, "s")
      BY <2>1, <2>4 DEF Ends
    <3> QED
      BY <1>3, <3>1, LeftIs
  <2>5. CASE i.csr = "sstatus" /\ i.op # "rw"
    <3>1. Ends(i, "s")
      BY <2>1, <2>5 DEF Ends
    <3>2. Left(i)["s"] = None
      BY <3>1, LeftIs
    <3>3. /\ d.mpriv = cpu.mpriv /\ d.mepc = cpu.mepc
          /\ \A b \in {"MIE", "MPIE", "MPP0", "MPP1"} : (b \in d.msr) = (b \in cpu.msr)
      BY <1>0, <1>7, <2>5, AccessSstatus
    <3> HIDE DEF d, x
    <3>4. Mpp(d.msr) = Mpp(cpu.msr)
      BY <3>3 DEF Mpp
    <3>5. HoldsM(d, x)
      BY <1>1, <3>3, <3>4 DEF HoldsM
    <3>6. HoldsM(c, x)
      BY <2>2, <3>5 DEF HoldsM, Alike
    <3>7. HoldsM(c, Left(i)["m"])
      BY <1>2, <3>6 DEF x, HoldsM
    <3> QED
      BY <3>2, <3>7 DEF Nested, HoldsS
  <2>6. CASE i.csr \notin {"mstatus", "sstatus", "mepc", "sepc"}
    <3>1. Alike(cpu, d)
      BY <1>0, <1>7, <2>6, AccessAlike
    <3>2. Alike(cpu, c)
      BY <2>2, <3>1 DEF Alike
    <3> QED
      BY <1>0, <1>2, <3>2, AlikeNests
  <2> QED
    BY <2>3, <2>4, <2>5, <2>6
<1> QED
  BY <1>4, <1>5, <1>6, <1>7 DEF GoesOn

(* An interrupt is taken at its level only when that level can be          *)
(* interrupted, which none is that has a context.                          *)
LEMMA InterruptsFree ==
    ASSUME NEW c \in Cpus, NEW sv, Nested(c, sv), NEW n \in Interrupts(c)
    PROVE  sv[Level(c, <<"irq", n>>)] = None
<1>0. c.mpriv \in 0 .. 3 /\ Machine = 3 /\ Super = 1
  BY DEF Cpus, Machine, Super
<1>1. Level(c, <<"irq", n>>) = IF c.mpriv <= Super /\ n \in c.mideleg THEN "s" ELSE "m"
  BY DEF Level
<1>2. \/ /\ c.mpriv < Machine \/ "MIE" \in c.msr
         /\ n \notin c.mideleg
      \/ /\ c.mpriv < Super \/ (c.mpriv = Super /\ "SIE" \in c.msr)
         /\ n \in c.mideleg
  BY DEF Interrupts
<1>3. CASE c.mpriv <= Super /\ n \in c.mideleg
  <2>1. HoldsS(c, sv["s"])
    BY DEF Nested
  <2>2. ~(c.mpriv \in {Super, Machine} /\ "SIE" \notin c.msr)
    BY <1>0, <1>2, <1>3
  <2>3. sv["s"] = None
    BY <2>1, <2>2 DEF HoldsS
  <2> QED
    BY <1>1, <1>3, <2>3
<1>4. CASE ~(c.mpriv <= Super /\ n \in c.mideleg)
  <2>1. HoldsM(c, sv["m"])
    BY DEF Nested
  <2>2. ~(c.mpriv = Machine /\ "MIE" \notin c.msr)
    BY <1>0, <1>2, <1>4
  <2>3. sv["m"] = None
    BY <2>1, <2>2 DEF HoldsM
  <2> QED
    BY <1>1, <1>4, <2>3
<1> QED
  BY <1>3, <1>4

(* How an instruction ends, as a change of the registers and the contexts. *)
EndsPlain(i) ==
    \E c : /\ GoesOn(i, c)
           /\ cpu' = Tick(c) /\ saved' = Left(i)
           /\ did'.i = i /\ did'.level = None

EndsInterrupted(i) ==
    \E c : \E n \in Interrupts(c) :
       LET level == Level(c, <<"irq", n>>)
       IN /\ GoesOn(i, c)
          /\ cpu' = Tick(Exception(c, <<"irq", n>>, c.pc, 0))
          /\ saved' = SavedAs(i, level, Context(c, c.pc, level))
          /\ did'.i = i /\ did'.level = level

EndsTrapped(i) ==
    \E n \in 0 .. 31, badaddr \in Address : \E e :
       LET level == Level(cpu, <<"trap", n>>)
       IN /\ i.op \notin {"mret", "sret", "rw", "rs", "rc"}
          /\ e = TrapTo(n, badaddr) \/ e = [TrapTo(n, badaddr) EXCEPT !.stopped = TRUE]
          /\ cpu' = Tick(e)
          /\ saved' = SavedAs(i, level, Context(cpu, cpu.pc, level))
          /\ did'.i = i /\ did'.level = level /\ did'.cause = <<"trap", n>>

(* An instruction ends in one of the three ways.                           *)
LEMMA InstructionEnds ==
    ASSUME Types, NEW i, NEW out, NEW fetch, Instruction(i, out, fetch)
    PROVE  EndsPlain(i) \/ EndsInterrupted(i) \/ EndsTrapped(i)
<1>1. out.c \in Cpus /\ out.cause \in Cause \cup {None}
  BY InstructionTypes
<1>2. FinishWith(i, out, fetch, TakenCause(out))
  BY DEF Instruction, Finish
<1>3. /\ did'.i = i
      /\ \E c : /\ cpu' = Tick(c)
                /\ \/ out.cause = None /\ Interrupted(i, out, c, saved', did')
                   \/ Ended(i, out, c, saved', did')
  BY <1>1, <1>2, FinishCases
<1>4. PICK c : /\ cpu' = Tick(c)
               /\ \/ out.cause = None /\ Interrupted(i, out, c, saved', did')
                  \/ Ended(i, out, c, saved', did')
  BY <1>3
<1>5. CASE Traps(i, out)
  <2>1. PICK n \in 0 .. 31, badaddr \in Address :
           /\ out.cause = <<"trap", n>>
           /\ out.c = TrapTo(n, badaddr) \/ out.c = [TrapTo(n, badaddr) EXCEPT !.stopped = TRUE]
    BY <1>5 DEF Traps
  <2>2. out.cause # None
    <3>1. out.cause \in Cause
      BY <1>5, TrapsTypes
    <3> QED
      BY <3>1, CauseNotNone
  <2>3. /\ c = out.c /\ did'.cause = out.cause
        /\ did'.level = Level(cpu, out.cause)
        /\ saved' = SavedAs(i, Level(cpu, out.cause), Context(cpu, cpu.pc, Level(cpu, out.cause)))
    BY <1>4, <2>2 DEF Ended
  <2>4. i.op \notin {"mret", "sret", "rw", "rs", "rc"}
    BY <1>5 DEF Traps
  <2>5. EndsTrapped(i)
    BY <1>3, <1>4, <2>1, <2>3, <2>4 DEF EndsTrapped
  <2> QED
    BY <2>5
<1>6. CASE GoesOn(i, out.c) /\ out.cause = None
  <2>1. CASE Interrupted(i, out, c, saved', did')
    <3>1. PICK n \in Interrupts(out.c) :
             LET level == Level(out.c, <<"irq", n>>)
             IN /\ c = Exception(out.c, <<"irq", n>>, out.c.pc, 0)
                /\ saved' = SavedAs(i, level, Context(out.c, out.c.pc, level))
                /\ did'.level = level
      BY <2>1 DEF Interrupted
    <3>2. EndsInterrupted(i)
      BY <1>3, <1>4, <1>6, <3>1 DEF EndsInterrupted
    <3> QED
      BY <3>2
  <2>2. CASE Ended(i, out, c, saved', did')
    <3>1. c = out.c /\ did'.level = None /\ saved' = Left(i)
      BY <1>6, <2>2 DEF Ended, Left
    <3>2. EndsPlain(i)
      BY <1>3, <1>4, <1>6, <3>1 DEF EndsPlain
    <3> QED
      BY <3>2
  <2> QED
    BY <1>4, <2>1, <2>2
<1> QED
  BY <1>5, <1>6 DEF Instruction

(* What a step may not do: the two properties about one step.              *)
Resumes ==
    /\ did'.i.op = "mret" /\ saved["m"] # None => Resumed("m", saved["m"])
    /\ did'.i.op = "sret" /\ saved["s"] # None => Resumed("s", saved["s"])

Nests ==
    did'.level # None =>
         /\ saved'[did'.level].priv <= cpu'.mpriv
         /\ did'.cause[1] = "irq" => \/ saved[did'.level] = None
                                     \/ Ends(did'.i, did'.level)

(* A return leads to the context that was saved.                           *)
LEMMA ReturnMeets ==
    ASSUME IInv, NEW i, NEW c, GoesOn(i, c)
    PROVE  /\ i.op = "mret" /\ saved["m"] # None => Context(c, c.pc, "m") = saved["m"]
           /\ i.op = "sret" /\ saved["s"] # None => Context(c, c.pc, "s") = saved["s"]
<1>1. cpu \in Cpus /\ saved \in Saved /\ HoldsM(cpu, saved["m"]) /\ HoldsS(cpu, saved["s"])
  BY DEF IInv, Types, Nested
<1>2. ~(IsCsrInstr(i) /\ i.op \in {"mret", "sret"})
  BY DEF IsCsrInstr
<1>3. ASSUME i.op = "mret", saved["m"] # None
      PROVE  Context(c, c.pc, "m") = saved["m"]
  <2> DEFINE x == saved["m"]
  <2>1. c = ReturnFromM(cpu)
    BY <1>2, <1>3 DEF GoesOn
  <2>2. /\ c.mpriv = Mpp(cpu.msr) /\ c.pc = cpu.mepc
        /\ ("MIE" \in c.msr) = ("MPIE" \in cpu.msr)
    BY <1>1, <2>1, ReturnFromMParts
  <2>3. x \in Contexts /\ HoldsM(cpu, x) /\ x # None
    BY <1>1, <1>3 DEF Saved
  <2>4. Context(c, c.pc, "m") = [pc |-> c.pc, priv |-> c.mpriv, ie |-> "MIE" \in c.msr]
    BY DEF Context
  <2> HIDE DEF x
  <2>5. x = [pc |-> x.pc, priv |-> x.priv, ie |-> x.ie]
    BY <2>3 DEF Contexts
  <2>6. x.pc = c.pc /\ x.priv = c.mpriv /\ x.ie = ("MIE" \in c.msr)
    BY <2>2, <2>3 DEF HoldsM
  <2>7. Context(c, c.pc, "m") = x
    BY <2>4, <2>5, <2>6
  <2> QED
    BY <2>7 DEF x
<1>4. ASSUME i.op = "sret", saved["s"] # None
      PROVE  Context(c, c.pc, "s") = saved["s"]
  <2> DEFINE y == saved["s"]
  <2>1. c = ReturnFromS(cpu)
    BY <1>2, <1>4 DEF GoesOn
  <2>2. /\ c.mpriv = (IF "SPP" \in cpu.msr THEN Super ELSE User) /\ c.pc = cpu.sepc
        /\ ("SIE" \in c.msr) = ("SPIE" \in cpu.msr)
    BY <1>1, <2>1, ReturnFromSParts
  <2>3. y \in Contexts /\ HoldsS(cpu, y) /\ y # None
    BY <1>1, <1>4 DEF Saved
  <2>4. Context(c, c.pc, "s") = [pc |-> c.pc, priv |-> c.mpriv, ie |-> "SIE" \in c.msr]
    BY DEF Context
  <2> HIDE DEF y
  <2>5. y = [pc |-> y.pc, priv |-> y.priv, ie |-> y.ie]
    BY <2>3 DEF Contexts
  <2>6. y.pc = c.pc /\ y.priv = c.mpriv /\ y.ie = ("SIE" \in c.msr)
    BY <2>2, <2>3 DEF HoldsS
  <2>7. Context(c, c.pc, "s") = y
    BY <2>4, <2>5, <2>6
  <2> QED
    BY <2>7 DEF y
<1> QED
  BY <1>3, <1>4

(* An instruction that neither traps nor is interrupted.                   *)
LEMMA PlainStep ==
    ASSUME IInv, NEW i, EndsPlain(i)
    PROVE  Nested(cpu', saved') /\ Resumes /\ Nests
<1>1. PICK c : /\ GoesOn(i, c)
               /\ cpu' = Tick(c) /\ saved' = Left(i)
               /\ did'.i = i /\ did'.level = None
  BY DEF EndsPlain
<1>2. c \in Cpus
  BY <1>1, GoesOnTypes DEF IInv
<1>3. Nested(c, Left(i))
  BY <1>1, GoesOnNests
<1>4. Alike(c, cpu') /\ cpu'.pc = c.pc
  BY <1>1, <1>2, TickAlike
<1>5. Nested(cpu', saved')
  <2>1. PICK d : d = cpu'
    OBVIOUS
  <2>2. PICK sv : sv = saved'
    OBVIOUS
  <2>3. Alike(c, d)
    BY <1>4, <2>1
  <2>4. \A l \in {"m", "s"} : sv[l] = Left(i)[l] \/ sv[l] = None
    BY <1>1, <2>2
  <2>5. Nested(d, sv)
    BY <1>3, <2>3, <2>4, AlikeNests
  <2> QED
    BY <2>1, <2>2, <2>5
<1>6. \A level \in {"m", "s"} : Context(cpu', cpu'.pc, level) = Context(c, c.pc, level)
  BY <1>4 DEF Context, Alike
<1>7. Resumes
  <2>1. \A level \in {"m", "s"} : \A ctx : Resumed(level, ctx) <=> Context(cpu', cpu'.pc, level) = ctx
    BY <1>1 DEF Resumed
  <2>2. /\ i.op = "mret" /\ saved["m"] # None => Context(c, c.pc, "m") = saved["m"]
        /\ i.op = "sret" /\ saved["s"] # None => Context(c, c.pc, "s") = saved["s"]
    BY <1>1, ReturnMeets
  <2> QED
    BY <1>1, <1>6, <2>1, <2>2 DEF Resumes
<1>8. Nests
  BY <1>1 DEF Nests
<1> QED
  BY <1>5, <1>7, <1>8

(* An instruction after which an interrupt is taken.                       *)
LEMMA InterruptedStep ==
    ASSUME IInv, NEW i, EndsInterrupted(i), saved' \in Saved
    PROVE  Nested(cpu', saved') /\ Resumes /\ Nests
<1>1. PICK c : \E n \in Interrupts(c) :
       LET level == Level(c, <<"irq", n>>)
       IN /\ GoesOn(i, c)
          /\ cpu' = Tick(Exception(c, <<"irq", n>>, c.pc, 0))
          /\ saved' = SavedAs(i, level, Context(c, c.pc, level))
          /\ did'.i = i /\ did'.level = level
  BY DEF EndsInterrupted
<1>2. PICK n \in Interrupts(c) :
       LET level == Level(c, <<"irq", n>>)
       IN /\ GoesOn(i, c)
          /\ cpu' = Tick(Exception(c, <<"irq", n>>, c.pc, 0))
          /\ saved' = SavedAs(i, level, Context(c, c.pc, level))
          /\ did'.i = i /\ did'.level = level
  BY <1>1
<1> DEFINE cause == <<"irq", n>>
           level == Level(c, cause)
           e == Exception(c, cause, c.pc, 0)
<1>3. /\ GoesOn(i, c) /\ cpu' = Tick(e) /\ did'.i = i /\ did'.level = level
      /\ saved' = SavedAs(i, level, Context(c, c.pc, level))
  BY <1>2
<1>4. c \in Cpus /\ level \in {"m", "s"}
  BY <1>3, GoesOnTypes, LevelTypes DEF IInv
<1>5. cause \in Cause /\ c.pc \in Address /\ 0 \in Address
  <2>1. c.mip \in SUBSET IrqBits /\ c.pc \in Address
    BY <1>4 DEF Cpus
  <2>2. n \in 0 .. 31
    BY <2>1 DEF Interrupts, IrqBits
  <2> QED
    BY <2>1, <2>2, Sizes DEF Cause
<1>6. e \in Cpus
  BY <1>4, <1>5, ExceptionTypes
<1>7. Nested(c, Left(i)) /\ Left(i) \in Saved
  <2>1. saved \in Saved
    BY DEF IInv, Types
  <2> QED
    BY <1>3, <2>1, GoesOnNests, SavedAsTypes DEF Left
<1> HIDE DEF level, e
<1>8. PICK sv \in Saved : sv = saved'
  OBVIOUS
<1>9. /\ sv[level] = Context(c, c.pc, level)
      /\ \A l \in {"m", "s"} \ {level} : sv[l] = Left(i)[l]
  BY <1>3, <1>4, <1>8, LeftIs DEF SavedAs
<1>10. Nested(e, sv) /\ c.mpriv <= e.mpriv
  BY <1>4, <1>7, <1>9, TrapNests DEF level, e
<1>11. Alike(e, cpu')
  BY <1>3, <1>6, TickAlike
<1>12. Nested(cpu', saved')
  <2>1. PICK d : d = cpu'
    OBVIOUS
  <2>2. Alike(e, d)
    BY <1>11, <2>1
  <2>3. Nested(d, sv)
    BY <1>10, <2>2, AlikeNests
  <2> QED
    BY <1>8, <2>1, <2>3
<1>13. /\ Context(c, c.pc, level).pc = c.pc
       /\ Context(c, c.pc, level).priv = c.mpriv
  BY <1>4, ContextTypes
<1>14. did'.level # None
  BY <1>3, <1>4, CauseNotNone
<1>15. Resumes
  <2>1. \A lv, ctx : Resumed(lv, ctx) <=> c.pc = ctx.pc /\ c.mpriv = ctx.priv
    BY <1>3, <1>8, <1>9, <1>13, <1>14 DEF Resumed
  <2>2. /\ i.op = "mret" /\ saved["m"] # None => Context(c, c.pc, "m") = saved["m"]
        /\ i.op = "sret" /\ saved["s"] # None => Context(c, c.pc, "s") = saved["s"]
    BY <1>3, ReturnMeets
  <2>3. \A l \in {"m", "s"} : Context(c, c.pc, l).pc = c.pc /\ Context(c, c.pc, l).priv = c.mpriv
    BY <1>4, ContextTypes
  <2> QED
    BY <1>3, <2>1, <2>2, <2>3 DEF Resumes
<1>16. Nests
  <2>1. saved'[did'.level].priv <= cpu'.mpriv
    <3>1. cpu'.mpriv = e.mpriv
      BY <1>11 DEF Alike
    <3> QED
      BY <1>3, <1>8, <1>9, <1>10, <1>13, <3>1
  <2>2. Left(i)[level] = None
    BY <1>4, <1>7, InterruptsFree DEF level
  <2>3. saved[level] = None \/ Ends(i, level)
    BY <1>4, <2>2, LeftIs
  <2> QED
    BY <1>3, <2>1, <2>3 DEF Nests
<1> QED
  BY <1>12, <1>15, <1>16

(* An instruction, or a fetch, that traps.                                 *)
LEMMA TrappedStep ==
    ASSUME IInv, NEW i, EndsTrapped(i), saved' \in Saved
    PROVE  Nested(cpu', saved') /\ Resumes /\ Nests
<1>1. PICK n \in 0 .. 31, badaddr \in Address : \E e :
       LET level == Level(cpu, <<"trap", n>>)
       IN /\ i.op \notin {"mret", "sret", "rw", "rs", "rc"}
          /\ e = TrapTo(n, badaddr) \/ e = [TrapTo(n, badaddr) EXCEPT !.stopped = TRUE]
          /\ cpu' = Tick(e)
          /\ saved' = SavedAs(i, level, Context(cpu, cpu.pc, level))
          /\ did'.i = i /\ did'.level = level /\ did'.cause = <<"trap", n>>
  BY DEF EndsTrapped
<1> DEFINE cause == <<"trap", n>>
           level == Level(cpu, cause)
           t == Exception(cpu, cause, cpu.pc, badaddr)
<1>2. PICK e : /\ i.op \notin {"mret", "sret", "rw", "rs", "rc"}
               /\ e = t \/ e = [t EXCEPT !.stopped = TRUE]
               /\ cpu' = Tick(e)
               /\ saved' = SavedAs(i, level, Context(cpu, cpu.pc, level))
               /\ did'.i = i /\ did'.level = level /\ did'.cause = cause
  BY <1>1 DEF TrapTo
<1>3. cpu \in Cpus /\ saved \in Saved /\ Nested(cpu, saved) /\ level \in {"m", "s"}
  BY LevelTypes DEF IInv, Types
<1>4. cause \in Cause /\ cpu.pc \in Address
  BY <1>3 DEF Cause, Cpus
<1>5. t \in Cpus
  BY <1>3, <1>4, ExceptionTypes
<1>6. did'.cause[1] # "irq"
  BY <1>2
<1> HIDE DEF level, t, cause
<1>7. e \in Cpus /\ Alike(t, e)
  <2>1. [t EXCEPT !.stopped = TRUE] \in Cpus /\ Alike(t, [t EXCEPT !.stopped = TRUE]) /\ Alike(t, t)
    BY <1>5 DEF Alike, Cpus
  <2> QED
    BY <1>2, <1>5, <2>1
<1>8. PICK sv \in Saved : sv = saved'
  OBVIOUS
<1>9. /\ sv[level] = Context(cpu, cpu.pc, level)
      /\ \A l \in {"m", "s"} \ {level} : sv[l] = saved[l]
  <2>1. \A l \in {"m", "s"} : ~Ends(i, l)
    BY <1>2 DEF Ends
  <2> QED
    BY <1>2, <1>3, <1>8, <2>1 DEF SavedAs
<1>10. Nested(t, sv) /\ cpu.mpriv <= t.mpriv
  BY <1>3, <1>9, TrapNests DEF level, t
<1>11. Alike(t, cpu')
  <2>1. Alike(e, cpu')
    BY <1>2, <1>7, TickAlike
  <2> QED
    BY <1>7, <2>1 DEF Alike
<1>12. Nested(cpu', saved')
  <2>1. PICK d : d = cpu'
    OBVIOUS
  <2>2. Alike(t, d)
    BY <1>11, <2>1
  <2>3. Nested(d, sv)
    BY <1>10, <2>2, AlikeNests
  <2> QED
    BY <1>8, <2>1, <2>3
<1>13. Resumes
  BY <1>2 DEF Resumes
<1>14. Nests
  <2>1. Context(cpu, cpu.pc, level).priv = cpu.mpriv
    BY <1>3, ContextTypes
  <2>2. cpu'.mpriv = t.mpriv
    BY <1>11 DEF Alike
  <2> QED
    BY <1>2, <1>6, <1>8, <1>9, <1>10, <2>1, <2>2 DEF Nests
<1> QED
  BY <1>12, <1>13, <1>14

(* What holds along a step.                                                *)
LEMMA StepNests ==
    IInv /\ [Next]_vars => IInv' /\ (Stepped => Resumes /\ Nests)
<1> SUFFICES ASSUME IInv, [Next]_vars
             PROVE  IInv' /\ (Stepped => Resumes /\ Nests)
  OBVIOUS
<1>1. Types /\ Types'
  BY StepTypes DEF IInv
<1>2. saved' \in Saved
  BY <1>1 DEF Types
<1>3. ASSUME NEW i, NEW out, NEW fetch, Instruction(i, out, fetch)
      PROVE  Nested(cpu', saved') /\ Resumes /\ Nests
  <2>1. EndsPlain(i) \/ EndsInterrupted(i) \/ EndsTrapped(i)
    BY <1>1, <1>3, InstructionEnds
  <2> QED
    BY <1>2, <2>1, PlainStep, InterruptedStep, TrappedStep
<1>4. CASE Die
  <2>1. cpu' = cpu /\ saved' = saved
    BY <1>4 DEF Die
  <2>2. ~Stepped /\ Nested(cpu', saved')
    BY <2>1 DEF Stepped, IInv
  <2> QED
    BY <1>1, <2>2 DEF IInv
<1>5. CASE SetInterrupt
  <2>1. PICK mip : mip = cpu.mip \cup {11}
    OBVIOUS
  <2>2. cpu' = [cpu EXCEPT !.mip = mip] /\ saved' = saved
    BY <1>5, <2>1 DEF SetInterrupt
  <2>3. Alike(cpu, [cpu EXCEPT !.mip = mip]) /\ cpu'.mtime = cpu.mtime
    BY <1>1, <2>2 DEF Alike, Types, Cpus
  <2>4. Nested([cpu EXCEPT !.mip = mip], saved)
    BY <2>3, AlikeNests DEF IInv
  <2>5. ~Stepped /\ Nested(cpu', saved')
    BY <2>2, <2>3, <2>4 DEF Stepped
  <2> QED
    BY <1>1, <2>5 DEF IInv
<1>6. CASE UNCHANGED vars
  <2>1. cpu' = cpu /\ saved' = saved
    BY <1>6 DEF vars
  <2>2. ~Stepped /\ Nested(cpu', saved')
    BY <2>1 DEF Stepped, IInv
  <2> QED
    BY <1>1, <2>2 DEF IInv
<1>7. CASE \E i, out, fetch : Instruction(i, out, fetch)
  <2>1. Nested(cpu', saved') /\ Resumes /\ Nests
    BY <1>3, <1>7
  <2> QED
    BY <1>1, <2>1 DEF IInv
<1> QED
  BY <1>1, <1>4, <1>5, <1>6, <1>7, Steps

(* At the start there are no contexts, so all of them are held.            *)
LEMMA InitNests == Init => IInv
<1> SUFFICES ASSUME Init PROVE IInv
  OBVIOUS
<1>1. saved["m"] = None /\ saved["s"] = None
  BY DEF Init
<1> QED
  BY <1>1, InitTypes DEF IInv, Nested, HoldsM, HoldsS

(* A return goes back to where its trap came from, at its privilege and    *)
(* with its interrupts, whatever traps and interrupts came in between.     *)
THEOREM ReturnsToItsContext == Spec => ReturnsToContext
<1>1. Init => IInv
  BY InitNests
<1>2. IInv /\ [Next]_vars => IInv'
  BY StepNests
<1>3. IInv /\ [Next]_vars =>
        [Stepped =>
         /\ did'.i.op = "mret" /\ saved["m"] # None => Resumed("m", saved["m"])
         /\ did'.i.op = "sret" /\ saved["s"] # None => Resumed("s", saved["s"])]_vars
  BY StepNests DEF Resumes
<1> QED
  BY <1>1, <1>2, <1>3, PTL DEF Spec, ReturnsToContext

(* A trap never lowers the privilege, and an interrupt never overwrites    *)
(* the context of a trap that is not over.                                 *)
THEOREM TrapsAreNested == Spec => TrapsNest
<1>1. Init => IInv
  BY InitNests
<1>2. IInv /\ [Next]_vars => IInv'
  BY StepNests
<1>3. IInv /\ [Next]_vars =>
        [Stepped /\ did'.level # None =>
         /\ saved'[did'.level].priv <= cpu'.mpriv
         /\ did'.cause[1] = "irq" => \/ saved[did'.level] = None
                                     \/ Ends(did'.i, did'.level)]_vars
  BY StepNests DEF Nests
<1> QED
  BY <1>1, <1>2, <1>3, PTL DEF Spec, TrapsNest

-----------------------------------------------------------------------------
(* Division. *)


(* Division by b of a number written with b.                               *)
LEMMA DivUnique ==
    ASSUME NEW b \in Nat, NEW q \in Nat, NEW r \in Nat, r < b
    PROVE  (q * b + r) \div b = q /\ (q * b + r) % b = r
OBVIOUS

WrittenWith(x, b, c) ==
    /\ b * c \in Nat \ {0}
    /\ (x \div b) \div c = x \div (b * c)
    /\ x % (b * c) = ((x \div b) % c) * b + (x % b)
    /\ (x % (b * c)) \div b = (x \div b) % c
    /\ (x % (b * c)) % b = x % b

(* A number divided by a product is divided by the one and the other.      *)
LEMMA Digits ==
    ASSUME NEW x \in Nat, NEW b \in Nat \ {0}, NEW c \in Nat \ {0}
    PROVE  WrittenWith(x, b, c)
<1>1. PICK q \in Nat, r \in Nat : q = x \div b /\ r = x % b /\ r < b /\ x = q * b + r
  OBVIOUS
<1>2. PICK s \in Nat, t \in Nat : s = q \div c /\ t = q % c /\ t < c /\ q = s * c + t
  OBVIOUS
<1>3. PICK n \in Nat : n = b * c /\ n > 0
  OBVIOUS
<1>4. PICK d \in Nat : d = t * b + r /\ d < n
  <2>1. t * b <= (c - 1) * b
    BY <1>2
  <2>2. (c - 1) * b = b * c - b
    OBVIOUS
  <2> QED
    BY <1>1, <1>3, <2>1, <2>2
<1>5. x = s * n + d
  <2>0. \A u, v, w, y \in Nat : (u * v + w) * y = u * (y * v) + w * y
    OBVIOUS
  <2>1. (s * c + t) * b = s * (b * c) + t * b
    BY <2>0
  <2>2. q * b = s * n + t * b
    BY <1>2, <1>3, <2>1, Zenon
  <2>3. s * n \in Nat /\ t * b \in Nat
    OBVIOUS
  <2> QED
    BY <1>1, <1>4, <2>2, <2>3
<1>6. x \div n = s /\ x % n = d
  BY <1>3, <1>4, <1>5, DivUnique
<1>7. d \div b = t /\ d % b = r
  BY <1>1, <1>4, DivUnique
<1>8. b * c \in Nat \ {0}
  BY <1>3
<1>9. (x \div b) \div c = x \div (b * c)
  BY <1>1, <1>2, <1>3, <1>6, Zenon
<1>10. x % (b * c) = ((x \div b) % c) * b + (x % b)
  BY <1>1, <1>2, <1>3, <1>4, <1>6, Zenon
<1>11. (x % (b * c)) \div b = (x \div b) % c
  BY <1>1, <1>2, <1>3, <1>4, <1>6, <1>7, Zenon
<1>12. (x % (b * c)) % b = x % b
  BY <1>1, <1>2, <1>3, <1>4, <1>6, <1>7, Zenon
<1> QED
  BY <1>8, <1>9, <1>10, <1>11, <1>12, Zenon DEF WrittenWith

-----------------------------------------------------------------------------
(* Words and bytes of the memory. *)

(* Regions that begin and end at a word.                                   *)
WholeWords(mem) ==
    \A j \in 1 .. Len(mem) : mem[j].base % 4 = 0 /\ mem[j].size % 4 = 0

(* The word an address lies in.                                            *)
WordAt(mem, a) == LET r == mem[RegionOf(mem, a)] IN r.words[(a - r.base) \div 4]

(* The value of some bytes of a word, from the lane of address a on.       *)
Bits(word, a, width) == (word \div ValuesOf(a % 4)) % ValuesOf(width)

(* An address and its region.                                              *)
LEMMA Located ==
    ASSUME NEW mem \in Memories, NEW a \in Int, Valid(mem, a)
    PROVE  LET j == RegionOf(mem, a) IN
           /\ j \in 1 .. Len(mem) /\ mem[j] \in Region
           /\ mem[j].base \in Nat /\ mem[j].size \in Nat
           /\ mem[j].base + mem[j].size < WordValues
           /\ a >= mem[j].base /\ a < mem[j].base + mem[j].size
           /\ a \in Nat /\ WordAt(mem, a) \in Nat /\ WordAt(mem, a) < WordValues
           /\ (a - mem[j].base) \div 4 \in DOMAIN mem[j].words
<1> DEFINE j == RegionOf(mem, a)
           r == mem[j]
<1>1. mem \in Seq(Region) /\ Len(mem) \in Nat
  BY DEF Memories
<1>2. j \in 1 .. Len(mem) /\ Covers(mem[j], a)
  BY RegionFound
<1>3. r \in Region
  BY <1>1, <1>2
<1>4. WordAt(mem, a) = r.words[(a - r.base) \div 4]
  BY DEF WordAt
<1>5. Covers(r, a)
  BY <1>2
<1> HIDE DEF r
<1>6. r.base \in Nat /\ r.size \in Nat /\ r.base + r.size < WordValues
  BY <1>3, RegionParts
<1>7. a >= r.base /\ a < r.base + r.size /\ a \in Nat
  BY <1>5, <1>6 DEF Covers
<1>8. (a - r.base) \div 4 \in 0 .. (r.size + 3) \div 4 - 1
  BY <1>6, <1>7
<1>9. r.words \in [0 .. (r.size + 3) \div 4 - 1 -> Address]
  BY <1>3, RegionParts
<1>10. r.words[(a - r.base) \div 4] \in Address /\ (a - r.base) \div 4 \in DOMAIN r.words
  BY <1>8, <1>9
<1>11. WordAt(mem, a) \in Nat /\ WordAt(mem, a) < WordValues
  BY <1>4, <1>10, Sizes DEF Address
<1> QED
  BY <1>2, <1>3, <1>6, <1>7, <1>10, <1>11 DEF r

(* All bytes of a word lie in one region.                                  *)
LEMMA SameWord ==
    ASSUME NEW mem \in Memories, WholeWords(mem), NEW a \in Nat, NEW b \in Nat,
           a \div 4 = b \div 4, Valid(mem, a)
    PROVE  /\ Valid(mem, b) /\ RegionOf(mem, b) = RegionOf(mem, a)
           /\ WordAt(mem, b) = WordAt(mem, a)
<1>1. mem \in Seq(Region) /\ Len(mem) \in Nat
  BY DEF Memories
<1>2. ASSUME NEW j \in 1 .. Len(mem)
      PROVE  /\ mem[j].base \in Nat /\ mem[j].size \in Nat
             /\ mem[j].base % 4 = 0 /\ mem[j].size % 4 = 0
  <2>1. mem[j] \in Region
    BY <1>1
  <2> QED
    BY <2>1, RegionParts DEF WholeWords
<1>3. \A base, size \in Nat : base % 4 = 0 /\ size % 4 = 0 =>
         (a >= base /\ a < base + size <=> b >= base /\ b < base + size)
  OBVIOUS
<1>4. \A j \in 1 .. Len(mem) : Covers(mem[j], a) <=> Covers(mem[j], b)
  BY <1>2, <1>3 DEF Covers
<1>5. Valid(mem, b)
  BY <1>4 DEF Valid
<1>6. RegionOf(mem, b) = RegionOf(mem, a)
  <2>1. {j \in 1 .. Len(mem) : Covers(mem[j], a)} = {j \in 1 .. Len(mem) : Covers(mem[j], b)}
    BY <1>4
  <2> QED
    BY <2>1, Zenon DEF RegionOf, SelectInSeq
<1>7. PICK j \in 1 .. Len(mem) : j = RegionOf(mem, a)
  BY Located
<1>8. \A base \in Nat : base % 4 = 0 => (a - base) \div 4 = (b - base) \div 4
  OBVIOUS
<1>9. (a - mem[j].base) \div 4 = (b - mem[j].base) \div 4
  BY <1>2, <1>8
<1> QED
  BY <1>5, <1>6, <1>7, <1>9 DEF WordAt

(* The lane of an address in its word.                                     *)
LEMMA LaneOf ==
    ASSUME NEW mem \in Memories, WholeWords(mem), NEW a \in Int, Valid(mem, a)
    PROVE  (a - mem[RegionOf(mem, a)].base) % 4 = a % 4
<1>1. PICK j \in 1 .. Len(mem) : /\ j = RegionOf(mem, a) /\ mem[j].base \in Nat
                                 /\ a \in Nat /\ a >= mem[j].base
  BY Located
<1>2. mem[j].base % 4 = 0
  BY DEF WholeWords
<1>3. \A base \in Nat : base % 4 = 0 /\ a >= base => (a - base) % 4 = a % 4
  BY <1>1
<1> QED
  BY <1>1, <1>2, <1>3

(* What a load returns.                                                    *)
LEMMA ReadIs ==
    ASSUME NEW mem \in Memories, WholeWords(mem), NEW a \in Int, Valid(mem, a),
           NEW width, NEW signed
    PROVE  LET v == Bits(WordAt(mem, a), a, width)
           IN Read(mem, a, width, signed) =
                 IF signed /\ v >= ValuesOf(width) \div 2
                 THEN WordValues - ValuesOf(width) + v ELSE v
<1> DEFINE r == mem[RegionOf(mem, a)]
<1>1. (a - r.base) % 4 = a % 4
  BY LaneOf
<1>2. Read(mem, a, width, signed) = LoadFrom(r, a - r.base, width, signed)
  BY DEF Read
<1>3. WordAt(mem, a) = LoadWord(r, a - r.base)
  BY DEF WordAt, LoadWord
<1> HIDE DEF r
<1>4. Bits(WordAt(mem, a), a, width) =
        (LoadWord(r, a - r.base) \div ValuesOf((a - r.base) % 4)) % ValuesOf(width)
  BY <1>1, <1>3, Zenon DEF Bits
<1> QED
  BY <1>2, <1>4, Zenon DEF LoadFrom

(* A byte of the memory is its part of the word it is in.                  *)
LEMMA ByteIs ==
    ASSUME NEW mem \in Memories, WholeWords(mem), NEW a \in Int, Valid(mem, a)
    PROVE  ByteAt(mem, a) = Bits(WordAt(mem, a), a, 1)
<1> DEFINE v == Bits(WordAt(mem, a), a, 1)
<1>1. Read(mem, a, 1, FALSE) = IF FALSE /\ v >= ValuesOf(1) \div 2
                               THEN WordValues - ValuesOf(1) + v ELSE v
  BY ReadIs, Zenon
<1> HIDE DEF v
<1>2. Read(mem, a, 1, FALSE) = v
  BY <1>1
<1> QED
  BY <1>2 DEF ByteAt, v

(* The bytes of the lanes from a on, put together, are what those lanes    *)
(* hold.                                                                   *)
LEMMA LittleEndianIs ==
    ASSUME NEW mem \in Memories, WholeWords(mem), NEW a \in Int, Valid(mem, a),
           NEW width \in {1, 2, 4}, a % width = 0
    PROVE  LittleEndian(mem, a, width) = Bits(WordAt(mem, a), a, width)
<1> DEFINE x == WordAt(mem, a) \div ValuesOf(a % 4)
           Part(n) == ByteAt(mem, a + n - 1) * ValuesOf(n - 1)
           g == [n \in 1 .. width |-> [s \in Int |-> s + Part(n)]]
           Unroll(sum) == [n \in 0 .. width |-> IF n = 0 THEN 0 ELSE sum[n - 1] + Part(n)]
           sum == CHOOSE f : f = Unroll(f)
<1>1. a \in Nat /\ WordAt(mem, a) \in Nat /\ a % 4 \in 0 .. 3 /\ (a % 4) + width <= 4
  BY Located, Lanes
<1>2. x \in Nat
  <2>1. ValuesOf(a % 4) \in Nat /\ ValuesOf(a % 4) > 0
    BY <1>1, Quotients
  <2>2. PICK w \in Nat : w = WordAt(mem, a)
    BY <1>1
  <2> QED
    BY <2>1, <2>2, Quotients
<1>3. ASSUME NEW k \in Nat, k < width
      PROVE  ByteAt(mem, a + k) = (x \div ValuesOf(k)) % Byte
  <2>1. (a + k) \div 4 = a \div 4 /\ (a + k) % 4 = (a % 4) + k /\ a + k \in Nat
    BY <1>1, <1>3
  <2>2. Valid(mem, a + k) /\ WordAt(mem, a + k) = WordAt(mem, a)
    BY <1>1, <2>1, SameWord
  <2>3. ByteAt(mem, a + k) = (WordAt(mem, a) \div ValuesOf((a % 4) + k)) % Byte
    <3>1. ByteAt(mem, a + k) = Bits(WordAt(mem, a + k), a + k, 1)
      BY <2>1, <2>2, ByteIs
    <3>2. ValuesOf(1) = Byte
      BY DEF ValuesOf
    <3> QED
      BY <2>1, <2>2, <3>1, <3>2, Zenon DEF Bits
  <2>4. ValuesOf((a % 4) + k) = ValuesOf(a % 4) * ValuesOf(k)
    BY <1>1, <1>3, Powers
  <2>5. PICK lane \in Nat \ {0}, v \in Nat \ {0} : lane = ValuesOf(a % 4) /\ v = ValuesOf(k)
    BY <1>1, <1>3, Quotients
  <2>6. PICK w \in Nat : w = WordAt(mem, a)
    BY <1>1
  <2>7. (w \div lane) \div v = w \div (lane * v)
    <3>1. WrittenWith(w, lane, v)
      BY Digits
    <3> QED
      BY <3>1, Zenon DEF WrittenWith
  <2> QED
    BY <2>3, <2>4, <2>5, <2>6, <2>7, Zenon
<1> HIDE DEF x
<1>4. \A n \in 1 .. width : Part(n) = ((x \div ValuesOf(n - 1)) % Byte) * ValuesOf(n - 1)
  <2> SUFFICES ASSUME NEW n \in 1 .. width
               PROVE  Part(n) = ((x \div ValuesOf(n - 1)) % Byte) * ValuesOf(n - 1)
    OBVIOUS
  <2>1. PICK k \in Nat : k = n - 1 /\ k < width /\ a + n - 1 = a + k
    BY <1>1
  <2> QED
    BY <1>3, <2>1
<1>5. \A n \in 1 .. width : Part(n) \in Int
  <2> SUFFICES ASSUME NEW n \in 1 .. width PROVE Part(n) \in Int
    OBVIOUS
  <2>1. PICK v \in Nat : v = ValuesOf(n - 1) /\ v > 0
    BY Quotients
  <2>2. PICK y \in Int : y = (x \div v) % Byte
    BY <1>2, <2>1, SimMemoryAssumption
  <2> HIDE DEF Part
  <2> QED
    BY <1>4, <2>1, <2>2
<1> HIDE DEF Part
<1>6. Rounds(g, width, Int)
  BY <1>5 DEF Rounds
<1>7. \A s \in Int, n \in 1 .. width : g[n][s] = s + Part(n)
  OBVIOUS
<1> HIDE DEF g
<1>8. PICK f \in [0 .. width -> Int] : /\ f[0] = 0
                                       /\ \A n \in 1 .. width : f[n] = g[n][f[n - 1]]
  <2> HIDE DEF Unroll, sum
  <2>1. PICK zero \in Int : zero = 0
    OBVIOUS
  <2>2. PICK N \in Nat : N = width
    OBVIOUS
  <2>3. PICK ints : ints = Int
    OBVIOUS
  <2>4. Rounds(g, N, ints) /\ zero \in ints
    BY <1>6, <2>2, <2>3
  <2>5. \E f \in [0 .. N -> ints] : /\ f[0] = zero
                                    /\ \A n \in 1 .. N : f[n] = g[n][f[n - 1]]
    BY <2>4, Iteration
  <2> QED
    BY <2>1, <2>2, <2>3, <2>5
<1>9. f = Unroll(f)
  <2>1. ASSUME NEW n \in 0 .. width
        PROVE  f[n] = IF n = 0 THEN 0 ELSE f[n - 1] + Part(n)
    <3>1. CASE n = 0
      BY <1>8, <3>1
    <3>2. CASE n # 0
      <4>1. n \in 1 .. width /\ n - 1 \in 0 .. width
        BY <3>2
      <4>2. f[n - 1] \in Int
        BY <4>1
      <4> QED
        BY <1>7, <1>8, <3>2, <4>1, <4>2
    <3> QED
      BY <3>1, <3>2
  <2> QED
    BY <2>1
<1>10. sum = Unroll(sum)
  BY <1>9
<1> HIDE DEF sum
<1>11. sum[0] = 0 /\ \A n \in 1 .. width : sum[n] = sum[n - 1] + Part(n)
  BY <1>10
<1>12. sum[0] = x % ValuesOf(0)
  BY <1>2, <1>11 DEF ValuesOf
<1>13. ASSUME NEW n \in 1 .. width, sum[n - 1] = x % ValuesOf(n - 1)
       PROVE  sum[n] = x % ValuesOf(n)
  <2>1. PICK k \in 0 .. 3 : k = n - 1
    OBVIOUS
  <2>2. ValuesOf(n) = ValuesOf(k) * Byte
    <3>1. ValuesOf(k + 1) = ValuesOf(k) * ValuesOf(1)
      BY Powers
    <3>2. ValuesOf(1) = Byte /\ n = k + 1
      BY <2>1 DEF ValuesOf
    <3> QED
      BY <3>1, <3>2
  <2>3. PICK v \in Nat \ {0} : v = ValuesOf(k)
    BY Quotients
  <2>4. Byte \in Nat \ {0}
    BY SimMemoryAssumption
  <2>5. x % (v * Byte) = ((x \div v) % Byte) * v + (x % v)
    <3>1. WrittenWith(x, v, Byte)
      BY <1>2, <2>4, Digits
    <3> QED
      BY <3>1, Zenon DEF WrittenWith
  <2>6. sum[n] = (x % v) + ((x \div v) % Byte) * v
    BY <1>4, <1>11, <1>13, <2>1, <2>3
  <2>7. x % v \in Nat /\ ((x \div v) % Byte) * v \in Int
    BY <1>2, <2>4
  <2>8. PICK s \in Nat, t \in Int : s = x % v /\ t = ((x \div v) % Byte) * v
    BY <2>7
  <2>9. s + t = t + s
    OBVIOUS
  <2> QED
    BY <2>2, <2>3, <2>5, <2>6, <2>8, <2>9, Zenon
<1>14. sum[width] = x % ValuesOf(width)
  <2>1. sum[1] = x % ValuesOf(1)
    BY <1>12, <1>13
  <2>2. width > 1 => sum[2] = x % ValuesOf(2)
    BY <1>13, <2>1
  <2>3. width > 2 => sum[3] = x % ValuesOf(3)
    BY <1>13, <2>2
  <2>4. width > 3 => sum[4] = x % ValuesOf(4)
    BY <1>13, <2>3
  <2> QED
    BY <2>1, <2>2, <2>4
<1>15. LittleEndian(mem, a, width) = sum[width]
  BY DEF LittleEndian, sum, Part
<1> QED
  BY <1>14, <1>15 DEF Bits, x

(* A word after a store: d in the lane of v values above l others, what    *)
(* was there elsewhere.                                                    *)
Merged(old, l, v, d) == ((old \div (l * v)) * (l * v)) + ((d % v) * l) + (old % l)

SameBelow(new, old, l) == new % l = old % l
SameAbove(new, old, n) == new \div n = old \div n

IsMerged(new, old, l, v, d) ==
    /\ new \in Nat
    /\ (new \div l) % v = d % v
    /\ SameBelow(new, old, l)
    /\ SameAbove(new, old, l * v)

(* A merged number has the new digits where they go and the old ones       *)
(* elsewhere.                                                              *)
LEMMA MergedParts ==
    ASSUME NEW old \in Nat, NEW l \in Nat \ {0}, NEW v \in Nat \ {0}, NEW d \in Nat
    PROVE  IsMerged(Merged(old, l, v, d), old, l, v, d)
<1>1. PICK n \in Nat : n = l * v /\ n > 0
  OBVIOUS
<1>2. PICK h \in Nat, e \in Nat, r \in Nat : h = old \div n /\ e = d % v /\ r = old % l /\ e < v /\ r < l
  BY <1>1
<1>3. PICK new \in Nat : new = h * n + e * l + r
  OBVIOUS
<1>4. Merged(old, l, v, d) = new
  BY <1>1, <1>2, <1>3, Zenon DEF Merged
<1>5. PICK t \in Nat : t = e * l + r /\ t < n
  <2>1. \A x, y, z \in Nat : x < y => x * z \in Nat /\ x * z <= z * y - z
    OBVIOUS
  <2>2. e * l \in Nat /\ e * l <= n - l
    BY <1>1, <1>2, <2>1
  <2> QED
    BY <1>2, <2>2
<1>6. new = h * n + t
  <2>1. h * n \in Nat /\ e * l \in Nat
    OBVIOUS
  <2> QED
    BY <1>3, <1>5, <2>1
<1>7. new \div n = h
  BY <1>1, <1>5, <1>6, DivUnique
<1>8. PICK q \in Nat : q = h * v + e
  OBVIOUS
<1>9. new = q * l + r
  <2>1. \A x, y, z, w \in Nat : (x * y + z) * w = x * (w * y) + z * w
    OBVIOUS
  <2>2. (h * v + e) * l = h * (l * v) + e * l
    BY <2>1
  <2>3. q * l = h * n + e * l
    BY <1>1, <1>8, <2>2, Zenon
  <2> QED
    BY <1>3, <2>3, Zenon
<1>10. new \div l = q /\ new % l = r
  BY <1>2, <1>9, DivUnique
<1>11. q % v = e
  BY <1>2, <1>8, DivUnique
<1> QED
  BY <1>1, <1>2, <1>4, <1>7, <1>10, <1>11, Zenon DEF IsMerged, SameBelow, SameAbove

(* A store changes one word of one region, and nothing else.               *)
LEMMA WriteParts ==
    ASSUME NEW mem \in Memories, WholeWords(mem), NEW a \in Int, Valid(mem, a),
           NEW data, NEW width
    PROVE  LET next == Write(mem, a, data, width)
               j    == RegionOf(mem, a)
               w    == (a - mem[j].base) \div 4
               word == Merged(WordAt(mem, a), ValuesOf(a % 4), ValuesOf(width), data)
           IN /\ Len(next) = Len(mem)
              /\ \A k \in 1 .. Len(mem) :
                    /\ next[k].base = mem[k].base /\ next[k].size = mem[k].size
                    /\ \A n \in DOMAIN mem[k].words :
                          next[k].words[n] = IF k = j /\ n = w THEN word ELSE mem[k].words[n]
<1> DEFINE next == Write(mem, a, data, width)
           j    == RegionOf(mem, a)
           r    == mem[j]
           w    == (a - r.base) \div 4
           word == Merged(WordAt(mem, a), ValuesOf(a % 4), ValuesOf(width), data)
           s    == StoreTo(r, a - r.base, data, width)
<1>1. mem \in Seq(Region) /\ j \in 1 .. Len(mem)
  BY Located DEF Memories
<1>2. next = [mem EXCEPT ![j] = s]
  BY DEF Write
<1>3. Len(next) = Len(mem)
  <2> HIDE DEF s, j
  <2> QED
    BY <1>1, <1>2
<1>4. s = [r EXCEPT !.words[w] = word]
  <2>1. (a - r.base) % 4 = a % 4
    BY LaneOf
  <2>2. WordAt(mem, a) = LoadWord(r, a - r.base)
    BY DEF WordAt, LoadWord
  <2> HIDE DEF r
  <2>3. word = ((LoadWord(r, a - r.base) \div (ValuesOf((a - r.base) % 4) * ValuesOf(width)))
                   * (ValuesOf((a - r.base) % 4) * ValuesOf(width)))
               + ((data % ValuesOf(width)) * ValuesOf((a - r.base) % 4))
               + (LoadWord(r, a - r.base) % ValuesOf((a - r.base) % 4))
    BY <2>1, <2>2, Zenon DEF Merged
  <2> HIDE DEF word
  <2>4. s = [r EXCEPT !.words[w] =
               ((LoadWord(r, a - r.base) \div (ValuesOf((a - r.base) % 4) * ValuesOf(width)))
                   * (ValuesOf((a - r.base) % 4) * ValuesOf(width)))
               + ((data % ValuesOf(width)) * ValuesOf((a - r.base) % 4))
               + (LoadWord(r, a - r.base) % ValuesOf((a - r.base) % 4))]
    BY Zenon DEF StoreTo
  <2> QED
    BY <2>3, <2>4, Zenon
<1>5. ASSUME NEW k \in 1 .. Len(mem)
      PROVE  mem[k] \in [base : Address, size : Address, words : UNION {[0 .. n - 1 -> Address] : n \in Nat}]
  BY <1>1 DEF Region
<1> HIDE DEF word, w
<1>6. /\ s.base = r.base /\ s.size = r.size
      /\ \A n \in DOMAIN r.words : s.words[n] = IF n = w THEN word ELSE r.words[n]
  <2>1. r \in [base : Address, size : Address, words : UNION {[0 .. n - 1 -> Address] : n \in Nat}]
    BY <1>1, <1>5
  <2> HIDE DEF s, r
  <2> QED
    BY <1>4, <2>1
<1>7. \A k \in 1 .. Len(mem) : next[k] = IF k = j THEN s ELSE mem[k]
  <2> HIDE DEF s, j, next
  <2> QED
    BY <1>1, <1>2
<1> HIDE DEF s, j, next
<1>8. \A k \in 1 .. Len(mem) :
        /\ next[k].base = mem[k].base /\ next[k].size = mem[k].size
        /\ \A n \in DOMAIN mem[k].words :
              next[k].words[n] = IF k = j /\ n = w THEN word ELSE mem[k].words[n]
  BY <1>6, <1>7
<1> QED
  BY <1>3, <1>8 DEF next, j, w, word

(* Memories whose regions are in the same places.                          *)
Alongside(mem, next) ==
    /\ Len(next) = Len(mem)
    /\ \A k \in 1 .. Len(mem) : next[k].base = mem[k].base /\ next[k].size = mem[k].size

(* Such memories have the same addresses, in the same regions, and whole   *)
(* words alike.                                                            *)
LEMMA SameRegions ==
    ASSUME NEW mem, NEW next, Alongside(mem, next)
    PROVE  /\ WholeWords(mem) => WholeWords(next)
           /\ \A b : /\ Valid(next, b) <=> Valid(mem, b)
                     /\ RegionOf(next, b) = RegionOf(mem, b)
<1>1. Len(next) = Len(mem)
  BY DEF Alongside
<1>2. ASSUME NEW b
      PROVE  \A k \in 1 .. Len(mem) : Covers(next[k], b) <=> Covers(mem[k], b)
  BY DEF Covers, Alongside
<1>3. ASSUME NEW b
      PROVE  {k \in 1 .. Len(next) : Covers(next[k], b)} = {k \in 1 .. Len(mem) : Covers(mem[k], b)}
  BY <1>1, <1>2
<1>4. ASSUME NEW b
      PROVE  RegionOf(next, b) = RegionOf(mem, b)
  BY <1>3, Zenon DEF RegionOf, SelectInSeq
<1>5. ASSUME NEW b
      PROVE  Valid(next, b) <=> Valid(mem, b)
  BY <1>1, <1>2 DEF Valid
<1>6. WholeWords(mem) => WholeWords(next)
  BY DEF WholeWords, Alongside
<1> QED
  BY <1>4, <1>5, <1>6

(* Where an address is after a store, and the word it lies in.             *)
LEMMA WordAfter ==
    ASSUME NEW mem \in Memories, WholeWords(mem), NEW a \in Int, Valid(mem, a),
           NEW data, NEW width, NEW b \in Int, Valid(mem, b)
    PROVE  LET next == Write(mem, a, data, width)
           IN /\ Alongside(mem, next) /\ Valid(next, b)
              /\ WordAt(next, b) =
                    IF RegionOf(mem, b) = RegionOf(mem, a) /\ b \div 4 = a \div 4
                    THEN Merged(WordAt(mem, a), ValuesOf(a % 4), ValuesOf(width), data)
                    ELSE WordAt(mem, b)
<1> DEFINE next == Write(mem, a, data, width)
           j    == RegionOf(mem, a)
           word == Merged(WordAt(mem, a), ValuesOf(a % 4), ValuesOf(width), data)
<1>1. /\ Len(next) = Len(mem)
      /\ \A k \in 1 .. Len(mem) :
            /\ next[k].base = mem[k].base /\ next[k].size = mem[k].size
            /\ \A n \in DOMAIN mem[k].words :
                  next[k].words[n] = IF k = j /\ n = (a - mem[j].base) \div 4
                                     THEN word ELSE mem[k].words[n]
  BY WriteParts
<1> HIDE DEF next, word
<1>2. Alongside(mem, next)
  BY <1>1 DEF Alongside
<1>3. Valid(next, b) /\ RegionOf(next, b) = RegionOf(mem, b)
  BY <1>2, SameRegions
<1>4. PICK k \in 1 .. Len(mem) :
        /\ k = RegionOf(mem, b) /\ mem[k].base \in Nat /\ b \in Nat /\ b >= mem[k].base
        /\ (b - mem[k].base) \div 4 \in DOMAIN mem[k].words
  BY Located
<1>5. j \in 1 .. Len(mem) /\ mem[j].base \in Nat /\ a \in Nat /\ a >= mem[j].base
  BY Located
<1>6. PICK n : n = (b - mem[k].base) \div 4
  OBVIOUS
<1>7. WordAt(mem, b) = mem[k].words[n]
  BY <1>4, <1>6 DEF WordAt
<1>8. WordAt(next, b) = next[k].words[n]
  BY <1>1, <1>3, <1>4, <1>6 DEF WordAt
<1>9. k = j => (n = (a - mem[j].base) \div 4 <=> b \div 4 = a \div 4)
  <2>1. PICK p \in Nat : mem[j].base = 4 * p
    <3>1. mem[j].base % 4 = 0
      BY <1>5 DEF WholeWords
    <3>2. \A base \in Nat : base % 4 = 0 => base \div 4 \in Nat /\ base = 4 * (base \div 4)
      OBVIOUS
    <3> QED
      BY <1>5, <3>1, <3>2
  <2>2. \A x \in Nat : (x - 4 * p) \div 4 = (x \div 4) - p /\ x \div 4 \in Nat
    OBVIOUS
  <2>3. PICK x \in Nat, y \in Nat : x = a \div 4 /\ y = b \div 4
    BY <1>4, <1>5, <2>2
  <2>4. (a - mem[j].base) \div 4 = x - p /\ (b - mem[j].base) \div 4 = y - p
    BY <1>4, <1>5, <2>1, <2>2, <2>3
  <2> QED
    BY <1>6, <2>3, <2>4
<1>10. WordAt(next, b) = IF k = j /\ b \div 4 = a \div 4 THEN word ELSE WordAt(mem, b)
  BY <1>1, <1>4, <1>6, <1>7, <1>8, <1>9
<1> QED
  BY <1>2, <1>3, <1>4, <1>10 DEF next, word

(* A store changes the bytes it names to those of its value.               *)
LEMMA StoreIs ==
    ASSUME NEW mem \in Memories, WholeWords(mem), NEW a \in Int, Valid(mem, a),
           NEW data \in Nat, NEW width \in {1, 2, 4}, a % width = 0
    PROVE  LittleEndian(Write(mem, a, data, width), a, width) = data % ValuesOf(width)
<1> DEFINE next == Write(mem, a, data, width)
           l    == ValuesOf(a % 4)
           v    == ValuesOf(width)
<1>1. Alongside(mem, next) /\ Valid(next, a) /\ WordAt(next, a) = Merged(WordAt(mem, a), l, v, data)
  BY WordAfter
<1>2. WholeWords(next)
  BY <1>1, SameRegions
<1>3. next \in Memories
  <2>1. AlignedIn(mem, a, width)
    <3>1. PICK base \in Nat : /\ base = mem[RegionOf(mem, a)].base /\ a \in Nat /\ a >= base
                              /\ (a - base) % 4 = a % 4
      BY Located, LaneOf
    <3>2. (a - base) % width = 0
      BY <3>1
    <3> QED
      BY <3>1, <3>2 DEF AlignedIn, Aligned
  <2> QED
    BY <2>1, WriteTypes
<1>4. LittleEndian(next, a, width) = Bits(WordAt(next, a), a, width)
  BY <1>1, <1>2, <1>3, LittleEndianIs
<1>5. a % 4 \in 0 .. 3 /\ WordAt(mem, a) \in Nat
  BY Located, Lanes
<1>6. l \in Nat \ {0} /\ v \in Nat \ {0}
  BY <1>5, Quotients
<1>7. Bits(WordAt(next, a), a, width) = (Merged(WordAt(mem, a), l, v, data) \div l) % v
  BY <1>1, Zenon DEF Bits
<1>8. PICK old \in Nat : old = WordAt(mem, a)
  BY <1>5
<1> HIDE DEF l, v, next
<1>9. (Merged(old, l, v, data) \div l) % v = data % v
  <2>1. IsMerged(Merged(old, l, v, data), old, l, v, data)
    BY <1>6, MergedParts
  <2> QED
    BY <2>1, Zenon DEF IsMerged
<1> QED
  BY <1>4, <1>7, <1>8, <1>9, Zenon DEF next, v

(* A digit with c values, of weight p, is that of the number below l, a    *)
(* multiple of p * c.                                                      *)
Below(p, c, m, l)     == l = p * (c * m)
Digit(x, p, c)        == (x \div p) % c

(* Such a digit depends on the number below l only.                        *)
LEMMA LowDigit ==
    ASSUME NEW x \in Nat, NEW p \in Nat \ {0}, NEW c \in Nat \ {0}, NEW m \in Nat \ {0},
           NEW l, Below(p, c, m, l)
    PROVE  Digit(x, p, c) = Digit(x % l, p, c)
<1>1. PICK n \in Nat \ {0} : n = c * m
  OBVIOUS
<1>2. l = p * n
  BY <1>1, Zenon DEF Below
<1>3. PICK y \in Nat : y = x \div p
  <2>1. p \in Nat /\ p > 0
    OBVIOUS
  <2> QED
    BY <2>1, Quotients
<1>4. WrittenWith(x, p, n) /\ WrittenWith(y, c, m)
  BY Digits
<1>5. (x % l) \div p = y % n
  BY <1>2, <1>3, <1>4, Zenon DEF WrittenWith
<1>6. (y % n) % c = y % c
  BY <1>1, <1>4, Zenon DEF WrittenWith
<1> QED
  BY <1>3, <1>5, <1>6, Zenon DEF Digit

(* A store keeps all bytes below and above the ones it names.              *)
SameByte(new, old, p) == Digit(new, p, Byte) = Digit(old, p, Byte)
Above(p, m, n)        == p = n * m

(* Bytes below those written are kept.                                     *)
LEMMA MergedBelow ==
    ASSUME NEW old \in Nat, NEW new \in Nat, NEW p \in Nat \ {0}, NEW m \in Nat \ {0},
           NEW l \in Nat, Below(p, Byte, m, l), SameBelow(new, old, l)
    PROVE  SameByte(new, old, p)
<1>1. Byte \in Nat \ {0}
  BY SimMemoryAssumption
<1>2. /\ Digit(old, p, Byte) = Digit(old % l, p, Byte)
      /\ Digit(new, p, Byte) = Digit(new % l, p, Byte)
  BY <1>1, LowDigit
<1> QED
  BY <1>2, Zenon DEF SameByte, SameBelow

(* Bytes above those written are kept.                                     *)
LEMMA MergedAbove ==
    ASSUME NEW old \in Nat, NEW new \in Nat, NEW n \in Nat \ {0}, NEW m \in Nat \ {0},
           NEW p \in Nat, Above(p, m, n), SameAbove(new, old, n)
    PROVE  SameByte(new, old, p)
<1>1. WrittenWith(old, n, m) /\ WrittenWith(new, n, m)
  BY Digits
<1>2. (old \div n) \div m = old \div p /\ (new \div n) \div m = new \div p
  BY <1>1, Zenon DEF WrittenWith, Above
<1> QED
  BY <1>2, Zenon DEF SameByte, SameAbove, Digit

(* A write changes no byte but the ones it names.                          *)
LEMMA StoreKeeps ==
    ASSUME NEW mem \in Memories, WholeWords(mem), NEW a \in Int, Valid(mem, a),
           NEW data \in Nat, NEW width \in {1, 2, 4}, a % width = 0,
           NEW b \in Int, Valid(mem, b), b \notin a .. a + width - 1,
           Write(mem, a, data, width) \in Memories
    PROVE  ByteAt(Write(mem, a, data, width), b) = ByteAt(mem, b)
<1> DEFINE next == Write(mem, a, data, width)
           l    == ValuesOf(a % 4)
           v    == ValuesOf(width)
           p    == ValuesOf(b % 4)
           same == RegionOf(mem, b) = RegionOf(mem, a) /\ b \div 4 = a \div 4
<1>1. /\ Alongside(mem, next) /\ Valid(next, b)
      /\ WordAt(next, b) = IF same THEN Merged(WordAt(mem, a), l, v, data) ELSE WordAt(mem, b)
  BY WordAfter
<1>2. WholeWords(next)
  BY <1>1, SameRegions
<1>3. ByteAt(next, b) = (WordAt(next, b) \div p) % Byte
  <2>1. ByteAt(next, b) = Bits(WordAt(next, b), b, 1)
    BY <1>1, <1>2, ByteIs
  <2> QED
    BY <2>1 DEF Bits, ValuesOf
<1>4. ByteAt(mem, b) = (WordAt(mem, b) \div p) % Byte
  <2>1. ByteAt(mem, b) = Bits(WordAt(mem, b), b, 1)
    BY ByteIs
  <2> QED
    BY <2>1 DEF Bits, ValuesOf
<1>5. CASE ~same
  BY <1>1, <1>3, <1>4, <1>5
<1>6. CASE same
  <2>1. /\ a \in Nat /\ b \in Nat /\ WordAt(mem, a) \in Nat
        /\ a % 4 \in 0 .. 3 /\ (a % 4) + width <= 4
    BY Located, Lanes
  <2>2. b % 4 \in 0 .. 3 /\ (b % 4 < a % 4 \/ b % 4 >= (a % 4) + width)
    BY <1>6, <2>1
  <2>3. PICK o \in 0 .. 3, k \in 0 .. 3 : o = a % 4 /\ k = b % 4
    BY <2>1, <2>2
  <2>4. WordAt(mem, b) = WordAt(mem, a)
    BY <1>6, <2>1, SameWord
  <2>5. PICK old \in Nat : old = WordAt(mem, a)
    BY <2>1
  <2>6. l \in Nat \ {0} /\ v \in Nat \ {0} /\ p \in Nat \ {0}
    BY <2>1, <2>2, Quotients
  <2>7. PICK new \in Nat : /\ new = Merged(old, l, v, data)
                           /\ SameBelow(new, old, l) /\ SameAbove(new, old, l * v)
    <3> HIDE DEF l, v
    <3>1. IsMerged(Merged(old, l, v, data), old, l, v, data)
      BY <2>6, MergedParts
    <3> QED
      BY <3>1, Zenon DEF IsMerged
  <2>8. CASE k < o
    <3>1. PICK m \in Nat \ {0} : m = ValuesOf(o - k - 1)
      BY <2>8, Quotients
    <3>2. Below(p, Byte, m, l)
      <4>1. o - k - 1 \in 0 .. 4 /\ 1 + (o - k - 1) = o - k /\ o - k \in 0 .. 4 /\ k + (o - k) = o
        BY <2>8
      <4>2. ValuesOf(o - k) = ValuesOf(1) * m
        BY <3>1, <4>1, Powers
      <4>3. ValuesOf(o) = ValuesOf(k) * ValuesOf(o - k)
        BY <4>1, Powers
      <4>4. ValuesOf(1) = Byte
        BY DEF ValuesOf
      <4> QED
        BY <2>3, <4>2, <4>3, <4>4, Zenon DEF Below
    <3> HIDE DEF l, p
    <3>3. SameByte(new, old, p)
      BY <2>6, <2>7, <3>2, MergedBelow
    <3> QED
      BY <1>1, <1>3, <1>4, <1>6, <2>4, <2>5, <2>7, <3>3, Zenon DEF SameByte, Digit
  <2>9. CASE k >= o + width
    <3>1. PICK m \in Nat \ {0} : m = ValuesOf(k - o - width)
      BY <2>9, Quotients
    <3>2. PICK n \in Nat \ {0} : n = l * v
      BY <2>6
    <3>3. Above(p, m, n)
      <4>1. /\ o + width \in 0 .. 4 /\ k - o - width \in 0 .. 4 /\ width \in 0 .. 4
            /\ (o + width) + (k - o - width) = k
        BY <2>9
      <4>2. ValuesOf(o + width) = l * v
        BY <2>3, <4>1, Powers
      <4>3. ValuesOf(k) = ValuesOf(o + width) * m
        BY <3>1, <4>1, Powers
      <4> QED
        BY <2>3, <3>2, <4>2, <4>3, Zenon DEF Above
    <3> HIDE DEF l, p, v
    <3>4. SameByte(new, old, p)
      BY <2>6, <2>7, <3>2, <3>3, MergedAbove
    <3> QED
      BY <1>1, <1>3, <1>4, <1>6, <2>4, <2>5, <2>7, <3>4, Zenon DEF SameByte, Digit
  <2> QED
    BY <2>2, <2>3, <2>8, <2>9
<1> QED
  BY <1>5, <1>6

-----------------------------------------------------------------------------
(* Pages. *)

(* The flags of an entry are its low bits.                                 *)
LEMMA SameFlags ==
    ASSUME NEW pte \in Nat, NEW bit \in {1, 2, 4, 8, 16}
    PROVE  Has(pte % PfnScale, bit) <=> Has(pte, bit)
<1>1. PICK m \in Nat \ {0} : PfnScale = bit * (2 * m)
  <2>1. PICK k \in Nat \ {0} : PfnScale = 32 * k
    <3>1. \A x \in Nat \ {0} : x % 32 = 0 => x \div 32 \in Nat \ {0} /\ x = 32 * (x \div 32)
      OBVIOUS
    <3> QED
      BY <3>1, SimMmuAssumption
  <2>2. \A n \in Nat \ {0} : /\ n \in Nat \ {0} /\ 2 * n \in Nat \ {0} /\ 4 * n \in Nat \ {0}
                             /\ 8 * n \in Nat \ {0} /\ 16 * n \in Nat \ {0}
    OBVIOUS
  <2>3. /\ 32 * k = 16 * (2 * k) /\ 32 * k = 8 * (2 * (2 * k)) /\ 32 * k = 4 * (2 * (4 * k))
        /\ 32 * k = 2 * (2 * (8 * k)) /\ 32 * k = 1 * (2 * (16 * k))
    OBVIOUS
  <2> QED
    BY <2>1, <2>2, <2>3
<1>2. Below(bit, 2, m, PfnScale)
  BY <1>1, Zenon DEF Below
<1>3. bit \in Nat \ {0} /\ 2 \in Nat \ {0}
  OBVIOUS
<1>4. Digit(pte, bit, 2) = Digit(pte % PfnScale, bit, 2)
  BY <1>2, <1>3, LowDigit
<1> QED
  BY <1>4, Zenon DEF Digit, Has

(* No flag is set in 0.                                                    *)
LEMMA NoFlags ==
    ASSUME NEW bit \in {1, 2, 4, 8, 16}
    PROVE  ~Has(0, bit)
BY DEF Has

(* The indices of an address in the two tables, and its offset.            *)
Index(addr, i) == (addr \div Span(i)) % Entries

(* An address is its two indices and its offset.                           *)
LEMMA Indices ==
    ASSUME NEW addr \in Address
    PROVE  /\ Span(0) = PageSize /\ Span(1) = PageSize * Entries
           /\ addr \div Span(1) \in 0 .. Entries - 1 /\ Index(addr, 1) = addr \div Span(1)
           /\ Index(addr, 0) \in 0 .. Entries - 1
           /\ addr % Span(1) = Index(addr, 0) * PageSize + (addr % PageSize)
           /\ (addr % Span(1)) \div PageSize = Index(addr, 0)
           /\ (addr % Span(1)) % PageSize = addr % PageSize
<1>1. addr \in Nat /\ addr < WordValues
  BY Sizes DEF Address
<1>2. PageSize \in Nat \ {0} /\ Entries \in Nat \ {0}
  BY PageSizes
<1>3. Span(0) = PageSize /\ Span(1) = PageSize * Entries
  BY <1>2 DEF Span, Reach
<1>4. PICK S \in Nat : S = PageSize * Entries /\ S > 0 /\ S = Span(1)
  BY <1>3, PageSizes
<1>5. WordValues = Entries * S
  <2>1. WordValues = Entries * Entries * 4 * Entries
    BY SimMmuAssumption
  <2>2. \A e \in Nat : e * e * 4 * e = e * ((4 * e) * e)
    OBVIOUS
  <2>3. WordValues = Entries * ((4 * Entries) * Entries)
    BY <1>2, <2>1, <2>2
  <2> QED
    BY <1>4, <2>3 DEF PageSize
<1>6. PICK q \in Nat : q = addr \div S
  BY <1>1, <1>4, Quotients
<1>7. q < Entries
  <2>1. q * S <= addr
    BY <1>1, <1>4, <1>6
  <2>2. \A x, y, z \in Nat : x >= y => x * z >= y * z
    OBVIOUS
  <2>3. q >= Entries => q * S >= Entries * S
    BY <1>2, <2>2
  <2>4. q * S \in Nat /\ Entries * S \in Nat
    BY <1>2
  <2> QED
    BY <1>1, <1>2, <1>5, <2>1, <2>3, <2>4
<1>8. q % Entries = q
  BY <1>2, <1>7
<1>9. PICK page \in Nat : page = addr \div PageSize
  BY <1>1, <1>2, Quotients
<1>10. page % Entries \in 0 .. Entries - 1
  BY <1>2
<1>11. WrittenWith(addr, PageSize, Entries)
  BY <1>1, <1>2, Digits
<1>12. /\ addr % S = (page % Entries) * PageSize + (addr % PageSize)
       /\ (addr % S) \div PageSize = page % Entries
       /\ (addr % S) % PageSize = addr % PageSize
  BY <1>4, <1>9, <1>11, Zenon DEF WrittenWith
<1>13. Index(addr, 0) = page % Entries /\ Index(addr, 1) = q
  BY <1>3, <1>4, <1>6, <1>8, <1>9, Zenon DEF Index
<1>14. q \in 0 .. Entries - 1
  BY <1>2, <1>7
<1> QED
  BY <1>3, <1>4, <1>6, <1>10, <1>12, <1>13, <1>14, Zenon

(* The pages that the entries of one table map or lead to.                 *)
Table(ppn, va, i) ==
    {[va |-> va + (e * Span(i)), size |-> Span(i),
      pte |-> MmuReadWord(regions, TableAt(ppn) + (e * 4))] : e \in 0 .. Entries - 1}

Root == Table(cpu.satp % SatpMode, 0, 1)

(* The pages of the tables are the valid leaves of the root and of the     *)
(* tables it points to.                                                    *)
LEMMA PagesAre ==
    Pages = {p \in Root \cup UNION {Table(q.pte \div PfnScale, q.va, 0) : q \in {t \in Root : Pointer(t.pte)}} :
                Has(p.pte, Present) /\ IsLeaf(p.pte)}
BY Zenon DEF Pages, Root, Table, MmuReadWord

(* The entry of a table that an address selects.                           *)
LEMMA EntryAt ==
    ASSUME NEW ppn, NEW va \in Nat, NEW i \in {0, 1}, NEW addr \in Address
    PROVE  [va |-> va + (Index(addr, i) * Span(i)), size |-> Span(i),
            pte |-> EntryOf(regions, TableAt(ppn), addr, i)] \in Table(ppn, va, i)
<1>1. Index(addr, i) \in 0 .. Entries - 1
  BY Indices
<1>2. EntryOf(regions, TableAt(ppn), addr, i) =
        MmuReadWord(regions, TableAt(ppn) + (Index(addr, i) * 4))
  BY Zenon DEF EntryOf, Index
<1> QED
  BY <1>1, <1>2, Zenon DEF Table

(* The entry of the root, and of the table it leads to, that cover an      *)
(* address.                                                                *)
LEMMA RootCovers ==
    ASSUME NEW addr \in Address, NEW p \in Root, addr \in p.va .. p.va + p.size - 1
    PROVE  /\ p.va = (addr \div Span(1)) * Span(1) /\ p.size = Span(1)
           /\ p.pte = EntryOf(regions, TableAt(cpu.satp % SatpMode), addr, 1)
<1>1. PICK e \in 0 .. Entries - 1 :
        p = [va |-> 0 + (e * Span(1)), size |-> Span(1),
             pte |-> MmuReadWord(regions, TableAt(cpu.satp % SatpMode) + (e * 4))]
  BY Zenon DEF Root, Table
<1>2. PICK S \in Nat : S = Span(1) /\ S > 0
  BY PageSizes
<1>3. e \in Nat /\ addr \in Nat
  BY PageSizes, Sizes DEF Address
<1>4. PICK b \in Nat : b = e * S
  BY <1>3
<1>5. p.va = b /\ p.size = S
  BY <1>1, <1>2, <1>4
<1>6. addr >= b /\ addr < b + S
  BY <1>2, <1>3, <1>5
<1>7. PICK r \in Nat : r = addr - b /\ r < S
  BY <1>3, <1>6
<1>8. addr = e * S + r
  BY <1>3, <1>4, <1>7
<1>9. addr \div S = e
  BY <1>3, <1>7, <1>8, DivUnique
<1>10. Index(addr, 1) = e
  BY <1>2, <1>9, Indices
<1> QED
  BY <1>1, <1>2, <1>4, <1>5, <1>9, <1>10 DEF EntryOf, Index

(* The entry of a second table whose page has an address is the one the    *)
(* index of the address selects.                                           *)
LEMMA LeafCovers ==
    ASSUME NEW addr \in Address, NEW q \in Root, NEW ppn,
           NEW p \in Table(ppn, q.va, 0), addr \in p.va .. p.va + p.size - 1
    PROVE  /\ addr \in q.va .. q.va + q.size - 1
           /\ p.va = (addr \div Span(0)) * Span(0) /\ p.size = Span(0)
           /\ p.pte = EntryOf(regions, TableAt(ppn), addr, 0)
<1>1. PICK e \in 0 .. Entries - 1 : q.va = 0 + (e * Span(1)) /\ q.size = Span(1)
  <2>1. PICK e \in 0 .. Entries - 1 :
          q = [va |-> 0 + (e * Span(1)), size |-> Span(1),
               pte |-> MmuReadWord(regions, TableAt(cpu.satp % SatpMode) + (e * 4))]
    BY Zenon DEF Root, Table
  <2> QED
    BY <2>1
<1>2. PICK f \in 0 .. Entries - 1 :
        p = [va |-> q.va + (f * Span(0)), size |-> Span(0),
             pte |-> MmuReadWord(regions, TableAt(ppn) + (f * 4))]
  BY Zenon DEF Table
<1>3. PICK S \in Nat, P \in Nat : /\ S = Span(1) /\ P = Span(0) /\ P = PageSize /\ P > 0
                                  /\ S = P * Entries
  BY PageSizes, Indices
<1>4. e \in Nat /\ f \in Nat /\ addr \in Nat /\ Entries \in Nat /\ Entries > 0
  BY PageSizes, Sizes DEF Address
<1>5. PICK b \in Nat, c \in Nat : b = e * S /\ c = f * P
  BY <1>4
<1>6. q.va = b /\ q.size = S /\ p.va = b + c /\ p.size = P
  <2>1. q.va = b
    BY <1>1, <1>3, <1>5
  <2>2. p.va = q.va + (f * Span(0)) /\ p.size = Span(0)
    BY <1>2
  <2> QED
    BY <1>1, <1>3, <1>5, <2>1, <2>2, Zenon
<1>7. addr >= b + c /\ addr < b + c + P
  BY <1>3, <1>4, <1>5, <1>6
<1>8. PICK r \in Nat : r = addr - (b + c) /\ r < P
  BY <1>4, <1>5, <1>7
<1>9. PICK d \in Nat : d = c + r /\ d < S
  <2>1. \A x, y, z \in Nat : x < y => x * z \in Nat /\ x * z <= z * y - z
    OBVIOUS
  <2>2. f < Entries
    BY <1>4
  <2>3. c <= S - P
    BY <1>3, <1>4, <1>5, <2>1, <2>2
  <2> QED
    BY <1>8, <2>3
<1>10. addr = e * S + d
  BY <1>4, <1>5, <1>8, <1>9
<1>11. addr \div S = e /\ addr % S = d
  BY <1>4, <1>9, <1>10, DivUnique
<1>12. d = f * P + r
  BY <1>5, <1>9
<1>13. d \div P = f
  BY <1>4, <1>8, <1>12, DivUnique
<1>14. Index(addr, 0) = f
  BY <1>3, <1>11, <1>13, Indices
<1>15. p.va = (addr \div Span(0)) * Span(0)
  <2>1. PICK page \in Nat, off \in Nat : /\ page = addr \div P /\ off = addr % P
                                         /\ off < P /\ addr = page * P + off
    <3>1. PICK n \in Nat : n = addr
      BY <1>4
    <3>2. /\ n \div P \in Nat /\ n % P \in Nat /\ n % P < P
          /\ n = (n \div P) * P + (n % P)
      BY <1>3, Quotients
    <3> QED
      BY <3>1, <3>2, Zenon
  <2>2. off = r
    <3>1. d % P = r
      BY <1>4, <1>8, <1>12, DivUnique
    <3>2. d % P = addr % P
      BY <1>3, <1>11, Indices
    <3> QED
      BY <2>1, <3>1, <3>2
  <2>3. page * P \in Nat
    OBVIOUS
  <2>4. b + c = page * P
    BY <1>4, <1>8, <2>1, <2>2, <2>3
  <2> QED
    BY <1>3, <1>6, <2>1, <2>4
<1>16. addr \in q.va .. q.va + q.size - 1
  BY <1>4, <1>6, <1>9, <1>10, <1>5
<1> QED
  BY <1>2, <1>3, <1>6, <1>14, <1>15, <1>16, Zenon DEF EntryOf, Index

(* The page that an entry found at level i maps for an address.            *)
PageAt(pte, addr, i) == [va |-> (addr \div Span(i)) * Span(i), size |-> Span(i), pte |-> pte]

First(addr) == EntryOf(regions, TableAt(cpu.satp % SatpMode), addr, 1)
Second(addr) == EntryOf(regions, TableAt(First(addr) \div PfnScale), addr, 0)

(* The walk is a lookup in the root and, behind a pointer, one in the      *)
(* second table.                                                           *)
LEMMA WalkIs ==
    ASSUME NEW addr
    PROVE  Walk(regions, cpu.satp, addr) =
              IF Pointer(First(addr)) THEN Found(Second(addr), 0) ELSE Found(First(addr), 1)
BY DEF Walk, WalkOn, First, Second, Levels

(* A page that covers an address is the one the walk finds.                *)
LEMMA PageWalked ==
    ASSUME NEW addr \in Address, NEW p \in Pages, addr \in p.va .. p.va + p.size - 1
    PROVE  LET w == Walk(regions, cpu.satp, addr) IN
           /\ w.pte = p.pte /\ w.level \in {0, 1} /\ p = PageAt(p.pte, addr, w.level)
<1>1. Has(p.pte, Present) /\ IsLeaf(p.pte)
  BY PagesAre
<1>2. CASE p \in Root
  <2>1. p.va = (addr \div Span(1)) * Span(1) /\ p.size = Span(1) /\ p.pte = First(addr)
    BY <1>2, RootCovers DEF First
  <2>2. ~Pointer(First(addr))
    BY <1>1, <2>1, Zenon DEF Pointer
  <2>3. Walk(regions, cpu.satp, addr) = Found(First(addr), 1)
    BY <2>2, WalkIs, Zenon
  <2>4. Found(First(addr), 1).pte = p.pte /\ Found(First(addr), 1).level = 1
    BY <1>1, <2>1 DEF Found
  <2>5. PICK va, size, pte : p = [va |-> va, size |-> size, pte |-> pte]
    BY <1>2, Zenon DEF Root, Table
  <2>6. p = PageAt(p.pte, addr, 1)
    BY <2>1, <2>5 DEF PageAt
  <2> QED
    BY <2>3, <2>4, <2>6
<1>3. CASE p \notin Root
  <2>1. PICK q \in Root : Pointer(q.pte) /\ p \in Table(q.pte \div PfnScale, q.va, 0)
    BY <1>3, PagesAre, Zenon
  <2>2. /\ addr \in q.va .. q.va + q.size - 1
        /\ p.va = (addr \div Span(0)) * Span(0) /\ p.size = Span(0)
        /\ p.pte = EntryOf(regions, TableAt(q.pte \div PfnScale), addr, 0)
    BY <2>1, LeafCovers
  <2>3. q.pte = First(addr)
    BY <2>2, RootCovers DEF First
  <2>4. p.pte = Second(addr)
    BY <2>2, <2>3, Zenon DEF Second
  <2>5. Walk(regions, cpu.satp, addr) = Found(Second(addr), 0)
    BY <2>1, <2>3, WalkIs, Zenon
  <2>6. Found(Second(addr), 0).pte = p.pte /\ Found(Second(addr), 0).level = 0
    BY <1>1, <2>4 DEF Found
  <2>7. PICK va, size, pte : p = [va |-> va, size |-> size, pte |-> pte]
    BY <2>1, Zenon DEF Table
  <2>8. p = PageAt(p.pte, addr, 0)
    BY <2>2, <2>7 DEF PageAt
  <2> QED
    BY <2>5, <2>6, <2>8
<1> QED
  BY <1>2, <1>3

(* The leaf that a walk finds maps a page that covers the address.         *)
LEMMA WalkedPage ==
    ASSUME NEW addr \in Address, NEW w, w = Walk(regions, cpu.satp, addr),
           Has(w.pte, Present), IsLeaf(w.pte)
    PROVE  /\ w.level \in {0, 1} /\ PageAt(w.pte, addr, w.level) \in Pages
           /\ addr \in (addr \div Span(w.level)) * Span(w.level)
                       .. (addr \div Span(w.level)) * Span(w.level) + Span(w.level) - 1
<1>1. addr \in Nat
  BY Sizes DEF Address
<1>2. ~Has(0, Present)
  BY NoFlags DEF Present
<1>3. /\ \A i \in {0, 1} : /\ (addr \div Span(i)) * Span(i) \in Nat
                           /\ addr \in (addr \div Span(i)) * Span(i)
                                      .. (addr \div Span(i)) * Span(i) + Span(i) - 1
      /\ (addr \div Span(1)) * Span(1) + (Index(addr, 0) * Span(0)) = (addr \div Span(0)) * Span(0)
  <2>1. PICK S \in Nat, P \in Nat : S = Span(1) /\ P = Span(0) /\ S > 0 /\ P > 0 /\ P = PageSize
    BY PageSizes, Indices
  <2>2. /\ \E x \in Nat, r \in Nat : x = (addr \div S) * S /\ r = addr % S /\ r < S /\ addr = x + r
        /\ \E x \in Nat, r \in Nat : x = (addr \div P) * P /\ r = addr % P /\ r < P /\ addr = x + r
    BY <1>1, <2>1, Quotients
  <2>3. PICK x \in Nat, r \in Nat : x = (addr \div S) * S /\ r = addr % S /\ r < S /\ addr = x + r
    BY <2>2, Zenon
  <2>4. PICK y \in Nat, o \in Nat : y = (addr \div P) * P /\ o = addr % P /\ o < P /\ addr = y + o
    BY <2>2, Zenon
  <2>5. PICK z \in Nat : z = Index(addr, 0) * P
    BY <2>1, Indices
  <2>6. r = z + o
    BY <2>1, <2>3, <2>4, <2>5, Indices, Zenon
  <2>7. x + z = y /\ addr \in x .. x + S - 1 /\ addr \in y .. y + P - 1
    <3>1. addr = x + r /\ addr = y + o /\ r < S /\ o < P
      BY <2>3, <2>4
    <3> QED
      BY <1>1, <2>6, <3>1
  <2>8. \A i \in {0, 1} : i = 0 \/ i = 1
    OBVIOUS
  <2> QED
    BY <2>1, <2>3, <2>4, <2>5, <2>7, <2>8, Zenon
<1>4. PageAt(First(addr), addr, 1) \in Root
  <2>1. [va |-> 0 + (Index(addr, 1) * Span(1)), size |-> Span(1), pte |-> First(addr)] \in Root
    BY EntryAt DEF First, Root
  <2>2. PICK x \in Nat : x = Index(addr, 1) * Span(1) /\ x = (addr \div Span(1)) * Span(1)
    BY Indices, PageSizes
  <2> QED
    BY <2>1, <2>2 DEF PageAt
<1>5. CASE ~Pointer(First(addr))
  <2>1. w = Found(First(addr), 1)
    BY <1>5, WalkIs, Zenon
  <2>2. w.pte = First(addr) /\ w.level = 1
    BY <1>2, <2>1 DEF Found
  <2>3. PageAt(First(addr), addr, 1).pte = First(addr)
    BY DEF PageAt
  <2>4. PageAt(First(addr), addr, 1) \in Pages
    BY <1>4, <2>2, <2>3, PagesAre, Zenon
  <2> QED
    BY <1>3, <2>2, <2>4
<1>6. CASE Pointer(First(addr))
  <2>1. w = Found(Second(addr), 0)
    BY <1>6, WalkIs, Zenon
  <2>2. w.pte = Second(addr) /\ w.level = 0
    BY <1>2, <2>1 DEF Found
  <2> DEFINE q == PageAt(First(addr), addr, 1)
  <2>3. q \in Root /\ q.pte = First(addr) /\ q.va = (addr \div Span(1)) * Span(1)
    BY <1>4 DEF PageAt
  <2>4. PICK va \in Nat : va = (addr \div Span(1)) * Span(1)
    BY <1>3
  <2>5. [va |-> va + (Index(addr, 0) * Span(0)), size |-> Span(0), pte |-> Second(addr)]
           \in Table(First(addr) \div PfnScale, va, 0)
    BY EntryAt DEF Second
  <2>6. va + (Index(addr, 0) * Span(0)) = (addr \div Span(0)) * Span(0)
    BY <1>3, <2>4
  <2>7. PageAt(Second(addr), addr, 0) \in Table(q.pte \div PfnScale, q.va, 0)
    BY <2>3, <2>4, <2>5, <2>6, Zenon DEF PageAt
  <2>8. PageAt(Second(addr), addr, 0).pte = Second(addr)
    BY DEF PageAt
  <2> HIDE DEF q
  <2>9. PageAt(Second(addr), addr, 0) \in Pages
    BY <1>6, <2>2, <2>3, <2>7, <2>8, PagesAre, Zenon
  <2> QED
    BY <1>3, <2>2, <2>9
<1> QED
  BY <1>5, <1>6

(* In an aligned large page the frame of an address is that of the page,   *)
(* moved by the rest of the page number.                                   *)
LEMMA FrameIs ==
    ASSUME NEW pte \in Nat, NEW addr \in Address, NEW i \in {0, 1},
           i = 1 => (pte \div PfnScale) % Entries = 0
    PROVE  (Frame(pte, addr, i) * PageSize) + (addr % PageSize) =
              ((pte \div PfnScale) * PageSize) + addr - ((addr \div Span(i)) * Span(i))
<1>1. addr \in Nat
  BY Sizes DEF Address
<1>2. PICK P \in Nat, E \in Nat : P = PageSize /\ E = Entries /\ P > 0 /\ E > 0
  BY PageSizes
<1>3. PICK ppn \in Nat : ppn = pte \div PfnScale
  BY SimMmuAssumption, Quotients
<1>4. PICK page \in Nat : page = addr \div PageSize
  BY <1>1, PageSizes, Quotients
<1>5. PICK S \in Nat : S = Span(i) /\ S > 0
  BY PageSizes
<1>6. PICK x \in Nat, r \in Nat : x = (addr \div S) * S /\ r = addr % S /\ addr = x + r
  <2>1. \E y \in Nat, s \in Nat : y = (addr \div S) * S /\ s = addr % S /\ addr = y + s
    BY <1>1, <1>5, Quotients
  <2> QED
    BY <2>1, Zenon
<1>7. PICK o \in Nat : o = addr % PageSize
  BY <1>1, PageSizes, Quotients
<1>8. \A y \in 0 .. Entries - 1 : Or[<<0, y>>] = y
  <2>1. \A y \in 0 .. Entries - 1 : <<0, y>> \in OrDomain
    BY SimMmuAssumption DEF OrDomain
  <2> QED
    BY <2>1, OrUnrolls
<1>9. PICK n \in Nat : n = Frame(pte, addr, i) /\ n * P = ppn * P + (r - o) /\ r - o \in Nat
  <2>1. CASE i = 0
    <3>1. Reach(i) = 1 /\ S = P /\ r = o
      BY <1>2, <1>5, <1>6, <1>7, <2>1, Indices DEF Reach
    <3>2. ppn % 1 = 0 /\ page % 1 = 0 /\ (ppn \div 1) * 1 = ppn
      OBVIOUS
    <3>3. Or[<<0, 0>>] = 0
      BY <1>2, <1>8
    <3>4. Frame(pte, addr, i) = ppn + 0
      BY <1>3, <1>4, <3>1, <3>2, <3>3, Zenon DEF Frame
    <3> QED
      BY <3>1, <3>4
  <2>2. CASE i = 1
    <3>1. Reach(i) = E
      BY <1>2, <2>2 DEF Reach
    <3>2. ppn % E = 0 /\ (ppn \div E) * E = ppn
      <4>1. ppn % E = 0
        BY <1>2, <1>3, <2>2
      <4>2. \A u, v \in Nat : v > 0 /\ u % v = 0 => (u \div v) * v = u
        OBVIOUS
      <4> QED
        BY <1>2, <4>1, <4>2
    <3>3. PICK y \in Nat : y = Index(addr, 0) /\ y \in 0 .. Entries - 1
      BY Indices
    <3>4. page % E = y
      BY <1>2, <1>4, <3>3, Indices DEF Index
    <3>5. Frame(pte, addr, i) = ppn + y
      BY <1>3, <1>4, <1>8, <3>1, <3>2, <3>3, <3>4 DEF Frame
    <3>6. r = y * P + o
      BY <1>2, <1>5, <1>6, <1>7, <2>2, <3>3, Indices
    <3>7. y * P \in Nat /\ ppn * P \in Nat /\ (ppn + y) * P = ppn * P + y * P
      OBVIOUS
    <3>8. r - o = y * P
      BY <3>6, <3>7
    <3> QED
      BY <3>5, <3>7, <3>8
  <2> QED
    BY <2>1, <2>2
<1>10. PICK z \in Nat : z = ppn * P
  OBVIOUS
<1>11. n * P = z + (r - o)
  BY <1>9, <1>10
<1>12. n * P + o = z + (addr - x)
  <2>1. addr = x + r
    BY <1>6
  <2> QED
    BY <1>1, <1>9, <1>11, <2>1
<1> QED
  BY <1>2, <1>3, <1>5, <1>6, <1>7, <1>9, <1>10, <1>12, Zenon

(* What a page or an entry with some flags lets an access do.              *)
Permits(kind, flags) ==
    /\ Has(flags, Needs(kind)) /\ (Has(flags, CanWrite) => Has(flags, CanRead))
    /\ IF cpu.mpriv = User THEN Has(flags, UserPage)
       ELSE Has(flags, UserPage) => kind # "fetch" /\ "SUM" \in cpu.msr

(* The checks of the simulator come to those permissions.                  *)
LEMMA PermissionIs ==
    ASSUME cpu.mpriv \in {User, Super}, NEW kind \in {"fetch", "load", "store"}, NEW flags
    PROVE  LET bars == Permission(kind, cpu.mpriv, "SUM" \in cpu.msr, flags) IN
           /\ bars = 0 <=> Permits(kind, flags)
           /\ bars \in {0, PageFault, Exits}
BY DEF Permission, Permits, User, Super, PageFault, Exits

(* The addresses granted are those of the pages that permit the access.    *)
LEMMA GrantsAre ==
    ASSUME cpu.mpriv \in {User, Super}, cpu.satp >= SatpMode, cpu.satp \in Nat, NEW kind, NEW addr
    PROVE  Grants(kind, addr) =
              {((p.pte \div PfnScale) * PageSize) + addr - p.va :
                  p \in {q \in Pages : addr \in q.va .. q.va + q.size - 1 /\ Permits(kind, q.pte)}}
<1>1. ~(cpu.satp < SatpMode)
  BY PageSizes
<1>2. ~(cpu.mpriv > Super)
  BY DEF User, Super
<1> QED
  BY <1>1, <1>2 DEF Grants, Permits

(* A translation finds the address that a page grants, or none does.       *)
LEMMA Bare ==
    ASSUME cpu.mpriv \in {User, Super}, cpu.satp < SatpMode,
           NEW kind \in {"fetch", "load", "store"}, NEW addr \in Address,
           NEW pa, pa = Translate(regions, cpu.satp, kind, cpu.mpriv, "SUM" \in cpu.msr, addr),
           cpu.satp \in Nat
    PROVE  IF cpu.mpriv = Super THEN pa = addr ELSE pa = PageFault
<1> DEFINE flags == Present + CanRead + CanWrite + CanExec
           e     == [flags |-> flags, frame |-> addr \div PageSize]
           bars  == Permission(kind, cpu.mpriv, "SUM" \in cpu.msr, flags)
<1>1. flags = 15
  BY DEF Present, CanRead, CanWrite, CanExec
<1>2. /\ Has(flags, CanWrite) /\ Has(flags, CanRead) /\ Has(flags, CanExec)
      /\ ~Has(flags, UserPage)
  BY <1>1 DEF Has, CanRead, CanWrite, CanExec, UserPage
<1>3. Has(flags, Needs(kind))
  BY <1>2 DEF Needs
<1> HIDE DEF flags
<1>4. bars = IF cpu.mpriv = Super THEN 0 ELSE PageFault
  BY <1>2, <1>3 DEF Permission, User, Super
<1>5. Translate(regions, cpu.satp, kind, cpu.mpriv, "SUM" \in cpu.msr, addr) =
        Resolve(regions, cpu.satp, addr, e, bars)
  <2>1. ~(cpu.mpriv > Super) /\ Entry(regions, cpu.satp, addr) = e
    BY DEF User, Super, Entry, flags
  <2>2. e.flags = flags
    OBVIOUS
  <2> QED
    BY <2>1, <2>2, Zenon DEF Translate, Guarded
<1>6. ~(cpu.satp >= SatpMode)
  BY PageSizes
<1> HIDE DEF bars
<1>7. Resolve(regions, cpu.satp, addr, e, bars) =
        IF bars # 0 THEN bars ELSE ((addr \div PageSize) * PageSize) + (addr % PageSize)
  BY <1>6 DEF Resolve
<1>8. ((addr \div PageSize) * PageSize) + (addr % PageSize) = addr
  <2>1. PICK n \in Nat : n = addr
    BY Sizes DEF Address
  <2>2. n = (n \div PageSize) * PageSize + (n % PageSize)
    BY PageSizes, Quotients
  <2> QED
    BY <2>1, <2>2
<1> QED
  BY <1>4, <1>5, <1>7, <1>8 DEF PageFault

(* A translation that faults has no page to grant it, and one that does    *)
(* not gives the address its page grants.                                  *)
LEMMA Mapped ==
    ASSUME Types, AlignedLeaves, cpu.mpriv <= Super, cpu.satp >= SatpMode,
           NEW kind \in {"fetch", "load", "store"}, NEW addr \in Address,
           NEW pa, pa = Translate(regions, cpu.satp, kind, cpu.mpriv, "SUM" \in cpu.msr, addr)
    PROVE  /\ pa = PageFault => Grants(kind, addr) = {}
           /\ pa \in Nat => pa \in Grants(kind, addr)
<1> DEFINE w     == Walk(regions, cpu.satp, addr)
           flags == w.pte % PfnScale
           frame == IF w.pte = 0 THEN 0 ELSE Frame(w.pte, addr, w.level)
           e     == [flags |-> flags, frame |-> frame]
           bars  == Permission(kind, cpu.mpriv, "SUM" \in cpu.msr, flags)
<1>1. cpu.mpriv \in {User, Super} /\ cpu.satp \in Address /\ cpu.satp \in Nat
  BY Sizes DEF Types, Cpus, Machine, User, Super, Address
<1>2. regions \in Memories
  BY DEF Types
<1>3. w \in Walked
  BY <1>1, <1>2, WalkTypes
<1>4. w.pte \in Nat /\ w.level \in {0, 1}
  BY <1>3, Sizes DEF Walked, Address
<1>5. /\ bars = 0 <=> Permits(kind, flags)
      /\ bars \in {0, PageFault, Exits}
  BY <1>1, PermissionIs
<1>6. \A bit \in {1, 2, 4, 8, 16} : Has(flags, bit) <=> Has(w.pte, bit)
  <2> HIDE DEF w
  <2> QED
    BY <1>4, SameFlags
<1>7. Permits(kind, flags) <=> Permits(kind, w.pte)
  <2>1. Needs(kind) \in {1, 2, 4, 8, 16}
    BY DEF Needs, CanExec, CanRead, CanWrite
  <2>2. {CanWrite, CanRead, UserPage} \subseteq {1, 2, 4, 8, 16}
    BY DEF CanRead, CanWrite, UserPage
  <2>3. /\ Has(flags, Needs(kind)) <=> Has(w.pte, Needs(kind))
        /\ Has(flags, CanWrite) <=> Has(w.pte, CanWrite)
        /\ Has(flags, CanRead) <=> Has(w.pte, CanRead)
        /\ Has(flags, UserPage) <=> Has(w.pte, UserPage)
    <3> HIDE DEF w, flags
    <3> QED
      BY <1>6, <2>1, <2>2
  <2> HIDE DEF w, flags
  <2> QED
    BY <2>3 DEF Permits
<1>8. pa = Resolve(regions, cpu.satp, addr, e, bars)
  <2>1. ~(cpu.mpriv > Super) /\ ~(cpu.satp < SatpMode)
    BY <1>1, PageSizes DEF User, Super
  <2>2. Entry(regions, cpu.satp, addr) = e
    BY <2>1, Zenon DEF Entry, Split
  <2>3. e.flags = flags
    OBVIOUS
  <2> HIDE DEF e, flags
  <2> QED
    BY <2>1, <2>2, <2>3, Zenon DEF Translate, Guarded
<1>9. \/ pa = Exits
      \/ pa = PageFault /\ bars = PageFault
      \/ pa = (frame * PageSize) + (addr % PageSize) /\ bars = 0
  <2>1. e.frame = frame
    OBVIOUS
  <2> HIDE DEF e, frame, bars
  <2> QED
    BY <1>5, <1>8, <2>1, Zenon DEF Resolve
<1>10. ASSUME pa = PageFault, NEW x \in Grants(kind, addr) PROVE FALSE
  <2>1. PICK p \in Pages : addr \in p.va .. p.va + p.size - 1 /\ Permits(kind, p.pte)
    BY <1>1, <1>10, GrantsAre
  <2>2. w.pte = p.pte
    BY <2>1, PageWalked
  <2>3. bars = 0
    BY <1>5, <1>7, <2>1, <2>2, Zenon
  <2>4. bars = PageFault
    <3> HIDE DEF bars, frame
    <3>1. addr % PageSize \in Nat
      BY PageSizes, Sizes DEF Address
    <3>2. frame \in Nat
      <4>1. addr \in Nat
        BY Sizes DEF Address
      <4> HIDE DEF w
      <4>2. Frame(w.pte, addr, w.level) \in Nat
        BY <1>4, <4>1, FrameTypes
      <4> QED
        BY <4>2 DEF frame
    <3>3. PICK b \in Nat : b = frame * PageSize
      BY <3>2, PageSizes
    <3> QED
      BY <1>9, <1>10, <3>1, <3>3 DEF PageFault, Exits
  <2> QED
    BY <2>3, <2>4 DEF PageFault
<1>11. ASSUME pa \in Nat PROVE pa \in Grants(kind, addr)
  <2>1. pa = (frame * PageSize) + (addr % PageSize) /\ bars = 0
    <3> HIDE DEF bars, frame
    <3> QED
      BY <1>9, <1>11 DEF PageFault, Exits
  <2>2. Permits(kind, w.pte)
    BY <1>5, <1>7, <2>1, Zenon
  <2>3. Has(w.pte, Needs(kind)) /\ IsLeaf(w.pte)
    BY <2>2 DEF Permits, IsLeaf, Needs
  <2>4. w.pte # 0
    <3>1. Needs(kind) \in {1, 2, 4, 8, 16}
      BY DEF Needs, CanExec, CanRead, CanWrite
    <3> HIDE DEF w
    <3> QED
      BY <2>3, <3>1, NoFlags
  <2>5. Has(w.pte, Present)
    <3>1. PICK pte, i : w = Found(pte, i)
      BY WalkIs, Zenon
    <3> HIDE DEF w
    <3> QED
      BY <2>4, <3>1 DEF Found
  <2>6. PICK p : p = PageAt(w.pte, addr, w.level)
    OBVIOUS
  <2>7. p.pte = w.pte /\ p.size = Span(w.level) /\ p.va = (addr \div Span(w.level)) * Span(w.level)
    BY <2>6 DEF PageAt
  <2>8. p \in Pages /\ addr \in p.va .. p.va + p.size - 1
    BY <2>3, <2>5, <2>6, <2>7, WalkedPage
  <2>9. w.level = 1 => (w.pte \div PfnScale) % Entries = 0
    BY <2>7, <2>8 DEF AlignedLeaves
  <2>10. pa = ((p.pte \div PfnScale) * PageSize) + addr - p.va
    <3>1. (Frame(w.pte, addr, w.level) * PageSize) + (addr % PageSize) =
              ((w.pte \div PfnScale) * PageSize) + addr - ((addr \div Span(w.level)) * Span(w.level))
      <4> HIDE DEF w
      <4> QED
        BY <1>4, <2>9, FrameIs
    <3>2. frame = Frame(w.pte, addr, w.level)
      BY <2>4
    <3> QED
      BY <2>1, <2>7, <3>1, <3>2, Zenon
  <2> QED
    BY <1>1, <2>2, <2>7, <2>8, <2>10, GrantsAre
<1> QED
  BY <1>10, <1>11

(* The same without translation, and for the machine level.                *)
LEMMA Granted ==
    ASSUME Types, AlignedLeaves,
           NEW kind \in {"fetch", "load", "store"}, NEW addr \in Address,
           NEW pa, pa = Translate(regions, cpu.satp, kind, cpu.mpriv, "SUM" \in cpu.msr, addr)
    PROVE  /\ pa = PageFault => Grants(kind, addr) = {}
           /\ pa \in Nat => pa \in Grants(kind, addr)
<1>1. cpu.mpriv \in 0 .. 3 /\ cpu.satp \in Nat /\ addr \in Nat
  BY Sizes DEF Types, Cpus, Machine, Address
<1>2. CASE cpu.mpriv > Super
  <2>1. pa = addr /\ Grants(kind, addr) = {addr}
    BY <1>2 DEF Translate, Grants
  <2> QED
    BY <1>1, <2>1 DEF PageFault
<1>3. CASE cpu.mpriv <= Super /\ cpu.satp < SatpMode
  <2>1. cpu.mpriv \in {User, Super}
    BY <1>1, <1>3 DEF User, Super
  <2>2. IF cpu.mpriv = Super THEN pa = addr ELSE pa = PageFault
    BY <1>1, <1>3, <2>1, Bare
  <2>3. Grants(kind, addr) = IF cpu.mpriv = Super THEN {addr} ELSE {}
    BY <1>3, <2>1 DEF Grants, User, Super
  <2> QED
    BY <1>1, <2>2, <2>3 DEF PageFault
<1>4. CASE cpu.mpriv <= Super /\ cpu.satp >= SatpMode
  BY <1>4, Mapped
<1>5. \/ cpu.mpriv > Super
      \/ cpu.mpriv <= Super /\ cpu.satp < SatpMode
      \/ cpu.mpriv <= Super /\ cpu.satp >= SatpMode
  BY <1>1, PageSizes DEF Super
<1> QED
  BY <1>2, <1>3, <1>4, <1>5

-----------------------------------------------------------------------------
(* What an instruction does with memory. *)

(* Stores leave the regions where they are.                                *)
LEMMA WriteWhere ==
    ASSUME NEW mem \in Memories, WholeWords(mem), NEW a \in Int, NEW data, NEW width
    PROVE  WholeWords(Write(mem, a, data, width))
<1>1. CASE Valid(mem, a)
  <2>1. Alongside(mem, Write(mem, a, data, width))
    BY <1>1, WriteParts DEF Alongside
  <2> QED
    BY <2>1, SameRegions
<1>2. CASE ~Valid(mem, a)
  <2> DEFINE r == StoreTo(mem[0], a - mem[0].base, data, width)
  <2>1. RegionOf(mem, a) = 0
    BY <1>2, RegionFound
  <2>2. Write(mem, a, data, width) = [mem EXCEPT ![0] = r]
    BY <2>1 DEF Write
  <2> HIDE DEF r
  <2>3. mem \in Seq(Region)
    BY DEF Memories
  <2>4. [mem EXCEPT ![0] = r] = mem
    BY <2>3
  <2> QED
    BY <2>2, <2>4
<1> QED
  BY <1>1, <1>2

(* A region of whole words keeps the memory whole.                         *)
LEMMA CreateWhole ==
    ASSUME NEW mem \in Memories, WholeWords(mem), NEW base \in Nat, NEW size \in Nat,
           base % 4 = 0, size % 4 = 0
    PROVE  WholeWords(CreateMemory(mem, base, size))
<1> DEFINE words == [i \in 0 .. (size + 3) \div 4 - 1 |-> 0]
           r == [base |-> base, size |-> size, words |-> words]
<1>1. r.base = base /\ r.size = size
  OBVIOUS
<1>2. CreateMemory(mem, base, size) = IF Len(mem) < MaxRegions THEN Append(mem, r) ELSE mem
  BY DEF CreateMemory
<1> HIDE DEF r
<1>3. mem \in Seq(Region) /\ Len(mem) \in Nat
  BY DEF Memories
<1>4. /\ Len(Append(mem, r)) = Len(mem) + 1
      /\ \A j \in 1 .. Len(mem) + 1 : Append(mem, r)[j] = IF j = Len(mem) + 1 THEN r ELSE mem[j]
  BY <1>3
<1>5. WholeWords(Append(mem, r))
  BY <1>1, <1>3, <1>4 DEF WholeWords
<1> QED
  BY <1>2, <1>5

(* Sections of whole words load into a memory of whole words.              *)
LEMMA LoadedWhole ==
    ASSUME NEW sections, Len(sections) \in Nat,
           \A n \in 1 .. Len(sections) : /\ IsSection(sections[n])
                                         /\ sections[n].base % 4 = 0
                                         /\ Len(sections[n].bytes) % 4 = 0
    PROVE  WholeWords(Loaded(sections))
<1> DEFINE M == {mem \in Memories : WholeWords(mem)}
<1>1. <<>> \in M
  <2>1. <<>> \in Seq(Region) /\ Len(<<>>) = 0
    OBVIOUS
  <2>2. <<>> \in Memories
    BY <2>1, SimMemoryAssumption DEF Memories
  <2> QED
    BY <2>1, <2>2 DEF WholeWords
<1>2. WritesKeep(M)
  <2> SUFFICES ASSUME NEW m \in M, NEW a \in Int, NEW b \in Nat
               PROVE  Write(m, a, b, 1) \in M
    BY DEF WritesKeep
  <2>1. Write(m, a, b, 1) \in Memories
    <3>1. 1 \in {1, 2, 4}
      OBVIOUS
    <3> QED
      BY <3>1, WriteByte, WriteTypes
  <2>2. WholeWords(Write(m, a, b, 1))
    BY WriteWhere
  <2> QED
    BY <2>1, <2>2
<1>3. ASSUME NEW m \in M, NEW n \in 1 .. Len(sections)
      PROVE  LoadSection(m, sections[n]) \in M
  <2>1. PICK s : s = sections[n]
    OBVIOUS
  <2>2. IsSection(s) /\ s.base % 4 = 0 /\ Len(s.bytes) % 4 = 0
    BY <2>1
  <2>3. /\ s.base \in Address /\ s.base \in Nat /\ Len(s.bytes) \in Nat
        /\ s.base + Len(s.bytes) < WordValues
    <3>1. s.base \in Address /\ Len(s.bytes) \in Nat /\ s.base + Len(s.bytes) < WordValues
      BY <2>2 DEF IsSection
    <3> QED
      BY <3>1, Sizes DEF Address
  <2>4. CreateMemory(m, s.base, Len(s.bytes)) \in M
    BY <2>2, <2>3, CreateMemoryTypes, CreateWhole
  <2> HIDE DEF M
  <2>5. LoadSection(m, s) \in M
    BY <1>2, <2>2, <2>4, LoadSectionIn
  <2> QED
    BY <2>1, <2>5
<1>4. Loaded(sections) \in M
  <2> HIDE DEF M
  <2>1. SectionsKeep(M, sections)
    BY <1>3 DEF SectionsKeep
  <2> QED
    BY <1>1, <2>1, LoadedIn
<1> QED
  BY <1>4

(* In such a memory an access the region takes for aligned is aligned.     *)
LEMMA AlignedAddress ==
    ASSUME NEW mem \in Memories, WholeWords(mem), NEW a \in Int, Valid(mem, a),
           NEW width \in {1, 2, 4}, AlignedIn(mem, a, width)
    PROVE  a % width = 0
<1>1. PICK j \in 1 .. Len(mem) : /\ j = RegionOf(mem, a) /\ mem[j].base \in Nat
                                 /\ a \in Nat /\ a >= mem[j].base
  BY Located
<1>2. mem[j].base % 4 = 0
  BY DEF WholeWords
<1>3. (a - mem[j].base) % width = 0
  BY <1>1 DEF AlignedIn, Aligned
<1>4. \A base \in Nat : base % 4 = 0 /\ a >= base /\ (a - base) % width = 0 => a % width = 0
  BY <1>1
<1> QED
  BY <1>1, <1>2, <1>3, <1>4

(* The outcome of an instruction, in memory: none, the fault of a load or  *)
(* a store, a load, a store.                                               *)
Untouched(out) == out.mem = regions /\ out.data = None /\ out.value = None

Accessing(i, pa) ==
    /\ pa = DataAddress(i) /\ pa # PageFault
    /\ Valid(regions, pa) /\ AlignedIn(regions, pa, i.width)

Touches(i, out) ==
    \/ i.op \notin {"load", "store"} /\ Untouched(out)
    \/ /\ i.op \in {"load", "store"} /\ Untouched(out)
       /\ DataAddress(i) = PageFault /\ out.cause \in {<<"trap", 13>>, <<"trap", 15>>}
    \/ \E pa \in Int :
          /\ i.op = "load" /\ Accessing(i, pa)
          /\ out.mem = regions /\ out.data = pa
          /\ out.value = Read(regions, pa, i.width, i.signed)
    \/ \E pa \in Int :
          /\ i.op = "store" /\ Accessing(i, pa)
          /\ out.mem = Write(regions, pa, i.val, i.width) /\ out.data = pa /\ out.value = None

(* An instruction touches memory in one of those ways.                     *)
LEMMA EffectTouches ==
    ASSUME Types, NEW i, IsInstr(i), ~Dies(i)
    PROVE  Touches(i, Effect(i))
<1>1. CASE i.op \in {"load", "store"}
  <2> DEFINE pa == DataAddress(i)
  <2>1. Effect(i) = LoadOrStore(i)
    BY <1>1 DEF Effect
  <2>2. i.addr \in Address
    BY <1>1 DEF IsInstr, IsCsrInstr
  <2>3. pa \in Int
    BY <1>1, <2>2, DataAddressTypes
  <2>4. CASE pa = PageFault
    <3> DEFINE n == IF i.op = "store" THEN 15 ELSE 13
    <3>1. LoadOrStore(i) = Trapped(n, i.addr)
      BY <2>4 DEF LoadOrStore
    <3>2. n \in {13, 15}
      OBVIOUS
    <3> HIDE DEF n
    <3>3. Untouched(Trapped(n, i.addr)) /\ Trapped(n, i.addr).cause = <<"trap", n>>
      BY DEF Untouched, Trapped, Outcome
    <3> QED
      BY <1>1, <2>1, <2>4, <3>1, <3>2, <3>3 DEF Touches
  <2>5. CASE pa # PageFault
    <3>1. Accessing(i, pa)
      BY <1>1, <2>5 DEF Accessing, Dies, BadAddress
    <3>2. CASE i.op = "store"
      <4>1. LoadOrStore(i) = [Outcome(Next4(cpu)) EXCEPT !.data = pa,
                                                         !.mem = Write(regions, pa, i.val, i.width)]
        BY <2>5, <3>2 DEF LoadOrStore
      <4> HIDE DEF pa
      <4>2. /\ LoadOrStore(i).data = pa /\ LoadOrStore(i).value = None
            /\ LoadOrStore(i).mem = Write(regions, pa, i.val, i.width)
        BY <4>1 DEF Outcome
      <4> QED
        BY <2>1, <2>3, <3>1, <3>2, <4>2 DEF Touches
    <3>3. CASE i.op = "load"
      <4>1. LoadOrStore(i) = [Outcome(Next4(cpu)) EXCEPT !.data = pa,
                                 !.value = Read(regions, pa, i.width, i.signed)]
        BY <2>5, <3>3 DEF LoadOrStore
      <4> HIDE DEF pa
      <4>2. /\ LoadOrStore(i).data = pa /\ LoadOrStore(i).mem = regions
            /\ LoadOrStore(i).value = Read(regions, pa, i.width, i.signed)
        BY <4>1 DEF Outcome
      <4> QED
        BY <2>1, <2>3, <3>1, <3>3, <4>2 DEF Touches
    <3> QED
      BY <1>1, <3>2, <3>3
  <2> QED
    BY <2>4, <2>5
<1>2. CASE i.op \notin {"load", "store"}
  <2>1. i.op = "ecall" => Effect(i) = Trapped(8 + cpu.mpriv, 0)
    BY DEF Effect
  <2>2. i.op = "ebreak" => Effect(i) = [Trapped(3, 0) EXCEPT !.c.stopped = TRUE]
    BY DEF Effect
  <2>3. i.op \notin {"ecall", "ebreak"} => \E c : Effect(i) = Outcome(c)
    BY <1>2 DEF Effect
  <2>4. \A n, b : Untouched(Trapped(n, b))
    BY DEF Untouched, Trapped, Outcome
  <2>5. \A c : Untouched(Outcome(c))
    BY OutcomeParts DEF Untouched
  <2>6. Untouched(Effect(i))
    <3>1. CASE i.op = "ecall"
      BY <2>1, <2>4, <3>1, Zenon
    <3>2. CASE i.op = "ebreak"
      BY <2>2, <3>2 DEF Untouched, Trapped, Outcome
    <3>3. CASE i.op \notin {"ecall", "ebreak"}
      <4>1. PICK c : Effect(i) = Outcome(c)
        BY <2>3, <3>3
      <4> QED
        BY <2>5, <4>1, Zenon
    <3> QED
      BY <3>1, <3>2, <3>3
  <2> QED
    BY <1>2, <2>6 DEF Touches
<1> QED
  BY <1>1, <1>2

(* What the property says of the end of an instruction, part by part: the  *)
(* address it used, what a store left, what a load got, what was kept.     *)
StoredBytes(i, d) ==
    IF i.op = "store" /\ d.data # None THEN d.data .. d.data + i.width - 1 ELSE {}

DataGranted(i, d) ==
    i.op \in {"load", "store"} =>
        IF d.data = None
        THEN Grants(i.op, i.addr) = {} /\ d.cause \in {<<"trap", 13>>, <<"trap", 15>>}
        ELSE d.data \in Grants(i.op, i.addr)

StoreLeft(i, d, next) ==
    StoredBytes(i, d) # {} => LittleEndian(next, d.data, i.width) = i.val % ValuesOf(i.width)

LoadGot(i, d, mem) ==
    d.value # None =>
        LET v == LittleEndian(mem, d.data, i.width)
            negative == i.signed /\ v >= ValuesOf(i.width) \div 2
        IN d.value = IF negative THEN WordValues - ValuesOf(i.width) + v ELSE v

BytesKept(i, d, mem, next) ==
    next # mem =>
        \A a \in {b \in Address : Valid(mem, b)} \ StoredBytes(i, d) :
           ByteAt(next, a) = ByteAt(mem, a)

DataParts(i, d, next) ==
    /\ DataGranted(i, d) /\ StoreLeft(i, d, next)
    /\ LoadGot(i, d, regions) /\ BytesKept(i, d, regions, next)

(* What it touches is granted, and is what the property says.              *)
LEMMA AccessMapped ==
    ASSUME Types, WholeWords(regions), AlignedLeaves, NEW i, IsInstr(i) \/ i = NoInstr,
           NEW out, Touches(i, out), NEW d,
           d.data = out.data, d.value = out.value, out.cause # None => d.cause = out.cause
    PROVE  DataParts(i, d, out.mem)
<1>1. regions \in Memories
  BY DEF Types
<1>2. i.op \in {"load", "store"} =>
        /\ i.addr \in Address /\ i.width \in {1, 2, 4}
        /\ i.op = "store" => i.val \in Nat
  BY Sizes DEF IsInstr, IsCsrInstr, NoInstr, Address
<1>3. None \notin Int /\ None \notin Cause
  BY CauseNotNone
<1>4. i.op \in {"load", "store"} =>
        /\ DataAddress(i) = PageFault => Grants(i.op, i.addr) = {}
        /\ DataAddress(i) \in Nat => DataAddress(i) \in Grants(i.op, i.addr)
  <2> SUFFICES ASSUME i.op \in {"load", "store"}
               PROVE  /\ DataAddress(i) = PageFault => Grants(i.op, i.addr) = {}
                      /\ DataAddress(i) \in Nat => DataAddress(i) \in Grants(i.op, i.addr)
    OBVIOUS
  <2>1. i.op \in {"fetch", "load", "store"} /\ i.addr \in Address
    BY <1>2
  <2> QED
    BY <2>1, Granted DEF DataAddress
<1>5. CASE i.op \notin {"load", "store"} /\ Untouched(out)
  BY <1>5 DEF Untouched, DataParts, DataGranted, StoreLeft, LoadGot, BytesKept, StoredBytes
<1>6. CASE /\ i.op \in {"load", "store"} /\ Untouched(out)
           /\ DataAddress(i) = PageFault /\ out.cause \in {<<"trap", 13>>, <<"trap", 15>>}
  <2>1. out.cause # None
    <3>1. <<"trap", 13>> \in Cause /\ <<"trap", 15>> \in Cause
      BY DEF Cause
    <3> QED
      BY <1>3, <1>6, <3>1
  <2> QED
    BY <1>4, <1>6, <2>1
       DEF Untouched, DataParts, DataGranted, StoreLeft, LoadGot, BytesKept, StoredBytes
<1>7. ASSUME NEW pa \in Int, i.op = "load", Accessing(i, pa), out.mem = regions, out.data = pa,
             out.value = Read(regions, pa, i.width, i.signed)
      PROVE  DataParts(i, d, out.mem)
  <2>1. Valid(regions, pa) /\ pa \in Nat /\ pa = DataAddress(i) /\ pa % i.width = 0
    BY <1>1, <1>2, <1>7, Located, AlignedAddress DEF Accessing
  <2>2. LittleEndian(regions, pa, i.width) = Bits(WordAt(regions, pa), pa, i.width)
    BY <1>1, <1>2, <1>7, <2>1, LittleEndianIs
  <2>3. LET v == Bits(WordAt(regions, pa), pa, i.width)
        IN Read(regions, pa, i.width, i.signed) =
              IF i.signed /\ v >= ValuesOf(i.width) \div 2
              THEN WordValues - ValuesOf(i.width) + v ELSE v
    BY <1>1, <2>1, ReadIs
  <2>4. LoadGot(i, d, regions)
    BY <1>7, <2>2, <2>3, Zenon DEF LoadGot
  <2>5. DataGranted(i, d)
    BY <1>3, <1>4, <1>7, <2>1 DEF DataGranted
  <2> QED
    BY <1>7, <2>4, <2>5 DEF DataParts, StoreLeft, BytesKept, StoredBytes
<1>8. ASSUME NEW pa \in Int, i.op = "store", Accessing(i, pa), out.data = pa, out.value = None,
             out.mem = Write(regions, pa, i.val, i.width)
      PROVE  DataParts(i, d, out.mem)
  <2>1. Valid(regions, pa) /\ pa \in Nat /\ pa = DataAddress(i) /\ pa % i.width = 0
    BY <1>1, <1>2, <1>8, Located, AlignedAddress DEF Accessing
  <2>2. i.val \in Nat /\ i.width \in {1, 2, 4}
    BY <1>2, <1>8
  <2>3. LittleEndian(out.mem, pa, i.width) = i.val % ValuesOf(i.width)
    BY <1>1, <1>8, <2>1, <2>2, StoreIs
  <2>4. StoreLeft(i, d, out.mem)
    BY <1>8, <2>3, Zenon DEF StoreLeft
  <2>5. StoredBytes(i, d) = pa .. pa + i.width - 1
    BY <1>3, <1>8 DEF StoredBytes
  <2>6. Write(regions, pa, i.val, i.width) \in Memories
    BY <1>1, <1>8, <2>2, WriteTypes DEF Accessing
  <2>7. ASSUME NEW b \in Address, Valid(regions, b), b \notin pa .. pa + i.width - 1
        PROVE  ByteAt(out.mem, b) = ByteAt(regions, b)
    <3>1. b \in Int
      BY Sizes DEF Address
    <3> QED
      BY <1>1, <1>8, <2>1, <2>2, <2>6, <2>7, <3>1, StoreKeeps
  <2>8. BytesKept(i, d, regions, out.mem)
    BY <2>5, <2>7 DEF BytesKept
  <2>9. DataGranted(i, d)
    BY <1>3, <1>4, <1>8, <2>1 DEF DataGranted
  <2>10. LoadGot(i, d, regions)
    BY <1>8 DEF LoadGot
  <2> QED
    BY <2>4, <2>8, <2>9, <2>10 DEF DataParts
<1> QED
  BY <1>5, <1>6, <1>7, <1>8 DEF Touches

(* What the property says of the fetch.                                    *)
FetchGranted(d) ==
    IF d.fetch = None
    THEN Grants("fetch", cpu.pc) = {} /\ d.cause = <<"trap", 12>>
    ELSE d.fetch \in Grants("fetch", cpu.pc)

(* Memory whose regions begin and end at a word.                           *)
MInv == Types /\ WholeWords(regions)

(* A step that ends an instruction, of either outcome.                     *)
LEMMA EndOfStep ==
    ASSUME Types, NEW i, NEW out, NEW fetch, Instruction(i, out, fetch)
    PROVE  /\ regions' = out.mem /\ did'.i = i /\ did'.fetch = fetch
           /\ did'.data = out.data /\ did'.value = out.value
           /\ out.cause # None => did'.cause = out.cause
<1>1. out.c \in Cpus /\ out.cause \in Cause \cup {None}
  BY InstructionTypes
<1>2. FinishWith(i, out, fetch, TakenCause(out))
  BY DEF Instruction, Finish
<1> QED
  BY <1>1, <1>2, FinishCases DEF Ended

(* What holds along a step.                                                *)
LEMMA StepMaps ==
    ASSUME MInv, AlignedLeaves, [Next]_vars
    PROVE  /\ WholeWords(regions')
           /\ Stepped => FetchGranted(did') /\ DataParts(did'.i, did', regions')
<1>1. Types /\ WholeWords(regions) /\ regions \in Memories
  BY DEF MInv, Types
<1>2. cpu.pc \in Address /\ None \notin Int
  BY <1>1, CauseNotNone DEF Types, Cpus
<1>3. /\ Fetched = PageFault => Grants("fetch", cpu.pc) = {}
      /\ Fetched \in Nat => Fetched \in Grants("fetch", cpu.pc)
  <2>1. "fetch" \in {"fetch", "load", "store"}
    OBVIOUS
  <2> QED
    BY <1>1, <1>2, <2>1, Granted DEF Fetched
<1>4. CASE FetchFaults
  <2> DEFINE out == Trapped(12, cpu.pc)
  <2>1. Instruction(NoInstr, out, None)
    <3>1. Traps(NoInstr, out)
      BY <1>1, FetchFaultCases
    <3>2. Finish(NoInstr, out, None)
      BY <1>4 DEF FetchFaults
    <3> QED
      BY <3>1, <3>2, Zenon DEF Instruction
  <2>2. Untouched(out) /\ out.cause = <<"trap", 12>>
    BY DEF Untouched, Trapped, Outcome
  <2>3. NoInstr.op \notin {"load", "store"}
    BY DEF NoInstr
  <2>4. Touches(NoInstr, out)
    BY <2>2, <2>3 DEF Touches
  <2>5. out.cause # None
    BY <2>2, IsaSimAssumption
  <2> HIDE DEF out
  <2>6. /\ regions' = out.mem /\ did'.i = NoInstr /\ did'.fetch = None
        /\ did'.data = out.data /\ did'.value = out.value
        /\ out.cause # None => did'.cause = out.cause
    BY <1>1, <2>1, EndOfStep
  <2>7. DataParts(NoInstr, did', out.mem)
    BY <1>1, <2>4, <2>6, AccessMapped
  <2>8. FetchGranted(did')
    BY <1>3, <1>4, <2>2, <2>5, <2>6 DEF FetchGranted, FetchFaults
  <2>9. WholeWords(regions')
    BY <1>1, <2>2, <2>6 DEF Untouched
  <2> QED
    BY <2>6, <2>7, <2>8, <2>9
<1>5. ASSUME NEW i \in program.instrs, Execute(i), ~Dies(i)
      PROVE  /\ WholeWords(regions')
             /\ FetchGranted(did') /\ DataParts(did'.i, did', regions')
  <2> DEFINE out == Effect(i)
  <2>1. IsInstr(i)
    BY <1>1, InstrTypes
  <2>2. Instruction(i, out, Fetched)
    <3>1. Finish(i, out, Fetched)
      BY <1>5 DEF Execute
    <3>2. \/ Traps(i, out)
          \/ GoesOn(i, out.c) /\ out.mem \in Memories /\ out.cause = None
      BY <1>1, <1>5, <2>1, EffectCases
    <3> QED
      BY <1>5, <2>1, <3>1, <3>2 DEF Instruction
  <2>3. Touches(i, out)
    BY <1>1, <1>5, <2>1, EffectTouches
  <2> HIDE DEF out
  <2>4. /\ regions' = out.mem /\ did'.i = i /\ did'.fetch = Fetched
        /\ did'.data = out.data /\ did'.value = out.value
        /\ out.cause # None => did'.cause = out.cause
    BY <1>1, <2>2, EndOfStep
  <2>5. DataParts(i, did', out.mem)
    BY <1>1, <2>1, <2>3, <2>4, AccessMapped
  <2>6. Fetched \in Nat
    <3>1. Fetched \in Int
      <4>1. cpu.satp \in Address /\ cpu.mpriv \in 0 .. Machine
        BY <1>1 DEF Types, Cpus
      <4>2. ("SUM" \in cpu.msr) \in BOOLEAN /\ "fetch" \in {"fetch", "load", "store"}
        OBVIOUS
      <4> QED
        BY <1>1, <1>2, <4>1, <4>2, TranslateTypes, Zenon DEF Fetched
    <3>2. Valid(regions, Fetched)
      BY <1>5 DEF Execute, BadAddress
    <3> QED
      BY <1>1, <3>1, <3>2, Located
  <2>7. FetchGranted(did')
    BY <1>2, <1>3, <2>4, <2>6 DEF FetchGranted
  <2>8. WholeWords(regions')
    BY <1>1, <2>3, <2>4, WriteWhere DEF Touches, Untouched
  <2> QED
    BY <2>4, <2>5, <2>7, <2>8
<1>6. CASE Die \/ SetInterrupt \/ UNCHANGED vars
  <2>1. regions' = regions /\ cpu'.mtime = cpu.mtime
    BY <1>1, <1>6 DEF Die, SetInterrupt, vars, Types, Cpus
  <2> QED
    BY <1>1, <2>1 DEF Stepped
<1>7. \/ FetchFaults \/ Die \/ SetInterrupt \/ UNCHANGED vars
      \/ \E i \in program.instrs : Execute(i) /\ ~Dies(i)
  BY DEF Next, Step, FetchDies, Execute
<1> QED
  BY <1>4, <1>5, <1>6, <1>7

(* A loaded program has a memory of whole words.                           *)
LEMMA InitWhole == WholeSections /\ Init => MInv
<1> SUFFICES ASSUME WholeSections, Init PROVE MInv
  OBVIOUS
<1>1. program \in Programs
  BY DEF Init
<1>2. IsProgram(program)
  BY <1>1, IsaSimAssumption
<1>3. PICK sections : sections = program.sections
  OBVIOUS
<1>4. Len(sections) \in Nat
  BY <1>2, <1>3 DEF IsProgram
<1>5. \A n \in 1 .. Len(sections) : /\ IsSection(sections[n])
                                    /\ sections[n].base % 4 = 0
                                    /\ Len(sections[n].bytes) % 4 = 0
  BY <1>1, <1>2, <1>3 DEF IsProgram, IsSection, WholeSections
<1>6. WholeWords(Loaded(sections))
  BY <1>4, <1>5, LoadedWhole
<1>7. regions = Loaded(sections)
  BY <1>3 DEF Init
<1> QED
  BY <1>6, <1>7, InitTypes DEF MInv

(* Every fetch, load and store of a program of whole words uses the        *)
(* address its page gives it and has the permission, or traps; a store     *)
(* changes the bytes it names and no other, a load returns them, as long   *)
(* as large pages are aligned.                                             *)
THEOREM AccessesMapped ==
    ASSUME WholeSections
    PROVE  Spec /\ []AlignedLeaves => AccessesAreMapped
<1>1. Init => MInv
  BY InitWhole
<1>2. MInv /\ AlignedLeaves /\ [Next]_vars => MInv'
  <2> SUFFICES ASSUME MInv, AlignedLeaves, [Next]_vars PROVE MInv'
    OBVIOUS
  <2>1. WholeWords(regions')
    BY StepMaps
  <2>2. Types'
    BY StepTypes DEF MInv
  <2> QED
    BY <2>1, <2>2 DEF MInv
<1>3. MInv /\ AlignedLeaves /\ [Next]_vars =>
       [Stepped =>
        LET i == did'.i
            stored == IF i.op = "store" /\ did'.data # None
                      THEN did'.data .. did'.data + i.width - 1 ELSE {}
        IN /\ IF did'.fetch = None
              THEN Grants("fetch", cpu.pc) = {} /\ did'.cause = <<"trap", 12>>
              ELSE did'.fetch \in Grants("fetch", cpu.pc)
           /\ i.op \in {"load", "store"} =>
                 IF did'.data = None
                 THEN Grants(i.op, i.addr) = {} /\ did'.cause \in {<<"trap", 13>>, <<"trap", 15>>}
                 ELSE did'.data \in Grants(i.op, i.addr)
           /\ stored # {} => LittleEndian(regions', did'.data, i.width) = i.val % ValuesOf(i.width)
           /\ did'.value # None =>
                 LET v == LittleEndian(regions, did'.data, i.width)
                     negative == i.signed /\ v >= ValuesOf(i.width) \div 2
                 IN did'.value = IF negative THEN WordValues - ValuesOf(i.width) + v ELSE v
           /\ regions' # regions =>
                 \A a \in {b \in Address : Valid(regions, b)} \ stored :
                    ByteAt(regions', a) = ByteAt(regions, a)]_vars
  <2> SUFFICES ASSUME MInv, AlignedLeaves, [Next]_vars, Stepped
               PROVE  FetchGranted(did') /\ DataParts(did'.i, did', regions')
    BY Zenon DEF FetchGranted, DataParts, DataGranted, StoreLeft, LoadGot, BytesKept, StoredBytes
  <2> QED
    BY StepMaps
<1> QED
  BY <1>1, <1>2, <1>3, PTL DEF Spec, AccessesAreMapped

=============================================================================
