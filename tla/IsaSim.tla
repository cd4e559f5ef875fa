------------------------------- MODULE IsaSim -------------------------------
(***************************************************************************)
(* The instruction set simulator as a machine with privileges: traps and   *)
(* delegation, interrupts, the timer, address translation and memory       *)
(* (isa_sim/riscv.cpp), run by the loop of riscv_main.cpp.  RiscvIsa says  *)
(* what the same program does to the registers.                            *)
(*                                                                         *)
(* A step is one instruction.  What the program does is free: at each      *)
(* step any of its instructions may be the one fetched.  Registers are     *)
(* left out; an instruction holds the values it works on.                  *)
(***************************************************************************)
EXTENDS SimMmu

CONSTANTS
    Programs,    \* [sections, boot, start, instrs, external], see Init
    TimeValues,  \* values of the timer, 2^32
    None

Address == 0 .. WordValues - 1

(* The bits of the status and interrupt registers; a register is the set   *)
(* of its bits that are 1.                                                 *)
StatusBits == {"SIE", "MIE", "SPIE", "MPIE", "SPP", "MPP0", "MPP1", "SUM"}
IrqBits    == {1, 3, 5, 7, 9, 11}   \* software, timer, external, of S and M
Causes     == {2, 3, 8, 9, 10, 11, 12, 13, 15}

StatusCsrs  == {"mstatus", "sstatus"}
BitCsrs     == {"mie", "sie", "mip", "sip", "mideleg", "medeleg"}
AddressCsrs == {"mepc", "sepc", "mtvec", "stvec", "satp"}

(* What a program may consist of. *)
IsCsrInstr(i) ==
    /\ i.op \in {"rw", "rs", "rc"}
    /\ \/ i.csr \in StatusCsrs /\ i.data \subseteq StatusBits
       \/ i.csr \in BitCsrs /\ i.data \subseteq 0 .. 31
       \/ i.csr \in AddressCsrs /\ i.data \in Address
       \/ i.csr = "mtime" /\ i.data \in 0 .. TimeValues - 1

IsInstr(i) ==
    \/ i.op = "load" /\ i.addr \in Address /\ i.width \in {1, 2, 4} /\ i.signed \in BOOLEAN
    \/ i.op = "store" /\ i.addr \in Address /\ i.width \in {1, 2, 4} /\ i.val \in Address
    \/ i.op = "jump" /\ i.target \in Address
    \/ i.op \in {"ecall", "ebreak", "mret", "sret", "fence", "bad"}
    \/ IsCsrInstr(i)

IsProgram(p) ==
    /\ \A n \in 1 .. Len(p.sections) :
          /\ p.sections[n].base \in Address
          /\ p.sections[n].bytes \in Seq(0 .. Byte - 1)
          /\ p.sections[n].base + Len(p.sections[n].bytes) < WordValues
    /\ \A n \in 1 .. Len(p.boot) : IsCsrInstr(p.boot[n])
    /\ {Len(p.sections), Len(p.boot)} \subseteq Nat
    /\ p.start \in Address /\ \A i \in p.instrs : IsInstr(i)

ASSUME IsaSimAssumption ==
    /\ TimeValues \in Nat \ {0, 1}
    /\ \A p \in Programs : IsProgram(p)
    /\ None \notin Int \cup {"m", "s"} \cup ({"trap", "irq"} \X Nat)
                  \cup [pc : Address, priv : 0 .. Machine, ie : BOOLEAN]

VARIABLES
    cpu,       \* the registers of class Riscv
    program,   \* the one that is run
    running,   \* whether the loop of riscv_main goes on
    did,       \* what the last step did
    saved      \* per level, the context of the last trap that is not over

vars == <<regions, cpu, program, running, did, saved>>

Reset(pc) ==
    [pc |-> pc, mpriv |-> Machine, msr |-> {}, mideleg |-> {}, medeleg |-> {},
     mepc |-> 0, mie |-> {}, mip |-> {}, mcause |-> <<"trap", 0>>, mevec |-> 0,
     mtime |-> 0, mtimecmp |-> 0,
     sepc |-> 0, sevec |-> 0, scause |-> <<"trap", 0>>, stval |-> 0, satp |-> 0,
     stopped |-> FALSE]

If(bit, cond) == IF cond THEN {bit} ELSE {}
Mpp(msr) == (IF "MPP0" \in msr THEN 1 ELSE 0) + (IF "MPP1" \in msr THEN 2 ELSE 0)
MppBits(priv) == If("MPP0", priv % 2 = 1) \cup If("MPP1", priv >= 2)

-----------------------------------------------------------------------------
(* access_csr: the writes.  The address registers are written whole.       *)
CsrField ==
    [mstatus |-> "msr", sstatus |-> "msr", mie |-> "mie", sie |-> "mie", mip |-> "mip",
     sip |-> "mip", mideleg |-> "mideleg", medeleg |-> "medeleg", mepc |-> "mepc",
     sepc |-> "sepc", mtvec |-> "mevec", stvec |-> "sevec", satp |-> "satp"]

CsrMask(csr) ==
    CASE csr = "mstatus"          -> StatusBits
      [] csr = "sstatus"          -> {"SIE", "SPIE", "SPP", "SUM"}
      [] csr \in {"sie", "sip"}   -> {1, 5, 9}
      [] csr \in {"mie", "mip"}   -> IrqBits
      [] csr = "mideleg"          -> IrqBits
      [] csr = "medeleg"          -> Causes

TimerBit(c) == IF 5 \in c.mideleg THEN 5 ELSE 7

(* A write of the timer sets the value it is compared with.                *)
WriteTime(c, data) ==
    IF data = 0 THEN c
    ELSE [c EXCEPT !.mtimecmp = data, !.mip = @ \ {TimerBit(c)}]

(* op is "rw", "rs" or "rc".  A write through sstatus, sie or sip replaces *)
(* the whole register by the part that shows there.                        *)
AccessCsr(c, i) ==
    IF i.csr = "mtime" THEN IF i.op = "rc" THEN c ELSE WriteTime(c, i.data)
    ELSE IF i.csr \in AddressCsrs
    THEN [c EXCEPT ![CsrField[i.csr]] = i.data]
    ELSE LET data == i.data \cap CsrMask(i.csr)
         IN [c EXCEPT ![CsrField[i.csr]] =
                CASE i.op = "rw" -> data
                  [] i.op = "rs" -> @ \cup data
                  [] i.op = "rc" -> @ \ data]

-----------------------------------------------------------------------------
(* exception(): cause is <<"trap", n>> or <<"irq", n>>. *)

Level(c, cause) ==
    IF c.mpriv <= Super /\ cause[2] \in (IF cause[1] = "irq" THEN c.mideleg ELSE c.medeleg)
    THEN "s" ELSE "m"

(* Faulty variant: the interrupt enable is not cleared on entry.           *)
ToSupervisor_Enabled(c, cause, pc, badaddr) ==
    [c EXCEPT
        !.msr = (@ \ {"SPIE", "SPP"}) \cup If("SPIE", "SIE" \in @) \cup If("SPP", c.mpriv = Super),
        !.mpriv = Super, !.sepc = pc, !.scause = cause, !.stval = badaddr, !.pc = c.sevec]

ToSupervisor(c, cause, pc, badaddr) ==
    [c EXCEPT
        !.msr = (@ \ {"SPIE", "SIE", "SPP"})
                \cup If("SPIE", "SIE" \in @) \cup If("SPP", c.mpriv = Super),
        !.mpriv = Super, !.sepc = pc, !.scause = cause, !.stval = badaddr, !.pc = c.sevec]

(* mtval is not kept. *)
ToMachine(c, cause, pc) ==
    [c EXCEPT
        !.msr = (@ \ {"MPIE", "MIE", "MPP0", "MPP1"})
                \cup If("MPIE", "MIE" \in @) \cup MppBits(c.mpriv),
        !.mpriv = Machine, !.mepc = pc, !.mcause = cause, !.pc = c.mevec]

Exception(c, cause, pc, badaddr) ==
    IF Level(c, cause) = "s" THEN ToSupervisor(c, cause, pc, badaddr)
    ELSE ToMachine(c, cause, pc)

(* mret and sret.                                                          *)

(* Faulty variant: mret leaves MPP as it is, and the enable off.           *)
ReturnFromM_NoPop(c) == [c EXCEPT !.msr = @ \ {"MPP0", "MPP1"}, !.mpriv = Mpp(c.msr), !.pc = c.mepc]

ReturnFromM(c) ==
    [c EXCEPT !.msr = ((@ \ {"MIE", "MPP0", "MPP1"}) \cup If("MIE", "MPIE" \in @)) \cup {"MPIE"},
              !.mpriv = Mpp(c.msr), !.pc = c.mepc]

ReturnFromS(c) ==
    [c EXCEPT !.msr = ((@ \ {"SIE", "SPP"}) \cup If("SIE", "SPIE" \in @)) \cup {"SPIE"},
              !.mpriv = IF "SPP" \in c.msr THEN Super ELSE User, !.pc = c.sepc]

-----------------------------------------------------------------------------
(* The end of execute(): the interrupt to be taken, or None.  The lowest   *)
(* number goes first.                                                      *)
Interrupts(c) ==
    LET pending  == c.mip \cap c.mie
        to_m     == IF c.mpriv < Machine \/ "MIE" \in c.msr THEN pending \ c.mideleg ELSE {}
        to_s     == IF c.mpriv < Super \/ (c.mpriv = Super /\ "SIE" \in c.msr)
                    THEN pending \cap c.mideleg ELSE {}
    IN IF to_m # {} THEN to_m ELSE to_s

Lowest(irqs) == CHOOSE i \in irqs : \A j \in irqs : i <= j

(* step(): the timer.                                                      *)

(* Faulty variant: the timer is a counter without width.                   *)
Tick_NoWrap(c) ==
    LET now == c.mtime + 1
    IN [c EXCEPT !.mtime = now,
                 !.mip = IF now = c.mtimecmp THEN @ \cup {TimerBit(c)} ELSE @]

(* Faulty variant: the interrupt is always the machine's.                  *)
Tick_Machine(c) ==
    LET now == (c.mtime + 1) % TimeValues
    IN [c EXCEPT !.mtime = now, !.mip = IF now = c.mtimecmp THEN @ \cup {7} ELSE @]

Tick(c) ==
    LET now == (c.mtime + 1) % TimeValues
    IN [c EXCEPT !.mtime = now,
                 !.mip = IF now = c.mtimecmp THEN @ \cup {TimerBit(c)} ELSE @]

-----------------------------------------------------------------------------
(* execute().  An outcome is [c, mem, data, value, cause]: the registers   *)
(* and the memory after the instruction, the physical address it loads or  *)
(* stores at, the value it loads, the trap it takes (or None for each).    *)

Outcome(c) == [c |-> c, mem |-> regions, data |-> None, value |-> None, cause |-> None]
Next4(c)   == [c EXCEPT !.pc = (@ + 4) % WordValues]

Trapped(cause, badaddr) ==
    [Outcome(Exception(cpu, <<"trap", cause>>, cpu.pc, badaddr))
        EXCEPT !.cause = <<"trap", cause>>]

(* load() and store(), then the access itself in SimpleMemory.             *)
DataAddress(i) ==
    Translate(regions, cpu.satp, i.op, cpu.mpriv, "SUM" \in cpu.msr, i.addr)

LoadOrStore(i) ==
    LET pa == DataAddress(i)
    IN IF pa = PageFault THEN Trapped(IF i.op = "store" THEN 15 ELSE 13, i.addr)
       ELSE IF i.op = "store"
       THEN [Outcome(Next4(cpu)) EXCEPT !.data = pa, !.mem = Write(regions, pa, i.val, i.width)]
       ELSE [Outcome(Next4(cpu)) EXCEPT !.data = pa,
                                        !.value = Read(regions, pa, i.width, i.signed)]

Effect(i) ==
    CASE i.op \in {"load", "store"} -> LoadOrStore(i)
      [] i.op = "jump"   -> Outcome([cpu EXCEPT !.pc = i.target])
      [] i.op = "ecall"  -> Trapped(8 + cpu.mpriv, 0)
      [] i.op = "ebreak" -> [Trapped(3, 0) EXCEPT !.c.stopped = TRUE]
      [] i.op = "mret"   -> Outcome(ReturnFromM(cpu))
      [] i.op = "sret"   -> Outcome(ReturnFromS(cpu))
      [] i.op = "fence"  -> Outcome(Next4(cpu))        \* sfence, ifence, wfi
      [] OTHER           -> Outcome(Next4(AccessCsr(cpu, i)))

(* error() and the assertions end the simulator: a fetch or an access that *)
(* is not in memory, or not aligned, a return at the wrong privilege, an   *)
(* instruction that is not known.                                          *)
BadAddress(pa, width) == pa # PageFault /\ (Valid(regions, pa) => ~AlignedIn(regions, pa, width))

Fetched == Translate(regions, cpu.satp, "fetch", cpu.mpriv, "SUM" \in cpu.msr, cpu.pc)

Dies(i) ==
    \/ i.op \in {"load", "store"} /\ BadAddress(DataAddress(i), i.width)
    \/ i.op = "mret" /\ cpu.mpriv # Machine
    \/ i.op = "sret" /\ cpu.mpriv # Super
    \/ i.op = "bad"

-----------------------------------------------------------------------------
(* The contexts that traps have saved, for the properties.                 *)

Context(c, pc, level) ==
    [pc |-> pc, priv |-> c.mpriv, ie |-> (IF level = "m" THEN "MIE" ELSE "SIE") \in c.msr]

(* A context is over when its trap returns, or when the program writes the *)
(* registers that hold it; a context of the supervisor also when the       *)
(* machine level goes elsewhere than to where it was called from.          *)
Ends(i, level) ==
    \/ i.op = (IF level = "m" THEN "mret" ELSE "sret")
    \/ i.op = "mret" /\ saved["m"] = None
    \/ i.op \in {"rw", "rs", "rc"} /\ i.csr \in {"mstatus", "mepc", "sepc"}
    \/ i.op \in {"rw", "rs", "rc"} /\ i.csr = "sstatus" /\ (level = "s" \/ i.op = "rw")

-----------------------------------------------------------------------------

(* The end of a step: a pending interrupt unless the instruction trapped,  *)
(* then the timer.                                                         *)
TakenCause(out) ==
    LET irqs == IF out.cause = None THEN Interrupts(out.c) ELSE {}
    IN IF irqs # {} THEN <<"irq", Lowest(irqs)>> ELSE out.cause

FinishWith(i, out, fetch, cause) ==
    LET irq   == cause # out.cause
        from  == IF irq THEN out.c ELSE cpu
        level == IF cause = None THEN None ELSE Level(from, cause)
        c     == IF irq THEN Exception(out.c, cause, out.c.pc, 0) ELSE out.c
    IN /\ cpu' = Tick(c)
       /\ regions' = out.mem
       /\ running' = ~out.c.stopped
       /\ did' = [i |-> i, fetch |-> fetch, data |-> out.data,
                  value |-> out.value, cause |-> cause, level |-> level]
       /\ saved' = [l \in {"m", "s"} |-> IF l = level THEN Context(from, from.pc, l)
                                         ELSE IF Ends(i, l) THEN None ELSE saved[l]]
       /\ UNCHANGED program

Finish(i, outcome, fetch) ==
    \E out \in {outcome} : \E cause \in {TakenCause(out)} : FinishWith(i, out, fetch, cause)

Die == running' = FALSE /\ UNCHANGED <<regions, cpu, program, did, saved>>

(* A fetch that faults ends execute() before interrupts are looked at, as  *)
(* the fault of a load or a store does.                                    *)
NoInstr == [op |-> "none"]

FetchFaults == running /\ Fetched = PageFault /\ Finish(NoInstr, Trapped(12, cpu.pc), None)

FetchDies == running /\ BadAddress(Fetched, 4) /\ Die

Execute(i) ==
    /\ running
    /\ Fetched # PageFault /\ ~BadAddress(Fetched, 4)
    /\ IF Dies(i) THEN Die ELSE Finish(i, Effect(i), Fetched)

(* set_interrupt(), between two steps. *)
SetInterrupt ==
    /\ running /\ program.external
    /\ cpu' = [cpu EXCEPT !.mip = @ \cup {11}]
    /\ UNCHANGED <<regions, program, running, did, saved>>

(* A program comes with the CSR writes its boot code makes in machine      *)
(* mode, which nothing interrupts; the model starts after them.  The       *)
(* loader refuses a program whose sections do not all get a region.        *)
Booted(p) ==
    LET at[n \in 0 .. Len(p.boot)] ==
            IF n = 0 THEN Reset(p.start) ELSE AccessCsr(at[n - 1], p.boot[n])
    IN at[Len(p.boot)]

Init ==
    /\ program \in {p \in Programs : Len(p.sections) <= MaxRegions}
    /\ regions = Loaded(program.sections)
    /\ cpu = Booted(program)
    /\ running = TRUE
    /\ did = None
    /\ saved = [l \in {"m", "s"} |-> None]

Step == FetchFaults \/ FetchDies \/ \E i \in program.instrs : Execute(i)

Next == Step \/ SetInterrupt

Stepped == cpu'.mtime # cpu.mtime

(* The loop of riscv_main keeps stepping: WF_vars(Step), written out.  A   *)
(* step is enabled while the simulator runs; it moves the timer or is the  *)
(* last.                                                                   *)
Loop == ([]<>~running) \/ ([]<><<Stepped>>_vars)

Spec == Init /\ [][Next]_vars /\ Loop

-----------------------------------------------------------------------------
(* Properties. *)

(* The registers have their types, and the regions stay as they were made. *)
TypeOK ==
    /\ {cpu.pc, cpu.mepc, cpu.mevec, cpu.sepc, cpu.sevec, cpu.stval, cpu.satp} \subseteq Address
    /\ cpu.mpriv \in 0 .. Machine
    /\ cpu.msr \subseteq StatusBits
    /\ cpu.mie \cup cpu.mip \cup cpu.mideleg \subseteq IrqBits /\ cpu.medeleg \subseteq Causes
    /\ cpu.mtime \in 0 .. TimeValues - 1 /\ cpu.mtimecmp \in 0 .. TimeValues - 1
    /\ Len(regions) <= MaxRegions
    /\ \A j \in DOMAIN regions :
          \A w \in DOMAIN regions[j].words : regions[j].words[w] \in 0 .. WordValues - 1
    /\ {running, cpu.stopped} \subseteq BOOLEAN

(* What the page tables map, read off as a set of pages rather than by a   *)
(* walk: every leaf of the root, and every leaf of a table the root points *)
(* to.                                                                     *)
Pages ==
    LET word(a) == IF Valid(regions, a) THEN Read(regions, a, 4, FALSE) ELSE 0
        table(ppn, va, i) ==
            {[va |-> va + (e * Span(i)), size |-> Span(i), pte |-> word(TableAt(ppn) + (e * 4))] :
                e \in 0 .. Entries - 1}
        root == table(cpu.satp % SatpMode, 0, 1)
        rest == UNION {table(p.pte \div PfnScale, p.va, 0) : p \in {q \in root : Pointer(q.pte)}}
    IN {p \in root \cup rest : Has(p.pte, Present) /\ IsLeaf(p.pte)}

(* The physical addresses an access may use: one or none. *)
Grants(kind, va) ==
    IF cpu.mpriv > Super THEN {va}
    ELSE IF cpu.satp < SatpMode THEN IF cpu.mpriv = Super THEN {va} ELSE {}
    ELSE {((p.pte \div PfnScale) * PageSize) + va - p.va :
             p \in {q \in Pages : /\ va \in q.va .. q.va + q.size - 1
                                  /\ Has(q.pte, Needs(kind)) /\ (Has(q.pte, CanWrite) => Has(q.pte, CanRead))
                                  /\ IF cpu.mpriv = User THEN Has(q.pte, UserPage)
                                     ELSE Has(q.pte, UserPage) => kind # "fetch" /\ "SUM" \in cpu.msr}}

ByteAt(mem, a) == Read(mem, a, 1, FALSE)

(* What the bytes from a make, the first being the least significant. *)
LittleEndian(mem, a, width) ==
    LET sum[n \in 0 .. width] ==
            IF n = 0 THEN 0 ELSE sum[n - 1] + (ByteAt(mem, a + n - 1) * ValuesOf(n - 1))
    IN sum[width]

(* What a program sees to for its accesses to be mapped as its tables say: *)
(* its sections begin and end at a word, and a large page begins where     *)
(* large pages do (the simulator takes the frame and the rest of the page  *)
(* number together with a bitwise or, and does not look).                  *)
WholeSections ==
    \A p \in Programs : \A n \in 1 .. Len(p.sections) :
        p.sections[n].base % 4 = 0 /\ Len(p.sections[n].bytes) % 4 = 0

AlignedLeaves ==
    cpu.mpriv <= Super /\ cpu.satp >= SatpMode =>
        \A p \in Pages : p.size = Span(1) => (p.pte \div PfnScale) % Entries = 0

(* Every fetch, load and store uses the address its page gives it and has  *)
(* the permission, or traps; a store changes the bytes it names and no     *)
(* other, a load returns them; nothing else changes memory.                *)
AccessesAreMapped ==
    [][Stepped =>
        LET i == did'.i
            stored == IF i.op = "store" /\ did'.data # None
                      THEN did'.data .. did'.data + i.width - 1 ELSE {}
        IN /\ IF did'.fetch = None
              THEN Grants("fetch", cpu.pc) = {} /\ did'.cause = <<"trap", 12>>
              ELSE did'.fetch \in Grants("fetch", cpu.pc)
           /\ i.op \in {"load", "store"} =>
                 IF did'.data = None
                 THEN Grants(i.op, i.addr) = {} /\ did'.cause \in {<<"trap", 13>>, <<"trap", 15>>}
                 ELSE did'.data \in Grants(i.op, i.addr)
           /\ stored # {} => LittleEndian(regions', did'.data, i.width) = i.val % ValuesOf(i.width)
           /\ did'.value # None =>
                 LET v == LittleEndian(regions, did'.data, i.width)
                     negative == i.signed /\ v >= ValuesOf(i.width) \div 2
                 IN did'.value = IF negative THEN WordValues - ValuesOf(i.width) + v ELSE v
           /\ regions' # regions =>
                 \A a \in {b \in Address : Valid(regions, b)} \ stored :
                    ByteAt(regions', a) = ByteAt(regions, a)]_vars

(* A return from a trap goes on where the trap came from, at its privilege *)
(* and with its interrupts, however many traps and interrupts of the other *)
(* level came in between; an interrupt taken at once has that context.     *)
Resumed(level, ctx) ==
    IF did'.level = None THEN Context(cpu', cpu'.pc, level) = ctx
    ELSE saved'[did'.level].pc = ctx.pc /\ saved'[did'.level].priv = ctx.priv

ReturnsToContext ==
    [][Stepped =>
         /\ did'.i.op = "mret" /\ saved["m"] # None => Resumed("m", saved["m"])
         /\ did'.i.op = "sret" /\ saved["s"] # None => Resumed("s", saved["s"])]_vars

(* A trap never lowers the privilege, and an interrupt never overwrites    *)
(* the context of a trap of its level that is not over.                    *)
TrapsNest ==
    [][Stepped /\ did'.level # None =>
         /\ saved'[did'.level].priv <= cpu'.mpriv
         /\ did'.cause[1] = "irq" => \/ saved[did'.level] = None
                                    \/ Ends(did'.i, did'.level)]_vars

(* The timer gets to the value it is compared with, and raises the         *)
(* interrupt of the level it is delegated to, wherever the value lies.     *)
TimerFires ==
    \A v \in 0 .. TimeValues - 1 :
        (running /\ cpu.mtimecmp = v)
            ~> (~running \/ cpu.mtimecmp # v
                \/ TimerBit(cpu) \in cpu.mip)

=============================================================================
