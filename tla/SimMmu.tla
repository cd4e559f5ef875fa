------------------------------- MODULE SimMmu -------------------------------
(***************************************************************************)
(* Address translation of the instruction set simulator (mmu_walk,         *)
(* mmu_i_translate, mmu_d_translate of riscv.cpp).                         *)
(***************************************************************************)
EXTENDS SimMemory

CONSTANTS
    Entries,   \* entries of a page table, 2^MMU_PTIDXBITS
    PfnScale   \* 2^PAGE_PFN_SHIFT

(* The two indices and the offset in a page make up an address. *)
ASSUME SimMmuAssumption ==
    /\ Entries \in Nat \ {0} /\ PfnScale \in Nat \ {0}
    /\ WordValues = Entries * Entries * 4 * Entries
    /\ PfnScale % 32 = 0     \* the flags below are the low bits

Levels   == 2
PageSize == 4 * Entries
SatpMode == WordValues \div 2

User == 0
Super == 1
Machine == 3

(* Bits of an entry. *)
Present == 1
CanRead == 2
CanWrite == 4
CanExec == 8
UserPage == 16
Has(pte, bit) == (pte \div bit) % 2 = 1
IsLeaf(pte)   == Has(pte, CanRead) \/ Has(pte, CanWrite) \/ Has(pte, CanExec)
Pointer(pte)  == Has(pte, Present) /\ ~IsLeaf(pte)

(* Pages, and bytes, that an entry of level i covers. *)
Reach(i) == IF i = 0 THEN 1 ELSE Entries
Span(i)  == PageSize * Reach(i)

(* What translate returns instead of an address. *)
PageFault == -1
Exits     == -2      \* error(), which ends the simulator

(* x | y, for x and y below Entries and one bit after the other. *)
Or[p \in (0 .. Entries - 1) \X (0 .. Entries - 1)] ==
    IF p[1] = 0 THEN p[2]
    ELSE (2 * Or[<<p[1] \div 2, p[2] \div 2>>])
         + (IF p[1] % 2 = 1 \/ p[2] % 2 = 1 THEN 1 ELSE 0)

(* The frame of a leaf found at level i: a large page takes the rest of    *)
(* the page number from the address.                                       *)
Frame(pte, addr, i) ==
    LET ppn == pte \div PfnScale
    IN ((ppn \div Reach(i)) * Reach(i))
       + Or[<<ppn % Reach(i), (addr \div PageSize) % Reach(i)>>]

(* The address of a table, a word.                                         *)
TableAt(ppn) == (ppn * PageSize) % WordValues

(* mmu_walk with translation on: the entry the walk stops at, as           *)
(* [pte, level], pte 0 when there is none.  An entry of the last level     *)
(* that points to a further table is outside the model: the loop           *)
(* (i >= 0 of an unsigned i) then goes on with shifts by negative amounts. *)
MmuReadWord(mem, a) == IF Valid(mem, a) THEN Read(mem, a, 4, FALSE) ELSE 0

EntryOf(mem, base, addr, i) ==
    MmuReadWord(mem, base + (((addr \div Span(i)) % Entries) * 4))

Found(pte, i) == [pte |-> IF Has(pte, Present) THEN pte ELSE 0, level |-> i]

WalkOn(mem, pte, addr) ==
    IF Pointer(pte) THEN Found(EntryOf(mem, TableAt(pte \div PfnScale), addr, 0), 0)
    ELSE Found(pte, Levels - 1)

Walk(mem, satp, addr) ==
    WalkOn(mem, EntryOf(mem, TableAt(satp % SatpMode), addr, Levels - 1), addr)

(* The entry as translate sees it: flags and frame.  Bare mode makes one   *)
(* up, without the user bit.                                               *)
Split(w, addr) ==
    [flags |-> w.pte % PfnScale,
     frame |-> IF w.pte = 0 THEN 0 ELSE Frame(w.pte, addr, w.level)]

Entry(mem, satp, addr) ==
    IF satp < SatpMode
    THEN [flags |-> Present + CanRead + CanWrite + CanExec, frame |-> addr \div PageSize]
    ELSE Split(Walk(mem, satp, addr), addr)

(* kind is "fetch", "load" or "store"; sum is SR_SUM of mstatus. *)
Needs(kind) == CASE kind = "fetch" -> CanExec [] kind = "load" -> CanRead
                 [] kind = "store" -> CanWrite

(* Faulty variant: a user page is as good as any other to the supervisor.  *)
Permission_SumIgnored(kind, priv, sum, flags) ==
    IF (Has(flags, CanWrite) /\ ~Has(flags, CanRead)) \/ ~Has(flags, Needs(kind)) THEN PageFault
    ELSE IF priv # Super /\ ~Has(flags, UserPage) THEN PageFault
    ELSE 0

Permission(kind, priv, sum, flags) ==
    IF Has(flags, CanWrite) /\ ~Has(flags, CanRead) THEN PageFault
    ELSE IF priv = Super /\ Has(flags, UserPage) /\ (kind = "fetch" \/ ~sum) THEN Exits
    ELSE IF ~Has(flags, Needs(kind)) \/ (priv # Super /\ ~Has(flags, UserPage)) THEN PageFault
    ELSE 0

(* What a translation makes of the entry e and what Permission says of it. *)
Resolve(mem, satp, addr, e, bars) ==
    IF satp >= SatpMode /\ e.flags # 0 /\ ~Valid(mem, e.frame * PageSize) THEN Exits
    ELSE IF bars # 0 THEN bars
    ELSE (e.frame * PageSize) + (addr % PageSize)

Guarded(mem, satp, kind, priv, sum, addr, e) ==
    Resolve(mem, satp, addr, e, Permission(kind, priv, sum, e.flags))

Translate(mem, satp, kind, priv, sum, addr) ==
    IF priv > Super THEN addr
    ELSE Guarded(mem, satp, kind, priv, sum, addr, Entry(mem, satp, addr))

=============================================================================
