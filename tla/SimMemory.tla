----------------------------- MODULE SimMemory ------------------------------
(***************************************************************************)
(* The memory of the instruction set simulator: regions of words           *)
(* (memory.h), found by address (riscv.cpp), filled from the sections of a *)
(* program (elf_load.cpp, riscv_main.cpp).                                 *)
(*                                                                         *)
(* The machine is scaled, not abstracted: a byte has Byte values (256), a  *)
(* word is four bytes, arithmetic is modulo the number of word values.     *)
(***************************************************************************)
EXTENDS Integers, Sequences, SequencesExt

CONSTANTS
    Byte,          \* number of values of a byte, a power of two
    MaxRegions     \* MAX_MEM_REGIONS

ASSUME SimMemoryAssumption == Byte \in Nat \ {0, 1} /\ MaxRegions \in Nat \ {0}

(* The number of values of n bytes. *)
ValuesOf(n) ==
    CASE n = 0 -> 1
      [] n = 1 -> Byte
      [] n = 2 -> Byte * Byte
      [] n = 3 -> Byte * Byte * Byte
      [] n = 4 -> Byte * Byte * Byte * Byte

WordValues == ValuesOf(4)

(* The program's own memory: a sequence of regions [base, size, words].    *)
VARIABLE regions

Covers(r, a)  == a >= r.base /\ a < r.base + r.size
Valid(mem, a) == \E j \in 1 .. Len(mem) : Covers(mem[j], a)
RegionOf(mem, a) == SelectInSeq(mem, LAMBDA r : Covers(r, a))

-----------------------------------------------------------------------------
(* SimpleMemory: addresses are relative to the region.                     *)

(* assert(!(address & 3)), assert(!(address & 1)) *)
Aligned(a, width) == a % width = 0

LoadWord(r, a) == r.words[a \div 4]

LoadFrom(r, a, width, signed) ==
    LET values == ValuesOf(width)
        data   == (LoadWord(r, a) \div ValuesOf(a % 4)) % values
    IN IF signed /\ data >= values \div 2 THEN WordValues - values + data ELSE data

(* The lanes of the word below and above the ones stored are kept. *)
StoreTo(r, a, data, width) ==
    LET old   == LoadWord(r, a)
        lane  == ValuesOf(a % 4)
        next  == lane * ValuesOf(width)
    IN [r EXCEPT !.words[a \div 4] =
            ((old \div next) * next) + ((data % ValuesOf(width)) * lane) + (old % lane)]

-----------------------------------------------------------------------------
(* riscv.cpp: the first region that covers the address is used.  Read is   *)
(* read32, mmu_read_word and the end of load(); what it returns outside of *)
(* every region differs, so its callers ask Valid first.                   *)
Read(mem, a, width, signed) ==
    LET r == mem[RegionOf(mem, a)] IN LoadFrom(r, a - r.base, width, signed)

Write(mem, a, data, width) ==
    LET j == RegionOf(mem, a)
    IN [mem EXCEPT ![j] = StoreTo(@, a - @.base, data, width)]

AlignedIn(mem, a, width) == Aligned(a - mem[RegionOf(mem, a)].base, width)

-----------------------------------------------------------------------------
(* attach_memory and SimpleMemory::reset; past the last region, nothing.   *)
CreateMemory(mem, base, size) ==
    IF Len(mem) < MaxRegions
    THEN Append(mem, [base |-> base, size |-> size,
                      words |-> [i \in 0 .. (size + 3) \div 4 - 1 |-> 0]])
    ELSE mem

(* elf_load for one section [base, bytes]: mem_create, then mem_load of    *)
(* each byte.                                                              *)
LoadSection(mem, s) ==
    LET at[n \in 0 .. Len(s.bytes)] ==
            IF n = 0 THEN CreateMemory(mem, s.base, Len(s.bytes))
            ELSE Write(at[n - 1], s.base + n - 1, s.bytes[n], 1)
    IN at[Len(s.bytes)]

Loaded(sections) ==
    LET at[n \in 0 .. Len(sections)] ==
            IF n = 0 THEN <<>> ELSE LoadSection(at[n - 1], sections[n])
    IN at[Len(sections)]

=============================================================================
