---------------------------- MODULE FetchStream ----------------------------
(***************************************************************************)
(* What the front end of the core (riscv_fetch plus the optional stage of  *)
(* riscv_decode) promises to the issue stage: the instructions it hands    *)
(* over are those of the program order, one after the other, starting at   *)
(* the target of the last redirect.  None is skipped, repeated, taken from *)
(* an abandoned path, or read with the privilege of another path.          *)
(***************************************************************************)
CONSTANTS
    Pcs,        \* the word addresses instructions are fetched from
    NextPc,     \* the address of the next word, the adder of the PC register
    Privs,      \* privilege levels
    Faults,     \* fault bits an instruction fetch can come back with
    None        \* no address, no instruction

VARIABLES
    expected,   \* the place in the program the issue stage must see next
    delivered   \* the last instruction handed to the issue stage

vars == <<expected, delivered>>

Places == [pc : Pcs, priv : Privs]
Answers == [pc : Pcs, priv : Privs, fault : Faults]
Entries == [pc : Pcs, instr : Answers]

Init ==
    /\ expected = None
    /\ delivered = None

(* The instruction fetched at place p, with fault bits f. *)
EntryAt(p, f) ==
    [pc |-> p.pc, instr |-> [pc |-> p.pc, priv |-> p.priv, fault |-> f]]

Receive == \E f \in Faults : delivered' = EntryAt(expected, f)

Deliver ==
    /\ expected # None
    /\ Receive
    /\ expected' = [expected EXCEPT !.pc = NextPc[@]]

(* A redirect may come with the instruction that causes it. *)
Redirect ==
    /\ expected' \in Places
    /\ \/ delivered' = delivered
       \/ expected # None /\ Receive

Next == Deliver \/ Redirect

Spec == Init /\ [][Next]_vars

=============================================================================
