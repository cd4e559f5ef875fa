----------------------------- MODULE FlatMemory -----------------------------
(***************************************************************************)
(* What the load/store unit may count on from the data side: a memory      *)
(* without caches.  One access at a time; it takes effect when it is       *)
(* accepted and is answered once, a load with the contents of its word.    *)
(* Abstract specification of dcache.v (dcache_mux, dcache_core,            *)
(* dcache_if_pmem, dcache_pmem_mux).                                       *)
(***************************************************************************)
CONSTANTS
    Initial,    \* contents at reset, a function on the word addresses
    Requests,   \* records [kind, addr, val]
    None

VARIABLES
    flat,       \* the contents
    owed,       \* the access that is accepted and not answered, or None
    shown       \* the answer shown in this cycle, or None

flatVars == <<flat, owed, shown>>

Init == flat = Initial /\ owed = None /\ shown = None

After(f, r) == IF r.kind = "st" THEN [f EXCEPT ![r.addr] = r.val] ELSE f

AnswerTo(r, f) == IF r.kind = "ld" THEN [done |-> r.kind, data |-> f[r.addr]]
                  ELSE [done |-> r.kind, data |-> None]

(* The answer shown in this cycle ends the access, and the next one may be *)
(* accepted in the same cycle; then an answer may be shown.                *)
Next ==
    LET left == IF shown # None THEN None ELSE owed
    IN /\ \/ owed' = left /\ UNCHANGED flat
          \/ /\ left = None
             /\ owed' \in Requests
             /\ flat' = After(flat, owed')
       /\ \/ shown' = None
          \/ owed' # None /\ shown' = AnswerTo(owed', flat')

Spec == Init /\ [][Next]_flatVars

=============================================================================
