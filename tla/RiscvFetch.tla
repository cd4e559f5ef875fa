----------------------------- MODULE RiscvFetch -----------------------------
(***************************************************************************)
(* The front end of the core: riscv_fetch.v (PC, branch buffer, request    *)
(* tracking, response skid buffer) and the optional pipeline register of   *)
(* riscv_decode.v, between an instruction cache and the issue stage.       *)
(*                                                                         *)
(* The design is synchronous: a step of the specification is one edge of   *)
(* clk_i.  The inputs of a cycle are the parameters of Cycle:              *)
(*   answer  what the icache returns in this cycle, None if icache_valid_i *)
(*           is low                                                        *)
(*   ready   icache_accept_i                                               *)
(*   accept  fetch_accept_i, driven by the issue stage                     *)
(*   branch  the target of branch_request_i, None if it is low             *)
(* An address is a word address (the low two bits are cut by the code      *)
(* wherever an address is used).  An instruction word is abstracted to the *)
(* place it was read from and its fault bits.                              *)
(***************************************************************************)
CONSTANTS
    Pcs,
    NextPc,
    Privs,
    Faults,
    None,
    ResetPc,             \* the reset value of the PC registers
    ResetPriv,           \* PRIV_MACHINE
    EXTRA_DECODE_STAGE   \* parameter of riscv_core

Places == [pc : Pcs, priv : Privs]
Answers == [pc : Pcs, priv : Privs, fault : Faults]
Entries == [pc : Pcs, instr : Answers]

ASSUME FetchAssumption ==
    /\ NextPc \in [Pcs -> Pcs]
    /\ ResetPc \in Pcs
    /\ ResetPriv \in Privs
    /\ EXTRA_DECODE_STAGE \in BOOLEAN
    /\ None \notin Places \cup Answers \cup Entries

VARIABLES
    active_q,         \* a first branch has started the fetch unit
    branch_q,         \* a branch waits for the PC
    branch_to_q,      \* its target: branch_pc_q and branch_priv_q
    icache_fetch_q,   \* a request to the icache is not answered yet
    pc_f_q,           \* the address of the next request
    priv_f_q,         \* and its privilege
    pc_d_q,           \* the address of the last accepted request
    branch_d_q,       \* the request in flight belongs to an abandoned path
    skid_q,           \* the answer the issue stage did not take, or None
    buffer_q,         \* the register of the extra decode stage, or None
    priv_x_q,         \* the issue stage's privilege
    icache_req,       \* the icache's copy of the request in flight
    delivered         \* history: the last entry the issue stage took

vars == <<active_q, branch_q, branch_to_q, icache_fetch_q, pc_f_q, priv_f_q,
          pc_d_q, branch_d_q, skid_q, buffer_q, priv_x_q, icache_req, delivered>>

Init ==
    /\ active_q = FALSE
    /\ branch_q = FALSE
    /\ branch_to_q = [pc |-> ResetPc, priv |-> ResetPriv]
    /\ icache_fetch_q = FALSE
    /\ pc_f_q = ResetPc
    /\ priv_f_q = ResetPriv
    /\ pc_d_q = ResetPc
    /\ branch_d_q = FALSE
    /\ skid_q = None
    /\ buffer_q = None
    /\ priv_x_q = ResetPriv
    /\ icache_req = None
    /\ delivered = None

-----------------------------------------------------------------------------
(* Wires of the current cycle. *)

(* icache_busy_w *)
Busy(answer) == icache_fetch_q /\ answer = None

(* stall_w *)
Stall(answer, ready, accept) == ~accept \/ Busy(answer) \/ ~ready

(* Faulty variant: a request leaves although the issue stage holds.        *)
Request_NoBackPressure(answer, ready, accept) ==
    active_q /\ ~Busy(answer) /\ ready

(* icache_rd_o && icache_accept_i: the icache takes a request *)
Request(answer, ready, accept) ==
    active_q /\ accept /\ ~Busy(answer) /\ ready

(* Faulty variant: only the branch buffer makes the unit drop an answer.   *)
FetchOut_KeepsWrongPath(answer) ==
    IF branch_q \/ (answer = None /\ skid_q = None)
    THEN None
    ELSE IF skid_q # None THEN skid_q
    ELSE [pc |-> pc_d_q, instr |-> answer]

(* fetch_valid_o, fetch_pc_o, fetch_instr_o and the fault outputs *)
FetchOut(answer) ==
    IF branch_q \/ branch_d_q \/ (answer = None /\ skid_q = None)
    THEN None
    ELSE IF skid_q # None THEN skid_q
    ELSE [pc |-> pc_d_q, instr |-> answer]

(* fetch_out_*_o of riscv_decode: what the issue stage looks at *)
DecodeOut(answer) == IF EXTRA_DECODE_STAGE THEN buffer_q ELSE FetchOut(answer)

-----------------------------------------------------------------------------
(* The registers, one operator per always block. *)

(* Faulty variant: a branch does not replace the one that waits.           *)
BranchBuffer_KeepsFirst(answer, ready, accept, branch) ==
    IF branch # None /\ ~branch_q
    THEN branch_q' = TRUE /\ branch_to_q' = branch
    ELSE IF Request(answer, ready, accept)
    THEN branch_q' = FALSE /\ branch_to_q' = [branch_to_q EXCEPT !.pc = ResetPc]
    ELSE UNCHANGED <<branch_q, branch_to_q>>

(* Faulty variant: the branch buffer is never emptied.                     *)
BranchBuffer_NeverEmptied(answer, ready, accept, branch) ==
    IF branch # None
    THEN branch_q' = TRUE /\ branch_to_q' = branch
    ELSE UNCHANGED <<branch_q, branch_to_q>>

BranchBuffer(answer, ready, accept, branch) ==
    IF branch # None
    THEN branch_q' = TRUE /\ branch_to_q' = branch
    ELSE IF Request(answer, ready, accept)
    THEN branch_q' = FALSE /\ branch_to_q' = [branch_to_q EXCEPT !.pc = ResetPc]
    ELSE UNCHANGED <<branch_q, branch_to_q>>

(* Faulty variant: the request in flight is not marked for dropping.       *)
ProgramCounter_NoDrop(stall) ==
    IF stall
    THEN UNCHANGED <<active_q, pc_f_q, priv_f_q, branch_d_q>>
    ELSE /\ branch_d_q' = FALSE
         /\ IF branch_q
            THEN /\ active_q' = TRUE
                 /\ pc_f_q' = branch_to_q.pc
                 /\ priv_f_q' = branch_to_q.priv
            ELSE /\ pc_f_q' = NextPc[pc_f_q]
                 /\ UNCHANGED <<active_q, priv_f_q>>

ProgramCounter(stall) ==
    IF stall
    THEN UNCHANGED <<active_q, pc_f_q, priv_f_q, branch_d_q>>
    ELSE /\ branch_d_q' = branch_q
         /\ IF branch_q
            THEN /\ active_q' = TRUE
                 /\ pc_f_q' = branch_to_q.pc
                 /\ priv_f_q' = branch_to_q.priv
            ELSE /\ pc_f_q' = NextPc[pc_f_q]
                 /\ UNCHANGED <<active_q, priv_f_q>>

(* The icache keeps the request it accepted until it has answered it. *)
RequestTracking(answer, ready, accept) ==
    IF Request(answer, ready, accept)
    THEN /\ icache_fetch_q' = TRUE
         /\ pc_d_q' = pc_f_q
         /\ icache_req' = [pc |-> pc_f_q, priv |-> priv_f_q]
    ELSE /\ pc_d_q' = pc_d_q
         /\ IF answer # None
            THEN icache_fetch_q' = FALSE /\ icache_req' = None
            ELSE UNCHANGED <<icache_fetch_q, icache_req>>

(* Faulty variant: the word is kept, its address is not.                   *)
ResponseBuffer_WordOnly(answer, accept) ==
    skid_q' = IF accept \/ FetchOut(answer) = None THEN None
              ELSE FetchOut(answer).instr

ResponseBuffer(answer, accept) ==
    skid_q' = IF accept THEN None ELSE FetchOut(answer)

DecodeStage(answer, accept, branch) ==
    buffer_q' = IF ~EXTRA_DECODE_STAGE \/ branch # None THEN None
                ELSE IF accept \/ buffer_q = None THEN FetchOut(answer)
                ELSE buffer_q

IssueStage(answer, accept) ==
    delivered' = IF accept /\ DecodeOut(answer) # None THEN DecodeOut(answer)
                 ELSE delivered

-----------------------------------------------------------------------------
(* One clock edge. *)
Cycle(answer, ready, accept, branch) ==
    /\ BranchBuffer(answer, ready, accept, branch)
    /\ ProgramCounter(Stall(answer, ready, accept))
    /\ RequestTracking(answer, ready, accept)
    /\ ResponseBuffer(answer, accept)
    /\ DecodeStage(answer, accept, branch)
    /\ IssueStage(answer, accept)

(* What the icache may return in this cycle: nothing, or the answer to the *)
(* request it holds.                                                       *)
AnswersNow ==
    {None} \cup
    {[pc |-> icache_req.pc, priv |-> icache_req.priv, fault |-> f] :
        f \in IF icache_fetch_q THEN Faults ELSE {}}

(* fetch_accept_o of the issue stage is high when it sees no instruction.  *)
AcceptNow(answer) == IF DecodeOut(answer) = None THEN {TRUE} ELSE BOOLEAN

(* A cycle in which the PC advances. *)
Advance ==
    \E answer \in AnswersNow, accept \in BOOLEAN, ready \in BOOLEAN :
        /\ accept \in AcceptNow(answer)
        /\ ~Stall(answer, ready, accept)
        /\ Cycle(answer, ready, accept, None)
        /\ UNCHANGED priv_x_q

(* A cycle in which the icache or the issue stage holds the PC. *)
Hold ==
    \E answer \in AnswersNow, accept \in BOOLEAN, ready \in BOOLEAN :
        /\ accept \in AcceptNow(answer)
        /\ Stall(answer, ready, accept)
        /\ Cycle(answer, ready, accept, None)
        /\ UNCHANGED priv_x_q

(* The issue stage issues a taken branch or jump.  When an interrupt is    *)
(* taken in the same cycle the branch still redirects the fetch unit, but  *)
(* is not accepted.                                                        *)
ExecBranch ==
    \E answer \in AnswersNow, accept \in BOOLEAN, ready \in BOOLEAN, pc \in Pcs :
        /\ DecodeOut(answer) # None
        /\ Cycle(answer, ready, accept, [pc |-> pc, priv |-> priv_x_q])
        /\ UNCHANGED priv_x_q

(* The CSR unit redirects: reset, trap, return or serialising instruction. *)
(* The issue stage then sees no valid opcode and accepts whatever comes.   *)
CsrBranch ==
    \E answer \in AnswersNow, ready \in BOOLEAN, target \in Places :
        /\ Cycle(answer, ready, TRUE, target)
        /\ priv_x_q' = target.priv

Next == Advance \/ Hold \/ ExecBranch \/ CsrBranch

(* The icache answers and accepts, and the issue stage takes instructions, *)
(* so the PC advances again and again.                                     *)
Fairness == WF_vars(Advance)

Spec == Init /\ [][Next]_vars

FairSpec == Spec /\ Fairness

-----------------------------------------------------------------------------
(* Properties. *)

(* Every register has its type: what the skid buffer and the decode stage  *)
(* keep is an instruction with its address.                                *)
TypeOK ==
    /\ active_q \in BOOLEAN
    /\ branch_q \in BOOLEAN
    /\ branch_to_q \in Places
    /\ icache_fetch_q \in BOOLEAN
    /\ pc_f_q \in Pcs
    /\ priv_f_q \in Privs
    /\ pc_d_q \in Pcs
    /\ branch_d_q \in BOOLEAN
    /\ skid_q \in Entries \cup {None}
    /\ buffer_q \in Entries \cup {None}
    /\ priv_x_q \in Privs
    /\ icache_req \in Places \cup {None}
    /\ delivered \in Entries \cup {None}

(* No answer of the icache finds the skid buffer full: while an answer is  *)
(* kept back for the issue stage no request is in flight, so the           *)
(* multiplexer that prefers the skid buffer never discards an instruction. *)
NoAnswerLost == skid_q # None => ~icache_fetch_q

(* A request whose answer will not be dropped was made for the address the *)
(* answer will be labelled with, at the privilege of the current path.     *)
AnswerIsLabelled ==
    (icache_fetch_q /\ ~branch_d_q) =>
        icache_req = [pc |-> pc_d_q, priv |-> priv_f_q]

(* The place in the program the issue stage must see next.                 *)
Expected ==
    IF branch_q THEN branch_to_q
    ELSE IF ~active_q THEN None
    ELSE [pc |-> IF buffer_q # None THEN buffer_q.pc
                 ELSE IF skid_q # None THEN skid_q.pc
                 ELSE IF icache_fetch_q /\ ~branch_d_q THEN pc_d_q
                 ELSE pc_f_q,
          priv |-> priv_f_q]

(* The issue stage runs taken branches at the privilege the fetch unit     *)
(* reads instructions with: a branch never changes the privilege.          *)
PrivilegeAgrees == Expected # None => Expected.priv = priv_x_q

Stream == INSTANCE FetchStream WITH expected <- Expected

(* The front end implements the stream of instructions of FetchStream.     *)
ImplementsStream == Stream!Spec

(* Once the redirects stop, every instruction the stream reaches is handed *)
(* to the issue stage: the skid buffer, the branch buffer and the request  *)
(* tracking never wait for each other.                                     *)
StreamProgresses ==
    <>[][Advance \/ Hold]_vars =>
        \A p \in Pcs :
            (Expected # None /\ Expected.pc = p) ~>
                (delivered # None /\ delivered.pc = p)

=============================================================================
