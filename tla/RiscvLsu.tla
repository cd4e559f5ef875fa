------------------------------ MODULE RiscvLsu ------------------------------
(***************************************************************************)
(* The load/store unit (riscv_lsu.v with riscv_lsu_fifo), between the E1   *)
(* and E2 stages of the pipeline and the data port of the core.            *)
(*                                                                         *)
(* A step is one edge of clk_i.  Its inputs:                               *)
(*   op      the load, store or cache operation that issues, or None       *)
(*   accept  mem_accept_i                                                  *)
(*   ack     mem_ack_i;  error  mem_error_i, with the ack                  *)
(* The tag of a request is what the response needs to know of it: address, *)
(* width and signedness.  LsuPort closes the module with the memories of   *)
(* the caches and the TCM, Sys with the one of top_v2f.                    *)
(***************************************************************************)
EXTENDS Naturals, Sequences

CONSTANTS
    Tags,
    Kinds,      \* the kinds of request the program uses
    DEPTH,      \* entries of the request FIFO
    None

Requests ==
    {r \in [kind : Kinds, tag : Tags, unaligned : BOOLEAN] :
        r.kind = "cache" => ~r.unaligned}

ASSUME LsuAssumption ==
    /\ Kinds \subseteq {"load", "store", "cache"}
    /\ DEPTH \in Nat /\ DEPTH >= 2   \* a full FIFO refuses a push even with a pop
    /\ None \notin Requests

VARIABLES
    req,                 \* mem_rd_q, mem_wr_q, ...: the request registers, or None
    pending_lsu_e2_q,    \* a request was accepted and is not answered
    mem_unaligned_e2_q,  \* the dummy answer of an unaligned access
    fifo,                \* u_lsu_request
    \* the pipeline around the unit
    e1, e2,              \* the loads and stores in these stages, or None
    squash_e1_e2_q,
    csr_wait,            \* cycles until a cache operation leaves WB
    answered             \* history: writeback_valid_o of the last cycle

lsuVars == <<req, pending_lsu_e2_q, mem_unaligned_e2_q, fifo, e1, e2,
             squash_e1_e2_q, csr_wait, answered>>

LsuInit ==
    /\ req = None /\ pending_lsu_e2_q = FALSE /\ mem_unaligned_e2_q = FALSE
    /\ fifo = <<>>
    /\ e1 = None /\ e2 = None /\ squash_e1_e2_q = FALSE /\ csr_wait = 0
    /\ answered = FALSE

-----------------------------------------------------------------------------
(* Wires. *)

(* mem_unaligned_e1_q *)
Unaligned == req # None /\ req.unaligned

(* delay_lsu_e2_w: the next access waits for a good answer *)
Delay(ack, error) == pending_lsu_e2_q /\ ~(ack /\ ~error)

(* mem_rd_o, mem_wr_o, ...: cache operations do not wait *)
Requesting(ack, error) ==
    req # None /\ ~req.unaligned /\ (req.kind = "cache" \/ ~Delay(ack, error))

(* stall_o *)
LsuStall(accept, ack, error) ==
    \/ Requesting(ack, error) /\ ~accept
    \/ Delay(ack, error)
    \/ Unaligned

(* writeback_valid_o *)
Answer(ack) == ack \/ mem_unaligned_e2_q

(* writeback_exception_o # 0 *)
Fault(ack, error) == mem_unaligned_e2_q \/ (ack /\ error)

-----------------------------------------------------------------------------
(* The registers. *)

(* Faulty variant: the request that follows an answer is forgotten.        *)
Pending_AnswerFirst(accept, ack, error) ==
    pending_lsu_e2_q' = IF ack THEN FALSE
                        ELSE (Requesting(ack, error) /\ accept) \/ pending_lsu_e2_q

(* Faulty variant: a failed access stays pending.                          *)
Pending_OkOnly(accept, ack, error) ==
    pending_lsu_e2_q' = IF Requesting(ack, error) /\ accept THEN TRUE
                        ELSE pending_lsu_e2_q /\ ~(ack /\ ~error)

Pending(accept, ack, error) ==
    pending_lsu_e2_q' = IF Requesting(ack, error) /\ accept THEN TRUE
                        ELSE pending_lsu_e2_q /\ ~ack

(* Faulty variant: the dummy answer does not wait for the access before.   *)
DummyAnswer_NoDelay(ack, error) == mem_unaligned_e2_q' = Unaligned

DummyAnswer(ack, error) ==
    mem_unaligned_e2_q' = (Unaligned /\ ~Delay(ack, error))

(* The request registers keep a request that waits. *)
Hold(accept, ack, error) ==
    \/ req # None /\ req.kind # "cache" /\ Delay(ack, error)
    \/ Requesting(ack, error) /\ ~accept

(* Faulty variant: a failed access leaves the next request in place.       *)
RequestRegisters_KeepOnFault(op, accept, ack, error) ==
    req' = IF Hold(accept, ack, error) THEN req ELSE op

(* Faulty variant: a request the port does not accept is overwritten.      *)
RequestRegisters_NoHold(op, accept, ack, error) ==
    req' = IF Fault(ack, error) THEN None
           ELSE IF req # None /\ req.kind # "cache" /\ Delay(ack, error) THEN req
           ELSE op

RequestRegisters(op, accept, ack, error) ==
    req' = IF Fault(ack, error) THEN None
           ELSE IF Hold(accept, ack, error) THEN req
           ELSE op

(* Faulty variant: an unaligned access leaves no entry.                    *)
Fifo_AlignedOnly(accept, ack, error) ==
    LET push == Requesting(ack, error) /\ accept /\ Len(fifo) # DEPTH
        rest == IF Answer(ack) /\ fifo # <<>> THEN Tail(fifo) ELSE fifo
    IN fifo' = IF push THEN Append(rest, req) ELSE rest

(* A push into a full FIFO is lost, and so is a pop of an empty one. *)
Fifo(accept, ack, error) ==
    LET push == /\ \/ Requesting(ack, error) /\ accept
                   \/ Unaligned /\ ~Delay(ack, error)
                /\ Len(fifo) # DEPTH
        rest == IF Answer(ack) /\ fifo # <<>> THEN Tail(fifo) ELSE fifo
    IN fifo' = IF push THEN Append(rest, req) ELSE rest

-----------------------------------------------------------------------------
(* The pipeline, as riscv_issue and riscv_pipe_ctrl drive the unit. *)

(* stall_o of riscv_pipe_ctrl *)
PipeStall(ack) == e2 # None /\ ~Answer(ack)

(* squash_e1_e2_o: an access that fails squashes the instruction behind it *)
Squashed(ack, error) ==
    squash_e1_e2_q \/ (e2 # None /\ Fault(ack, error))

MayIssue(op, accept, ack, error) ==
    /\ ~LsuStall(accept, ack, error)
    /\ ~PipeStall(ack)
    /\ ~Squashed(ack, error)
    /\ csr_wait = 0
    /\ op.kind = "cache" => e1 = None

Pipeline(op, ack, error) ==
    LET squashed == Squashed(ack, error)
        isMem == op # None /\ op.kind # "cache"
    IN /\ IF PipeStall(ack)
          THEN UNCHANGED <<e1, e2, squash_e1_e2_q>>
          ELSE /\ e1' = IF isMem THEN op ELSE None
               /\ e2' = IF squashed THEN None ELSE e1
               /\ squash_e1_e2_q' = (e2 # None /\ Fault(ack, error))
       /\ csr_wait' = IF op # None /\ ~isMem THEN 3
                      ELSE IF csr_wait = 0 THEN 0 ELSE csr_wait - 1
       /\ answered' = Answer(ack)

(* One cycle in which the memory drives accept, ack and error. *)
LsuCycle(op, accept, ack, error) ==
    /\ op # None => MayIssue(op, accept, ack, error)
    /\ Pending(accept, ack, error)
    /\ DummyAnswer(ack, error)
    /\ RequestRegisters(op, accept, ack, error)
    /\ Fifo(accept, ack, error)
    /\ Pipeline(op, ack, error)

LsuTypeOK ==
    /\ req \in Requests \cup {None}
    /\ {pending_lsu_e2_q, mem_unaligned_e2_q, squash_e1_e2_q, answered}
          \subseteq BOOLEAN
    /\ fifo \in Seq(Requests) /\ Len(fifo) <= DEPTH
    /\ {e1, e2} \subseteq Requests \cup {None}
    /\ csr_wait \in 0..3

=============================================================================
