------------------------------- MODULE LsuPort ------------------------------
(***************************************************************************)
(* The load/store unit in front of the memories of riscv_top (data cache)  *)
(* and riscv_tcm_top (TCM), seen as a port that accepts and answers.       *)
(***************************************************************************)
EXTENDS RiscvLsu

VARIABLES
    memory,   \* what is behind the port: "dcache" or "tcm"
    port      \* requests accepted and not answered, oldest first

vars == <<req, pending_lsu_e2_q, mem_unaligned_e2_q, fifo, e1, e2,
          squash_e1_e2_q, csr_wait, answered, memory, port>>

Init == LsuInit /\ memory \in {"dcache", "tcm"} /\ port = <<>>

(* What the memory may drive.  The data cache accepts a cache operation at *)
(* once and may take long over it, or fail.  The TCM, whose port external  *)
(* accesses share, may accept anything late, and answers in the next cycle *)
(* without error.                                                          *)
MemoryDrives(accept, ack, error) ==
    /\ ack => port # <<>>
    /\ error => ack
    /\ memory = "dcache" /\ req # None /\ req.kind = "cache" => accept
    /\ memory = "tcm" => (ack = (port # <<>>)) /\ ~error

(* Requests are answered in the order they were accepted in. *)
Port(accept, ack, error) ==
    LET rest == IF ack THEN Tail(port) ELSE port
    IN port' = IF Requesting(ack, error) /\ accept THEN Append(rest, req) ELSE rest

Cycle(op, accept, ack, error) ==
    /\ MemoryDrives(accept, ack, error)
    /\ LsuCycle(op, accept, ack, error)
    /\ Port(accept, ack, error)
    /\ UNCHANGED memory

Next ==
    \E op \in Requests \cup {None}, accept, ack, error \in BOOLEAN :
        Cycle(op, accept, ack, error)

Spec == Init /\ [][Next]_vars

(* The memory accepts what it is asked and answers what it has accepted.   *)
Serve ==
    \E op \in Requests \cup {None}, error \in BOOLEAN :
        Cycle(op, TRUE, port # <<>>, error)

FairSpec == Spec /\ WF_vars(Serve)

-----------------------------------------------------------------------------
(* Properties. *)

(* Every register has its type and the FIFO and the port their bound. *)
TypeOK ==
    /\ LsuTypeOK
    /\ memory \in {"dcache", "tcm"}
    /\ port \in Seq(Requests) /\ Len(port) <= DEPTH

(* The FIFO holds exactly the requests that wait for an answer: the ones   *)
(* the memory has, or the one unaligned access whose dummy answer comes in *)
(* this cycle.  So it neither overflows nor runs empty, although nothing   *)
(* looks at its accept_o and valid_o, and the dummy answer never meets an  *)
(* answer of the memory.                                                   *)
FifoTracksPort ==
    IF mem_unaligned_e2_q
    THEN port = <<>> /\ Len(fifo) = 1 /\ fifo[1].unaligned
    ELSE fifo = port

(* The answer E2 waits for is its own: the oldest entry of the FIFO is the *)
(* access in E2, unless that access is still in the request registers and  *)
(* nothing can be answered.                                                *)
AnswerIsOwn ==
    e2 # None => \/ fifo # <<>> /\ fifo[1] = e2
                 \/ fifo = <<>> /\ req = e2

(* Only an instruction that is in the pipeline has a request in the unit:  *)
(* the access behind one that failed is dropped, here as in the pipeline   *)
(* ("squash next operation"), and never reaches the memory.                *)
OnlyLiveRequests ==
    req # None /\ req.kind # "cache" => req \in {e1, e2}

(* An access waits for the answer of the one before it, and a cache        *)
(* operation, which does not wait, finds the port idle: at most one request *)
(* is at the memory, so none is made behind one that may still fail, and   *)
(* two of the memories behind dport_mux and dcache_mux never owe an answer. *)
OneAccessAtATime == Len(port) <= 1

(* Every access in E2 is answered, and the unit never waits for an answer  *)
(* that cannot come: delay_lsu_e2_w would stall the pipeline forever.      *)
AccessAnswered == (e2 # None \/ pending_lsu_e2_q) ~> answered

=============================================================================
