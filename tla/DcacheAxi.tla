------------------------------ MODULE DcacheAxi -----------------------------
(***************************************************************************)
(* dcache_axi.v with dcache_axi_axi.v, which turn the transfers of the     *)
(* data cache into AXI commands and words, and the memory they reach       *)
(* (AxiMem).  The cache is a client that makes one transfer at a time, as  *)
(* PortInTurn of Dcache says it does.  A step is one edge of clk_i.        *)
(***************************************************************************)
EXTENDS AxiMem

CONSTANTS LineWords,   \* words of a burst
          Lines,       \* first addresses of the lines
          Singles      \* addresses of uncached words

(* The length field has 8 bits; lines and words lie in the memory region,  *)
(* and None is none of the things it is told apart from.                   *)
ASSUME AxiAssumption ==
    /\ LineWords \in 1 .. 256
    /\ \A l \in Lines : l \in 0 .. Size - LineWords
    /\ Singles \subseteq 0 .. Size - 1
    /\ None \notin [kind : {"rd", "wr"}, addr : Nat, len : Nat, taken : Nat, answered : Nat]
                 \cup [kind : {"rd", "wr"}, addr : Nat, len : Nat, data : Contents \cup {None}]
                 \cup [addr : Nat, len : Nat, burst : {"incr"}]
                 \cup [data : Contents, last : BOOLEAN]
                 \cup [data : Contents \cup {None}, error : BOOLEAN]
                 \cup [kind : {"rd", "wr"}, at : Nat, todo : Seq(Nat)]
                 \cup [kind : {"rd", "wr"}, burst : Seq(Nat), data : Contents \cup {None}]

VARIABLES
    \* dcache_axi.v
    req_fifo, burst_cnt_q, resp_outstanding_q,
    \* dcache_axi_axi.v: words left of the burst, skid buffer and its valid
    \* bit, parts of the request in it that are already taken
    req_cnt_q, valid_q, buf_q, awvalid_q, wvalid_q, wlast_q,
    \* the client: its transfer [kind, addr, len, taken, answered], or None
    xfer

axiVars == <<req_fifo, burst_cnt_q, resp_outstanding_q, req_cnt_q, valid_q, buf_q,
             awvalid_q, wvalid_q, wlast_q>>
vars == <<axiMemVars, axiVars, xfer>>

(* A word of a burst: len is 0 after the first, and then the address means *)
(* nothing.                                                                *)
Beat(kind, addr, len, data) == [kind |-> kind, addr |-> addr, len |-> len, data |-> data]

-----------------------------------------------------------------------------
(* dcache_axi_axi.v: wires *)

CanIssue == req_fifo # <<>> /\ resp_outstanding_q # 2

(* Faulty variant: the end of a burst is not seen.                         *)
Word_NoLast ==
        IF valid_q THEN buf_q
          ELSE [beat |-> Head(req_fifo), last |-> Head(req_fifo).len = 0 /\ req_cnt_q = 0]

(* The word that is on the bus, from the skid buffer or the FIFO.          *)
Word == IF valid_q THEN buf_q
        ELSE [beat |-> Head(req_fifo),
              last |-> (Head(req_fifo).len = 0 /\ req_cnt_q = 0) \/ req_cnt_q = 1]
OnBus(kind) == (valid_q \/ CanIssue) /\ Word.beat.kind = kind

Command == [addr |-> Word.beat.addr, len |-> Word.beat.len, burst |-> "incr"]
Ar == IF OnBus("rd") THEN Command ELSE None
Aw == IF OnBus("wr") /\ ~awvalid_q THEN Command ELSE None
Wd == IF OnBus("wr") /\ ~wvalid_q THEN [data |-> Word.beat.data, last |-> Word.last] ELSE None

ArTaken == Ar # None /\ axi_o.arready
AwTaken == Aw # None /\ axi_o.awready
WdTaken == Wd # None /\ axi_o.wready
AllTaken == (Ar = None \/ ArTaken) /\ (Aw = None \/ AwTaken) /\ (Wd = None \/ WdTaken)

(* inport_accept_o: something of the word is taken, the rest is kept.      *)
AxiAccept == ~valid_q /\ (ArTaken \/ AwTaken \/ WdTaken)

CommandAccepted == AwTaken \/ awvalid_q
DataAccepted    == WdTaken \/ wvalid_q

(* Faulty variant: the last word ends the command only one cycle later.    *)
LastAccepted_Late == wvalid_q /\ wlast_q

LastAccepted    == (wvalid_q /\ wlast_q) \/ (WdTaken /\ Word.last)

Widget ==
    LET issued == CanIssue /\ AxiAccept
    IN /\ req_cnt_q' = IF ~(issued /\ Head(req_fifo).kind = "wr") THEN req_cnt_q
                       ELSE IF req_cnt_q # 0 THEN req_cnt_q - 1 ELSE Head(req_fifo).len
       /\ valid_q' = IF issued /\ ~AllTaken THEN TRUE ELSE valid_q /\ ~AllTaken
       /\ buf_q' = IF valid_q' THEN Word ELSE None    \* read only while valid
       /\ awvalid_q' = IF AwTaken /\ ~(DataAccepted /\ LastAccepted) THEN TRUE
                       ELSE awvalid_q /\ ~(DataAccepted /\ LastAccepted)
       /\ wvalid_q' = IF WdTaken /\ ~CommandAccepted THEN TRUE
                      ELSE wvalid_q /\ ~CommandAccepted
       /\ wlast_q' = IF WdTaken THEN Word.last ELSE wlast_q

(* dcache_axi.v: request FIFO, words of a burst, transfers not answered.   *)

(* Faulty variant: the FIFO accepts one word too many.                     *)
InportAccept_Overfull == Len(req_fifo) <= 2

InportAccept == Len(req_fifo) # 2
InportAck    == axi_o.b \/ axi_o.r # None

Bridge(beat) ==
    LET pop    == CanIssue /\ AxiAccept
        head   == Head(req_fifo)
        last   == head.len = 0 /\ burst_cnt_q = 0
        push   == pop /\ (head.kind = "rd" \/ last)
        ended  == (axi_o.b \/ (axi_o.r # None /\ axi_o.r.last)) /\ resp_outstanding_q # 0
    IN /\ req_fifo' = (IF pop THEN Tail(req_fifo) ELSE req_fifo)
                      \o (IF beat # None /\ InportAccept THEN <<beat>> ELSE <<>>)
       /\ burst_cnt_q' = IF ~(pop /\ head.kind = "wr") THEN burst_cnt_q
                         ELSE IF burst_cnt_q # 0 THEN burst_cnt_q - 1
                         ELSE IF head.len # 0 THEN head.len - 1 ELSE 0
       /\ resp_outstanding_q' = resp_outstanding_q + (IF push THEN 1 ELSE 0)
                                - (IF ended THEN 1 ELSE 0)

-----------------------------------------------------------------------------
(* The client.  It may pause between the words of a write, and begins the  *)
(* next transfer in the cycle of the last answer at the earliest.          *)

Beats(x)   == IF x.kind = "rd" THEN 1 ELSE x.len + 1
Replies(x) == IF x.kind = "rd" THEN x.len + 1 ELSE 1
Answered(x) == IF x # None /\ InportAck THEN [x EXCEPT !.answered = @ + 1] ELSE x
Pending == LET x == Answered(xfer)
           IN IF x # None /\ x.answered = Replies(x) THEN None ELSE x

Begins == [kind : {"rd", "wr"}, addr : Lines, len : {LineWords - 1}, taken : {0}, answered : {0}]
          \cup [kind : {"rd", "wr"}, addr : Singles, len : {0}, taken : {0}, answered : {0}]

(* go is the transfer whose next word is driven, data the word; None is an *)
(* idle bus.                                                               *)
Client(go, data) ==
    IF go = None THEN xfer' = Pending
    ELSE /\ go \in (IF Pending = None THEN Begins ELSE {Pending})
         /\ go.taken < Beats(go)
         /\ xfer' = IF InportAccept THEN [go EXCEPT !.taken = @ + 1] ELSE Pending

Driven(go, data) ==
    IF go = None THEN None
    ELSE Beat(go.kind, IF go.taken = 0 THEN go.addr ELSE 0,
              IF go.taken = 0 THEN go.len ELSE 0, IF go.kind = "wr" THEN data ELSE None)

Cycle(go, data, delay) ==
    /\ Client(go, data)
    /\ Bridge(Driven(go, data))
    /\ Widget
    /\ Turn(Ar, Aw, Wd, delay)

Init ==
    /\ AxiMemInit
    /\ req_fifo = <<>> /\ burst_cnt_q = 0 /\ resp_outstanding_q = 0 /\ req_cnt_q = 0
    /\ valid_q = FALSE /\ buf_q = None
    /\ awvalid_q = FALSE /\ wvalid_q = FALSE /\ wlast_q = FALSE
    /\ xfer = None

(* What the client may drive: nothing, a read, or a word of a write.       *)
Offers ==
    LET may == {x \in Begins \cup {Pending} : x # None}
    IN {[go |-> None, data |-> None]}
       \cup {[go |-> x, data |-> None] : x \in {y \in may : y.kind = "rd"}}
       \cup [go : {y \in may : y.kind = "wr"}, data : Contents]

(* A delay of a read or a write is drawn only when one waits.              *)
Next == \E offer \in Offers, delay \in Delays :
            /\ delay.r => axi_rd_q # <<>> \/ ArTaken
            /\ delay.b => axi_wr_q # <<>> \/ WdTaken
            /\ Cycle(offer.go, offer.data, delay)

Spec == Init /\ [][Next]_vars

(* Delays end, and the client sends the words of the write it began.       *)
Serve ==
    \E data \in Contents :
        Cycle(IF Pending # None /\ Pending.taken < Beats(Pending) THEN Pending ELSE None, data,
              [ar |-> FALSE, aw |-> FALSE, w |-> FALSE, r |-> FALSE, b |-> FALSE])

FairSpec == Spec /\ WF_vars(Serve)

-----------------------------------------------------------------------------
(* Properties. *)

(* Every register has its type and the queues their bounds.                *)
TypeOK ==
    /\ memory \in [0 .. Size - 1 -> Contents]
    /\ Len(axi_rd_q) <= LineWords /\ Len(axi_wr_q) <= LineWords
    /\ axi_wr_req = None \/ axi_wr_req.addr \in 0 .. Size
    /\ Len(req_fifo) <= 2 /\ resp_outstanding_q \in 0 .. 2
    /\ burst_cnt_q \in 0 .. LineWords - 1 /\ req_cnt_q \in 0 .. LineWords - 1
    /\ {valid_q, awvalid_q, wvalid_q, wlast_q} \subseteq BOOLEAN
    /\ xfer = None \/ (xfer.taken <= Beats(xfer) /\ xfer.answered < Replies(xfer))

(* Data never reaches the memory without its command: sc_assert in         *)
(* tb_axi4_mem::process.  The bridge offers both at once; the memory takes *)
(* the command alone or with the first word, and what is left over waits   *)
(* in the skid buffer.                                                     *)
NoOrphanData == DataHasCommand(Aw, Wd)

(* Words of a write that the bridge has taken and the memory has not       *)
(* written, oldest first.  The FIFO holds words of one transfer.           *)
OnTheWay ==
    [i \in 1 .. Len(axi_wr_q) |-> axi_wr_q[i].data]
    \o (IF valid_q /\ buf_q.beat.kind = "wr" /\ ~wvalid_q THEN <<buf_q.beat.data>> ELSE <<>>)
    \o (IF req_fifo # <<>> /\ Head(req_fifo).kind = "wr"
        THEN [i \in 1 .. Len(req_fifo) |-> req_fifo[i].data] ELSE <<>>)

(* The bridge and its memory are the port the data cache counts on         *)
(* (PmemPort): words reach their addresses in order, every read word is    *)
(* answered with the contents of its own address, a write once, after its  *)
(* last word.  The port's memory is the one here with what is on its way.  *)
PortOp ==
    IF Pending = None \/ xfer.taken = 0 THEN None
    ELSE [kind |-> xfer.kind, at |-> xfer.addr,
          todo |-> IF xfer.kind = "rd"
                   THEN [i \in 1 .. xfer.len + 1 - Pending.answered |->
                            xfer.addr + Pending.answered + i - 1]
                   ELSE [i \in 1 .. xfer.len + 1 - xfer.taken |-> xfer.addr + xfer.taken + i - 1]]
PortMem ==
    IF OnTheWay = <<>> THEN memory
    ELSE LET first == xfer.addr + xfer.taken - Len(OnTheWay)
         IN [a \in DOMAIN memory |->
                IF a \in first .. first + Len(OnTheWay) - 1 THEN OnTheWay[a - first + 1]
                ELSE memory[a]]
PortAns ==
    IF axi_o.b THEN [data |-> None, error |-> FALSE]
    ELSE IF axi_o.r # None THEN [data |-> axi_o.r.data, error |-> FALSE] ELSE None

Port == INSTANCE PmemPort WITH
            mem <- PortMem, op <- PortOp, ans <- PortAns, FailAddrs <- {},
            Addrs <- 0 .. Size - 1, Initial <- [a \in 0 .. Size - 1 |-> 0],
            Bursts <- {[i \in 1 .. LineWords |-> l + i - 1] : l \in Lines} \cup {<<s>> : s \in Singles}
ImplementsPort == [][Port!PortNext]_(Port!portVars)

(* Every transfer is answered to its last word if the memory's random      *)
(* delays end.                                                             *)
TransferAnswered == xfer # None ~> Pending = None

=============================================================================
