------------------------------- MODULE AxiMem -------------------------------
(***************************************************************************)
(* The AXI memory of the test bench (tb_axi4_mem.cpp), which delays every  *)
(* channel at random.  A step is one turn of the loop in process(), one    *)
(* clock edge; the inputs are the requests on the bus, in are the random   *)
(* numbers of the turn.  Addresses are word addresses; byte strobes are    *)
(* not modelled, every write is of a word.                                 *)
(***************************************************************************)
EXTENDS Integers, Sequences

CONSTANTS
    Size,       \* words in the memory region, from address 0
    Contents,   \* what a word may hold
    QueueMax,   \* entries of a queue from which no more commands are taken
    None

ASSUME AxiMemAssumption == Size \in Nat \ {0} /\ QueueMax \in Nat \ {0}

VARIABLES
    memory,     \* the memory region
    axi_rd_q,   \* words to be read
    axi_wr_q,   \* words to be written
    axi_wr_req, \* the write command whose data is awaited, or None
    axi_o       \* ready lines, answer on the read channel, on the write channel

axiMemVars == <<memory, axi_rd_q, axi_wr_q, axi_wr_req, axi_o>>

Delays == [ar : BOOLEAN, aw : BOOLEAN, w : BOOLEAN, r : BOOLEAN, b : BOOLEAN]

AxiMemInit ==
    /\ memory \in [0 .. Size - 1 -> Contents]
    /\ axi_rd_q = <<>> /\ axi_wr_q = <<>> /\ axi_wr_req = None
    /\ axi_o = [arready |-> FALSE, awready |-> FALSE, wready |-> FALSE,
                r |-> None, b |-> FALSE]

(* Words less one in the block a wrapping burst stays in. *)
WrapMask(len) == CASE len = 0 -> 0 [] len = 1 -> 1 [] len = 3 -> 3 [] len = 7 -> 7
                   [] OTHER -> 15

NextAddr(addr, burst, len) ==
    LET block == WrapMask(len) + 1
    IN CASE burst = "wrap" -> (addr - (addr % block)) + ((addr + 1) % block)
         [] burst = "incr" -> addr + 1
         [] OTHER          -> addr

(* The addresses of a burst, first to last. *)
Unroll(cmd) ==
    LET at[i \in 0 .. cmd.len] ==
            IF i = 0 THEN cmd.addr ELSE NextAddr(at[i - 1], cmd.burst, cmd.len)
    IN [i \in 1 .. cmd.len + 1 |-> at[i - 1]]

(* ar and aw are commands [addr, len, burst] or None, w is [data, last] or *)
(* None, as driven in this cycle.                                          *)
ReadCommand(ar) ==
    IF ar # None /\ axi_o.arready
    THEN axi_rd_q \o [i \in 1 .. ar.len + 1 |-> [addr |-> Unroll(ar)[i], last |-> i = ar.len + 1]]
    ELSE axi_rd_q

WriteCommand(aw) == IF aw # None /\ axi_o.awready THEN aw ELSE axi_wr_req

TakesData(w) == w # None /\ axi_o.wready

(* sc_assert(axi_wr_req.AWVALID) *)
DataHasCommand(aw, w) == TakesData(w) => WriteCommand(aw) # None

WriteData(aw, w) ==
    IF TakesData(w)
    THEN Append(axi_wr_q, [addr |-> WriteCommand(aw).addr, data |-> w.data, last |-> w.last])
    ELSE axi_wr_q

(* Faulty variant: the address of a burst does not advance.                *)
RestOfCommand_Fixed(aw, w) == IF TakesData(w) /\ w.last THEN None ELSE WriteCommand(aw)

RestOfCommand(aw, w) ==
    LET cmd == WriteCommand(aw)
    IN IF ~TakesData(w) THEN cmd
       ELSE IF w.last THEN None
       ELSE [cmd EXCEPT !.addr = NextAddr(cmd.addr, cmd.burst, cmd.len)]

(* RREADY and BREADY are constant, so an answer is shown for one cycle. *)
Turn(ar, aw, w, delay) ==
    LET rd    == ReadCommand(ar)
        wr    == WriteData(aw, w)
        read  == rd # <<>> /\ ~delay.r
        write == wr # <<>> /\ ~delay.b
        rest  == IF read THEN Tail(rd) ELSE rd
        left  == IF write THEN Tail(wr) ELSE wr
        cmd   == RestOfCommand(aw, w)
        taken == ~delay.aw /\ Len(left) < QueueMax
    IN /\ DataHasCommand(aw, w)
       /\ axi_rd_q' = rest
       /\ axi_wr_q' = left
       /\ axi_wr_req' = cmd
       /\ memory' = IF write THEN [memory EXCEPT ![Head(wr).addr] = Head(wr).data] ELSE memory
       /\ axi_o' = [arready |-> ~delay.ar /\ Len(rest) < QueueMax,
                    awready |-> taken /\ cmd = None,
                    wready  |-> taken /\ ~delay.w,
                    r |-> IF read THEN [data |-> memory[Head(rd).addr], last |-> Head(rd).last]
                          ELSE None,
                    b |-> write /\ Head(wr).last]

=============================================================================
