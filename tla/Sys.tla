-------------------------------- MODULE Sys ---------------------------------
(***************************************************************************)
(* The data side of the computer in top_v2f/sys.v: the load/store unit of  *)
(* the core in front of fabric.v, which holds the RAM, the hexadecimal     *)
(* display registers (reg_vram_mm.v, hex_display_panel_mm.v) and the       *)
(* character display (char_display.v).                                     *)
(*                                                                         *)
(* The fabric accepts in every cycle and has no queue: what it shows it    *)
(* shows until the next request.  The address and data registers of the    *)
(* load/store unit are wires of the fabric, and hold something in every    *)
(* cycle, also when there is no request.                                   *)
(***************************************************************************)
EXTENDS RiscvLsu

CONSTANTS
    Ram,        \* words of the RAM
    Display,    \* display registers
    PutChar,    \* ADDR_SET of char_display
    Clear,      \* ADDR_SET + 4
    Beyond,     \* addresses above END_VRAM, where nothing is
    ZeroAddr,   \* address 0
    Word,       \* the RAM word an address selects: data_addr[17:2]
    Vals,
    CHARS       \* places of the character display

Vram  == Display \cup {PutChar, Clear}
Addrs == Ram \cup Vram \cup Beyond

ASSUME SysAssumption ==
    /\ ZeroAddr \in Ram /\ 0 \in Vals
    /\ Word \in [Addrs -> Ram] /\ \A a \in Ram : Word[a] = a
    /\ Ram \cap (Vram \cup Beyond) = {} /\ Vram \cap Beyond = {}
    /\ Display \cap {PutChar, Clear} = {} /\ PutChar # Clear
    /\ CHARS \in Nat \ {0}
    /\ Tags = [addr : Addrs, val : Vals]

VARIABLES
    mem_addr_q, mem_data_wr_q,
    data_ack, data_error, data_q,
    ram,            \* the words of the RAM
    vram,           \* q of reg_vram_mm
    chars, idx,     \* data and idx of char_display
    stored          \* history: memory as the retired stores leave it

fabricVars == <<mem_addr_q, mem_data_wr_q, data_ack, data_error, data_q,
                ram, vram, chars, idx, stored>>
vars == <<lsuVars, fabricVars>>

Places == 0 .. CHARS - 1
Cleared == [p \in Places |-> 0]

Init ==
    /\ LsuInit
    /\ mem_addr_q = ZeroAddr /\ mem_data_wr_q = 0
    /\ data_ack = FALSE /\ data_error = FALSE /\ data_q = 0
    /\ ram \in [Ram -> Vals]
    /\ vram = [a \in Display |-> 0]
    /\ chars = Cleared /\ idx = 0
    /\ stored = [ram |-> ram, vram |-> vram, chars |-> chars, idx |-> idx]

-----------------------------------------------------------------------------
(* mem_addr_q and mem_data_wr_q: an instruction that is no access leaves   *)
(* an address as well, and any instruction but a store leaves data 0.      *)
BusRegisters(op, idle) ==
    LET storing == op # None /\ op.kind = "store" /\ ~op.unaligned IN
    IF Fault(data_ack, data_error)
    THEN mem_addr_q' = ZeroAddr /\ mem_data_wr_q' = 0
    ELSE IF Hold(TRUE, data_ack, data_error)
    THEN UNCHANGED <<mem_addr_q, mem_data_wr_q>>
    ELSE /\ mem_addr_q' = IF op = None THEN idle ELSE op.tag.addr
         /\ mem_data_wr_q' = IF storing THEN op.tag.val ELSE 0

(* rd_wr_en; fabric.v is not connected to the cache operations *)
Enabled(kind) ==
    Requesting(data_ack, data_error) /\ req.kind = kind

(* data_valid_internal *)
Exists(a) == a \in Ram \cup Vram

(* Nothing clears data_ack and data_error between two requests. *)
Response ==
    IF Enabled("load") \/ Enabled("store")
    THEN data_ack' = Exists(mem_addr_q) /\ data_error' = ~Exists(mem_addr_q)
    ELSE UNCHANGED <<data_ack, data_error>>

(* Faulty variant: a store to a display also writes the RAM.               *)
RamPort_NoSelect ==
    /\ data_q' = IF Enabled("load") THEN ram[Word[mem_addr_q]] ELSE data_q
    /\ ram' = IF Enabled("store")
              THEN [ram EXCEPT ![Word[mem_addr_q]] = mem_data_wr_q] ELSE ram

RamPort ==
    /\ data_q' = IF Enabled("load") THEN ram[Word[mem_addr_q]] ELSE data_q
    /\ ram' = IF Enabled("store") /\ mem_addr_q \in Ram
              THEN [ram EXCEPT ![mem_addr_q] = mem_data_wr_q] ELSE ram

(* vram_en does not depend on the request. *)
DisplayRegisters ==
    vram' = IF mem_addr_q \in Display
            THEN [vram EXCEPT ![mem_addr_q] = mem_data_wr_q] ELSE vram

(* Faulty variant: an address alone writes the character display.          *)
CharDisplay_NoStrobe ==
    IF mem_addr_q = Clear THEN chars' = Cleared /\ idx' = 0
    ELSE IF mem_addr_q = PutChar
    THEN chars' = [chars EXCEPT ![idx] = mem_data_wr_q] /\ idx' = (idx + 1) % CHARS
    ELSE UNCHANGED <<chars, idx>>

(* Faulty variant: the position does not wrap.                             *)
CharDisplay_NoWrap ==
    IF Enabled("store") /\ mem_addr_q = Clear THEN chars' = Cleared /\ idx' = 0
    ELSE IF Enabled("store") /\ mem_addr_q = PutChar
    THEN chars' = [chars EXCEPT ![idx] = mem_data_wr_q] /\ idx' = idx + 1
    ELSE UNCHANGED <<chars, idx>>

CharDisplay ==
    IF Enabled("store") /\ mem_addr_q = Clear THEN chars' = Cleared /\ idx' = 0
    ELSE IF Enabled("store") /\ mem_addr_q = PutChar
    THEN chars' = [chars EXCEPT ![idx] = mem_data_wr_q] /\ idx' = (idx + 1) % CHARS
    ELSE UNCHANGED <<chars, idx>>

-----------------------------------------------------------------------------
(* What a program expects of access r: memory m after it. *)
After(m, r) ==
    IF r = None THEN m
    ELSE IF r.kind # "store" \/ r.unaligned THEN m
    ELSE CASE r.tag.addr \in Ram     -> [m EXCEPT !.ram[r.tag.addr] = r.tag.val]
           [] r.tag.addr \in Display -> [m EXCEPT !.vram[r.tag.addr] = r.tag.val]
           [] r.tag.addr = Clear     -> [m EXCEPT !.chars = Cleared, !.idx = 0]
           [] r.tag.addr = PutChar   -> [m EXCEPT !.chars[m.idx] = r.tag.val,
                                                  !.idx = (@ + 1) % CHARS]
           [] OTHER                  -> m

Retire ==
    stored' = IF Answer(data_ack) /\ ~Fault(data_ack, data_error)
              THEN After(stored, e2) ELSE stored

Cycle(op, idle) ==
    /\ LsuCycle(op, TRUE, data_ack, data_error)
    /\ BusRegisters(op, idle)
    /\ Response
    /\ RamPort
    /\ DisplayRegisters
    /\ CharDisplay
    /\ Retire

(* Only an aligned store brings a value. *)
Accesses ==
    {r \in Requests : r.kind # "store" \/ r.unaligned => r.tag.val = 0}

Next == \E op \in Accesses \cup {None}, idle \in Addrs : Cycle(op, idle)

(* The clock does not stop. *)
Spec == Init /\ [][Next]_vars /\ WF_vars(Next)

-----------------------------------------------------------------------------
(* Properties. *)

(* Every register has its type; the position of the character display      *)
(* stays on the display.                                                   *)
TypeOK ==
    /\ LsuTypeOK
    /\ mem_addr_q \in Addrs /\ {mem_data_wr_q, data_q} \subseteq Vals
    /\ {data_ack, data_error} \subseteq BOOLEAN
    /\ ram \in [Ram -> Vals] /\ vram \in [Display -> Vals]
    /\ chars \in [Places -> Vals] /\ idx \in Places

(* data_ack stays up after an answer, so the load/store unit is answered   *)
(* in cycles in which nothing was asked.  It is right all the same: an     *)
(* access reaches E2 together with its own answer and never waits there.   *)
AnsweredAtOnce ==
    e2 # None => Answer(data_ack) /\ fifo = <<e2>>

(* Every store of the program takes effect once and in program order, and  *)
(* a store that is squashed or fails takes none: the RAM and the character *)
(* display are what the retired stores and the one in E2 make of them.     *)
StoresOnce ==
    LET m == After(stored, e2) IN
    ram = m.ram /\ chars = m.chars /\ idx = m.idx

(* A load that retires returns the word the latest older store wrote. *)
LoadIsCurrent ==
    /\ e2 # None /\ ~Fault(data_ack, data_error)
    /\ e2.kind = "load" /\ e2.tag.addr \in Ram
    => data_q = stored.ram[e2.tag.addr]

=============================================================================
