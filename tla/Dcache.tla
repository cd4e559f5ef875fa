------------------------------- MODULE Dcache -------------------------------
(***************************************************************************)
(* The data side of riscv_top: dcache_mux.v, dcache_core.v,                *)
(* dcache_if_pmem.v and dcache_pmem_mux.v, wired as in dcache.v, between   *)
(* the load/store unit and a memory port.                                  *)
(*                                                                         *)
(* A step is one edge of clk_i.  The input q is what the load/store unit   *)
(* drives in the cycle: kind is "none" when it requests nothing, while its *)
(* address is on the bus all the same.  acc is outport_accept_i, reply     *)
(* says whether the port has an answer ready for the next cycle.           *)
(***************************************************************************)
EXTENDS Integers, Sequences, PmemPort

CONSTANTS
    Sets,          \* number of lines of a way, a power of two
    LineWords,     \* words of a line, a power of two
    Tags,          \* tags of the cacheable lines
    UncachedTags,  \* tags of the addresses outside MEM_CACHE_ADDR_MIN..MAX
    Requests,      \* what the load/store unit may request, [kind, addr, val]
    IdleAddrs      \* what its address bus may show when it requests nothing

Ways == {0, 1}

(* pmem_len_q has 8 bits.  A line is in the range of the cache as a whole. *)
ASSUME DcacheAssumption ==
    /\ Sets \in Nat \ {0, 1} /\ LineWords \in 2 .. 256
    /\ 0 \in Tags       \* stands for what the tag RAM holds before its reset
    /\ Addrs \subseteq [set : 0 .. Sets - 1, tag : Tags \cup UncachedTags,
                        word : 0 .. LineWords - 1]
    /\ \A a \in Addrs, i \in 0 .. LineWords - 1 :
          a.tag \in Tags => [a EXCEPT !.word = i] \in Addrs
    /\ Requests \subseteq [kind : {"ld", "st", "inval", "wb", "flush"}, addr : Addrs,
                           val : Contents \cup {None}]
    /\ \A r \in Requests : r.kind = "st" => r.val \in Contents
    /\ IdleAddrs \subseteq Addrs /\ Initial \in [Addrs -> Contents]

(* None is none of the things it is told apart from. *)
ASSUME NoneAssumption ==
    None \notin Requests \cup Answers \cup Ops
               \cup [kind : {"rd", "wr"}, burst : Seq(Addrs), data : Contents \cup {None}]
               \cup [done : {"ld", "st", "inval", "wb", "flush"}, data : Contents \cup {None}]

VARIABLES
    \* dcache_core.v
    state_q, m,            \* m is the request buffer mem_*_m_q
    tag_ram, tag_o,        \* a way's tags, and what is read of them
    data_ram, data_o,      \* the same for the data
    data_write_addr_q, flush_addr_q, flushing_q, flush_last_q, replace_way_q,
    pmem_rd_q, pmem_wr0_q, pmem_len_q,
    pmem_wr_q, pmem_write_data_q,   \* the skid buffer for write data
    error_q,
    \* dcache_mux.v and dcache_pmem_mux.v
    pending_q, cache_access_q, select_q,
    \* dcache_if_pmem.v: request FIFO, entries of the response FIFO
    req_fifo, resp_count, request_pending_q, dropped_q,
    \* the load/store unit: contents it may expect, the access it waits for
    flat, owed,
    failed      \* whether a transfer made for that access failed

coreVars == <<state_q, m, tag_ram, tag_o, data_ram, data_o, data_write_addr_q,
              flush_addr_q, flushing_q, flush_last_q, replace_way_q, pmem_rd_q,
              pmem_wr0_q, pmem_len_q, pmem_wr_q, pmem_write_data_q, error_q>>
muxVars    == <<pending_q, cache_access_q, select_q>>
bridgeVars == <<req_fifo, resp_count, request_pending_q, dropped_q>>
vars == <<coreVars, muxVars, bridgeVars, portVars, flat, owed, failed>>

Empty  == [v |-> FALSE, d |-> FALSE, t |-> None]
NoReq(a) == [kind |-> "none", addr |-> a, val |-> None]
Access(r)  == r.kind \in {"ld", "st"}
CacheOp(r) == r.kind \in {"inval", "wb", "flush"}

(* The load/store unit marks every cache operation cacheable.              *)
Cacheable(r) == r.addr.tag \in Tags \/ CacheOp(r)

(* Index of a word in the data RAM of a way. *)
Index(a) == a.set * LineWords + a.word
Base(set) == set * LineWords
RamWords  == 0 .. Sets * LineWords - 1

Line(set, tag) == [i \in 1 .. LineWords |-> [set |-> set, tag |-> tag, word |-> i - 1]]

-----------------------------------------------------------------------------
(* dcache_core.v: wires that depend on registers only. *)

(* Faulty variant: a flush writes back to the set of the request.          *)
EvictSet_OfRequest == m.addr.set

(* Faulty variant: a transfer ends one word early.                         *)
LastBeat_Early == pmem_len_q <= 1

Hit(w)    == tag_o[w].v /\ tag_o[w].t = m.addr.tag
Dirty(w)  == tag_o[w].v /\ tag_o[w].d
HitAny    == \E w \in Ways : Hit(w)
DirtyAny  == \E w \in Ways : Dirty(w)
HitDirty  == \E w \in Ways : Hit(w) /\ Dirty(w)
Missed    == Access(m) /\ ~HitAny
EvictWay  == (flushing_q \/ ~HitAny) /\ Dirty(replace_way_q)
EvictSet  == IF flushing_q THEN flush_addr_q ELSE m.addr.set
LastBeat  == pmem_len_q = 0
CoreAck   == state_q = "LOOKUP" /\ ((Access(m) /\ HitAny) \/ CacheOp(m))
CoreData  == data_o[IF Hit(0) \/ ~Hit(1) THEN 0 ELSE 1]

(* Faulty variant: a load may follow a store of the same word at once.    *)
CoreAccept_NoHazard(c) == state_q = "LOOKUP" /\ ~Missed

CoreAccept(c) ==
    /\ state_q = "LOOKUP"
    /\ ~Missed
    /\ ~(m.kind = "st" /\ c.kind = "ld" /\ c.addr = m.addr)

(* dcache_if_pmem.v.  It drops cache operations; none gets here, since     *)
(* they are all marked cacheable.                                          *)
BridgeAck    == dropped_q \/ (~select_q /\ ans # None)
BridgeAccept == Len(req_fifo) < 2 /\ resp_count < 2
BridgeIssues == req_fifo # <<>> /\ ~(request_pending_q /\ ~BridgeAck)
BridgeDrops  == BridgeIssues /\ CacheOp(Head(req_fifo))

(* dcache_mux.v and dcache_pmem_mux.v *)

Hold(q)       == pending_q # 0 /\ cache_access_q # Cacheable(q)
CachedReq(q)   == IF Cacheable(q) /\ ~Hold(q) THEN q ELSE NoReq(q.addr)
UncachedReq(q) == IF ~Cacheable(q) /\ ~Hold(q) THEN q ELSE NoReq(q.addr)
SelectCore(q) == IF pending_q # 0 THEN cache_access_q ELSE Cacheable(q)

MemAccept(q) ==
    /\ ~Hold(q)
    /\ IF Cacheable(q) THEN CoreAccept(q) ELSE BridgeAccept
MemAck   == IF cache_access_q THEN CoreAck ELSE BridgeAck
MemData  == IF cache_access_q THEN CoreData ELSE IF ans = None THEN None ELSE ans.data
MemError == IF cache_access_q THEN error_q ELSE ~select_q /\ ans # None /\ ans.error
Accepted(q) == q.kind # "none" /\ MemAccept(q)

(* Faulty variant: the core takes the answers of the bridge for its own.   *)
PmemAck_AnyAnswer == ans # None

PmemAck == select_q /\ ans # None        \* inport1_ack_o, of the core

-----------------------------------------------------------------------------
(* dcache_core.v: next state, memory request, RAM ports.  c is the request *)
(* at the core, acc is pmem_accept_w.                                      *)

NextState(c, acc) ==
    CASE state_q = "RESET"      -> IF flush_last_q THEN "LOOKUP" ELSE "RESET"
      [] state_q = "FLUSH_ADDR" -> "FLUSH"
      [] state_q = "FLUSH"      -> IF DirtyAny THEN IF EvictWay THEN "EVICT" ELSE "FLUSH"
                                   ELSE IF flush_last_q THEN "LOOKUP" ELSE "FLUSH_ADDR"
      [] state_q = "LOOKUP"     ->
            IF Missed THEN IF EvictWay THEN "EVICT" ELSE "REFILL"
            ELSE IF ~CoreAccept(c) THEN "LOOKUP"
            ELSE CASE c.kind = "wb"    -> "WRITEBACK"
                   [] c.kind = "flush" -> "FLUSH_ADDR"
                   [] c.kind = "inval" -> "INVALIDATE"
                   [] OTHER            -> "LOOKUP"
      [] state_q = "REFILL"     -> IF ~(PmemAck /\ LastBeat) THEN "REFILL"
                                   ELSE IF m.kind = "st" THEN "WRITE" ELSE "READ"
      [] state_q = "EVICT"      -> IF acc /\ LastBeat THEN "EVICT_WAIT" ELSE "EVICT"
      [] state_q = "EVICT_WAIT" -> IF ~PmemAck THEN "EVICT_WAIT"
                                   ELSE IF m.kind = "wb" THEN "LOOKUP"
                                   ELSE IF flushing_q THEN "FLUSH_ADDR" ELSE "REFILL"
      [] state_q = "WRITEBACK"  -> IF HitDirty THEN "EVICT" ELSE "LOOKUP"
      [] OTHER                  -> "LOOKUP"      \* READ, WRITE, INVALIDATE

Entering(s, next) == state_q # s /\ next = s

CoreReads(next) == Entering("REFILL", next) \/ pmem_rd_q
CoreWrites      == (state_q = "EVICT" /\ (EvictWay \/ m.kind = "wb")) \/ pmem_wr_q

(* What the core puts on the port.  The address of the words after the     *)
(* first of a burst is left out: the bus does not send it.                 *)
CoreBeat(next) ==
    IF CoreReads(next)
    THEN [kind |-> "rd", burst |-> Line(m.addr.set, m.addr.tag), data |-> None]
    ELSE IF CoreWrites
    THEN [kind |-> "wr", burst |-> Line(EvictSet, tag_o[replace_way_q].t),
          data |-> IF pmem_wr_q THEN pmem_write_data_q ELSE data_o[replace_way_q]]
    ELSE None

TagReadSet(c, next) ==
    IF state_q = "LOOKUP" /\ next \in {"LOOKUP", "WRITEBACK"} THEN c.addr.set
    ELSE IF flushing_q THEN flush_addr_q ELSE m.addr.set
TagWriteSet == IF flushing_q \/ state_q = "RESET" THEN flush_addr_q ELSE m.addr.set

TagWrites(w) ==
    CASE state_q = "RESET"      -> TRUE
      [] state_q = "FLUSH"      -> ~DirtyAny
      [] state_q = "LOOKUP"     -> m.kind = "st" /\ Hit(w)
      [] state_q = "WRITE"      -> replace_way_q = w
      [] state_q = "EVICT_WAIT" -> PmemAck /\ replace_way_q = w
      [] state_q = "REFILL"     -> PmemAck /\ LastBeat /\ replace_way_q = w
      [] state_q = "INVALIDATE" -> Hit(w)
      [] OTHER                  -> FALSE

TagIn ==
    IF state_q = "RESET" \/ flushing_q THEN Empty
    ELSE [v |-> state_q # "INVALIDATE", d |-> state_q \in {"LOOKUP", "WRITE"},
          t |-> m.addr.tag]

(* The tag RAM shows what is written in the same cycle. *)
TagRam(c, next) ==
    LET new == [w \in Ways |-> IF TagWrites(w) THEN [tag_ram[w] EXCEPT ![TagWriteSet] = TagIn]
                               ELSE tag_ram[w]]
    IN /\ tag_ram' = new
       /\ tag_o' = [w \in Ways |-> new[w][TagReadSet(c, next)]]

DataReadIndex(c, next) ==
    IF state_q \in {"REFILL", "EVICT"}     THEN data_write_addr_q
    ELSE IF state_q \in {"FLUSH", "RESET"} THEN Base(flush_addr_q)
    ELSE IF Entering("EVICT", next)        THEN Base(m.addr.set)
    ELSE IF state_q = "READ" THEN Index(m.addr) ELSE Index(c.addr)
DataWriteIndex(c, next) ==
    IF state_q \in {"REFILL", "EVICT", "FLUSH", "RESET"} \/ Entering("EVICT", next)
    THEN DataReadIndex(c, next) ELSE Index(m.addr)

DataWrites(w) ==
    IF state_q = "REFILL" THEN PmemAck /\ replace_way_q = w
    ELSE state_q \in {"WRITE", "LOOKUP"} /\ m.kind = "st" /\ Hit(w)
DataIn == IF state_q = "REFILL" THEN ans.data ELSE m.val

(* The data RAM shows what it held before the write. *)
DataRam(c, next, acc) ==
    /\ data_ram' = [w \in Ways |->
                      IF DataWrites(w) THEN [data_ram[w] EXCEPT ![DataWriteIndex(c, next)] = DataIn]
                      ELSE data_ram[w]]
    /\ data_o' = [w \in Ways |-> data_ram[w][DataReadIndex(c, next)]]
    /\ data_write_addr_q' =
          CASE Entering("REFILL", next) -> Base(m.addr.set)
            [] Entering("EVICT", next)  -> DataWriteIndex(c, next) + 1
            [] (state_q = "REFILL" /\ PmemAck) \/ (state_q = "EVICT" /\ acc) ->
                  (data_write_addr_q + 1) % (Sets * LineWords)
            [] OTHER                    -> data_write_addr_q

-----------------------------------------------------------------------------
(* dcache_core.v: the registers. *)

(* Faulty variant: the buffer is not cleared when the access is answered.  *)
RequestBuffer_Kept(c) == m' = IF CoreAccept(c) /\ c.kind # "none" THEN c ELSE m

RequestBuffer(c) ==
    m' = IF CoreAccept(c) THEN c
         ELSE IF CoreAck THEN NoReq([set |-> 0, tag |-> 0, word |-> 0]) ELSE m

FlushCounter(next) ==
    /\ flush_addr_q' =
          IF state_q = "RESET" \/ (state_q = "FLUSH" /\ next = "FLUSH_ADDR")
          THEN (flush_addr_q + 1) % Sets
          ELSE IF state_q = "LOOKUP" THEN 0 ELSE flush_addr_q
    /\ flushing_q' = IF state_q = "LOOKUP" /\ next = "FLUSH_ADDR" THEN TRUE
                     ELSE IF state_q = "FLUSH" /\ next = "LOOKUP" THEN FALSE
                     ELSE flushing_q
    /\ flush_last_q' = (state_q # "LOOKUP" /\ (flush_last_q \/ flush_addr_q = Sets - 1))

Replacement(next) ==
    replace_way_q' =
        IF \/ state_q \in {"READ", "WRITE"}
           \/ flushing_q /\ DirtyAny /\ ~EvictWay /\ state_q # "FLUSH_ADDR"
        THEN 1 - replace_way_q
        ELSE IF \/ state_q \in {"EVICT_WAIT", "LOOKUP"} /\ next = "FLUSH_ADDR"
                \/ state_q = "FLUSH" /\ next = "LOOKUP"
        THEN 0
        ELSE IF state_q = "WRITEBACK" /\ HitAny THEN IF Hit(0) THEN 0 ELSE 1
        ELSE replace_way_q

(* pmem_write_data_q is kept as None while the skid buffer is empty: it is *)
(* looked at only when pmem_wr_q is set.                                   *)
MemoryRequest(next, acc) ==
    /\ pmem_rd_q' = (CoreReads(next) /\ ~acc)
    /\ pmem_wr0_q' = IF Entering("EVICT", next) THEN TRUE ELSE pmem_wr0_q /\ ~acc
    /\ pmem_len_q' =
          IF Entering("EVICT", next) \/ (CoreReads(next) /\ acc) THEN LineWords - 1
          ELSE IF (state_q = "REFILL" /\ PmemAck) \/ (state_q = "EVICT" /\ acc)
          THEN (pmem_len_q - 1) % 256 ELSE pmem_len_q
    /\ pmem_wr_q' = (CoreWrites /\ ~acc)
    /\ pmem_write_data_q' = IF CoreWrites /\ ~acc THEN CoreBeat(next).data ELSE None
    /\ error_q' = ((PmemAck /\ ans.error) \/ (error_q /\ ~CoreAck))

Core(c, acc) ==
    LET next == NextState(c, acc)
    IN /\ state_q' = next
       /\ RequestBuffer(c)
       /\ TagRam(c, next)
       /\ DataRam(c, next, acc)
       /\ FlushCounter(next)
       /\ Replacement(next)
       /\ MemoryRequest(next, acc)

-----------------------------------------------------------------------------
(* dcache_if_pmem.v, and the registers of the multiplexers. *)

(* Faulty variant: the flag is not cleared by an answer.                   *)
RequestPending_Kept(complete) == complete \/ request_pending_q

RequestPending(complete) == complete \/ (request_pending_q /\ ~BridgeAck)

BridgeBeat ==
    IF ~BridgeIssues \/ BridgeDrops THEN None
    ELSE LET r == Head(req_fifo)
         IN [kind |-> IF r.kind = "ld" THEN "rd" ELSE "wr", burst |-> <<r.addr>>,
             data |-> r.val]

Bridge(c, acc) ==
    LET push     == c.kind # "none" /\ BridgeAccept
        complete == BridgeDrops \/ (BridgeBeat # None /\ acc)
    IN /\ req_fifo' = (IF complete THEN Tail(req_fifo) ELSE req_fifo)
                      \o (IF push THEN <<c>> ELSE <<>>)
       /\ resp_count' = resp_count + (IF push THEN 1 ELSE 0)
                        - (IF BridgeAck /\ resp_count > 0 THEN 1 ELSE 0)
       /\ request_pending_q' = RequestPending(complete)
       /\ dropped_q' = BridgeDrops

(* Faulty variant: an answer is not counted when a request is accepted.    *)
Muxes_Miscount(q) ==
    /\ pending_q' = IF Accepted(q) THEN pending_q + 1
                    ELSE IF MemAck THEN pending_q - 1 ELSE pending_q
    /\ cache_access_q' = IF Accepted(q) THEN Cacheable(q) ELSE cache_access_q
    /\ select_q' = SelectCore(q)

Muxes(q) ==
    /\ pending_q' = pending_q + (IF Accepted(q) THEN 1 ELSE 0) - (IF MemAck THEN 1 ELSE 0)
    /\ cache_access_q' = IF Accepted(q) THEN Cacheable(q) ELSE cache_access_q
    /\ select_q' = SelectCore(q)

-----------------------------------------------------------------------------
(* The load/store unit, with the access it waits for and the contents of   *)
(* the memory that its accesses make.                                      *)
Client(q) ==
    /\ owed' = IF Accepted(q) THEN q ELSE IF MemAck THEN None ELSE owed
    /\ flat' = IF Accepted(q) /\ q.kind = "st" THEN [flat EXCEPT ![q.addr] = q.val]
               ELSE flat
    /\ failed' = ((ans' # None /\ ans'.error) \/ (failed /\ ~MemAck))

PortBeat(q) ==
    IF SelectCore(q) THEN CoreBeat(NextState(CachedReq(q), TRUE)) ELSE BridgeBeat

Cycle(q, acc, reply) ==
    /\ Core(CachedReq(q), acc /\ SelectCore(q))
    /\ Bridge(UncachedReq(q), acc /\ ~SelectCore(q))
    /\ Muxes(q)
    /\ Serve(IF acc THEN PortBeat(q) ELSE None, reply)
    /\ Client(q)

Init ==
    /\ state_q = "RESET" /\ m = NoReq([set |-> 0, tag |-> 0, word |-> 0])
    \* the RAMs have no reset
    /\ tag_ram \in [Ways -> [0 .. Sets - 1 -> {Empty, [v |-> TRUE, d |-> TRUE, t |-> 0]}]]
    /\ tag_o = [w \in Ways |-> Empty]
    /\ data_ram = [w \in Ways |-> [i \in RamWords |-> None]]
    /\ data_o = [w \in Ways |-> None]
    /\ data_write_addr_q = 0 /\ flush_addr_q = 0 /\ pmem_len_q = 0 /\ replace_way_q = 0
    /\ flushing_q = FALSE /\ flush_last_q = FALSE /\ error_q = FALSE
    /\ pmem_rd_q = FALSE /\ pmem_wr0_q = FALSE /\ pmem_wr_q = FALSE
    /\ pmem_write_data_q = None
    /\ pending_q = 0 /\ cache_access_q = FALSE /\ select_q = FALSE
    /\ req_fifo = <<>> /\ resp_count = 0
    /\ request_pending_q = FALSE /\ dropped_q = FALSE
    /\ PortInit
    /\ flat = Initial /\ owed = None /\ failed = FALSE

(* The unit waits for an answer before it requests again, except that it   *)
(* may do so in the cycle of the answer (OneAccessAtATime of LsuPort).     *)
Idle   == {NoReq(a) : a \in IdleAddrs}
Drives == IF owed = None \/ MemAck THEN Requests \cup Idle ELSE Idle

(* Where nothing is put on the port, or nothing is owed by it, acc and     *)
(* reply change nothing.                                                   *)
Next ==
    \E q \in Drives :
        \E acc \in IF PortBeat(q) = None THEN {TRUE} ELSE BOOLEAN,
           reply \in IF AwaitsAnswer THEN BOOLEAN ELSE {FALSE} : Cycle(q, acc, reply)

Spec == Init /\ [][Next]_vars

(* While an access waits, the memory port accepts what it is asked and     *)
(* answers what it owes.                                                   *)
Memory == owed # None /\ ~MemAck /\ \E q \in Idle : Cycle(q, TRUE, TRUE)

FairSpec == Spec /\ WF_vars(Memory)

-----------------------------------------------------------------------------
(* Properties. *)

States == {"RESET", "FLUSH_ADDR", "FLUSH", "LOOKUP", "READ", "WRITE", "REFILL",
           "EVICT", "EVICT_WAIT", "INVALIDATE", "WRITEBACK"}

(* Every register has its type, and the FIFOs and counters their bound.    *)
TypeOK ==
    /\ PortTypeOK
    /\ state_q \in States
    /\ tag_ram \in [Ways -> [0 .. Sets - 1 ->
                      [v : BOOLEAN, d : BOOLEAN, t : Tags \cup UncachedTags \cup {None}]]]
    /\ data_ram \in [Ways -> [RamWords -> Contents \cup {None}]]
    /\ data_write_addr_q \in RamWords /\ flush_addr_q \in 0 .. Sets - 1
    /\ pmem_len_q \in 0 .. 255 /\ replace_way_q \in Ways
    /\ pending_q \in 0 .. 1 /\ resp_count \in 0 .. 1 /\ Len(req_fifo) <= 1
    /\ pending_q = 1 <=> owed # None
    /\ {flushing_q, flush_last_q, error_q, pmem_rd_q, pmem_wr0_q, pmem_wr_q,
        cache_access_q, select_q, request_pending_q, dropped_q, failed} \subseteq BOOLEAN

(* Caches are invisible: every access is answered once, a load with what   *)
(* was stored last, through misses, evictions, write backs, flushes and    *)
(* switches between cached and uncached accesses (FlatMemory).             *)
Flat == INSTANCE FlatMemory WITH
            shown <- IF ~MemAck THEN None
                     ELSE [done |-> owed.kind, data |-> IF owed.kind = "ld" THEN MemData ELSE None]
ImplementsFlat == Flat!Spec

(* When a flush or a write back is answered, everything stored before is   *)
(* in memory, where other masters look for it.                             *)
CacheOpsReachMemory ==
    MemAck /\ owed # None /\ cache_access_q =>
        \A a \in Addrs :
            (a.tag \in Tags /\ (owed.kind = "flush" \/ (owed.kind = "wb" /\ a.set = owed.addr.set
                                                      /\ a.tag = owed.addr.tag)))
            => mem[a] = flat[a]

(* Once nothing is owed any access, and so any cache operation, is accepted *)
(* in the cycle it is requested: the load/store unit relies on it for the   *)
(* latter (MemoryDrives of LsuPort).                                        *)
ReadyWhenIdle ==
    owed = None /\ state_q # "RESET" => \A q \in Requests : MemAccept(q)

(* The core and the bridge never use the memory port while a transfer of   *)
(* either waits for its answer: answers carry no identity, and select_q    *)
(* hands each to the one that is selected.                                 *)
PortInTurn == AwaitsAnswer => \A q \in Drives : PortBeat(q) = None

(* An answer reports an error exactly if a transfer made for its access    *)
(* failed: none is lost, and none is charged to a later access.            *)
ErrorIsOwn == MemAck => (MemError <=> failed)

(* When an invalidate is answered, no way holds the line it names: the     *)
(* comments of dcache_core.v say it is not valid, even if it was dirty.    *)
InvalidateDone ==
    MemAck /\ owed # None /\ cache_access_q /\ owed.kind = "inval" =>
        \A w \in Ways : LET e == tag_ram[w][owed.addr.set] IN ~(e.v /\ e.t = owed.addr.tag)

(* Every access is answered if the memory port serves its transfers.       *)
Answered == owed # None ~> MemAck

=============================================================================
