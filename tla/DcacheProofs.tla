----------------------------- MODULE DcacheProofs ----------------------------
(***************************************************************************)
(* Proofs of the safety properties of Dcache for every number of sets and  *)
(* words, every set of tags and every program of the load/store unit.      *)
(*                                                                         *)
(* Control says which of the core and the bridge has the memory port, how  *)
(* far its transfer is and what the state machine of dcache_core.v knows   *)
(* about it; it gives PortInTurn, ReadyWhenIdle and ErrorIsOwn.  Data says *)
(* where the contents of every word are.                                   *)
(***************************************************************************)
EXTENDS Dcache, SequenceTheorems, TLAPS

Cells   == Contents \cup {None}
Rows    == 0 .. Sets - 1
Columns == 0 .. LineWords - 1
Entries == [v : BOOLEAN, d : BOOLEAN, t : Tags \cup UncachedTags \cup {None}]

(* What the request buffer shows when it holds nothing. *)
Zero  == [set |-> 0, tag |-> 0, word |-> 0]
Idles == {NoReq(a) : a \in Addrs \cup {Zero}}

(* The last k words of a line. *)
Word(set, tag, i) == [set |-> set, tag |-> tag, word |-> i]
Rest(set, tag, k) == [i \in 1 .. k |-> Word(set, tag, LineWords - k + i - 1)]

(* The registers have their types; a word may still be anything.           *)
Types ==
    /\ state_q \in States
    /\ m \in Requests \cup Idles
    /\ tag_ram \in [Ways -> [Rows -> Entries]] /\ tag_o \in [Ways -> Entries]
    /\ data_ram \in [Ways -> [RamWords -> Cells]] /\ data_o \in [Ways -> Cells]
    /\ pmem_write_data_q \in Cells
    /\ data_write_addr_q \in RamWords /\ flush_addr_q \in Rows
    /\ pmem_len_q \in 0 .. 255 /\ replace_way_q \in Ways
    /\ {flushing_q, flush_last_q, error_q, pmem_rd_q, pmem_wr0_q, pmem_wr_q,
        cache_access_q, select_q, request_pending_q, dropped_q, failed} \subseteq BOOLEAN
    /\ mem \in [Addrs -> Cells] /\ flat \in [Addrs -> Contents]
    /\ op \in Ops \cup {None} /\ ans \in Answers \cup {None}

(* Which side owes the answer. *)
Cached   == owed # None /\ cache_access_q
Uncached == owed # None /\ ~cache_access_q
AnsError == ans # None /\ ans.error
PortIdle == op = None /\ ans = None

(* The load/store unit, the multiplexers and the request buffer of the     *)
(* core agree on the access that is under way and on its errors.           *)
Interface ==
    /\ owed \in Requests \cup {None}
    /\ pending_q = IF owed = None THEN 0 ELSE 1
    /\ owed # None => (cache_access_q <=> Cacheable(owed))
    /\ IF Cached THEN m = owed ELSE m \in Idles
    /\ failed <=> (error_q \/ AnsError)
    /\ error_q => Cached
    /\ ans # None => select_q = cache_access_q
    /\ ~dropped_q

Evicts == state_q \in {"EVICT", "EVICT_WAIT"}

(* The requests for which the state machine is in a state. *)
Kinds ==
    CASE state_q = "RESET"                    -> {"none"}
      [] state_q = "READ"                     -> {"ld"}
      [] state_q = "WRITE"                    -> {"st"}
      [] state_q = "REFILL"                   -> {"ld", "st"}
      [] state_q \in {"FLUSH_ADDR", "FLUSH"}  -> {"flush"}
      [] state_q = "INVALIDATE"               -> {"inval"}
      [] state_q = "WRITEBACK"                -> {"wb"}
      [] Evicts                               -> {"ld", "st", "wb", "flush"}
      [] OTHER                                -> {"none", "ld", "st", "inval", "wb", "flush"}

Machine ==
    /\ m.kind \in Kinds
    /\ flushing_q <=> (state_q \in {"FLUSH_ADDR", "FLUSH"} \/ (Evicts /\ m.kind = "flush"))
    /\ Evicts /\ m.kind # "wb" => EvictWay
    /\ Evicts => tag_o[replace_way_q].v
    /\ Evicts /\ m.kind = "wb" => Hit(replace_way_q)
    /\ pmem_rd_q => state_q = "REFILL"
    /\ pmem_wr_q => state_q = "EVICT"

(* States in which what is read of the tags is of the set that is at work. *)
LooksUp == \/ state_q \in {"FLUSH", "READ", "WRITE", "REFILL", "EVICT", "EVICT_WAIT", "WRITEBACK"}
           \/ state_q = "LOOKUP" /\ Access(m)
FreshTags == LooksUp => \A w \in Ways : tag_o[w] = tag_ram[w][EvictSet]

(* A valid tag is that of a line in the range of the cache, from the end   *)
(* of the reset on.                                                        *)
KnownLine(set, tag) == tag \in Tags /\ \A i \in Columns : Word(set, tag, i) \in Addrs
KnownLines ==
    \A w \in Ways, s \in Rows :
        IF state_q = "RESET"
        THEN flush_last_q \/ s < flush_addr_q => tag_ram[w][s] = Empty
        ELSE tag_ram[w][s].v => KnownLine(s, tag_ram[w][s].t)

(* The transfer on the memory port is that of the core in REFILL, EVICT    *)
(* and EVICT_WAIT, as far as pmem_len_q has counted, or that of the        *)
(* bridge, or there is none.                                               *)
BridgeIdle == req_fifo = <<>> /\ resp_count = 0 /\ ~request_pending_q

Reading(set, tag, left) ==
    [kind |-> "rd", at |-> Word(set, tag, 0), todo |-> Rest(set, tag, left)]
Writing(set, tag, left) ==
    [kind |-> "wr", at |-> Word(set, tag, 0), todo |-> Rest(set, tag, left)]

Refilling ==
    IF pmem_rd_q THEN PortIdle
    ELSE LET left == pmem_len_q + 1 - (IF ans = None THEN 0 ELSE 1)
         IN /\ pmem_len_q < LineWords
            /\ op = IF left = 0 THEN None ELSE Reading(m.addr.set, m.addr.tag, left)
Evicting ==
    /\ ans = None
    /\ pmem_len_q < LineWords
    /\ op = IF pmem_len_q = LineWords - 1 THEN None
            ELSE Writing(EvictSet, tag_o[replace_way_q].t, pmem_len_q + 1)
Evicted ==
    op = IF ans # None THEN None ELSE Writing(EvictSet, tag_o[replace_way_q].t, 0)

Single == IF owed.kind = "ld" THEN [kind |-> "rd", at |-> owed.addr, todo |-> <<owed.addr>>]
          ELSE [kind |-> "wr", at |-> owed.addr, todo |-> <<>>]
Bridging ==
    /\ resp_count = 1
    /\ \/ req_fifo = <<owed>> /\ ~request_pending_q /\ PortIdle
       \/ /\ req_fifo = <<>> /\ request_pending_q
          /\ op = IF ans # None THEN None ELSE Single

Transfers ==
    IF Uncached THEN Bridging
    ELSE /\ BridgeIdle
         /\ CASE state_q = "REFILL"     -> Refilling
              [] state_q = "EVICT"      -> Evicting
              [] state_q = "EVICT_WAIT" -> Evicted
              [] OTHER                  -> PortIdle

Control == Types /\ Interface /\ Machine /\ FreshTags /\ KnownLines /\ Transfers

-----------------------------------------------------------------------------
(* Operators. *)

(* The last words of a line, as a queue. *)
LEMMA RestSeq ==
    ASSUME NEW set, NEW tag, KnownLine(set, tag), NEW k \in 0 .. LineWords
    PROVE  /\ Rest(set, tag, k) \in Seq(Addrs) /\ Len(Rest(set, tag, k)) = k
           /\ k # 0 => /\ Rest(set, tag, k) # <<>>
                       /\ Head(Rest(set, tag, k)) = Word(set, tag, LineWords - k)
                       /\ Tail(Rest(set, tag, k)) = Rest(set, tag, k - 1)
           /\ Rest(set, tag, 0) = <<>>
<1>0. LineWords \in Int /\ k \in Int
  BY DcacheAssumption, SMT
<1>1. ASSUME NEW n \in 0 .. LineWords
      PROVE  /\ Rest(set, tag, n) \in Seq(Addrs) /\ Len(Rest(set, tag, n)) = n
             /\ \A i \in 1 .. n : Rest(set, tag, n)[i] = Word(set, tag, LineWords - n + i - 1)
  <2>1. \A i \in 1 .. n : Word(set, tag, LineWords - n + i - 1) \in Addrs
    BY <1>0, SMT DEF KnownLine, Columns
  <2>2. Rest(set, tag, n) \in [1 .. n -> Addrs]
    BY <2>1 DEF Rest
  <2>3. n \in Nat
    BY <1>0, SMT
  <2>4. Rest(set, tag, n) \in Seq(Addrs) /\ Len(Rest(set, tag, n)) = n
    BY <2>2, <2>3, SMT
  <2>. QED
    BY <2>4, Zenon DEF Rest
<1>2. Rest(set, tag, 0) = <<>>
  BY <1>0, <1>1, EmptySeq, SMT
<1>3. ASSUME k # 0
      PROVE  /\ Rest(set, tag, k) # <<>>
             /\ Head(Rest(set, tag, k)) = Word(set, tag, LineWords - k)
             /\ Tail(Rest(set, tag, k)) = Rest(set, tag, k - 1)
  <2>1. Rest(set, tag, k) # <<>>
    BY <1>1, <1>3, EmptySeq, SMT
  <2>2. Head(Rest(set, tag, k)) = Word(set, tag, LineWords - k)
    <3>1. Head(Rest(set, tag, k)) = Rest(set, tag, k)[1]
      BY SMT
    <3>2. Rest(set, tag, k)[1] = Word(set, tag, LineWords - k + 1 - 1)
      BY <1>1, <1>3, <1>0, SMT
    <3>3. LineWords - k + 1 - 1 = LineWords - k
      BY <1>0, SMT
    <3>. QED
      BY <3>1, <3>2, <3>3
  <2>3. Tail(Rest(set, tag, k)) = Rest(set, tag, k - 1)
    <3>1. /\ Tail(Rest(set, tag, k)) \in Seq(Addrs)
          /\ Len(Tail(Rest(set, tag, k))) = k - 1
          /\ \A i \in 1 .. k - 1 : Tail(Rest(set, tag, k))[i] = Rest(set, tag, k)[i + 1]
      BY <1>1, <2>1, HeadTailProperties
    <3>2. k - 1 \in 0 .. LineWords
      BY <1>3, <1>0, SMT
    <3>3. /\ Rest(set, tag, k - 1) \in Seq(Addrs) /\ Len(Rest(set, tag, k - 1)) = k - 1
          /\ \A i \in 1 .. k - 1 :
                Rest(set, tag, k - 1)[i] = Word(set, tag, LineWords - (k - 1) + i - 1)
      BY <3>2, <1>1
    <3>4. \A i \in 1 .. k - 1 : Rest(set, tag, k)[i + 1] = Rest(set, tag, k - 1)[i]
      <4>1. TAKE i \in 1 .. k - 1
      <4>2. i + 1 \in 1 .. k /\ LineWords - k + (i + 1) - 1 = LineWords - (k - 1) + i - 1
        BY <1>0, SMT
      <4>. QED
        BY <4>2, <1>1, <3>3
    <3>. QED
      BY <3>1, <3>3, <3>4, SeqEqual
  <2>. QED
    BY <2>1, <2>2, <2>3
<1>. QED
  BY <1>1, <1>2, <1>3

(* A burst is for a whole line. *)
LEMMA LineIsRest ==
    ASSUME NEW set, NEW tag PROVE Line(set, tag) = Rest(set, tag, LineWords)
<1>1. LineWords \in Int /\ \A i \in 1 .. LineWords : LineWords - LineWords + i - 1 = i - 1
  BY DcacheAssumption, SMT
<1>. QED
  BY <1>1 DEF Line, Rest, Word

(* Every word of a way has its place in the RAM. *)
LEMMA Places ==
    ASSUME NEW s \in Rows, NEW i \in Columns
    PROVE  /\ Base(s) \in RamWords /\ Base(s) + i \in RamWords
           /\ Base(s) \in Int
<1>0. Sets \in Nat /\ LineWords \in Nat /\ s \in Int /\ i \in Int /\ Sets >= 2 /\ LineWords >= 2
  BY DcacheAssumption, SMT DEF Rows, Columns
<1>1. s * LineWords \in Int /\ s * LineWords >= 0
  BY <1>0, SMT DEF Rows
<1>2. s * LineWords <= (Sets - 1) * LineWords
  BY <1>0, SMT DEF Rows
<1>3. (Sets - 1) * LineWords = Sets * LineWords - LineWords
  BY <1>0, SMT
<1>. QED
  BY <1>0, <1>1, <1>2, <1>3, SMT DEF Base, RamWords, Columns

(* Words of different addresses with different sets or words have          *)
(* different places.                                                       *)
LEMMA PlacesDiffer ==
    ASSUME NEW s \in Rows, NEW i \in Columns, NEW r \in Rows, NEW j \in Columns,
           Base(s) + i = Base(r) + j
    PROVE  s = r /\ i = j
<1>0. LineWords \in Nat /\ s \in Int /\ i \in Int /\ r \in Int /\ j \in Int /\ LineWords >= 2
  BY DcacheAssumption, SMT DEF Rows, Columns
<1>1. (s - r) * LineWords = j - i
  BY <1>0, SMT DEF Base
<1>2. -LineWords < j - i /\ j - i < LineWords
  BY <1>0, SMT DEF Columns
<1>3. s - r = 0
  <2>1. CASE s - r >= 1
    <3>1. (s - r) * LineWords >= LineWords
      BY <2>1, <1>0, SMT
    <3>. QED
      BY <3>1, <1>1, <1>2, <1>0, SMT
  <2>2. CASE s - r <= -1
    <3>1. (s - r) * LineWords <= -LineWords
      BY <2>2, <1>0, SMT
    <3>. QED
      BY <3>1, <1>1, <1>2, <1>0, SMT
  <2>. QED
    BY <2>1, <2>2, <1>0, SMT
<1>. QED
  BY <1>0, <1>1, <1>3, SMT

-----------------------------------------------------------------------------
(* The memory port. *)

Bursts1 == [kind : {"rd", "wr"}, burst : Seq(Addrs) \ {<<>>}, data : Cells]

(* What is told apart from None is not None. *)
LEMMA NotNone ==
    /\ \A r \in Requests : r # None
    /\ \A o \in Ops : o # None
    /\ \A x \in Answers : x # None
    /\ \A b \in Bursts1 : b # None
  BY NoneAssumption DEF Bursts1, Cells

(* A request has a kind and an address in range. *)
LEMMA RequestType ==
    ASSUME NEW r \in Requests
    PROVE  /\ r # None /\ r.kind \in {"ld", "st", "inval", "wb", "flush"}
           /\ r.addr \in Addrs /\ r.val \in Cells
           /\ r.kind = "st" => r.val \in Contents
           /\ r.addr.set \in Rows /\ r.addr.tag \in Tags \cup UncachedTags
           /\ r.addr.word \in Columns
<1>1. r \in [kind : {"ld", "st", "inval", "wb", "flush"}, addr : Addrs, val : Cells]
  BY DcacheAssumption, Zenon DEF Cells
<1>2. r.addr \in [set : Rows, tag : Tags \cup UncachedTags, word : Columns]
  BY <1>1, DcacheAssumption, Zenon DEF Rows, Columns
<1>3. r # None
  BY NotNone
<1>4. r.kind = "st" => r.val \in Contents
  BY DcacheAssumption, Zenon
<1>. QED
  BY <1>1, <1>2, <1>3, <1>4

(* So have the request buffer and the bus when there is none. *)
LEMMA IdleType ==
    ASSUME NEW r \in Idles
    PROVE  /\ r.kind = "none" /\ r.val = None
           /\ r.addr.set \in Rows /\ r.addr.tag \in Tags \cup UncachedTags
           /\ r.addr.word \in Columns
<1>1. PICK a \in Addrs \cup {Zero} : r = NoReq(a)
  BY DEF Idles
<1>2. a \in [set : Rows, tag : Tags \cup UncachedTags, word : Columns]
  <2>1. CASE a \in Addrs
    BY <2>1, DcacheAssumption, Zenon DEF Rows, Columns
  <2>2. CASE a = Zero
    <3>1. 0 \in Rows /\ 0 \in Columns /\ 0 \in Tags
      BY DcacheAssumption, SMT DEF Rows, Columns
    <3>. QED
      BY <2>2, <3>1 DEF Zero
  <2>. QED
    BY <1>1, <2>1, <2>2
<1>. QED
  BY <1>1, <1>2 DEF NoReq

(* The port keeps its types when it is asked for a burst of the range. *)
LEMMA PortTypes ==
    ASSUME mem \in [Addrs -> Cells], op \in Ops \cup {None}, ans \in Answers \cup {None},
           op # None /\ op.kind = "rd" => op.todo # <<>>,
           NEW beat \in Bursts1 \cup {None}, NEW reply \in BOOLEAN, Serve(beat, reply)
    PROVE  /\ mem' \in [Addrs -> Cells]
           /\ op' \in Ops \cup {None} /\ ans' \in Answers \cup {None}
<1>1. ASSUME op # None
      PROVE  /\ op.kind \in {"rd", "wr"} /\ op.at \in Addrs /\ op.todo \in Seq(Addrs)
             /\ op.todo # <<>> => Head(op.todo) \in Addrs /\ Tail(op.todo) \in Seq(Addrs)
             /\ op \in Ops
  <2>1. op.kind \in {"rd", "wr"} /\ op.at \in Addrs /\ op.todo \in Seq(Addrs) /\ op \in Ops
    BY <1>1 DEF Ops
  <2>. QED
    BY <2>1, HeadTailProperties
<1>2. ASSUME beat # None
      PROVE  /\ beat.kind \in {"rd", "wr"} /\ beat.burst \in Seq(Addrs) /\ beat.data \in Cells
             /\ Head(beat.burst) \in Addrs /\ Tail(beat.burst) \in Seq(Addrs)
  <2>1. /\ beat.kind \in {"rd", "wr"} /\ beat.burst \in Seq(Addrs) /\ beat.data \in Cells
        /\ beat.burst # <<>>
    BY <1>2 DEF Bursts1
  <2>. QED
    BY <2>1, HeadTailProperties
<1>3. CASE reply /\ AwaitsAnswer
  <2>1. Answer
    BY <1>3 DEF Serve
  <2>2. PICK error \in BOOLEAN :
           ans' = IF op.kind = "wr" THEN [data |-> None, error |-> error]
                  ELSE [data |-> mem[Head(op.todo)], error |-> error]
    BY <2>1 DEF Answer
  <2>3. op # None
    BY <1>3 DEF AwaitsAnswer
  <2>4. ans' \in Answers
    BY <1>1, <2>2, <2>3 DEF Answers, Cells
  <2>5. op' \in Ops \cup {None}
    <3>1. op' = None \/ (op.kind = "rd" /\ op' = [op EXCEPT !.todo = Tail(@)])
      BY <2>1 DEF Answer
    <3>. QED
      BY <3>1, <2>3, <1>1 DEF Ops
  <2>. QED
    BY <2>1, <2>4, <2>5 DEF Answer
<1>4. CASE ~(reply /\ AwaitsAnswer)
  <2>1. Take(beat) /\ ans' = None
    BY <1>4 DEF Serve
  <2>2. CASE beat = None
    BY <2>1, <2>2 DEF Take
  <2>3. CASE beat # None /\ AwaitsData
    <3>1. PutWord(op.at, op.todo, beat.data)
      BY <2>1, <2>3 DEF Take, AwaitsData
    <3>. QED
      BY <2>1, <2>3, <3>1, <1>1, <1>2 DEF PutWord, AwaitsData, Ops
  <2>4. CASE beat # None /\ op = None
    <3>1. \/ PutWord(Head(beat.burst), beat.burst, beat.data)
          \/ /\ op' = [kind |-> "rd", at |-> Head(beat.burst), todo |-> beat.burst]
             /\ UNCHANGED mem
      BY <2>1, <2>4 DEF Take, AwaitsData
    <3>. QED
      BY <2>1, <2>4, <3>1, <1>2, SMTT(30) DEF PutWord, Ops
  <2>. QED
    BY <2>1, <2>2, <2>3, <2>4 DEF Take
<1>. QED
  BY <1>3, <1>4

(* Nothing happens on a port that is idle and is asked nothing. *)
LEMMA PortQuiet ==
    ASSUME op = None, NEW reply, Serve(None, reply)
    PROVE  op' = None /\ ans' = None /\ mem' = mem
  BY DEF Serve, AwaitsAnswer, AwaitsData, Take

(* A port that owes an answer gives it or not, if nothing more is asked.   *)
LEMMA PortAnswers ==
    ASSUME mem \in [Addrs -> Cells], op \in Ops, op.kind = "rd" => op.todo # <<>>,
           op.kind = "wr" => op.todo = <<>>,
           NEW reply, Serve(None, reply)
    PROVE  /\ mem' = mem
           /\ \/ ans' = None /\ op' = op
              \/ /\ ans' # None
                 /\ op.kind = "rd" => ans'.data = mem[Head(op.todo)]
                 /\ op' = IF op.kind = "rd" /\ Len(op.todo) > 1
                          THEN [op EXCEPT !.todo = Tail(@)] ELSE None
<1>1. op # None /\ op.kind \in {"rd", "wr"} /\ op.todo \in Seq(Addrs)
  BY NotNone DEF Ops
<1>2. AwaitsAnswer
  BY <1>1 DEF AwaitsAnswer, AwaitsData
<1>3. CASE reply
  <2>1. Answer
    BY <1>2, <1>3 DEF Serve
  <2>2. PICK error \in BOOLEAN :
           ans' = IF op.kind = "wr" THEN [data |-> None, error |-> error]
                  ELSE [data |-> mem[Head(op.todo)], error |-> error]
    BY <2>1 DEF Answer
  <2>3. op.kind = "rd" => Head(op.todo) \in Addrs
    BY <1>1, HeadTailProperties
  <2>4. ans' \in Answers
    BY <2>2, <2>3, <1>1 DEF Answers, Cells
  <2>5. ans' # None
    BY <2>4, NotNone
  <2>6. op.kind = "rd" => ans'.data = mem[Head(op.todo)]
    BY <2>2
  <2>. QED
    BY <2>1, <2>5, <2>6, Zenon DEF Answer
<1>4. CASE ~reply
  BY <1>4 DEF Serve, Take
<1>. QED
  BY <1>3, <1>4

(* A write that is not complete gives no answer; a word may be taken.      *)
LEMMA PortWrites ==
    ASSUME op = None \/ AwaitsData, NEW beat, beat # None, beat.kind = "wr",
           NEW reply, Serve(beat, reply)
    PROVE  /\ ans' = None
           /\ IF op = None THEN PutWord(Head(beat.burst), beat.burst, beat.data)
              ELSE PutWord(op.at, op.todo, beat.data)
<1>1. Take(beat) /\ ans' = None
  BY DEF Serve, AwaitsAnswer, AwaitsData
<1>. QED
  BY <1>1 DEF Take, AwaitsData

(* Nor does it change when it is not. *)
LEMMA PortWaits ==
    ASSUME op = None \/ AwaitsData, NEW reply, Serve(None, reply)
    PROVE  mem' = mem /\ op' = op /\ ans' = None
  BY DEF Serve, AwaitsAnswer, AwaitsData, Take

(* A read of a burst begins. *)
LEMMA PortReads ==
    ASSUME op = None, NEW beat, beat # None, beat.kind = "rd", NEW reply, Serve(beat, reply)
    PROVE  /\ mem' = mem /\ ans' = None
           /\ op' = [kind |-> "rd", at |-> Head(beat.burst), todo |-> beat.burst]
  BY DEF Serve, AwaitsAnswer, AwaitsData, Take

-----------------------------------------------------------------------------
(* The registers of dcache_core.v keep their types. *)

(* The set and the word of whatever is at the core are in range. *)
LEMMA AddressType ==
    ASSUME NEW c \in Requests \cup Idles
    PROVE  /\ c.addr.set \in Rows /\ c.addr.word \in Columns
           /\ c.addr.tag \in Tags \cup UncachedTags
           /\ Index(c.addr) \in RamWords /\ Base(c.addr.set) \in RamWords
           /\ c.kind \in {"none", "ld", "st", "inval", "wb", "flush"} /\ c.val \in Cells
<1>1. /\ c.addr.set \in Rows /\ c.addr.word \in Columns
      /\ c.addr.tag \in Tags \cup UncachedTags
      /\ c.kind \in {"none", "ld", "st", "inval", "wb", "flush"} /\ c.val \in Cells
  BY RequestType, IdleType DEF Cells
<1>2. Base(c.addr.set) + c.addr.word \in RamWords /\ Base(c.addr.set) \in RamWords
  BY <1>1, Places
<1>. QED
  BY <1>1, <1>2 DEF Index, Base

(* The state machine stays in its states. *)
LEMMA StateType ==
    ASSUME state_q \in States, NEW c, NEW acc
    PROVE  NextState(c, acc) \in States
  BY DEF NextState, States

(* The tag RAM keeps its type, and shows the entry that is in it after     *)
(* the write.                                                              *)
LEMMA TagTypes ==
    ASSUME Types, NEW c \in Requests \cup Idles, NEW next, TagRam(c, next)
    PROVE  /\ tag_ram' \in [Ways -> [Rows -> Entries]] /\ tag_o' \in [Ways -> Entries]
           /\ \A w \in Ways : tag_o'[w] = tag_ram'[w][TagReadSet(c, next)]
<1>1. m.addr.set \in Rows /\ c.addr.set \in Rows /\ flush_addr_q \in Rows
  BY AddressType DEF Types
<1>2. TagWriteSet \in Rows /\ TagReadSet(c, next) \in Rows
  BY <1>1 DEF TagWriteSet, TagReadSet
<1>3. TagIn \in Entries
  <2>1. (state_q # "INVALIDATE") \in BOOLEAN /\ (state_q \in {"LOOKUP", "WRITE"}) \in BOOLEAN
    OBVIOUS
  <2>. QED
    BY <2>1, AddressType DEF TagIn, Entries, Empty, Types
<1>. DEFINE new == [w \in Ways |-> IF TagWrites(w) THEN [tag_ram[w] EXCEPT ![TagWriteSet] = TagIn]
                                   ELSE tag_ram[w]]
<1>4. tag_ram' = new /\ tag_o' = [w \in Ways |-> new[w][TagReadSet(c, next)]]
  BY DEF TagRam
<1>5. new \in [Ways -> [Rows -> Entries]]
  BY <1>2, <1>3 DEF Types
<1>. HIDE DEF new
<1>. QED
  BY <1>2, <1>4, <1>5

(* The data RAM, what is read of it and the write address keep their types. *)
LEMMA DataTypes ==
    ASSUME Types, NEW c \in Requests \cup Idles, NEW acc, NEW x,
           DataRam(c, NextState(c, x), acc)
    PROVE  /\ data_ram' \in [Ways -> [RamWords -> Cells]] /\ data_o' \in [Ways -> Cells]
           /\ data_write_addr_q' \in RamWords
<1>. DEFINE next == NextState(c, x)
<1>1. /\ Index(m.addr) \in RamWords /\ Base(m.addr.set) \in RamWords
      /\ Index(c.addr) \in RamWords /\ m.val \in Cells /\ m.addr.set \in Rows
  BY AddressType DEF Types
<1>2. Base(flush_addr_q) \in RamWords
  <2>1. 0 \in Columns
    BY DcacheAssumption, SMT DEF Columns
  <2>. QED
    BY <2>1, Places DEF Types
<1>3. DataReadIndex(c, next) \in RamWords /\ DataWriteIndex(c, next) \in RamWords
  BY <1>1, <1>2 DEF DataReadIndex, DataWriteIndex, Types
<1>4. DataIn \in Cells \/ \A w \in Ways : ~DataWrites(w)
  <2>1. PmemAck => ans.data \in Cells
    BY DEF PmemAck, Types, Answers, Cells
  <2>. QED
    BY <1>1, <2>1 DEF DataIn, DataWrites
<1>5. data_write_addr_q' \in RamWords
  <2>0. Sets * LineWords \in Nat /\ Sets * LineWords > 0
    <3>1. Sets \in Nat /\ LineWords \in Nat /\ Sets >= 2 /\ LineWords >= 2
      BY DcacheAssumption, SMT
    <3>. QED
      BY <3>1, SMT
  <2>1. (data_write_addr_q + 1) % (Sets * LineWords) \in RamWords
    <3>. DEFINE size == Sets * LineWords
    <3>1. size \in Nat /\ size > 0
      BY <2>0
    <3>2. data_write_addr_q \in Nat
      BY <2>0, SMT DEF Types, RamWords
    <3>. HIDE DEF size
    <3>3. (data_write_addr_q + 1) % size \in 0 .. size - 1
      BY <3>1, <3>2, SMT
    <3>. QED
      BY <3>3 DEF size, RamWords
  <2>2. ASSUME Entering("EVICT", next) PROVE DataWriteIndex(c, next) + 1 \in RamWords
    <3>1. state_q \in {"LOOKUP", "FLUSH", "WRITEBACK"}
      BY <2>2 DEF Entering, NextState, Types, States
    <3>2. DataWriteIndex(c, next) \in {Base(flush_addr_q), Base(m.addr.set)}
      BY <2>2, <3>1 DEF DataWriteIndex, DataReadIndex
    <3>3. 1 \in Columns
      BY DcacheAssumption, SMT DEF Columns
    <3>. QED
      BY <3>2, <3>3, <1>1, Places DEF Types
  <2>. QED
    BY <1>1, <2>1, <2>2 DEF DataRam, Types
<1>6. data_ram' \in [Ways -> [RamWords -> Cells]]
  <2>1. data_ram' = [w \in Ways |->
            IF DataWrites(w) THEN [data_ram[w] EXCEPT ![DataWriteIndex(c, next)] = DataIn]
            ELSE data_ram[w]]
    BY DEF DataRam
  <2>. QED
    BY <2>1, <1>3, <1>4, Zenon DEF Types
<1>7. data_o' \in [Ways -> Cells]
  <2>1. data_o' = [w \in Ways |-> data_ram[w][DataReadIndex(c, next)]]
    BY DEF DataRam
  <2>. QED
    BY <2>1, <1>3 DEF Types
<1>. QED
  BY <1>5, <1>6, <1>7

(* What the core puts on the port, provided that it reads and writes back  *)
(* lines of its range only.                                                *)
LEMMA CoreBeatType ==
    ASSUME Types, NEW next,
           CoreReads(next) => KnownLine(m.addr.set, m.addr.tag),
           CoreWrites => KnownLine(EvictSet, tag_o[replace_way_q].t)
    PROVE  CoreBeat(next) \in Bursts1 \cup {None}
<1>1. ASSUME NEW s, NEW t, KnownLine(s, t) PROVE Line(s, t) \in Seq(Addrs) \ {<<>>}
  <2>1. LineWords \in 0 .. LineWords /\ LineWords # 0
    BY DcacheAssumption, SMT
  <2>. QED
    BY <1>1, <2>1, RestSeq, LineIsRest
<1>2. data_o[replace_way_q] \in Cells /\ pmem_write_data_q \in Cells /\ None \in Cells
  BY DEF Types, Cells
<1>. QED
  BY <1>1, <1>2 DEF CoreBeat, Bursts1

(* A cycle of dcache_core.v. *)
LEMMA CoreTypes ==
    ASSUME Types, NEW c \in Requests \cup Idles, NEW acc \in BOOLEAN, Core(c, acc)
    PROVE  /\ state_q' \in States /\ m' \in Requests \cup Idles
           /\ tag_ram' \in [Ways -> [Rows -> Entries]] /\ tag_o' \in [Ways -> Entries]
           /\ data_ram' \in [Ways -> [RamWords -> Cells]] /\ data_o' \in [Ways -> Cells]
           /\ pmem_write_data_q' \in Cells
           /\ data_write_addr_q' \in RamWords /\ flush_addr_q' \in Rows
           /\ pmem_len_q' \in 0 .. 255 /\ replace_way_q' \in Ways
           /\ {flushing_q', flush_last_q', error_q', pmem_rd_q', pmem_wr0_q', pmem_wr_q'}
                  \subseteq BOOLEAN
<1>. DEFINE next == NextState(c, acc)
<1>0. /\ state_q' = next /\ RequestBuffer(c) /\ TagRam(c, next) /\ DataRam(c, next, acc)
      /\ FlushCounter(next) /\ Replacement(next) /\ MemoryRequest(next, acc)
  BY DEF Core
<1>1. state_q' \in States
  BY <1>0, StateType DEF Types
<1>2. m' \in Requests \cup Idles
  BY <1>0 DEF RequestBuffer, Idles, Zero, Types
<1>3. /\ tag_ram' \in [Ways -> [Rows -> Entries]] /\ tag_o' \in [Ways -> Entries]
      /\ data_ram' \in [Ways -> [RamWords -> Cells]] /\ data_o' \in [Ways -> Cells]
      /\ data_write_addr_q' \in RamWords
  BY <1>0, TagTypes, DataTypes
<1>. HIDE DEF next
<1>4. pmem_write_data_q' \in Cells
  BY <1>0 DEF MemoryRequest, CoreBeat, CoreWrites, Types, Cells
<1>5. flush_addr_q' \in Rows
  <2>1. Sets \in Nat /\ Sets > 0
    BY DcacheAssumption, SMT
  <2>2. flush_addr_q \in Rows
    BY DEF Types
  <2>3. (flush_addr_q + 1) % Sets \in Rows /\ 0 \in Rows
    BY <2>1, <2>2, SMT DEF Rows
  <2>. QED
    BY <1>0, <2>2, <2>3, Zenon DEF FlushCounter
<1>6. pmem_len_q' \in 0 .. 255
  <2>1. LineWords - 1 \in 0 .. 255
    BY DcacheAssumption, SMT
  <2>2. pmem_len_q \in 0 .. 255
    BY DEF Types
  <2>3. (pmem_len_q - 1) % 256 \in 0 .. 255
    BY <2>2, SMT
  <2>. QED
    BY <1>0, <2>1, <2>2, <2>3, Zenon DEF MemoryRequest
<1>7. replace_way_q' \in Ways
  <2>1. replace_way_q \in Ways /\ 1 - replace_way_q \in Ways /\ 0 \in Ways /\ 1 \in Ways
    BY SMT DEF Types, Ways
  <2>. QED
    BY <1>0, <2>1, Zenon DEF Replacement
<1>8. {flushing_q', flush_last_q', error_q', pmem_rd_q', pmem_wr0_q', pmem_wr_q'}
          \subseteq BOOLEAN
  BY <1>0, Zenon DEF MemoryRequest, FlushCounter, Types
<1>. QED
  BY <1>1, <1>2, <1>3, <1>4, <1>5, <1>6, <1>7, <1>8

-----------------------------------------------------------------------------
(* The cycles of dcache.v: the core waits for its transfer, the bridge     *)
(* does, or nothing is owed after the cycle but what is accepted in it.    *)

CoreTurn(a, acc, reply) ==
    /\ Core(NoReq(a), acc)
    /\ Serve(IF acc THEN CoreBeat(NextState(NoReq(a), TRUE)) ELSE None, reply)
    /\ failed' = ((ans' # None /\ ans'.error) \/ failed)
    /\ select_q' = TRUE
    /\ UNCHANGED <<pending_q, cache_access_q, owed, flat, bridgeVars>>

BridgeTurn(a, acc, reply) ==
    /\ Core(NoReq(a), FALSE)
    /\ Bridge(NoReq(a), acc)
    /\ Serve(IF acc THEN BridgeBeat ELSE None, reply)
    /\ failed' = ((ans' # None /\ ans'.error) \/ failed)
    /\ select_q' = FALSE
    /\ UNCHANGED <<pending_q, cache_access_q, owed, flat>>

FreeTurn(q, c, x) ==
    /\ Core(c, x)
    /\ op' = None /\ ans' = None /\ mem' = mem /\ failed' = FALSE
    /\ pending_q' = (IF Accepted(q) THEN 1 ELSE 0)
    /\ cache_access_q' = IF Accepted(q) THEN Cacheable(q) ELSE cache_access_q
    /\ owed' = IF Accepted(q) THEN q ELSE None
    /\ flat' = IF Accepted(q) /\ q.kind = "st" THEN [flat EXCEPT ![q.addr] = q.val] ELSE flat
    /\ req_fifo' = (IF Accepted(q) /\ ~Cacheable(q) THEN <<q>> ELSE <<>>)
    /\ resp_count' = (IF Accepted(q) /\ ~Cacheable(q) THEN 1 ELSE 0)
    /\ request_pending_q' = FALSE /\ dropped_q' = FALSE /\ select_q' \in BOOLEAN

(* What the load/store unit drives while it waits requests nothing. *)
LEMMA DrivesType ==
    ASSUME NEW q \in Drives
    PROVE  /\ q \in Requests \cup Idles /\ q.addr \in Addrs
           /\ q.kind # "none" => q \in Requests /\ (owed = None \/ MemAck)
           /\ q.kind = "none" => q = NoReq(q.addr)
<1>1. q \in Idle \/ (q \in Requests /\ (owed = None \/ MemAck))
  BY DEF Drives
<1>2. CASE q \in Idle
  <2>1. PICK a \in IdleAddrs : q = NoReq(a)
    BY <1>2 DEF Idle
  <2>2. a \in Addrs /\ q.addr = a /\ q.kind = "none"
    BY <2>1, DcacheAssumption, Zenon DEF NoReq
  <2>. QED
    BY <2>1, <2>2 DEF Idles
<1>3. CASE q \in Requests /\ (owed = None \/ MemAck)
  BY <1>3, RequestType
<1>. QED
  BY <1>1, <1>2, <1>3

(* An access that waits is on one side. *)
LEMMA Sides ==
    ASSUME Types, Interface
    PROVE  /\ Cached => m = owed /\ pending_q = 1 /\ m \in Requests /\ m.kind # "none"
                        /\ cache_access_q = TRUE /\ Cacheable(m)
           /\ Uncached => m \in Idles /\ pending_q = 1 /\ cache_access_q = FALSE
                          /\ ~Cacheable(owed) /\ owed \in Requests
           /\ ~Cached => m \in Idles /\ m.kind = "none" /\ ~error_q
           /\ owed = None => pending_q = 0
           /\ owed # None => pending_q # 0
<1>1. cache_access_q \in BOOLEAN
  BY DEF Types
<1>. QED
  BY <1>1, RequestType, IdleType DEF Interface, Cached, Uncached

(* The bridge does nothing when it has nothing to do. *)
LEMMA BridgeRests ==
    ASSUME BridgeIdle, ~dropped_q, NEW c, c.kind = "none", NEW acc, Bridge(c, acc)
    PROVE  BridgeBeat = None /\ BridgeIdle' /\ dropped_q' = FALSE
<1>1. ~BridgeIssues /\ ~BridgeDrops /\ BridgeBeat = None
  BY DEF BridgeIssues, BridgeIdle, BridgeDrops, BridgeBeat
<1>2. req_fifo' = <<>> \o <<>> /\ resp_count' = 0 + 0 - 0 /\ ~request_pending_q'
      /\ dropped_q' = FALSE
  <2>1. resp_count = 0 /\ req_fifo = <<>> /\ ~request_pending_q /\ ~(resp_count > 0)
    BY SMT DEF BridgeIdle
  <2>2. ~request_pending_q'
    BY <1>1, <2>1, Zenon DEF Bridge, RequestPending
  <2>3. dropped_q' = FALSE
    BY <1>1 DEF Bridge
  <2>. QED
    BY <1>1, <2>1, <2>2, <2>3 DEF Bridge
<1>3. <<>> \o <<>> = <<>>
  BY EmptySeq, ConcatEmptySeq
<1>. QED
  BY <1>1, <1>2, <1>3, SMT DEF BridgeIdle

(* A cycle in which the core has not answered yet. *)
LEMMA CoreWaits ==
    ASSUME Control, NEW q \in Drives, NEW acc \in BOOLEAN, NEW reply \in BOOLEAN,
           Cycle(q, acc, reply), Cached, ~CoreAck
    PROVE  CoreTurn(q.addr, acc, reply)
<1>1. /\ owed # None /\ pending_q = 1 /\ cache_access_q = TRUE /\ ~MemAck
      /\ BridgeIdle /\ ~dropped_q
  BY Sides DEF Control, MemAck, Cached, Uncached, Transfers, Interface
<1>2. q.kind = "none" /\ q = NoReq(q.addr)
  BY <1>1, DrivesType
<1>3. CachedReq(q) = NoReq(q.addr) /\ UncachedReq(q) = NoReq(q.addr)
  BY <1>2 DEF CachedReq, UncachedReq
<1>4. SelectCore(q) = TRUE
  BY <1>1 DEF SelectCore
<1>5. ~Accepted(q)
  BY <1>2 DEF Accepted
<1>6. Core(NoReq(q.addr), acc)
  <2>1. (acc /\ SelectCore(q)) = acc
    BY <1>4
  <2>. QED
    BY <1>3, <2>1 DEF Cycle
<1>7. Serve(IF acc THEN CoreBeat(NextState(NoReq(q.addr), TRUE)) ELSE None, reply)
  BY <1>3, <1>4 DEF Cycle, PortBeat
<1>8. UNCHANGED bridgeVars
  <2>1. NoReq(q.addr).kind = "none"
    BY DEF NoReq
  <2>2. Bridge(NoReq(q.addr), acc /\ ~SelectCore(q))
    BY <1>3 DEF Cycle
  <2>3. BridgeIdle' /\ dropped_q' = FALSE
    BY <1>1, <2>1, <2>2, BridgeRests
  <2>4. dropped_q = FALSE /\ request_pending_q = FALSE /\ request_pending_q' = FALSE
    <3>1. dropped_q \in BOOLEAN /\ request_pending_q \in BOOLEAN
      BY DEF Control, Types
    <3>2. request_pending_q' \in BOOLEAN
      BY <2>2, <3>1, Zenon DEF Bridge, RequestPending
    <3>. QED
      BY <1>1, <2>3, <3>1, <3>2 DEF BridgeIdle
  <2>. QED
    BY <1>1, <2>3, <2>4 DEF bridgeVars, BridgeIdle
<1>9. UNCHANGED <<pending_q, cache_access_q, owed, flat>> /\ select_q' = TRUE
  <2>1. pending_q' = 1 + 0 - 0
    BY <1>1, <1>5 DEF Cycle, Muxes
  <2>. QED
    BY <1>1, <1>4, <1>5, <2>1, SMT DEF Cycle, Muxes, Client
<1>10. failed' = ((ans' # None /\ ans'.error) \/ failed)
  BY <1>1 DEF Cycle, Client
<1>. QED
  BY <1>6, <1>7, <1>8, <1>9, <1>10 DEF CoreTurn

(* A cycle in which the bridge has not answered yet. *)
LEMMA BridgeWaits ==
    ASSUME Control, NEW q \in Drives, NEW acc \in BOOLEAN, NEW reply \in BOOLEAN,
           Cycle(q, acc, reply), Uncached, ans = None
    PROVE  BridgeTurn(q.addr, acc, reply)
<1>1. /\ owed # None /\ pending_q = 1 /\ cache_access_q = FALSE /\ ~MemAck
  BY Sides DEF Control, MemAck, BridgeAck, Uncached, Interface
<1>2. q.kind = "none" /\ q = NoReq(q.addr)
  BY <1>1, DrivesType
<1>3. CachedReq(q) = NoReq(q.addr) /\ UncachedReq(q) = NoReq(q.addr)
  BY <1>2 DEF CachedReq, UncachedReq
<1>4. SelectCore(q) = FALSE
  BY <1>1 DEF SelectCore
<1>5. ~Accepted(q)
  BY <1>2 DEF Accepted
<1>6. Core(NoReq(q.addr), FALSE)
  <2>1. (acc /\ SelectCore(q)) = FALSE
    BY <1>4
  <2>. QED
    BY <1>3, <2>1 DEF Cycle
<1>7. Serve(IF acc THEN BridgeBeat ELSE None, reply)
  BY <1>4 DEF Cycle, PortBeat
<1>8. Bridge(NoReq(q.addr), acc)
  <2>1. (acc /\ ~SelectCore(q)) = acc
    BY <1>4
  <2>. QED
    BY <1>3, <2>1 DEF Cycle
<1>9. UNCHANGED <<pending_q, cache_access_q, owed, flat>> /\ select_q' = FALSE
  <2>1. pending_q' = 1 + 0 - 0
    BY <1>1, <1>5 DEF Cycle, Muxes
  <2>. QED
    BY <1>1, <1>4, <1>5, <2>1, SMT DEF Cycle, Muxes, Client
<1>10. failed' = ((ans' # None /\ ans'.error) \/ failed)
  BY <1>1 DEF Cycle, Client
<1>. QED
  BY <1>6, <1>7, <1>8, <1>9, <1>10 DEF BridgeTurn

(* Nothing is under way when nothing is owed, or when it is answered. *)
LEMMA FreeFacts ==
    ASSUME Control, owed = None \/ MemAck
    PROVE  /\ op = None /\ req_fifo = <<>> /\ state_q \in {"RESET", "LOOKUP"}
           /\ ~Missed /\ ~CoreWrites /\ ~pmem_rd_q /\ ~pmem_wr_q
           /\ MemAck <=> owed # None
           /\ m.kind # "none" => CoreAck /\ Cached /\ state_q = "LOOKUP"
           /\ ~Cached => m \in Idles
           /\ resp_count = (IF BridgeAck THEN 1 ELSE 0) /\ (request_pending_q => BridgeAck)
           /\ ans # None => ~Cached /\ MemAck /\ BridgeAck /\ ~PmemAck
           /\ ans # None => state_q = "RESET" \/ m.kind = "none"
<1>. USE DEF Control
<1>1. CASE Cached
  <2>1. owed # None /\ CoreAck /\ state_q = "LOOKUP"
    BY <1>1, Sides DEF Cached, MemAck, CoreAck
  <2>2. BridgeIdle /\ PortIdle
    BY <1>1, <2>1 DEF Transfers, Cached, Uncached
  <2>3. ~pmem_rd_q /\ ~pmem_wr_q
    BY <2>1 DEF Machine
  <2>4. ~Missed /\ ~CoreWrites
    BY <2>1, <2>3 DEF CoreAck, Missed, CoreWrites, CacheOp, Access
  <2>5. ~BridgeAck
    BY <2>2 DEF PortIdle, BridgeAck, Interface
  <2>. QED
    BY <1>1, <2>1, <2>2, <2>3, <2>4, <2>5 DEF BridgeIdle, PortIdle
<1>2. CASE ~Cached
  <2>1. m \in Idles /\ m.kind = "none"
    BY <1>2, Sides
  <2>2. state_q \in {"RESET", "LOOKUP"}
    <3>1. m.kind \in Kinds
      BY DEF Machine
    <3>. QED
      BY <2>1, <3>1 DEF Kinds, Evicts, Types, States
  <2>3. ~pmem_rd_q /\ ~pmem_wr_q /\ ~Missed /\ ~CoreWrites
    BY <2>1, <2>2 DEF Machine, Missed, CoreWrites, Access
  <2>4. CASE owed = None
    <3>1. BridgeIdle /\ PortIdle
      BY <2>2, <2>4 DEF Transfers, Uncached
    <3>2. ~BridgeAck /\ ~CoreAck
      BY <2>1, <3>1 DEF PortIdle, BridgeAck, Interface, CoreAck, Access, CacheOp
    <3>3. ~MemAck
      BY <3>2 DEF MemAck
    <3>. QED
      BY <1>2, <2>1, <2>2, <2>3, <2>4, <3>1, <3>2, <3>3 DEF BridgeIdle, PortIdle
  <2>5. CASE owed # None
    <3>1. Uncached /\ BridgeAck /\ MemAck
      BY <1>2, <2>5, Sides DEF MemAck, Uncached, Cached
    <3>2. ans # None /\ ~select_q
      BY <3>1 DEF BridgeAck, Interface
    <3>3. op = None /\ req_fifo = <<>> /\ resp_count = 1
      BY <3>1, <3>2 DEF Transfers, Bridging, PortIdle
    <3>4. ~PmemAck
      BY <3>2 DEF PmemAck
    <3>. QED
      BY <1>2, <2>1, <2>2, <2>3, <2>5, <3>1, <3>2, <3>3, <3>4
  <2>. QED
    BY <2>4, <2>5
<1>. QED
  BY <1>1, <1>2

(* Then neither side wants the port. *)
LEMMA NoBeat ==
    ASSUME Control, owed = None \/ MemAck, NEW q
    PROVE  PortBeat(q) = None
<1>1. /\ req_fifo = <<>> /\ state_q \in {"RESET", "LOOKUP"}
      /\ ~Missed /\ ~CoreWrites /\ ~pmem_rd_q
  BY FreeFacts
<1>2. BridgeBeat = None
  BY <1>1 DEF BridgeBeat, BridgeIssues
<1>3. ASSUME NEW c PROVE CoreBeat(NextState(c, TRUE)) = None
  <2>1. NextState(c, TRUE) # "REFILL"
    BY <1>1 DEF NextState
  <2>. QED
    BY <1>1, <2>1 DEF CoreBeat, CoreReads, Entering
<1>. QED
  BY <1>2, <1>3 DEF PortBeat

(* Only a request is accepted, and only when nothing else waits. *)
LEMMA AcceptedType ==
    ASSUME NEW q \in Drives, Accepted(q)
    PROVE  q \in Requests /\ (owed = None \/ MemAck)
  BY DrivesType DEF Accepted

(* A cycle in which nothing is owed any more: the load/store unit may      *)
(* request the next access.                                                *)
LEMMA Frees ==
    ASSUME Control, NEW q \in Drives, NEW acc \in BOOLEAN, NEW reply \in BOOLEAN,
           Cycle(q, acc, reply), owed = None \/ MemAck
    PROVE  FreeTurn(q, CachedReq(q), acc /\ SelectCore(q))
<1>. USE FreeFacts
<1>1. Core(CachedReq(q), acc /\ SelectCore(q))
  BY DEF Cycle
<1>2. op' = None /\ ans' = None /\ mem' = mem
  <2>1. (IF acc THEN PortBeat(q) ELSE None) = None
    BY NoBeat
  <2>2. Serve(None, reply)
    BY <2>1 DEF Cycle
  <2>. QED
    BY <2>2, PortQuiet
<1>3. failed' = FALSE
  <2>1. failed => MemAck
    BY DEF Control, Interface, AnsError, Cached
  <2>2. failed' = ((ans' # None /\ ans'.error) \/ (failed /\ ~MemAck))
    BY DEF Cycle, Client
  <2>. QED
    BY <1>2, <2>1, <2>2
<1>4. pending_q' = (IF Accepted(q) THEN 1 ELSE 0)
  <2>1. pending_q = IF MemAck THEN 1 ELSE 0
    BY DEF Control, Interface
  <2>2. pending_q' = pending_q + (IF Accepted(q) THEN 1 ELSE 0) - (IF MemAck THEN 1 ELSE 0)
    BY DEF Cycle, Muxes
  <2>. QED
    BY <2>1, <2>2, SMT
<1>5. cache_access_q' = IF Accepted(q) THEN Cacheable(q) ELSE cache_access_q
  BY DEF Cycle, Muxes
<1>6. owed' = (IF Accepted(q) THEN q ELSE None)
  BY DEF Cycle, Client
<1>7. flat' = (IF Accepted(q) /\ q.kind = "st" THEN [flat EXCEPT ![q.addr] = q.val] ELSE flat)
  BY DEF Cycle, Client
<1>8. select_q' \in BOOLEAN
  <2>1. select_q' = SelectCore(q) /\ cache_access_q \in BOOLEAN
    BY DEF Cycle, Muxes, Control, Types
  <2>. QED
    BY <2>1 DEF SelectCore, Cacheable, CacheOp
<1>. DEFINE c == UncachedReq(q)
            push == c.kind # "none" /\ BridgeAccept
<1>9. push <=> (Accepted(q) /\ ~Cacheable(q))
  <2>1. BridgeAccept
    <3>1. Len(req_fifo) = 0
      BY EmptySeq
    <3>2. resp_count \in {0, 1}
      OBVIOUS
    <3>. QED
      BY <3>1, <3>2, SMT DEF BridgeAccept
  <2>. QED
    BY <2>1 DEF Accepted, MemAccept, UncachedReq, NoReq
<1>10. push => c = q
  BY DEF UncachedReq, NoReq
<1>11. Bridge(c, acc /\ ~SelectCore(q))
  BY DEF Cycle
<1>. HIDE DEF c
<1>12. ~BridgeIssues /\ ~BridgeDrops /\ BridgeBeat = None
  BY DEF BridgeIssues, BridgeDrops, BridgeBeat
<1>13. req_fifo' = (IF push THEN <<q>> ELSE <<>>)
  <2>1. req_fifo' = <<>> \o (IF push THEN <<c>> ELSE <<>>)
    BY <1>11, <1>12 DEF Bridge
  <2>2. <<>> \o <<>> = <<>> /\ <<>> \o <<c>> = <<c>>
    <3>1. <<>> \in Seq({c}) /\ <<c>> \in Seq({c})
      BY EmptySeq, SMT
    <3>. QED
      BY <3>1, ConcatEmptySeq
  <2>. QED
    BY <2>1, <2>2, <1>10
<1>14. resp_count' = (IF push THEN 1 ELSE 0)
  <2>1. resp_count' = resp_count + (IF push THEN 1 ELSE 0)
                      - (IF BridgeAck /\ resp_count > 0 THEN 1 ELSE 0)
    BY <1>11 DEF Bridge
  <2>2. resp_count = IF BridgeAck THEN 1 ELSE 0
    OBVIOUS
  <2>. QED
    BY <2>1, <2>2, SMT
<1>15. request_pending_q' = FALSE /\ dropped_q' = FALSE
  <2>1. request_pending_q' = (request_pending_q /\ ~BridgeAck)
    BY <1>11, <1>12, Zenon DEF Bridge, RequestPending
  <2>2. dropped_q' = BridgeDrops
    BY <1>11 DEF Bridge
  <2>3. BridgeDrops = FALSE
    BY <1>12
  <2>. QED
    BY <2>1, <2>2, <2>3, Zenon
<1>. QED
  BY <1>1, <1>2, <1>3, <1>4, <1>5, <1>6, <1>7, <1>8, <1>9, <1>13, <1>14, <1>15 DEF FreeTurn

-----------------------------------------------------------------------------
(* What a cycle of dcache_core.v does to the request buffer and the tags.  *)

(* The request buffer is filled and cleared in LOOKUP only, and keeps an   *)
(* access that missed.                                                     *)
LEMMA BufferStep ==
    ASSUME Control, NEW c \in Requests \cup Idles, NEW acc, Core(c, acc)
    PROVE  m' = IF state_q # "LOOKUP" \/ Missed THEN m
                ELSE IF CoreAccept(c) THEN c ELSE NoReq(Zero)
<1>1. m' = IF CoreAccept(c) THEN c
           ELSE IF CoreAck THEN NoReq([set |-> 0, tag |-> 0, word |-> 0]) ELSE m
  BY DEF Core, RequestBuffer
<1>2. CASE state_q # "LOOKUP" \/ Missed
  BY <1>1, <1>2 DEF CoreAccept, CoreAck, Missed, CacheOp, Access
<1>3. CASE state_q = "LOOKUP" /\ ~Missed
  <2>1. ~CoreAccept(c) => CoreAck
    BY <1>3 DEF CoreAccept, CoreAck, Missed, Access
  <2>. QED
    BY <1>1, <1>3, <2>1 DEF Zero
<1>. QED
  BY <1>2, <1>3

(* The entry that is written in a way, and nothing else, changes. *)
LEMMA TagsWritten ==
    ASSUME Types, NEW c \in Requests \cup Idles, NEW next, TagRam(c, next)
    PROVE  /\ \A w \in Ways, s \in Rows :
                 tag_ram'[w][s] = IF TagWrites(w) /\ s = TagWriteSet THEN TagIn ELSE tag_ram[w][s]
           /\ (\A w \in Ways : ~TagWrites(w)) => tag_ram' = tag_ram
<1>1. tag_ram' = [w \in Ways |-> IF TagWrites(w) THEN [tag_ram[w] EXCEPT ![TagWriteSet] = TagIn]
                                 ELSE tag_ram[w]]
  BY DEF TagRam
<1>2. tag_ram \in [Ways -> [Rows -> Entries]]
  BY DEF Types
<1>. QED
  BY <1>1, <1>2, Zenon

(* The word that is written in a way changes; what is read is the word     *)
(* before the write.                                                       *)
LEMMA DataWritten ==
    ASSUME Types, NEW c, NEW next, NEW acc, DataRam(c, next, acc)
    PROVE  /\ \A w \in Ways, i \in RamWords :
                 data_ram'[w][i] = IF DataWrites(w) /\ i = DataWriteIndex(c, next) THEN DataIn
                                   ELSE data_ram[w][i]
           /\ (\A w \in Ways : ~DataWrites(w)) => data_ram' = data_ram
           /\ \A w \in Ways : data_o'[w] = data_ram[w][DataReadIndex(c, next)]
<1>1. /\ data_ram' = [w \in Ways |->
            IF DataWrites(w) THEN [data_ram[w] EXCEPT ![DataWriteIndex(c, next)] = DataIn]
            ELSE data_ram[w]]
      /\ data_o' = [w \in Ways |-> data_ram[w][DataReadIndex(c, next)]]
  BY DEF DataRam
<1>2. data_ram \in [Ways -> [RamWords -> Cells]]
  BY DEF Types
<1>. QED
  BY <1>1, <1>2, Zenon

(* The line of a cached access is cacheable as a whole. *)
LEMMA AccessLine ==
    ASSUME Control, Access(m)
    PROVE  KnownLine(m.addr.set, m.addr.tag) /\ m.addr \in Addrs /\ Cached /\ m \in Requests
<1>1. Cached /\ m \in Requests /\ Cacheable(m)
  BY Sides, IdleType DEF Control, Access
<1>2. m.addr \in Addrs /\ m.addr.tag \in Tags
  BY <1>1, RequestType DEF Cacheable, CacheOp, Access
<1>3. \A i \in Columns : Word(m.addr.set, m.addr.tag, i) \in Addrs
  <2>1. m.addr \in [set : Rows, tag : Tags \cup UncachedTags, word : Columns]
    BY <1>2, DcacheAssumption, Zenon DEF Rows, Columns
  <2>2. ASSUME NEW i \in Columns
        PROVE  [m.addr EXCEPT !.word = i] = Word(m.addr.set, m.addr.tag, i)
    BY <2>1 DEF Word
  <2>3. ASSUME NEW i \in Columns PROVE [m.addr EXCEPT !.word = i] \in Addrs
    BY <1>2, DcacheAssumption, Zenon DEF Columns
  <2>. QED
    BY <2>2, <2>3, Zenon
<1>. QED
  BY <1>1, <1>2, <1>3 DEF KnownLine

(* A line that is written back is in the range of the cache. *)
LEMMA EvictLine ==
    ASSUME Control, Evicts
    PROVE  /\ KnownLine(EvictSet, tag_o[replace_way_q].t) /\ EvictSet \in Rows
           /\ \A w \in Ways : tag_o[w] = tag_ram[w][EvictSet]
<1>1. \A w \in Ways : tag_o[w] = tag_ram[w][EvictSet]
  BY DEF Control, FreshTags, LooksUp, Evicts
<1>2. EvictSet \in Rows
  BY AddressType DEF Control, Types, EvictSet
<1>3. replace_way_q \in Ways /\ tag_o[replace_way_q].v /\ state_q # "RESET"
  BY DEF Control, Types, Machine, Evicts
<1>. QED
  BY <1>1, <1>2, <1>3 DEF Control, KnownLines

(* A valid tag is written for a line of the range only. *)
LEMMA TagInKnown ==
    ASSUME Control, state_q # "RESET", NEW w \in Ways, TagWrites(w), TagIn.v
    PROVE  KnownLine(TagWriteSet, TagIn.t)
<1>1. ~flushing_q /\ state_q # "INVALIDATE" /\ TagIn.t = m.addr.tag /\ TagWriteSet = m.addr.set
  BY DEF TagIn, Empty, TagWriteSet
<1>2. m.kind \in Kinds
  BY DEF Control, Machine
<1>3. CASE Access(m)
  BY <1>1, <1>3, AccessLine
<1>4. CASE ~Access(m)
  <2>1. state_q = "EVICT_WAIT" /\ replace_way_q = w
    BY <1>1, <1>2, <1>4 DEF TagWrites, Kinds, Evicts, Access, Control, Types, States, Machine
  <2>2. m.kind = "wb" /\ Evicts
    BY <1>1, <1>2, <1>4, <2>1 DEF Kinds, Evicts, Access, Control, Machine
  <2>3. Hit(replace_way_q)
    BY <2>2 DEF Control, Machine
  <2>. QED
    BY <1>1, <2>2, <2>3, EvictLine DEF Hit, EvictSet
<1>. QED
  BY <1>3, <1>4

(* The reset empties the tags set by set; later only lines in the range    *)
(* of the cache get a tag.                                                 *)
LEMMA KnownLinesStep ==
    ASSUME Control, NEW c \in Requests \cup Idles, NEW acc, Core(c, acc)
    PROVE  KnownLines'
<1>1. state_q' = NextState(c, acc) /\ TagRam(c, NextState(c, acc)) /\ FlushCounter(NextState(c, acc))
  BY DEF Core
<1>2. \A w \in Ways, s \in Rows :
         tag_ram'[w][s] = IF TagWrites(w) /\ s = TagWriteSet THEN TagIn ELSE tag_ram[w][s]
  BY <1>1, TagsWritten DEF Control
<1>3. CASE state_q = "RESET"
  <2>1. \A w \in Ways, s \in Rows :
           tag_ram'[w][s] = IF s = flush_addr_q THEN Empty ELSE tag_ram[w][s]
    BY <1>2, <1>3 DEF TagWrites, TagWriteSet, TagIn
  <2>2. \A w \in Ways, s \in Rows :
           flush_last_q \/ s < flush_addr_q => tag_ram[w][s] = Empty
    BY <1>3 DEF Control, KnownLines
  <2>3. /\ state_q' \in {"RESET", "LOOKUP"} /\ (state_q' = "LOOKUP" => flush_last_q)
        /\ flush_last_q' = (flush_last_q \/ flush_addr_q = Sets - 1)
        /\ flush_addr_q' = (flush_addr_q + 1) % Sets
    BY <1>1, <1>3 DEF NextState, FlushCounter
  <2>4. ASSUME NEW w \in Ways, NEW s \in Rows, flush_last_q' \/ s < flush_addr_q'
        PROVE  tag_ram'[w][s] = Empty
    <3>1. CASE flush_last_q
      BY <3>1, <2>1, <2>2
    <3>2. CASE ~flush_last_q /\ flush_addr_q = Sets - 1
      <4>1. s = flush_addr_q \/ s < flush_addr_q
        BY <3>2, DcacheAssumption, SMT DEF Rows
      <4>. QED
        BY <4>1, <2>1, <2>2
    <3>3. CASE ~flush_last_q /\ flush_addr_q # Sets - 1
      <4>0. Sets \in Nat /\ flush_addr_q \in 0 .. Sets - 1
        BY DcacheAssumption DEF Control, Types, Rows
      <4>1. flush_addr_q' = flush_addr_q + 1
        BY <3>3, <2>3, <4>0, SMT
      <4>2. s < flush_addr_q'
        BY <3>3, <2>3, <2>4
      <4>3. s = flush_addr_q \/ s < flush_addr_q
        BY <4>0, <4>1, <4>2, SMT DEF Rows
      <4>. QED
        BY <4>3, <2>1, <2>2
    <3>. QED
      BY <3>1, <3>2, <3>3
  <2>5. ASSUME state_q' = "LOOKUP", NEW w \in Ways, NEW s \in Rows PROVE ~tag_ram'[w][s].v
    BY <2>5, <2>1, <2>2, <2>3 DEF Empty
  <2>. QED
    BY <2>3, <2>4, <2>5 DEF KnownLines, KnownLine
<1>4. CASE state_q # "RESET"
  <2>1. state_q' # "RESET"
    BY <1>1, <1>4 DEF NextState
  <2>2. ASSUME NEW w \in Ways, NEW s \in Rows, tag_ram'[w][s].v
        PROVE  KnownLine(s, tag_ram'[w][s].t)
    <3>1. CASE TagWrites(w) /\ s = TagWriteSet
      BY <3>1, <2>2, <1>2, <1>4, TagInKnown
    <3>2. CASE ~(TagWrites(w) /\ s = TagWriteSet)
      BY <3>2, <2>2, <1>2, <1>4 DEF Control, KnownLines
    <3>. QED
      BY <3>1, <3>2
  <2>. QED
    BY <2>1, <2>2 DEF KnownLines, KnownLine
<1>. QED
  BY <1>3, <1>4

(* What is read of the tags is of the set that is at work in the next      *)
(* cycle, whatever the state.                                              *)
LEMMA FreshTagsStep ==
    ASSUME Control, NEW c \in Requests \cup Idles, NEW acc, Core(c, acc)
    PROVE  FreshTags'
<1>. DEFINE next == NextState(c, acc)
<1>1. /\ state_q' = next /\ TagRam(c, next) /\ FlushCounter(next)
      /\ m' = IF state_q # "LOOKUP" \/ Missed THEN m
              ELSE IF CoreAccept(c) THEN c ELSE NoReq(Zero)
  BY BufferStep DEF Core
<1>2. \A w \in Ways : tag_o'[w] = tag_ram'[w][TagReadSet(c, next)]
  BY <1>1, TagTypes DEF Control
<1>3. SUFFICES ASSUME LooksUp' PROVE TagReadSet(c, next) = EvictSet'
  BY <1>2 DEF FreshTags
<1>. HIDE DEF next
<1>4. CASE state_q = "LOOKUP"
  <2>1. ~flushing_q /\ ~flushing_q' /\ EvictSet' = m'.addr.set
    <3>1. ~flushing_q
      BY <1>4 DEF Control, Machine, Evicts
    <3>2. next # "FLUSH_ADDR"
      BY <1>1, <1>3, <1>4 DEF LooksUp
    <3>3. ~flushing_q'
      BY <1>1, <1>4, <3>1, <3>2 DEF FlushCounter
    <3>. QED
      BY <3>1, <3>3 DEF EvictSet
  <2>2. CASE Missed
    <3>1. next \in {"EVICT", "REFILL"} /\ m' = m
      BY <1>1, <1>4, <2>2 DEF next, NextState
    <3>. QED
      BY <2>1, <3>1 DEF TagReadSet
  <2>3. CASE ~Missed
    <3>1. next \in {"LOOKUP", "WRITEBACK"}
      BY <1>1, <1>3, <1>4, <2>3 DEF next, NextState, LooksUp
    <3>2. TagReadSet(c, next) = c.addr.set
      BY <1>4, <3>1 DEF TagReadSet
    <3>3. CoreAccept(c)
      <4>1. CASE ~CoreAccept(c)
        <5>1. next = "LOOKUP"
          BY <1>4, <2>3, <4>1 DEF next, NextState
        <5>2. m' = NoReq(Zero)
          BY <1>1, <1>4, <2>3, <4>1
        <5>. QED
          BY <1>1, <1>3, <5>1, <5>2 DEF LooksUp, Access, NoReq
      <4>. QED
        BY <4>1
    <3>. QED
      BY <1>1, <1>4, <2>1, <2>3, <3>2, <3>3
  <2>. QED
    BY <2>2, <2>3
<1>5. CASE state_q # "LOOKUP"
  <2>1. m' = m /\ TagReadSet(c, next) = IF flushing_q THEN flush_addr_q ELSE m.addr.set
    BY <1>1, <1>5 DEF TagReadSet
  <2>2. CASE flushing_q
    <3>1. state_q \in {"FLUSH_ADDR", "FLUSH", "EVICT", "EVICT_WAIT"} /\ m.kind = "flush"
      <4>1. m.kind \in Kinds
        BY DEF Control, Machine
      <4>. QED
        BY <2>2, <4>1 DEF Control, Machine, Evicts, Kinds
    <3>2. next \in {"FLUSH", "EVICT", "EVICT_WAIT"}
      <4>1. next \in {"FLUSH", "EVICT", "EVICT_WAIT", "LOOKUP", "FLUSH_ADDR"}
        BY <2>2, <3>1 DEF next, NextState
      <4>2. next # "FLUSH_ADDR" /\ (next = "LOOKUP" => Access(m'))
        BY <1>1, <1>3 DEF LooksUp, Access
      <4>. QED
        BY <2>1, <3>1, <4>1, <4>2 DEF Access
    <3>3. flushing_q'
      BY <1>1, <2>2, <3>2 DEF FlushCounter
    <3>4. flush_addr_q' = flush_addr_q
      BY <1>1, <3>1, <3>2 DEF FlushCounter
    <3>. QED
      BY <2>1, <2>2, <3>3, <3>4 DEF EvictSet
  <2>3. CASE ~flushing_q
    BY <1>1, <1>5, <2>1, <2>3 DEF EvictSet, FlushCounter
  <2>. QED
    BY <2>2, <2>3
<1>. QED
  BY <1>4, <1>5

(* The state fits the request. *)
LEMMA KindsStep ==
    ASSUME Control, NEW c \in Requests \cup Idles, NEW acc, Core(c, acc)
    PROVE  /\ (m.kind \in Kinds)'
           /\ flushing_q' <=> (state_q' \in {"FLUSH_ADDR", "FLUSH"}
                               \/ (state_q' \in {"EVICT", "EVICT_WAIT"} /\ m'.kind = "flush"))
<1>. DEFINE next == NextState(c, acc)
<1>1. /\ state_q' = next /\ FlushCounter(next)
      /\ m' = IF state_q # "LOOKUP" \/ Missed THEN m
              ELSE IF CoreAccept(c) THEN c ELSE NoReq(Zero)
  BY BufferStep DEF Core
<1>2. /\ c.kind \in {"none", "ld", "st", "inval", "wb", "flush"}
      /\ m.kind \in {"none", "ld", "st", "inval", "wb", "flush"} /\ state_q \in States
      /\ flushing_q \in BOOLEAN
  BY AddressType DEF Control, Types
<1>3. /\ m.kind \in Kinds
      /\ flushing_q <=> (state_q \in {"FLUSH_ADDR", "FLUSH"} \/ (Evicts /\ m.kind = "flush"))
  BY DEF Control, Machine
<1>4. flushing_q' = IF state_q = "LOOKUP" /\ next = "FLUSH_ADDR" THEN TRUE
                    ELSE IF state_q = "FLUSH" /\ next = "LOOKUP" THEN FALSE
                    ELSE flushing_q
  BY <1>1 DEF FlushCounter
<1>5. CASE state_q = "LOOKUP"
  <2>1. ~flushing_q
    BY <1>3, <1>5 DEF Evicts
  <2>2. CASE Missed
    <3>1. next \in {"EVICT", "REFILL"} /\ m' = m /\ m.kind \in {"ld", "st"}
      BY <1>1, <1>5, <2>2 DEF next, NextState, Missed, Access
    <3>. QED
      BY <1>1, <1>4, <2>1, <3>1 DEF Kinds, Evicts
  <2>3. CASE ~Missed /\ CoreAccept(c)
    <3>1. /\ m' = c
          /\ next = CASE c.kind = "wb"    -> "WRITEBACK"
                      [] c.kind = "flush" -> "FLUSH_ADDR"
                      [] c.kind = "inval" -> "INVALIDATE"
                      [] OTHER            -> "LOOKUP"
      BY <1>1, <1>5, <2>3 DEF next, NextState
    <3>2. flushing_q' <=> (next = "FLUSH_ADDR")
      BY <1>4, <1>5, <2>1
    <3>. QED
      BY <1>1, <1>2, <3>1, <3>2 DEF Kinds, Evicts
  <2>4. CASE ~Missed /\ ~CoreAccept(c)
    <3>1. next = "LOOKUP" /\ m'.kind = "none"
      BY <1>1, <1>5, <2>4 DEF next, NextState, NoReq
    <3>. QED
      BY <1>1, <1>4, <1>5, <2>1, <3>1 DEF Kinds, Evicts
  <2>. QED
    BY <2>2, <2>3, <2>4
<1>6. CASE state_q \in {"RESET", "READ", "WRITE", "INVALIDATE", "WRITEBACK", "REFILL"}
  <2>1. ~flushing_q /\ ~flushing_q' /\ m' = m
    BY <1>1, <1>3, <1>4, <1>6 DEF Evicts
  <2>2. CASE state_q = "RESET"
    <3>1. next \in {"RESET", "LOOKUP"} /\ m.kind = "none"
      BY <1>3, <2>2 DEF next, NextState, Kinds, Evicts
    <3>. QED
      BY <1>1, <2>1, <3>1 DEF Kinds, Evicts
  <2>3. CASE state_q \in {"READ", "WRITE", "INVALIDATE"}
    <3>1. next = "LOOKUP"
      BY <2>3 DEF next, NextState
    <3>. QED
      BY <1>1, <1>2, <2>1, <3>1 DEF Kinds, Evicts
  <2>4. CASE state_q = "WRITEBACK"
    <3>1. next \in {"EVICT", "LOOKUP"} /\ m.kind = "wb"
      BY <1>3, <2>4 DEF next, NextState, Kinds, Evicts
    <3>. QED
      BY <1>1, <2>1, <3>1 DEF Kinds, Evicts
  <2>5. CASE state_q = "REFILL"
    <3>1. /\ m.kind \in {"ld", "st"}
          /\ next \in {"REFILL", IF m.kind = "st" THEN "WRITE" ELSE "READ"}
      BY <1>3, <2>5 DEF next, NextState, Kinds, Evicts
    <3>. QED
      BY <1>1, <2>1, <3>1 DEF Kinds, Evicts
  <2>. QED
    BY <1>6, <2>2, <2>3, <2>4, <2>5
<1>7. CASE state_q \in {"FLUSH_ADDR", "FLUSH"}
  <2>1. flushing_q /\ m.kind = "flush" /\ m' = m
    BY <1>1, <1>3, <1>7 DEF Kinds, Evicts
  <2>2. next \in {"FLUSH", "FLUSH_ADDR", "EVICT"} \/ (state_q = "FLUSH" /\ next = "LOOKUP")
    BY <1>7 DEF next, NextState
  <2>. QED
    BY <1>1, <1>4, <1>7, <2>1, <2>2 DEF Kinds, Evicts
<1>8. CASE state_q \in {"EVICT", "EVICT_WAIT"}
  <2>1. /\ m' = m /\ (flushing_q <=> m.kind = "flush") /\ (flushing_q' <=> flushing_q)
        /\ m.kind \in {"ld", "st", "wb", "flush"}
    BY <1>1, <1>3, <1>4, <1>8 DEF Kinds, Evicts
  <2>2. next \in {"EVICT", "EVICT_WAIT"} \/
        next = IF m.kind = "wb" THEN "LOOKUP" ELSE IF flushing_q THEN "FLUSH_ADDR" ELSE "REFILL"
    BY <1>8 DEF next, NextState
  <2>. QED
    BY <1>1, <2>1, <2>2 DEF Kinds, Evicts
<1>. QED
  BY <1>2, <1>5, <1>6, <1>7, <1>8 DEF States

(* A line is chosen and found dirty before it is written back, and stays   *)
(* so until the last word is taken.                                        *)
LEMMA EvictsStep ==
    ASSUME Control, NEW c \in Requests \cup Idles, NEW acc, Core(c, acc)
    PROVE  /\ Evicts' /\ m'.kind # "wb" => EvictWay'
           /\ Evicts' => tag_o'[replace_way_q'].v
           /\ Evicts' /\ m'.kind = "wb" => Hit(replace_way_q)'
<1>. DEFINE next == NextState(c, acc)
<1>1. /\ state_q' = next /\ TagRam(c, next) /\ FlushCounter(next) /\ Replacement(next)
      /\ m' = IF state_q # "LOOKUP" \/ Missed THEN m
              ELSE IF CoreAccept(c) THEN c ELSE NoReq(Zero)
  BY BufferStep DEF Core
<1>2. SUFFICES ASSUME Evicts'
      PROVE  /\ m'.kind # "wb" => EvictWay'
             /\ tag_o'[replace_way_q'].v
             /\ m'.kind = "wb" => Hit(replace_way_q)'
  BY DEF Evicts
<1>3. next \in {"EVICT", "EVICT_WAIT"}
  BY <1>1, <1>2 DEF Evicts
<1>4. /\ state_q \in {"LOOKUP", "FLUSH", "WRITEBACK", "EVICT", "EVICT_WAIT"}
      /\ state_q = "LOOKUP" => Missed /\ EvictWay /\ next = "EVICT"
      /\ state_q = "FLUSH" => DirtyAny /\ EvictWay /\ next = "EVICT"
      /\ state_q = "WRITEBACK" => HitDirty /\ next = "EVICT"
      /\ state_q = "EVICT_WAIT" => next = "EVICT_WAIT" /\ ~PmemAck
  <2>1. state_q \in States
    BY DEF Control, Types
  <2>. QED
    BY <1>3, <2>1 DEF next, NextState, States
<1>. HIDE DEF next
<1>5. m' = m /\ flushing_q' = flushing_q
  BY <1>1, <1>3, <1>4 DEF FlushCounter
<1>6. tag_ram' = tag_ram
  <2>1. \A w \in Ways : ~TagWrites(w)
    BY <1>4 DEF TagWrites, Missed, HitAny, Access
  <2>. QED
    BY <1>1, <2>1, TagsWritten DEF Control
<1>7. LooksUp /\ LooksUp'
  BY <1>1, <1>3, <1>4 DEF LooksUp, Missed
<1>8. EvictSet' = EvictSet
  BY <1>1, <1>3, <1>4, <1>5 DEF EvictSet, FlushCounter, Control, Machine, Evicts
<1>9. \A w \in Ways : tag_o'[w] = tag_o[w]
  BY <1>1, <1>6, <1>7, <1>8, FreshTagsStep DEF Control, FreshTags
<1>10. replace_way_q \in Ways /\ replace_way_q' \in Ways
  <2>1. replace_way_q \in Ways /\ 1 - replace_way_q \in Ways /\ 0 \in Ways /\ 1 \in Ways
    BY SMT DEF Control, Types, Ways
  <2>. QED
    BY <1>1, <2>1, Zenon DEF Replacement
<1>11. CASE state_q = "WRITEBACK"
  <2>1. replace_way_q' = (IF Hit(0) THEN 0 ELSE 1) /\ HitAny
    BY <1>1, <1>3, <1>4, <1>11 DEF Replacement, HitDirty, HitAny, Control, Machine, Evicts
  <2>2. Hit(replace_way_q')
    BY <2>1 DEF HitAny, Ways
  <2>3. m.kind = "wb"
    BY <1>11 DEF Control, Machine, Kinds, Evicts
  <2>. QED
    BY <1>5, <1>9, <1>10, <2>2, <2>3 DEF Hit
<1>12. CASE state_q # "WRITEBACK"
  <2>1. replace_way_q' = replace_way_q
    <3>1. flushing_q => EvictWay
      BY <1>4, <1>12 DEF Control, Machine, Evicts
    <3>. QED
      BY <1>1, <1>3, <1>4, <1>12, <3>1 DEF Replacement
  <2>2. \A w \in Ways : (Hit(w)' <=> Hit(w)) /\ (Dirty(w)' <=> Dirty(w))
    BY <1>5, <1>9 DEF Hit, Dirty
  <2>3. EvictWay' <=> EvictWay
    BY <1>5, <1>10, <2>1, <2>2 DEF EvictWay, HitAny
  <2>4. m'.kind # "wb" => EvictWay
    BY <1>4, <1>5, <1>12 DEF Control, Machine, Evicts
  <2>5. tag_o[replace_way_q].v /\ (m.kind = "wb" => Hit(replace_way_q))
    <3>1. CASE state_q \in {"LOOKUP", "FLUSH"}
      <4>1. EvictWay
        BY <1>4, <3>1
      <4>2. m.kind # "wb"
        <5>1. m.kind \in Kinds
          BY DEF Control, Machine
        <5>. QED
          BY <3>1, <1>4, <5>1 DEF Missed, Access, Kinds, Evicts
      <4>. QED
        BY <4>1, <4>2 DEF EvictWay, Dirty
    <3>2. CASE state_q \in {"EVICT", "EVICT_WAIT"}
      BY <3>2 DEF Control, Machine, Evicts
    <3>. QED
      BY <1>4, <1>12, <3>1, <3>2
  <2>. QED
    BY <1>5, <1>9, <1>10, <2>1, <2>2, <2>3, <2>4, <2>5
<1>. QED
  BY <1>11, <1>12

(* The state machine knows what it is at. *)
LEMMA MachineStep ==
    ASSUME Control, NEW c \in Requests \cup Idles, NEW acc, Core(c, acc)
    PROVE  Machine'
<1>. DEFINE next == NextState(c, acc)
<1>1. state_q' = next /\ MemoryRequest(next, acc)
  BY DEF Core
<1>2. pmem_rd_q' => state_q' = "REFILL"
  <2>1. ASSUME pmem_rd_q PROVE next = "REFILL"
    <3>1. state_q = "REFILL"
      BY <2>1 DEF Control, Machine
    <3>2. ~PmemAck
      <4>1. m.kind # "none"
        BY <3>1 DEF Control, Machine, Kinds, Evicts
      <4>2. ~Uncached
        BY <4>1, Sides DEF Control, Cached, Uncached
      <4>. QED
        BY <2>1, <3>1, <4>2 DEF Control, Transfers, Refilling, PortIdle, PmemAck
    <3>. QED
      BY <3>1, <3>2 DEF NextState
  <2>. QED
    BY <1>1, <2>1 DEF MemoryRequest, CoreReads, Entering
<1>3. pmem_wr_q' => state_q' = "EVICT"
  <2>1. ASSUME CoreWrites, ~acc PROVE next = "EVICT"
    <3>1. state_q = "EVICT"
      BY <2>1 DEF CoreWrites, Control, Machine
    <3>. QED
      BY <2>1, <3>1 DEF NextState
  <2>. QED
    BY <1>1, <2>1 DEF MemoryRequest
<1>. QED
  BY <1>2, <1>3, KindsStep, EvictsStep DEF Machine, Evicts

-----------------------------------------------------------------------------
(* The cycles, one by one. *)

(* A cycle is of one of the three kinds. *)
LEMMA Turns ==
    ASSUME Control, Next
    PROVE  \E q \in Drives, acc \in BOOLEAN, reply \in BOOLEAN :
              \/ /\ owed = None \/ MemAck
                 /\ FreeTurn(q, CachedReq(q), acc /\ SelectCore(q))
              \/ Cached /\ ~CoreAck /\ CoreTurn(q.addr, acc, reply)
              \/ Uncached /\ ans = None /\ BridgeTurn(q.addr, acc, reply)
<1>1. PICK q \in Drives, acc \in BOOLEAN, reply \in BOOLEAN : Cycle(q, acc, reply)
  BY DEF Next
<1>2. CASE owed = None \/ MemAck
  BY <1>1, <1>2, Frees
<1>3. CASE owed # None /\ ~MemAck /\ cache_access_q
  <2>1. Cached /\ ~CoreAck
    BY <1>3 DEF Cached, MemAck
  <2>. QED
    BY <1>1, <2>1, CoreWaits
<1>4. CASE owed # None /\ ~MemAck /\ ~cache_access_q
  <2>1. Uncached /\ ~BridgeAck
    BY <1>4 DEF Uncached, MemAck
  <2>2. ans = None
    BY <2>1 DEF BridgeAck, Uncached, Control, Interface
  <2>. QED
    BY <1>1, <2>1, <2>2, BridgeWaits
<1>. QED
  BY <1>2, <1>3, <1>4

(* What the core is shown is a request or none. *)
LEMMA CoreRequest ==
    ASSUME NEW q \in Drives
    PROVE  /\ CachedReq(q) \in Requests \cup Idles /\ NoReq(q.addr) \in Requests \cup Idles
           /\ NoReq(q.addr).kind = "none"
           /\ CachedReq(q).kind # "none" => CachedReq(q) = q /\ Cacheable(q) /\ ~Hold(q)
                                            /\ q.kind # "none"
           /\ CachedReq(q).kind = "none" => CachedReq(q) \in Idles
<1>1. q \in Requests \cup Idles /\ NoReq(q.addr) \in Idles
  BY DrivesType DEF Idles
<1>2. \A r \in Requests : r.kind # "none"
  BY RequestType
<1>. QED
  BY <1>1, <1>2 DEF CachedReq, NoReq

(* A read that is under way is for a word at least. *)
LEMMA ReadsSomething ==
    ASSUME Control, op # None, op.kind = "rd"
    PROVE  op.todo # <<>>
<1>1. CASE Uncached
  <2>1. op = Single /\ op.todo = <<owed.addr>>
    BY <1>1 DEF Control, Transfers, Bridging, PortIdle, Single
  <2>. QED
    BY <2>1
<1>2. CASE ~Uncached
  <2>1. state_q = "REFILL" /\ ~pmem_rd_q
    BY <1>2 DEF Control, Transfers, Refilling, Evicting, Evicted, PortIdle, Writing
  <2>2. PICK left \in {pmem_len_q, pmem_len_q + 1} :
            left # 0 /\ op = Reading(m.addr.set, m.addr.tag, left)
    <3>1. pmem_len_q + 1 - 0 = pmem_len_q + 1 /\ pmem_len_q + 1 - 1 = pmem_len_q
      BY SMT DEF Control, Types
    <3>. QED
      BY <1>2, <2>1, <3>1 DEF Control, Transfers, Refilling
  <2>3. Access(m) /\ pmem_len_q < LineWords /\ pmem_len_q \in Nat /\ LineWords \in Nat
    <3>1. m.kind \in {"ld", "st"}
      BY <2>1 DEF Control, Machine, Kinds, Evicts
    <3>2. pmem_len_q < LineWords
      BY <1>2, <2>1 DEF Control, Transfers, Refilling
    <3>. QED
      BY <3>1, <3>2, DcacheAssumption, SMT DEF Access, Control, Types
  <2>4. left \in 0 .. LineWords
    BY <2>3, SMT
  <2>. QED
    BY <2>2, <2>3, <2>4, RestSeq, AccessLine DEF Reading
<1>. QED
  BY <1>1, <1>2

(* The core's transfers are of lines of its range. *)
LEMMA CoreBeats ==
    ASSUME Control, NEW c, NEW x
    PROVE  CoreBeat(NextState(c, x)) \in Bursts1 \cup {None}
<1>1. CoreReads(NextState(c, x)) => KnownLine(m.addr.set, m.addr.tag)
  <2>1. ASSUME CoreReads(NextState(c, x)) PROVE Access(m)
    <3>0. m.kind \in Kinds
      BY DEF Control, Machine
    <3>1. CASE state_q = "REFILL"
      BY <3>0, <3>1 DEF Kinds, Evicts, Access
    <3>2. CASE state_q # "REFILL"
      <4>1. NextState(c, x) = "REFILL"
        BY <2>1, <3>2 DEF CoreReads, Entering, Control, Machine
      <4>2. (state_q = "LOOKUP" /\ Missed) \/
            (state_q = "EVICT_WAIT" /\ m.kind # "wb" /\ ~flushing_q)
        BY <4>1, <3>2 DEF NextState, Control, Types, States
      <4>. QED
        BY <3>0, <4>2 DEF Missed, Access, Kinds, Evicts, Control, Machine
    <3>. QED
      BY <3>1, <3>2
  <2>. QED
    BY <2>1, AccessLine
<1>2. CoreWrites => KnownLine(EvictSet, tag_o[replace_way_q].t)
  BY EvictLine DEF CoreWrites, Control, Machine, Evicts
<1>. QED
  BY <1>1, <1>2, CoreBeatType DEF Control

(* What the bridge puts on the port is a beat of the port. *)
LEMMA BridgeBeats ==
    ASSUME Control, Uncached
    PROVE  BridgeBeat \in Bursts1 \cup {None}
<1>1. owed \in Requests /\ (req_fifo # <<>> => Head(req_fifo) = owed)
  BY Sides DEF Control, Transfers, Bridging
<1>2. <<owed.addr>> \in Seq(Addrs) \ {<<>>} /\ owed.val \in Cells
  BY <1>1, RequestType
<1>. QED
  BY <1>1, <1>2 DEF BridgeBeat, BridgeIssues, Bursts1

(* Every cycle keeps the types. *)
LEMMA TypesStep ==
    ASSUME Control, Next PROVE Types'
<1>1. PICK q \in Drives, acc \in BOOLEAN, reply \in BOOLEAN :
          \/ /\ owed = None \/ MemAck
             /\ FreeTurn(q, CachedReq(q), acc /\ SelectCore(q))
          \/ Cached /\ ~CoreAck /\ CoreTurn(q.addr, acc, reply)
          \/ Uncached /\ ans = None /\ BridgeTurn(q.addr, acc, reply)
  BY Turns
<1>. DEFINE CoreTyped ==
        /\ state_q' \in States /\ m' \in Requests \cup Idles
        /\ tag_ram' \in [Ways -> [Rows -> Entries]] /\ tag_o' \in [Ways -> Entries]
        /\ data_ram' \in [Ways -> [RamWords -> Cells]] /\ data_o' \in [Ways -> Cells]
        /\ pmem_write_data_q' \in Cells
        /\ data_write_addr_q' \in RamWords /\ flush_addr_q' \in Rows
        /\ pmem_len_q' \in 0 .. 255 /\ replace_way_q' \in Ways
        /\ {flushing_q', flush_last_q', error_q', pmem_rd_q', pmem_wr0_q', pmem_wr_q'}
               \subseteq BOOLEAN
     RestTyped ==
        /\ {cache_access_q', select_q', request_pending_q', dropped_q', failed'} \subseteq BOOLEAN
        /\ mem' \in [Addrs -> Cells] /\ flat' \in [Addrs -> Contents]
        /\ op' \in Ops \cup {None} /\ ans' \in Answers \cup {None}
<1>2. /\ mem \in [Addrs -> Cells] /\ op \in Ops \cup {None} /\ ans \in Answers \cup {None}
      /\ flat \in [Addrs -> Contents]
      /\ {cache_access_q, select_q, request_pending_q, dropped_q, failed} \subseteq BOOLEAN
  BY DEF Control, Types
<1>3. ASSUME FreeTurn(q, CachedReq(q), acc /\ SelectCore(q)), owed = None \/ MemAck
      PROVE  CoreTyped /\ RestTyped
  <2>1. SelectCore(q) \in BOOLEAN /\ Cacheable(q) \in BOOLEAN
    BY <1>2 DEF SelectCore, Cacheable, CacheOp
  <2>2. (acc /\ SelectCore(q)) \in BOOLEAN
    BY <2>1
  <2>3. CoreTyped
    BY <1>3, <2>2, CoreRequest, CoreTypes DEF Control, FreeTurn
  <2>4. flat' \in [Addrs -> Contents]
    <3>1. Accepted(q) => q.addr \in Addrs /\ (q.kind = "st" => q.val \in Contents)
      BY AcceptedType, RequestType
    <3>. QED
      BY <1>2, <1>3, <3>1 DEF FreeTurn
  <2>. QED
    BY <1>2, <1>3, <2>1, <2>3, <2>4 DEF FreeTurn
<1>4. ASSUME CoreTurn(q.addr, acc, reply)
      PROVE  CoreTyped /\ RestTyped
  <2>1. CoreTyped
    BY <1>4, CoreRequest, CoreTypes DEF Control, CoreTurn
  <2>2. mem' \in [Addrs -> Cells] /\ op' \in Ops \cup {None} /\ ans' \in Answers \cup {None}
    <3>1. (IF acc THEN CoreBeat(NextState(NoReq(q.addr), TRUE)) ELSE None) \in Bursts1 \cup {None}
      BY CoreBeats
    <3>. QED
      BY <1>2, <1>4, <3>1, ReadsSomething, PortTypes DEF CoreTurn
  <2>3. failed' \in BOOLEAN
    BY <1>4 DEF CoreTurn
  <2>. QED
    BY <1>2, <1>4, <2>1, <2>2, <2>3 DEF CoreTurn, bridgeVars
<1>5. ASSUME Uncached, BridgeTurn(q.addr, acc, reply)
      PROVE  CoreTyped /\ RestTyped
  <2>1. CoreTyped
    BY <1>5, CoreRequest, CoreTypes DEF Control, BridgeTurn
  <2>2. mem' \in [Addrs -> Cells] /\ op' \in Ops \cup {None} /\ ans' \in Answers \cup {None}
    <3>1. (IF acc THEN BridgeBeat ELSE None) \in Bursts1 \cup {None}
      BY <1>5, BridgeBeats
    <3>. QED
      BY <1>2, <1>5, <3>1, ReadsSomething, PortTypes DEF BridgeTurn
  <2>3. failed' \in BOOLEAN /\ request_pending_q' \in BOOLEAN /\ dropped_q' \in BOOLEAN
    <3>1. Bridge(NoReq(q.addr), acc)
      BY <1>5 DEF BridgeTurn
    <3>2. request_pending_q' \in BOOLEAN
      BY <3>1, <1>2, Zenon DEF Bridge, RequestPending
    <3>3. dropped_q' \in BOOLEAN
      BY <3>1, Zenon DEF Bridge, BridgeDrops
    <3>. QED
      BY <1>5, <3>2, <3>3 DEF BridgeTurn
  <2>. QED
    BY <1>2, <1>5, <2>1, <2>2, <2>3 DEF BridgeTurn
<1>6. CoreTyped /\ RestTyped
  BY <1>1, <1>3, <1>4, <1>5
<1>. QED
  BY <1>6 DEF Types

(* The core keeps the request while its access waits. *)
LEMMA CoreTurnFacts ==
    ASSUME Control, Cached, ~CoreAck, NEW a, NoReq(a) \in Requests \cup Idles,
           NEW acc \in BOOLEAN, NEW reply, CoreTurn(a, acc, reply)
    PROVE  /\ m' = m /\ owed' = owed /\ Cached' /\ ~Uncached' /\ cache_access_q' = cache_access_q
           /\ BridgeIdle /\ BridgeIdle' /\ ~Uncached
           /\ state_q # "LOOKUP" \/ Missed
           /\ m \in Requests /\ m = owed /\ m.kind # "none"
           /\ PmemAck <=> ans # None
<1>1. m \in Requests /\ m = owed /\ m.kind # "none" /\ ~Uncached
  BY Sides DEF Control, Cached, Uncached
<1>2. state_q # "LOOKUP" \/ Missed
  <2>1. m.kind \in {"ld", "st", "inval", "wb", "flush"}
    BY <1>1, RequestType
  <2>. QED
    BY <2>1 DEF CoreAck, Missed, Access, CacheOp
<1>3. m' = m
  BY <1>2, BufferStep DEF CoreTurn
<1>4. BridgeIdle /\ BridgeIdle'
  BY <1>1 DEF Control, Transfers, BridgeIdle, CoreTurn, bridgeVars
<1>5. PmemAck <=> ans # None
  BY DEF PmemAck, Control, Interface, Cached
<1>. QED
  BY <1>1, <1>2, <1>3, <1>4, <1>5 DEF CoreTurn, Cached, Uncached

(* While the bridge waits the core stands still. *)
LEMMA BridgeTurnFacts ==
    ASSUME Control, Uncached, ans = None, NEW a \in Addrs,
           NEW acc \in BOOLEAN, NEW reply, BridgeTurn(a, acc, reply)
    PROVE  /\ m' \in Idles /\ owed' = owed /\ Uncached' /\ ~Cached' /\ cache_access_q' = cache_access_q
           /\ state_q \in {"RESET", "LOOKUP"} /\ m \in Idles /\ m.kind = "none" /\ ~Missed
           /\ ~BridgeDrops /\ ~BridgeAck /\ ~PmemAck
<1>1. m \in Idles /\ m.kind = "none" /\ ~Cacheable(owed) /\ owed \in Requests
  BY Sides DEF Control, Uncached, Cached
<1>2. state_q \in {"RESET", "LOOKUP"} /\ ~Missed
  <2>1. m.kind \in Kinds
    BY DEF Control, Machine
  <2>. QED
    BY <1>1, <2>1 DEF Kinds, Evicts, Control, Types, States, Missed, Access
<1>3. m' \in Idles
  <2>1. NoReq(a) \in Idles /\ NoReq(Zero) \in Idles
    BY DEF Idles
  <2>2. m' = IF state_q # "LOOKUP" \/ Missed THEN m
             ELSE IF CoreAccept(NoReq(a)) THEN NoReq(a) ELSE NoReq(Zero)
    <3>1. Core(NoReq(a), FALSE)
      BY DEF BridgeTurn
    <3>. QED
      BY <2>1, <3>1, BufferStep
  <2>. QED
    BY <1>1, <2>1, <2>2
<1>4. ~BridgeDrops
  BY <1>1 DEF BridgeDrops, BridgeIssues, Cacheable, Control, Transfers, Bridging
<1>. QED
  BY <1>1, <1>2, <1>3, <1>4 DEF BridgeTurn, Cached, Uncached, BridgeAck, PmemAck, Control, Interface

(* What is accepted at the end of a free cycle is at its side. *)
LEMMA FreeTurnFacts ==
    ASSUME Control, owed = None \/ MemAck, NEW q \in Drives, NEW x,
           FreeTurn(q, CachedReq(q), x)
    PROVE  /\ Cached' <=> (Accepted(q) /\ Cacheable(q))
           /\ Uncached' <=> (Accepted(q) /\ ~Cacheable(q))
           /\ Accepted(q) => q \in Requests
           /\ IF Cached' THEN m' = owed' ELSE m' \in Idles
           /\ Cached' => state_q = "LOOKUP" /\ CoreAccept(q) /\ m' = q /\ CachedReq(q) = q
           /\ state_q = "LOOKUP" => m' = IF CoreAccept(CachedReq(q)) THEN CachedReq(q)
                                         ELSE NoReq(Zero)
           /\ state_q = "RESET" => m' = m /\ m \in Idles
<1>1. q \in Requests => q # None
  BY RequestType
<1>2. Accepted(q) => q \in Requests
  BY AcceptedType
<1>3. owed' = (IF Accepted(q) THEN q ELSE None)
      /\ cache_access_q' = IF Accepted(q) THEN Cacheable(q) ELSE cache_access_q
  BY DEF FreeTurn
<1>4. /\ Cached' <=> (Accepted(q) /\ Cacheable(q))
      /\ Uncached' <=> (Accepted(q) /\ ~Cacheable(q))
  BY <1>1, <1>2, <1>3 DEF Cached, Uncached
<1>5. state_q \in {"RESET", "LOOKUP"} /\ ~Missed /\ (state_q = "RESET" => m \in Idles)
  <2>1. state_q = "RESET" => ~Cached
    <3>1. m.kind \in Kinds
      BY DEF Control, Machine
    <3>. QED
      BY <3>1, Sides DEF Kinds, Evicts, Control
  <2>. QED
    BY <2>1, FreeFacts
<1>6. m' = IF state_q = "RESET" THEN m
           ELSE IF CoreAccept(CachedReq(q)) THEN CachedReq(q) ELSE NoReq(Zero)
  BY <1>5, CoreRequest, BufferStep DEF FreeTurn
<1>7. ASSUME Accepted(q), Cacheable(q)
      PROVE  CachedReq(q) = q /\ CoreAccept(q) /\ state_q = "LOOKUP" /\ m' = q
  <2>1. CachedReq(q) = q /\ CoreAccept(q)
    BY <1>7 DEF Accepted, MemAccept, CachedReq
  <2>. QED
    BY <1>6, <2>1 DEF CoreAccept
<1>8. ASSUME ~(Accepted(q) /\ Cacheable(q)) PROVE m' \in Idles
  <2>1. CASE state_q = "RESET"
    BY <1>5, <1>6, <2>1
  <2>2. CASE state_q # "RESET" /\ CoreAccept(CachedReq(q))
    <3>1. CachedReq(q).kind = "none"
      <4>1. CASE CachedReq(q).kind # "none"
        <5>1. CachedReq(q) = q /\ Cacheable(q) /\ ~Hold(q) /\ q.kind # "none"
          BY <4>1, CoreRequest
        <5>. QED
          BY <1>8, <2>2, <5>1 DEF Accepted, MemAccept
      <4>. QED
        BY <4>1
    <3>. QED
      BY <1>6, <2>2, <3>1, CoreRequest
  <2>3. CASE state_q # "RESET" /\ ~CoreAccept(CachedReq(q))
    BY <1>6, <2>3 DEF Idles
  <2>. QED
    BY <2>1, <2>2, <2>3
<1>. QED
  BY <1>2, <1>3, <1>4, <1>5, <1>6, <1>7, <1>8

(* Every cycle keeps the agreement on the access and its errors. *)
LEMMA InterfaceStep ==
    ASSUME Control, Next PROVE Interface'
<1>1. PICK q \in Drives, acc \in BOOLEAN, reply \in BOOLEAN :
          \/ /\ owed = None \/ MemAck
             /\ FreeTurn(q, CachedReq(q), acc /\ SelectCore(q))
          \/ Cached /\ ~CoreAck /\ CoreTurn(q.addr, acc, reply)
          \/ Uncached /\ ans = None /\ BridgeTurn(q.addr, acc, reply)
  BY Turns
<1>2. Interface
  BY DEF Control
<1>3. ASSUME FreeTurn(q, CachedReq(q), acc /\ SelectCore(q)), owed = None \/ MemAck
      PROVE  Interface'
  <2>1. /\ Cached' <=> (Accepted(q) /\ Cacheable(q))
        /\ Accepted(q) => q \in Requests
        /\ IF Cached' THEN m' = owed' ELSE m' \in Idles
    BY <1>3, FreeTurnFacts
  <2>2. ~error_q'
    <3>1. error_q' = ((PmemAck /\ ans.error) \/ (error_q /\ ~CoreAck))
      BY <1>3 DEF FreeTurn, Core, MemoryRequest
    <3>2. ~PmemAck
      BY <1>3, FreeFacts DEF PmemAck
    <3>3. error_q => CoreAck
      <4>1. error_q => m.kind # "none"
        BY <1>2, Sides DEF Interface, Control
      <4>. QED
        BY <1>3, <4>1, FreeFacts
    <3>. QED
      BY <3>1, <3>2, <3>3
  <2>3. q \in Requests => q # None
    BY RequestType
  <2>. QED
    BY <1>3, <2>1, <2>2, <2>3 DEF Interface, FreeTurn, AnsError, Cached
<1>4. ASSUME Cached, ~CoreAck, CoreTurn(q.addr, acc, reply)
      PROVE  Interface'
  <2>1. /\ m' = m /\ owed' = owed /\ Cached' /\ cache_access_q' = cache_access_q
        /\ PmemAck <=> ans # None
    BY <1>4, CoreRequest, CoreTurnFacts
  <2>2. error_q' = ((PmemAck /\ ans.error) \/ (error_q /\ ~CoreAck))
    BY <1>4 DEF CoreTurn, Core, MemoryRequest
  <2>3. failed' <=> (error_q' \/ AnsError')
    BY <1>2, <1>4, <2>1, <2>2 DEF CoreTurn, Interface, AnsError
  <2>4. pending_q' = pending_q /\ ~dropped_q' /\ (ans' # None => select_q' = cache_access_q')
    BY <1>2, <1>4, <2>1 DEF CoreTurn, bridgeVars, Interface, Cached, Control, Types
  <2>5. cache_access_q' <=> Cacheable(owed')
    BY <1>2, <2>1 DEF Interface, Cached
  <2>. QED
    BY <1>2, <1>4, <2>1, <2>3, <2>4, <2>5 DEF Interface, Cached
<1>5. ASSUME Uncached, ans = None, BridgeTurn(q.addr, acc, reply)
      PROVE  Interface'
  <2>1. /\ m' \in Idles /\ owed' = owed /\ Uncached' /\ ~Cached' /\ cache_access_q' = cache_access_q
        /\ ~BridgeDrops /\ ~PmemAck
    BY <1>5, DrivesType, BridgeTurnFacts
  <2>2. error_q' = ((PmemAck /\ ans.error) \/ (error_q /\ ~CoreAck))
    BY <1>5 DEF BridgeTurn, Core, MemoryRequest
  <2>3. ~error_q /\ ~failed
    BY <1>2, <1>5 DEF Interface, Cached, Uncached, AnsError
  <2>4. ~error_q' /\ (failed' <=> AnsError')
    BY <1>5, <2>1, <2>2, <2>3 DEF BridgeTurn, AnsError
  <2>5. pending_q' = pending_q /\ ~dropped_q' /\ (ans' # None => select_q' = cache_access_q')
    BY <1>5, <2>1 DEF BridgeTurn, Bridge, Uncached, Control, Types
  <2>6. ~cache_access_q' /\ ~Cacheable(owed')
    BY <1>2, <1>5, <2>1 DEF Interface, Uncached
  <2>. QED
    BY <1>2, <1>5, <2>1, <2>4, <2>5, <2>6 DEF Interface
<1>. QED
  BY <1>1, <1>3, <1>4, <1>5

-----------------------------------------------------------------------------
(* The memory port. *)

(* A free cycle ends with an idle port. *)
LEMMA FreeTransfers ==
    ASSUME Control, owed = None \/ MemAck, NEW q \in Drives, NEW x,
           FreeTurn(q, CachedReq(q), x)
    PROVE  Transfers' /\ state_q' \in {"RESET", "LOOKUP", "WRITEBACK", "FLUSH_ADDR", "INVALIDATE"}
<1>1. state_q' \in {"RESET", "LOOKUP", "WRITEBACK", "FLUSH_ADDR", "INVALIDATE"}
  <2>1. state_q' = NextState(CachedReq(q), x)
    BY DEF FreeTurn, Core
  <2>2. state_q \in {"RESET", "LOOKUP"} /\ ~Missed
    BY FreeFacts
  <2>. QED
    BY <2>1, <2>2 DEF NextState
<1>2. Uncached' <=> (Accepted(q) /\ ~Cacheable(q))
  BY FreeTurnFacts
<1>3. CASE Uncached'
  BY <1>1, <1>2, <1>3 DEF FreeTurn, Transfers, Bridging, PortIdle
<1>4. CASE ~Uncached'
  <2>1. BridgeIdle' /\ PortIdle'
    BY <1>2, <1>4 DEF FreeTurn, BridgeIdle, PortIdle
  <2>. QED
    BY <1>1, <1>4, <2>1 DEF Transfers
<1>. QED
  BY <1>1, <1>3, <1>4

(* The bridge asks for the one word and waits for the answer. *)
LEMMA BridgeTransfers ==
    ASSUME Control, Uncached, ans = None, NEW a \in Addrs,
           NEW acc \in BOOLEAN, NEW reply, BridgeTurn(a, acc, reply)
    PROVE  /\ Transfers'
           /\ IF req_fifo = <<>>
              THEN /\ mem' = mem /\ req_fifo' = <<>>
                   /\ owed.kind = "ld" /\ ans' # None => ans'.data = mem[owed.addr]
              ELSE /\ ans' = None
                   /\ IF acc
                      THEN /\ req_fifo' = <<>>
                           /\ mem' = IF owed.kind = "ld" THEN mem
                                     ELSE [mem EXCEPT ![owed.addr] = owed.val]
                      ELSE req_fifo' = req_fifo /\ mem' = mem
<1>. DEFINE beat == [kind |-> IF owed.kind = "ld" THEN "rd" ELSE "wr",
                     burst |-> <<owed.addr>>, data |-> owed.val]
<1>1. /\ owed \in Requests /\ owed.addr \in Addrs /\ owed.val \in Cells
      /\ owed.kind \in {"ld", "st"}
  <2>1. owed \in Requests /\ ~Cacheable(owed)
    BY Sides DEF Control
  <2>. QED
    BY <2>1, RequestType DEF Cacheable, CacheOp
<1>2. Bridging /\ resp_count = 1 /\ request_pending_q \in BOOLEAN
  BY DEF Control, Transfers, Bridging, Types
<1>3. owed' = owed /\ Uncached' /\ ~BridgeDrops /\ ~BridgeAck
  BY BridgeTurnFacts
<1>4. /\ Bridge(NoReq(a), acc) /\ NoReq(a).kind = "none"
      /\ Serve(IF acc THEN BridgeBeat ELSE None, reply)
  BY DEF BridgeTurn, NoReq
<1>5. /\ req_fifo' = (IF BridgeBeat # None /\ acc THEN Tail(req_fifo) ELSE req_fifo) \o <<>>
      /\ resp_count' = 1 + 0 - 0
      /\ request_pending_q' = ((BridgeBeat # None /\ acc) \/ request_pending_q)
  <2>1. request_pending_q' = ((BridgeDrops \/ (BridgeBeat # None /\ acc))
                              \/ (request_pending_q /\ ~BridgeAck))
    BY <1>4, Zenon DEF Bridge, RequestPending
  <2>. QED
    BY <1>2, <1>3, <1>4, <2>1 DEF Bridge
<1>6. resp_count' = 1
  BY <1>5, SMT
<1>7. /\ <<owed>> \o <<>> = <<owed>> /\ <<>> \o <<>> = <<>> /\ Tail(<<owed>>) = <<>>
      /\ Head(<<owed.addr>>) = owed.addr /\ Tail(<<owed.addr>>) = <<>>
      /\ Head(<<owed>>) = owed /\ <<owed>> # <<>> /\ Len(<<owed.addr>>) = 1
      /\ <<owed.addr>> \in Seq(Addrs) \ {<<>>}
  <2>1. <<owed>> \in Seq({owed}) /\ <<>> \in Seq({owed})
    BY SMT
  <2>2. <<owed>> \o <<>> = <<owed>> /\ <<>> \o <<>> = <<>>
    BY <2>1, ConcatEmptySeq
  <2>3. \A e : <<e>> \in Seq({e}) /\ Len(<<e>>) = 1 /\ <<e>> # <<>> /\ Head(<<e>>) = e
    BY SMT
  <2>4. ASSUME NEW e PROVE Tail(<<e>>) = <<>>
    <3>1. Tail(<<e>>) \in Seq({e}) /\ Len(Tail(<<e>>)) = 1 - 1
      BY <2>3, HeadTailProperties
    <3>2. Len(Tail(<<e>>)) = 0
      BY <3>1, SMT
    <3>. QED
      BY <3>1, <3>2, EmptySeq
  <2>5. <<owed.addr>> \in Seq(Addrs)
    BY <1>1
  <2>. QED
    BY <2>2, <2>3, <2>4, <2>5
<1>8. CASE req_fifo = <<owed>> /\ ~request_pending_q /\ PortIdle
  <2>1. BridgeBeat = beat
    BY <1>1, <1>3, <1>7, <1>8 DEF BridgeBeat, BridgeIssues
  <2>2. beat # None
    BY <1>1, <1>7, NotNone DEF Bursts1
  <2>3. CASE acc
    <3>1. Serve(beat, reply) /\ op = None
      BY <1>4, <1>8, <2>1, <2>3 DEF PortIdle
    <3>2. req_fifo' = <<>> /\ request_pending_q'
      BY <1>5, <1>7, <1>8, <2>1, <2>2, <2>3
    <3>3. CASE owed.kind = "ld"
      <4>1. mem' = mem /\ ans' = None
            /\ op' = [kind |-> "rd", at |-> owed.addr, todo |-> <<owed.addr>>]
        BY <1>7, <2>2, <3>1, <3>3, PortReads
      <4>2. Single' = [kind |-> "rd", at |-> owed.addr, todo |-> <<owed.addr>>]
        BY <1>3, <3>3 DEF Single
      <4>. QED
        BY <1>3, <1>6, <1>7, <1>8, <2>3, <3>2, <3>3, <4>1, <4>2 DEF Transfers, Bridging
    <3>4. CASE owed.kind = "st"
      <4>1. ans' = None /\ PutWord(owed.addr, <<owed.addr>>, owed.val)
        BY <1>7, <2>2, <3>1, <3>4, PortWrites
      <4>2. op' = [kind |-> "wr", at |-> owed.addr, todo |-> <<>>]
            /\ mem' = [mem EXCEPT ![owed.addr] = owed.val]
        BY <1>7, <4>1 DEF PutWord
      <4>3. Single' = [kind |-> "wr", at |-> owed.addr, todo |-> <<>>]
        BY <1>3, <3>4 DEF Single
      <4>. QED
        BY <1>3, <1>6, <1>7, <1>8, <2>3, <3>2, <3>4, <4>1, <4>2, <4>3 DEF Transfers, Bridging
    <3>. QED
      BY <1>1, <3>3, <3>4
  <2>4. CASE ~acc
    <3>1. req_fifo' = <<owed>> /\ ~request_pending_q'
      BY <1>5, <1>7, <1>8, <2>4
    <3>2. op' = None /\ ans' = None /\ mem' = mem
      BY <1>4, <1>8, <2>4, PortQuiet DEF PortIdle
    <3>. QED
      BY <1>3, <1>6, <1>7, <1>8, <2>4, <3>1, <3>2 DEF Transfers, Bridging, PortIdle
  <2>. QED
    BY <2>3, <2>4
<1>9. CASE req_fifo = <<>> /\ request_pending_q /\ op = Single
  <2>1. BridgeBeat = None
    BY <1>9 DEF BridgeBeat, BridgeIssues
  <2>2. req_fifo' = <<>> /\ request_pending_q'
    BY <1>5, <1>7, <1>9, <2>1
  <2>3. Serve(None, reply)
    BY <1>4, <2>1
  <2>4. /\ op.kind = IF owed.kind = "ld" THEN "rd" ELSE "wr"
        /\ op.todo = IF owed.kind = "ld" THEN <<owed.addr>> ELSE <<>>
    BY <1>9 DEF Single
  <2>5. op \in Ops /\ mem \in [Addrs -> Cells]
    <3>1. op \in Ops \cup {None} /\ mem \in [Addrs -> Cells]
      BY DEF Control, Types
    <3>2. <<>> \in Seq(Addrs)
      BY EmptySeq
    <3>. QED
      BY <1>1, <1>7, <1>9, <3>1, <3>2 DEF Single, Ops
  <2>6. op.kind = "rd" => op.todo # <<>> /\ Len(op.todo) = 1 /\ Head(op.todo) = owed.addr
    BY <1>7, <2>4
  <2>7. op.kind = "wr" => op.todo = <<>>
    BY <2>4
  <2>8. /\ mem' = mem
        /\ \/ ans' = None /\ op' = op
           \/ /\ ans' # None
              /\ op.kind = "rd" => ans'.data = mem[Head(op.todo)]
              /\ op' = IF op.kind = "rd" /\ Len(op.todo) > 1
                       THEN [op EXCEPT !.todo = Tail(@)] ELSE None
    BY <2>3, <2>5, <2>6, <2>7, PortAnswers
  <2>9. ans' # None => op' = None /\ (owed.kind = "ld" => ans'.data = mem[owed.addr])
    <3>0. ~(1 > 1)
      BY SMT
    <3>1. op.kind = "rd" => ~(Len(op.todo) > 1)
      BY <2>6, <3>0, Zenon
    <3>. QED
      BY <2>4, <2>6, <2>8, <3>1
  <2>10. Single' = Single
    BY <1>3 DEF Single
  <2>. QED
    BY <1>3, <1>6, <1>9, <2>2, <2>8, <2>9, <2>10 DEF Transfers, Bridging
<1>. QED
  BY <1>2, <1>8, <1>9 DEF Bridging

(* The line that is written back stays chosen. *)
LEMMA EvictKeeps ==
    ASSUME Control, NEW c \in Requests \cup Idles, NEW acc, Core(c, acc), Evicts, Evicts'
    PROVE  /\ m' = m /\ flushing_q' = flushing_q /\ flush_addr_q' = flush_addr_q
           /\ EvictSet' = EvictSet
           /\ tag_ram' = tag_ram /\ \A w \in Ways : tag_o'[w] = tag_o[w]
           /\ replace_way_q' = replace_way_q /\ replace_way_q \in Ways
<1>. DEFINE next == NextState(c, acc)
<1>1. /\ state_q' = next /\ TagRam(c, next) /\ FlushCounter(next) /\ Replacement(next)
      /\ m' = IF state_q # "LOOKUP" \/ Missed THEN m
              ELSE IF CoreAccept(c) THEN c ELSE NoReq(Zero)
  BY BufferStep DEF Core
<1>2. /\ state_q \in {"EVICT", "EVICT_WAIT"} /\ next \in {"EVICT", "EVICT_WAIT"}
      /\ state_q = "EVICT_WAIT" => ~PmemAck
  BY <1>1 DEF Evicts, NextState
<1>3. /\ m' = m /\ flushing_q' = flushing_q /\ flush_addr_q' = flush_addr_q
      /\ EvictSet' = EvictSet
  BY <1>1, <1>2 DEF FlushCounter, EvictSet
<1>4. tag_ram' = tag_ram
  <2>1. \A w \in Ways : ~TagWrites(w)
    BY <1>2 DEF TagWrites
  <2>. QED
    BY <1>1, <2>1, TagsWritten DEF Control
<1>5. \A w \in Ways : tag_o'[w] = tag_o[w]
  <2>1. LooksUp /\ LooksUp'
    BY DEF LooksUp, Evicts
  <2>. QED
    BY <1>3, <1>4, <2>1, FreshTagsStep DEF Control, FreshTags
<1>6. replace_way_q' = replace_way_q
  <2>1. flushing_q => EvictWay
    BY DEF Control, Machine, Evicts
  <2>. QED
    BY <1>1, <1>2, <2>1 DEF Replacement
<1>. QED
  BY <1>3, <1>4, <1>5, <1>6 DEF Control, Types

(* The core asks for its line until it is accepted. *)
LEMMA RefillStarts ==
    ASSUME Control, Access(m), op = None, NEW c, NEW next, NEW acc \in BOOLEAN, NEW reply,
           CoreReads(next), MemoryRequest(next, acc), m' = m, state_q' = "REFILL",
           Serve(IF acc THEN CoreBeat(next) ELSE None, reply)
    PROVE  Refilling' /\ mem' = mem /\ ans' = None
           /\ (~pmem_rd_q' => pmem_len_q' = LineWords - 1)
<1>. DEFINE line == Line(m.addr.set, m.addr.tag)
<1>1. KnownLine(m.addr.set, m.addr.tag)
  BY AccessLine
<1>2. LineWords \in 0 .. LineWords /\ LineWords # 0 /\ LineWords \in Int
  BY DcacheAssumption, SMT
<1>3. /\ line = Rest(m.addr.set, m.addr.tag, LineWords) /\ line \in Seq(Addrs)
      /\ line # <<>> /\ Head(line) = Word(m.addr.set, m.addr.tag, LineWords - LineWords)
  BY <1>1, <1>2, RestSeq, LineIsRest
<1>4. CoreBeat(next) = [kind |-> "rd", burst |-> line, data |-> None]
  BY DEF CoreBeat
<1>5. CoreBeat(next) # None
  <2>1. [kind |-> "rd", burst |-> line, data |-> None] \in Bursts1
    BY <1>3 DEF Bursts1, Cells
  <2>. QED
    BY <1>4, <2>1, NotNone
<1>7. CASE acc
  <2>1. /\ mem' = mem /\ ans' = None
        /\ op' = [kind |-> "rd", at |-> Head(line), todo |-> line]
    BY <1>4, <1>5, <1>7, PortReads
  <2>2. ~pmem_rd_q' /\ pmem_len_q' = LineWords - 1
    BY <1>7 DEF MemoryRequest
  <2>3. LineWords - LineWords = 0 /\ LineWords - 1 + 1 - 0 = LineWords /\ LineWords - 1 < LineWords
    BY <1>2, SMT
  <2>4. op' = Reading(m.addr.set, m.addr.tag, LineWords)
    BY <1>3, <2>1, <2>3 DEF Reading
  <2>. QED
    BY <1>2, <2>1, <2>2, <2>3, <2>4 DEF Refilling, Reading, Rest, Word
<1>8. CASE ~acc
  <2>1. op' = None /\ ans' = None /\ mem' = mem
    BY <1>8, PortQuiet
  <2>2. pmem_rd_q'
    BY <1>8 DEF MemoryRequest
  <2>. QED
    BY <2>1, <2>2 DEF Refilling, PortIdle
<1>. QED
  BY <1>7, <1>8

(* States in which the port is idle. *)
Silent == {"READ", "WRITE", "INVALIDATE", "WRITEBACK", "FLUSH_ADDR", "FLUSH"}

(* From there no transfer is under way until one is started. *)
LEMMA SilentTransfers ==
    ASSUME Control, Cached, ~CoreAck, NEW q \in Drives,
           NEW acc \in BOOLEAN, NEW reply, CoreTurn(q.addr, acc, reply),
           state_q \in Silent \/ (state_q = "LOOKUP" /\ EvictWay)
    PROVE  /\ Transfers' /\ mem' = mem /\ ans' = None /\ state_q' # "REFILL"
           /\ state_q' = "EVICT" => Entering("EVICT", state_q') /\ pmem_len_q' = LineWords - 1
<1>. DEFINE c == NoReq(q.addr)
<1>1. /\ m' = m /\ BridgeIdle' /\ ~Uncached' /\ ~Uncached /\ c \in Requests \cup Idles
      /\ state_q = "LOOKUP" => Missed
  BY CoreRequest, CoreTurnFacts
<1>2. /\ Core(c, acc) /\ Serve(IF acc THEN CoreBeat(NextState(c, TRUE)) ELSE None, reply)
      /\ state_q' = NextState(c, acc) /\ MemoryRequest(NextState(c, acc), acc)
  BY DEF CoreTurn, Core
<1>. HIDE DEF c
<1>3. PortIdle
  BY <1>1 DEF Control, Transfers, Silent
<1>4. \A x : NextState(c, x) \notin {"REFILL", "EVICT_WAIT"}
  BY <1>1 DEF NextState, Silent
<1>5. ~pmem_rd_q /\ ~CoreWrites
  BY DEF Control, Machine, CoreWrites, Silent
<1>6. CoreBeat(NextState(c, TRUE)) = None
  BY <1>4, <1>5 DEF CoreBeat, CoreReads, Entering
<1>7. op' = None /\ ans' = None /\ mem' = mem
  BY <1>2, <1>3, <1>6, PortQuiet DEF PortIdle
<1>8. state_q' = "EVICT" => Entering("EVICT", state_q') /\ pmem_len_q' = LineWords - 1
  <2>1. state_q # "EVICT"
    BY DEF Silent
  <2>. QED
    BY <1>2, <2>1 DEF Entering, MemoryRequest
<1>9. state_q' = "EVICT" => Evicting'
  <2>1. LineWords \in Int /\ LineWords - 1 < LineWords
    BY DcacheAssumption, SMT
  <2>. QED
    BY <1>7, <1>8, <2>1 DEF Evicting
<1>. QED
  BY <1>1, <1>2, <1>4, <1>7, <1>8, <1>9 DEF Transfers, PortIdle

(* The first request for a line that no dirty line has to make room for.   *)
LEMMA MissTransfers ==
    ASSUME Control, Cached, ~CoreAck, NEW q \in Drives,
           NEW acc \in BOOLEAN, NEW reply, CoreTurn(q.addr, acc, reply),
           state_q = "LOOKUP", ~EvictWay
    PROVE  /\ Transfers' /\ mem' = mem /\ ans' = None /\ state_q' = "REFILL"
           /\ (~pmem_rd_q' => pmem_len_q' = LineWords - 1)
<1>. DEFINE c == NoReq(q.addr)
<1>1. /\ m' = m /\ BridgeIdle' /\ ~Uncached' /\ ~Uncached /\ c \in Requests \cup Idles /\ Missed
  BY CoreRequest, CoreTurnFacts
<1>2. /\ Core(c, acc) /\ Serve(IF acc THEN CoreBeat(NextState(c, TRUE)) ELSE None, reply)
      /\ state_q' = NextState(c, acc) /\ MemoryRequest(NextState(c, acc), acc)
  BY DEF CoreTurn, Core
<1>. HIDE DEF c
<1>3. PortIdle
  BY <1>1 DEF Control, Transfers
<1>4. \A x : NextState(c, x) = "REFILL"
  BY <1>1 DEF NextState
<1>5. CoreReads("REFILL")
  BY DEF CoreReads, Entering
<1>6. Refilling' /\ mem' = mem /\ ans' = None /\ (~pmem_rd_q' => pmem_len_q' = LineWords - 1)
  <2>1. MemoryRequest("REFILL", acc) /\ Serve(IF acc THEN CoreBeat("REFILL") ELSE None, reply)
    BY <1>2, <1>4
  <2>2. Access(m) /\ op = None /\ state_q' = "REFILL"
    BY <1>1, <1>2, <1>3, <1>4 DEF Missed, PortIdle
  <2>. QED
    BY <1>1, <1>5, <2>1, <2>2, RefillStarts
<1>. QED
  BY <1>1, <1>2, <1>4, <1>6 DEF Transfers

(* Words of the line are answered one by one, pmem_len_q counts them.      *)
LEMMA RefillTransfers ==
    ASSUME Control, Cached, ~CoreAck, NEW q \in Drives,
           NEW acc \in BOOLEAN, NEW reply, CoreTurn(q.addr, acc, reply),
           state_q = "REFILL"
    PROVE  /\ Transfers' /\ mem' = mem
           /\ IF PmemAck /\ LastBeat THEN state_q' \in {"READ", "WRITE"}
              ELSE /\ state_q' = "REFILL"
                   /\ pmem_rd_q => ans = None /\ ans' = None
                                   /\ (~pmem_rd_q' => pmem_len_q' = LineWords - 1)
                   /\ ~pmem_rd_q =>
                         /\ ~pmem_rd_q'
                         /\ pmem_len_q' = pmem_len_q - (IF ans = None THEN 0 ELSE 1)
                         /\ pmem_len_q' \in 0 .. LineWords - 1
                         /\ ans' # None =>
                               ans'.data = mem[Word(m.addr.set, m.addr.tag, LineWords - 1 - pmem_len_q')]
<1>. DEFINE c == NoReq(q.addr)
            set == m.addr.set
            tag == m.addr.tag
<1>1. /\ m' = m /\ BridgeIdle' /\ ~Uncached' /\ ~Uncached /\ c \in Requests \cup Idles
      /\ PmemAck <=> ans # None
  BY CoreRequest, CoreTurnFacts
<1>2. /\ Core(c, acc) /\ Serve(IF acc THEN CoreBeat(NextState(c, TRUE)) ELSE None, reply)
      /\ state_q' = NextState(c, acc) /\ MemoryRequest(NextState(c, acc), acc)
  BY DEF CoreTurn, Core
<1>. HIDE DEF c
<1>3. Access(m) /\ Refilling
  BY <1>1 DEF Control, Machine, Kinds, Evicts, Access, Transfers
<1>4. \A x : NextState(c, x) = IF PmemAck /\ LastBeat
                               THEN IF m.kind = "st" THEN "WRITE" ELSE "READ" ELSE "REFILL"
  BY DEF NextState
<1>5. CASE pmem_rd_q
  <2>1. op = None /\ ans = None
    BY <1>3, <1>5 DEF Refilling, PortIdle
  <2>2. \A x : NextState(c, x) = "REFILL"
    BY <1>1, <1>4, <2>1
  <2>3. Refilling' /\ mem' = mem /\ ans' = None /\ (~pmem_rd_q' => pmem_len_q' = LineWords - 1)
    <3>1. MemoryRequest("REFILL", acc) /\ Serve(IF acc THEN CoreBeat("REFILL") ELSE None, reply)
          /\ state_q' = "REFILL" /\ CoreReads("REFILL")
      BY <1>2, <1>5, <2>2 DEF CoreReads
    <3>. QED
      BY <1>1, <1>3, <2>1, <3>1, RefillStarts
  <2>. QED
    BY <1>1, <1>2, <1>5, <2>1, <2>2, <2>3 DEF Transfers
<1>6. CASE ~pmem_rd_q
  <2>1. /\ pmem_len_q \in 0 .. 255 /\ pmem_len_q < LineWords /\ LineWords \in 2 .. 256
        /\ mem \in [Addrs -> Cells] /\ op \in Ops \cup {None}
    BY <1>3, <1>6, DcacheAssumption DEF Refilling, Control, Types
  <2>2. /\ Serve(None, reply) /\ ~pmem_rd_q'
        /\ pmem_len_q' = IF ans # None THEN (pmem_len_q - 1) % 256 ELSE pmem_len_q
    <3>1. ~CoreWrites /\ \A x : ~CoreReads(NextState(c, x))
      BY <1>6 DEF CoreWrites, CoreReads, Entering, Control, Machine
    <3>2. CoreBeat(NextState(c, TRUE)) = None
      BY <3>1 DEF CoreBeat
    <3>3. ~pmem_rd_q'
      BY <1>2, <3>1 DEF MemoryRequest
    <3>4. pmem_len_q' = IF ans # None THEN (pmem_len_q - 1) % 256 ELSE pmem_len_q
      <4>1. ~Entering("EVICT", NextState(c, acc))
        BY <1>4 DEF Entering
      <4>. QED
        BY <1>1, <1>2, <3>1, <4>1 DEF MemoryRequest
    <3>. QED
      BY <1>2, <3>2, <3>3, <3>4
  <2>. DEFINE left == pmem_len_q + 1 - (IF ans = None THEN 0 ELSE 1)
  <2>3. op = IF left = 0 THEN None ELSE Reading(set, tag, left)
    BY <1>3, <1>6 DEF Refilling
  <2>4. left \in 0 .. LineWords /\ (left = 0 <=> (ans # None /\ pmem_len_q = 0))
    BY <2>1, SMT
  <2>5. CASE left = 0
    <3>1. PmemAck /\ LastBeat
      BY <1>1, <2>4, <2>5 DEF LastBeat
    <3>2. op' = None /\ ans' = None /\ mem' = mem
      BY <2>2, <2>3, <2>5, PortQuiet
    <3>3. state_q' \in {"READ", "WRITE"}
      BY <1>2, <1>4, <3>1
    <3>. QED
      BY <1>1, <3>1, <3>2, <3>3 DEF Transfers, PortIdle
  <2>6. CASE left # 0
    <3>1. ~(PmemAck /\ LastBeat) /\ state_q' = "REFILL"
      BY <1>1, <1>2, <1>4, <2>4, <2>6 DEF LastBeat
    <3>2. /\ pmem_len_q' = pmem_len_q - (IF ans = None THEN 0 ELSE 1)
          /\ pmem_len_q' \in 0 .. LineWords - 1 /\ pmem_len_q' < LineWords
          /\ left = pmem_len_q' + 1
      BY <2>1, <2>2, <2>4, <2>6, SMT
    <3>3. /\ op = Reading(set, tag, left) /\ op # None /\ op \in Ops
          /\ op.kind = "rd" /\ op.todo = Rest(set, tag, left)
      <4>1. op = Reading(set, tag, left)
        BY <2>3, <2>6
      <4>2. Reading(set, tag, left).kind = "rd" /\ Reading(set, tag, left).todo = Rest(set, tag, left)
        BY DEF Reading
      <4>3. op # None
        <5>1. Rest(set, tag, left) \in Seq(Addrs) /\ Word(set, tag, 0) \in Addrs
          <6>1. 0 \in Columns
            BY <2>1, SMT DEF Columns
          <6>. QED
            BY <1>3, <2>4, <6>1, AccessLine, RestSeq DEF KnownLine
        <5>2. Reading(set, tag, left) \in Ops
          BY <5>1 DEF Reading, Ops
        <5>. QED
          BY <4>1, <5>2, NotNone
      <4>. QED
        BY <2>1, <4>1, <4>2, <4>3
    <3>4. /\ op.todo # <<>> /\ Len(op.todo) = left
          /\ Head(op.todo) = Word(set, tag, LineWords - left)
          /\ Tail(op.todo) = Rest(set, tag, left - 1)
      <4>1. KnownLine(set, tag) /\ left \in 0 .. LineWords /\ left # 0
        BY <1>3, <2>4, <2>6, AccessLine
      <4>2. /\ Len(Rest(set, tag, left)) = left /\ Rest(set, tag, left) # <<>>
            /\ Head(Rest(set, tag, left)) = Word(set, tag, LineWords - left)
            /\ Tail(Rest(set, tag, left)) = Rest(set, tag, left - 1)
        <5>. HIDE DEF set, tag, left
        <5>. QED
          BY <4>1, RestSeq
      <4>. QED
        BY <3>3, <4>2
    <3>5. /\ mem' = mem
          /\ \/ ans' = None /\ op' = op
             \/ /\ ans' # None
                /\ op.kind = "rd" => ans'.data = mem[Head(op.todo)]
                /\ op' = IF op.kind = "rd" /\ Len(op.todo) > 1
                         THEN [op EXCEPT !.todo = Tail(@)] ELSE None
      BY <2>1, <2>2, <3>3, <3>4, PortAnswers
    <3>6. ans' # None =>
             ans'.data = mem[Word(set, tag, LineWords - 1 - pmem_len_q')]
      <4>1. LineWords - left = LineWords - 1 - pmem_len_q'
        BY <2>1, <3>2, SMT
      <4>. QED
        BY <3>3, <3>4, <3>5, <4>1
    <3>7. Refilling'
      <4>1. CASE ans' = None /\ op' = op
        <5>1. pmem_len_q' + 1 - 0 = left
          BY <3>2, SMT
        <5>. QED
          BY <1>1, <2>2, <2>6, <3>2, <3>3, <4>1, <5>1 DEF Refilling, Reading, Rest, Word
      <4>2. CASE ans' # None
        <5>1. pmem_len_q' + 1 - 1 = left - 1 /\ (left - 1 = 0 <=> ~(left > 1))
          BY <2>4, <2>6, <3>2, SMT
        <5>2. op' = IF left > 1 THEN [op EXCEPT !.todo = Rest(set, tag, left - 1)] ELSE None
          BY <3>3, <3>4, <3>5, <4>2
        <5>3. [op EXCEPT !.todo = Rest(set, tag, left - 1)] = Reading(set, tag, left - 1)
          BY <3>3 DEF Reading
        <5>. QED
          BY <1>1, <2>2, <3>2, <4>2, <5>1, <5>2, <5>3 DEF Refilling, Reading, Rest, Word
      <4>. QED
        BY <3>5, <4>1, <4>2
    <3>. QED
      BY <1>1, <1>6, <2>2, <3>1, <3>2, <3>5, <3>6, <3>7 DEF Transfers
  <2>. QED
    BY <2>5, <2>6
<1>. QED
  BY <1>5, <1>6

(* The word that is on the port in EVICT. *)
EvictWord == IF pmem_wr_q THEN pmem_write_data_q ELSE data_o[replace_way_q]
EvictTag  == tag_o[replace_way_q].t

(* Words of the line are taken one by one, pmem_len_q counts them.         *)
LEMMA EvictTransfers ==
    ASSUME Control, Cached, ~CoreAck, NEW q \in Drives,
           NEW acc \in BOOLEAN, NEW reply, CoreTurn(q.addr, acc, reply),
           state_q = "EVICT"
    PROVE  /\ Transfers' /\ Evicts' /\ ans' = None
           /\ pmem_len_q \in 0 .. LineWords - 1
           /\ IF acc
              THEN /\ mem' = [mem EXCEPT ![Word(EvictSet, EvictTag, LineWords - 1 - pmem_len_q)]
                                             = EvictWord]
                   /\ ~pmem_wr_q'
                   /\ IF LastBeat THEN state_q' = "EVICT_WAIT"
                      ELSE state_q' = "EVICT" /\ pmem_len_q' = pmem_len_q - 1
              ELSE /\ mem' = mem /\ state_q' = "EVICT" /\ pmem_len_q' = pmem_len_q
                   /\ pmem_wr_q' /\ pmem_write_data_q' = EvictWord
<1>. DEFINE c == NoReq(q.addr)
            set == EvictSet
            tag == EvictTag
            line == Line(set, tag)
            beat == [kind |-> "wr", burst |-> line, data |-> EvictWord]
            left == pmem_len_q + 1
<1>1. /\ m' = m /\ BridgeIdle' /\ ~Uncached' /\ ~Uncached /\ c \in Requests \cup Idles
  BY CoreRequest, CoreTurnFacts
<1>2. /\ Core(c, acc) /\ Serve(IF acc THEN CoreBeat(NextState(c, TRUE)) ELSE None, reply)
      /\ state_q' = NextState(c, acc) /\ MemoryRequest(NextState(c, acc), acc)
  BY DEF CoreTurn, Core
<1>. HIDE DEF c
<1>3. Evicting
  BY <1>1 DEF Control, Transfers
<1>4. state_q' = (IF acc /\ LastBeat THEN "EVICT_WAIT" ELSE "EVICT") /\ Evicts /\ Evicts'
  BY <1>2 DEF NextState, Evicts
<1>5. /\ EvictSet' = EvictSet /\ EvictTag' = EvictTag
      /\ KnownLine(set, tag)
  BY <1>1, <1>2, <1>4, EvictKeeps, EvictLine DEF EvictTag
<1>6. CoreWrites /\ ~CoreReads(NextState(c, acc)) /\ ~CoreReads(NextState(c, TRUE))
  <2>1. ~pmem_rd_q /\ (EvictWay \/ m.kind = "wb")
    BY DEF Control, Machine, Evicts
  <2>2. \A x : NextState(c, x) # "REFILL"
    BY DEF NextState
  <2>. QED
    BY <2>1, <2>2 DEF CoreWrites, CoreReads, Entering
<1>7. CoreBeat(NextState(c, acc)) = beat /\ CoreBeat(NextState(c, TRUE)) = beat
  BY <1>6 DEF CoreBeat, EvictWord, EvictTag
<1>8. /\ pmem_len_q \in 0 .. LineWords - 1 /\ pmem_len_q \in 0 .. 255
      /\ LineWords \in 2 .. 256 /\ LineWords \in Int /\ LineWords # 0
      /\ left \in 0 .. LineWords /\ left # 0 /\ LineWords \in 0 .. LineWords
      /\ LineWords - left = LineWords - 1 - pmem_len_q /\ left - 1 = pmem_len_q
      /\ (pmem_len_q = LineWords - 1 <=> left = LineWords)
  <2>1. pmem_len_q \in 0 .. 255 /\ pmem_len_q < LineWords /\ LineWords \in 2 .. 256
    BY <1>3, DcacheAssumption DEF Control, Types, Evicting
  <2>. QED
    BY <2>1, SMT
<1>9. /\ ans = None
      /\ op = IF left = LineWords THEN None ELSE Writing(set, tag, left)
  BY <1>3, <1>8 DEF Evicting, EvictTag
<1>. DEFINE at == Word(set, tag, LineWords - left)
<1>10. /\ Rest(set, tag, left) # <<>> /\ Head(Rest(set, tag, left)) = at
       /\ Tail(Rest(set, tag, left)) = Rest(set, tag, left - 1)
       /\ line = Rest(set, tag, LineWords) /\ line \in Seq(Addrs) \ {<<>>}
       /\ Word(set, tag, 0) \in Addrs
  <2>1. /\ Rest(set, tag, left) # <<>> /\ Head(Rest(set, tag, left)) = at
        /\ Tail(Rest(set, tag, left)) = Rest(set, tag, left - 1)
    <3>. HIDE DEF set, tag, left
    <3>. QED
      BY <1>5, <1>8, RestSeq
  <2>2. line = Rest(set, tag, LineWords) /\ line \in Seq(Addrs) \ {<<>>}
    <3>. HIDE DEF set, tag
    <3>. QED
      BY <1>5, <1>8, RestSeq, LineIsRest
  <2>3. 0 \in Columns
    BY <1>8, SMT DEF Columns
  <2>. QED
    BY <1>5, <2>1, <2>2, <2>3 DEF KnownLine
<1>11. \/ op = None /\ left = LineWords
       \/ op # None /\ op = Writing(set, tag, left) /\ AwaitsData
  <2>1. CASE left = LineWords
    BY <1>9, <2>1
  <2>2. CASE left # LineWords
    <3>1. op = Writing(set, tag, left) /\ op \in Ops \cup {None}
      BY <1>9, <2>2 DEF Control, Types
    <3>2. op # None
      <4>1. Rest(set, tag, left) \in Seq(Addrs)
        <5>. HIDE DEF set, tag, left
        <5>. QED
          BY <1>5, <1>8, RestSeq
      <4>2. Writing(set, tag, left) \in Ops
        BY <1>10, <4>1 DEF Writing, Ops
      <4>. QED
        BY <3>1, <4>2, NotNone
    <3>3. op.kind = "wr" /\ op.todo = Rest(set, tag, left)
      BY <3>1 DEF Writing
    <3>. QED
      BY <3>1, <3>2, <3>3, <1>10 DEF AwaitsData
  <2>. QED
    BY <2>1, <2>2
<1>12. CASE acc
  <2>1. beat # None /\ beat.kind = "wr" /\ beat.burst = line /\ beat.data = EvictWord
    <3>1. EvictWord \in Cells
      BY DEF EvictWord, Control, Types
    <3>2. beat \in Bursts1
      BY <1>10, <3>1 DEF Bursts1
    <3>. QED
      BY <3>2, NotNone
  <2>2. /\ ans' = None
        /\ IF op = None THEN PutWord(Head(line), line, EvictWord)
           ELSE PutWord(op.at, op.todo, EvictWord)
    <3>1. Serve(beat, reply)
      BY <1>2, <1>7, <1>12
    <3>2. op = None \/ AwaitsData
      BY <1>11
    <3>. HIDE DEF beat
    <3>3. /\ ans' = None
          /\ IF op = None THEN PutWord(Head(beat.burst), beat.burst, beat.data)
             ELSE PutWord(op.at, op.todo, beat.data)
      BY <2>1, <3>1, <3>2, PortWrites
    <3>. QED
      BY <2>1, <3>3
  <2>3. mem' = [mem EXCEPT ![at] = EvictWord] /\ op' = Writing(set, tag, left - 1)
    <3>1. CASE op = None
      <4>1. left = LineWords
        BY <1>11, <3>1
      <4>2. Head(line) = at /\ Tail(line) = Rest(set, tag, left - 1) /\ at = Word(set, tag, 0)
        <5>1. LineWords - LineWords = 0
          BY <1>8, SMT
        <5>. QED
          BY <1>10, <4>1, <5>1
      <4>. QED
        BY <2>2, <3>1, <4>2 DEF PutWord, Writing
    <3>2. CASE op # None
      <4>1. op.at = Word(set, tag, 0) /\ op.todo = Rest(set, tag, left)
        BY <1>11, <3>2 DEF Writing
      <4>. QED
        BY <1>10, <2>2, <3>2, <4>1 DEF PutWord, Writing
    <3>. QED
      BY <3>1, <3>2
  <2>4. ~pmem_wr_q' /\ pmem_len_q' = (pmem_len_q - 1) % 256
    <3>1. ~Entering("EVICT", NextState(c, acc))
      BY DEF Entering
    <3>. QED
      BY <1>2, <1>6, <1>12, <3>1 DEF MemoryRequest
  <2>5. CASE LastBeat
    <3>1. left - 1 = 0
      BY <1>8, <2>5 DEF LastBeat
    <3>2. state_q' = "EVICT_WAIT"
      BY <1>4, <1>12, <2>5
    <3>3. Evicted'
      BY <1>5, <2>2, <2>3, <3>1 DEF Evicted, Writing, Rest, Word, EvictTag
    <3>. QED
      BY <1>1, <1>4, <1>8, <1>12, <2>2, <2>3, <2>4, <2>5, <3>2, <3>3 DEF Transfers
  <2>6. CASE ~LastBeat
    <3>1. /\ pmem_len_q' = pmem_len_q - 1 /\ pmem_len_q' < LineWords
          /\ pmem_len_q' # LineWords - 1 /\ pmem_len_q' + 1 = left - 1
      <4>1. pmem_len_q # 0
        BY <2>6 DEF LastBeat
      <4>. QED
        BY <1>8, <2>4, <4>1, SMT
    <3>2. state_q' = "EVICT"
      BY <1>4, <1>12, <2>6
    <3>3. Evicting'
      BY <1>5, <2>2, <2>3, <3>1 DEF Evicting, Writing, Rest, Word, EvictTag
    <3>. QED
      BY <1>1, <1>4, <1>8, <1>12, <2>2, <2>3, <2>4, <2>6, <3>1, <3>2, <3>3 DEF Transfers
  <2>. QED
    BY <2>5, <2>6
<1>13. CASE ~acc
  <2>1. mem' = mem /\ op' = op /\ ans' = None
    <3>1. Serve(None, reply)
      BY <1>2, <1>13
    <3>. QED
      BY <1>11, <3>1, PortWaits
  <2>2. pmem_wr_q' /\ pmem_write_data_q' = EvictWord /\ pmem_len_q' = pmem_len_q
    <3>1. ~Entering("EVICT", NextState(c, acc))
      BY DEF Entering
    <3>2. pmem_wr_q'
      BY <1>2, <1>6, <1>13 DEF MemoryRequest
    <3>3. pmem_write_data_q' = CoreBeat(NextState(c, acc)).data
      BY <1>2, <1>6, <1>13 DEF MemoryRequest
    <3>4. pmem_write_data_q' = EvictWord
      BY <1>7, <3>3
    <3>5. pmem_len_q' = pmem_len_q
      BY <1>2, <1>6, <1>13, <3>1 DEF MemoryRequest
    <3>. QED
      BY <3>2, <3>4, <3>5
  <2>3. state_q' = "EVICT"
    BY <1>4, <1>13
  <2>4. Evicting'
    BY <1>3, <1>5, <2>1, <2>2 DEF Evicting, Writing, Rest, Word, EvictTag
  <2>. QED
    BY <1>1, <1>4, <1>8, <1>13, <2>1, <2>2, <2>3, <2>4 DEF Transfers
<1>. QED
  BY <1>12, <1>13

(* The one answer to a line that was written back. *)
LEMMA EvictedTransfers ==
    ASSUME Control, Cached, ~CoreAck, NEW q \in Drives,
           NEW acc \in BOOLEAN, NEW reply, CoreTurn(q.addr, acc, reply),
           state_q = "EVICT_WAIT"
    PROVE  /\ Transfers' /\ mem' = mem
           /\ state_q' = IF ~PmemAck THEN "EVICT_WAIT" ELSE IF m.kind = "wb" THEN "LOOKUP"
                         ELSE IF flushing_q THEN "FLUSH_ADDR" ELSE "REFILL"
           /\ state_q' = "REFILL" => ans' = None /\ (~pmem_rd_q' => pmem_len_q' = LineWords - 1)
<1>. DEFINE c == NoReq(q.addr)
<1>1. /\ m' = m /\ BridgeIdle' /\ ~Uncached' /\ ~Uncached /\ c \in Requests \cup Idles
      /\ PmemAck <=> ans # None
  BY CoreRequest, CoreTurnFacts
<1>2. /\ Core(c, acc) /\ Serve(IF acc THEN CoreBeat(NextState(c, TRUE)) ELSE None, reply)
      /\ state_q' = NextState(c, acc) /\ MemoryRequest(NextState(c, acc), acc)
  BY DEF CoreTurn, Core
<1>. HIDE DEF c
<1>3. Evicted
  BY <1>1 DEF Control, Transfers
<1>4. \A x : NextState(c, x) = IF ~PmemAck THEN "EVICT_WAIT" ELSE IF m.kind = "wb" THEN "LOOKUP"
                               ELSE IF flushing_q THEN "FLUSH_ADDR" ELSE "REFILL"
  BY DEF NextState
<1>5. ~pmem_rd_q /\ ~CoreWrites
  BY DEF Control, Machine, CoreWrites
<1>6. CASE ans = None
  <2>1. \A x : NextState(c, x) = "EVICT_WAIT"
    BY <1>1, <1>4, <1>6
  <2>2. CoreBeat(NextState(c, TRUE)) = None
    BY <1>5, <2>1 DEF CoreBeat, CoreReads, Entering
  <2>3. op = Writing(EvictSet, EvictTag, 0) /\ op \in Ops /\ op # None
    <3>1. op = Writing(EvictSet, EvictTag, 0) /\ op \in Ops \cup {None}
      BY <1>3, <1>6 DEF Evicted, EvictTag, Control, Types
    <3>2. op # None
      <4>1. KnownLine(EvictSet, EvictTag) /\ 0 \in Columns /\ 0 \in 0 .. LineWords
        BY EvictLine, DcacheAssumption, SMT DEF Evicts, EvictTag, Columns
      <4>2. Rest(EvictSet, EvictTag, 0) \in Seq(Addrs) /\ Word(EvictSet, EvictTag, 0) \in Addrs
        BY <4>1, RestSeq DEF KnownLine
      <4>3. Writing(EvictSet, EvictTag, 0) \in Ops
        BY <4>2 DEF Writing, Ops
      <4>. QED
        BY <3>1, <4>3, NotNone
    <3>. QED
      BY <3>1, <3>2
  <2>4. op.kind = "wr" /\ op.todo = <<>>
    <3>1. KnownLine(EvictSet, EvictTag) /\ 0 \in 0 .. LineWords
      BY EvictLine, DcacheAssumption, SMT DEF Evicts, EvictTag
    <3>2. Rest(EvictSet, EvictTag, 0) = <<>>
      BY <3>1, RestSeq
    <3>. QED
      BY <2>3, <3>2 DEF Writing
  <2>5. mem' = mem /\ ((ans' = None /\ op' = op) \/ (ans' # None /\ op' = None))
    <3>1. Serve(None, reply) /\ mem \in [Addrs -> Cells]
      BY <1>2, <2>2 DEF Control, Types
    <3>2. /\ mem' = mem
          /\ \/ ans' = None /\ op' = op
             \/ /\ ans' # None
                /\ op.kind = "rd" => ans'.data = mem[Head(op.todo)]
                /\ op' = IF op.kind = "rd" /\ Len(op.todo) > 1
                         THEN [op EXCEPT !.todo = Tail(@)] ELSE None
      BY <2>3, <2>4, <3>1, PortAnswers
    <3>. QED
      BY <2>4, <3>2
  <2>6. state_q' = "EVICT_WAIT"
    BY <1>2, <2>1
  <2>7. EvictSet' = EvictSet /\ EvictTag' = EvictTag
    <3>1. Evicts /\ Evicts'
      BY <2>6 DEF Evicts
    <3>. QED
      BY <1>1, <1>2, <3>1, EvictKeeps DEF EvictTag
  <2>8. Evicted'
    BY <2>3, <2>5, <2>7 DEF Evicted, Writing, Rest, Word, EvictTag
  <2>. QED
    BY <1>1, <1>2, <1>4, <2>5, <2>6, <2>8 DEF Transfers
<1>7. CASE ans # None
  <2>1. op = None
    BY <1>3, <1>7 DEF Evicted
  <2>2. CASE m.kind # "wb" /\ ~flushing_q
    <3>1. \A x : NextState(c, x) = "REFILL"
      BY <1>1, <1>4, <1>7, <2>2
    <3>2. Access(m)
      BY <2>2 DEF Control, Machine, Kinds, Evicts, Access
    <3>3. Refilling' /\ mem' = mem /\ ans' = None /\ (~pmem_rd_q' => pmem_len_q' = LineWords - 1)
      <4>1. MemoryRequest("REFILL", acc) /\ Serve(IF acc THEN CoreBeat("REFILL") ELSE None, reply)
            /\ state_q' = "REFILL" /\ CoreReads("REFILL")
        BY <1>2, <3>1 DEF CoreReads, Entering
      <4>. QED
        BY <1>1, <2>1, <3>2, <4>1, RefillStarts
    <3>. QED
      BY <1>1, <1>2, <1>4, <1>7, <2>2, <3>3 DEF Transfers
  <2>3. CASE m.kind = "wb" \/ flushing_q
    <3>1. \A x : NextState(c, x) \in {"LOOKUP", "FLUSH_ADDR"}
      BY <1>1, <1>4, <1>7, <2>3
    <3>2. CoreBeat(NextState(c, TRUE)) = None
      BY <1>5, <3>1 DEF CoreBeat, CoreReads, Entering
    <3>3. op' = None /\ ans' = None /\ mem' = mem
      BY <1>2, <2>1, <3>2, PortQuiet
    <3>. QED
      BY <1>1, <1>2, <1>4, <3>1, <3>3 DEF Transfers, PortIdle
  <2>. QED
    BY <2>2, <2>3
<1>. QED
  BY <1>6, <1>7

(* Every cycle keeps track of the transfer. *)
LEMMA TransfersStep ==
    ASSUME Control, Next PROVE Transfers'
<1>1. PICK q \in Drives, acc \in BOOLEAN, reply \in BOOLEAN :
          \/ /\ owed = None \/ MemAck
             /\ FreeTurn(q, CachedReq(q), acc /\ SelectCore(q))
          \/ Cached /\ ~CoreAck /\ CoreTurn(q.addr, acc, reply)
          \/ Uncached /\ ans = None /\ BridgeTurn(q.addr, acc, reply)
  BY Turns
<1>2. CASE (owed = None \/ MemAck) /\ FreeTurn(q, CachedReq(q), acc /\ SelectCore(q))
  BY <1>2, FreeTransfers
<1>3. CASE Cached /\ ~CoreAck /\ CoreTurn(q.addr, acc, reply)
  <2>1. state_q \in {"REFILL", "EVICT", "EVICT_WAIT", "LOOKUP"} \cup Silent
    <3>1. state_q # "RESET"
      <4>1. m.kind # "none" /\ m.kind \in Kinds
        BY <1>3, Sides DEF Control, Machine
      <4>. QED
        BY <4>1 DEF Kinds, Evicts
    <3>. QED
      BY <3>1 DEF Control, Types, States, Silent
  <2>. QED
    BY <1>3, <2>1, SilentTransfers, MissTransfers, RefillTransfers, EvictTransfers, EvictedTransfers
<1>4. CASE Uncached /\ ans = None /\ BridgeTurn(q.addr, acc, reply)
  BY <1>4, DrivesType, BridgeTransfers
<1>. QED
  BY <1>1, <1>2, <1>3, <1>4

-----------------------------------------------------------------------------
(* The control layer. *)

(* It holds out of reset, whatever the tag RAM holds. *)
LEMMA ControlInit ==
    ASSUME Init PROVE Control
<1>1. 0 \in Rows /\ 0 \in Columns /\ 0 \in Nat /\ LineWords \in 2 .. 256 /\ 0 \in Ways /\ 0 \in 0 .. 255
  BY DcacheAssumption, SMT DEF Rows, Columns, Ways
<1>2. Base(0) \in RamWords /\ Base(0) = 0
  <2>1. Base(0) \in RamWords
    BY <1>1, Places
  <2>2. LineWords \in Int
    BY <1>1, SMT
  <2>. QED
    BY <2>1, <2>2, SMT DEF Base
<1>3. m \in Idles /\ m.kind = "none"
  BY DEF Init, Idles, Zero, NoReq
<1>4. Types
  <2>1. tag_ram \in [Ways -> [Rows -> Entries]] /\ tag_o \in [Ways -> Entries]
    <3>1. Empty \in Entries /\ [v |-> TRUE, d |-> TRUE, t |-> 0] \in Entries
      BY DcacheAssumption DEF Empty, Entries
    <3>2. tag_ram \in [Ways -> [Rows -> {Empty, [v |-> TRUE, d |-> TRUE, t |-> 0]}]]
      BY DEF Init, Rows
    <3>3. [Rows -> {Empty, [v |-> TRUE, d |-> TRUE, t |-> 0]}] \subseteq [Rows -> Entries]
      BY <3>1
    <3>4. tag_o = [w \in Ways |-> Empty]
      BY DEF Init
    <3>. QED
      BY <3>1, <3>2, <3>3, <3>4
  <2>2. data_ram \in [Ways -> [RamWords -> Cells]] /\ data_o \in [Ways -> Cells]
    BY DEF Init, Cells
  <2>3. mem \in [Addrs -> Cells] /\ flat \in [Addrs -> Contents]
    <3>1. mem = Initial /\ flat = Initial /\ Initial \in [Addrs -> Contents]
      BY DcacheAssumption DEF Init, PortInit
    <3>. QED
      BY <3>1 DEF Cells
  <2>4. /\ state_q \in States /\ m \in Requests \cup Idles /\ pmem_write_data_q \in Cells
        /\ op \in Ops \cup {None} /\ ans \in Answers \cup {None}
    BY <1>3 DEF Init, PortInit, States, Cells
  <2>5. /\ data_write_addr_q \in RamWords /\ flush_addr_q \in Rows
        /\ pmem_len_q \in 0 .. 255 /\ replace_way_q \in Ways
    BY <1>1, <1>2 DEF Init
  <2>6. {flushing_q, flush_last_q, error_q, pmem_rd_q, pmem_wr0_q, pmem_wr_q, cache_access_q,
         select_q, request_pending_q, dropped_q, failed} \subseteq BOOLEAN
    BY DEF Init
  <2>. QED
    BY <2>1, <2>2, <2>3, <2>4, <2>5, <2>6 DEF Types
<1>5. Interface
  <2>1. owed = None /\ ans = None /\ pending_q = 0 /\ ~failed /\ ~error_q /\ ~dropped_q
    BY DEF Init, PortInit
  <2>. QED
    BY <1>3, <2>1 DEF Interface, Cached, AnsError
<1>6. Machine
  BY <1>3 DEF Init, Machine, Kinds, Evicts
<1>7. FreshTags
  BY DEF Init, FreshTags, LooksUp
<1>8. KnownLines
  BY DEF Init, KnownLines, Rows
<1>9. Transfers
  BY DEF Init, PortInit, Transfers, Uncached, BridgeIdle, PortIdle
<1>. QED
  BY <1>4, <1>5, <1>6, <1>7, <1>8, <1>9 DEF Control

(* Every cycle keeps it. *)
LEMMA ControlStep ==
    ASSUME Control, [Next]_vars PROVE Control'
<1>1. CASE Next
  <2>1. \E c \in Requests \cup Idles : \E acc : Core(c, acc)
    <3>1. PICK q \in Drives, acc \in BOOLEAN, reply \in BOOLEAN :
              \/ /\ owed = None \/ MemAck
                 /\ FreeTurn(q, CachedReq(q), acc /\ SelectCore(q))
              \/ Cached /\ ~CoreAck /\ CoreTurn(q.addr, acc, reply)
              \/ Uncached /\ ans = None /\ BridgeTurn(q.addr, acc, reply)
      BY <1>1, Turns
    <3>2. CachedReq(q) \in Requests \cup Idles /\ NoReq(q.addr) \in Requests \cup Idles
      BY CoreRequest
    <3>. QED
      BY <3>1, <3>2 DEF FreeTurn, CoreTurn, BridgeTurn
  <2>2. Machine' /\ FreshTags' /\ KnownLines'
    BY <2>1, MachineStep, FreshTagsStep, KnownLinesStep
  <2>3. Types' /\ Interface' /\ Transfers'
    BY <1>1, TypesStep, InterfaceStep, TransfersStep
  <2>. QED
    BY <2>2, <2>3 DEF Control
<1>2. CASE UNCHANGED vars
  <2>1. Types' /\ Interface'
    BY <1>2 DEF Control, Types, Interface, Cached, AnsError, vars, coreVars, muxVars,
                bridgeVars, portVars
  <2>2. Machine' /\ FreshTags' /\ KnownLines'
    BY <1>2 DEF Control, Machine, Kinds, Evicts, EvictWay, HitAny, Hit, Dirty, FreshTags, LooksUp,
                Access, EvictSet, KnownLines, vars, coreVars
  <2>3. Transfers'
    BY <1>2 DEF Control, Transfers, Uncached, Bridging, Single, BridgeIdle, Refilling, Evicting,
                Evicted, EvictSet, PortIdle, vars, coreVars, muxVars, bridgeVars, portVars
  <2>. QED
    BY <2>1, <2>2, <2>3 DEF Control
<1>. QED
  BY <1>1, <1>2

(* In every reachable state the load/store unit, the multiplexers, the two *)
(* sides and the memory port agree on the access and the transfer that are *)
(* under way (dcache_mux.v, dcache_core.v, dcache_if_pmem.v,               *)
(* dcache_pmem_mux.v).                                                     *)
THEOREM ControlInvariance == Spec => []Control
<1>. QED
  BY ControlInit, ControlStep, PTL DEF Spec

(* Neither side puts anything on the memory port while a transfer waits    *)
(* for its answer: dcache_pmem_mux.v, which hands an answer to the side    *)
(* that is selected, never gives it to the wrong one.                      *)
THEOREM PortIsInTurn == Spec => []PortInTurn
<1>1. ASSUME Control, AwaitsAnswer, NEW q \in Drives PROVE PortBeat(q) = None
  <2>1. CASE owed = None \/ MemAck
    BY <1>1, <2>1, NoBeat
  <2>2. CASE Uncached /\ ~MemAck
    <3>1. SelectCore(q) = FALSE
      BY <1>1, <2>2, Sides DEF SelectCore, Control
    <3>2. Bridging /\ op # None
      BY <1>1, <2>2 DEF Control, Transfers, AwaitsAnswer
    <3>3. req_fifo = <<>>
      BY <3>2 DEF Bridging, PortIdle
    <3>. QED
      BY <3>1, <3>3 DEF PortBeat, BridgeBeat, BridgeIssues
  <2>3. CASE Cached /\ ~MemAck
    <3>1. SelectCore(q) /\ ~CoreAck /\ ~Uncached
      BY <1>1, <2>3, Sides DEF SelectCore, Control, MemAck, Cached, Uncached
    <3>. DEFINE c == CachedReq(q)
    <3>2. /\ CASE state_q = "REFILL"     -> Refilling
               [] state_q = "EVICT"      -> Evicting
               [] state_q = "EVICT_WAIT" -> Evicted
               [] OTHER                  -> PortIdle
          /\ op # None /\ ~AwaitsData
      BY <1>1, <3>1 DEF Control, Transfers, AwaitsAnswer
    <3>3. state_q \in {"REFILL", "EVICT", "EVICT_WAIT"}
      BY <3>2 DEF PortIdle
    <3>4. CASE state_q = "REFILL"
      <4>1. ~pmem_rd_q /\ ~CoreWrites
        BY <1>1, <3>2, <3>4 DEF Refilling, PortIdle, CoreWrites, Control, Machine
      <4>. QED
        BY <3>1, <3>4, <4>1 DEF PortBeat, CoreBeat, CoreReads, Entering
    <3>5. CASE state_q = "EVICT"
      <4>1. /\ op = Writing(EvictSet, EvictTag, pmem_len_q + 1) /\ pmem_len_q + 1 \in 0 .. LineWords
            /\ pmem_len_q + 1 # 0 /\ KnownLine(EvictSet, EvictTag)
        <5>1. Evicting /\ Evicts
          BY <3>2, <3>5 DEF Evicts
        <5>2. op = Writing(EvictSet, EvictTag, pmem_len_q + 1) /\ pmem_len_q < LineWords
          BY <3>2, <5>1 DEF Evicting, EvictTag
        <5>3. pmem_len_q + 1 \in 0 .. LineWords /\ pmem_len_q + 1 # 0
          <6>1. LineWords \in 2 .. 256 /\ pmem_len_q \in 0 .. 255
            BY <1>1, DcacheAssumption DEF Control, Types
          <6>. QED
            BY <5>2, <6>1, SMT
        <5>. QED
          BY <1>1, <5>1, <5>2, <5>3, EvictLine DEF EvictTag
      <4>2. op.kind = "wr" /\ op.todo = Rest(EvictSet, EvictTag, pmem_len_q + 1)
        BY <4>1 DEF Writing
      <4>3. op.todo # <<>>
        BY <4>1, <4>2, RestSeq
      <4>. QED
        BY <3>2, <4>2, <4>3 DEF AwaitsData
    <3>6. CASE state_q = "EVICT_WAIT"
      <4>1. ans = None
        BY <3>2, <3>6 DEF Evicted
      <4>2. NextState(c, TRUE) = "EVICT_WAIT"
        BY <3>6, <4>1 DEF NextState, PmemAck
      <4>3. ~pmem_rd_q /\ ~CoreWrites
        BY <1>1, <3>6 DEF CoreWrites, Control, Machine
      <4>. QED
        BY <3>1, <4>2, <4>3 DEF PortBeat, CoreBeat, CoreReads, Entering
    <3>. QED
      BY <3>3, <3>4, <3>5, <3>6
  <2>. QED
    BY <2>1, <2>2, <2>3 DEF Cached, Uncached
<1>2. Control => PortInTurn
  BY <1>1 DEF PortInTurn
<1>. QED
  BY <1>2, ControlInvariance, PTL

(* Once nothing is owed, the data cache accepts any request at once.       *)
(* riscv_lsu.v sends a cache operation for one cycle only and counts on it.*)
THEOREM IsReadyWhenIdle == Spec => []ReadyWhenIdle
<1>1. ASSUME Control, owed = None, state_q # "RESET", NEW q \in Requests
      PROVE  MemAccept(q)
  <2>1. state_q = "LOOKUP" /\ ~Missed
    BY <1>1, FreeFacts
  <2>2. pending_q = 0 /\ m.kind = "none"
    BY <1>1, Sides DEF Control, Cached
  <2>3. ~Hold(q)
    BY <2>2 DEF Hold
  <2>4. CoreAccept(q)
    BY <2>1, <2>2 DEF CoreAccept
  <2>5. BridgeIdle
    BY <1>1 DEF Control, Transfers, Uncached
  <2>6. BridgeAccept
    <3>1. Len(<<>>) < 2 /\ 0 < 2
      BY SMT
    <3>. QED
      BY <2>5, <3>1 DEF BridgeIdle, BridgeAccept
  <2>. QED
    BY <2>3, <2>4, <2>6 DEF MemAccept
<1>2. Control => ReadyWhenIdle
  BY <1>1 DEF ReadyWhenIdle
<1>. QED
  BY <1>2, ControlInvariance, PTL

(* error_q of dcache_core.v collects the errors of the transfers of an     *)
(* access, and the multiplexer answers with it: an answer has an error     *)
(* exactly if a transfer for its own access failed.                        *)
THEOREM ErrorsAreOwn == Spec => []ErrorIsOwn
<1>1. ASSUME Control, MemAck PROVE MemError <=> failed
  <2>1. owed # None
    BY <1>1, FreeFacts
  <2>2. failed <=> (error_q \/ AnsError)
    BY <1>1 DEF Control, Interface
  <2>3. CASE Cached
    <3>1. state_q = "LOOKUP" /\ ~Uncached /\ MemError = error_q
      BY <1>1, <2>3 DEF MemAck, MemError, CoreAck, Cached, Uncached
    <3>2. ans = None
      BY <1>1, <3>1 DEF Control, Transfers, PortIdle
    <3>. QED
      BY <2>2, <3>1, <3>2 DEF AnsError
  <2>4. CASE Uncached
    <3>1. ~error_q /\ (ans # None => ~select_q)
      BY <1>1, <2>4, Sides DEF Control, Interface, Cached, Uncached
    <3>2. MemError <=> (~select_q /\ ans # None /\ ans.error)
      BY <2>4 DEF MemError, Uncached
    <3>. QED
      BY <2>2, <3>1, <3>2 DEF AnsError
  <2>. QED
    BY <2>1, <2>3, <2>4 DEF Cached, Uncached
<1>2. Control => ErrorIsOwn
  BY <1>1 DEF ErrorIsOwn
<1>. QED
  BY <1>2, ControlInvariance, PTL

-----------------------------------------------------------------------------
(* Where the contents are. *)

(* No invalidate is requested: it drops what was stored.                   *)
NoInvalidates == \A r \in Requests : r.kind # "inval"

Holds(w, a)      == tag_ram[w][a.set].v /\ tag_ram[w][a.set].t = a.tag
HoldsDirty(w, a) == Holds(w, a) /\ tag_ram[w][a.set].d
Clean(a)         == \A w \in Ways : ~HoldsDirty(w, a)

(* A flush has emptied the sets it has passed, and all of them at its end. *)
FlushSets ==
    /\ flushing_q =>
          /\ \A w \in Ways, s \in Rows : s < flush_addr_q => tag_ram[w][s] = Empty
          /\ flush_last_q => flush_addr_q = Sets - 1
          /\ flush_addr_q = Sets - 1 /\ state_q # "FLUSH_ADDR" => flush_last_q
    /\ state_q = "LOOKUP" /\ m.kind = "flush" =>
          \A w \in Ways, s \in Rows : tag_ram[w][s] = Empty

(* A line is in one way at most.  The line that is fetched is in no other  *)
(* way, and the one it replaces is written back or was not dirty.          *)
Unique ==
    state_q # "RESET" =>
        \A w \in Ways, x \in Ways, s \in Rows :
            w # x /\ tag_ram[w][s].v /\ tag_ram[x][s].v => tag_ram[w][s].t # tag_ram[x][s].t
Placement ==
    /\ Unique
    /\ state_q = "REFILL" => /\ \A x \in Ways \ {replace_way_q} : ~Hit(x)
                             /\ ~Dirty(replace_way_q)
    /\ state_q \in {"READ", "WRITE"} => Hit(replace_way_q)
    /\ Evicts => Dirty(replace_way_q) /\ (Access(m) => ~HitAny)
    /\ state_q = "LOOKUP" /\ m.kind = "wb" => Clean(m.addr)

(* The value that flat will have, or has unless a store is on its way.     *)
InFlight(a) == owed # None /\ owed.kind = "st" /\ owed.addr = a
               /\ (cache_access_q \/ req_fifo # <<>>)
Good(a, v) == v \in Contents /\ (NoInvalidates /\ ~InFlight(a) => v = flat[a])

(* A word is good in the way that holds it, unless the line is being       *)
(* fetched, and in memory unless a way holds it dirty.                     *)
Filling(w, s) == state_q = "REFILL" /\ w = replace_way_q /\ s = m.addr.set
Coherent ==
    /\ mem \in [Addrs -> Contents]
    /\ \A a \in Addrs : state_q = "RESET" \/ Clean(a) => Good(a, mem[a])
    /\ \A a \in Addrs, w \in Ways :
          state_q # "RESET" /\ Holds(w, a) /\ ~Filling(w, a.set)
          => Good(a, data_ram[w][Index(a)])
    /\ owed # None /\ owed.kind = "st" => flat[owed.addr] = owed.val

(* The words of a line that are transferred are the same in the way and in *)
(* memory, and the data RAM shows the next one.                            *)
Copied(set, tag, n) ==
    \A i \in Columns : i < n => data_ram[replace_way_q][Base(set) + i] = mem[Word(set, tag, i)]
Filled ==
    IF pmem_rd_q THEN data_write_addr_q = Base(m.addr.set)
    ELSE LET k == LineWords - 1 - pmem_len_q
         IN /\ data_write_addr_q = Base(m.addr.set) + k
            /\ Copied(m.addr.set, m.addr.tag, k)
            /\ ans # None => ans.data = mem[Word(m.addr.set, m.addr.tag, k)]
Emptied ==
    LET k == LineWords - 1 - pmem_len_q
    IN /\ pmem_len_q # 0 => data_write_addr_q = Base(EvictSet) + k + 1
       /\ Copied(EvictSet, EvictTag, k)
       /\ EvictWord = data_ram[replace_way_q][Base(EvictSet) + k]
Progress ==
    /\ state_q = "REFILL" => Filled
    /\ state_q = "EVICT" => Emptied
    /\ state_q = "EVICT_WAIT" => Copied(EvictSet, EvictTag, LineWords)
    /\ state_q = "LOOKUP" /\ m.kind = "ld" =>
          \A w \in Ways : Hit(w) => data_o[w] = data_ram[w][Index(m.addr)]
    /\ Uncached /\ owed.kind = "ld" /\ ans # None => ans.data = mem[owed.addr]

Data == FlushSets /\ Placement /\ Coherent /\ Progress

-----------------------------------------------------------------------------
(* Where the lines are. *)

(* The cycles that write no tag. *)
LEMMA TagsQuiet ==
    ASSUME Control, NEW c \in Requests \cup Idles, NEW acc, Core(c, acc),
           \/ state_q \in {"READ", "FLUSH_ADDR", "EVICT", "WRITEBACK"}
           \/ state_q = "LOOKUP" /\ (m.kind # "st" \/ ~HitAny)
           \/ state_q = "FLUSH" /\ DirtyAny
           \/ state_q = "REFILL" /\ ~(PmemAck /\ LastBeat)
           \/ state_q = "EVICT_WAIT" /\ ~PmemAck
    PROVE  tag_ram' = tag_ram
<1>1. \A w \in Ways : ~TagWrites(w)
  BY DEF TagWrites, HitAny
<1>2. TagRam(c, NextState(c, acc))
  BY DEF Core
<1>. QED
  BY <1>1, <1>2, TagsWritten DEF Control

(* The reset leaves the cache empty. *)
LEMMA ResetEmpties ==
    ASSUME Control, NEW c \in Requests \cup Idles, NEW acc, Core(c, acc),
           state_q = "RESET", state_q' # "RESET"
    PROVE  \A w \in Ways, s \in Rows : tag_ram'[w][s] = Empty
<1>1. flush_last_q
  BY DEF Core, NextState
<1>2. \A w \in Ways, s \in Rows : tag_ram[w][s] = Empty
  BY <1>1 DEF Control, KnownLines
<1>3. TagRam(c, NextState(c, acc))
  BY DEF Core
<1>4. TagIn = Empty
  BY DEF TagIn
<1>. QED
  BY <1>2, <1>3, <1>4, TagsWritten DEF Control

(* dcache_core.v flushes the sets in order, and every one.           *)
LEMMA FlushSetsStep ==
    ASSUME Control, FlushSets, NEW c \in Requests \cup Idles, NEW acc, Core(c, acc)
    PROVE  FlushSets'
<1>. DEFINE next == NextState(c, acc)
<1>1. /\ state_q' = next /\ TagRam(c, next) /\ FlushCounter(next)
      /\ m' = IF state_q # "LOOKUP" \/ Missed THEN m
              ELSE IF CoreAccept(c) THEN c ELSE NoReq(Zero)
  BY BufferStep DEF Core
<1>2. \A w \in Ways, s \in Rows :
         tag_ram'[w][s] = IF TagWrites(w) /\ s = TagWriteSet THEN TagIn ELSE tag_ram[w][s]
  BY <1>1, TagsWritten DEF Control
<1>3. /\ Sets \in Nat /\ flush_addr_q \in 0 .. Sets - 1 /\ m.kind \in Kinds /\ state_q \in States
      /\ flushing_q \in BOOLEAN /\ flush_last_q \in BOOLEAN
  BY DcacheAssumption DEF Control, Types, Rows, Machine
<1>4. CASE flushing_q
  <2>1. /\ state_q \in {"FLUSH_ADDR", "FLUSH", "EVICT", "EVICT_WAIT"} /\ m.kind = "flush"
        /\ state_q # "LOOKUP" /\ m' = m
    <3>1. state_q \in {"FLUSH_ADDR", "FLUSH", "EVICT", "EVICT_WAIT"} /\ m.kind = "flush"
      BY <1>3, <1>4 DEF Control, Machine, Evicts, Kinds
    <3>. QED
      BY <1>1, <3>1
  <2>2. /\ \A w \in Ways, s \in Rows : s < flush_addr_q => tag_ram[w][s] = Empty
        /\ flush_last_q => flush_addr_q = Sets - 1
        /\ flush_addr_q = Sets - 1 /\ state_q # "FLUSH_ADDR" => flush_last_q
    BY <1>4 DEF FlushSets
  <2>3. \A w \in Ways, s \in Rows :
           tag_ram'[w][s] = IF TagWrites(w) /\ s = flush_addr_q THEN Empty ELSE tag_ram[w][s]
    BY <1>2, <1>4 DEF TagWriteSet, TagIn
  <2>4. flush_last_q' = (flush_last_q \/ flush_addr_q = Sets - 1)
    BY <1>1, <2>1 DEF FlushCounter
  <2>5. CASE state_q = "FLUSH" /\ ~DirtyAny
    <3>1. \A w \in Ways : TagWrites(w)
      BY <2>5 DEF TagWrites
    <3>2. next = IF flush_last_q THEN "LOOKUP" ELSE "FLUSH_ADDR"
      BY <2>5 DEF NextState
    <3>3. CASE flush_last_q
      <4>1. \A s \in Rows : s = flush_addr_q \/ s < flush_addr_q
        BY <1>3, <2>2, <3>3, SMT DEF Rows
      <4>2. \A w \in Ways, s \in Rows : tag_ram'[w][s] = Empty
        BY <2>2, <2>3, <3>1, <4>1
      <4>3. state_q' = "LOOKUP" /\ flushing_q' = FALSE
        BY <1>1, <2>5, <3>2, <3>3 DEF FlushCounter
      <4>. QED
        BY <4>2, <4>3 DEF FlushSets
    <3>4. CASE ~flush_last_q
      <4>1. flush_addr_q # Sets - 1
        BY <2>2, <2>5, <3>4
      <4>2. flush_addr_q' = flush_addr_q + 1 /\ state_q' = "FLUSH_ADDR" /\ flush_last_q' = FALSE
        <5>1. flush_addr_q' = (flush_addr_q + 1) % Sets /\ state_q' = "FLUSH_ADDR"
          BY <1>1, <2>5, <3>2, <3>4 DEF FlushCounter
        <5>2. (flush_addr_q + 1) % Sets = flush_addr_q + 1
          BY <1>3, <4>1, SMT
        <5>. QED
          BY <2>4, <3>4, <4>1, <5>1, <5>2
      <4>3. \A s \in Rows : s < flush_addr_q' => s = flush_addr_q \/ s < flush_addr_q
        BY <1>3, <4>2, SMT DEF Rows
      <4>4. \A w \in Ways, s \in Rows : s < flush_addr_q' => tag_ram'[w][s] = Empty
        BY <2>2, <2>3, <3>1, <4>3
      <4>. QED
        BY <4>2, <4>4 DEF FlushSets
    <3>. QED
      BY <3>3, <3>4
  <2>6. CASE ~(state_q = "FLUSH" /\ ~DirtyAny)
    <3>1. next \in {"FLUSH", "EVICT", "EVICT_WAIT", "FLUSH_ADDR"}
          /\ (next = "FLUSH_ADDR" => state_q = "EVICT_WAIT")
      BY <1>4, <2>1, <2>6 DEF NextState
    <3>2. flush_addr_q' = flush_addr_q
      BY <1>1, <2>1, <3>1 DEF FlushCounter
    <3>3. \A w \in Ways, s \in Rows : s < flush_addr_q => tag_ram'[w][s] = Empty
      BY <2>2, <2>3
    <3>4. state_q' # "LOOKUP" /\ flush_last_q' = (flush_addr_q = Sets - 1)
      BY <1>1, <2>2, <2>4, <3>1
    <3>. QED
      BY <3>2, <3>3, <3>4 DEF FlushSets
  <2>. QED
    BY <2>5, <2>6
<1>5. CASE ~flushing_q
  <2>1. flushing_q' => state_q = "LOOKUP" /\ next = "FLUSH_ADDR"
    BY <1>1, <1>5 DEF FlushCounter
  <2>2. flushing_q' => flush_addr_q' = 0 /\ flush_last_q' = FALSE /\ state_q' = "FLUSH_ADDR"
    BY <1>1, <2>1 DEF FlushCounter
  <2>3. \A s \in Rows : ~(s < 0)
    BY SMT DEF Rows
  <2>4. ~(state_q' = "LOOKUP" /\ m'.kind = "flush")
    <3>1. CASE state_q = "LOOKUP" /\ ~Missed
      BY <1>1, <3>1 DEF NextState, NoReq
    <3>2. CASE state_q # "LOOKUP" \/ Missed
      <4>1. m' = m
        BY <1>1, <3>2
      <4>2. CASE m.kind = "flush"
        <5>1. state_q = "LOOKUP"
          BY <1>3, <1>5, <4>2 DEF Kinds, Evicts, Control, Machine, States
        <5>. QED
          BY <3>2, <4>2, <5>1 DEF Missed, Access
      <4>. QED
        BY <4>1, <4>2
    <3>. QED
      BY <3>1, <3>2
  <2>. QED
    BY <2>2, <2>3, <2>4 DEF FlushSets
<1>. QED
  BY <1>4, <1>5

(* The tag of a line that is written is that of the request. *)
LEMMA TagInFields ==
    ASSUME state_q \notin {"RESET", "INVALIDATE"}, ~flushing_q
    PROVE  /\ TagIn.v /\ TagIn.t = m.addr.tag /\ TagWriteSet = m.addr.set
           /\ TagIn.d <=> state_q \in {"LOOKUP", "WRITE"}
<1>1. TagIn = [v |-> state_q # "INVALIDATE", d |-> state_q \in {"LOOKUP", "WRITE"},
               t |-> m.addr.tag]
  BY DEF TagIn
<1>2. TagWriteSet = m.addr.set
  BY DEF TagWriteSet
<1>. QED
  BY <1>1, <1>2

(* A valid tag is written to one way, and the other does not hold the line.*)
LEMMA WrittenAlone ==
    ASSUME Control, Placement, state_q # "RESET", NEW w \in Ways, TagWrites(w), TagIn.v
    PROVE  /\ TagIn.t = m.addr.tag /\ TagWriteSet = m.addr.set
           /\ \A x \in Ways : tag_o[x] = tag_ram[x][m.addr.set]
           /\ \A x \in Ways : x # w => ~Hit(x) /\ ~TagWrites(x)
<1>1. ~flushing_q /\ state_q # "INVALIDATE" /\ TagIn.t = m.addr.tag /\ TagWriteSet = m.addr.set
  BY DEF TagIn, Empty, TagWriteSet
<1>2. /\ m.kind \in Kinds /\ state_q # "FLUSH" /\ state_q \in States
      /\ state_q \in {"LOOKUP", "WRITE", "EVICT_WAIT", "REFILL"}
      /\ state_q = "LOOKUP" => m.kind = "st" /\ Hit(w)
      /\ state_q # "LOOKUP" => replace_way_q = w
  BY <1>1 DEF Control, Machine, Types, States, TagWrites
<1>3. \A x \in Ways : tag_o[x] = tag_ram[x][m.addr.set]
  <2>1. LooksUp
    BY <1>2 DEF LooksUp, Access
  <2>. QED
    BY <1>1, <2>1 DEF Control, FreshTags, EvictSet
<1>4. ASSUME Hit(w), NEW x \in Ways, x # w PROVE ~Hit(x)
  <2>1. m.addr.set \in Rows
    BY AddressType DEF Control, Types
  <2>. QED
    BY <1>3, <1>4, <2>1 DEF Placement, Unique, Hit
<1>5. ASSUME NEW x \in Ways, x # w PROVE ~Hit(x) /\ ~TagWrites(x)
  <2>1. CASE state_q = "LOOKUP"
    BY <1>2, <1>4, <1>5, <2>1 DEF TagWrites
  <2>2. CASE state_q = "WRITE"
    BY <1>2, <1>4, <1>5, <2>2 DEF TagWrites, Placement
  <2>3. CASE state_q = "REFILL"
    BY <1>2, <1>5, <2>3 DEF TagWrites, Placement
  <2>4. CASE state_q = "EVICT_WAIT"
    <3>1. m.kind # "flush" /\ m.kind \in {"ld", "st", "wb", "flush"}
      BY <1>1, <1>2, <2>4 DEF Kinds, Evicts, Control, Machine
    <3>2. Access(m) \/ m.kind = "wb"
      BY <3>1 DEF Access
    <3>3. CASE Access(m)
      BY <1>2, <1>5, <2>4, <3>3 DEF TagWrites, Placement, Evicts, HitAny
    <3>4. CASE m.kind = "wb"
      BY <1>2, <1>4, <1>5, <2>4, <3>4 DEF TagWrites, Control, Machine, Evicts
    <3>. QED
      BY <3>2, <3>3, <3>4
  <2>. QED
    BY <1>2, <2>1, <2>2, <2>3, <2>4
<1>. QED
  BY <1>1, <1>3, <1>5

(* A line that is written in a way is in no other. *)
LEMMA UniqueStep ==
    ASSUME Control, Placement, NEW c \in Requests \cup Idles, NEW acc, Core(c, acc)
    PROVE  Unique'
<1>1. TagRam(c, NextState(c, acc)) /\ state_q' = NextState(c, acc)
  BY DEF Core
<1>2. \A w \in Ways, s \in Rows :
         tag_ram'[w][s] = IF TagWrites(w) /\ s = TagWriteSet THEN TagIn ELSE tag_ram[w][s]
  BY <1>1, TagsWritten DEF Control
<1>3. CASE state_q = "RESET"
  BY <1>3, ResetEmpties DEF Unique, Empty
<1>4. CASE state_q # "RESET"
  <2>1. ASSUME NEW w \in Ways, NEW x \in Ways, NEW s \in Rows, w # x,
               tag_ram'[w][s].v, tag_ram'[x][s].v, TagWrites(w) /\ s = TagWriteSet
        PROVE  tag_ram'[w][s].t # tag_ram'[x][s].t
    <3>1. tag_ram'[w][s] = TagIn
      BY <1>2, <2>1
    <3>2. /\ TagIn.t = m.addr.tag /\ s = m.addr.set /\ ~Hit(x) /\ ~TagWrites(x)
          /\ tag_o[x] = tag_ram[x][m.addr.set]
      BY <1>4, <2>1, <3>1, WrittenAlone
    <3>3. tag_ram'[x][s] = tag_o[x]
      BY <1>2, <3>2
    <3>. QED
      BY <2>1, <3>1, <3>2, <3>3 DEF Hit
  <2>2. ASSUME NEW w \in Ways, NEW x \in Ways, NEW s \in Rows, w # x,
               tag_ram'[w][s].v, tag_ram'[x][s].v
        PROVE  tag_ram'[w][s].t # tag_ram'[x][s].t
    <3>1. CASE TagWrites(w) /\ s = TagWriteSet
      BY <2>1, <2>2, <3>1
    <3>2. CASE TagWrites(x) /\ s = TagWriteSet
      BY <2>1, <2>2, <3>2
    <3>3. CASE ~(TagWrites(w) /\ s = TagWriteSet) /\ ~(TagWrites(x) /\ s = TagWriteSet)
      BY <1>2, <1>4, <2>2, <3>3 DEF Placement, Unique
    <3>. QED
      BY <3>1, <3>2, <3>3
  <2>. QED
    BY <2>2 DEF Unique
<1>. QED
  BY <1>3, <1>4

(* The way that is filled. *)
LEMMA RefillStep ==
    ASSUME Control, Placement, NEW c \in Requests \cup Idles, NEW acc, Core(c, acc),
           state_q' \in {"REFILL", "READ", "WRITE"}
    PROVE  /\ state_q' = "REFILL" => /\ \A x \in Ways \ {replace_way_q'} : ~Hit(x)'
                                     /\ ~Dirty(replace_way_q)'
           /\ state_q' \in {"READ", "WRITE"} => Hit(replace_way_q)'
<1>. DEFINE next == NextState(c, acc)
<1>1. /\ state_q' = next /\ TagRam(c, next) /\ FlushCounter(next) /\ Replacement(next)
      /\ m' = IF state_q # "LOOKUP" \/ Missed THEN m
              ELSE IF CoreAccept(c) THEN c ELSE NoReq(Zero)
  BY BufferStep DEF Core
<1>2. /\ state_q \in {"LOOKUP", "REFILL", "EVICT_WAIT"} /\ state_q \in States
      /\ state_q = "LOOKUP" => next = "REFILL" /\ Missed /\ ~EvictWay
      /\ next \in {"READ", "WRITE"} => state_q = "REFILL" /\ PmemAck /\ LastBeat
      /\ state_q = "REFILL" /\ next = "REFILL" => ~(PmemAck /\ LastBeat)
      /\ state_q = "EVICT_WAIT" => next = "REFILL" /\ PmemAck /\ m.kind # "wb" /\ ~flushing_q
  <2>1. state_q \in States
    BY DEF Control, Types
  <2>. QED
    BY <1>1, <2>1 DEF NextState, States
<1>. HIDE DEF next
<1>3. m' = m /\ ~flushing_q /\ flushing_q' = flushing_q /\ replace_way_q' = replace_way_q
      /\ m.kind \in Kinds /\ replace_way_q \in Ways
  <2>1. ~flushing_q
    BY <1>2 DEF Control, Machine, Evicts
  <2>2. replace_way_q' = replace_way_q
    BY <1>1, <1>2, <2>1 DEF Replacement
  <2>3. next # "FLUSH_ADDR"
    BY <1>1
  <2>. QED
    BY <1>1, <1>2, <2>1, <2>2, <2>3 DEF FlushCounter, Control, Machine, Types
<1>4. \A w \in Ways : tag_o[w] = tag_ram[w][m.addr.set] /\ tag_o'[w] = tag_ram'[w][m.addr.set]
  <2>1. LooksUp /\ LooksUp'
    BY <1>1, <1>2 DEF LooksUp, Missed
  <2>2. EvictSet = m.addr.set /\ EvictSet' = m.addr.set
    BY <1>3 DEF EvictSet
  <2>. QED
    BY <2>1, <2>2, FreshTagsStep DEF Control, FreshTags
<1>5. CASE state_q = "LOOKUP" \/ (state_q = "REFILL" /\ next = "REFILL")
  <2>1. tag_ram' = tag_ram
    BY <1>2, <1>5, TagsQuiet DEF Missed
  <2>2. \A w \in Ways : tag_o'[w] = tag_o[w]
    BY <1>4, <2>1
  <2>3. (\A x \in Ways \ {replace_way_q} : ~Hit(x)) /\ ~Dirty(replace_way_q)
    BY <1>2, <1>5 DEF Missed, HitAny, EvictWay, Placement
  <2>4. next = "REFILL"
    BY <1>2, <1>5
  <2>. QED
    BY <1>1, <1>3, <2>2, <2>3, <2>4 DEF Hit, Dirty
<1>6. CASE state_q = "EVICT_WAIT" \/ next \in {"READ", "WRITE"}
  <2>1. \A w \in Ways : TagWrites(w) <=> w = replace_way_q
    BY <1>2, <1>6 DEF TagWrites
  <2>2. TagIn.v /\ ~TagIn.d /\ TagIn.t = m.addr.tag /\ TagWriteSet = m.addr.set
    BY <1>2, <1>3, <1>6, TagInFields
  <2>3. m.addr.set \in Rows
    BY AddressType DEF Control, Types
  <2>4. \A w \in Ways : tag_o'[w] = IF w = replace_way_q THEN TagIn ELSE tag_o[w]
    BY <1>1, <1>4, <2>1, <2>2, <2>3, TagsWritten DEF Control
  <2>5. \A x \in Ways \ {replace_way_q} : ~Hit(x)
    <3>1. CASE state_q = "EVICT_WAIT"
      <4>1. Access(m) /\ Evicts
        BY <1>2, <1>3, <3>1 DEF Kinds, Evicts, Access, Control, Machine
      <4>. QED
        BY <4>1 DEF Placement, HitAny
    <3>2. CASE next \in {"READ", "WRITE"}
      BY <1>2, <3>2 DEF Placement
    <3>. QED
      BY <1>6, <3>1, <3>2
  <2>. QED
    BY <1>1, <1>3, <2>2, <2>4, <2>5 DEF Hit, Dirty
<1>. QED
  BY <1>1, <1>2, <1>5, <1>6

(* The line that is written back is dirty, and is not the one wanted.      *)
LEMMA VictimStep ==
    ASSUME Control, Placement, NEW c \in Requests \cup Idles, NEW acc, Core(c, acc), Evicts'
    PROVE  Dirty(replace_way_q)' /\ (Access(m') => ~HitAny')
<1>. DEFINE next == NextState(c, acc)
<1>1. /\ state_q' = next /\ TagRam(c, next) /\ FlushCounter(next) /\ Replacement(next)
      /\ m' = IF state_q # "LOOKUP" \/ Missed THEN m
              ELSE IF CoreAccept(c) THEN c ELSE NoReq(Zero)
  BY BufferStep DEF Core
<1>2. CASE Evicts
  <2>1. /\ m' = m /\ replace_way_q' = replace_way_q /\ replace_way_q \in Ways
        /\ \A w \in Ways : tag_o'[w] = tag_o[w]
    BY <1>2, EvictKeeps
  <2>2. Dirty(replace_way_q) /\ (Access(m) => ~HitAny)
    BY <1>2 DEF Placement
  <2>. QED
    BY <2>1, <2>2 DEF Dirty, HitAny, Hit
<1>3. CASE ~Evicts
  <2>1. /\ state_q \in {"LOOKUP", "FLUSH", "WRITEBACK"} /\ state_q \in States /\ next = "EVICT"
        /\ state_q = "LOOKUP" => Missed /\ EvictWay
        /\ state_q = "FLUSH" => DirtyAny /\ EvictWay
        /\ state_q = "WRITEBACK" => HitDirty
    <3>1. state_q \in States
      BY DEF Control, Types
    <3>. QED
      BY <1>1, <1>3, <3>1 DEF NextState, States, Evicts
  <2>. HIDE DEF next
  <2>2. m' = m /\ m.kind \in Kinds /\ (flushing_q <=> state_q = "FLUSH") /\ flushing_q' = flushing_q
    BY <1>1, <2>1 DEF FlushCounter, Control, Machine, Evicts
  <2>3. tag_ram' = tag_ram
    BY <2>1, TagsQuiet DEF Missed
  <2>4. \A w \in Ways : tag_o'[w] = tag_o[w]
    <3>1. LooksUp /\ LooksUp' /\ EvictSet' = EvictSet
      BY <1>1, <2>1, <2>2 DEF LooksUp, Missed, EvictSet, FlushCounter
    <3>. QED
      BY <2>3, <3>1, FreshTagsStep DEF Control, FreshTags
  <2>5. CASE state_q = "WRITEBACK"
    <3>1. replace_way_q' = (IF Hit(0) THEN 0 ELSE 1) /\ HitAny
      BY <1>1, <2>1, <2>2, <2>5 DEF Replacement, HitDirty, HitAny
    <3>2. replace_way_q' \in Ways /\ Hit(replace_way_q')
      BY <3>1 DEF HitAny, Ways
    <3>3. PICK w \in Ways : Hit(w) /\ Dirty(w)
      BY <2>1, <2>5 DEF HitDirty
    <3>4. w = replace_way_q'
      <4>1. LooksUp /\ EvictSet = m.addr.set /\ m.addr.set \in Rows
        BY <2>2, <2>5, AddressType DEF LooksUp, EvictSet, Control, Types
      <4>2. \A x \in Ways : tag_o[x] = tag_ram[x][m.addr.set]
        BY <4>1 DEF Control, FreshTags
      <4>. QED
        BY <2>5, <3>2, <3>3, <4>1, <4>2 DEF Placement, Unique, Hit
    <3>5. ~Access(m)
      BY <2>2, <2>5 DEF Kinds, Access, Evicts
    <3>. QED
      BY <2>2, <2>4, <3>2, <3>3, <3>4, <3>5 DEF Dirty
  <2>6. CASE state_q # "WRITEBACK"
    <3>1. EvictWay /\ replace_way_q' = replace_way_q /\ replace_way_q \in Ways
      BY <1>1, <2>1, <2>2, <2>6 DEF Replacement, Control, Types
    <3>2. Access(m) => ~HitAny
      BY <2>1, <2>2, <2>6 DEF Missed, Kinds, Access, Evicts
    <3>. QED
      BY <2>2, <2>4, <3>1, <3>2 DEF EvictWay, Dirty, HitAny, Hit
  <2>. QED
    BY <2>5, <2>6
<1>. QED
  BY <1>2, <1>3

(* When a write back ends, no way holds the line dirty.                    *)
LEMMA WrittenBackStep ==
    ASSUME Control, Placement, NEW c \in Requests \cup Idles, NEW acc, Core(c, acc),
           state_q' = "LOOKUP", m'.kind = "wb"
    PROVE  Clean(m.addr)'
<1>. DEFINE next == NextState(c, acc)
<1>1. /\ state_q' = next /\ TagRam(c, next)
      /\ m' = IF state_q # "LOOKUP" \/ Missed THEN m
              ELSE IF CoreAccept(c) THEN c ELSE NoReq(Zero)
  BY BufferStep DEF Core
<1>2. state_q # "LOOKUP"
  <2>1. CASE state_q = "LOOKUP" /\ ~Missed
    BY <1>1, <2>1 DEF NextState, NoReq
  <2>2. CASE state_q = "LOOKUP" /\ Missed
    BY <1>1, <2>2 DEF NextState
  <2>. QED
    BY <2>1, <2>2
<1>3. m' = m /\ m.kind = "wb" /\ ~flushing_q
      /\ \/ state_q = "WRITEBACK" /\ ~HitDirty
         \/ state_q = "EVICT_WAIT" /\ PmemAck
  <2>1. m' = m /\ m.kind = "wb" /\ m.kind \in Kinds /\ state_q \in States
    BY <1>1, <1>2 DEF Control, Machine, Types
  <2>2. state_q \in {"WRITEBACK", "EVICT", "EVICT_WAIT"}
    BY <1>2, <2>1 DEF Kinds, Evicts, States
  <2>. QED
    BY <1>1, <2>1, <2>2 DEF NextState, Control, Machine, Evicts
<1>4. m.addr.set \in Rows /\ \A w \in Ways : tag_o[w] = tag_ram[w][m.addr.set]
  <2>1. LooksUp /\ EvictSet = m.addr.set
    BY <1>3 DEF LooksUp, EvictSet
  <2>. QED
    BY <2>1, AddressType DEF Control, FreshTags, Types
<1>5. ASSUME NEW w \in Ways PROVE ~HoldsDirty(w, m.addr)'
  <2>1. CASE state_q = "WRITEBACK"
    <3>1. tag_ram' = tag_ram
      BY <2>1, TagsQuiet
    <3>. QED
      BY <1>3, <1>4, <2>1, <3>1 DEF HoldsDirty, Holds, HitDirty, Hit, Dirty
  <2>2. CASE state_q = "EVICT_WAIT"
    <3>0. ~TagIn.d /\ TagWriteSet = m.addr.set
      BY <1>3, <2>2, TagInFields
    <3>1. \A x \in Ways : TagWrites(x) <=> x = replace_way_q
      BY <1>3, <2>2 DEF TagWrites
    <3>2. tag_ram'[w][m.addr.set] = IF w = replace_way_q THEN TagIn ELSE tag_ram[w][m.addr.set]
      BY <1>1, <1>4, <3>0, <3>1, TagsWritten DEF Control
    <3>3. w # replace_way_q => ~Hit(w)
      <4>1. Hit(replace_way_q) /\ replace_way_q \in Ways /\ state_q # "RESET"
        BY <1>3, <2>2 DEF Control, Machine, Evicts, Types
      <4>. QED
        BY <1>4, <4>1 DEF Placement, Unique, Hit
    <3>. QED
      BY <1>3, <1>4, <3>0, <3>2, <3>3 DEF HoldsDirty, Holds, Hit
  <2>. QED
    BY <1>3, <2>1, <2>2
<1>. QED
  BY <1>5 DEF Clean

(* Every cycle keeps the lines where the state machine expects them. *)
LEMMA PlacementStep ==
    ASSUME Control, Placement, NEW c \in Requests \cup Idles, NEW acc, Core(c, acc)
    PROVE  Placement'
  BY UniqueStep, RefillStep, VictimStep, WrittenBackStep DEF Placement

-----------------------------------------------------------------------------
(* The contents. *)

(* A word is the one of its set, tag and place. *)
LEMMA AddrWord ==
    ASSUME NEW a \in Addrs
    PROVE  /\ a.set \in Rows /\ a.word \in Columns /\ a = Word(a.set, a.tag, a.word)
           /\ Index(a) = Base(a.set) + a.word /\ Index(a) \in RamWords
<1>1. a \in [set : Rows, tag : Tags \cup UncachedTags, word : Columns]
  BY DcacheAssumption, Zenon DEF Rows, Columns
<1>2. a.set \in Rows /\ a.word \in Columns /\ a = Word(a.set, a.tag, a.word)
  BY <1>1 DEF Word
<1>3. Index(a) = Base(a.set) + a.word
  BY DEF Index, Base
<1>. QED
  BY <1>2, <1>3, Places

(* Two words of a way have the same place only if they are of two lines.   *)
LEMMA SameIndex ==
    ASSUME NEW a \in Addrs, NEW b \in Addrs, Index(a) = Index(b), a.tag = b.tag
    PROVE  a = b
<1>1. a.set = b.set /\ a.word = b.word
  BY AddrWord, PlacesDiffer
<1>2. a = Word(a.set, a.tag, a.word) /\ b = Word(b.set, b.tag, b.word)
  BY AddrWord
<1>. QED
  BY <1>1, <1>2

(* The cycles that write no word of the data RAM. *)
LEMMA DataQuiet ==
    ASSUME Control, NEW c, NEW acc, Core(c, acc),
           \/ state_q \notin {"REFILL", "WRITE", "LOOKUP"}
           \/ state_q = "LOOKUP" /\ (m.kind # "st" \/ ~HitAny)
           \/ state_q = "REFILL" /\ ~PmemAck
    PROVE  data_ram' = data_ram
<1>1. \A w \in Ways : ~DataWrites(w)
  BY DEF DataWrites, HitAny
<1>2. DataRam(c, NextState(c, acc), acc)
  BY DEF Core
<1>. QED
  BY <1>1, <1>2, DataWritten DEF Control

(* A store changes its word in the way that holds it, and makes it dirty.  *)
LEMMA StoreStep ==
    ASSUME Control, Placement, NEW c \in Requests \cup Idles, NEW acc, Core(c, acc),
           m.kind = "st", state_q = "WRITE" \/ (state_q = "LOOKUP" /\ HitAny)
    PROVE  /\ \A a \in Addrs, w \in Ways :
                 /\ Holds(w, a)' <=> Holds(w, a)
                 /\ HoldsDirty(w, a) => HoldsDirty(w, a)'
                 /\ Holds(w, a) => data_ram'[w][Index(a)] =
                                      IF a = m.addr THEN m.val ELSE data_ram[w][Index(a)]
           /\ \A a \in Addrs : Clean(a)' => a # m.addr
<1>. DEFINE next == NextState(c, acc)
<1>1. TagRam(c, next) /\ DataRam(c, next, acc)
  BY DEF Core
<1>2. ~flushing_q /\ m.addr \in Addrs /\ m.addr.set \in Rows /\ Index(m.addr) \in RamWords
  <2>1. ~flushing_q
    BY DEF Control, Machine, Evicts
  <2>. QED
    BY <2>1, AccessLine, AddrWord DEF Access
<1>3. next # "EVICT"
  BY DEF NextState, Missed, HitAny
<1>4. DataWriteIndex(c, next) = Index(m.addr) /\ DataIn = m.val
  BY <1>3 DEF DataWriteIndex, Entering, DataIn
<1>5. TagIn.v /\ TagIn.d /\ TagIn.t = m.addr.tag /\ TagWriteSet = m.addr.set
  BY <1>2, TagInFields
<1>. HIDE DEF next
<1>6. \A w \in Ways : tag_o[w] = tag_ram[w][m.addr.set]
  <2>1. LooksUp /\ EvictSet = m.addr.set
    BY <1>2 DEF LooksUp, EvictSet, Access
  <2>. QED
    BY <2>1 DEF Control, FreshTags
<1>7. \A w \in Ways : (Hit(w) <=> TagWrites(w)) /\ (Hit(w) <=> DataWrites(w))
  <2>1. CASE state_q = "LOOKUP"
    BY <2>1 DEF TagWrites, DataWrites
  <2>2. CASE state_q = "WRITE"
    <3>1. Hit(replace_way_q) /\ replace_way_q \in Ways
      BY <2>2 DEF Placement, Control, Types
    <3>2. \A w \in Ways : Hit(w) => w = replace_way_q
      BY <1>2, <1>6, <2>2, <3>1 DEF Placement, Unique, Hit
    <3>. QED
      BY <2>2, <3>1, <3>2 DEF TagWrites, DataWrites
  <2>. QED
    BY <2>1, <2>2
<1>8. \A w \in Ways, s \in Rows :
         tag_ram'[w][s] = IF Hit(w) /\ s = m.addr.set THEN TagIn ELSE tag_ram[w][s]
  BY <1>1, <1>5, <1>7, TagsWritten DEF Control
<1>9. ASSUME NEW a \in Addrs, NEW w \in Ways
      PROVE  /\ Holds(w, a)' <=> Holds(w, a)
             /\ HoldsDirty(w, a) => HoldsDirty(w, a)'
  <2>1. a.set \in Rows
    BY AddrWord
  <2>2. CASE Hit(w) /\ a.set = m.addr.set
    <3>1. tag_ram'[w][a.set] = TagIn
      BY <1>8, <2>1, <2>2
    <3>. QED
      BY <1>5, <1>6, <2>2, <3>1 DEF Holds, HoldsDirty, Hit
  <2>3. CASE ~(Hit(w) /\ a.set = m.addr.set)
    BY <1>8, <2>1, <2>3 DEF Holds, HoldsDirty
  <2>. QED
    BY <2>2, <2>3
<1>10. ASSUME NEW a \in Addrs, NEW w \in Ways, Holds(w, a)
       PROVE  data_ram'[w][Index(a)] = IF a = m.addr THEN m.val ELSE data_ram[w][Index(a)]
  <2>1. Index(a) \in RamWords
    BY AddrWord
  <2>2. data_ram'[w][Index(a)] = IF Hit(w) /\ Index(a) = Index(m.addr) THEN m.val
                                 ELSE data_ram[w][Index(a)]
    BY <1>1, <1>4, <1>7, <2>1, DataWritten DEF Control
  <2>3. Hit(w) /\ Index(a) = Index(m.addr) <=> a = m.addr
    <3>1. ASSUME Hit(w), Index(a) = Index(m.addr) PROVE a = m.addr
      <4>1. a.set = m.addr.set
        BY <1>2, <3>1, AddrWord, PlacesDiffer
      <4>2. a.tag = m.addr.tag
        BY <1>6, <1>10, <3>1, <4>1 DEF Hit, Holds
      <4>. QED
        BY <1>2, <3>1, <4>2, SameIndex
    <3>2. ASSUME a = m.addr PROVE Hit(w)
      BY <1>6, <1>10, <3>2 DEF Hit, Holds
    <3>. QED
      BY <3>1, <3>2
  <2>. QED
    BY <2>2, <2>3
<1>11. ASSUME NEW a \in Addrs, a = m.addr PROVE ~Clean(a)'
  <2>1. PICK w \in Ways : Hit(w)
    BY DEF Placement, HitAny, Control, Types
  <2>2. tag_ram'[w][a.set] = TagIn
    BY <1>2, <1>8, <1>11, <2>1
  <2>. QED
    BY <1>5, <1>11, <2>1, <2>2 DEF Clean, HoldsDirty, Holds
<1>. QED
  BY <1>9, <1>10, <1>11

(* While the access waits, the value that a word is to have is the same.   *)
LEMMA CoherentKept ==
    ASSUME Coherent, UNCHANGED <<owed, cache_access_q, req_fifo, flat>>,
           mem' \in [Addrs -> Contents],
           \A a \in Addrs : state_q' = "RESET" \/ Clean(a)' => Good(a, mem'[a]),
           \A a \in Addrs, w \in Ways :
              state_q' # "RESET" /\ Holds(w, a)' /\ ~Filling(w, a.set)'
              => Good(a, data_ram'[w][Index(a)])
    PROVE  Coherent'
<1>1. \A a : InFlight(a)' <=> InFlight(a)
  BY DEF InFlight
<1>2. \A a, v : Good(a, v) => (v \in Contents /\ (NoInvalidates /\ ~InFlight(a)' => v = flat'[a]))
  BY <1>1 DEF Good
<1>3. owed' # None /\ owed'.kind = "st" => flat'[owed'.addr] = owed'.val
  BY DEF Coherent
<1>4. ASSUME NEW a \in Addrs, state_q' = "RESET" \/ Clean(a)'
      PROVE  Good(a, mem[a])'
  <2>1. Good(a, mem'[a])
    BY <1>4
  <2>. QED
    BY <1>2, <2>1 DEF Good
<1>5. ASSUME NEW a \in Addrs, NEW w \in Ways, state_q' # "RESET", Holds(w, a)',
             ~Filling(w, a.set)'
      PROVE  Good(a, data_ram[w][Index(a)])'
  <2>1. Good(a, data_ram'[w][Index(a)])
    BY <1>5
  <2>2. Index(a)' = Index(a)
    BY DEF Index
  <2>. QED
    BY <1>2, <2>1, <2>2 DEF Good
<1>. QED
  BY <1>3, <1>4, <1>5 DEF Coherent

(* What a cycle of the core has in common with all others. *)
LEMMA CoreSetup ==
    ASSUME Control, Cached, ~CoreAck, NEW q \in Drives,
           NEW acc \in BOOLEAN, NEW reply, CoreTurn(q.addr, acc, reply)
    PROVE  /\ UNCHANGED <<owed, cache_access_q, req_fifo, flat, m>>
           /\ Core(NoReq(q.addr), acc) /\ NoReq(q.addr) \in Requests \cup Idles
           /\ m = owed /\ m \in Requests /\ m.kind \in Kinds /\ state_q # "RESET"
           /\ state_q \in States /\ (state_q = "LOOKUP" => Missed)
           /\ PmemAck <=> ans # None
           /\ state_q' = NextState(NoReq(q.addr), acc)
<1>1. /\ m' = m /\ m = owed /\ m \in Requests /\ (state_q = "LOOKUP" => Missed)
      /\ PmemAck <=> ans # None
      /\ NoReq(q.addr) \in Requests \cup Idles /\ m.kind # "none"
  BY CoreRequest, CoreTurnFacts
<1>2. UNCHANGED <<owed, cache_access_q, req_fifo, flat>> /\ Core(NoReq(q.addr), acc)
  BY DEF CoreTurn, bridgeVars
<1>3. m.kind \in Kinds /\ state_q \in States
  BY DEF Control, Machine, Types
<1>4. state_q # "RESET"
  BY <1>1, <1>3 DEF Kinds, Evicts
<1>. QED
  BY <1>1, <1>2, <1>3, <1>4 DEF Core

(* No way but the one that is filled holds a word that is not good.        *)
LEMMA CoherentSilent ==
    ASSUME Control, Data, Cached, ~CoreAck, NEW q \in Drives,
           NEW acc \in BOOLEAN, NEW reply, CoreTurn(q.addr, acc, reply),
           state_q \in Silent \cup {"LOOKUP"}
    PROVE  Coherent'
<1>. DEFINE c == NoReq(q.addr)
<1>1. /\ UNCHANGED <<owed, cache_access_q, req_fifo, flat, m>>
      /\ Core(c, acc) /\ c \in Requests \cup Idles
      /\ m = owed /\ m \in Requests /\ m.kind \in Kinds
      /\ state_q = "LOOKUP" => Missed
  BY CoreSetup
<1>2. mem' = mem
  BY SilentTransfers, MissTransfers
<1>3. Coherent /\ mem \in [Addrs -> Contents] /\ Placement
  BY DEF Data, Coherent
<1>. HIDE DEF c
<1>4. state_q # "RESET" /\ \A w, s : ~Filling(w, s)
  BY DEF Silent, Filling
<1>5. /\ \A a \in Addrs : Clean(a) => Good(a, mem[a])
      /\ \A a \in Addrs, w \in Ways : Holds(w, a) => Good(a, data_ram[w][Index(a)])
  BY <1>3, <1>4 DEF Coherent
<1>6. CASE \/ state_q \in {"READ", "WRITEBACK", "FLUSH_ADDR", "LOOKUP"}
           \/ state_q = "FLUSH" /\ DirtyAny
  <2>1. tag_ram' = tag_ram
    BY <1>1, <1>6, TagsQuiet DEF Missed
  <2>2. data_ram' = data_ram
    BY <1>1, <1>6, DataQuiet DEF Missed
  <2>3. \A a \in Addrs : (Clean(a)' <=> Clean(a)) /\ \A w \in Ways : Holds(w, a)' <=> Holds(w, a)
    BY <2>1 DEF Holds, Clean, HoldsDirty
  <2>4. state_q' # "RESET"
    BY <1>1, <1>6 DEF Core, NextState
  <2>. QED
    BY <1>1, <1>2, <1>3, <1>5, <2>2, <2>3, <2>4, CoherentKept
<1>7. CASE state_q = "FLUSH" /\ ~DirtyAny
  <2>1. data_ram' = data_ram
    BY <1>1, <1>7, DataQuiet
  <2>2. flushing_q /\ EvictSet = flush_addr_q
    BY <1>7 DEF Control, Machine, EvictSet
  <2>3. \A w \in Ways, s \in Rows :
           tag_ram'[w][s] = IF s = flush_addr_q THEN Empty ELSE tag_ram[w][s]
    <3>1. TagRam(c, NextState(c, acc)) /\ (\A w \in Ways : TagWrites(w))
      BY <1>1, <1>7 DEF Core, TagWrites
    <3>2. TagIn = Empty /\ TagWriteSet = flush_addr_q
      BY <2>2 DEF TagIn, TagWriteSet
    <3>. QED
      BY <1>1, <3>1, <3>2, TagsWritten DEF Control
  <2>4. \A a \in Addrs, w \in Ways : Holds(w, a)' => Holds(w, a)
    BY <2>3, AddrWord DEF Holds, Empty
  <2>5. ASSUME NEW a \in Addrs, Clean(a)' PROVE Clean(a)
    <3>1. CASE a.set = flush_addr_q
      <4>1. \A w \in Ways : tag_o[w] = tag_ram[w][a.set]
        BY <1>7, <2>2, <3>1 DEF Control, FreshTags, LooksUp
      <4>. QED
        BY <1>7, <4>1 DEF Clean, HoldsDirty, Holds, DirtyAny, Dirty
    <3>2. CASE a.set # flush_addr_q
      BY <2>3, <2>5, <3>2, AddrWord DEF Clean, HoldsDirty, Holds
    <3>. QED
      BY <3>1, <3>2
  <2>6. state_q' # "RESET"
    BY <1>1, <1>7 DEF Core, NextState
  <2>. QED
    BY <1>1, <1>2, <1>3, <1>5, <2>1, <2>4, <2>5, <2>6, CoherentKept
<1>8. CASE state_q = "INVALIDATE"
  <2>1. data_ram' = data_ram
    BY <1>1, <1>8, DataQuiet
  <2>2. ~NoInvalidates
    BY <1>1, <1>8 DEF NoInvalidates, Kinds, Evicts
  <2>3. \A a \in Addrs : Good(a, mem[a])
    BY <1>3, <2>2 DEF Good
  <2>4. ASSUME NEW a \in Addrs, NEW w \in Ways, Holds(w, a)' PROVE Holds(w, a)
    <3>1. ~flushing_q
      BY <1>8 DEF Control, Machine, Evicts
    <3>2. ~TagIn.v
      BY <1>8, <3>1 DEF TagIn
    <3>3. TagRam(c, NextState(c, acc)) /\ a.set \in Rows
      BY <1>1, AddrWord DEF Core
    <3>. QED
      BY <1>1, <2>4, <3>2, <3>3, TagsWritten DEF Control, Holds
  <2>5. state_q' # "RESET"
    BY <1>1, <1>8 DEF Core, NextState
  <2>. QED
    BY <1>1, <1>2, <1>3, <1>5, <2>1, <2>3, <2>4, <2>5, CoherentKept
<1>9. CASE state_q = "WRITE"
  <2>1. m.kind = "st" /\ m.val \in Contents
    BY <1>1, <1>9, RequestType DEF Kinds, Evicts
  <2>2. /\ \A a \in Addrs, w \in Ways :
              /\ Holds(w, a)' <=> Holds(w, a)
              /\ HoldsDirty(w, a) => HoldsDirty(w, a)'
              /\ Holds(w, a) => data_ram'[w][Index(a)] =
                                   IF a = m.addr THEN m.val ELSE data_ram[w][Index(a)]
    BY <1>1, <1>3, <1>9, <2>1, StoreStep
  <2>3. Good(m.addr, m.val)
    <3>1. InFlight(m.addr)
      BY <1>1, <2>1 DEF InFlight, Cached
    <3>. QED
      BY <2>1, <3>1 DEF Good
  <2>4. \A a \in Addrs : Clean(a)' => Clean(a)
    BY <2>2 DEF Clean
  <2>5. \A a \in Addrs, w \in Ways : Holds(w, a)' => Good(a, data_ram'[w][Index(a)])
    BY <1>5, <2>2, <2>3
  <2>6. state_q' # "RESET"
    BY <1>1, <1>9 DEF Core, NextState
  <2>. QED
    BY <1>1, <1>2, <1>3, <1>5, <2>4, <2>5, <2>6, CoherentKept
<1>. QED
  BY <1>6, <1>7, <1>8, <1>9 DEF Silent

(* What a cycle of the core writes of the line that it fetches. *)
LEMMA RefillData ==
    ASSUME Control, Data, Cached, ~CoreAck, NEW q \in Drives,
           NEW acc \in BOOLEAN, NEW reply, CoreTurn(q.addr, acc, reply),
           state_q = "REFILL", NEW k, k = LineWords - 1 - pmem_len_q
    PROVE  /\ replace_way_q' = replace_way_q /\ replace_way_q \in Ways /\ Access(m) /\ ~flushing_q
           /\ PmemAck => ~pmem_rd_q
           /\ ~pmem_rd_q => k \in Columns /\ Filled
           /\ \A w \in Ways, i \in RamWords :
                 data_ram'[w][i] = IF PmemAck /\ w = replace_way_q /\ i = Base(m.addr.set) + k
                                   THEN mem[Word(m.addr.set, m.addr.tag, k)] ELSE data_ram[w][i]
           /\ data_write_addr_q' = IF PmemAck THEN (data_write_addr_q + 1) % (Sets * LineWords)
                                   ELSE data_write_addr_q
<1>. DEFINE c == NoReq(q.addr)
            next == NextState(c, acc)
<1>1. /\ UNCHANGED <<owed, cache_access_q, req_fifo, flat, m>> /\ Core(c, acc)
      /\ m = owed /\ m.kind \in Kinds /\ (PmemAck <=> ans # None)
  BY CoreSetup
<1>2. /\ DataRam(c, next, acc) /\ Replacement(next)
      /\ next \in {"REFILL", "READ", "WRITE"}
  BY <1>1 DEF Core, NextState
<1>3. Access(m) /\ Refilling /\ ~flushing_q
  <2>1. ~Uncached
    BY DEF Cached, Uncached
  <2>. QED
    BY <1>1, <2>1 DEF Kinds, Evicts, Access, Control, Transfers, Machine
<1>. HIDE DEF next, c
<1>4. replace_way_q' = replace_way_q /\ replace_way_q \in Ways
  BY <1>2, <1>3 DEF Replacement, Control, Types
<1>5. PmemAck => ~pmem_rd_q
  BY <1>1, <1>3 DEF Refilling, PortIdle
<1>6. ~pmem_rd_q => k \in Columns /\ Filled
  <2>1. ASSUME ~pmem_rd_q PROVE k \in Columns
    <3>1. pmem_len_q < LineWords /\ pmem_len_q \in 0 .. 255 /\ LineWords \in 2 .. 256
      BY <1>3, <2>1, DcacheAssumption DEF Refilling, Control, Types
    <3>. QED
      BY <3>1, SMT DEF Columns
  <2>. QED
    BY <2>1 DEF Data, Progress
<1>7. /\ \A w \in Ways : DataWrites(w) <=> PmemAck /\ w = replace_way_q
      /\ DataWriteIndex(c, next) = data_write_addr_q /\ DataIn = ans.data
  <2>1. \A w \in Ways : DataWrites(w) <=> PmemAck /\ w = replace_way_q
    BY Zenon DEF DataWrites
  <2>2. DataWriteIndex(c, next) = data_write_addr_q /\ DataIn = ans.data
    BY <1>2 DEF DataWriteIndex, DataReadIndex, DataIn, Entering
  <2>. QED
    BY <2>1, <2>2
<1>8. PmemAck => /\ data_write_addr_q = Base(m.addr.set) + k
                 /\ ans.data = mem[Word(m.addr.set, m.addr.tag, k)]
  BY <1>1, <1>5, <1>6 DEF Filled
<1>9. \A w \in Ways, i \in RamWords :
         data_ram'[w][i] = IF PmemAck /\ w = replace_way_q /\ i = Base(m.addr.set) + k
                           THEN mem[Word(m.addr.set, m.addr.tag, k)] ELSE data_ram[w][i]
  BY <1>2, <1>7, <1>8, DataWritten DEF Control
<1>10. data_write_addr_q' = IF PmemAck THEN (data_write_addr_q + 1) % (Sets * LineWords)
                            ELSE data_write_addr_q
  <2>1. ~Entering("REFILL", next) /\ ~Entering("EVICT", next)
    BY <1>2 DEF Entering
  <2>. QED
    BY <1>2, <2>1 DEF DataRam
<1>. QED
  BY <1>3, <1>4, <1>5, <1>6, <1>9, <1>10

(* A line that has been fetched is what memory holds, and memory is good.  *)
LEMMA CoherentRefill ==
    ASSUME Control, Data, Cached, ~CoreAck, NEW q \in Drives,
           NEW acc \in BOOLEAN, NEW reply, CoreTurn(q.addr, acc, reply),
           state_q = "REFILL"
    PROVE  Coherent'
<1>. DEFINE c == NoReq(q.addr)
            k == LineWords - 1 - pmem_len_q
            set == m.addr.set
            tag == m.addr.tag
<1>1. /\ UNCHANGED <<owed, cache_access_q, req_fifo, flat, m>>
      /\ Core(c, acc) /\ c \in Requests \cup Idles /\ state_q' = NextState(c, acc)
  BY CoreSetup
<1>2. /\ mem' = mem /\ (PmemAck /\ LastBeat => state_q' \in {"READ", "WRITE"})
      /\ ~(PmemAck /\ LastBeat) => state_q' = "REFILL"
  BY RefillTransfers
<1>3. Coherent /\ mem \in [Addrs -> Contents] /\ Placement
  BY DEF Data, Coherent
<1>4. /\ replace_way_q' = replace_way_q /\ replace_way_q \in Ways /\ Access(m) /\ ~flushing_q
      /\ PmemAck => ~pmem_rd_q
      /\ ~pmem_rd_q => k \in Columns /\ Filled
      /\ \A w \in Ways, i \in RamWords :
            data_ram'[w][i] = IF PmemAck /\ w = replace_way_q /\ i = Base(set) + k
                              THEN mem[Word(set, tag, k)] ELSE data_ram[w][i]
  BY RefillData
<1>5. m.addr \in Addrs /\ set \in Rows
  BY <1>4, AccessLine, AddrWord
<1>6. /\ \A a \in Addrs : Clean(a) => Good(a, mem[a])
      /\ \A a \in Addrs, w \in Ways : Holds(w, a) /\ (w # replace_way_q \/ a.set # set)
            => Good(a, data_ram[w][Index(a)])
  BY <1>3 DEF Coherent, Filling
<1>7. \A w \in Ways : tag_o[w] = tag_ram[w][set]
  BY <1>4 DEF Control, FreshTags, LooksUp, EvictSet
<1>. HIDE DEF c, k, set, tag
<1>8. ASSUME NEW a \in Addrs, NEW w \in Ways, w # replace_way_q \/ a.set # set
      PROVE  data_ram'[w][Index(a)] = data_ram[w][Index(a)]
  <2>1. Index(a) = Base(a.set) + a.word /\ Index(a) \in RamWords /\ a.set \in Rows /\ a.word \in Columns
    BY AddrWord
  <2>2. CASE w # replace_way_q \/ ~PmemAck
    BY <1>4, <2>1, <2>2
  <2>3. CASE PmemAck /\ a.set # set
    <3>1. k \in Columns
      BY <1>4, <2>3
    <3>2. Index(a) # Base(set) + k
      BY <1>5, <2>1, <2>3, <3>1, PlacesDiffer
    <3>. QED
      BY <1>4, <2>1, <3>2
  <2>. QED
    BY <1>8, <2>2, <2>3
<1>9. CASE ~(PmemAck /\ LastBeat)
  <2>1. tag_ram' = tag_ram
    BY <1>1, <1>9, TagsQuiet
  <2>2. \A a \in Addrs : (Clean(a)' <=> Clean(a)) /\ \A w \in Ways : Holds(w, a)' <=> Holds(w, a)
    BY <2>1 DEF Holds, Clean, HoldsDirty
  <2>3. state_q' = "REFILL"
    BY <1>2, <1>9
  <2>4. ASSUME NEW a \in Addrs, NEW w \in Ways, Holds(w, a)', ~Filling(w, a.set)'
        PROVE  Good(a, data_ram'[w][Index(a)])
    <3>1. w # replace_way_q \/ a.set # set
      BY <1>1, <1>4, <2>3, <2>4 DEF Filling, set
    <3>. QED
      BY <1>6, <1>8, <2>2, <2>4, <3>1
  <2>. QED
    BY <1>1, <1>2, <1>3, <1>6, <2>2, <2>3, <2>4, CoherentKept
<1>10. CASE PmemAck /\ LastBeat
  <2>1. TagIn.v /\ ~TagIn.d /\ TagIn.t = tag /\ TagWriteSet = set
    BY <1>4, TagInFields DEF set, tag
  <2>2. \A w \in Ways, s \in Rows :
           tag_ram'[w][s] = IF w = replace_way_q /\ s = set THEN TagIn ELSE tag_ram[w][s]
    <3>1. TagRam(c, NextState(c, acc)) /\ (\A w \in Ways : TagWrites(w) <=> w = replace_way_q)
      BY <1>1, <1>10 DEF Core, TagWrites
    <3>. QED
      BY <1>1, <2>1, <3>1, TagsWritten DEF Control
  <2>3. state_q' # "RESET" /\ state_q' # "REFILL"
    BY <1>2, <1>10
  <2>4. ASSUME NEW a \in Addrs, NEW w \in Ways, w = replace_way_q /\ a.set = set
        PROVE  ~HoldsDirty(w, a)
    BY <1>3, <1>7, <2>4 DEF HoldsDirty, Holds, Placement, Dirty
  <2>5. ASSUME NEW a \in Addrs, Clean(a)' PROVE Clean(a)
    <3>1. ASSUME NEW w \in Ways PROVE ~HoldsDirty(w, a)
      <4>1. CASE w = replace_way_q /\ a.set = set
        BY <2>4, <4>1
      <4>2. CASE ~(w = replace_way_q /\ a.set = set)
        <5>1. ~HoldsDirty(w, a)' /\ a.set \in Rows
          BY <2>5, AddrWord DEF Clean
        <5>. QED
          BY <2>2, <4>2, <5>1 DEF HoldsDirty, Holds
      <4>. QED
        BY <4>1, <4>2
    <3>. QED
      BY <3>1 DEF Clean
  <2>6. ASSUME NEW a \in Addrs, NEW w \in Ways, Holds(w, a)'
        PROVE  Good(a, data_ram'[w][Index(a)])
    <3>0. a.set \in Rows /\ a.word \in Columns /\ a = Word(a.set, a.tag, a.word)
          /\ Index(a) = Base(a.set) + a.word /\ Index(a) \in RamWords
      BY AddrWord
    <3>1. CASE w = replace_way_q /\ a.set = set
      <4>1. a.tag = tag
        <5>1. tag_ram'[w][a.set] = TagIn
          BY <1>5, <2>2, <3>1
        <5>. QED
          BY <2>1, <2>6, <5>1 DEF Holds
      <4>2. Clean(a)
        <5>1. ASSUME NEW x \in Ways, x # w PROVE ~HoldsDirty(x, a)
          <6>1. ~Hit(x)
            BY <1>3, <3>1, <5>1 DEF Placement
          <6>. QED
            BY <1>7, <3>1, <4>1, <6>1 DEF Hit, HoldsDirty, Holds, tag
        <5>. QED
          BY <2>4, <3>1, <5>1 DEF Clean
      <4>3. data_ram'[w][Index(a)] = mem[a]
        <5>1. k \in Columns /\ Filled /\ ~pmem_rd_q
          BY <1>4, <1>10
        <5>2. Copied(set, tag, k)
          BY <5>1 DEF Filled, k, set, tag
        <5>3. k = LineWords - 1 /\ (a.word = k \/ a.word < k)
          <6>1. LineWords \in 2 .. 256 /\ pmem_len_q = 0
            BY <1>10, DcacheAssumption DEF LastBeat
          <6>. QED
            BY <3>0, <6>1, SMT DEF k, Columns
        <5>4. CASE a.word = k
          BY <1>4, <1>10, <3>0, <3>1, <4>1, <5>4
        <5>5. CASE a.word < k
          <6>1. Base(set) + a.word # Base(set) + k
            <7>1. a.word # k
              BY <3>0, <5>1, <5>5, SMT DEF Columns
            <7>. QED
              BY <1>5, <3>0, <5>1, <7>1, PlacesDiffer
          <6>2. data_ram'[w][Index(a)] = data_ram[w][Index(a)]
            BY <1>4, <3>0, <3>1, <6>1
          <6>. QED
            BY <3>0, <3>1, <4>1, <5>2, <5>5, <6>2 DEF Copied
        <5>. QED
          BY <5>3, <5>4, <5>5
      <4>. QED
        BY <1>6, <4>2, <4>3
    <3>2. CASE ~(w = replace_way_q /\ a.set = set)
      <4>1. Holds(w, a)
        BY <2>2, <2>6, <3>0, <3>2 DEF Holds
      <4>. QED
        BY <1>6, <1>8, <3>2, <4>1
    <3>. QED
      BY <3>1, <3>2
  <2>. QED
    BY <1>1, <1>2, <1>3, <1>6, <2>3, <2>5, <2>6, CoherentKept
<1>. QED
  BY <1>9, <1>10

(* The word of the line that is on its way is held by the way that is      *)
(* emptied.                                                                *)
LEMMA EvictHeld ==
    ASSUME Control, Data, Evicts, NEW k \in Columns
    PROVE  LET at == Word(EvictSet, EvictTag, k)
           IN /\ at \in Addrs /\ Holds(replace_way_q, at) /\ HoldsDirty(replace_way_q, at)
              /\ Index(at) = Base(EvictSet) + k /\ Index(at) \in RamWords
              /\ Good(at, data_ram[replace_way_q][Base(EvictSet) + k])
<1>. DEFINE at == Word(EvictSet, EvictTag, k)
<1>1. /\ KnownLine(EvictSet, EvictTag) /\ replace_way_q \in Ways
      /\ tag_o[replace_way_q] = tag_ram[replace_way_q][EvictSet]
  BY EvictLine DEF EvictTag, Control, Types
<1>2. at \in Addrs /\ at.set = EvictSet /\ at.tag = EvictTag /\ at.word = k
  BY <1>1 DEF KnownLine, Word
<1>3. HoldsDirty(replace_way_q, at) /\ Holds(replace_way_q, at)
  <2>1. Dirty(replace_way_q)
    BY DEF Data, Placement
  <2>. QED
    BY <1>1, <1>2, <2>1 DEF HoldsDirty, Holds, Dirty, EvictTag
<1>4. Index(at) = Base(EvictSet) + k /\ Index(at) \in RamWords
  BY <1>2, AddrWord
<1>5. Good(at, data_ram[replace_way_q][Index(at)])
  BY <1>1, <1>2, <1>3 DEF Data, Coherent, Filling, Evicts
<1>. QED
  BY <1>2, <1>3, <1>4, <1>5

(* A word that is written back is the one the way holds. *)
LEMMA CoherentEvict ==
    ASSUME Control, Data, Cached, ~CoreAck, NEW q \in Drives,
           NEW acc \in BOOLEAN, NEW reply, CoreTurn(q.addr, acc, reply),
           state_q = "EVICT"
    PROVE  Coherent'
<1>. DEFINE c == NoReq(q.addr)
            k == LineWords - 1 - pmem_len_q
            at == Word(EvictSet, EvictTag, k)
<1>1. /\ UNCHANGED <<owed, cache_access_q, req_fifo, flat, m>>
      /\ Core(c, acc) /\ c \in Requests \cup Idles /\ state_q' = NextState(c, acc)
  BY CoreSetup
<1>2. /\ Evicts' /\ pmem_len_q \in 0 .. LineWords - 1
      /\ mem' = IF acc THEN [mem EXCEPT ![at] = EvictWord] ELSE mem
  BY EvictTransfers
<1>3. Coherent /\ mem \in [Addrs -> Contents] /\ Evicts
  BY DEF Data, Coherent, Evicts
<1>4. tag_ram' = tag_ram /\ data_ram' = data_ram
  BY <1>1, TagsQuiet, DataQuiet
<1>5. k \in Columns
  <2>1. LineWords \in 2 .. 256
    BY DcacheAssumption
  <2>. QED
    BY <1>2, <2>1, SMT DEF Columns
<1>6. at \in Addrs /\ Good(at, EvictWord) /\ ~Clean(at)
  <2>1. EvictWord = data_ram[replace_way_q][Base(EvictSet) + k]
    BY DEF Data, Progress, Emptied
  <2>. HIDE DEF k
  <2>2. at \in Addrs /\ HoldsDirty(replace_way_q, at)
        /\ Good(at, data_ram[replace_way_q][Base(EvictSet) + k])
    BY <1>3, <1>5, EvictHeld
  <2>. QED
    BY <2>1, <2>2 DEF Clean, Control, Types
<1>. HIDE DEF c, at
<1>7. mem' \in [Addrs -> Contents] /\ \A a \in Addrs : a # at => mem'[a] = mem[a]
  BY <1>2, <1>3, <1>6 DEF Good
<1>8. \A a \in Addrs : (Clean(a)' <=> Clean(a)) /\ \A w \in Ways : Holds(w, a)' <=> Holds(w, a)
  BY <1>4 DEF Holds, Clean, HoldsDirty
<1>9. state_q' # "RESET"
  BY <1>2 DEF Evicts
<1>10. \A a \in Addrs : Clean(a)' => Good(a, mem'[a])
  BY <1>3, <1>6, <1>7, <1>8 DEF Coherent
<1>11. \A a \in Addrs, w \in Ways : Holds(w, a)' => Good(a, data_ram'[w][Index(a)])
  BY <1>3, <1>4, <1>8 DEF Coherent, Filling, Evicts
<1>. QED
  BY <1>1, <1>3, <1>7, <1>9, <1>10, <1>11, CoherentKept

(* Once a line is written back as a whole, it is clean. *)
LEMMA CoherentEvicted ==
    ASSUME Control, Data, Cached, ~CoreAck, NEW q \in Drives,
           NEW acc \in BOOLEAN, NEW reply, CoreTurn(q.addr, acc, reply),
           state_q = "EVICT_WAIT"
    PROVE  Coherent'
<1>. DEFINE c == NoReq(q.addr)
<1>1. /\ UNCHANGED <<owed, cache_access_q, req_fifo, flat, m>>
      /\ Core(c, acc) /\ c \in Requests \cup Idles /\ state_q' = NextState(c, acc)
      /\ m.kind \in Kinds
  BY CoreSetup
<1>2. /\ mem' = mem
      /\ state_q' = IF ~PmemAck THEN "EVICT_WAIT" ELSE IF m.kind = "wb" THEN "LOOKUP"
                    ELSE IF flushing_q THEN "FLUSH_ADDR" ELSE "REFILL"
  BY EvictedTransfers
<1>3. Coherent /\ mem \in [Addrs -> Contents] /\ Evicts /\ Placement /\ replace_way_q \in Ways
  BY DEF Data, Coherent, Evicts, Control, Types
<1>4. data_ram' = data_ram /\ state_q' # "RESET"
  BY <1>1, <1>2, DataQuiet
<1>. HIDE DEF c
<1>5. /\ \A a \in Addrs : Clean(a) => Good(a, mem[a])
      /\ \A a \in Addrs, w \in Ways : Holds(w, a) => Good(a, data_ram[w][Index(a)])
  BY <1>3 DEF Coherent, Filling, Evicts
<1>6. CASE ~PmemAck
  <2>1. tag_ram' = tag_ram
    BY <1>1, <1>6, TagsQuiet
  <2>2. \A a \in Addrs : (Clean(a)' <=> Clean(a)) /\ \A w \in Ways : Holds(w, a)' <=> Holds(w, a)
    BY <2>1 DEF Holds, Clean, HoldsDirty
  <2>. QED
    BY <1>1, <1>2, <1>3, <1>4, <1>5, <2>2, CoherentKept
<1>7. CASE PmemAck
  <2>1. TagWriteSet = EvictSet /\ EvictSet \in Rows /\ \A w \in Ways : tag_o[w] = tag_ram[w][EvictSet]
    BY <1>3, EvictLine DEF TagWriteSet, EvictSet
  <2>2. \A w \in Ways, s \in Rows :
           tag_ram'[w][s] = IF w = replace_way_q /\ s = EvictSet THEN TagIn ELSE tag_ram[w][s]
    <3>1. TagRam(c, NextState(c, acc)) /\ (\A w \in Ways : TagWrites(w) <=> w = replace_way_q)
      BY <1>1, <1>7 DEF Core, TagWrites
    <3>. QED
      BY <1>1, <2>1, <3>1, TagsWritten DEF Control
  <2>3. ASSUME NEW a \in Addrs, Clean(a)' PROVE Good(a, mem'[a])
    <3>0. a.set \in Rows /\ a.word \in Columns /\ a = Word(a.set, a.tag, a.word)
          /\ Index(a) = Base(a.set) + a.word
      BY AddrWord
    <3>1. CASE Clean(a)
      BY <1>2, <1>5, <3>1
    <3>2. CASE ~Clean(a)
      <4>1. PICK x \in Ways : HoldsDirty(x, a)
        BY <3>2 DEF Clean
      <4>2. x = replace_way_q /\ a.set = EvictSet
        <5>1. ~HoldsDirty(x, a)'
          BY <2>3 DEF Clean
        <5>. QED
          BY <2>2, <3>0, <4>1, <5>1 DEF HoldsDirty, Holds
      <4>3. a.tag = EvictTag
        BY <2>1, <4>1, <4>2 DEF HoldsDirty, Holds, EvictTag
      <4>4. a.word < LineWords
        <5>1. LineWords \in 2 .. 256
          BY DcacheAssumption
        <5>. QED
          BY <3>0, <5>1, SMT DEF Columns
      <4>5. data_ram[replace_way_q][Index(a)] = mem[a]
        BY <3>0, <4>2, <4>3, <4>4 DEF Data, Progress, Copied
      <4>6. Good(a, data_ram[replace_way_q][Index(a)])
        BY <1>3, <1>5, <4>1, <4>2 DEF HoldsDirty
      <4>. QED
        BY <1>2, <4>5, <4>6
    <3>. QED
      BY <3>1, <3>2
  <2>4. ASSUME NEW a \in Addrs, NEW w \in Ways, Holds(w, a)', ~Filling(w, a.set)'
        PROVE  Good(a, data_ram'[w][Index(a)])
    <3>0. a.set \in Rows
      BY AddrWord
    <3>1. Holds(w, a)
      <4>1. CASE w = replace_way_q /\ a.set = EvictSet
        <5>1. tag_ram'[w][a.set] = TagIn
          BY <2>1, <2>2, <4>1
        <5>2. TagIn.v /\ TagIn.t = a.tag
          BY <2>4, <5>1 DEF Holds
        <5>3. ~flushing_q
          BY <5>2 DEF TagIn, Empty
        <5>4. TagIn.t = m.addr.tag /\ EvictSet = m.addr.set
          BY <5>3, TagInFields DEF EvictSet
        <5>5. CASE m.kind = "wb"
          <6>1. Hit(replace_way_q)
            BY <1>3, <5>5 DEF Control, Machine
          <6>. QED
            BY <2>1, <4>1, <5>2, <5>4, <6>1 DEF Hit, Holds
        <5>6. CASE m.kind # "wb"
          <6>1. state_q' = "REFILL"
            BY <1>2, <1>7, <5>3, <5>6
          <6>2. replace_way_q' = replace_way_q
            <7>1. Replacement(NextState(c, acc)) /\ NextState(c, acc) = "REFILL"
              BY <1>1, <6>1 DEF Core
            <7>. QED
              BY <5>3, <7>1 DEF Replacement
          <6>. QED
            BY <1>1, <2>4, <4>1, <5>4, <6>1, <6>2 DEF Filling
        <5>. QED
          BY <5>5, <5>6
      <4>2. CASE ~(w = replace_way_q /\ a.set = EvictSet)
        BY <2>2, <2>4, <3>0, <4>2 DEF Holds
      <4>. QED
        BY <4>1, <4>2
    <3>. QED
      BY <1>4, <1>5, <3>1
  <2>. QED
    BY <1>1, <1>2, <1>3, <1>4, <2>3, <2>4, CoherentKept
<1>. QED
  BY <1>6, <1>7

(* The accesses take effect one after the other: a word that is settled    *)
(* stays so until the next store of it is accepted.                        *)
LEMMA CoherentFree ==
    ASSUME Control, Data, owed = None \/ MemAck, NEW q \in Drives, NEW x,
           FreeTurn(q, CachedReq(q), x)
    PROVE  Coherent'
<1>. DEFINE c == CachedReq(q)
            Settled(a, v) == v \in Contents /\ (NoInvalidates => v = flat[a])
<1>1. /\ Core(c, x) /\ mem' = mem
      /\ cache_access_q' = IF Accepted(q) THEN Cacheable(q) ELSE cache_access_q
      /\ owed' = IF Accepted(q) THEN q ELSE None
      /\ flat' = IF Accepted(q) /\ q.kind = "st" THEN [flat EXCEPT ![q.addr] = q.val] ELSE flat
      /\ req_fifo' = (IF Accepted(q) /\ ~Cacheable(q) THEN <<q>> ELSE <<>>)
  BY DEF FreeTurn
<1>2. /\ req_fifo = <<>> /\ state_q \in {"RESET", "LOOKUP"}
      /\ m.kind # "none" => CoreAck /\ Cached /\ state_q = "LOOKUP"
  BY FreeFacts
<1>3. /\ c \in Requests \cup Idles /\ (Accepted(q) => q \in Requests /\ q.addr \in Addrs /\ q # None)
      /\ flat \in [Addrs -> Contents]
  BY CoreRequest, FreeTurnFacts, RequestType DEF Control, Types
<1>4. state_q' # "REFILL"
  BY FreeTransfers
<1>5. Coherent /\ mem \in [Addrs -> Contents] /\ Placement
  BY DEF Data, Coherent
<1>6. \A a \in Addrs : InFlight(a) => m.kind = "st" /\ a = m.addr /\ Cached /\ m = owed
  BY <1>2, Sides DEF InFlight, Control, Cached
<1>. HIDE DEF c
<1>7. ASSUME NEW a \in Addrs, NEW v, Settled(a, v)
      PROVE  v \in Contents /\ (NoInvalidates /\ ~InFlight(a)' => v = flat'[a])
  <2>1. CASE Accepted(q) /\ q.kind = "st" /\ q.addr = a
    <3>1. owed' = q /\ owed' # None
      BY <1>1, <1>3, <2>1
    <3>2. cache_access_q' \/ req_fifo' # <<>>
      BY <1>1, <2>1
    <3>3. InFlight(a)'
      BY <2>1, <3>1, <3>2 DEF InFlight
    <3>. QED
      BY <1>7, <3>3
  <2>2. CASE ~(Accepted(q) /\ q.kind = "st" /\ q.addr = a)
    <3>1. flat'[a] = flat[a]
      BY <1>1, <1>3, <2>2
    <3>. QED
      BY <1>7, <3>1
  <2>. QED
    BY <2>1, <2>2
<1>8. owed' # None /\ owed'.kind = "st" => flat'[owed'.addr] = owed'.val
  BY <1>1, <1>3
<1>9. \A a \in Addrs : \A v : Good(a, v) /\ ~InFlight(a) => Settled(a, v)
  BY DEF Good
<1>10. /\ \A a \in Addrs : state_q' = "RESET" \/ Clean(a)' => Settled(a, mem[a])
       /\ \A a \in Addrs, w \in Ways :
             state_q' # "RESET" /\ Holds(w, a)' => Settled(a, data_ram'[w][Index(a)])
  <2>1. CASE state_q = "RESET"
    <3>1. \A a \in Addrs : Settled(a, mem[a])
      <4>1. \A a \in Addrs : ~InFlight(a) /\ Good(a, mem[a])
        BY <1>2, <1>5, <1>6, <2>1 DEF Coherent
      <4>. QED
        BY <1>9, <4>1
    <3>2. ASSUME state_q' # "RESET", NEW a \in Addrs, NEW w \in Ways PROVE ~Holds(w, a)'
      BY <1>1, <1>3, <2>1, <3>2, ResetEmpties, AddrWord DEF Holds, Empty
    <3>. QED
      BY <3>1, <3>2
  <2>2. CASE state_q = "LOOKUP" /\ m.kind = "st"
    <3>1. HitAny /\ Cached /\ m = owed /\ m \in Requests
      BY <1>2, <2>2, Sides DEF CoreAck, CacheOp, Control
    <3>2. /\ \A a \in Addrs, w \in Ways :
                /\ Holds(w, a)' <=> Holds(w, a)
                /\ HoldsDirty(w, a) => HoldsDirty(w, a)'
                /\ Holds(w, a) => data_ram'[w][Index(a)] =
                                     IF a = m.addr THEN m.val ELSE data_ram[w][Index(a)]
          /\ \A a \in Addrs : Clean(a)' => a # m.addr
      BY <1>1, <1>3, <1>5, <2>2, <3>1, StoreStep
    <3>3. m.val \in Contents /\ m.val = flat[m.addr] /\ m.addr \in Addrs
      BY <1>5, <2>2, <3>1, RequestType DEF Coherent, Cached
    <3>4. state_q' # "RESET"
      BY <1>1, <2>2 DEF Core, NextState
    <3>5. ASSUME NEW a \in Addrs, Clean(a)' PROVE Settled(a, mem[a])
      <4>1. Clean(a) /\ ~InFlight(a)
        BY <1>6, <3>2, <3>5 DEF Clean
      <4>. QED
        BY <1>5, <1>9, <4>1 DEF Coherent
    <3>6. ASSUME NEW a \in Addrs, NEW w \in Ways, Holds(w, a)'
          PROVE  Settled(a, data_ram'[w][Index(a)])
      <4>1. Holds(w, a) /\ data_ram'[w][Index(a)] =
                              IF a = m.addr THEN m.val ELSE data_ram[w][Index(a)]
        BY <3>2, <3>6
      <4>2. CASE a = m.addr
        BY <3>3, <4>1, <4>2
      <4>3. CASE a # m.addr
        <5>1. Good(a, data_ram[w][Index(a)]) /\ ~InFlight(a)
          BY <1>5, <1>6, <2>2, <4>1, <4>3 DEF Coherent, Filling
        <5>. QED
          BY <1>9, <4>1, <4>3, <5>1
      <4>. QED
        BY <4>2, <4>3
    <3>. QED
      BY <3>4, <3>5, <3>6
  <2>3. CASE state_q = "LOOKUP" /\ m.kind # "st"
    <3>1. tag_ram' = tag_ram /\ data_ram' = data_ram
      BY <1>1, <1>3, <2>3, TagsQuiet, DataQuiet
    <3>2. \A a \in Addrs : (Clean(a)' <=> Clean(a)) /\ \A w \in Ways : Holds(w, a)' <=> Holds(w, a)
      BY <3>1 DEF Holds, Clean, HoldsDirty
    <3>3. \A a \in Addrs : ~InFlight(a)
      BY <1>6, <2>3
    <3>4. state_q' # "RESET"
      BY <1>1, <2>3 DEF Core, NextState
    <3>5. \A a \in Addrs : Clean(a)' => Settled(a, mem[a])
      BY <1>5, <1>9, <3>2, <3>3 DEF Coherent
    <3>6. \A a \in Addrs, w \in Ways : Holds(w, a)' => Settled(a, data_ram'[w][Index(a)])
      BY <1>5, <1>9, <2>3, <3>1, <3>2, <3>3 DEF Coherent, Filling
    <3>. QED
      BY <3>4, <3>5, <3>6
  <2>. QED
    BY <1>2, <2>1, <2>2, <2>3
<1>. HIDE DEF Settled
<1>11. ASSUME NEW a \in Addrs, state_q' = "RESET" \/ Clean(a)'
       PROVE  Good(a, mem[a])'
  <2>1. Settled(a, mem'[a])
    BY <1>1, <1>10, <1>11
  <2>. QED
    BY <1>7, <2>1 DEF Good
<1>12. ASSUME NEW a \in Addrs, NEW w \in Ways, state_q' # "RESET", Holds(w, a)'
       PROVE  Good(a, data_ram[w][Index(a)])'
  <2>1. Settled(a, data_ram'[w][Index(a)])
    BY <1>10, <1>12
  <2>2. Index(a)' = Index(a)
    BY DEF Index
  <2>. QED
    BY <1>7, <2>1, <2>2 DEF Good
<1>. QED
  BY <1>1, <1>5, <1>8, <1>11, <1>12 DEF Coherent

(* The bridge changes only words that no way holds. *)
LEMMA CoherentBridge ==
    ASSUME Control, Data, Uncached, ans = None, NEW b \in Addrs,
           NEW acc \in BOOLEAN, NEW reply, BridgeTurn(b, acc, reply)
    PROVE  Coherent'
<1>. DEFINE c == NoReq(b)
<1>1. /\ owed' = owed /\ cache_access_q' = cache_access_q /\ flat' = flat /\ Core(c, FALSE)
      /\ state_q \in {"RESET", "LOOKUP"} /\ m.kind = "none" /\ ~Missed
      /\ owed # None /\ ~cache_access_q
  BY BridgeTurnFacts DEF BridgeTurn, Uncached
<1>2. IF req_fifo = <<>> THEN mem' = mem /\ req_fifo' = <<>>
      ELSE IF acc THEN /\ req_fifo' = <<>>
                       /\ mem' = IF owed.kind = "ld" THEN mem
                                 ELSE [mem EXCEPT ![owed.addr] = owed.val]
      ELSE req_fifo' = req_fifo /\ mem' = mem
  BY BridgeTransfers
<1>3. /\ owed \in Requests /\ ~Cacheable(owed) /\ owed.addr \in Addrs
      /\ owed.kind \in {"ld", "st"} /\ owed.addr.tag \notin Tags
      /\ owed.kind = "st" => owed.val \in Contents
  <2>1. owed \in Requests /\ ~Cacheable(owed)
    BY Sides DEF Control
  <2>. QED
    BY <2>1, RequestType DEF Cacheable, CacheOp
<1>4. Coherent /\ mem \in [Addrs -> Contents]
  BY DEF Data, Coherent
<1>5. c \in Requests \cup Idles /\ c.kind = "none"
  BY DEF Idles, NoReq
<1>. HIDE DEF c
<1>6. state_q' \in {"RESET", "LOOKUP"} /\ (state_q = "LOOKUP" => state_q' = "LOOKUP")
  BY <1>1, <1>5 DEF Core, NextState
<1>7. mem' \in [Addrs -> Contents]
  BY <1>2, <1>3, <1>4
<1>8. owed' # None /\ owed'.kind = "st" => flat'[owed'.addr] = owed'.val
  BY <1>1, <1>4 DEF Coherent
<1>9. ASSUME NEW a \in Addrs, NEW v, Good(a, v),
             a # owed.addr \/ owed.kind # "st" \/ req_fifo' = req_fifo
      PROVE  v \in Contents /\ (NoInvalidates /\ ~InFlight(a)' => v = flat'[a])
  <2>1. InFlight(a)' <=> InFlight(a)
    BY <1>1, <1>9 DEF InFlight
  <2>. QED
    BY <1>1, <1>9, <2>1 DEF Good
<1>10. ASSUME NEW a \in Addrs, state_q = "RESET" \/ Clean(a)
       PROVE  Good(a, mem[a])'
  <2>1. Good(a, mem[a])
    BY <1>4, <1>10 DEF Coherent
  <2>2. CASE a # owed.addr \/ owed.kind # "st" \/ req_fifo' = req_fifo
    <3>1. mem'[a] = mem[a]
      BY <1>2, <1>3, <1>4, <2>2
    <3>. QED
      BY <1>9, <2>1, <2>2, <3>1 DEF Good
  <2>3. CASE ~(a # owed.addr \/ owed.kind # "st" \/ req_fifo' = req_fifo)
    <3>1. mem'[a] = owed.val
      BY <1>2, <1>3, <1>4, <2>3
    <3>2. flat'[a] = owed.val
      BY <1>1, <1>8, <2>3
    <3>. QED
      BY <1>3, <2>3, <3>1, <3>2 DEF Good
  <2>. QED
    BY <2>2, <2>3
<1>11. ASSUME NEW a \in Addrs, NEW w \in Ways, state_q' # "RESET", Holds(w, a)'
       PROVE  a.tag \in Tags
  <2>1. KnownLines' /\ a.set \in Rows
    BY <1>1, <1>5, KnownLinesStep, AddrWord
  <2>2. tag_ram'[w][a.set].t \in Tags
    BY <1>11, <2>1 DEF KnownLines, KnownLine, Holds
  <2>. QED
    BY <1>11, <2>2 DEF Holds
<1>12. CASE state_q = "RESET"
  <2>1. ASSUME state_q' # "RESET", NEW a \in Addrs, NEW w \in Ways PROVE ~Holds(w, a)'
    <3>1. a.set \in Rows
      BY AddrWord
    <3>2. tag_ram'[w][a.set] = Empty
      BY <1>1, <1>5, <1>12, <2>1, <3>1, ResetEmpties
    <3>. QED
      BY <3>2 DEF Holds, Empty
  <2>. QED
    BY <1>7, <1>8, <1>10, <1>12, <2>1 DEF Coherent
<1>13. CASE state_q = "LOOKUP"
  <2>1. tag_ram' = tag_ram /\ data_ram' = data_ram
    BY <1>1, <1>5, <1>13, TagsQuiet, DataQuiet
  <2>2. \A a \in Addrs : (Clean(a)' <=> Clean(a)) /\ \A w \in Ways : Holds(w, a)' <=> Holds(w, a)
    BY <2>1 DEF Holds, Clean, HoldsDirty
  <2>3. ASSUME NEW a \in Addrs, NEW w \in Ways, Holds(w, a)'
        PROVE  Good(a, data_ram[w][Index(a)])'
    <3>1. a # owed.addr
      BY <1>3, <1>6, <1>11, <1>13, <2>3
    <3>2. Good(a, data_ram[w][Index(a)])
      BY <1>4, <1>13, <2>2, <2>3 DEF Coherent, Filling
    <3>3. Index(a)' = Index(a)
      BY DEF Index
    <3>. QED
      BY <1>9, <2>1, <3>1, <3>2, <3>3 DEF Good
  <2>. QED
    BY <1>6, <1>7, <1>8, <1>10, <1>13, <2>2, <2>3 DEF Coherent
<1>. QED
  BY <1>1, <1>12, <1>13

-----------------------------------------------------------------------------
(* How far a transfer is. *)

(* The address in the data RAM does not wrap within a line. *)
LEMMA NoWrap ==
    ASSUME NEW x \in RamWords PROVE x % (Sets * LineWords) = x
<1>. DEFINE size == Sets * LineWords
<1>1. Sets \in Nat /\ LineWords \in Nat /\ Sets >= 2 /\ LineWords >= 2
  BY DcacheAssumption, SMT
<1>2. size \in Nat /\ size > 0
  BY <1>1, SMT
<1>3. x \in 0 .. size - 1
  BY DEF RamWords
<1>. HIDE DEF size
<1>4. x % size = x
  BY <1>2, <1>3, SMT
<1>. QED
  BY <1>4 DEF size

(* The first word of the line is asked for. *)
LEMMA FilledStarts ==
    ASSUME Control, Data, Cached, ~CoreAck, NEW q \in Drives,
           NEW acc \in BOOLEAN, NEW reply, CoreTurn(q.addr, acc, reply),
           state_q \in {"LOOKUP", "EVICT_WAIT"}, state_q' = "REFILL"
    PROVE  Filled'
<1>. DEFINE c == NoReq(q.addr)
            next == NextState(c, acc)
<1>1. m' = m /\ Core(c, acc) /\ next = "REFILL" /\ (state_q = "LOOKUP" => Missed)
  BY CoreSetup
<1>2. ans' = None /\ (~pmem_rd_q' => pmem_len_q' = LineWords - 1)
  <2>1. CASE state_q = "LOOKUP"
    <3>1. ~EvictWay
      BY <1>1, <2>1 DEF NextState
    <3>. QED
      BY <2>1, <3>1, MissTransfers
  <2>2. CASE state_q = "EVICT_WAIT"
    BY <2>2, EvictedTransfers
  <2>. QED
    BY <2>1, <2>2
<1>3. data_write_addr_q' = Base(m.addr.set)
  <2>1. DataRam(c, next, acc)
    BY <1>1 DEF Core
  <2>. HIDE DEF next
  <2>2. Entering("REFILL", next) /\ ~Entering("EVICT", next)
    BY <1>1 DEF Entering
  <2>. QED
    BY <2>1, <2>2 DEF DataRam
<1>4. /\ LineWords - 1 - (LineWords - 1) = 0 /\ \A i \in Columns : ~(i < 0)
      /\ Base(m.addr.set) \in Int /\ Base(m.addr.set) + 0 = Base(m.addr.set)
  <2>1. LineWords \in Int /\ \A i \in Columns : ~(i < 0)
    BY DcacheAssumption, SMT DEF Columns
  <2>2. Base(m.addr.set) \in Int
    BY AddressType, Places DEF Control, Types
  <2>. QED
    BY <2>1, <2>2, SMT
<1>5. Base(m.addr.set)' = Base(m.addr.set)
  BY <1>1 DEF Base
<1>. QED
  BY <1>1, <1>2, <1>3, <1>4, <1>5 DEF Filled, Copied

(* Every word that is answered is written to its place. *)
LEMMA FilledStep ==
    ASSUME Control, Data, Cached, ~CoreAck, NEW q \in Drives,
           NEW acc \in BOOLEAN, NEW reply, CoreTurn(q.addr, acc, reply),
           state_q = "REFILL", state_q' = "REFILL"
    PROVE  Filled'
<1>. DEFINE k == LineWords - 1 - pmem_len_q
            set == m.addr.set
            tag == m.addr.tag
<1>1. m' = m /\ (PmemAck <=> ans # None)
  BY CoreSetup
<1>2. /\ mem' = mem
      /\ pmem_rd_q => ans = None /\ ans' = None /\ (~pmem_rd_q' => pmem_len_q' = LineWords - 1)
      /\ ~pmem_rd_q =>
             /\ ~pmem_rd_q'
             /\ pmem_len_q' = pmem_len_q - (IF ans = None THEN 0 ELSE 1)
             /\ pmem_len_q' \in 0 .. LineWords - 1
             /\ ans' # None => ans'.data = mem[Word(set, tag, LineWords - 1 - pmem_len_q')]
  BY RefillTransfers
<1>3. /\ replace_way_q' = replace_way_q /\ replace_way_q \in Ways
      /\ ~pmem_rd_q => k \in Columns
      /\ \A w \in Ways, i \in RamWords :
            data_ram'[w][i] = IF PmemAck /\ w = replace_way_q /\ i = Base(set) + k
                              THEN mem[Word(set, tag, k)] ELSE data_ram[w][i]
      /\ data_write_addr_q' = IF PmemAck THEN (data_write_addr_q + 1) % (Sets * LineWords)
                              ELSE data_write_addr_q
  BY RefillData
<1>4. set \in Rows /\ Base(set) \in Int /\ (\A i \in Columns : Base(set) + i \in RamWords)
      /\ Base(set)' = Base(set) /\ LineWords \in 2 .. 256
  <2>1. set \in Rows
    BY AddressType DEF Control, Types
  <2>2. Base(set)' = Base(set)
    BY <1>1 DEF Base
  <2>3. 0 \in Columns /\ LineWords \in 2 .. 256
    BY DcacheAssumption, SMT DEF Columns
  <2>. HIDE DEF set
  <2>. QED
    BY <2>1, <2>2, <2>3, Places
<1>5. Filled
  BY DEF Data, Progress
<1>6. CASE pmem_rd_q
  <2>1. ~PmemAck /\ ans' = None /\ (~pmem_rd_q' => pmem_len_q' = LineWords - 1)
    BY <1>1, <1>2, <1>6
  <2>2. data_write_addr_q' = Base(m.addr.set)
    <3>1. data_write_addr_q = Base(m.addr.set)
      BY <1>5, <1>6 DEF Filled
    <3>. QED
      BY <1>3, <2>1, <3>1
  <2>3. /\ LineWords - 1 - (LineWords - 1) = 0 /\ Base(m.addr.set) + 0 = Base(m.addr.set)
        /\ \A i \in Columns : ~(i < 0)
    BY <1>4, SMT DEF Columns
  <2>4. Base(m.addr.set)' = Base(m.addr.set)
    BY <1>4
  <2>. QED
    BY <1>1, <2>1, <2>2, <2>3, <2>4 DEF Filled, Copied
<1>7. CASE ~pmem_rd_q
  <2>1. /\ data_write_addr_q = Base(set) + k /\ k \in Columns
        /\ \A i \in Columns : i < k => data_ram[replace_way_q][Base(set) + i] = mem[Word(set, tag, i)]
    BY <1>3, <1>5, <1>7 DEF Filled, Copied
  <2>. DEFINE n == LineWords - 1 - pmem_len_q'
  <2>2. n = (IF ans = None THEN k ELSE k + 1) /\ n \in Columns
    <3>1. pmem_len_q \in 0 .. 255 /\ pmem_len_q' \in 0 .. LineWords - 1
      BY <1>2, <1>7 DEF Control, Types
    <3>2. CASE ans = None
      <4>1. pmem_len_q' = pmem_len_q - 0
        BY <1>2, <1>7, <3>2
      <4>2. n = k /\ n \in Columns
        BY <1>4, <3>1, <4>1, SMT DEF Columns
      <4>. QED
        BY <3>2, <4>2
    <3>3. CASE ans # None
      <4>1. pmem_len_q' = pmem_len_q - 1
        BY <1>2, <1>7, <3>3
      <4>2. n = k + 1 /\ n \in Columns
        BY <1>4, <3>1, <4>1, SMT DEF Columns
      <4>. QED
        BY <3>3, <4>2
    <3>. QED
      BY <3>2, <3>3
  <2>3. ASSUME NEW i \in Columns, i < n
        PROVE  data_ram'[replace_way_q][Base(set) + i] = mem[Word(set, tag, i)]
    <3>. HIDE DEF k, n, set, tag
    <3>1. CASE ans # None /\ i = k
      BY <1>1, <1>3, <1>4, <2>3, <3>1
    <3>2. CASE ~(ans # None /\ i = k)
      <4>1. i < k /\ i # k
        BY <2>1, <2>2, <2>3, <3>2, SMT DEF Columns
      <4>2. Base(set) + i # Base(set) + k
        BY <1>4, <2>1, <4>1, PlacesDiffer
      <4>. QED
        BY <1>3, <1>4, <2>1, <4>1, <4>2
    <3>. QED
      BY <3>1, <3>2
  <2>4. data_write_addr_q' = Base(set) + n
    <3>1. CASE ans = None
      BY <1>1, <1>3, <2>1, <2>2, <3>1
    <3>2. CASE ans # None
      <4>1. data_write_addr_q + 1 = Base(set) + n
        <5>. HIDE DEF k, n, set
        <5>1. data_write_addr_q = Base(set) + k /\ n = k + 1 /\ k \in Int
          BY <2>1, <2>2, <3>2, SMT DEF Columns
        <5>. QED
          BY <1>4, <5>1, SMT
      <4>2. Base(set) + n \in RamWords
        BY <1>4, <2>2
      <4>3. (Base(set) + n) % (Sets * LineWords) = Base(set) + n
        BY <4>2, NoWrap
      <4>. QED
        BY <1>1, <1>3, <3>2, <4>1, <4>3
    <3>. QED
      BY <3>1, <3>2
  <2>5. /\ ~pmem_rd_q' /\ (ans' # None => ans'.data = mem'[Word(m.addr.set, m.addr.tag, n)])
        /\ mem' = mem /\ m' = m /\ replace_way_q' = replace_way_q
        /\ Base(m.addr.set)' = Base(m.addr.set)
    BY <1>1, <1>2, <1>3, <1>4, <1>7
  <2>6. \A i \in Columns : i < n =>
           data_ram'[replace_way_q'][Base(m.addr.set)' + i]
           = mem'[Word(m.addr.set, m.addr.tag, i)']
    <3>1. \A i \in Columns : Word(m.addr.set, m.addr.tag, i)' = Word(set, tag, i)
      BY <2>5 DEF Word
    <3>. QED
      BY <2>3, <2>5, <3>1
  <2>7. data_write_addr_q' = Base(m.addr.set)' + n
    BY <2>4, <2>5
  <2>8. Word(m.addr.set, m.addr.tag, n) = [set |-> m'.addr.set, tag |-> m'.addr.tag, word |-> n]
    BY <2>5 DEF Word
  <2>. QED
    BY <2>5, <2>6, <2>7, <2>8 DEF Filled, Copied, Word
<1>. QED
  BY <1>6, <1>7

(* The first word of the line that is written back is read of the RAM.     *)
LEMMA EmptiedStarts ==
    ASSUME Control, Data, Cached, ~CoreAck, NEW q \in Drives,
           NEW acc \in BOOLEAN, NEW reply, CoreTurn(q.addr, acc, reply),
           state_q \in Silent \cup {"LOOKUP"}, state_q' = "EVICT"
    PROVE  Emptied'
<1>. DEFINE c == NoReq(q.addr)
            next == NextState(c, acc)
<1>1. /\ m' = m /\ Core(c, acc) /\ c \in Requests \cup Idles /\ next = "EVICT"
      /\ state_q = "LOOKUP" => Missed
  BY CoreSetup
<1>2. state_q \in {"FLUSH", "WRITEBACK", "LOOKUP"} /\ (state_q = "LOOKUP" => EvictWay)
  BY <1>1 DEF Silent, NextState
<1>3. pmem_len_q' = LineWords - 1
  BY <1>2, SilentTransfers DEF Silent
<1>4. /\ DataRam(c, next, acc) /\ FlushCounter(next) /\ MemoryRequest(next, acc)
  BY <1>1 DEF Core
<1>5. (flushing_q <=> state_q = "FLUSH") /\ ~pmem_wr_q /\ ~CoreWrites
  BY <1>2 DEF Control, Machine, Evicts, CoreWrites
<1>. HIDE DEF next, c
<1>6. EvictSet' = EvictSet /\ EvictSet \in Rows /\ Base(EvictSet)' = Base(EvictSet)
  <2>1. flushing_q' = flushing_q /\ (flushing_q => flush_addr_q' = flush_addr_q)
    BY <1>1, <1>2, <1>4, <1>5 DEF FlushCounter
  <2>2. EvictSet' = EvictSet
    BY <1>1, <2>1 DEF EvictSet
  <2>. QED
    BY <2>2, AddressType DEF EvictSet, Base, Control, Types
<1>7. DataReadIndex(c, next) = Base(EvictSet)
  <2>1. Entering("EVICT", next)
    BY <1>1, <1>2 DEF Entering
  <2>2. state_q \notin {"REFILL", "EVICT", "RESET"}
        /\ EvictSet = (IF state_q = "FLUSH" THEN flush_addr_q ELSE m.addr.set)
    BY <1>2, <1>5 DEF EvictSet
  <2>. QED
    BY <2>1, <2>2 DEF DataReadIndex
<1>8. data_write_addr_q' = Base(EvictSet) + 1
  <2>1. Entering("EVICT", next) /\ ~Entering("REFILL", next)
    BY <1>1, <1>2 DEF Entering
  <2>2. DataWriteIndex(c, next) = Base(EvictSet)
    BY <1>7, <2>1 DEF DataWriteIndex
  <2>. QED
    BY <1>2, <1>4, <2>1, <2>2 DEF DataRam
<1>9. data_ram' = data_ram /\ \A w \in Ways : data_o'[w] = data_ram[w][Base(EvictSet)]
  <2>1. data_ram' = data_ram
    BY <1>1, <1>2, DataQuiet DEF Missed
  <2>. QED
    BY <1>4, <1>7, <2>1, DataWritten DEF Control
<1>10. replace_way_q' \in Ways /\ ~pmem_wr_q'
  BY <1>1, <1>4, <1>5, CoreTypes DEF MemoryRequest, Control
<1>11. /\ LineWords - 1 - (LineWords - 1) = 0 /\ \A i \in Columns : ~(i < 0)
       /\ Base(EvictSet) + 0 = Base(EvictSet) /\ Base(EvictSet) + 0 + 1 = Base(EvictSet) + 1
  <2>1. LineWords \in Int /\ 0 \in Columns
    BY DcacheAssumption, SMT DEF Columns
  <2>2. Base(EvictSet) \in Int
    BY <1>6, <2>1, Places
  <2>. QED
    BY <2>1, <2>2, SMT DEF Columns
<1>12. EvictWord' = data_ram'[replace_way_q'][Base(EvictSet) + 0]
  BY <1>9, <1>10, <1>11 DEF EvictWord
<1>. QED
  BY <1>3, <1>6, <1>8, <1>11, <1>12 DEF Emptied, Copied

(* Every word that is accepted is in memory. *)
LEMMA EvictCopied ==
    ASSUME Control, Data, Cached, ~CoreAck, NEW q \in Drives,
           NEW acc \in BOOLEAN, NEW reply, CoreTurn(q.addr, acc, reply),
           state_q = "EVICT", NEW k, k = LineWords - 1 - pmem_len_q
    PROVE  /\ data_ram' = data_ram /\ EvictSet' = EvictSet /\ EvictTag' = EvictTag
           /\ replace_way_q' = replace_way_q /\ replace_way_q \in Ways /\ k \in Columns
           /\ EvictSet \in Rows
           /\ EvictWord = data_ram[replace_way_q][Base(EvictSet) + k]
           /\ pmem_len_q # 0 => data_write_addr_q = Base(EvictSet) + k + 1
           /\ \A i \in Columns : (i < k \/ (acc /\ i = k)) =>
                 data_ram[replace_way_q][Base(EvictSet) + i] = mem'[Word(EvictSet, EvictTag, i)]
<1>. DEFINE c == NoReq(q.addr)
            at == Word(EvictSet, EvictTag, k)
<1>1. Core(c, acc) /\ c \in Requests \cup Idles
  BY CoreSetup
<1>2. /\ Evicts' /\ pmem_len_q \in 0 .. LineWords - 1
      /\ mem' = IF acc THEN [mem EXCEPT ![at] = EvictWord] ELSE mem
  BY EvictTransfers
<1>3. Evicts /\ data_ram' = data_ram
  BY <1>1, DataQuiet DEF Evicts
<1>4. /\ EvictSet' = EvictSet /\ EvictTag' = EvictTag
      /\ replace_way_q' = replace_way_q /\ replace_way_q \in Ways
  BY <1>1, <1>2, <1>3, EvictKeeps DEF EvictTag
<1>5. k \in Columns
  <2>1. LineWords \in 2 .. 256
    BY DcacheAssumption
  <2>. QED
    BY <1>2, <2>1, SMT DEF Columns
<1>6. /\ EvictWord = data_ram[replace_way_q][Base(EvictSet) + k]
      /\ pmem_len_q # 0 => data_write_addr_q = Base(EvictSet) + k + 1
      /\ Copied(EvictSet, EvictTag, k)
  BY DEF Data, Progress, Emptied
<1>7. ASSUME NEW i \in Columns, i < k \/ (acc /\ i = k)
      PROVE  data_ram[replace_way_q][Base(EvictSet) + i] = mem'[Word(EvictSet, EvictTag, i)]
  <2>1. Word(EvictSet, EvictTag, i) \in Addrs /\ at \in Addrs /\ mem \in [Addrs -> Cells]
    BY <1>3, <1>5, EvictHeld DEF Control, Types
  <2>2. CASE acc /\ i = k
    BY <1>2, <1>6, <2>1, <2>2
  <2>3. CASE i < k
    <3>1. i # k
      BY <1>5, <2>3, SMT DEF Columns
    <3>2. Word(EvictSet, EvictTag, i) # at
      <4>1. Word(EvictSet, EvictTag, i).word = i /\ at.word = k
        BY DEF Word
      <4>. QED
        BY <3>1, <4>1
    <3>3. mem'[Word(EvictSet, EvictTag, i)] = mem[Word(EvictSet, EvictTag, i)]
      BY <1>2, <2>1, <3>2
    <3>. QED
      BY <1>6, <2>3, <3>3 DEF Copied
  <2>. QED
    BY <1>7, <2>2, <2>3
<1>8. EvictSet \in Rows
  BY <1>3, EvictLine
<1>. QED
  BY <1>3, <1>4, <1>5, <1>6, <1>7, <1>8

(* Then the next one is shown, or the same again by the skid buffer.       *)
LEMMA EmptiedStep ==
    ASSUME Control, Data, Cached, ~CoreAck, NEW q \in Drives,
           NEW acc \in BOOLEAN, NEW reply, CoreTurn(q.addr, acc, reply),
           state_q = "EVICT", state_q' = "EVICT"
    PROVE  Emptied'
<1>. DEFINE c == NoReq(q.addr)
            next == NextState(c, acc)
            k == LineWords - 1 - pmem_len_q
<1>1. DataRam(c, next, acc) /\ next = "EVICT"
  BY CoreSetup DEF Core
<1>2. /\ data_ram' = data_ram /\ EvictSet' = EvictSet /\ EvictTag' = EvictTag
      /\ replace_way_q' = replace_way_q /\ replace_way_q \in Ways /\ k \in Columns
      /\ EvictSet \in Rows
      /\ EvictWord = data_ram[replace_way_q][Base(EvictSet) + k]
      /\ pmem_len_q # 0 => data_write_addr_q = Base(EvictSet) + k + 1
      /\ \A i \in Columns : (i < k \/ (acc /\ i = k)) =>
            data_ram[replace_way_q][Base(EvictSet) + i] = mem'[Word(EvictSet, EvictTag, i)]
  BY EvictCopied
<1>3. IF acc THEN ~pmem_wr_q' /\ ~LastBeat /\ pmem_len_q' = pmem_len_q - 1
      ELSE pmem_len_q' = pmem_len_q /\ pmem_wr_q' /\ pmem_write_data_q' = EvictWord
  BY EvictTransfers
<1>. HIDE DEF next, c
<1>4. /\ \A w \in Ways : data_o'[w] = data_ram[w][data_write_addr_q]
      /\ data_write_addr_q' = IF acc THEN (data_write_addr_q + 1) % (Sets * LineWords)
                              ELSE data_write_addr_q
  <2>1. ~Entering("EVICT", next) /\ ~Entering("REFILL", next)
    BY <1>1 DEF Entering
  <2>2. DataReadIndex(c, next) = data_write_addr_q
    BY <2>1 DEF DataReadIndex
  <2>. QED
    BY <1>1, <2>1, <2>2, DataWritten DEF DataRam, Control
<1>5. Base(EvictSet)' = Base(EvictSet) /\ Base(EvictSet) \in Int
  BY <1>2, Places DEF Base
<1>6. LineWords \in 2 .. 256 /\ pmem_len_q \in 0 .. 255
  BY DcacheAssumption DEF Control, Types
<1>7. CASE acc
  <2>1. pmem_len_q # 0
    BY <1>3, <1>7 DEF LastBeat
  <2>2. /\ LineWords - 1 - pmem_len_q' = k + 1 /\ k + 1 \in Columns
        /\ data_write_addr_q = Base(EvictSet) + (k + 1)
        /\ Base(EvictSet) + k + 1 = Base(EvictSet) + (k + 1)
    <3>1. /\ k = LineWords - 1 - pmem_len_q /\ k \in Columns
          /\ pmem_len_q' = pmem_len_q - 1 /\ data_write_addr_q = Base(EvictSet) + k + 1
      BY <1>2, <1>3, <1>7, <2>1
    <3>2. pmem_len_q >= 1 /\ LineWords \in Int
      BY <1>6, <2>1, SMT
    <3>. HIDE DEF k
    <3>3. k \in Int /\ LineWords - 1 - (pmem_len_q - 1) = k + 1
      BY <1>6, <3>1, SMT DEF Columns
    <3>4. k + 1 \in Columns
      BY <1>6, <3>1, <3>2, SMT DEF Columns
    <3>5. Base(EvictSet) + k + 1 = Base(EvictSet) + (k + 1)
      BY <1>5, <3>3, SMT
    <3>. QED
      BY <3>1, <3>3, <3>4, <3>5
  <2>3. EvictWord' = data_ram'[replace_way_q'][Base(EvictSet) + (k + 1)]
    BY <1>2, <1>3, <1>4, <1>7, <2>2 DEF EvictWord
  <2>4. \A i \in Columns : i < k + 1 =>
           data_ram[replace_way_q][Base(EvictSet) + i] = mem'[Word(EvictSet, EvictTag, i)]
    <3>1. \A i \in Columns : i < k + 1 => i < k \/ i = k
      BY <1>2, SMT DEF Columns
    <3>. QED
      BY <1>2, <1>7, <3>1
  <2>5. pmem_len_q' # 0 => data_write_addr_q' = Base(EvictSet) + (k + 1) + 1
    <3>1. ASSUME pmem_len_q' # 0
          PROVE  k + 1 + 1 \in Columns /\ data_write_addr_q + 1 = Base(EvictSet) + (k + 1 + 1)
                 /\ Base(EvictSet) + (k + 1 + 1) = Base(EvictSet) + (k + 1) + 1
      BY <1>2, <1>3, <1>5, <1>6, <1>7, <2>2, <3>1, SMT DEF Columns
    <3>2. ASSUME pmem_len_q' # 0 PROVE data_write_addr_q' = Base(EvictSet) + (k + 1 + 1)
      <4>1. Base(EvictSet) + (k + 1 + 1) \in RamWords
        BY <1>2, <3>1, <3>2, Places
      <4>2. (Base(EvictSet) + (k + 1 + 1)) % (Sets * LineWords) = Base(EvictSet) + (k + 1 + 1)
        BY <4>1, NoWrap
      <4>. QED
        BY <1>4, <1>7, <3>1, <3>2, <4>2
    <3>. QED
      BY <3>1, <3>2
  <2>. HIDE DEF k
  <2>. QED
    BY <1>2, <1>5, <2>2, <2>3, <2>4, <2>5 DEF Emptied, Copied
<1>8. CASE ~acc
  <2>1. EvictWord' = EvictWord
    BY <1>3, <1>8 DEF EvictWord
  <2>. QED
    BY <1>2, <1>3, <1>4, <1>5, <1>8, <2>1 DEF Emptied, Copied
<1>. QED
  BY <1>7, <1>8


(* The whole line is in memory, and stays until it is answered. *)
LEMMA EvictedKeeps ==
    ASSUME Control, Data, Cached, ~CoreAck, NEW q \in Drives,
           NEW acc \in BOOLEAN, NEW reply, CoreTurn(q.addr, acc, reply),
           Evicts, state_q' = "EVICT_WAIT"
    PROVE  Copied(EvictSet, EvictTag, LineWords)'
<1>. DEFINE c == NoReq(q.addr)
<1>1. Core(c, acc) /\ c \in Requests \cup Idles /\ state_q' = NextState(c, acc)
  BY CoreSetup
<1>2. EvictSet' = EvictSet /\ EvictTag' = EvictTag /\ data_ram' = data_ram
      /\ replace_way_q' = replace_way_q /\ replace_way_q \in Ways /\ Base(EvictSet)' = Base(EvictSet)
  <2>1. Evicts'
    BY DEF Evicts
  <2>2. data_ram' = data_ram
    BY <1>1, DataQuiet DEF Evicts
  <2>. QED
    BY <1>1, <2>1, <2>2, EvictKeeps DEF EvictTag, Base
<1>3. \A i \in Columns :
         data_ram[replace_way_q][Base(EvictSet) + i] = mem'[Word(EvictSet, EvictTag, i)]
  <2>1. CASE state_q = "EVICT"
    <3>1. acc /\ pmem_len_q = 0
      BY <1>1, <2>1 DEF NextState, LastBeat
    <3>2. \A i \in Columns : i < LineWords - 1 - pmem_len_q \/ i = LineWords - 1 - pmem_len_q
      BY <3>1, DcacheAssumption, SMT DEF Columns
    <3>. QED
      BY <2>1, <3>1, <3>2, EvictCopied
  <2>2. CASE state_q = "EVICT_WAIT"
    <3>1. Copied(EvictSet, EvictTag, LineWords) /\ mem' = mem
      BY <2>2, EvictedTransfers DEF Data, Progress
    <3>2. \A i \in Columns : i < LineWords
      BY DcacheAssumption, SMT DEF Columns
    <3>. QED
      BY <3>1, <3>2 DEF Copied
  <2>. QED
    BY <2>1, <2>2 DEF Evicts
<1>. HIDE DEF c
<1>4. \A i \in Columns : Word(EvictSet, EvictTag, i)' = Word(EvictSet, EvictTag, i)
  BY <1>2 DEF Word
<1>. QED
  BY <1>2, <1>3, <1>4 DEF Copied

(* A turn of the core keeps track of its transfer, and when it has looked  *)
(* a word up for a load it shows that word.                                *)
LEMMA ProgressCore ==
    ASSUME Control, Data, Cached, ~CoreAck, NEW q \in Drives,
           NEW acc \in BOOLEAN, NEW reply, CoreTurn(q.addr, acc, reply)
    PROVE  Progress'
<1>. DEFINE c == NoReq(q.addr)
            next == NextState(c, acc)
<1>1. /\ m' = m /\ Core(c, acc) /\ c \in Requests \cup Idles /\ state_q' = next
      /\ state_q \in States \ {"RESET"} /\ m.kind \in Kinds /\ (state_q = "LOOKUP" => Missed)
  BY CoreSetup
<1>2. ~Uncached'
  <2>1. NoReq(q.addr) \in Requests \cup Idles
    BY CoreSetup
  <2>. QED
    BY <2>1, CoreTurnFacts
<1>3. ASSUME state_q' = "REFILL" PROVE Filled'
  <2>1. state_q \in {"LOOKUP", "EVICT_WAIT", "REFILL"}
    BY <1>1, <1>3 DEF NextState, States
  <2>. QED
    BY <1>3, <2>1, FilledStarts, FilledStep
<1>4. ASSUME state_q' = "EVICT" PROVE Emptied'
  <2>1. state_q \in {"LOOKUP", "FLUSH", "WRITEBACK", "EVICT"}
    BY <1>1, <1>4 DEF NextState, States
  <2>. QED
    BY <1>4, <2>1, EmptiedStarts, EmptiedStep DEF Silent
<1>5. ASSUME state_q' = "EVICT_WAIT" PROVE Copied(EvictSet, EvictTag, LineWords)'
  <2>1. Evicts
    BY <1>1, <1>5 DEF NextState, States, Evicts
  <2>. QED
    BY <1>5, <2>1, EvictedKeeps
<1>6. ASSUME state_q' = "LOOKUP", m'.kind = "ld", NEW w \in Ways
      PROVE  data_o'[w] = data_ram'[w][Index(m.addr)']
  <2>1. state_q = "READ"
    BY <1>1, <1>6 DEF NextState, States, Kinds, Evicts
  <2>2. DataRam(c, next, acc) /\ ~Entering("EVICT", next) /\ data_ram' = data_ram
    <3>1. data_ram' = data_ram
      BY <1>1, <2>1, DataQuiet
    <3>. QED
      BY <1>1, <1>6, <2>1, <3>1 DEF Core, Entering
  <2>. HIDE DEF next, c
  <2>3. DataReadIndex(c, next) = Index(m.addr)
    BY <2>1, <2>2 DEF DataReadIndex
  <2>4. Index(m.addr)' = Index(m.addr)
    BY <1>1 DEF Index
  <2>. QED
    BY <2>2, <2>3, <2>4, DataWritten DEF Control
<1>. QED
  BY <1>2, <1>3, <1>4, <1>5, <1>6 DEF Progress

(* A load that is accepted is shown its word, if a way holds it: not what  *)
(* the RAM held before a store to another word of the same place.          *)
LEMMA ProgressFree ==
    ASSUME Control, Data, owed = None \/ MemAck, NEW q \in Drives, NEW x \in BOOLEAN,
           FreeTurn(q, CachedReq(q), x)
    PROVE  Progress'
<1>. DEFINE c == CachedReq(q)
            next == NextState(c, x)
<1>1. /\ Core(c, x) /\ c \in Requests \cup Idles /\ state_q' = next /\ ans' = None
      /\ TagRam(c, next) /\ DataRam(c, next, x)
  BY CoreRequest DEF FreeTurn, Core
<1>2. state_q' \in {"RESET", "LOOKUP", "WRITEBACK", "FLUSH_ADDR", "INVALIDATE"}
  BY FreeTransfers
<1>3. ASSUME state_q' = "LOOKUP", m'.kind = "ld", NEW w \in Ways, Hit(w)'
      PROVE  data_o'[w] = data_ram'[w][Index(m.addr)']
  <2>1. /\ state_q = "LOOKUP" /\ m' = c /\ c.kind = "ld" /\ CoreAccept(c)
        /\ c \in Requests /\ c.addr \in Addrs
    <3>1. state_q = "LOOKUP" /\ m' = c /\ CoreAccept(c)
      <4>1. state_q \in {"RESET", "LOOKUP"}
        BY FreeFacts
      <4>2. CASE state_q = "RESET"
        BY <1>3, <4>2, FreeTurnFacts, IdleType
      <4>3. CASE state_q = "LOOKUP"
        <5>1. m' = IF CoreAccept(c) THEN c ELSE NoReq(Zero)
          BY <4>3, FreeTurnFacts
        <5>2. NoReq(Zero).kind = "none"
          BY DEF NoReq
        <5>. QED
          BY <1>3, <4>3, <5>1, <5>2
      <4>. QED
        BY <4>1, <4>2, <4>3
    <3>2. c \in Requests
      BY <1>1, <1>3, <3>1, IdleType
    <3>. QED
      BY <1>3, <3>1, <3>2, RequestType
  <2>2. ~flushing_q /\ ~Entering("EVICT", next) /\ next = "LOOKUP"
    <3>1. ~flushing_q
      BY <2>1 DEF Control, Machine, Evicts
    <3>. QED
      BY <1>1, <1>3, <3>1 DEF Entering
  <2>. HIDE DEF next, c
  <2>3. data_o'[w] = data_ram[w][Index(c.addr)]
    <3>1. DataReadIndex(c, next) = Index(c.addr)
      BY <2>1, <2>2 DEF DataReadIndex
    <3>. QED
      BY <1>1, <3>1, DataWritten DEF Control
  <2>4. Index(m.addr)' = Index(c.addr) /\ Index(c.addr) \in RamWords
    <3>1. Index(c.addr) \in RamWords
      BY <1>1, AddressType
    <3>. QED
      BY <2>1, <3>1 DEF Index
  <2>5. data_ram'[w][Index(c.addr)] = data_ram[w][Index(c.addr)]
    <3>1. CASE ~(DataWrites(w) /\ DataWriteIndex(c, next) = Index(c.addr))
      BY <1>1, <2>4, <3>1, DataWritten DEF Control
    <3>2. CASE DataWrites(w) /\ DataWriteIndex(c, next) = Index(c.addr)
      <4>1. m.kind = "st" /\ Hit(w) /\ Index(m.addr) = Index(c.addr)
        BY <2>1, <2>2, <3>2 DEF DataWrites, DataWriteIndex
      <4>2. m \in Requests /\ m.addr \in Addrs
        BY <4>1, RequestType, IdleType DEF Control, Types
      <4>3. m.addr.set = c.addr.set
        BY <2>1, <4>1, <4>2, AddrWord, PlacesDiffer
      <4>4. TagWrites(w) /\ TagWriteSet = m.addr.set /\ TagReadSet(c, next) = c.addr.set
        BY <2>1, <2>2, <4>1 DEF TagWrites, TagWriteSet, TagReadSet
      <4>5. TagIn.t = m.addr.tag
        BY <2>1, <2>2 DEF TagIn
      <4>6. tag_o'[w] = TagIn
        <5>1. tag_o'[w] = tag_ram'[w][c.addr.set] /\ c.addr.set \in Rows
          BY <1>1, <4>4, TagTypes, AddressType DEF Control
        <5>. QED
          BY <1>1, <4>3, <4>4, <5>1, TagsWritten DEF Control
      <4>7. c.addr.tag = m.addr.tag
        BY <1>3, <2>1, <4>5, <4>6 DEF Hit
      <4>8. c.addr = m.addr
        BY <2>1, <4>1, <4>2, <4>7, SameIndex
      <4>. QED
        BY <2>1, <4>1, <4>8 DEF CoreAccept
    <3>. QED
      BY <3>1, <3>2
  <2>. QED
    BY <2>3, <2>4, <2>5
<1>. QED
  BY <1>1, <1>2, <1>3 DEF Progress

(* The bridge answers a load with the word in memory. *)
LEMMA ProgressBridge ==
    ASSUME Control, Data, Uncached, ans = None, NEW b \in Addrs,
           NEW acc \in BOOLEAN, NEW reply, BridgeTurn(b, acc, reply)
    PROVE  Progress'
<1>. DEFINE c == NoReq(b)
<1>1. state_q' = NextState(c, FALSE) /\ state_q \in {"RESET", "LOOKUP"} /\ ~Missed
      /\ owed' = owed /\ m' \in Idles
  BY BridgeTurnFacts DEF BridgeTurn, Core
<1>2. state_q' \in {"RESET", "LOOKUP"}
  BY <1>1 DEF NextState, NoReq
<1>3. m'.kind = "none"
  BY <1>1, IdleType
<1>4. owed.kind = "ld" /\ ans' # None => ans'.data = mem'[owed.addr]
  BY BridgeTransfers
<1>. QED
  BY <1>1, <1>2, <1>3, <1>4 DEF Progress

-----------------------------------------------------------------------------
(* The data layer. *)

(* It holds out of reset: the tag RAM may hold anything until RESET is     *)
(* left, and memory is right.                                              *)
LEMMA DataInit ==
    ASSUME Init PROVE Data
<1>1. /\ state_q = "RESET" /\ ~flushing_q /\ owed = None /\ mem = Initial /\ flat = Initial
      /\ Initial \in [Addrs -> Contents]
  BY DcacheAssumption DEF Init, PortInit
<1>2. FlushSets /\ Placement /\ Progress
  BY <1>1 DEF FlushSets, Placement, Unique, Progress, Evicts, Uncached
<1>3. \A a \in Addrs : Good(a, mem[a])
  BY <1>1 DEF Good
<1>4. Coherent
  BY <1>1, <1>3 DEF Coherent
<1>. QED
  BY <1>2, <1>4 DEF Data

(* Every cycle keeps it. *)
LEMMA DataStep ==
    ASSUME Control, Data, [Next]_vars PROVE Data'
<1>1. CASE Next
  <2>1. PICK q \in Drives, acc \in BOOLEAN, reply \in BOOLEAN :
            \/ /\ owed = None \/ MemAck
               /\ FreeTurn(q, CachedReq(q), acc /\ SelectCore(q))
            \/ Cached /\ ~CoreAck /\ CoreTurn(q.addr, acc, reply)
            \/ Uncached /\ ans = None /\ BridgeTurn(q.addr, acc, reply)
    BY <1>1, Turns
  <2>2. \E c \in Requests \cup Idles : \E x : Core(c, x)
    <3>1. CachedReq(q) \in Requests \cup Idles /\ NoReq(q.addr) \in Requests \cup Idles
      BY CoreRequest
    <3>. QED
      BY <2>1, <3>1 DEF FreeTurn, CoreTurn, BridgeTurn
  <2>3. FlushSets' /\ Placement'
    BY <2>2, FlushSetsStep, PlacementStep DEF Data
  <2>4. CASE (owed = None \/ MemAck) /\ FreeTurn(q, CachedReq(q), acc /\ SelectCore(q))
    <3>1. (acc /\ SelectCore(q)) \in BOOLEAN
      OBVIOUS
    <3>. QED
      BY <2>3, <2>4, <3>1, CoherentFree, ProgressFree DEF Data
  <2>5. CASE Cached /\ ~CoreAck /\ CoreTurn(q.addr, acc, reply)
    <3>1. state_q \in {"REFILL", "EVICT", "EVICT_WAIT", "LOOKUP"} \cup Silent
      BY <2>5, CoreSetup DEF States, Silent
    <3>2. Coherent'
      BY <2>5, <3>1, CoherentSilent, CoherentRefill, CoherentEvict, CoherentEvicted
    <3>3. Progress'
      BY <2>5, ProgressCore
    <3>. QED
      BY <2>3, <3>2, <3>3 DEF Data
  <2>6. CASE Uncached /\ ans = None /\ BridgeTurn(q.addr, acc, reply)
    <3>1. q.addr \in Addrs
      BY DrivesType
    <3>. QED
      BY <2>3, <2>6, <3>1, CoherentBridge, ProgressBridge DEF Data
  <2>. QED
    BY <2>1, <2>4, <2>5, <2>6
<1>2. CASE UNCHANGED vars
  <2>1. FlushSets' /\ Placement'
    BY <1>2 DEF Data, FlushSets, Placement, Unique, Evicts, HitAny, Hit, Dirty, Access, Clean,
                HoldsDirty, Holds, vars, coreVars
  <2>2. Coherent'
    BY <1>2 DEF Data, Coherent, Good, InFlight, Filling, Clean, HoldsDirty, Holds,
                vars, coreVars, muxVars, bridgeVars, portVars
  <2>3. Progress'
    BY <1>2 DEF Data, Progress, Filled, Emptied, Copied, EvictSet, EvictTag, EvictWord, Hit,
                Uncached, Base, Word, Index, vars, coreVars, muxVars, bridgeVars, portVars
  <2>. QED
    BY <2>1, <2>2, <2>3 DEF Data
<1>. QED
  BY <1>1, <1>2

(* In every reachable state it is known where the contents of every word   *)
(* are: a word that no way holds dirty is in memory, one that a way holds  *)
(* is right there unless its line is being fetched, and the words of a     *)
(* line that is transferred are the same on both sides (dcache_core.v,     *)
(* dcache_if_pmem.v).                                                      *)
THEOREM DataInvariance == Spec => [](Control /\ Data)
<1>1. Init => Control /\ Data
  BY ControlInit, DataInit
<1>2. (Control /\ Data) /\ [Next]_vars => (Control /\ Data)'
  BY ControlStep, DataStep
<1>. QED
  BY <1>1, <1>2, PTL DEF Spec

-----------------------------------------------------------------------------
(* What the data side promises. *)

(* Every register has its type, and the FIFOs and counters of the bridge   *)
(* and of the multiplexer never hold more than one (TypeOK), although      *)
(* dcache_if_pmem.v and dcache_mux.v have room for more.                   *)
THEOREM TypesAreOK == Spec => []TypeOK
<1>1. ASSUME Control, Data PROVE TypeOK
  <2>1. mem \in [Addrs -> Contents]
    BY <1>1 DEF Data, Coherent
  <2>2. resp_count \in 0 .. 1 /\ Len(req_fifo) <= 1
    <3>1. \/ resp_count = 1 /\ (req_fifo = <<owed>> \/ req_fifo = <<>>)
          \/ resp_count = 0 /\ req_fifo = <<>>
      BY <1>1 DEF Control, Transfers, Bridging, BridgeIdle
    <3>2. resp_count = 0 \/ resp_count = 1
      BY <3>1
    <3>3. Len(<<owed>>) = 1 /\ Len(<<>>) = 0 /\ 0 <= 1 /\ 1 <= 1 /\ 0 \in 0 .. 1 /\ 1 \in 0 .. 1
      OBVIOUS
    <3>. QED
      BY <3>1, <3>2, <3>3
  <2>3. pending_q \in 0 .. 1 /\ (pending_q = 1 <=> owed # None)
    <3>1. pending_q = IF owed = None THEN 0 ELSE 1
      BY <1>1 DEF Control, Interface
    <3>. QED
      BY <3>1
  <2>4. /\ state_q \in States
        /\ tag_ram \in [Ways -> [0 .. Sets - 1 ->
                          [v : BOOLEAN, d : BOOLEAN, t : Tags \cup UncachedTags \cup {None}]]]
        /\ data_ram \in [Ways -> [RamWords -> Contents \cup {None}]]
        /\ data_write_addr_q \in RamWords /\ flush_addr_q \in 0 .. Sets - 1
        /\ pmem_len_q \in 0 .. 255 /\ replace_way_q \in Ways
        /\ op \in Ops \cup {None} /\ ans \in Answers \cup {None}
    BY <1>1 DEF Control, Types, Rows, Entries, Cells
  <2>5. {flushing_q, flush_last_q, error_q, pmem_rd_q, pmem_wr0_q, pmem_wr_q,
         cache_access_q, select_q, request_pending_q, dropped_q, failed} \subseteq BOOLEAN
    BY <1>1 DEF Control, Types
  <2>. QED
    BY <2>1, <2>2, <2>3, <2>4, <2>5 DEF TypeOK, PortTypeOK
<1>. QED
  BY <1>1, DataInvariance, PTL

(* Memory is right where no way holds the word dirty.                      *)
LEMMA CleanIsCurrent ==
    ASSUME NoInvalidates, Control, Data, NEW a \in Addrs,
           state_q = "RESET" \/ Clean(a), owed = None \/ owed.kind # "st"
    PROVE  mem[a] = flat[a]
  BY DEF Data, Coherent, Good, InFlight

(* When a flush or a write back of dcache_core.v is answered, everything   *)
(* stored before is in memory, provided that no line was invalidated: an   *)
(* invalidate drops what was stored.                                       *)
THEOREM OperationsReachMemory ==
    ASSUME NoInvalidates
    PROVE  Spec => []CacheOpsReachMemory
<1>1. ASSUME Control, Data PROVE CacheOpsReachMemory
  <2>1. ASSUME MemAck, owed # None, cache_access_q, NEW a \in Addrs, a.tag \in Tags,
               owed.kind = "flush" \/ (owed.kind = "wb" /\ a.set = owed.addr.set
                                                      /\ a.tag = owed.addr.tag)
        PROVE  mem[a] = flat[a]
    <3>1. state_q = "LOOKUP" /\ m = owed
      BY <1>1, <2>1, Sides DEF MemAck, CoreAck, Cached, Control
    <3>2. Clean(a)
      <4>1. CASE owed.kind = "flush"
        <5>1. a.set \in Rows
          BY AddrWord
        <5>2. \A w \in Ways : tag_ram[w][a.set] = Empty
          BY <1>1, <3>1, <4>1, <5>1 DEF Data, FlushSets
        <5>. QED
          BY <5>2 DEF Clean, HoldsDirty, Holds, Empty
      <4>2. CASE owed.kind = "wb" /\ a.set = owed.addr.set /\ a.tag = owed.addr.tag
        <5>1. Clean(m.addr)
          BY <1>1, <3>1, <4>2 DEF Data, Placement
        <5>. QED
          BY <3>1, <4>2, <5>1 DEF Clean, HoldsDirty, Holds
      <4>. QED
        BY <2>1, <4>1, <4>2
    <3>. QED
      BY <1>1, <2>1, <3>2, CleanIsCurrent
  <2>. QED
    BY <2>1 DEF CacheOpsReachMemory
<1>. QED
  BY <1>1, DataInvariance, PTL

(* What is shown for a load is what was stored last.                       *)
ShownRight == MemAck => owed # None /\ (owed.kind = "ld" => MemData = flat[owed.addr])

(* The core shows the word of the way that hits, the bridge that of memory. *)
LEMMA LoadsAreRight ==
    ASSUME NoInvalidates, Control, Data PROVE ShownRight
<1>1. ASSUME MemAck PROVE owed # None /\ owed \in Requests
  BY <1>1, FreeFacts DEF Control, Interface
<1>2. ASSUME MemAck, owed.kind = "ld", cache_access_q PROVE MemData = flat[owed.addr]
  <2>1. /\ state_q = "LOOKUP" /\ HitAny /\ m = owed /\ m.addr \in Addrs /\ ~flushing_q
    <3>1. state_q = "LOOKUP" /\ m = owed
      BY <1>1, <1>2, Sides DEF MemAck, CoreAck, Cached, Control
    <3>2. HitAny
      BY <1>2, <3>1 DEF MemAck, CoreAck, CacheOp
    <3>. QED
      BY <1>1, <1>2, <3>1, <3>2, RequestType DEF Control, Machine, Evicts
  <2>2. PICK w \in Ways : Hit(w) /\ CoreData = data_o[w]
    <3>1. Hit(0) \/ Hit(1)
      BY <2>1 DEF HitAny, Ways
    <3>. QED
      BY <3>1 DEF CoreData, Ways
  <2>3. data_o[w] = data_ram[w][Index(m.addr)]
    BY <1>2, <2>1, <2>2 DEF Data, Progress
  <2>4. Holds(w, m.addr) /\ ~Filling(w, m.addr.set)
    <3>1. tag_o[w] = tag_ram[w][m.addr.set]
      BY <1>2, <2>1 DEF Control, FreshTags, LooksUp, Access, EvictSet
    <3>. QED
      BY <2>1, <2>2, <3>1 DEF Holds, Hit, Filling
  <2>5. Good(m.addr, data_ram[w][Index(m.addr)])
    BY <2>1, <2>4 DEF Data, Coherent
  <2>6. data_ram[w][Index(m.addr)] = flat[m.addr]
    BY <1>2, <2>1, <2>5 DEF Good, InFlight
  <2>. QED
    BY <1>2, <2>1, <2>2, <2>3, <2>6 DEF MemData
<1>3. ASSUME MemAck, owed.kind = "ld", ~cache_access_q PROVE MemData = flat[owed.addr]
  <2>1. Uncached /\ ans # None /\ owed.addr \in Addrs /\ owed.addr.tag \notin Tags
    <3>1. Uncached /\ ans # None
      BY <1>1, <1>3 DEF MemAck, BridgeAck, Uncached, Control, Interface
    <3>2. ~Cacheable(owed)
      BY <1>1, <1>3 DEF Control, Interface
    <3>. QED
      BY <1>1, <1>3, <3>1, <3>2, RequestType DEF Cacheable
  <2>2. MemData = mem[owed.addr]
    BY <1>3, <2>1 DEF MemData, Data, Progress
  <2>3. state_q = "RESET" \/ Clean(owed.addr)
    <3>1. ASSUME state_q # "RESET", NEW w \in Ways PROVE ~Holds(w, owed.addr)
      BY <2>1, <3>1, AddrWord DEF Holds, Control, KnownLines, KnownLine
    <3>. QED
      BY <3>1 DEF Clean, HoldsDirty
  <2>4. mem[owed.addr] = flat[owed.addr]
    BY <1>3, <2>1, <2>3, CleanIsCurrent
  <2>. QED
    BY <2>2, <2>4
<1>. QED
  BY <1>1, <1>2, <1>3 DEF ShownRight

(* The answer as FlatMemory sees it. *)
Shown == IF ~MemAck THEN None
         ELSE [done |-> owed.kind, data |-> IF owed.kind = "ld" THEN MemData ELSE None]

(* It is an answer of FlatMemory exactly when the data side acknowledges. *)
LEMMA ShownIs ==
    ASSUME Control, ShownRight
    PROVE  IF MemAck THEN /\ owed # None /\ Shown = Flat!AnswerTo(owed, flat)
                          /\ Shown # None
           ELSE Shown = None
<1>1. CASE MemAck
  <2>1. owed # None /\ owed \in Requests /\ flat \in [Addrs -> Contents]
    BY <1>1 DEF ShownRight, Control, Interface, Types
  <2>2. Shown = Flat!AnswerTo(owed, flat)
    BY <1>1 DEF Shown, ShownRight, Flat!AnswerTo
  <2>3. /\ Shown = [done |-> owed.kind, data |-> IF owed.kind = "ld" THEN flat[owed.addr] ELSE None]
        /\ owed.kind \in {"ld", "st", "inval", "wb", "flush"} /\ flat[owed.addr] \in Contents
    BY <1>1, <2>1, RequestType DEF Shown, ShownRight
  <2>4. Shown \in [done : {"ld", "st", "inval", "wb", "flush"}, data : Contents \cup {None}]
    BY <2>3
  <2>. QED
    BY <1>1, <2>1, <2>2, <2>4, NoneAssumption
<1>2. CASE ~MemAck
  BY <1>2 DEF Shown
<1>. QED
  BY <1>1, <1>2

(* A cycle of the data side is a step of the memory without caches.        *)
LEMMA FlatStep ==
    ASSUME Control, ShownRight, Control', ShownRight', [Next]_vars
    PROVE  [Flat!Next]_(Flat!flatVars)
<1>1. ASSUME Next
      PROVE  LET left == IF MemAck THEN None ELSE owed
             IN \/ owed' = left /\ flat' = flat
                \/ left = None /\ owed' \in Requests /\ flat' = Flat!After(flat, owed')
  <2>1. PICK q \in Drives, acc \in BOOLEAN, reply \in BOOLEAN :
            \/ /\ owed = None \/ MemAck
               /\ FreeTurn(q, CachedReq(q), acc /\ SelectCore(q))
            \/ Cached /\ ~CoreAck /\ CoreTurn(q.addr, acc, reply)
            \/ Uncached /\ ans = None /\ BridgeTurn(q.addr, acc, reply)
    BY <1>1, Turns
  <2>2. CASE (owed = None \/ MemAck) /\ FreeTurn(q, CachedReq(q), acc /\ SelectCore(q))
    <3>1. /\ owed' = IF Accepted(q) THEN q ELSE None
          /\ flat' = IF Accepted(q) /\ q.kind = "st" THEN [flat EXCEPT ![q.addr] = q.val] ELSE flat
      BY <2>2 DEF FreeTurn
    <3>2. CASE Accepted(q)
      BY <2>2, <3>1, <3>2, AcceptedType DEF Flat!After
    <3>3. CASE ~Accepted(q)
      BY <2>2, <3>1, <3>3
    <3>. QED
      BY <3>2, <3>3
  <2>3. CASE Cached /\ ~CoreAck /\ CoreTurn(q.addr, acc, reply)
    BY <2>3 DEF CoreTurn, MemAck, Cached
  <2>4. CASE Uncached /\ ans = None /\ BridgeTurn(q.addr, acc, reply)
    BY <2>4 DEF BridgeTurn, MemAck, BridgeAck, Uncached, Control, Interface
  <2>. QED
    BY <2>1, <2>2, <2>3, <2>4
<1>2. IF MemAck' THEN owed' # None /\ Shown' = Flat!AnswerTo(owed', flat') ELSE Shown' = None
  <2>1. CASE MemAck'
    <3>1. owed' # None
      BY <2>1 DEF ShownRight
    <3>. QED
      BY <2>1, <3>1 DEF Shown, ShownRight, Flat!AnswerTo
  <2>2. CASE ~MemAck'
    BY <2>2 DEF Shown
  <2>. QED
    BY <2>1, <2>2
<1>3. MemAck <=> Shown # None
  BY ShownIs
<1>4. CASE Next
  <2>1. Shown' = None \/ (owed' # None /\ Shown' = Flat!AnswerTo(owed', flat'))
    BY <1>2
  <2>2. LET left == IF Shown # None THEN None ELSE owed
        IN \/ owed' = left /\ flat' = flat
           \/ left = None /\ owed' \in Requests /\ flat' = Flat!After(flat, owed')
    BY <1>1, <1>3, <1>4
  <2>. QED
    BY <2>1, <2>2 DEF Shown, Flat!Next
<1>5. CASE UNCHANGED vars
  BY <1>5 DEF Flat!flatVars, MemAck, CoreAck, BridgeAck, MemData, CoreData, Access, CacheOp,
              HitAny, Hit, vars, coreVars, muxVars, bridgeVars, portVars
<1>. QED
  BY <1>4, <1>5

(* Caches are invisible (ImplementsFlat): dcache.v as a whole implements a *)
(* memory without caches, for every program of the load/store unit that    *)
(* requests no invalidate.                                                 *)
THEOREM CachesAreInvisible ==
    ASSUME NoInvalidates
    PROVE  Spec => ImplementsFlat
<1>1. Init => Flat!Init
  BY DEF Init, PortInit, Flat!Init, MemAck, BridgeAck
<1>2. Control /\ Data => ShownRight
  BY LoadsAreRight
<1>3. /\ Control /\ Data /\ ShownRight /\ (Control /\ Data /\ ShownRight)' /\ [Next]_vars
      => [Flat!Next]_(Flat!flatVars)
  BY FlatStep
<1>. QED
  BY <1>1, <1>2, <1>3, DataInvariance, PTL DEF Spec, ImplementsFlat, Flat!Spec

=============================================================================
