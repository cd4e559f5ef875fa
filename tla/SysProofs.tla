------------------------------ MODULE SysProofs -----------------------------
(***************************************************************************)
(* Proofs of the safety properties of Sys, for every memory map, every set *)
(* of values and every program, one with cache operations or with accesses *)
(* outside the map included.                                               *)
(*                                                                         *)
(* What is to be shown speaks of e2 and of stored; the steps that matter   *)
(* are those in which an access leaves E1.  StoresOnce therefore needs to  *)
(* know that the bus registers belong to the access in E1 (BusIsRequest),  *)
(* that an access that moves to E2 is made in that very cycle and once     *)
(* (Stages, PendingFlag), and that the answer lines, which nothing         *)
(* clears, tell the truth about the access in E2 (Answers).                *)
(***************************************************************************)
EXTENDS Sys, SequenceTheorems, TLAPS

Aligned(r) == r # None /\ ~r.unaligned

(* The request registers hold the access in E1, or a cache operation that  *)
(* has the unit to itself; a dummy answer is for the access in E2, and     *)
(* nothing is behind it.                                                   *)
Stages ==
    /\ e1 # None => req = e1 /\ e1.kind # "cache"
    /\ req # None => IF req.kind = "cache"
                     THEN e1 = None /\ e2 = None /\ csr_wait = 3 /\ ~pending_lsu_e2_q
                     ELSE req = e1
    /\ e2 # None => e2.kind # "cache"
    /\ mem_unaligned_e2_q <=> (e2 # None /\ e2.unaligned)
    /\ mem_unaligned_e2_q \/ squash_e1_e2_q => req = None
    /\ squash_e1_e2_q => e2 = None

(* The pending flag is for the access in E2, or for a cache operation: it  *)
(* falls in the next cycle or, when data_ack was never up, stays for ever. *)
PendingFlag ==
    /\ e2 # None => (pending_lsu_e2_q <=> ~e2.unaligned)
    /\ e2 = None /\ pending_lsu_e2_q => req = None /\ (csr_wait = 2 \/ ~data_ack)

(* data_ack and data_error are those of the access in E2. *)
Answers ==
    /\ ~(data_ack /\ data_error)
    /\ Aligned(e2) => data_ack = Exists(e2.tag.addr)

(* The FIFO has the access in E2, or the cache operation, and nothing else. *)
Entries ==
    IF e2 # None THEN fifo = <<e2>>
    ELSE IF pending_lsu_e2_q THEN Len(fifo) = 1
    ELSE fifo = <<>>

(* The bus registers hold the access in E1. *)
BusIsRequest ==
    e1 # None =>
        /\ mem_addr_q = e1.tag.addr
        /\ e1.kind = "store" /\ ~e1.unaligned => mem_data_wr_q = e1.tag.val

(* What the retired stores leave is a memory. *)
Memories == [ram : [Ram -> Vals], vram : [Display -> Vals],
             chars : [Places -> Vals], idx : Places]

StoredType == stored \in Memories

IInv ==
    /\ TypeOK
    /\ Stages
    /\ PendingFlag
    /\ Answers
    /\ Entries
    /\ BusIsRequest
    /\ StoredType
    /\ StoresOnce
    /\ LoadIsCurrent

-----------------------------------------------------------------------------
(* Operators. *)

(* An access has a kind and a tag, and is not None. *)
LEMMA AccessType ==
    ASSUME NEW r \in Requests
    PROVE  /\ r # None /\ r.kind \in {"load", "store", "cache"}
           /\ r.kind = "cache" => ~r.unaligned
           /\ r.unaligned \in BOOLEAN
           /\ r.tag.addr \in Addrs /\ r.tag.val \in Vals
<1>1. r # None /\ r \in [kind : Kinds, tag : Tags, unaligned : BOOLEAN]
  BY LsuAssumption DEF Requests
<1>2. r.kind = "cache" => ~r.unaligned
  BY DEF Requests
<1>3. Tags = [addr : Addrs, val : Vals] /\ Kinds \subseteq {"load", "store", "cache"}
  BY SysAssumption, LsuAssumption
<1>. QED
  BY <1>1, <1>2, <1>3

(* The position of the character display wraps (idx of char_display.v). *)
LEMMA Wrap ==
    ASSUME NEW i \in Places
    PROVE  /\ 0 \in Places /\ (i + 1) % CHARS \in Places
  BY SysAssumption, SMT DEF Places

(* A memory after an access is a memory, and an access changes no more of  *)
(* it than a store to its address does.                                    *)
LEMMA AfterAccess ==
    ASSUME NEW m \in Memories, NEW r \in Requests
    PROVE  /\ After(m, r) \in Memories
           /\ r.kind # "store" \/ r.unaligned => After(m, r) = m
           /\ r.kind = "store" /\ ~r.unaligned =>
                 /\ After(m, r).ram = IF r.tag.addr \in Ram
                                      THEN [m.ram EXCEPT ![r.tag.addr] = r.tag.val]
                                      ELSE m.ram
                 /\ After(m, r).chars =
                       IF r.tag.addr = Clear THEN Cleared
                       ELSE IF r.tag.addr = PutChar
                       THEN [m.chars EXCEPT ![m.idx] = r.tag.val] ELSE m.chars
                 /\ After(m, r).idx =
                       IF r.tag.addr = Clear THEN 0
                       ELSE IF r.tag.addr = PutChar
                       THEN (m.idx + 1) % CHARS ELSE m.idx
<1>. DEFINE a == r.tag.addr
            v == r.tag.val
<1>1. r # None /\ a \in Addrs /\ v \in Vals
  BY AccessType
<1>2. m.idx \in Places /\ 0 \in Places /\ (m.idx + 1) % CHARS \in Places
  BY Wrap DEF Memories
<1>3. Cleared \in [Places -> Vals]
  BY SysAssumption DEF Cleared
<1>4. r.kind # "store" \/ r.unaligned => After(m, r) = m
  BY <1>1 DEF After
<1>5. CASE r.kind = "store" /\ ~r.unaligned /\ a \in Ram
  <2>1. a # Clear /\ a # PutChar
    BY <1>5, SysAssumption DEF Vram
  <2>2. After(m, r) = [m EXCEPT !.ram[a] = v]
    BY <1>1, <1>5, <2>1, SysAssumption DEF After, Vram
  <2>. QED
    BY <1>1, <1>5, <2>1, <2>2 DEF Memories
<1>6. CASE r.kind = "store" /\ ~r.unaligned /\ a \in Display
  <2>1. a # Clear /\ a # PutChar /\ a \notin Ram
    BY <1>6, SysAssumption DEF Vram
  <2>2. After(m, r) = [m EXCEPT !.vram[a] = v]
    BY <1>1, <1>6, <2>1 DEF After
  <2>. QED
    BY <1>1, <1>6, <2>1, <2>2 DEF Memories
<1>7. CASE r.kind = "store" /\ ~r.unaligned /\ a = Clear
  <2>1. a \notin Display /\ a # PutChar /\ a \notin Ram
    BY <1>7, SysAssumption DEF Vram
  <2>2. After(m, r) = [m EXCEPT !.chars = Cleared, !.idx = 0]
    BY <1>1, <1>7, <2>1 DEF After
  <2>. QED
    BY <1>2, <1>3, <1>7, <2>1, <2>2 DEF Memories
<1>8. CASE r.kind = "store" /\ ~r.unaligned /\ a = PutChar
  <2>1. a \notin Display /\ a # Clear /\ a \notin Ram
    BY <1>8, SysAssumption DEF Vram
  <2>2. After(m, r) = [m EXCEPT !.chars[m.idx] = v, !.idx = (@ + 1) % CHARS]
    BY <1>1, <1>8, <2>1 DEF After
  <2>3. /\ After(m, r).ram = m.ram
        /\ After(m, r).chars = [m.chars EXCEPT ![m.idx] = v]
        /\ After(m, r).idx = (m.idx + 1) % CHARS
    BY <2>2 DEF Memories
  <2>4. [m.chars EXCEPT ![m.idx] = v] \in [Places -> Vals]
    BY <1>1, <1>2 DEF Memories
  <2>5. After(m, r) \in Memories
    <3>. DEFINE n == (m.idx + 1) % CHARS
                c == [m.chars EXCEPT ![m.idx] = v]
    <3>1. n \in Places /\ c \in [Places -> Vals]
      BY <1>2, <2>4
    <3>2. After(m, r) = [m EXCEPT !.chars = c, !.idx = n]
      BY <2>2 DEF Memories
    <3>. HIDE DEF n, c
    <3>. QED
      BY <3>1, <3>2 DEF Memories
  <2>. QED
    BY <1>8, <2>1, <2>3, <2>5
<1>9. CASE r.kind = "store" /\ ~r.unaligned /\ a \in Beyond
  <2>1. a \notin Ram \cup Vram
    BY <1>9, SysAssumption
  <2>2. After(m, r) = m
    BY <1>1, <1>9, <2>1 DEF After, Vram
  <2>. QED
    BY <1>9, <2>1, <2>2 DEF Vram
<1>. QED
  BY <1>1, <1>4, <1>5, <1>6, <1>7, <1>8, <1>9 DEF Addrs, Vram

(* The FIFO after a push into an empty one and after the pop of its only   *)
(* entry.                                                                  *)
LEMMA OneEntry ==
    ASSUME NEW r \in Requests
    PROVE  /\ <<r>> # <<>> /\ Len(<<r>>) = 1 /\ Len(<<r>>) # DEPTH
           /\ Append(<<>>, r) = <<r>> /\ Tail(<<r>>) = <<>>
           /\ Len(<<>>) = 0 /\ Len(<<>>) # DEPTH
<1>1. <<r>> \in Seq(Requests) /\ Len(<<r>>) = 1 /\ Append(<<>>, r) = <<r>>
  BY SMT
<1>2. <<r>> # <<>> /\ Len(<<>>) = 0
  BY <1>1, EmptySeq, SMT
<1>3. Tail(<<r>>) = <<>>
  BY <1>1, <1>2, HeadTailProperties, EmptySeq, SMT
<1>. QED
  BY <1>1, <1>2, <1>3, LsuAssumption, SMT

(* A FIFO of one entry is not empty, and empty after that entry. *)
LEMMA LastEntry ==
    ASSUME NEW q \in Seq(Requests), Len(q) = 1
    PROVE  q # <<>> /\ Tail(q) = <<>>
<1>1. q # <<>>
  BY EmptySeq, SMT
<1>2. Tail(q) \in Seq(Requests) /\ Len(Tail(q)) = Len(q) - 1
  BY <1>1, HeadTailProperties
<1>3. Len(Tail(q)) = 0
  BY <1>2, SMT
<1>. QED
  BY <1>1, <1>2, <1>3, EmptySeq

-----------------------------------------------------------------------------
(* The reset values of the core and of fabric.v satisfy the invariant. *)
THEOREM InitInvariant == Init => IInv
<1>. SUFFICES ASSUME Init PROVE IInv
  OBVIOUS
<1>. USE DEF Init, LsuInit
<1>1. ZeroAddr \in Addrs /\ 0 \in Vals /\ 0 \in Places
  BY SysAssumption, Wrap, SMT DEF Addrs, Places
<1>2. vram \in [Display -> Vals] /\ chars \in [Places -> Vals]
  BY <1>1 DEF Cleared
<1>3. TypeOK
  <2>1. LsuTypeOK
    <3>1. <<>> \in Seq(Requests) /\ Len(<<>>) = 0
      BY EmptySeq
    <3>2. 0 <= DEPTH /\ 0 \in 0..3
      BY LsuAssumption, SMT
    <3>. QED
      BY <3>1, <3>2, Zenon DEF LsuTypeOK
  <2>. QED
    BY <1>1, <1>2, <2>1 DEF TypeOK
<1>4. Stages /\ PendingFlag /\ Answers /\ Entries /\ BusIsRequest
  BY DEF Stages, PendingFlag, Answers, Entries, BusIsRequest, Aligned
<1>5. StoredType
  BY <1>1, <1>2 DEF StoredType, Memories
<1>6. StoresOnce /\ LoadIsCurrent
  BY DEF StoresOnce, LoadIsCurrent, After
<1>. QED
  BY <1>3, <1>4, <1>5, <1>6 DEF IInv

-----------------------------------------------------------------------------
(* One cycle.  What Next offers is a request with a type. *)

LEMMA OpType ==
    ASSUME NEW op \in Accesses \cup {None}
    PROVE  op \in Requests \cup {None}
  BY DEF Accesses

(* Every register keeps its type, whatever the program does. *)
LEMMA TypeStep ==
    ASSUME TypeOK,
           NEW op \in Accesses \cup {None}, NEW idle \in Addrs,
           Cycle(op, idle)
    PROVE  TypeOK'
<1>. USE DEF TypeOK, LsuTypeOK, Cycle, LsuCycle
<1>1. op \in Requests \cup {None}
  BY OpType
<1>2. req' \in Requests \cup {None}
  BY <1>1 DEF RequestRegisters
<1>3. {pending_lsu_e2_q, mem_unaligned_e2_q, squash_e1_e2_q, answered}'
        \subseteq BOOLEAN
  <2>1. pending_lsu_e2_q' \in BOOLEAN
    BY Zenon DEF Pending
  <2>2. mem_unaligned_e2_q' \in BOOLEAN
    BY Zenon DEF DummyAnswer, Unaligned, Delay
  <2>3. squash_e1_e2_q' \in BOOLEAN
    BY Zenon DEF Pipeline, Fault
  <2>4. answered' \in BOOLEAN
    BY Zenon DEF Pipeline, Answer
  <2>. QED
    BY <2>1, <2>2, <2>3, <2>4
<1>4. fifo' \in Seq(Requests) /\ Len(fifo') <= DEPTH
  <2>. DEFINE rest == IF Answer(data_ack) /\ fifo # <<>> THEN Tail(fifo) ELSE fifo
  <2>1. fifo \in Seq(Requests) /\ Len(fifo) \in Nat /\ Len(fifo) <= DEPTH
    BY LenProperties
  <2>2. rest \in Seq(Requests) /\ Len(rest) \in Nat /\ Len(rest) <= Len(fifo)
    <3>1. CASE fifo # <<>>
      <4>1. Tail(fifo) \in Seq(Requests) /\ Len(Tail(fifo)) = Len(fifo) - 1
        BY <2>1, <3>1, HeadTailProperties
      <4>2. Len(Tail(fifo)) \in Nat
        BY <4>1, LenProperties
      <4>. QED
        BY <2>1, <4>1, <4>2, SMT
    <3>2. CASE fifo = <<>>
      BY <2>1, <3>2
    <3>. QED
      BY <3>1, <3>2
  <2>3. CASE req # None /\ Len(fifo) # DEPTH
    <3>1. req \in Requests
      BY <2>3
    <3>2. /\ Append(rest, req) \in Seq(Requests)
          /\ Len(Append(rest, req)) = Len(rest) + 1
      BY <2>2, <3>1, AppendProperties
    <3>3. fifo' = Append(rest, req) \/ fifo' = rest
      BY DEF Fifo
    <3>. HIDE DEF rest
    <3>. QED
      BY <2>1, <2>2, <2>3, <3>2, <3>3, LsuAssumption, SMT
  <2>4. CASE ~(req # None /\ Len(fifo) # DEPTH)
    <3>1. fifo' = rest
      BY <2>4 DEF Fifo, Requesting, Unaligned
    <3>. HIDE DEF rest
    <3>. QED
      BY <2>1, <2>2, <3>1, LsuAssumption, SMT
  <2>. QED
    BY <2>3, <2>4
<1>5. {e1, e2}' \subseteq Requests \cup {None}
  BY <1>1 DEF Pipeline
<1>6. csr_wait' \in 0..3
  <2>1. csr_wait' = 3 \/ csr_wait' = 0 \/ (csr_wait # 0 /\ csr_wait' = csr_wait - 1)
    BY DEF Pipeline
  <2>. QED
    BY <2>1, SMT
<1>7. mem_addr_q' \in Addrs /\ mem_data_wr_q' \in Vals
  BY <1>1, AccessType, SysAssumption DEF BusRegisters, Addrs
<1>8. data_ack' \in BOOLEAN /\ data_error' \in BOOLEAN
  <2>1. CASE Enabled("load") \/ Enabled("store")
    <3>1. data_ack' = Exists(mem_addr_q) /\ data_error' = ~Exists(mem_addr_q)
      BY <2>1, Zenon DEF Response
    <3>2. Exists(mem_addr_q) \in BOOLEAN /\ (~Exists(mem_addr_q)) \in BOOLEAN
      BY DEF Exists
    <3>. QED
      BY <3>1, <3>2
  <2>2. CASE ~(Enabled("load") \/ Enabled("store"))
    <3>1. data_ack' = data_ack /\ data_error' = data_error
      BY <2>2, Zenon DEF Response
    <3>. QED
      BY <3>1
  <2>. QED
    BY <2>1, <2>2
<1>9. data_q' \in Vals /\ ram' \in [Ram -> Vals]
  <2>1. Word[mem_addr_q] \in Ram
    BY SysAssumption
  <2>. QED
    BY <2>1 DEF RamPort
<1>10. vram' \in [Display -> Vals]
  BY DEF DisplayRegisters
<1>11. chars' \in [Places -> Vals] /\ idx' \in Places
  <2>1. Cleared \in [Places -> Vals]
    BY SysAssumption DEF Cleared
  <2>2. 0 \in Places /\ (idx + 1) % CHARS \in Places
    BY Wrap
  <2>. QED
    BY <2>1, <2>2 DEF CharDisplay
<1>. QED
  BY <1>2, <1>3, <1>4, <1>5, <1>6, <1>7, <1>8, <1>9, <1>10, <1>11

(* An access outside the map is never answered: from then on the pipeline  *)
(* stands still, and so do the memories (data_ack and data_error of        *)
(* fabric.v, and riscv_lsu.v, which looks at the error with the ack only). *)
LEMMA StuckCycle ==
    ASSUME IInv,
           NEW op \in Accesses \cup {None}, NEW idle \in Addrs,
           Cycle(op, idle), PipeStall(data_ack)
    PROVE  /\ Aligned(e2) /\ ~Exists(e2.tag.addr) /\ ~data_ack
           /\ req # None => req.kind # "cache"
           /\ UNCHANGED <<req, e1, e2, squash_e1_e2_q, fifo>>
           /\ pending_lsu_e2_q' /\ ~mem_unaligned_e2_q'
           /\ e1 # None => UNCHANGED <<mem_addr_q, mem_data_wr_q>>
           /\ UNCHANGED <<data_ack, data_error, data_q, ram, chars, idx, stored>>
<1>. USE DEF Cycle, LsuCycle
<1>1. e2 # None /\ ~data_ack /\ ~mem_unaligned_e2_q
  BY DEF PipeStall, Answer
<1>2. Aligned(e2) /\ ~Exists(e2.tag.addr) /\ pending_lsu_e2_q
  BY <1>1 DEF IInv, Stages, PendingFlag, Answers, Aligned
<1>3. req # None => req = e1 /\ req.kind # "cache"
  BY <1>1 DEF IInv, Stages
<1>4. /\ Delay(data_ack, data_error) /\ ~Requesting(data_ack, data_error)
      /\ ~Fault(data_ack, data_error) /\ ~Answer(data_ack)
  BY <1>1, <1>2, <1>3 DEF Delay, Requesting, Fault, Answer
<1>5. op = None
  BY <1>4 DEF MayIssue, LsuStall
<1>6. req' = req /\ (e1 # None => UNCHANGED <<mem_addr_q, mem_data_wr_q>>)
  <2>1. req # None => Hold(TRUE, data_ack, data_error)
    BY <1>3, <1>4 DEF Hold
  <2>2. e1 # None => req # None
    BY DEF IInv, Stages
  <2>. QED
    BY <1>4, <1>5, <2>1, <2>2 DEF RequestRegisters, BusRegisters
<1>7. UNCHANGED <<e1, e2, squash_e1_e2_q>>
  BY DEF Pipeline
<1>8. pending_lsu_e2_q' /\ ~mem_unaligned_e2_q' /\ fifo' = fifo
  BY <1>1, <1>2, <1>4 DEF Pending, DummyAnswer, Fifo
<1>9. ~Enabled("load") /\ ~Enabled("store")
  BY <1>4 DEF Enabled
<1>10. UNCHANGED <<data_ack, data_error, data_q, ram, chars, idx, stored>>
  BY <1>4, <1>9 DEF Response, RamPort, CharDisplay, Retire
<1>. QED
  BY <1>1, <1>2, <1>3, <1>6, <1>7, <1>8, <1>10

(* What issues finds the unit free, and waits for a cache operation to     *)
(* leave WB.                                                               *)
LEMMA Issued ==
    ASSUME IInv,
           NEW op \in Accesses \cup {None}, NEW idle \in Addrs,
           Cycle(op, idle)
    PROVE  /\ op # None => /\ op \in Requests /\ csr_wait = 0
                           /\ ~Delay(data_ack, data_error) /\ ~Unaligned
                           /\ ~mem_unaligned_e2_q
                           /\ op.kind = "cache" => e1 = None /\ csr_wait' = 3
           /\ csr_wait = 3 => op = None /\ csr_wait' = 2
<1>. USE DEF Cycle, LsuCycle
<1>1. Fault(data_ack, data_error) <=> mem_unaligned_e2_q
  BY DEF Fault, IInv, Answers
<1>2. mem_unaligned_e2_q => Squashed(data_ack, data_error)
  BY <1>1 DEF Squashed, IInv, Stages
<1>3. op # None => /\ op \in Requests /\ csr_wait = 0
                   /\ ~Delay(data_ack, data_error) /\ ~Unaligned
                   /\ ~mem_unaligned_e2_q
                   /\ op.kind = "cache" => e1 = None
  BY <1>2, OpType DEF MayIssue, LsuStall
<1>4. csr_wait' = IF op # None /\ ~(op # None /\ op.kind # "cache") THEN 3
                  ELSE IF csr_wait = 0 THEN 0 ELSE csr_wait - 1
  BY DEF Pipeline
<1>5. csr_wait = 3 => op = None
  BY <1>3, SMT
<1>6. csr_wait = 3 => csr_wait' = 2
  BY <1>4, <1>5, SMT
<1>. QED
  BY <1>3, <1>4, <1>5, <1>6

(* Otherwise the stages move on, and what retires is the access in E2. *)
LEMMA MovingCycle ==
    ASSUME IInv,
           NEW op \in Accesses \cup {None}, NEW idle \in Addrs,
           Cycle(op, idle), ~PipeStall(data_ack)
    PROVE  /\ e1' = IF op # None /\ op.kind # "cache" THEN op ELSE None
           /\ stored' = After(stored, e2)
           /\ Fault(data_ack, data_error) <=> mem_unaligned_e2_q
           /\ squash_e1_e2_q' => mem_unaligned_e2_q
           /\ req' = IF mem_unaligned_e2_q THEN None ELSE op
           /\ e1 # None => ~Delay(data_ack, data_error)
<1>. USE DEF Cycle, LsuCycle
<1>1. /\ e1' = IF op # None /\ op.kind # "cache" THEN op ELSE None
      /\ squash_e1_e2_q' => e2 # None /\ Fault(data_ack, data_error)
  BY DEF Pipeline
<1>2. Fault(data_ack, data_error) <=> mem_unaligned_e2_q
  BY DEF Fault, IInv, Answers
<1>7. stored' = After(stored, e2)
  <2>1. CASE e2 = None
    BY <2>1 DEF Retire, After
  <2>2. CASE e2 # None /\ mem_unaligned_e2_q
    <3>1. e2.unaligned
      BY <2>2 DEF IInv, Stages
    <3>. QED
      BY <1>2, <2>2, <3>1 DEF Retire, After
  <2>3. CASE e2 # None /\ ~mem_unaligned_e2_q
    BY <1>2, <2>3 DEF Retire, PipeStall
  <2>. QED
    BY <2>1, <2>2, <2>3
<1>8. e1 # None => ~Delay(data_ack, data_error)
  <2>. SUFFICES ASSUME e1 # None, pending_lsu_e2_q
                PROVE  data_ack /\ ~data_error
    BY DEF Delay
  <2>1. e2 # None
    BY DEF IInv, PendingFlag, Stages
  <2>2. ~mem_unaligned_e2_q
    BY <2>1 DEF IInv, PendingFlag, Stages
  <2>. QED
    BY <2>1, <2>2 DEF PipeStall, Answer, IInv, Answers
<1>9. ~Hold(TRUE, data_ack, data_error)
  BY <1>8 DEF Hold, IInv, Stages
<1>10. req' = IF mem_unaligned_e2_q THEN None ELSE op
  BY <1>2, <1>9 DEF RequestRegisters
<1>. QED
  BY <1>1, <1>2, <1>7, <1>8, <1>10

(* An access that leaves E1 is made in the same cycle, and enters E2 with  *)
(* its answer.                                                             *)
LEMMA AccessCycle ==
    ASSUME IInv,
           NEW op \in Accesses \cup {None}, NEW idle \in Addrs,
           Cycle(op, idle), ~PipeStall(data_ack), e1 # None
    PROVE  /\ e2' = e1 /\ req = e1 /\ e1.kind # "cache" /\ ~mem_unaligned_e2_q
           /\ e1 \in Requests
           /\ pending_lsu_e2_q' <=> ~e1.unaligned
           /\ mem_unaligned_e2_q' <=> e1.unaligned
           /\ fifo' = <<e1>>
           /\ Enabled("load") <=> e1.kind = "load" /\ ~e1.unaligned
           /\ Enabled("store") <=> e1.kind = "store" /\ ~e1.unaligned
           /\ ~squash_e1_e2_q'
           /\ e1.unaligned => op = None
<1>1. /\ req = e1 /\ e1.kind # "cache" /\ ~mem_unaligned_e2_q /\ ~squash_e1_e2_q
      /\ e1 \in Requests /\ fifo \in Seq(Requests)
  BY DEF IInv, Stages, TypeOK, LsuTypeOK
<1>2. /\ ~Delay(data_ack, data_error) /\ ~Fault(data_ack, data_error)
      /\ ~squash_e1_e2_q'
  BY <1>1, MovingCycle
<1>11. op # None => ~Unaligned
  BY Issued
<1>. USE DEF Cycle, LsuCycle
<1>3. e2' = e1
  BY <1>1, <1>2 DEF Pipeline, Squashed
<1>4. Requesting(data_ack, data_error) <=> ~e1.unaligned
  BY <1>1, <1>2 DEF Requesting
<1>5. e2 # None => Answer(data_ack)
  BY DEF PipeStall
<1>6. pending_lsu_e2_q' <=> ~e1.unaligned
  <2>1. e1.unaligned => ~(pending_lsu_e2_q /\ ~data_ack)
    BY <1>2 DEF Delay
  <2>. QED
    BY <1>4, <2>1 DEF Pending
<1>7. Unaligned <=> e1.unaligned
  BY <1>1 DEF Unaligned
<1>8. mem_unaligned_e2_q' <=> e1.unaligned
  BY <1>2, <1>7 DEF DummyAnswer
<1>9. fifo' = <<e1>>
  <2>1. fifo = <<>> \/ (e2 # None /\ fifo = <<e2>>)
    BY DEF IInv, Entries, PendingFlag, Stages
  <2>2. e2 # None => e2 \in Requests
    BY DEF IInv, TypeOK, LsuTypeOK
  <2>3. Len(fifo) # DEPTH
    BY <1>1, <2>1, <2>2, OneEntry
  <2>4. (IF Answer(data_ack) /\ fifo # <<>> THEN Tail(fifo) ELSE fifo) = <<>>
    BY <1>5, <2>1, <2>2, OneEntry
  <2>5. Requesting(data_ack, data_error) \/ (Unaligned /\ ~Delay(data_ack, data_error))
    BY <1>2, <1>4, <1>7
  <2>. QED
    BY <1>1, <2>3, <2>4, <2>5, OneEntry DEF Fifo
<1>10. /\ Enabled("load") <=> e1.kind = "load" /\ ~e1.unaligned
       /\ Enabled("store") <=> e1.kind = "store" /\ ~e1.unaligned
  BY <1>1, <1>4 DEF Enabled
<1>. QED
  BY <1>1, <1>2, <1>3, <1>6, <1>7, <1>8, <1>9, <1>10, <1>11

(* When nothing is in E1, no access is made. *)
LEMMA IdleCycle ==
    ASSUME IInv,
           NEW op \in Accesses \cup {None}, NEW idle \in Addrs,
           Cycle(op, idle), ~PipeStall(data_ack), e1 = None
    PROVE  /\ e2' = None /\ ~mem_unaligned_e2_q'
           /\ ~Enabled("load") /\ ~Enabled("store")
           /\ pending_lsu_e2_q' => op = None /\ (csr_wait' = 2 \/ ~data_ack)
           /\ IF pending_lsu_e2_q' THEN Len(fifo') = 1 ELSE fifo' = <<>>
<1>0. /\ op # None => ~Delay(data_ack, data_error)
      /\ csr_wait = 3 => op = None /\ csr_wait' = 2
  BY Issued
<1>. USE DEF Cycle, LsuCycle
<1>1. e2' = None
  BY DEF Pipeline
<1>2. req # None => /\ req.kind = "cache" /\ ~req.unaligned /\ req \in Requests
                    /\ e2 = None /\ csr_wait = 3 /\ ~pending_lsu_e2_q
  BY AccessType DEF IInv, Stages, TypeOK, LsuTypeOK
<1>3. ~Enabled("load") /\ ~Enabled("store") /\ ~Unaligned
  BY <1>2 DEF Enabled, Requesting, Unaligned
<1>4. ~mem_unaligned_e2_q'
  BY <1>3 DEF DummyAnswer
<1>5. CASE req # None
  <2>1. Requesting(data_ack, data_error) /\ fifo = <<>>
    BY <1>2, <1>5 DEF Requesting, IInv, Entries
  <2>2. pending_lsu_e2_q'
    BY <2>1 DEF Pending
  <2>3. op = None /\ csr_wait' = 2
    BY <1>0, <1>2, <1>5
  <2>4. fifo' = <<req>>
    BY <1>2, <1>5, <2>1, OneEntry DEF Fifo
  <2>. QED
    BY <1>1, <1>2, <1>3, <1>4, <1>5, <2>2, <2>3, <2>4, OneEntry
<1>6. CASE req = None
  <2>1. ~Requesting(data_ack, data_error)
    BY <1>6 DEF Requesting
  <2>2. pending_lsu_e2_q' <=> pending_lsu_e2_q /\ ~data_ack
    BY <2>1 DEF Pending
  <2>3. fifo' = IF Answer(data_ack) /\ fifo # <<>> THEN Tail(fifo) ELSE fifo
    BY <1>3, <2>1 DEF Fifo
  <2>4. fifo \in Seq(Requests)
    BY DEF IInv, TypeOK, LsuTypeOK
  <2>5. CASE e2 # None
    <3>1. Answer(data_ack) /\ fifo = <<e2>> /\ e2 \in Requests
      BY <2>5 DEF PipeStall, IInv, Entries, TypeOK, LsuTypeOK
    <3>2. fifo' = <<>>
      BY <2>3, <3>1, OneEntry
    <3>3. ~pending_lsu_e2_q'
      BY <2>2, <2>5, <3>1 DEF Answer, IInv, Stages, PendingFlag
    <3>. QED
      BY <1>1, <1>3, <1>4, <3>2, <3>3
  <2>6. CASE e2 = None
    <3>1. ~mem_unaligned_e2_q
      BY <2>6 DEF IInv, Stages
    <3>2. IF pending_lsu_e2_q THEN Len(fifo) = 1 ELSE fifo = <<>>
      BY <2>6 DEF IInv, Entries
    <3>3. IF pending_lsu_e2_q' THEN Len(fifo') = 1 ELSE fifo' = <<>>
      BY <2>2, <2>3, <2>4, <3>1, <3>2, LastEntry DEF Answer
    <3>4. pending_lsu_e2_q' => op = None /\ ~data_ack
      BY <1>0, <2>2 DEF Delay
    <3>. QED
      BY <1>1, <1>3, <1>4, <3>3, <3>4
  <2>. QED
    BY <2>5, <2>6
<1>. QED
  BY <1>5, <1>6

(* The stages, the pending flag, the answer lines and the FIFO after it. *)
LEMMA ControlStep ==
    ASSUME IInv,
           NEW op \in Accesses \cup {None}, NEW idle \in Addrs,
           Cycle(op, idle)
    PROVE  Stages' /\ PendingFlag' /\ Answers' /\ Entries'
<1>1. /\ data_ack' = IF Enabled("load") \/ Enabled("store")
                     THEN Exists(mem_addr_q) ELSE data_ack
      /\ data_error' = IF Enabled("load") \/ Enabled("store")
                       THEN ~Exists(mem_addr_q) ELSE data_error
  BY DEF Cycle, Response
<1>2. ~(data_ack' /\ data_error')
  BY <1>1, Zenon DEF IInv, Answers
<1>3. CASE PipeStall(data_ack)
  <2>1. /\ Aligned(e2) /\ ~Exists(e2.tag.addr) /\ ~data_ack
        /\ req # None => req.kind # "cache"
        /\ UNCHANGED <<req, e1, e2, squash_e1_e2_q, fifo, data_ack>>
        /\ pending_lsu_e2_q' /\ ~mem_unaligned_e2_q'
    BY <1>3, StuckCycle
  <2>2. ~mem_unaligned_e2_q /\ pending_lsu_e2_q
    BY <2>1 DEF Aligned, IInv, Stages, PendingFlag
  <2>3. Stages'
    BY <2>1, <2>2 DEF IInv, Stages, Aligned
  <2>4. PendingFlag' /\ Entries'
    BY <2>1, <2>2 DEF IInv, PendingFlag, Entries, Aligned
  <2>5. Answers'
    <3>1. data_ack = Exists(e2.tag.addr)
      BY <2>1 DEF IInv, Answers
    <3>2. data_ack' = Exists(e2'.tag.addr)
      BY <2>1, <3>1
    <3>. QED
      BY <1>2, <3>2, Zenon DEF Answers, Exists
  <2>. QED
    BY <2>3, <2>4, <2>5
<1>4. CASE ~PipeStall(data_ack) /\ e1 # None
  <2>1. /\ e2' = e1 /\ e1.kind # "cache" /\ ~mem_unaligned_e2_q /\ e1 \in Requests
        /\ pending_lsu_e2_q' <=> ~e1.unaligned
        /\ mem_unaligned_e2_q' <=> e1.unaligned
        /\ fifo' = <<e1>> /\ ~squash_e1_e2_q'
        /\ e1.unaligned => op = None
        /\ ~e1.unaligned => Enabled("load") \/ Enabled("store")
    BY <1>4, AccessCycle, AccessType
  <2>2. req' = op /\ e1' = IF op # None /\ op.kind # "cache" THEN op ELSE None
    BY <1>4, <2>1, MovingCycle
  <2>3. op # None /\ op.kind = "cache" => e1 = None
    BY Issued
  <2>4. Stages'
    BY <1>4, <2>1, <2>2, <2>3 DEF Stages
  <2>5. PendingFlag' /\ Entries'
    BY <1>4, <2>1 DEF PendingFlag, Entries
  <2>6. mem_addr_q = e1.tag.addr
    BY <1>4 DEF IInv, BusIsRequest
  <2>7. ~e1.unaligned => data_ack' = Exists(e1.tag.addr)
    BY <1>1, <2>1, <2>6, Zenon
  <2>8. Answers'
    BY <1>2, <2>1, <2>7, Zenon DEF Answers, Aligned, Exists
  <2>. QED
    BY <2>4, <2>5, <2>8
<1>5. CASE ~PipeStall(data_ack) /\ e1 = None
  <2>1. /\ e2' = None /\ ~mem_unaligned_e2_q'
        /\ ~Enabled("load") /\ ~Enabled("store")
        /\ pending_lsu_e2_q' => op = None /\ (csr_wait' = 2 \/ ~data_ack)
        /\ IF pending_lsu_e2_q' THEN Len(fifo') = 1 ELSE fifo' = <<>>
    BY <1>5, IdleCycle
  <2>2. /\ req' = IF mem_unaligned_e2_q THEN None ELSE op
        /\ e1' = IF op # None /\ op.kind # "cache" THEN op ELSE None
        /\ squash_e1_e2_q' => mem_unaligned_e2_q
    BY <1>5, MovingCycle
  <2>3. /\ op # None => ~mem_unaligned_e2_q
        /\ op # None /\ op.kind = "cache" => csr_wait' = 3
    BY Issued
  <2>4. Stages'
    BY <2>1, <2>2, <2>3 DEF Stages
  <2>5. data_ack' = data_ack
    BY <1>1, <2>1
  <2>6. PendingFlag' /\ Entries' /\ Answers'
    BY <1>2, <2>1, <2>2, <2>3, <2>5 DEF PendingFlag, Entries, Answers, Aligned
  <2>. QED
    BY <2>4, <2>6
<1>. QED
  BY <1>3, <1>4, <1>5

(* The address and data registers are loaded and held together with the    *)
(* request registers.                                                      *)
LEMMA BusStep ==
    ASSUME IInv,
           NEW op \in Accesses \cup {None}, NEW idle \in Addrs,
           Cycle(op, idle)
    PROVE  BusIsRequest'
<1>1. CASE PipeStall(data_ack)
  BY <1>1, StuckCycle DEF IInv, BusIsRequest
<1>2. CASE ~PipeStall(data_ack)
  <2>. SUFFICES ASSUME e1' # None
                PROVE  /\ mem_addr_q' = e1'.tag.addr
                       /\ e1'.kind = "store" /\ ~e1'.unaligned =>
                             mem_data_wr_q' = e1'.tag.val
    BY DEF BusIsRequest
  <2>1. e1' = op /\ op # None
    BY <1>2, MovingCycle
  <2>2. ~Delay(data_ack, data_error) /\ ~mem_unaligned_e2_q
    BY <2>1, Issued
  <2>3. ~Fault(data_ack, data_error)
    BY <1>2, <2>2, MovingCycle
  <2>4. ~Hold(TRUE, data_ack, data_error)
    BY <2>2 DEF Hold
  <2>5. /\ mem_addr_q' = op.tag.addr
        /\ mem_data_wr_q' = IF op.kind = "store" /\ ~op.unaligned THEN op.tag.val ELSE 0
    BY <2>1, <2>3, <2>4 DEF Cycle, BusRegisters
  <2>. QED
    BY <2>1, <2>5
<1>. QED
  BY <1>1, <1>2

(* The RAM and the character display are still what the retired stores and *)
(* the one in E2 make of them, and the data of a load is current.          *)
LEMMA MemoryStep ==
    ASSUME IInv,
           NEW op \in Accesses \cup {None}, NEW idle \in Addrs,
           Cycle(op, idle)
    PROVE  StoredType' /\ StoresOnce' /\ LoadIsCurrent'
<1>. DEFINE m == After(stored, e2)
<1>1. stored \in Memories /\ ram = m.ram /\ chars = m.chars /\ idx = m.idx
  BY DEF IInv, StoredType, StoresOnce
<1>2. m \in Memories
  <2>1. e2 = None => m = stored
    BY DEF After
  <2>2. e2 # None => e2 \in Requests
    BY DEF IInv, TypeOK, LsuTypeOK
  <2>. QED
    BY <1>1, <2>1, <2>2, AfterAccess
<1>3. CASE PipeStall(data_ack)
  <2>1. /\ UNCHANGED <<e2, data_ack, data_error, data_q, ram, chars, idx, stored>>
        /\ ~Exists(e2.tag.addr)
    BY <1>3, StuckCycle
  <2>2. StoredType'
    BY <1>1, <2>1 DEF StoredType
  <2>3. StoresOnce'
    <3>1. After(stored', e2') = m
      BY <2>1 DEF After
    <3>. QED
      BY <1>1, <2>1, <3>1 DEF StoresOnce
  <2>4. LoadIsCurrent'
    BY <2>1 DEF LoadIsCurrent, Exists
  <2>. QED
    BY <2>2, <2>3, <2>4
<1>4. CASE ~PipeStall(data_ack) /\ e1 # None
  <2>1. /\ e2' = e1 /\ e1 \in Requests
        /\ Enabled("load") <=> e1.kind = "load" /\ ~e1.unaligned
        /\ Enabled("store") <=> e1.kind = "store" /\ ~e1.unaligned
        /\ mem_unaligned_e2_q' <=> e1.unaligned
    BY <1>4, AccessCycle
  <2>2. /\ mem_addr_q = e1.tag.addr
        /\ e1.kind = "store" /\ ~e1.unaligned => mem_data_wr_q = e1.tag.val
    BY <1>4 DEF IInv, BusIsRequest
  <2>3. stored' = m
    BY <1>4, MovingCycle
  <2>4. StoredType'
    BY <1>2, <2>3 DEF StoredType
  <2>5. After(stored', e2') = After(m, e1)
    BY <2>1, <2>3 DEF After
  <2>. HIDE DEF m
  <2>6. CASE e1.kind = "store" /\ ~e1.unaligned
    <3>1. /\ ram' = IF e1.tag.addr \in Ram
                    THEN [m.ram EXCEPT ![e1.tag.addr] = e1.tag.val] ELSE m.ram
          /\ chars' = IF e1.tag.addr = Clear THEN Cleared
                      ELSE IF e1.tag.addr = PutChar
                      THEN [m.chars EXCEPT ![m.idx] = e1.tag.val] ELSE m.chars
          /\ idx' = IF e1.tag.addr = Clear THEN 0
                    ELSE IF e1.tag.addr = PutChar THEN (m.idx + 1) % CHARS ELSE m.idx
      BY <1>1, <2>1, <2>2, <2>6 DEF Cycle, RamPort, CharDisplay
    <3>2. StoresOnce'
      BY <1>2, <2>1, <2>5, <2>6, <3>1, AfterAccess DEF StoresOnce
    <3>3. LoadIsCurrent'
      BY <2>1, <2>6 DEF LoadIsCurrent
    <3>. QED
      BY <2>4, <3>2, <3>3
  <2>7. CASE ~(e1.kind = "store" /\ ~e1.unaligned)
    <3>1. UNCHANGED <<ram, chars, idx>>
      BY <2>1, <2>7 DEF Cycle, RamPort, CharDisplay
    <3>2. After(m, e1) = m
      BY <1>2, <2>1, <2>7, AfterAccess
    <3>3. StoresOnce'
      BY <1>1, <2>5, <3>1, <3>2 DEF StoresOnce
    <3>4. LoadIsCurrent'
      <4>. SUFFICES ASSUME ~Fault(data_ack, data_error)', e1.kind = "load",
                           e1.tag.addr \in Ram
                    PROVE  data_q' = m.ram[e1.tag.addr]
        BY <2>1, <2>3 DEF LoadIsCurrent, Fault
      <4>1. ~e1.unaligned
        BY <2>1 DEF Fault
      <4>2. data_q' = ram[Word[mem_addr_q]]
        BY <2>1, <4>1 DEF Cycle, RamPort
      <4>. QED
        BY <1>1, <2>2, <4>2, SysAssumption
    <3>. QED
      BY <2>4, <3>3, <3>4
  <2>. QED
    BY <2>6, <2>7
<1>5. CASE ~PipeStall(data_ack) /\ e1 = None
  <2>1. /\ e2' = None /\ ~Enabled("load") /\ ~Enabled("store")
    BY <1>5, IdleCycle
  <2>2. stored' = m
    BY <1>5, MovingCycle
  <2>3. UNCHANGED <<ram, chars, idx>>
    BY <2>1 DEF Cycle, RamPort, CharDisplay
  <2>4. After(stored', e2') = m
    BY <2>1, <2>2 DEF After
  <2>. QED
    BY <1>1, <1>2, <2>1, <2>2, <2>3, <2>4 DEF StoredType, StoresOnce, LoadIsCurrent
<1>. QED
  BY <1>3, <1>4, <1>5

(* Every clock edge keeps the invariant, whatever the program does. *)
THEOREM StepInvariant == IInv /\ [Next]_vars => IInv'
<1>. SUFFICES ASSUME IInv, [Next]_vars PROVE IInv'
  OBVIOUS
<1>1. CASE Next
  <2>1. PICK op \in Accesses \cup {None}, idle \in Addrs : Cycle(op, idle)
    BY <1>1 DEF Next
  <2>2. TypeOK'
    BY <2>1, TypeStep DEF IInv
  <2>. QED
    BY <2>1, <2>2, ControlStep, BusStep, MemoryStep DEF IInv
<1>2. CASE UNCHANGED vars
  <2>. USE <1>2 DEF vars, lsuVars, fabricVars
  <2>1. TypeOK'
    BY DEF IInv, TypeOK, LsuTypeOK
  <2>2. Stages' /\ PendingFlag' /\ Answers' /\ Entries' /\ BusIsRequest'
    BY DEF IInv, Stages, PendingFlag, Answers, Aligned, Exists, Entries, BusIsRequest
  <2>3. After(stored', e2') = After(stored, e2)
    BY DEF After
  <2>4. StoredType' /\ StoresOnce' /\ LoadIsCurrent'
    BY <2>3 DEF IInv, StoredType, StoresOnce, LoadIsCurrent, Fault
  <2>. QED
    BY <2>1, <2>2, <2>4 DEF IInv
<1>. QED
  BY <1>1, <1>2

(* So every reachable state of the load/store unit, the fabric and its     *)
(* memories satisfies it.                                                  *)
THEOREM Invariance == Spec => []IInv
  BY InitInvariant, StepInvariant, PTL DEF Spec

-----------------------------------------------------------------------------
(* The properties of Sys. *)

(* Every register keeps its type; the position of the character display    *)
(* stays on the display (idx of char_display.v).                           *)
THEOREM TypeCorrect == Spec => []TypeOK
<1>1. IInv => TypeOK
  BY DEF IInv
<1>. QED
  BY <1>1, Invariance, PTL

(* When every address of the program is in the map, an access enters E2    *)
(* together with its answer.  The hypothesis is needed: an access outside  *)
(* the map gets data_error without data_ack and stays in E2.               *)
THEOREM AnswersInTime == Beyond = {} => (Spec => []AnsweredAtOnce)
<1>. SUFFICES ASSUME Beyond = {} PROVE Spec => []AnsweredAtOnce
  OBVIOUS
<1>1. IInv => AnsweredAtOnce
  <2>. SUFFICES ASSUME IInv, e2 # None
                PROVE  Answer(data_ack) /\ fifo = <<e2>>
    BY DEF AnsweredAtOnce
  <2>1. fifo = <<e2>>
    BY DEF IInv, Entries
  <2>2. e2.unaligned => mem_unaligned_e2_q
    BY DEF IInv, Stages
  <2>3. ~e2.unaligned => data_ack
    <3>1. e2.tag.addr \in Addrs
      BY AccessType DEF IInv, TypeOK, LsuTypeOK
    <3>2. Exists(e2.tag.addr)
      BY <3>1 DEF Exists, Addrs
    <3>. QED
      BY <3>2 DEF IInv, Answers, Aligned
  <2>. QED
    BY <2>1, <2>2, <2>3 DEF Answer
<1>. QED
  BY <1>1, Invariance, PTL

(* Every store takes effect once and in program order, and a store that is *)
(* squashed or fails takes none: also when cache operations run, and up to *)
(* an access outside the map.                                              *)
THEOREM StoresInOrder == Spec => []StoresOnce
<1>1. IInv => StoresOnce
  BY DEF IInv
<1>. QED
  BY <1>1, Invariance, PTL

(* A load that retires returns the word the latest older store wrote. *)
THEOREM LoadsAreCurrent == Spec => []LoadIsCurrent
<1>1. IInv => LoadIsCurrent
  BY DEF IInv
<1>. QED
  BY <1>1, Invariance, PTL

=============================================================================
