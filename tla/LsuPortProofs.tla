---------------------------- MODULE LsuPortProofs ---------------------------
(***************************************************************************)
(* Proofs of the safety properties of LsuPort, for every set of tags and   *)
(* every depth of the FIFO from two on.                                    *)
(*                                                                         *)
(* FifoTracksPort alone is not inductive: it needs to know where the       *)
(* access of each stage is (AccessPlaces), that the pending flag tells the *)
(* truth (PortState), and that a cache operation waits alone (CacheAlone), *)
(* because it does not wait for the answer of what is before it.           *)
(***************************************************************************)
EXTENDS LsuPort, SequenceTheorems, TLAPS

(* An access in E1 is in the request registers; one in E2 is the oldest    *)
(* entry of the FIFO, or is still in the request registers.  What the      *)
(* registers hold, or the dummy answer stands for, is one of the two.      *)
AccessPlaces ==
    /\ e1 # None => req = e1 /\ (e2 # None => fifo # <<>>)
    /\ e2 # None => IF fifo = <<>> THEN req = e2 /\ e1 = None ELSE fifo[1] = e2
    /\ req # None /\ req.kind # "cache" =>
          req = IF e2 # None /\ fifo = <<>> THEN e2 ELSE e1
    /\ squash_e1_e2_q => e1 = None /\ e2 = None
    /\ mem_unaligned_e2_q => e2 # None /\ ~pending_lsu_e2_q /\ req = None
    /\ e1 # None => e1.kind # "cache"
    /\ e2 # None => e2.kind # "cache"

(* pending_lsu_e2_q says whether the memory owes an answer; the answer is  *)
(* to the access in E2, or to a cache operation.                           *)
PortState ==
    /\ pending_lsu_e2_q <=> port # <<>>
    /\ Len(port) <= 1
    /\ port # <<>> =>
          /\ ~port[1].unaligned
          /\ port[1].kind # "cache" => e2 = port[1]
          /\ port[1].kind = "cache" => e2 = None
          /\ port[1].kind = "cache" /\ memory = "dcache" => req = None

(* A cache operation in the request registers is alone in the pipeline,    *)
(* and the port is idle or has another cache operation, in the TCM.        *)
CacheAlone ==
    req # None /\ req.kind = "cache" =>
        /\ e1 = None /\ e2 = None
        /\ memory = "dcache" => csr_wait = 3 /\ port = <<>>
        /\ port # <<>> => port[1].kind = "cache"

IInv ==
    /\ TypeOK
    /\ FifoTracksPort
    /\ AccessPlaces
    /\ PortState
    /\ CacheAlone

-----------------------------------------------------------------------------
(* Sequences of at most one element. *)

(* A sequence of one element has that element as its head, and no tail. *)
LEMMA Single ==
    ASSUME NEW S, NEW r \in S
    PROVE  /\ <<r>> \in Seq(S)
           /\ <<r>> # <<>> /\ Len(<<r>>) = 1 /\ <<r>>[1] = r
           /\ Append(<<>>, r) = <<r>>
           /\ Tail(<<r>>) = <<>>
<1>1. <<r>> \in Seq(S) /\ Len(<<r>>) = 1 /\ <<r>>[1] = r
  BY SMT
<1>2. <<r>> # <<>>
  BY <1>1, EmptySeq, SMT
<1>3. Append(<<>>, r) = <<r>>
  BY SMT
<1>4. Tail(<<r>>) = <<>>
  BY <1>1, <1>2, HeadTailProperties, EmptySeq, SMT
<1>. QED
  BY <1>1, <1>2, <1>3, <1>4

(* A sequence of at most one element is empty or the sequence of its head. *)
LEMMA Short ==
    ASSUME NEW S, NEW s \in Seq(S), Len(s) <= 1
    PROVE  s = <<>> \/ (s = <<s[1]>> /\ s[1] \in S)
<1>. DEFINE n == Len(s)
<1>1. s # <<>> => n = 1
  <2>1. s # <<>> => n \in Nat \ {0}
    BY EmptySeq, Zenon
  <2>2. n <= 1
    OBVIOUS
  <2>. HIDE DEF n
  <2>. QED
    BY <2>1, <2>2, SMT
<1>2. ASSUME s # <<>>
      PROVE  s[1] \in S
  BY <1>1, <1>2, ElementOfSeq, SMT
<1>3. ASSUME s # <<>>
      PROVE  s = <<s[1]>>
  <2>1. <<s[1]>> \in Seq(S) /\ Len(<<s[1]>>) = 1
    BY <1>2, <1>3, SMT
  <2>2. \A i \in 1 .. Len(s) : s[i] = <<s[1]>>[i]
    BY <1>1, <1>3, SMT
  <2>. QED
    BY <1>1, <1>3, <2>1, <2>2, SeqEqual, SMT
<1>. QED
  BY <1>2, <1>3

-----------------------------------------------------------------------------
(* The reset values of riscv_lsu.v satisfy the invariant. *)
THEOREM InitInvariant == Init => IInv
<1>. SUFFICES ASSUME Init PROVE IInv
  OBVIOUS
<1>. USE DEF Init, LsuInit
<1>1. TypeOK
  <2>1. <<>> \in Seq(Requests) /\ Len(<<>>) = 0
    BY EmptySeq
  <2>2. 0 <= DEPTH /\ 0 \in 0..3
    BY LsuAssumption, SMT
  <2>. QED
    BY <2>1, <2>2, Zenon DEF TypeOK, LsuTypeOK
<1>2. FifoTracksPort
  BY SMT DEF FifoTracksPort
<1>3. AccessPlaces /\ CacheAlone
  BY SMT DEF AccessPlaces, CacheAlone
<1>4. PortState
  BY EmptySeq, SMT DEF PortState
<1>. QED
  BY <1>1, <1>2, <1>3, <1>4 DEF IInv

(* What a request is. *)
LEMMA RequestType ==
    ASSUME NEW r \in Requests
    PROVE  /\ r # None /\ r.kind \in {"load", "store", "cache"}
           /\ (r.kind = "cache" => ~r.unaligned)
  BY LsuAssumption DEF Requests

-----------------------------------------------------------------------------
(* One cycle. *)

Asks(accept, ack, error) == Requesting(ack, error) /\ accept

Dummy(ack, error) == Unaligned /\ ~Delay(ack, error)

(* The FIFO and the port hold at most one request. *)
LEMMA AtMostOne ==
    ASSUME IInv
    PROVE  /\ port = <<>> \/ (port = <<port[1]>> /\ port[1] \in Requests)
           /\ fifo = <<>> \/ (fifo = <<fifo[1]>> /\ fifo[1] \in Requests)
           /\ Len(port) <= 1 /\ Len(fifo) <= 1
           /\ IF mem_unaligned_e2_q
              THEN port = <<>> /\ fifo # <<>> /\ fifo[1].unaligned
              ELSE fifo = port
<1>1. fifo \in Seq(Requests) /\ port \in Seq(Requests)
  BY DEF IInv, TypeOK, LsuTypeOK
<1>2. Len(port) <= 1
  BY DEF IInv, PortState
<1>3. CASE mem_unaligned_e2_q
  <2>1. port = <<>> /\ Len(fifo) = 1 /\ fifo[1].unaligned
    BY <1>3 DEF IInv, FifoTracksPort
  <2>2. Len(fifo) <= 1
    BY <2>1, SMT
  <2>3. fifo # <<>>
    BY <2>1, EmptySeq, SMT
  <2>. QED
    BY <1>1, <1>2, <1>3, <2>1, <2>2, <2>3, Short
<1>4. CASE ~mem_unaligned_e2_q
  <2>1. fifo = port
    BY <1>4 DEF IInv, FifoTracksPort
  <2>. QED
    BY <1>1, <1>2, <1>4, <2>1, Short
<1>. QED
  BY <1>3, <1>4

(* A request is made only when the memory owes no answer, or gives it.     *)
LEMMA AsksWhenIdle ==
    ASSUME IInv,
           NEW accept \in BOOLEAN, NEW ack \in BOOLEAN, NEW error \in BOOLEAN,
           MemoryDrives(accept, ack, error)
    PROVE  /\ Asks(accept, ack, error) =>
                 /\ req \in Requests /\ ~req.unaligned
                 /\ port = <<>> \/ ack
           /\ Dummy(ack, error) =>
                 /\ req \in Requests /\ req.unaligned
                 /\ port = <<>> \/ ack
           /\ ack => port # <<>> /\ ~mem_unaligned_e2_q
<1>1. req # None => req \in Requests
  BY DEF IInv, TypeOK, LsuTypeOK
<1>2. ack => port # <<>> /\ ~mem_unaligned_e2_q
  BY AtMostOne DEF MemoryDrives
<1>3. port # <<>> => pending_lsu_e2_q
  BY DEF IInv, PortState
<1>4. req # None /\ req.kind = "cache" => port = <<>> \/ ack
  BY DEF IInv, CacheAlone, MemoryDrives, TypeOK
<1>. QED
  BY <1>1, <1>2, <1>3, <1>4 DEF Asks, Dummy, Requesting, Unaligned, Delay

(* The port and the FIFO after the cycle. *)
LEMMA Queues ==
    ASSUME IInv,
           NEW op \in Requests \cup {None},
           NEW accept \in BOOLEAN, NEW ack \in BOOLEAN, NEW error \in BOOLEAN,
           Cycle(op, accept, ack, error)
    PROVE  /\ port' = IF Asks(accept, ack, error) THEN <<req>>
                       ELSE IF ack THEN <<>> ELSE port
           /\ fifo' = IF Asks(accept, ack, error) \/ Dummy(ack, error) THEN <<req>>
                       ELSE IF Answer(ack) THEN <<>> ELSE fifo
<1>. DEFINE asks == Asks(accept, ack, error)
            dummy == Dummy(ack, error)
<1>1. MemoryDrives(accept, ack, error)
  BY DEF Cycle
<1>2. /\ asks => req \in Requests /\ (port = <<>> \/ ack)
      /\ dummy => req \in Requests /\ (port = <<>> \/ ack)
      /\ ack => port # <<>> /\ ~mem_unaligned_e2_q
  BY <1>1, AsksWhenIdle
<1>3. \A r \in Requests : Append(<<>>, r) = <<r>> /\ Tail(<<r>>) = <<>>
  BY Single
<1>. DEFINE left == IF ack THEN Tail(port) ELSE port
            rest == IF Answer(ack) /\ fifo # <<>> THEN Tail(fifo) ELSE fifo
<1>4. left = IF ack THEN <<>> ELSE port
  BY <1>2, <1>3, AtMostOne
<1>5. rest = IF Answer(ack) THEN <<>> ELSE fifo
  BY <1>3, AtMostOne
<1>6. port' = IF asks THEN Append(left, req) ELSE left
  BY DEF Cycle, Port, Asks
<1>7. fifo' = IF asks \/ dummy THEN Append(rest, req) ELSE rest
  <2>1. Len(fifo) # DEPTH
    BY AtMostOne, LsuAssumption, LenProperties, SMT DEF IInv, TypeOK, LsuTypeOK
  <2>. QED
    BY <2>1 DEF Cycle, LsuCycle, Fifo, Asks, Dummy
<1>8. asks => left = <<>>
  BY <1>2, <1>4
<1>9. asks \/ dummy => rest = <<>>
  BY <1>2, <1>5, AtMostOne DEF Answer
<1>. HIDE DEF left, rest, asks, dummy
<1>10. port' = IF asks THEN <<req>> ELSE IF ack THEN <<>> ELSE port
  BY <1>2, <1>3, <1>4, <1>6, <1>8
<1>11. fifo' = IF asks \/ dummy THEN <<req>> ELSE IF Answer(ack) THEN <<>> ELSE fifo
  BY <1>2, <1>3, <1>5, <1>7, <1>9
<1>. QED
  BY <1>10, <1>11 DEF asks, dummy

-----------------------------------------------------------------------------
(* The invariant is preserved, one part at a time. *)

(* Every register of the unit keeps its type over a clock edge. *)
LEMMA TypeStep ==
    ASSUME IInv,
           NEW op \in Requests \cup {None},
           NEW accept \in BOOLEAN, NEW ack \in BOOLEAN, NEW error \in BOOLEAN,
           Cycle(op, accept, ack, error)
    PROVE  TypeOK'
<1>1. req' \in Requests \cup {None}
  BY DEF IInv, TypeOK, LsuTypeOK, Cycle, LsuCycle, RequestRegisters
<1>2. {pending_lsu_e2_q', mem_unaligned_e2_q'} \subseteq BOOLEAN
  <2>1. {pending_lsu_e2_q, mem_unaligned_e2_q} \subseteq BOOLEAN
    BY DEF IInv, TypeOK, LsuTypeOK
  <2>. QED
    BY <2>1, Zenon DEF Cycle, LsuCycle, Pending, DummyAnswer
<1>3. /\ {e1', e2'} \subseteq Requests \cup {None}
      /\ {squash_e1_e2_q', answered'} \subseteq BOOLEAN
      /\ csr_wait' \in 0..3
  <2>1. /\ {e1, e2} \subseteq Requests \cup {None}
        /\ squash_e1_e2_q \in BOOLEAN /\ mem_unaligned_e2_q \in BOOLEAN
        /\ csr_wait \in 0..3
    BY DEF IInv, TypeOK, LsuTypeOK
  <2>2. {e1', e2'} \subseteq Requests \cup {None}
    BY <2>1 DEF Cycle, LsuCycle, Pipeline
  <2>3. {squash_e1_e2_q', answered'} \subseteq BOOLEAN
    BY <2>1, Zenon DEF Cycle, LsuCycle, Pipeline, Fault, Answer
  <2>4. csr_wait' \in 0..3
    BY <2>1, SMT DEF Cycle, LsuCycle, Pipeline
  <2>. QED
    BY <2>2, <2>3, <2>4
<1>4. /\ fifo' \in Seq(Requests) /\ Len(fifo') <= DEPTH
      /\ port' \in Seq(Requests) /\ Len(port') <= DEPTH
  <2>1. /\ Asks(accept, ack, error) => req \in Requests
        /\ Dummy(ack, error) => req \in Requests
    BY AsksWhenIdle DEF Cycle
  <2>2. \A r \in Requests : <<r>> \in Seq(Requests) /\ Len(<<r>>) <= DEPTH
    BY Single, LsuAssumption
  <2>3. <<>> \in Seq(Requests) /\ Len(<<>>) <= DEPTH
    BY EmptySeq, LsuAssumption
  <2>4. /\ fifo \in Seq(Requests) /\ Len(fifo) <= DEPTH
        /\ port \in Seq(Requests) /\ Len(port) <= DEPTH
    BY DEF IInv, TypeOK, LsuTypeOK
  <2>. QED
    BY <2>1, <2>2, <2>3, <2>4, Queues, Zenon
<1>5. memory' \in {"dcache", "tcm"}
  BY DEF IInv, TypeOK, Cycle
<1>. QED
  BY <1>1, <1>2, <1>3, <1>4, <1>5 DEF TypeOK, LsuTypeOK

(* The FIFO still holds exactly the requests that wait for an answer.      *)
LEMMA FifoStep ==
    ASSUME IInv,
           NEW op \in Requests \cup {None},
           NEW accept \in BOOLEAN, NEW ack \in BOOLEAN, NEW error \in BOOLEAN,
           Cycle(op, accept, ack, error)
    PROVE  FifoTracksPort'
<1>1. mem_unaligned_e2_q' = Dummy(ack, error)
  BY DEF Cycle, LsuCycle, DummyAnswer, Dummy
<1>2. Dummy(ack, error) => ~Asks(accept, ack, error)
  BY DEF Dummy, Asks, Unaligned, Requesting
<1>3. CASE Dummy(ack, error)
  <2>1. req \in Requests /\ req.unaligned /\ (port = <<>> \/ ack)
    BY <1>3, AsksWhenIdle DEF Cycle
  <2>2. port' = <<>> /\ fifo' = <<req>>
    BY <1>2, <1>3, <2>1, Queues
  <2>. QED
    BY <1>1, <1>3, <2>1, <2>2, Single DEF FifoTracksPort
<1>4. CASE ~Dummy(ack, error)
  <2>1. mem_unaligned_e2_q => ~Asks(accept, ack, error) /\ ~ack /\ port = <<>>
    BY AtMostOne, AsksWhenIdle DEF Cycle, IInv, AccessPlaces, Asks, Requesting
  <2>2. fifo' = port'
    BY <1>4, <2>1, AtMostOne, Queues DEF Answer
  <2>. QED
    BY <1>1, <1>4, <2>2 DEF FifoTracksPort
<1>. QED
  BY <1>3, <1>4

-----------------------------------------------------------------------------
(* Who waits for whom in a cycle. *)

(* The access in E2 is at the memory, is the dummy answer, or is still in  *)
(* the request registers with nothing under way.                           *)
LEMMA E2Place ==
    ASSUME IInv, e2 # None
    PROVE  \/ fifo = <<>> /\ port = <<>> /\ ~mem_unaligned_e2_q
              /\ req = e2 /\ e1 = None
           \/ fifo # <<>> /\ port = fifo /\ ~mem_unaligned_e2_q /\ port[1] = e2
           \/ fifo # <<>> /\ port = <<>> /\ mem_unaligned_e2_q
              /\ req = None /\ e1 = None
<1>1. mem_unaligned_e2_q => req = None /\ e1 = None
  BY DEF IInv, AccessPlaces
<1>. QED
  BY <1>1, AtMostOne DEF IInv, AccessPlaces

(* An instruction issues only when everything before it has moved on, and  *)
(* nothing fails in that cycle.                                            *)
LEMMA IssueClear ==
    ASSUME IInv,
           NEW op \in Requests \cup {None},
           NEW accept \in BOOLEAN, NEW ack \in BOOLEAN, NEW error \in BOOLEAN,
           Cycle(op, accept, ack, error),
           op # None
    PROVE  /\ ~Delay(ack, error) /\ ~Unaligned /\ ~PipeStall(ack)
           /\ Requesting(ack, error) => accept
           /\ ~Squashed(ack, error) /\ ~Fault(ack, error)
           /\ csr_wait = 0
           /\ op.kind = "cache" => e1 = None
<1>1. MayIssue(op, accept, ack, error)
  BY DEF Cycle, LsuCycle
<1>2. /\ ~Delay(ack, error) /\ ~Unaligned /\ ~PipeStall(ack)
      /\ Requesting(ack, error) => accept
      /\ ~Squashed(ack, error)
      /\ csr_wait = 0
      /\ op.kind = "cache" => e1 = None
  BY <1>1 DEF MayIssue, LsuStall
<1>3. ~Fault(ack, error)
  <2>1. ack => port # <<>>
    BY DEF Cycle, MemoryDrives
  <2>2. ack => pending_lsu_e2_q
    BY <2>1 DEF IInv, PortState
  <2>3. ~(ack /\ error)
    BY <1>2, <2>2 DEF Delay
  <2>4. mem_unaligned_e2_q => e2 # None
    BY DEF IInv, AccessPlaces
  <2>. QED
    BY <1>2, <2>3, <2>4 DEF Fault, Squashed
<1>. QED
  BY <1>2, <1>3

(* What the request registers hold is the access of E1, that of E2, or a   *)
(* cache operation; an access that waits behind another waits with E1, and *)
(* the one behind it has not failed.                                       *)
LEMMA E1Moves ==
    ASSUME IInv,
           NEW op \in Requests \cup {None},
           NEW accept \in BOOLEAN, NEW ack \in BOOLEAN, NEW error \in BOOLEAN,
           Cycle(op, accept, ack, error),
           e1 # None, ~PipeStall(ack)
    PROVE  /\ req = e1
           /\ ~Fault(ack, error) =>
                 ~Delay(ack, error) /\ ~Squashed(ack, error)
                 /\ (port = <<>> \/ ack)
           /\ Fault(ack, error) => Squashed(ack, error)
<1>1. req = e1 /\ req.kind # "cache" /\ ~squash_e1_e2_q
  BY DEF IInv, AccessPlaces
<1>2. CASE e2 # None
  <2>1. ack \/ mem_unaligned_e2_q
    BY <1>2 DEF PipeStall, Answer
  <2>2. ~mem_unaligned_e2_q
    BY <1>1, <1>2, E2Place
  <2>. QED
    BY <1>1, <1>2, <2>1, <2>2 DEF Fault, Squashed, Delay
<1>3. CASE e2 = None
  <2>1. ~mem_unaligned_e2_q
    BY <1>3 DEF IInv, AccessPlaces
  <2>2. port # <<>> => memory # "dcache"
    BY <1>1, <1>3, AtMostOne, RequestType DEF IInv, PortState
  <2>3. memory \in {"dcache", "tcm"}
    BY DEF IInv, TypeOK
  <2>4. (port # <<>> => ack) /\ (ack => port # <<>>) /\ (ack => ~error)
    BY <2>2, <2>3 DEF Cycle, MemoryDrives
  <2>5. pending_lsu_e2_q => port # <<>>
    BY DEF IInv, PortState
  <2>. QED
    BY <1>1, <1>3, <2>1, <2>4, <2>5 DEF Fault, Squashed, Delay
<1>. QED
  BY <1>2, <1>3

(* While E2 waits nothing issues.  Its access is at the memory, and what   *)
(* the request registers hold stays there; or it is still in the request   *)
(* registers, and goes to the FIFO or stays.                               *)
LEMMA StalledCycle ==
    ASSUME IInv,
           NEW op \in Requests \cup {None},
           NEW accept \in BOOLEAN, NEW ack \in BOOLEAN, NEW error \in BOOLEAN,
           Cycle(op, accept, ack, error),
           PipeStall(ack)
    PROVE  /\ op = None /\ e2 # None /\ ~ack /\ ~mem_unaligned_e2_q
           /\ e1' = e1 /\ e2' = e2 /\ squash_e1_e2_q' = squash_e1_e2_q
           /\ \/ /\ port # <<>> /\ port[1] = e2 /\ fifo' = port /\ port' = port
                 /\ req' = req /\ ~Dummy(ack, error)
              \/ /\ port = <<>> /\ e1 = None /\ req = e2
                 /\ ~Delay(ack, error) /\ ~Fault(ack, error)
                 /\ IF Asks(accept, ack, error) \/ Dummy(ack, error)
                    THEN fifo' = <<e2>> /\ req' = None
                    ELSE fifo' = <<>> /\ req' = req /\ port' = <<>>
<1>1. e2 # None /\ ~ack /\ ~mem_unaligned_e2_q
  BY DEF PipeStall, Answer
<1>2. op = None
  BY IssueClear
<1>3. e1' = e1 /\ e2' = e2 /\ squash_e1_e2_q' = squash_e1_e2_q
  BY DEF Cycle, LsuCycle, Pipeline
<1>4. ~Fault(ack, error) /\ ~Answer(ack)
  BY <1>1 DEF Fault, Answer
<1>5. pending_lsu_e2_q <=> port # <<>>
  BY DEF IInv, PortState
<1>6. req' = IF Hold(accept, ack, error) THEN req ELSE None
  BY <1>2, <1>4 DEF Cycle, LsuCycle, RequestRegisters
<1>7. req = None \/ req.kind # "cache"
  BY <1>1 DEF IInv, CacheAlone
<1>8. CASE port # <<>>
  <2>1. port[1] = e2 /\ fifo = port
    BY <1>1, <1>8, E2Place
  <2>2. Delay(ack, error)
    BY <1>1, <1>5, <1>8 DEF Delay
  <2>3. ~Asks(accept, ack, error) /\ ~Dummy(ack, error)
    BY <1>7, <2>2 DEF Asks, Dummy, Requesting
  <2>4. req' = req
    BY <1>6, <1>7, <2>2 DEF Hold
  <2>. QED
    BY <1>1, <1>2, <1>3, <1>4, <1>8, <2>1, <2>3, <2>4, Queues
<1>9. CASE port = <<>>
  <2>1. fifo = <<>> /\ e1 = None /\ req = e2
    BY <1>1, <1>9, E2Place
  <2>2. ~Delay(ack, error)
    BY <1>5, <1>9 DEF Delay
  <2>3. Asks(accept, ack, error) \/ Dummy(ack, error) => ~Hold(accept, ack, error)
    BY <2>2 DEF Asks, Dummy, Hold, Requesting, Unaligned
  <2>4. ~(Asks(accept, ack, error) \/ Dummy(ack, error)) => Hold(accept, ack, error)
    BY <1>1, <1>7, <2>1, <2>2 DEF Asks, Dummy, Hold, Requesting, Unaligned
  <2>. QED
    BY <1>1, <1>2, <1>3, <1>4, <1>6, <1>9, <2>1, <2>2, <2>3, <2>4, Queues
<1>. QED
  BY <1>8, <1>9

(* Every access is still where its stage says when the stages do not move. *)
LEMMA PlacesStepStalled ==
    ASSUME IInv,
           NEW op \in Requests \cup {None},
           NEW accept \in BOOLEAN, NEW ack \in BOOLEAN, NEW error \in BOOLEAN,
           Cycle(op, accept, ack, error),
           PipeStall(ack)
    PROVE  AccessPlaces'
<1>1. AccessPlaces
  BY DEF IInv
<1>2. e2' \in Requests /\ e2'.kind # "cache"
  BY StalledCycle, RequestType DEF IInv, AccessPlaces, TypeOK, LsuTypeOK
<1>3. mem_unaligned_e2_q' = Dummy(ack, error)
  BY DEF Cycle, LsuCycle, DummyAnswer, Dummy
<1>4. pending_lsu_e2_q' => Asks(accept, ack, error) \/ pending_lsu_e2_q
  BY DEF Cycle, LsuCycle, Pending, Asks
<1>5. ~pending_lsu_e2_q <=> port = <<>>
  BY DEF IInv, PortState
<1>6. Dummy(ack, error) => ~Asks(accept, ack, error)
  BY DEF Dummy, Asks, Unaligned, Requesting
<1>7. <<e2>> # <<>> /\ <<e2>>[1] = e2
  BY <1>2, StalledCycle, Single
<1>8. CASE port # <<>>
  <2>1. fifo = port
    BY <1>8, StalledCycle, AtMostOne
  <2>. QED
    BY <1>1, <1>2, <1>3, <1>8, <2>1, StalledCycle DEF AccessPlaces
<1>9. CASE port = <<>>
  BY <1>1, <1>2, <1>3, <1>4, <1>5, <1>6, <1>7, <1>9, StalledCycle DEF AccessPlaces
<1>. QED
  BY <1>8, <1>9

(* When E2 does not wait: a failure empties the request registers, E1 and  *)
(* E2; otherwise E1 moves to E2 and takes its request to the FIFO, if the  *)
(* memory accepts it.                                                      *)
LEMMA MovingCycle ==
    ASSUME IInv,
           NEW op \in Requests \cup {None},
           NEW accept \in BOOLEAN, NEW ack \in BOOLEAN, NEW error \in BOOLEAN,
           Cycle(op, accept, ack, error),
           ~PipeStall(ack)
    PROVE  /\ e1' = IF op # None /\ op.kind # "cache" THEN op ELSE None
           /\ squash_e1_e2_q' => Fault(ack, error)
           /\ \/ /\ Fault(ack, error)
                 /\ op = None /\ req' = None /\ e2' = None /\ port' = <<>>
                 /\ ~Asks(accept, ack, error) /\ ~Dummy(ack, error)
              \/ /\ ~Fault(ack, error)
                 /\ e1 # None /\ req = e1 /\ e2' = e1 /\ (port = <<>> \/ ack)
                 /\ IF Asks(accept, ack, error) \/ Dummy(ack, error)
                    THEN fifo' = <<e1>> /\ req' = op
                    ELSE fifo' = <<>> /\ port' = <<>> /\ req' = req /\ op = None
              \/ /\ ~Fault(ack, error)
                 /\ e1 = None /\ e2' = None /\ ~Dummy(ack, error)
                 /\ req # None => req.kind = "cache"
                 /\ \/ req' = op /\ ~Hold(accept, ack, error)
                    \/ /\ req' = req /\ op = None
                       /\ Requesting(ack, error) /\ ~accept
<1>1. /\ e1' = IF op # None /\ op.kind # "cache" THEN op ELSE None
      /\ e2' = IF Squashed(ack, error) THEN None ELSE e1
      /\ squash_e1_e2_q' => Fault(ack, error)
  BY DEF Cycle, LsuCycle, Pipeline
<1>2. /\ op # None => ~Fault(ack, error) /\ ~Delay(ack, error) /\ ~Unaligned
      /\ op # None => (Requesting(ack, error) => accept)
  BY IssueClear
<1>3. /\ pending_lsu_e2_q <=> port # <<>>
      /\ ack => port # <<>> /\ ~mem_unaligned_e2_q
  BY AsksWhenIdle DEF IInv, PortState, Cycle
<1>4. req' = IF Fault(ack, error) THEN None
             ELSE IF Hold(accept, ack, error) THEN req ELSE op
  BY DEF Cycle, LsuCycle, RequestRegisters
<1>5. CASE Fault(ack, error)
  <2>1. op = None /\ req' = None
    BY <1>2, <1>4, <1>5
  <2>2. e2' = None
    BY <1>1, <1>5, E1Moves
  <2>3. CASE mem_unaligned_e2_q
    <3>1. req = None
      BY <2>3 DEF IInv, AccessPlaces
    <3>2. ~Asks(accept, ack, error) /\ ~Dummy(ack, error)
      BY <3>1 DEF Asks, Dummy, Requesting, Unaligned
    <3>3. port' = <<>>
      BY <2>3, <3>2, AtMostOne, Queues
    <3>. QED
      BY <1>1, <1>5, <2>1, <2>2, <3>2, <3>3
  <2>4. CASE ~mem_unaligned_e2_q
    <3>1. ack /\ error
      BY <1>5, <2>4 DEF Fault
    <3>2. Delay(ack, error) /\ memory = "dcache"
      BY <1>3, <3>1 DEF Delay, Cycle, MemoryDrives, IInv, TypeOK
    <3>3. req = None \/ req.kind # "cache"
      BY <1>3, <3>1, <3>2 DEF IInv, CacheAlone
    <3>4. ~Asks(accept, ack, error) /\ ~Dummy(ack, error)
      BY <3>2, <3>3 DEF Asks, Dummy, Requesting
    <3>5. port' = <<>>
      BY <3>1, <3>4, Queues
    <3>. QED
      BY <1>1, <1>5, <2>1, <2>2, <3>4, <3>5
  <2>. QED
    BY <2>3, <2>4
<1>6. CASE ~Fault(ack, error) /\ e1 # None
  <2>1. /\ req = e1 /\ ~Delay(ack, error) /\ ~Squashed(ack, error)
        /\ port = <<>> \/ ack
    BY <1>6, E1Moves
  <2>2. req.kind # "cache"
    BY <1>6, <2>1 DEF IInv, AccessPlaces
  <2>3. e2' = e1
    BY <1>1, <2>1
  <2>4. CASE Asks(accept, ack, error) \/ Dummy(ack, error)
    <3>1. ~Hold(accept, ack, error)
      BY <2>1, <2>4 DEF Asks, Dummy, Hold, Requesting, Unaligned
    <3>2. req' = op /\ fifo' = <<e1>>
      BY <1>4, <1>6, <2>1, <2>4, <3>1, Queues
    <3>. QED
      BY <1>1, <1>6, <2>1, <2>3, <2>4, <3>2
  <2>5. CASE ~(Asks(accept, ack, error) \/ Dummy(ack, error))
    <3>1. Hold(accept, ack, error)
      BY <1>6, <2>1, <2>2, <2>5 DEF Asks, Dummy, Hold, Requesting, Unaligned
    <3>2. req' = req
      BY <1>4, <1>6, <3>1
    <3>3. op = None
      BY <1>2, <2>1, <3>1 DEF Hold
    <3>4. ~mem_unaligned_e2_q
      BY <1>6, <2>1 DEF IInv, AccessPlaces
    <3>5. fifo' = <<>> /\ port' = <<>>
      BY <2>1, <2>5, <3>4, AtMostOne, Queues DEF Answer
    <3>. QED
      BY <1>1, <1>6, <2>1, <2>3, <2>5, <3>2, <3>3, <3>5
  <2>. QED
    BY <2>4, <2>5
<1>7. CASE ~Fault(ack, error) /\ e1 = None
  <2>1. req # None => req.kind = "cache"
    <3>1. e2 # None => fifo # <<>>
      BY E2Place DEF PipeStall, Answer, Cycle, MemoryDrives
    <3>. QED
      BY <1>7, <3>1 DEF IInv, AccessPlaces
  <2>2. ~Dummy(ack, error)
    BY <2>1, RequestType DEF Dummy, Unaligned, IInv, TypeOK, LsuTypeOK
  <2>3. Hold(accept, ack, error) => Requesting(ack, error) /\ ~accept
    BY <2>1 DEF Hold
  <2>. QED
    BY <1>1, <1>2, <1>4, <1>7, <2>1, <2>2, <2>3
<1>. QED
  BY <1>5, <1>6, <1>7

(* Every access is still where its stage says when the stages move on. *)
LEMMA PlacesStepMoving ==
    ASSUME IInv,
           NEW op \in Requests \cup {None},
           NEW accept \in BOOLEAN, NEW ack \in BOOLEAN, NEW error \in BOOLEAN,
           Cycle(op, accept, ack, error),
           ~PipeStall(ack)
    PROVE  AccessPlaces'
<1>1. /\ mem_unaligned_e2_q' = Dummy(ack, error)
      /\ pending_lsu_e2_q' => Asks(accept, ack, error) \/ (pending_lsu_e2_q /\ ~ack)
  BY DEF Cycle, LsuCycle, DummyAnswer, Pending, Dummy, Asks
<1>2. /\ pending_lsu_e2_q <=> port # <<>>
      /\ Dummy(ack, error) => ~Asks(accept, ack, error)
  BY DEF IInv, PortState, Dummy, Asks, Unaligned, Requesting
<1>3. e1 # None => /\ e1 \in Requests /\ e1.kind # "cache"
                   /\ <<e1>> # <<>> /\ <<e1>>[1] = e1
  BY Single DEF IInv, AccessPlaces, TypeOK, LsuTypeOK
<1>4. Dummy(ack, error) => op = None
  BY IssueClear DEF Dummy
<1>5. CASE Fault(ack, error)
  BY <1>1, <1>5, MovingCycle DEF AccessPlaces
<1>6. CASE ~Fault(ack, error) /\ e1 # None
  <2>1. /\ req = e1 /\ e2' = e1 /\ ~squash_e1_e2_q'
        /\ e1' = IF op # None /\ op.kind # "cache" THEN op ELSE None
        /\ port = <<>> \/ ack
    BY <1>6, MovingCycle
  <2>2. CASE Asks(accept, ack, error) \/ Dummy(ack, error)
    <3>1. fifo' = <<e1>> /\ req' = op
      BY <1>6, <2>2, MovingCycle
    <3>. QED
      BY <1>1, <1>2, <1>3, <1>4, <1>6, <2>1, <3>1 DEF AccessPlaces
  <2>3. CASE ~(Asks(accept, ack, error) \/ Dummy(ack, error))
    <3>1. fifo' = <<>> /\ req' = e1 /\ op = None
      BY <1>6, <2>1, <2>3, MovingCycle
    <3>. QED
      BY <1>1, <1>3, <1>6, <2>1, <2>3, <3>1 DEF AccessPlaces
  <2>. QED
    BY <2>2, <2>3
<1>7. CASE ~Fault(ack, error) /\ e1 = None
  BY <1>1, <1>7, MovingCycle DEF AccessPlaces
<1>. QED
  BY <1>5, <1>6, <1>7

(* pending_lsu_e2_q still says whether the memory owes an answer, and what *)
(* it owes is still for the access in E2, or for a cache operation.        *)
LEMMA PortStep ==
    ASSUME IInv,
           NEW op \in Requests \cup {None},
           NEW accept \in BOOLEAN, NEW ack \in BOOLEAN, NEW error \in BOOLEAN,
           Cycle(op, accept, ack, error)
    PROVE  PortState'
<1>1. /\ pending_lsu_e2_q' <=>
            (Asks(accept, ack, error) \/ (pending_lsu_e2_q /\ ~ack))
      /\ memory' = memory
  BY DEF Cycle, LsuCycle, Pending, Asks
<1>2. pending_lsu_e2_q <=> port # <<>>
  BY DEF IInv, PortState
<1>3. Asks(accept, ack, error) =>
         /\ req \in Requests /\ ~req.unaligned
         /\ <<req>> # <<>> /\ Len(<<req>>) = 1 /\ <<req>>[1] = req
  BY AsksWhenIdle, Single DEF Cycle
<1>4. port' = IF Asks(accept, ack, error) THEN <<req>>
              ELSE IF ack THEN <<>> ELSE port
  BY Queues
<1>5. /\ pending_lsu_e2_q' <=> port' # <<>>
      /\ Len(port') <= 1
  <2>1. Len(<<>>) = 0
    BY EmptySeq
  <2>2. pending_lsu_e2_q' <=> port' # <<>>
    BY <1>1, <1>2, <1>3, <1>4
  <2>3. CASE Asks(accept, ack, error)
    BY <1>3, <1>4, <2>2, <2>3
  <2>4. CASE ~Asks(accept, ack, error)
    <3>1. port' = <<>> \/ port' = port
      BY <1>4, <2>4
    <3>. QED
      BY <2>1, <2>2, <3>1, AtMostOne, SMT
  <2>. QED
    BY <2>2, <2>3, <2>4
<1>. SUFFICES ASSUME port' # <<>>
              PROVE  /\ ~port'[1].unaligned
                     /\ port'[1].kind # "cache" => e2' = port'[1]
                     /\ port'[1].kind = "cache" => e2' = None
                     /\ port'[1].kind = "cache" /\ memory' = "dcache" => req' = None
  BY <1>5 DEF PortState
<1>6. port # <<>> =>
          /\ ~port[1].unaligned
          /\ port[1].kind # "cache" => e2 = port[1]
          /\ port[1].kind = "cache" => e2 = None
          /\ port[1].kind = "cache" /\ memory = "dcache" => req = None
  BY DEF IInv, PortState
<1>7. CASE PipeStall(ack)
  <2>1. e2 # None /\ e2' = e2 /\ e2.kind # "cache"
    BY <1>7, StalledCycle DEF IInv, AccessPlaces
  <2>2. CASE port # <<>>
    BY <1>6, <1>7, <2>1, <2>2, StalledCycle
  <2>3. CASE port = <<>>
    <3>1. Asks(accept, ack, error) /\ req = e2
      BY <1>4, <1>7, <2>3, StalledCycle
    <3>. QED
      BY <1>3, <1>4, <2>1, <3>1
  <2>. QED
    BY <2>2, <2>3
<1>8. CASE ~PipeStall(ack)
  <2>1. ~Fault(ack, error)
    BY <1>8, MovingCycle
  <2>2. CASE e1 # None
    <3>1. req = e1 /\ e2' = e1 /\ (port = <<>> \/ ack) /\ e1.kind # "cache"
      BY <1>8, <2>1, <2>2, MovingCycle DEF IInv, AccessPlaces
    <3>2. Asks(accept, ack, error)
      BY <1>4, <3>1
    <3>. QED
      BY <1>3, <1>4, <3>1, <3>2
  <2>3. CASE e1 = None
    <3>1. /\ e2' = None /\ (req # None => req.kind = "cache")
          /\ \/ req' = op
             \/ req' = req /\ Requesting(ack, error) /\ ~accept
      BY <1>8, <2>1, <2>3, MovingCycle
    <3>2. CASE Asks(accept, ack, error)
      <4>1. req.kind = "cache" /\ req # None /\ accept
        BY <1>3, <3>1, <3>2, RequestType DEF Asks
      <4>2. memory = "dcache" => csr_wait = 3
        BY <4>1 DEF IInv, CacheAlone
      <4>3. memory = "dcache" => op = None
        BY <4>2, IssueClear
      <4>. QED
        BY <1>1, <1>3, <1>4, <3>1, <3>2, <4>1, <4>3
    <3>3. CASE ~Asks(accept, ack, error)
      <4>1. port' = port /\ ~ack
        BY <1>4, <3>3
      <4>2. ~mem_unaligned_e2_q
        BY <4>1, AtMostOne
      <4>3. e2 = None
        BY <1>8, <4>1, <4>2 DEF PipeStall, Answer
      <4>4. port[1].kind = "cache"
        BY <1>6, <4>1, <4>3, AtMostOne, RequestType
      <4>5. op = None
        BY <1>2, <4>1, IssueClear DEF Delay
      <4>. QED
        BY <1>1, <1>6, <3>1, <4>1, <4>4, <4>5
    <3>. QED
      BY <3>2, <3>3
  <2>. QED
    BY <2>2, <2>3
<1>. QED
  BY <1>7, <1>8

(* A cache operation in the request registers still has the unit to itself. *)
LEMMA CacheStep ==
    ASSUME IInv,
           NEW op \in Requests \cup {None},
           NEW accept \in BOOLEAN, NEW ack \in BOOLEAN, NEW error \in BOOLEAN,
           Cycle(op, accept, ack, error)
    PROVE  CacheAlone'
<1>. SUFFICES ASSUME req' # None, req'.kind = "cache"
              PROVE  /\ e1' = None /\ e2' = None
                     /\ memory' = "dcache" => csr_wait' = 3 /\ port' = <<>>
                     /\ port' # <<>> => port'[1].kind = "cache"
  BY DEF CacheAlone
<1>1. memory' = memory /\ memory \in {"dcache", "tcm"}
  BY DEF Cycle, IInv, TypeOK
<1>2. port' = IF Asks(accept, ack, error) THEN <<req>>
              ELSE IF ack THEN <<>> ELSE port
  BY Queues
<1>3. ~PipeStall(ack)
  <2>1. req # None => (e2 # None => req.kind # "cache")
    BY DEF IInv, CacheAlone
  <2>. QED
    BY <2>1, StalledCycle
<1>4. CASE req' = req /\ e1 = None
  <2>1. ~Fault(ack, error)
    BY <1>3, MovingCycle
  <2>2. \/ req' = op /\ ~Hold(accept, ack, error)
        \/ op = None /\ Requesting(ack, error) /\ ~accept
    BY <1>3, <1>4, <2>1, MovingCycle
  <2>3. memory = "dcache" => csr_wait = 3
    BY <1>4 DEF IInv, CacheAlone
  <2>4. req' = op => memory = "tcm"
    BY <1>1, <2>3, IssueClear
  <2>5. Requesting(ack, error) /\ ~accept => memory = "tcm"
    BY <1>1, <1>4 DEF Cycle, MemoryDrives
  <2>6. memory = "tcm" /\ (ack <=> port # <<>>)
    BY <1>1, <2>2, <2>4, <2>5 DEF Cycle, MemoryDrives
  <2>7. Asks(accept, ack, error) => <<req>>[1] = req
    BY AsksWhenIdle, Single DEF Cycle
  <2>8. e1' = None /\ e2' = None
    BY <1>3, <1>4, <2>1, <2>2, MovingCycle
  <2>. QED
    BY <1>1, <1>2, <1>4, <2>6, <2>7, <2>8
<1>5. CASE req' # req \/ e1 # None
  <2>1. ~Fault(ack, error)
    BY <1>3, MovingCycle
  <2>2. req' = op
    <3>1. e1 # None => req = e1 /\ req.kind # "cache"
      BY DEF IInv, AccessPlaces
    <3>. QED
      BY <1>3, <1>5, <2>1, <3>1, MovingCycle
  <2>3. e1 = None /\ csr_wait = 0 /\ ~Delay(ack, error)
    BY <2>2, IssueClear
  <2>4. e1' = None /\ e2' = None
    BY <1>3, <2>1, <2>2, <2>3, MovingCycle
  <2>5. memory = "dcache" => csr_wait' = 3
    BY <2>2 DEF Cycle, LsuCycle, Pipeline
  <2>6. port = <<>> \/ ack
    BY <2>3 DEF Delay, IInv, PortState
  <2>7. req # None => req.kind = "cache" /\ memory = "tcm"
    BY <1>1, <1>3, <2>1, <2>3, MovingCycle DEF IInv, CacheAlone
  <2>8. Asks(accept, ack, error) => req # None /\ <<req>>[1] = req
    BY AsksWhenIdle, RequestType, Single DEF Cycle
  <2>. QED
    BY <1>1, <1>2, <2>4, <2>5, <2>6, <2>7, <2>8
<1>. QED
  BY <1>4, <1>5

(* Every clock edge keeps it, whatever the pipeline issues and the memory  *)
(* drives.                                                                 *)
THEOREM StepInvariant == IInv /\ [Next]_vars => IInv'
<1>. SUFFICES ASSUME IInv, [Next]_vars PROVE IInv'
  OBVIOUS
<1>1. CASE Next
  <2>1. PICK op \in Requests \cup {None}, accept \in BOOLEAN, ack \in BOOLEAN,
             error \in BOOLEAN : Cycle(op, accept, ack, error)
    BY <1>1 DEF Next
  <2>2. AccessPlaces'
    BY <2>1, PlacesStepStalled, PlacesStepMoving
  <2>. QED
    BY <2>1, <2>2, TypeStep, FifoStep, PortStep, CacheStep DEF IInv
<1>2. CASE UNCHANGED vars
  BY <1>2 DEF vars, IInv, TypeOK, LsuTypeOK, FifoTracksPort, AccessPlaces,
              PortState, CacheAlone
<1>. QED
  BY <1>1, <1>2

(* So every reachable state of the unit, its pipeline stages and the memory *)
(* port satisfies it.                                                      *)
THEOREM Invariance == Spec => []IInv
  BY InitInvariant, StepInvariant, PTL DEF Spec

-----------------------------------------------------------------------------
(* The properties of LsuPort. *)

(* Every register of the unit keeps its type; the FIFO and the port keep   *)
(* their bound.                                                            *)
THEOREM TypeCorrect == Spec => []TypeOK
<1>1. IInv => TypeOK
  BY DEF IInv
<1>. QED
  BY <1>1, Invariance, PTL

(* The request FIFO never overflows or runs empty under an answer          *)
(* (u_lsu_request of riscv_lsu.v).                                         *)
THEOREM FifoSafe == Spec => []FifoTracksPort
<1>1. IInv => FifoTracksPort
  BY DEF IInv
<1>. QED
  BY <1>1, Invariance, PTL

(* A load in E2 is never completed with the answer of another request.     *)
THEOREM AnswersMatch == Spec => []AnswerIsOwn
<1>1. IInv => AnswerIsOwn
  BY DEF IInv, AccessPlaces, AnswerIsOwn
<1>. QED
  BY <1>1, Invariance, PTL

(* The request behind a failed access is dropped before the memory sees it. *)
THEOREM NoOrphanRequest == Spec => []OnlyLiveRequests
<1>1. IInv => OnlyLiveRequests
  BY DEF IInv, AccessPlaces, OnlyLiveRequests
<1>. QED
  BY <1>1, Invariance, PTL

(* The memory never owes two answers. *)
THEOREM OneAtATime == Spec => []OneAccessAtATime
<1>1. IInv => OneAccessAtATime
  BY DEF IInv, PortState, OneAccessAtATime
<1>. QED
  BY <1>1, Invariance, PTL

=============================================================================
