--------------------------- MODULE DcacheAxiProofs --------------------------
(***************************************************************************)
(* Proofs about DcacheAxi, for every memory, every burst length and every  *)
(* choice of the delays: no data without its command, bounded queues, and  *)
(* the bridge with its memory implements the port the data cache is proved *)
(* against (PmemPort).                                                     *)
(*                                                                         *)
(* All the state but the contents is a function of the transfer and of     *)
(* three counters: the words the client has handed over (taken), those of  *)
(* them the bridge has sent to the widget (Sent) and those the memory has  *)
(* taken (Put).  The invariant says so; the counters then explain every    *)
(* register and every entry of the queues.                                 *)
(***************************************************************************)
EXTENDS DcacheAxi, SequenceTheorems, WellFoundedInduction, TLAPS

Transfers == [kind : {"rd", "wr"}, addr : Nat, len : Nat, taken : Nat, answered : Nat]
Commands  == [addr : Nat, len : Nat, burst : {"incr"}]
BeatSet   == [kind : {"rd", "wr"}, addr : Nat, len : Nat, data : Contents \cup {None}]
Answers   == [data : Contents, last : BOOLEAN]

(* A transfer is for a line or for a single word.                          *)
WellFormed(x) ==
    /\ x \in Transfers
    /\ \/ x.addr \in Lines /\ x.len = LineWords - 1
       \/ x.addr \in Singles /\ x.len = 0

(* The widget and the write side of the memory have nothing in hand.       *)
NoWrite ==
    /\ burst_cnt_q = 0 /\ req_cnt_q = 0
    /\ ~valid_q /\ buf_q = None /\ ~awvalid_q
    /\ axi_wr_q = <<>> /\ axi_wr_req = None

NoRead == axi_rd_q = <<>> /\ axi_o.r = None

Idle ==
    /\ xfer = None
    /\ req_fifo = <<>> /\ resp_outstanding_q = 0
    /\ NoWrite /\ ~axi_o.b /\ NoRead

-----------------------------------------------------------------------------
(* A read: its beat waits in the FIFO, or the memory has all the words that *)
(* are not shown yet.                                                       *)

Shown(x) == IF axi_o.r = None THEN x.answered ELSE x.answered + 1

Waiting(x) ==
    /\ req_fifo = <<Beat("rd", x.addr, x.len, None)>> /\ resp_outstanding_q = 0
    /\ x.answered = 0 /\ NoRead

(* The words of a read but the first n are those in a queue.               *)
Remain(x, n, q) ==
    /\ Len(q) = x.len + 1 - n
    /\ \A i \in 1 .. Len(q) : q[i] = [addr |-> x.addr + n + i - 1, last |-> n + i = x.len + 1]

Serving(x) ==
    /\ req_fifo = <<>> /\ resp_outstanding_q = 1
    /\ x.answered <= x.len
    /\ Remain(x, Shown(x), axi_rd_q)
    /\ axi_o.r # None => axi_o.r \in Answers /\ (axi_o.r.last <=> Shown(x) = x.len + 1)

Reads(x) ==
    /\ x.kind = "rd" /\ x.taken = 1
    /\ NoWrite /\ ~axi_o.b
    /\ Waiting(x) \/ Serving(x)

-----------------------------------------------------------------------------
(* A write. *)

Sent(x) == x.taken - Len(req_fifo)
Put(x)  == IF valid_q THEN Sent(x) - 1 ELSE Sent(x)

(* Word k of the transfer, from 1 on, with its data.                       *)
BeatOf(x, k, data) ==
    Beat("wr", IF k = 1 THEN x.addr ELSE 0, IF k = 1 THEN x.len ELSE 0, data)

(* The counters of dcache_axi.v and of the widget after s words.           *)
Counts(x, s) ==
    /\ resp_outstanding_q = IF s = x.len + 1 THEN 1 ELSE 0
    /\ burst_cnt_q = IF s = 0 \/ s > x.len THEN 0 ELSE x.len - s
    /\ req_cnt_q = IF s = 0 THEN 0 ELSE x.len + 1 - s

Fifo(x, s) ==
    \A i \in 1 .. Len(req_fifo) :
        \E data \in Contents : req_fifo[i] = BeatOf(x, s + i, data)

(* Only the first word is ever in the skid buffer, its command taken.      *)
Skid(x, s) ==
    IF valid_q
    THEN /\ s = 1 /\ awvalid_q
         /\ \E data \in Contents :
               buf_q = [beat |-> BeatOf(x, 1, data), last |-> x.len = 0]
    ELSE buf_q = None /\ (awvalid_q <=> s \in 1 .. x.len)

(* The memory has the command until the last word, at the next address,    *)
(* and shows the answer when it has written them all.                      *)
Memory(x, p) ==
    /\ axi_wr_req = IF awvalid_q THEN [addr |-> x.addr + p, len |-> x.len, burst |-> "incr"]
                    ELSE None
    /\ Len(axi_wr_q) <= p
    /\ \A i \in 1 .. Len(axi_wr_q) :
          \E data \in Contents :
              axi_wr_q[i] = [addr |-> x.addr + p - Len(axi_wr_q) + i - 1, data |-> data,
                             last |-> p - Len(axi_wr_q) + i = x.len + 1]
    /\ axi_o.b <=> p - Len(axi_wr_q) = x.len + 1

Writes(x) ==
    /\ x.kind = "wr" /\ x.answered = 0 /\ x.taken \in 1 .. x.len + 1
    /\ Len(req_fifo) <= x.taken
    /\ NoRead
    /\ Counts(x, Sent(x)) /\ Fifo(x, Sent(x)) /\ Skid(x, Sent(x)) /\ Memory(x, Put(x))

-----------------------------------------------------------------------------
Types ==
    /\ memory \in [0 .. Size - 1 -> Contents]
    /\ req_fifo \in Seq(BeatSet) /\ Len(req_fifo) <= 2
    /\ {valid_q, awvalid_q, wvalid_q, wlast_q} \subseteq BOOLEAN
    /\ axi_rd_q \in Seq([addr : Nat, last : BOOLEAN])
    /\ axi_wr_q \in Seq([addr : Nat, data : Contents, last : BOOLEAN])
    /\ axi_o \in [arready : BOOLEAN, awready : BOOLEAN, wready : BOOLEAN,
                  r : Answers \cup {None}, b : BOOLEAN]

(* A data word is taken with its command or after it.                      *)
Ready ==
    /\ ~wvalid_q
    /\ axi_o.awready => axi_wr_req = None
    /\ axi_o.wready => axi_o.awready \/ axi_wr_req # None

IInv ==
    /\ Types
    /\ Ready
    /\ Idle \/ (WellFormed(xfer) /\ (Reads(xfer) \/ Writes(xfer)))

-----------------------------------------------------------------------------
(* Numbers, sequences and None. *)

(* A set of natural numbers that is not empty has a least element.         *)
LEMMA Least ==
    ASSUME NEW T \in SUBSET Nat, T # {}
    PROVE  \E n \in T : \A k \in T : n <= k
<1> DEFINE less == {p \in Nat \X Nat : p[1] < p[2]}
<1>1. IsWellFoundedOn(OpToRel(<,Nat), Nat)
  BY NatLessThanWellFounded
<1>2. OpToRel(<,Nat) = less
  BY Zenon DEF OpToRel
<1>3. IsWellFoundedOn(less, Nat)
  BY <1>1, <1>2
<1>4. \E n \in T : \A k \in T : <<k, n>> \notin less
  <2> HIDE DEF less
  <2> QED
    BY <1>3, WFMin
<1>5. \A k, n \in Nat : k < n => <<k, n>> \in less
  OBVIOUS
<1>6. PICK n \in T : \A k \in T : <<k, n>> \notin less
  BY <1>4
<1>7. \A k \in T : ~(k < n)
  <2> HIDE DEF less
  <2> QED
    BY <1>5, <1>6
<1> HIDE DEF less
<1> QED
  BY <1>7

(* The loop that unrolls a read command (lines 22 to 38 of tb_axi4_mem.cpp)*)
(* goes through consecutive addresses: a wrong one would be a least one.   *)
LEMMA UnrollIncr ==
    ASSUME NEW cmd, cmd.len \in Nat, cmd.addr \in Nat, cmd.burst = "incr"
    PROVE  Unroll(cmd) = [i \in 1 .. cmd.len + 1 |-> cmd.addr + i - 1]
<1> DEFINE Step(at) == [i \in 0 .. cmd.len |->
                          IF i = 0 THEN cmd.addr ELSE NextAddr(at[i - 1], cmd.burst, cmd.len)]
           at == CHOOSE f : f = Step(f)
           sum == [i \in 0 .. cmd.len |-> cmd.addr + i]
<1>0. \A a : NextAddr(a, cmd.burst, cmd.len) = a + 1
  BY DEF NextAddr
<1>1. sum = Step(sum)
  BY <1>0, SMTT(30)
<1>2. at = Step(at)
  <2> HIDE DEF Step, sum
  <2> QED
    BY <1>1
<1>3. at = [i \in 0 .. cmd.len |-> IF i = 0 THEN cmd.addr ELSE at[i - 1] + 1]
  BY <1>0, <1>2
<1> HIDE DEF at
<1>4. \A i \in 0 .. cmd.len : at[i] = cmd.addr + i
  <2> DEFINE bad == {i \in 0 .. cmd.len : at[i] # cmd.addr + i}
  <2>1. SUFFICES ASSUME bad # {} PROVE FALSE
    BY <2>1
  <2>2. bad \in SUBSET Nat
    OBVIOUS
  <2>3. PICK n \in bad : \A k \in bad : n <= k
    <3> HIDE DEF bad
    <3> QED BY <2>1, <2>2, Least
  <2>4. at[0] = cmd.addr
    BY <1>3
  <2>5. n # 0 /\ n \in 0 .. cmd.len /\ n - 1 \in 0 .. cmd.len /\ n - 1 \notin bad
    BY <2>3, <2>4
  <2>6. at[n] = at[n - 1] + 1
    BY <1>3, <2>5
  <2> QED
    BY <2>3, <2>5, <2>6
<1>5. Unroll(cmd) = [i \in 1 .. cmd.len + 1 |-> at[i - 1]]
  BY DEF Unroll, at
<1> QED
  BY <1>4, <1>5

(* Nothing the bridge handles is None.                                     *)
LEMMA NotNone ==
    /\ None \notin Transfers /\ None \notin BeatSet /\ None \notin Commands
    /\ None \notin Answers
    /\ None \notin [data : Contents \cup {None}, error : BOOLEAN]
    /\ None \notin [kind : {"rd", "wr"}, at : Nat, todo : Seq(Nat)]
    /\ None \notin [kind : {"rd", "wr"}, burst : Seq(Nat), data : Contents \cup {None}]
BY AxiAssumption DEF Transfers, BeatSet, Commands, Answers

(* A transfer stays in the memory region, and its length is that of a      *)
(* burst.                                                                  *)
LEMMA InRegion ==
    ASSUME NEW x, WellFormed(x)
    PROVE  /\ x \in Transfers /\ x # None
           /\ x.addr \in Nat /\ x.len \in 0 .. LineWords - 1
           /\ x.taken \in Nat /\ x.answered \in Nat
           /\ x.addr + x.len < Size
<1>1. x \in Transfers /\ x # None
  BY NotNone DEF WellFormed
<1>2. x.kind \in {"rd", "wr"} /\ x.addr \in Nat /\ x.len \in Nat /\ x.taken \in Nat /\ x.answered \in Nat
  BY <1>1 DEF Transfers
<1>3. Size \in Nat /\ LineWords \in Nat \ {0}
  BY AxiAssumption, AxiMemAssumption
<1>4. CASE x.addr \in Lines /\ x.len = LineWords - 1
  <2>1. x.addr \in 0 .. Size - LineWords
    BY <1>4, AxiAssumption
  <2> QED
    BY <1>1, <1>2, <1>3, <1>4, <2>1
<1>5. CASE x.addr \in Singles /\ x.len = 0
  <2>1. x.addr \in 0 .. Size - 1
    BY <1>5, AxiAssumption
  <2> QED
    BY <1>1, <1>2, <1>3, <1>5, <2>1
<1> QED
  BY <1>4, <1>5 DEF WellFormed

-----------------------------------------------------------------------------
(* The client. *)

(* What is left of the transfer: the answer that is shown counts.          *)
LEMMA PendingIs ==
    IInv =>
       /\ xfer = None => Pending = None
       /\ xfer # None => WellFormed(xfer) /\ (Reads(xfer) \/ Writes(xfer))
       /\ xfer # None /\ Reads(xfer) =>
             /\ Pending = IF Shown(xfer) = xfer.len + 1 THEN None
                          ELSE [xfer EXCEPT !.answered = Shown(xfer)]
             /\ Shown(xfer) \in 0 .. xfer.len + 1
             /\ xfer.answered \in 0 .. xfer.len
       /\ xfer # None /\ Writes(xfer) => Pending = IF axi_o.b THEN None ELSE xfer
<1> SUFFICES ASSUME IInv
             PROVE  /\ xfer = None => Pending = None
                    /\ xfer # None => WellFormed(xfer) /\ (Reads(xfer) \/ Writes(xfer))
                    /\ xfer # None /\ Reads(xfer) =>
                          /\ Pending = IF Shown(xfer) = xfer.len + 1 THEN None
                                       ELSE [xfer EXCEPT !.answered = Shown(xfer)]
                          /\ Shown(xfer) \in 0 .. xfer.len + 1
                          /\ xfer.answered \in 0 .. xfer.len
                    /\ xfer # None /\ Writes(xfer) => Pending = IF axi_o.b THEN None ELSE xfer
  OBVIOUS
<1>1. xfer = None => Pending = None
  BY DEF Pending, Answered
<1>2. xfer # None => WellFormed(xfer) /\ (Reads(xfer) \/ Writes(xfer))
  BY DEF IInv, Idle
<1>3. ASSUME xfer # None, Reads(xfer)
      PROVE  /\ Pending = IF Shown(xfer) = xfer.len + 1 THEN None
                          ELSE [xfer EXCEPT !.answered = Shown(xfer)]
             /\ Shown(xfer) \in 0 .. xfer.len + 1
             /\ xfer.answered \in 0 .. xfer.len
  <2>1. /\ xfer \in Transfers /\ xfer.answered \in Nat /\ xfer.len \in Nat
        /\ xfer.kind = "rd" /\ ~axi_o.b
    BY <1>2, <1>3, InRegion DEF Reads
  <2>2. xfer.answered \in 0 .. xfer.len
    BY <1>3, <2>1 DEF Reads, Waiting, Serving
  <2>3. InportAck <=> axi_o.r # None
    BY <2>1 DEF InportAck
  <2>4. Replies(xfer) = xfer.len + 1
    BY <2>1 DEF Replies
  <2>5. CASE axi_o.r = None
    <3>1. Answered(xfer) = xfer /\ Shown(xfer) = xfer.answered
      BY <1>3, <2>3, <2>5 DEF Answered, Shown
    <3>2. [xfer EXCEPT !.answered = xfer.answered] = xfer
      BY <2>1 DEF Transfers
    <3>3. Pending = xfer
      BY <2>1, <2>2, <2>4, <3>1 DEF Pending
    <3> QED
      BY <2>1, <2>2, <3>1, <3>2, <3>3
  <2>6. CASE axi_o.r # None
    <3> DEFINE x == [xfer EXCEPT !.answered = @ + 1]
    <3>1. Answered(xfer) = x /\ Shown(xfer) = xfer.answered + 1
      BY <1>3, <2>3, <2>6 DEF Answered, Shown
    <3>2. x \in Transfers /\ x.answered = xfer.answered + 1 /\ x.kind = xfer.kind /\ x.len = xfer.len
      BY <2>1 DEF Transfers
    <3>3. x # None /\ Replies(x) = xfer.len + 1
      BY <2>1, <3>2, NotNone DEF Replies
    <3>4. x = [xfer EXCEPT !.answered = Shown(xfer)]
      BY <3>1
    <3> HIDE DEF x
    <3>5. Pending = IF x.answered = xfer.len + 1 THEN None ELSE x
      BY <3>1, <3>3 DEF Pending
    <3> QED
      BY <2>1, <2>2, <3>1, <3>2, <3>4, <3>5
  <2> QED
    BY <2>5, <2>6
<1>4. ASSUME xfer # None, Writes(xfer)
      PROVE  Pending = IF axi_o.b THEN None ELSE xfer
  <2>1. /\ xfer \in Transfers /\ xfer.answered = 0 /\ xfer.kind = "wr"
        /\ axi_o.r = None
    BY <1>2, <1>4, InRegion DEF Writes, NoRead
  <2>2. InportAck <=> axi_o.b
    BY <2>1 DEF InportAck
  <2>3. CASE axi_o.b
    <3> DEFINE x == [xfer EXCEPT !.answered = @ + 1]
    <3>1. Answered(xfer) = x
      BY <1>4, <2>2, <2>3 DEF Answered
    <3>2. x.answered = 1 /\ x.kind = "wr"
      BY <2>1 DEF Transfers
    <3> HIDE DEF x
    <3> QED
      BY <2>3, <3>1, <3>2 DEF Pending, Replies
  <2>4. CASE ~axi_o.b
    <3>1. Answered(xfer) = xfer
      BY <2>2, <2>4 DEF Answered
    <3> QED
      BY <2>1, <2>4, <3>1 DEF Pending, Replies
  <2> QED
    BY <2>3, <2>4
<1> QED
  BY <1>1, <1>2, <1>3, <1>4

(* The word the bridge takes from the client, or None.                     *)
Taken(beat) == IF InportAccept THEN beat ELSE None

(* The transfer that begins with a beat. *)
Begun(x, beat) ==
    /\ WellFormed(x) /\ x.taken = 1 /\ x.answered = 0
    /\ \/ x.kind = "rd" /\ beat = Beat("rd", x.addr, x.len, None)
       \/ x.kind = "wr" /\ \E data \in Contents : beat = BeatOf(x, 1, data)

Continues(x, beat) ==
    /\ x.kind = "wr" /\ x.taken <= x.len
    /\ \E data \in Contents : beat = BeatOf(x, x.taken + 1, data)

(* The client pauses or is refused, begins a transfer when none is under   *)
(* way, or hands over the next word of a write.                            *)
Plays(beat) ==
    \/ Taken(beat) = None /\ xfer' = Pending
    \/ Taken(beat) = beat /\ Pending = None /\ Begun(xfer', beat)
    \/ /\ Taken(beat) = beat /\ xfer # None /\ Pending = xfer /\ Writes(xfer)
       /\ Continues(xfer, beat)
       /\ xfer' = [xfer EXCEPT !.taken = @ + 1]

(* A transfer that may begin has nothing taken and nothing answered.       *)
LEMMA BeginsType ==
    ASSUME NEW x \in Begins
    PROVE  /\ x \in Transfers /\ x.taken = 0 /\ x.answered = 0
           /\ \/ x.addr \in Lines /\ x.len = LineWords - 1
              \/ x.addr \in Singles /\ x.len = 0
<1>1. LineWords - 1 \in Nat /\ Lines \subseteq Nat /\ Singles \subseteq Nat
  BY AxiAssumption, AxiMemAssumption
<1>2. CASE x \in [kind : {"rd", "wr"}, addr : Lines, len : {LineWords - 1}, taken : {0}, answered : {0}]
  <2>1. x.kind \in {"rd", "wr"}
    BY <1>2
  <2>2. x.addr \in Lines /\ x.addr \in Nat
    <3>1. x.addr \in Lines
      BY <1>2
    <3> QED
      BY <1>1, <3>1
  <2>3. x.len = LineWords - 1
    BY <1>2
  <2>4. x.taken = 0 /\ x.answered = 0
    BY <1>2
  <2>5. x = [kind |-> x.kind, addr |-> x.addr, len |-> x.len, taken |-> x.taken,
             answered |-> x.answered]
    BY <1>2
  <2>6. x.len \in Nat /\ x.taken \in Nat /\ x.answered \in Nat
    BY <1>1, <2>3, <2>4
  <2> QED
    BY <2>1, <2>2, <2>3, <2>4, <2>5, <2>6, Zenon DEF Transfers
<1>3. CASE x \in [kind : {"rd", "wr"}, addr : Singles, len : {0}, taken : {0}, answered : {0}]
  <2>1. x.kind \in {"rd", "wr"}
    BY <1>3
  <2>2. x.addr \in Singles /\ x.addr \in Nat
    <3>1. x.addr \in Singles
      BY <1>3
    <3> QED
      BY <1>1, <3>1
  <2>3. x.len = 0
    BY <1>3
  <2>4. x.taken = 0 /\ x.answered = 0
    BY <1>3
  <2>5. x = [kind |-> x.kind, addr |-> x.addr, len |-> x.len, taken |-> x.taken,
             answered |-> x.answered]
    BY <1>3
  <2>6. x.len \in Nat /\ x.taken \in Nat /\ x.answered \in Nat
    BY <1>1, <2>3, <2>4
  <2> QED
    BY <2>1, <2>2, <2>3, <2>4, <2>5, <2>6, Zenon DEF Transfers
<1> QED
  BY <1>2, <1>3 DEF Begins

(* Every step is one of these, with the bridge, the widget and the memory. *)
LEMMA Decode ==
    ASSUME IInv, Next
    PROVE  \E beat, delay : /\ delay \in Delays
                            /\ Plays(beat)
                            /\ Bridge(beat) /\ Widget /\ Turn(Ar, Aw, Wd, delay)
<1>1. PICK offer \in Offers, delay \in Delays : Cycle(offer.go, offer.data, delay)
  BY DEF Next
<1> DEFINE go == offer.go  data == offer.data  beat == Driven(go, data)
<1>2. Client(go, data) /\ Bridge(beat) /\ Widget /\ Turn(Ar, Aw, Wd, delay)
  BY <1>1 DEF Cycle
<1>3. \/ go = None
      \/ go # None /\ go.kind = "rd" /\ data = None
      \/ go # None /\ go.kind = "wr" /\ data \in Contents
  BY DEF Offers
<1> HIDE DEF go, data
<1>4. Plays(beat)
  <2>1. CASE go = None
    BY <1>2, <2>1 DEF Client, Driven, Taken, Plays
  <2>2. CASE go # None /\ ~InportAccept
    BY <1>2, <2>2 DEF Client, Taken, Plays
  <2>3. CASE go # None /\ InportAccept
    <3>1. /\ go \in (IF Pending = None THEN Begins ELSE {Pending})
          /\ go.taken < Beats(go)
          /\ xfer' = [go EXCEPT !.taken = @ + 1]
          /\ Taken(beat) = beat
      BY <1>2, <2>3 DEF Client, Taken
    <3>2. CASE Pending = None
      <4>1. go \in Begins
        BY <3>1, <3>2
      <4>2. /\ go \in Transfers /\ go.taken = 0 /\ go.answered = 0
            /\ \/ go.addr \in Lines /\ go.len = LineWords - 1
               \/ go.addr \in Singles /\ go.len = 0
        BY <4>1, BeginsType
      <4>3. /\ xfer' \in Transfers /\ xfer'.taken = 1 /\ xfer'.answered = 0
            /\ xfer'.addr = go.addr /\ xfer'.len = go.len /\ xfer'.kind = go.kind
        BY <3>1, <4>2 DEF Transfers
      <4>4. WellFormed(xfer')
        BY <4>2, <4>3 DEF WellFormed
      <4>5. beat = Beat(go.kind, go.addr, go.len, IF go.kind = "wr" THEN data ELSE None)
        BY <2>3, <4>2 DEF Driven
      <4>6. Begun(xfer', beat)
        <5>1. CASE go.kind = "rd"
          BY <4>3, <4>4, <4>5, <5>1 DEF Begun
        <5>2. CASE go.kind = "wr"
          <6>1. beat = BeatOf(xfer', 1, data) /\ data \in Contents
            BY <1>3, <2>3, <4>3, <4>5, <5>2 DEF BeatOf
          <6> QED
            BY <4>3, <4>4, <5>2, <6>1 DEF Begun
        <5> QED
          BY <1>3, <2>3, <5>1, <5>2
      <4> QED
        BY <3>1, <3>2, <4>6 DEF Plays
    <3>3. CASE Pending # None
      <4>1. go = Pending /\ xfer # None
        BY <3>1, <3>3, PendingIs
      <4>2. CASE Reads(xfer)
        <5>1. go = [xfer EXCEPT !.answered = Shown(xfer)] /\ xfer \in Transfers
          BY <3>3, <4>1, <4>2, PendingIs, InRegion
        <5>2. go.kind = "rd" /\ go.taken = 1
          BY <4>2, <5>1 DEF Reads, Transfers
        <5> QED
          BY <3>1, <5>2 DEF Beats
      <4>3. CASE Writes(xfer)
        <5>1. go = xfer /\ xfer \in Transfers
          BY <3>3, <4>1, <4>3, PendingIs, InRegion
        <5>2. /\ xfer.kind = "wr" /\ xfer.taken \in Nat \ {0} /\ xfer.len \in Nat
              /\ xfer.taken < xfer.len + 1
          BY <3>1, <4>3, <5>1 DEF Beats, Writes, Transfers
        <5>3. beat = BeatOf(xfer, xfer.taken + 1, data) /\ data \in Contents
          BY <1>3, <2>3, <5>1, <5>2 DEF Driven, BeatOf
        <5>4. Continues(xfer, beat)
          BY <5>2, <5>3 DEF Continues
        <5> QED
          BY <3>1, <4>1, <4>3, <5>1, <5>4 DEF Plays
      <4> QED
        BY <4>1, <4>2, <4>3, PendingIs
    <3> QED
      BY <3>2, <3>3
  <2> QED
    BY <2>1, <2>2, <2>3
<1> QED
  BY <1>2, <1>4

-----------------------------------------------------------------------------
(* Beginning, and the cycles in which no transfer is under way. *)

(* The invariant holds after reset.                                        *)
LEMMA AxiInit == Init => IInv
<1> SUFFICES ASSUME Init PROVE IInv
  OBVIOUS
<1> USE DEF Init, AxiMemInit
<1>1. Types
  <2>1. axi_o \in [arready : BOOLEAN, awready : BOOLEAN, wready : BOOLEAN,
                   r : Answers \cup {None}, b : BOOLEAN]
    OBVIOUS
  <2>2. /\ req_fifo \in Seq(BeatSet) /\ Len(req_fifo) = 0
        /\ axi_rd_q \in Seq([addr : Nat, last : BOOLEAN])
        /\ axi_wr_q \in Seq([addr : Nat, data : Contents, last : BOOLEAN])
    OBVIOUS
  <2>3. {valid_q, awvalid_q, wvalid_q, wlast_q} \subseteq BOOLEAN
    OBVIOUS
  <2> QED
    BY <2>1, <2>2, <2>3 DEF Types
<1>2. Ready
  BY DEF Ready
<1>3. Idle
  BY DEF Idle, NoWrite, NoRead
<1> QED
  BY <1>1, <1>2, <1>3 DEF IInv

(* The ready lines of the memory keep their promise: data is taken only    *)
(* when a command is there or comes with it (lines 116 to 119 of           *)
(* tb_axi4_mem.cpp).                                                       *)
LEMMA ReadyStep ==
    ASSUME NEW ar, NEW aw, NEW w, NEW delay \in Delays, Turn(ar, aw, w, delay)
    PROVE  /\ axi_o'.arready \in BOOLEAN /\ axi_o'.awready \in BOOLEAN /\ axi_o'.wready \in BOOLEAN
           /\ axi_o' = [arready |-> axi_o'.arready, awready |-> axi_o'.awready,
                        wready |-> axi_o'.wready, r |-> axi_o'.r, b |-> axi_o'.b]
           /\ axi_o'.awready => axi_wr_req' = None
           /\ axi_o'.wready => axi_o'.awready \/ axi_wr_req' # None
<1>1. delay.ar \in BOOLEAN /\ delay.aw \in BOOLEAN /\ delay.w \in BOOLEAN
  BY DEF Delays
<1> DEFINE left == IF WriteData(aw, w) # <<>> /\ ~delay.b THEN Tail(WriteData(aw, w))
                   ELSE WriteData(aw, w)
           rest == IF ReadCommand(ar) # <<>> /\ ~delay.r THEN Tail(ReadCommand(ar))
                   ELSE ReadCommand(ar)
           read == ReadCommand(ar) # <<>> /\ ~delay.r
           taken == ~delay.aw /\ Len(left) < QueueMax
           word == IF read THEN [data |-> memory[Head(ReadCommand(ar)).addr],
                                 last |-> Head(ReadCommand(ar)).last] ELSE None
           done == WriteData(aw, w) # <<>> /\ ~delay.b /\ Head(WriteData(aw, w)).last
<1>2. /\ axi_wr_req' = RestOfCommand(aw, w)
      /\ axi_o' = [arready |-> ~delay.ar /\ Len(rest) < QueueMax,
                   awready |-> taken /\ RestOfCommand(aw, w) = None,
                   wready |-> taken /\ ~delay.w,
                   r |-> word, b |-> done]
  BY DEF Turn
<1> HIDE DEF left, rest, word, done
<1> QED
  BY <1>1, <1>2

(* What the memory shows has its type when the word it reads has.          *)
LEMMA OutTyped ==
    ASSUME NEW ar, NEW aw, NEW w, NEW delay \in Delays, Turn(ar, aw, w, delay),
           axi_o'.r \in Answers \cup {None}
    PROVE  /\ axi_o' \in [arready : BOOLEAN, awready : BOOLEAN, wready : BOOLEAN,
                          r : Answers \cup {None}, b : BOOLEAN]
           /\ axi_o'.awready => axi_wr_req' = None
           /\ axi_o'.wready => axi_o'.awready \/ axi_wr_req' # None
<1> DEFINE o == axi_o'
<1>1. o.b \in BOOLEAN
  BY DEF Turn
<1>2. /\ o.arready \in BOOLEAN /\ o.awready \in BOOLEAN /\ o.wready \in BOOLEAN
      /\ o = [arready |-> o.arready, awready |-> o.awready, wready |-> o.wready,
              r |-> o.r, b |-> o.b]
      /\ o.awready => axi_wr_req' = None
      /\ o.wready => o.awready \/ axi_wr_req' # None
  BY ReadyStep
<1>3. o.r \in Answers \cup {None}
  OBVIOUS
<1> HIDE DEF o
<1>4. o \in [arready : BOOLEAN, awready : BOOLEAN, wready : BOOLEAN,
             r : Answers \cup {None}, b : BOOLEAN]
  BY <1>1, <1>2, <1>3
<1> USE DEF o
<1> QED
  BY <1>2, <1>4

(* When nothing is pending, nothing is left in the bridge.                 *)
LEMMA QuietState ==
    ASSUME IInv, Pending = None
    PROVE  /\ req_fifo = <<>> /\ NoWrite /\ axi_rd_q = <<>>
           /\ \/ xfer = None /\ resp_outstanding_q = 0 /\ ~axi_o.b /\ axi_o.r = None
              \/ xfer # None /\ resp_outstanding_q = 1 /\ axi_o.b
              \/ xfer # None /\ resp_outstanding_q = 1 /\ axi_o.r # None /\ axi_o.r.last
<1>1. CASE xfer = None
  <2>1. Idle
    BY <1>1, NotNone DEF IInv, WellFormed
  <2> QED
    BY <1>1, <2>1 DEF Idle, NoRead
<1>2. CASE xfer # None /\ Reads(xfer)
  <2>1. Shown(xfer) = xfer.len + 1
    <3>1. [xfer EXCEPT !.answered = Shown(xfer)] \in Transfers
      BY <1>2, PendingIs, InRegion DEF Transfers
    <3> QED
      BY <1>2, <3>1, PendingIs, NotNone
  <2>2. xfer.len \in Nat /\ xfer.answered \in 0 .. xfer.len
    BY <1>2, PendingIs, InRegion
  <2>3. axi_o.r # None
    BY <2>1, <2>2 DEF Shown
  <2>4. Serving(xfer)
    BY <1>2, <2>3 DEF Reads, Waiting, NoRead
  <2>5. Len(axi_rd_q) = 0
    BY <2>1, <2>2, <2>4 DEF Serving, Remain
  <2>6. axi_rd_q = <<>>
    BY <2>5, EmptySeq DEF IInv, Types
  <2> QED
    BY <1>2, <2>1, <2>3, <2>4, <2>6 DEF Reads, Serving
<1>3. CASE xfer # None /\ Writes(xfer)
  <2>1. axi_o.b
    BY <1>3, PendingIs
  <2>2. xfer.len \in Nat /\ xfer.taken \in 1 .. xfer.len + 1 /\ Len(req_fifo) \in Nat /\ Len(axi_wr_q) \in Nat
    BY <1>3, PendingIs, InRegion, LenProperties DEF Writes, IInv, Types
  <2>3. Put(xfer) - Len(axi_wr_q) = xfer.len + 1
    BY <1>3, <2>1 DEF Writes, Memory
  <2>4. valid_q \in BOOLEAN
    BY DEF IInv, Types
  <2>5. /\ ~valid_q /\ Sent(xfer) = xfer.len + 1 /\ Len(req_fifo) = 0 /\ Len(axi_wr_q) = 0
    BY <2>2, <2>3, <2>4 DEF Put, Sent
  <2>6. req_fifo = <<>> /\ axi_wr_q = <<>>
    BY <2>5, EmptySeq DEF IInv, Types
  <2>7. buf_q = None /\ ~awvalid_q
    BY <1>3, <2>2, <2>5 DEF Writes, Skid
  <2>8. axi_wr_req = None
    BY <1>3, <2>7 DEF Writes, Memory
  <2>9. resp_outstanding_q = 1 /\ burst_cnt_q = 0 /\ req_cnt_q = 0
    BY <1>3, <2>2, <2>5 DEF Writes, Counts
  <2> QED
    BY <1>3, <2>1, <2>5, <2>6, <2>7, <2>8, <2>9 DEF NoWrite, Writes, NoRead
<1> QED
  BY <1>1, <1>2, <1>3, PendingIs

(* Then the bridge only takes the first word of a transfer.                *)
LEMMA QuietEffect ==
    ASSUME IInv, Pending = None, NEW beat, NEW delay \in Delays,
           Bridge(beat), Widget, Turn(Ar, Aw, Wd, delay)
    PROVE  /\ InportAccept
           /\ req_fifo' = (IF beat = None THEN <<>> ELSE <<beat>>)
           /\ resp_outstanding_q' = 0
           /\ burst_cnt_q' = 0 /\ req_cnt_q' = 0
           /\ ~valid_q' /\ buf_q' = None /\ ~awvalid_q' /\ ~wvalid_q' /\ wlast_q' = wlast_q
           /\ axi_wr_q' = <<>> /\ axi_wr_req' = None /\ axi_rd_q' = <<>>
           /\ axi_o'.r = None /\ ~axi_o'.b /\ memory' = memory
<1>1. /\ req_fifo = <<>> /\ axi_rd_q = <<>> /\ Len(req_fifo) = 0
      /\ burst_cnt_q = 0 /\ req_cnt_q = 0
      /\ ~valid_q /\ buf_q = None /\ ~awvalid_q /\ ~wvalid_q
      /\ axi_wr_q = <<>> /\ axi_wr_req = None
  BY QuietState DEF NoWrite, IInv, Ready
<1>2. ~CanIssue /\ Ar = None /\ Aw = None /\ Wd = None
  BY <1>1 DEF CanIssue, OnBus, Ar, Aw, Wd
<1>3. ~ArTaken /\ ~AwTaken /\ ~WdTaken /\ AllTaken /\ ~AxiAccept
  BY <1>1, <1>2 DEF ArTaken, AwTaken, WdTaken, AllTaken, AxiAccept
<1>4. InportAccept
  BY <1>1 DEF InportAccept
<1>5. req_fifo' = (IF beat = None THEN <<>> ELSE <<beat>>)
  <2>1. req_fifo' = <<>> \o (IF beat # None THEN <<beat>> ELSE <<>>)
    BY <1>1, <1>2, <1>4 DEF Bridge
  <2>2. <<>> \o <<>> = <<>> /\ <<>> \o <<beat>> = <<beat>>
    OBVIOUS
  <2> QED
    BY <2>1, <2>2
<1>6. burst_cnt_q' = 0
  BY <1>1, <1>2 DEF Bridge
<1>7. resp_outstanding_q' = 0
  <2>1. resp_outstanding_q' = resp_outstanding_q + 0 -
           (IF (axi_o.b \/ (axi_o.r # None /\ axi_o.r.last)) /\ resp_outstanding_q # 0 THEN 1 ELSE 0)
    BY <1>2 DEF Bridge
  <2> QED
    BY <2>1, QuietState
<1>8. /\ req_cnt_q' = 0 /\ ~valid_q' /\ buf_q' = None /\ ~awvalid_q' /\ ~wvalid_q'
      /\ wlast_q' = wlast_q
  BY <1>1, <1>2, <1>3 DEF Widget
<1>9. /\ ReadCommand(Ar) = <<>> /\ WriteData(Aw, Wd) = <<>> /\ RestOfCommand(Aw, Wd) = None
  BY <1>1, <1>2 DEF ReadCommand, WriteData, RestOfCommand, WriteCommand, TakesData
<1>10. /\ axi_wr_q' = <<>> /\ axi_wr_req' = None /\ axi_rd_q' = <<>>
       /\ axi_o'.r = None /\ ~axi_o'.b /\ memory' = memory
  BY <1>9 DEF Turn
<1> QED
  BY <1>4, <1>5, <1>6, <1>7, <1>8, <1>10

(* A transfer that begins, or none, keeps the invariant.                   *)
LEMMA QuietStep ==
    ASSUME IInv, Pending = None, NEW beat, NEW delay \in Delays,
           Plays(beat), Bridge(beat), Widget, Turn(Ar, Aw, Wd, delay)
    PROVE  IInv'
<1>1. /\ InportAccept
      /\ req_fifo' = (IF beat = None THEN <<>> ELSE <<beat>>)
      /\ resp_outstanding_q' = 0
      /\ burst_cnt_q' = 0 /\ req_cnt_q' = 0
      /\ ~valid_q' /\ buf_q' = None /\ ~awvalid_q' /\ ~wvalid_q' /\ wlast_q' = wlast_q
      /\ axi_wr_q' = <<>> /\ axi_wr_req' = None /\ axi_rd_q' = <<>>
      /\ axi_o'.r = None /\ ~axi_o'.b /\ memory' = memory
  BY QuietEffect
<1>2. /\ axi_o' \in [arready : BOOLEAN, awready : BOOLEAN, wready : BOOLEAN,
                     r : Answers \cup {None}, b : BOOLEAN]
      /\ axi_o'.awready => axi_wr_req' = None
      /\ axi_o'.wready => axi_o'.awready \/ axi_wr_req' # None
  <2> QED
    BY <1>1, OutTyped
<1>3. \/ beat = None /\ xfer' = None
      \/ beat # None /\ Begun(xfer', beat)
  <2>1. Taken(beat) = beat
    BY <1>1 DEF Taken
  <2>2. ASSUME Begun(xfer', beat) PROVE beat # None
    <3>1. xfer'.addr \in Nat /\ xfer'.len \in Nat
      BY <2>2, InRegion DEF Begun
    <3>2. beat \in BeatSet
      BY <2>2, <3>1 DEF Begun, BeatOf, Beat, BeatSet
    <3> QED
      BY <3>2, NotNone
  <2> QED
    BY <2>1, <2>2 DEF Plays
<1>4. Ready'
  BY <1>1, <1>2 DEF Ready
<1>5. Types'
  <2>1. req_fifo' \in Seq(BeatSet) /\ Len(req_fifo') <= 2
    <3>1. CASE beat = None
      BY <1>1, <3>1
    <3>2. CASE beat # None
      <4>1. xfer'.addr \in Nat /\ xfer'.len \in Nat
        BY <1>3, <3>2, InRegion DEF Begun
      <4>2. beat \in BeatSet
        BY <1>3, <3>2, <4>1 DEF Begun, BeatOf, Beat, BeatSet
      <4> QED
        BY <1>1, <3>2, <4>2
    <3> QED
      BY <3>1, <3>2
  <2>2. memory' \in [0 .. Size - 1 -> Contents]
    BY <1>1 DEF IInv, Types
  <2>3. {valid_q, awvalid_q, wvalid_q, wlast_q}' \subseteq BOOLEAN
    <3>1. wlast_q \in BOOLEAN
      BY DEF IInv, Types
    <3>2. valid_q' \in BOOLEAN /\ awvalid_q' \in BOOLEAN /\ wvalid_q' \in BOOLEAN
      BY DEF Widget, IInv, Types
    <3> QED
      BY <1>1, <3>1, <3>2
  <2>4. /\ axi_rd_q' \in Seq([addr : Nat, last : BOOLEAN])
        /\ axi_wr_q' \in Seq([addr : Nat, data : Contents, last : BOOLEAN])
    BY <1>1
  <2> QED
    BY <1>2, <2>1, <2>2, <2>3, <2>4 DEF Types
<1>6. CASE beat = None
  <2>1. Idle'
    BY <1>1, <1>3, <1>6, NotNone, InRegion DEF Idle, NoWrite, NoRead, Begun
  <2> QED
    BY <1>4, <1>5, <2>1 DEF IInv
<1>7. CASE beat # None
  <2> DEFINE x == xfer'
  <2>1. Begun(x, beat) /\ WellFormed(x) /\ req_fifo' = <<beat>> /\ Len(<<beat>>) = 1
    BY <1>1, <1>3, <1>7 DEF Begun
  <2>2. x.len \in Nat /\ x.taken = 1 /\ x.answered = 0
    BY <2>1, InRegion DEF Begun
  <2>3. CASE x.kind = "rd"
    <3>1. beat = Beat("rd", x.addr, x.len, None)
      BY <2>1, <2>3 DEF Begun
    <3>2. Reads(xfer)'
      BY <1>1, <2>1, <2>2, <2>3, <3>1 DEF Reads, NoWrite, Waiting, NoRead
    <3> QED
      BY <1>4, <1>5, <2>1, <3>2 DEF IInv, WellFormed
  <2>4. CASE x.kind = "wr"
    <3>1. PICK data \in Contents : beat = BeatOf(x, 1, data)
      BY <2>1, <2>4 DEF Begun
    <3>2. Sent(xfer)' = 0 /\ Put(xfer)' = 0
      <4>1. Len(req_fifo') = 1
        BY <2>1
      <4>2. Sent(xfer)' = 0
        BY <2>2, <4>1 DEF Sent
      <4> QED
        BY <1>1, <4>2 DEF Put
    <3>3. Counts(xfer, Sent(xfer))'
      BY <1>1, <2>2, <3>2 DEF Counts
    <3>4. Fifo(xfer, Sent(xfer))'
      <4>1. BeatOf(x, 1, data) = BeatOf(xfer, 1, data)'
        BY DEF BeatOf
      <4> QED
        BY <2>1, <2>2, <3>1, <3>2 DEF Fifo, BeatOf
    <3>5. Skid(xfer, Sent(xfer))'
      BY <1>1, <2>2, <3>2 DEF Skid
    <3>6. Memory(xfer, Put(xfer))'
      BY <1>1, <2>2, <3>2 DEF Memory
    <3>7. Writes(xfer)'
      BY <1>1, <2>1, <2>2, <2>4, <3>3, <3>4, <3>5, <3>6 DEF Writes, NoRead
    <3> QED
      BY <1>4, <1>5, <2>1, <3>7 DEF IInv, WellFormed
  <2> QED
    BY <2>1, <2>3, <2>4 DEF Begun
<1> QED
  BY <1>6, <1>7

-----------------------------------------------------------------------------
(* Reads. *)

(* The memory goes on with the words of a read, from word n on, and shows  *)
(* one of them or none.                                                    *)
LEMMA ServeStep ==
    ASSUME NEW x, WellFormed(x), memory \in [0 .. Size - 1 -> Contents],
           NEW n \in 0 .. x.len,
           NEW ar, NEW aw, NEW w, NEW delay \in Delays, Turn(ar, aw, w, delay),
           ReadCommand(ar) \in Seq([addr : Nat, last : BOOLEAN]),
           Remain(x, n, ReadCommand(ar))
    PROVE  /\ axi_rd_q' \in Seq([addr : Nat, last : BOOLEAN])
           /\ \E m \in {n, n + 1} :
                /\ (axi_o'.r # None) <=> (m = n + 1)
                /\ Remain(x, m, axi_rd_q')
                /\ axi_o'.r # None =>
                      axi_o'.r = [data |-> memory[x.addr + n], last |-> m = x.len + 1]
           /\ axi_o'.r \in Answers \cup {None}
<1> DEFINE rd == ReadCommand(ar)
           word == [data |-> memory[Head(rd).addr], last |-> Head(rd).last]
<1>1. x.addr \in Nat /\ x.len \in Nat /\ x.addr + x.len < Size /\ Size \in Nat
  BY InRegion, AxiMemAssumption
<1>2. rd # <<>>
  BY <1>1 DEF Remain
<1>3. /\ axi_rd_q' = IF ~delay.r THEN Tail(rd) ELSE rd
      /\ axi_o'.r = IF ~delay.r THEN word ELSE None
  BY <1>2 DEF Turn
<1>4. /\ Head(rd) = rd[1]
      /\ Tail(rd) \in Seq([addr : Nat, last : BOOLEAN])
      /\ Len(Tail(rd)) = Len(rd) - 1
      /\ \A i \in 1 .. Len(Tail(rd)) : Tail(rd)[i] = rd[i + 1]
  <2> HIDE DEF rd
  <2> QED
    BY <1>2, HeadTailProperties DEF rd
<1>5. rd[1] = [addr |-> x.addr + n + 1 - 1, last |-> n + 1 = x.len + 1]
  BY <1>1 DEF Remain
<1>6. x.addr + n + 1 - 1 = x.addr + n /\ x.addr + n \in 0 .. Size - 1
  BY <1>1
<1>7. word = [data |-> memory[x.addr + n], last |-> n + 1 = x.len + 1]
  BY <1>4, <1>5, <1>6
<1>8. word \in Answers
  <2>1. memory[x.addr + n] \in Contents
    BY <1>6
  <2> HIDE DEF word
  <2> QED
    BY <1>7, <2>1 DEF Answers
<1>9. word # None
  BY <1>8, NotNone
<1>10. \A a, k, i \in Nat : /\ a + k + (i + 1) - 1 = a + (k + 1) + i - 1
                            /\ k + (i + 1) = (k + 1) + i
  OBVIOUS
<1>11. CASE delay.r
  <2>1. axi_rd_q' = rd /\ axi_o'.r = None
    BY <1>3, <1>11
  <2>2. n # n + 1
    OBVIOUS
  <2>3. rd \in Seq([addr : Nat, last : BOOLEAN]) /\ Remain(x, n, rd)
    BY Zenon
  <2> HIDE DEF rd, word
  <2>4. axi_rd_q' \in Seq([addr : Nat, last : BOOLEAN]) /\ Remain(x, n, axi_rd_q')
    BY <2>1, <2>3, Zenon
  <2>5. axi_o'.r \in Answers \cup {None} /\ n \in {n, n + 1}
    BY <2>1, Zenon
  <2> QED
    BY <2>1, <2>2, <2>4, <2>5, Zenon
<1>12. CASE ~delay.r
  <2>1. axi_rd_q' = Tail(rd) /\ axi_o'.r = word
    BY <1>3, <1>12
  <2>2. Len(Tail(rd)) = x.len + 1 - (n + 1)
    BY <1>1, <1>4 DEF Remain
  <2>3. \A i \in 1 .. Len(Tail(rd)) :
           Tail(rd)[i] = [addr |-> x.addr + (n + 1) + i - 1, last |-> (n + 1) + i = x.len + 1]
    <3> TAKE i \in 1 .. Len(Tail(rd))
    <3>1. i + 1 \in 1 .. Len(rd) /\ i \in Nat
      <4>1. Len(rd) = x.len + 1 - n
        BY DEF Remain
      <4> HIDE DEF rd
      <4> QED
        BY <1>1, <2>2, <4>1
    <3>2. Tail(rd)[i] = rd[i + 1]
      BY <1>4
    <3>3. rd[i + 1] = [addr |-> x.addr + n + (i + 1) - 1, last |-> n + (i + 1) = x.len + 1]
      BY <3>1 DEF Remain
    <3>4. /\ x.addr + n + (i + 1) - 1 = x.addr + (n + 1) + i - 1
          /\ n + (i + 1) = (n + 1) + i
      <4>1. i \in Nat /\ n \in Nat /\ x.addr \in Nat
        BY <1>1, <3>1
      <4> QED
        BY <1>10, <4>1, Zenon
    <3> QED
      BY <3>2, <3>3, <3>4
  <2> HIDE DEF rd, word
  <2>4. axi_o'.r # None /\ n + 1 \in {n, n + 1}
    BY <1>9, <2>1
  <2>5. axi_o'.r = [data |-> memory[x.addr + n], last |-> n + 1 = x.len + 1]
    BY <1>7, <2>1
  <2> QED
    BY <1>4, <1>8, <2>1, <2>2, <2>3, <2>4, <2>5 DEF Remain
<1> QED
  BY <1>11, <1>12

(* In a read only the memory moves, once it has the command; the command   *)
(* is taken from the FIFO when the memory is ready.                        *)
LEMMA ReadEffect ==
    ASSUME IInv, xfer # None, Reads(xfer), Pending # None,
           NEW beat, NEW delay \in Delays,
           Plays(beat), Bridge(beat), Widget, Turn(Ar, Aw, Wd, delay)
    PROVE  /\ Taken(beat) = None /\ xfer' = [xfer EXCEPT !.answered = Shown(xfer)]
           /\ Shown(xfer) \in 0 .. xfer.len
           /\ burst_cnt_q' = 0 /\ req_cnt_q' = 0
           /\ ~valid_q' /\ buf_q' = None /\ ~awvalid_q' /\ ~wvalid_q' /\ wlast_q' = wlast_q
           /\ axi_wr_q' = <<>> /\ axi_wr_req' = None /\ ~axi_o'.b /\ memory' = memory
           /\ \/ /\ Waiting(xfer) /\ req_fifo' = req_fifo /\ resp_outstanding_q' = 0
                 /\ axi_rd_q' = <<>> /\ axi_o'.r = None
              \/ /\ req_fifo' = <<>> /\ resp_outstanding_q' = 1
                 /\ ReadCommand(Ar) \in Seq([addr : Nat, last : BOOLEAN])
                 /\ Remain(xfer, Shown(xfer), ReadCommand(Ar))
<1> DEFINE x == xfer  n == Shown(xfer)
<1>1. /\ WellFormed(x) /\ x \in Transfers /\ x.addr \in Nat /\ x.len \in Nat /\ x.kind = "rd"
      /\ Pending = [xfer EXCEPT !.answered = n]
      /\ n \in 0 .. x.len
  <2>1. WellFormed(x) /\ x \in Transfers /\ x.addr \in Nat /\ x.len \in Nat /\ x.kind = "rd"
    BY PendingIs, InRegion DEF Reads
  <2>2. /\ Pending = IF n = x.len + 1 THEN None ELSE [xfer EXCEPT !.answered = n]
        /\ n \in 0 .. x.len + 1
    BY PendingIs
  <2> HIDE DEF n
  <2> QED
    BY <2>1, <2>2
<1>2. Taken(beat) = None /\ xfer' = Pending
  BY <1>1 DEF Plays, Writes
<1>3. /\ burst_cnt_q = 0 /\ req_cnt_q = 0
      /\ ~valid_q /\ buf_q = None /\ ~awvalid_q /\ ~wvalid_q
      /\ axi_wr_q = <<>> /\ axi_wr_req = None /\ ~axi_o.b
  BY DEF Reads, NoWrite, IInv, Ready
<1>4. beat # None => ~InportAccept
  BY <1>2 DEF Taken
<1> DEFINE pop == CanIssue /\ AxiAccept
           ended == (axi_o.b \/ (axi_o.r # None /\ axi_o.r.last)) /\ resp_outstanding_q # 0
<1>5. /\ req_fifo' = IF pop THEN Tail(req_fifo) ELSE req_fifo
      /\ burst_cnt_q' = IF pop /\ Head(req_fifo).kind = "wr" THEN burst_cnt_q' ELSE 0
      /\ resp_outstanding_q' = resp_outstanding_q
                               + (IF pop /\ (Head(req_fifo).kind = "rd"
                                             \/ (Head(req_fifo).len = 0 /\ burst_cnt_q = 0))
                                  THEN 1 ELSE 0)
                               - (IF ended THEN 1 ELSE 0)
  <2>1. /\ req_fifo' = (IF pop THEN Tail(req_fifo) ELSE req_fifo) \o <<>>
        /\ burst_cnt_q' = IF pop /\ Head(req_fifo).kind = "wr" THEN burst_cnt_q' ELSE 0
        /\ resp_outstanding_q' = resp_outstanding_q
                               + (IF pop /\ (Head(req_fifo).kind = "rd"
                                             \/ (Head(req_fifo).len = 0 /\ burst_cnt_q = 0))
                                  THEN 1 ELSE 0)
                               - (IF ended THEN 1 ELSE 0)
    BY <1>3, <1>4 DEF Bridge
  <2>2. (IF pop THEN Tail(req_fifo) ELSE req_fifo) \in Seq(BeatSet)
    <3>1. req_fifo \in Seq(BeatSet)
      BY DEF IInv, Types
    <3>2. pop => req_fifo # <<>>
      BY DEF CanIssue
    <3> QED
      BY <3>1, <3>2, HeadTailProperties
  <2> HIDE DEF pop, ended
  <2> QED
    BY <2>1, <2>2, ConcatEmptySeq
<1>6. ~ended
  <2>1. CASE axi_o.r = None
    BY <1>3, <2>1
  <2>2. CASE axi_o.r # None
    <3>1. Serving(x)
      BY <2>2 DEF Reads, Waiting, NoRead
    <3>2. ~axi_o.r.last
      BY <1>1, <2>2, <3>1 DEF Serving
    <3> QED
      BY <1>3, <3>2
  <2> QED
    BY <2>1, <2>2
<1>7. ASSUME Aw = None, Wd = None, pop => (Ar # None /\ ArTaken)
      PROVE  /\ pop \/ ~CanIssue \/ (~ArTaken /\ ~AxiAccept)
             /\ (pop /\ Head(req_fifo).kind = "rd") => req_cnt_q' = 0
             /\ ~valid_q' /\ buf_q' = None /\ ~awvalid_q' /\ ~wvalid_q' /\ wlast_q' = wlast_q
             /\ axi_wr_q' = <<>> /\ axi_wr_req' = None /\ ~axi_o'.b /\ memory' = memory
  <2>1. ~AwTaken /\ ~WdTaken /\ (AxiAccept <=> ArTaken) /\ (ArTaken => AllTaken)
    BY <1>3, <1>7 DEF AwTaken, WdTaken, AxiAccept, AllTaken
  <2>2. ~valid_q' /\ buf_q' = None /\ ~awvalid_q' /\ ~wvalid_q' /\ wlast_q' = wlast_q
    BY <1>3, <2>1 DEF Widget
  <2>3. (pop /\ Head(req_fifo).kind = "rd") => req_cnt_q' = 0
    BY <1>3 DEF Widget
  <2>4. WriteData(Aw, Wd) = <<>> /\ RestOfCommand(Aw, Wd) = None
    BY <1>3, <1>7 DEF WriteData, RestOfCommand, WriteCommand, TakesData
  <2>5. axi_wr_q' = <<>> /\ axi_wr_req' = None /\ ~axi_o'.b /\ memory' = memory
    BY <2>4 DEF Turn
  <2> QED
    BY <2>1, <2>2, <2>3, <2>5
<1>8. CASE Waiting(x)
  <2> DEFINE head == Beat("rd", x.addr, x.len, None)
  <2>1. /\ req_fifo = <<head>> /\ resp_outstanding_q = 0 /\ x.answered = 0
        /\ axi_rd_q = <<>> /\ axi_o.r = None
    BY <1>8 DEF Waiting, NoRead
  <2>2. /\ req_fifo # <<>> /\ Head(req_fifo) = head /\ CanIssue /\ Tail(req_fifo) = <<>>
        /\ head.kind = "rd" /\ head.addr = x.addr /\ head.len = x.len
    <3>1. <<head>> # <<>> /\ Head(<<head>>) = head /\ Tail(<<head>>) = <<>>
      OBVIOUS
    <3>2. head.kind = "rd" /\ head.addr = x.addr /\ head.len = x.len
      BY DEF Beat
    <3> QED
      BY <2>1, <3>1, <3>2 DEF CanIssue
  <2>3. Word.beat = head
    BY <1>3, <2>2 DEF Word
  <2>4. Ar = [addr |-> x.addr, len |-> x.len, burst |-> "incr"] /\ Aw = None /\ Wd = None
    BY <2>2, <2>3 DEF Ar, Aw, Wd, OnBus, Command
  <2>5. Ar # None
    <3>1. Ar \in Commands
      BY <1>1, <2>4 DEF Commands
    <3> QED
      BY <3>1, NotNone
  <2>6. AxiAccept <=> ArTaken
    BY <1>3, <2>4 DEF AwTaken, WdTaken, AxiAccept
  <2>7. n = 0
    BY <2>1 DEF Shown
  <2>8. /\ ~valid_q' /\ buf_q' = None /\ ~awvalid_q' /\ ~wvalid_q' /\ wlast_q' = wlast_q
        /\ axi_wr_q' = <<>> /\ axi_wr_req' = None /\ ~axi_o'.b /\ memory' = memory
    BY <1>7, <2>4, <2>5, <2>6
  <2>9. burst_cnt_q' = 0 /\ req_cnt_q' = 0
    <3>1. Head(req_fifo).kind = "rd"
      BY <2>2
    <3>2. req_cnt_q' = 0
      BY <1>3, <3>1 DEF Widget
    <3> QED
      BY <1>5, <3>1, <3>2
  <2>10. CASE ~ArTaken
    <3>1. ReadCommand(Ar) = <<>>
      BY <2>1, <2>5, <2>10 DEF ReadCommand, ArTaken
    <3>2. axi_rd_q' = <<>> /\ axi_o'.r = None
      BY <3>1 DEF Turn
    <3>3. req_fifo' = req_fifo /\ resp_outstanding_q' = 0
      BY <1>5, <1>6, <2>1, <2>6, <2>10
    <3> QED
      BY <1>1, <1>2, <1>8, <2>8, <2>9, <3>2, <3>3
  <2>11. CASE ArTaken
    <3>1. pop /\ Head(req_fifo).kind = "rd"
      BY <2>2, <2>6, <2>11
    <3>2. req_fifo' = <<>> /\ resp_outstanding_q' = 1
      BY <1>5, <1>6, <2>1, <2>2, <3>1
    <3> DEFINE c == [addr |-> x.addr, len |-> x.len, burst |-> "incr"]
               rd == [i \in 1 .. c.len + 1 |-> [addr |-> Unroll(c)[i], last |-> i = c.len + 1]]
    <3>3. c.addr = x.addr /\ c.len = x.len /\ c.burst = "incr"
      OBVIOUS
    <3>4. Unroll(c) = [i \in 1 .. x.len + 1 |-> x.addr + i - 1]
      BY <1>1, <3>3, UnrollIncr
    <3>5. ReadCommand(Ar) = <<>> \o rd
      BY <2>1, <2>4, <2>5, <2>11 DEF ReadCommand, ArTaken
    <3> HIDE DEF c
    <3>6. rd = [i \in 1 .. x.len + 1 |-> [addr |-> x.addr + i - 1, last |-> i = x.len + 1]]
      BY <3>3, <3>4
    <3> HIDE DEF rd
    <3>7. rd \in Seq([addr : Nat, last : BOOLEAN]) /\ Len(rd) = x.len + 1
      <4>1. \A i \in 1 .. x.len + 1 :
               [addr |-> x.addr + i - 1, last |-> i = x.len + 1] \in [addr : Nat, last : BOOLEAN]
        BY <1>1
      <4>2. x.len + 1 \in Nat
        BY <1>1
      <4>3. rd \in [1 .. x.len + 1 -> [addr : Nat, last : BOOLEAN]]
        BY <3>6, <4>1
      <4>4. rd \in Seq([addr : Nat, last : BOOLEAN])
        BY <4>2, <4>3, SeqDef
      <4>5. DOMAIN rd = 1 .. x.len + 1 /\ DOMAIN rd = 1 .. Len(rd) /\ Len(rd) \in Nat
        BY <4>3, <4>4, LenProperties
      <4> QED
        BY <4>2, <4>4, <4>5
    <3>8. ReadCommand(Ar) = rd
      BY <3>5, <3>7, ConcatEmptySeq
    <3>9. Remain(x, n, ReadCommand(Ar))
      <4> HIDE DEF n
      <4> QED
        BY <1>1, <2>7, <3>6, <3>7, <3>8 DEF Remain
    <3> QED
      BY <1>1, <1>2, <2>8, <2>9, <3>2, <3>7, <3>8, <3>9
  <2> QED
    BY <2>10, <2>11
<1>9. CASE Serving(x)
  <2>1. /\ req_fifo = <<>> /\ resp_outstanding_q = 1
        /\ Remain(x, n, axi_rd_q)
    BY <1>9 DEF Serving
  <2>2. ~CanIssue /\ ~pop /\ Ar = None /\ Aw = None /\ Wd = None
    BY <1>3, <2>1 DEF CanIssue, OnBus, Ar, Aw, Wd
  <2>3. /\ ~valid_q' /\ buf_q' = None /\ ~awvalid_q' /\ ~wvalid_q' /\ wlast_q' = wlast_q
        /\ axi_wr_q' = <<>> /\ axi_wr_req' = None /\ ~axi_o'.b /\ memory' = memory
    BY <1>7, <2>2
  <2>4. req_cnt_q' = 0 /\ burst_cnt_q' = 0
    BY <1>3, <1>5, <2>2 DEF Widget
  <2>5. req_fifo' = <<>> /\ resp_outstanding_q' = 1
    BY <1>5, <1>6, <2>1, <2>2
  <2>6. ReadCommand(Ar) = axi_rd_q /\ axi_rd_q \in Seq([addr : Nat, last : BOOLEAN])
    BY <2>2 DEF ReadCommand, IInv, Types
  <2> QED
    BY <1>1, <1>2, <2>1, <2>3, <2>4, <2>5, <2>6
<1> QED
  BY <1>8, <1>9 DEF Reads

(* The next word of a read, or a pause, keeps the invariant.               *)
LEMMA ReadStep ==
    ASSUME IInv, xfer # None, Reads(xfer), Pending # None,
           NEW beat, NEW delay \in Delays,
           Plays(beat), Bridge(beat), Widget, Turn(Ar, Aw, Wd, delay)
    PROVE  IInv'
<1> DEFINE n == Shown(xfer)
<1>1. /\ xfer' = [xfer EXCEPT !.answered = n] /\ n \in 0 .. xfer.len
      /\ burst_cnt_q' = 0 /\ req_cnt_q' = 0
      /\ ~valid_q' /\ buf_q' = None /\ ~awvalid_q' /\ ~wvalid_q' /\ wlast_q' = wlast_q
      /\ axi_wr_q' = <<>> /\ axi_wr_req' = None /\ ~axi_o'.b /\ memory' = memory
  BY ReadEffect
<1>2. /\ WellFormed(xfer) /\ xfer \in Transfers /\ xfer.addr \in Nat /\ xfer.len \in Nat
      /\ xfer.kind = "rd" /\ xfer.taken = 1
  BY PendingIs, InRegion DEF Reads
<1> HIDE DEF n
<1>3. /\ xfer' \in Transfers /\ xfer'.addr = xfer.addr /\ xfer'.len = xfer.len
      /\ xfer'.kind = "rd" /\ xfer'.taken = 1 /\ xfer'.answered = n
  BY <1>1, <1>2 DEF Transfers
<1>4. WellFormed(xfer)'
  BY <1>2, <1>3 DEF WellFormed
<1>5. NoWrite'
  BY <1>1 DEF NoWrite
<1>6. /\ axi_rd_q' \in Seq([addr : Nat, last : BOOLEAN])
      /\ axi_o'.r \in Answers \cup {None}
      /\ req_fifo' \in Seq(BeatSet) /\ Len(req_fifo') <= 2
      /\ Waiting(xfer)' \/ Serving(xfer)'
  <2>1. CASE /\ Waiting(xfer) /\ req_fifo' = req_fifo /\ resp_outstanding_q' = 0
             /\ axi_rd_q' = <<>> /\ axi_o'.r = None
    <3>1. req_fifo' \in Seq(BeatSet) /\ Len(req_fifo') <= 2
      BY <2>1 DEF IInv, Types
    <3>2. n = 0
      BY <2>1 DEF Waiting, NoRead, Shown, n
    <3>3. Waiting(xfer)'
      BY <1>3, <2>1, <3>2 DEF Waiting, NoRead, Beat
    <3> QED
      BY <2>1, <3>1, <3>3
  <2>2. CASE /\ req_fifo' = <<>> /\ resp_outstanding_q' = 1
             /\ ReadCommand(Ar) \in Seq([addr : Nat, last : BOOLEAN])
             /\ Remain(xfer, n, ReadCommand(Ar))
    <3>1. memory \in [0 .. Size - 1 -> Contents]
      BY DEF IInv, Types
    <3>2. /\ axi_rd_q' \in Seq([addr : Nat, last : BOOLEAN])
          /\ \E m \in {n, n + 1} :
                /\ (axi_o'.r # None) <=> (m = n + 1)
                /\ Remain(xfer, m, axi_rd_q')
                /\ axi_o'.r # None =>
                      axi_o'.r = [data |-> memory[xfer.addr + n], last |-> m = xfer.len + 1]
          /\ axi_o'.r \in Answers \cup {None}
      BY <1>1, <1>2, <2>2, <3>1, ServeStep
    <3>3. PICK m \in {n, n + 1} :
                /\ (axi_o'.r # None) <=> (m = n + 1)
                /\ Remain(xfer, m, axi_rd_q')
                /\ axi_o'.r # None =>
                      axi_o'.r = [data |-> memory[xfer.addr + n], last |-> m = xfer.len + 1]
      BY <3>2
    <3>4. Shown(xfer)' = m
      BY <1>1, <1>3, <3>3 DEF Shown
    <3>5. axi_o'.r # None => axi_o'.r \in Answers /\ (axi_o'.r.last <=> m = xfer.len + 1)
      <4> SUFFICES ASSUME axi_o'.r # None
                   PROVE  axi_o'.r \in Answers /\ (axi_o'.r.last <=> m = xfer.len + 1)
        OBVIOUS
      <4>1. axi_o'.r \in Answers
        BY <3>2
      <4>2. axi_o'.r = [data |-> memory[xfer.addr + n], last |-> m = xfer.len + 1]
        BY <3>3
      <4> DEFINE r == axi_o'.r
      <4>3. r.last <=> m = xfer.len + 1
        <5> HIDE DEF n
        <5>1. r = [data |-> memory[xfer.addr + n], last |-> m = xfer.len + 1]
          BY <4>2
        <5> HIDE DEF r
        <5> QED
          BY <5>1
      <4> QED
        BY <4>1, <4>3
    <3>6. Serving(xfer)'
      <4>1. Remain(xfer, m, axi_rd_q')
        BY <3>3
      <4>2. Remain(xfer, Shown(xfer), axi_rd_q)'
        BY <1>3, <3>4, <4>1 DEF Remain
      <4>3. xfer'.answered <= xfer'.len
        BY <1>1, <1>2, <1>3
      <4>4. axi_o'.r # None =>
               axi_o'.r \in Answers /\ (axi_o'.r.last <=> Shown(xfer)' = xfer'.len + 1)
        BY <1>3, <3>4, <3>5
      <4> QED
        BY <2>2, <4>2, <4>3, <4>4 DEF Serving
    <3> QED
      BY <2>2, <3>2, <3>6
  <2> QED
    BY <2>1, <2>2, ReadEffect DEF n
<1>7. Reads(xfer)'
  BY <1>1, <1>3, <1>5, <1>6 DEF Reads
<1>8. /\ axi_o' \in [arready : BOOLEAN, awready : BOOLEAN, wready : BOOLEAN,
                     r : Answers \cup {None}, b : BOOLEAN]
      /\ axi_o'.awready => axi_wr_req' = None
      /\ axi_o'.wready => axi_o'.awready \/ axi_wr_req' # None
  BY <1>6, OutTyped
<1>9. Types'
  <2>1. memory' \in [0 .. Size - 1 -> Contents]
    BY <1>1 DEF IInv, Types
  <2>2. {valid_q, awvalid_q, wvalid_q, wlast_q}' \subseteq BOOLEAN
    <3>1. wlast_q \in BOOLEAN
      BY DEF IInv, Types
    <3>2. valid_q' \in BOOLEAN /\ awvalid_q' \in BOOLEAN /\ wvalid_q' \in BOOLEAN
      BY DEF Widget, IInv, Types
    <3> QED
      BY <1>1, <3>1, <3>2
  <2>3. axi_wr_q' \in Seq([addr : Nat, data : Contents, last : BOOLEAN])
    BY <1>1
  <2> QED
    BY <1>6, <1>8, <2>1, <2>2, <2>3 DEF Types
<1>10. Ready'
  BY <1>1, <1>8 DEF Ready
<1> QED
  BY <1>4, <1>7, <1>9, <1>10 DEF IInv

-----------------------------------------------------------------------------
(* Writes.  s words have left the FIFO, p of them the memory has.          *)

Writing(x, s, p) ==
    /\ x = xfer /\ x # None /\ WellFormed(x) /\ Writes(x) /\ ~axi_o.b
    /\ s = Sent(x) /\ p = Put(x)

(* The data of word k, where it is.                                        *)
WordData(s, p, k) ==
    IF k <= p THEN axi_wr_q[k - p + Len(axi_wr_q)].data
    ELSE IF k <= s THEN buf_q.beat.data
    ELSE req_fifo[k - s].data

(* A word is in the memory's queue, in the skid buffer or in the FIFO.     *)
LEMMA WordPlace ==
    ASSUME NEW s, NEW p, NEW k
    PROVE  /\ k <= p => WordData(s, p, k) = axi_wr_q[k - p + Len(axi_wr_q)].data
           /\ ~(k <= p) /\ k <= s => WordData(s, p, k) = buf_q.beat.data
           /\ ~(k <= p) /\ ~(k <= s) => WordData(s, p, k) = req_fifo[k - s].data
BY DEF WordData

(* The numbers of a write, and what they are about.                        *)
LEMMA WriteState ==
    ASSUME IInv, NEW x, NEW s, NEW p, Writing(x, s, p)
    PROVE  /\ x \in Transfers /\ x.kind = "wr" /\ x.answered = 0
           /\ x.addr \in Nat /\ x.len \in Nat /\ x.taken \in 1 .. x.len + 1
           /\ Len(req_fifo) \in Nat /\ Len(axi_wr_q) \in Nat
           /\ valid_q \in BOOLEAN /\ awvalid_q \in BOOLEAN /\ ~wvalid_q
           /\ s \in 0 .. x.taken /\ s + Len(req_fifo) = x.taken
           /\ p \in 0 .. s /\ p = IF valid_q THEN s - 1 ELSE s
           /\ Len(axi_wr_q) <= p /\ p - Len(axi_wr_q) <= x.len
           /\ Counts(x, s) /\ Fifo(x, s) /\ Skid(x, s) /\ Memory(x, p)
           /\ axi_rd_q = <<>> /\ axi_o.r = None
           /\ Pending = x
<1>1. /\ x \in Transfers /\ x.kind = "wr" /\ x.answered = 0
      /\ x.addr \in Nat /\ x.len \in Nat /\ x.taken \in 1 .. x.len + 1
      /\ axi_rd_q = <<>> /\ axi_o.r = None
  BY InRegion DEF Writing, Writes, NoRead
<1>2. Len(req_fifo) \in Nat /\ Len(axi_wr_q) \in Nat
  BY LenProperties DEF IInv, Types
<1>3. valid_q \in BOOLEAN /\ awvalid_q \in BOOLEAN /\ ~wvalid_q
  BY DEF IInv, Types, Ready
<1>4. Counts(x, s) /\ Fifo(x, s) /\ Skid(x, s) /\ Memory(x, p) /\ Len(req_fifo) <= x.taken
  BY DEF Writing, Writes
<1>5. s \in 0 .. x.taken /\ s + Len(req_fifo) = x.taken
  BY <1>1, <1>2, <1>4 DEF Writing, Sent
<1>6. p = IF valid_q THEN s - 1 ELSE s
  BY DEF Writing, Put
<1>7. valid_q => s = 1
  BY <1>4 DEF Skid
<1>8. p \in 0 .. s
  BY <1>5, <1>6, <1>7
<1>9. Len(axi_wr_q) <= p
  BY <1>4 DEF Memory
<1>10. p - Len(axi_wr_q) # x.len + 1
  BY <1>4 DEF Memory, Writing
<1>11. p - Len(axi_wr_q) <= x.len
  BY <1>1, <1>2, <1>5, <1>8, <1>10
<1>12. Pending = x
  BY PendingIs DEF Writing
<1> QED
  BY <1>1, <1>2, <1>3, <1>4, <1>5, <1>6, <1>8, <1>9, <1>11, <1>12

(* What the widget puts on the bus: the next word, and the command with    *)
(* the first word until it is taken.                                       *)
LEMMA Bus ==
    ASSUME IInv, NEW x, NEW s, NEW p, Writing(x, s, p)
    PROVE  /\ Ar = None
           /\ CanIssue <=> req_fifo # <<>>
           /\ (valid_q \/ req_fifo # <<>>) <=> p < x.taken
           /\ IF p < x.taken
              THEN /\ p <= x.len
                   /\ \E data \in Contents : Word = [beat |-> BeatOf(x, p + 1, data),
                                                     last |-> p = x.len]
                   /\ Word.beat.data = WordData(s, p, p + 1)
                   /\ Wd = [data |-> WordData(s, p, p + 1), last |-> p = x.len]
                   /\ WordData(s, p, p + 1) \in Contents
                   /\ Aw = IF awvalid_q THEN None
                           ELSE [addr |-> x.addr, len |-> x.len, burst |-> "incr"]
                   /\ ~awvalid_q => s = 0 /\ p = 0 /\ ~valid_q /\ req_fifo # <<>>
              ELSE Aw = None /\ Wd = None
<1>1. /\ x.addr \in Nat /\ x.len \in Nat /\ x.taken \in 1 .. x.len + 1
      /\ Len(req_fifo) \in Nat /\ Len(axi_wr_q) \in Nat
      /\ valid_q \in BOOLEAN /\ awvalid_q \in BOOLEAN /\ ~wvalid_q
      /\ s \in 0 .. x.taken /\ s + Len(req_fifo) = x.taken
      /\ p \in 0 .. s /\ p = IF valid_q THEN s - 1 ELSE s
      /\ Counts(x, s) /\ Fifo(x, s) /\ Skid(x, s)
  BY WriteState
<1>2. req_fifo # <<>> <=> Len(req_fifo) # 0
  BY EmptySeq DEF IInv, Types
<1>3. CanIssue <=> req_fifo # <<>>
  BY <1>1 DEF CanIssue, Counts
<1>4. (valid_q \/ req_fifo # <<>>) <=> p < x.taken
  BY <1>1, <1>2
<1>5. CASE ~(p < x.taken)
  <2>1. ~valid_q /\ ~CanIssue
    BY <1>3, <1>4, <1>5
  <2> QED
    BY <1>3, <1>4, <1>5, <2>1 DEF OnBus, Ar, Aw, Wd
<1>6. CASE p < x.taken
  <2>1. p <= x.len
    BY <1>1, <1>6
  <2>2. PICK data \in Contents :
           /\ Word = [beat |-> BeatOf(x, p + 1, data), last |-> p = x.len]
           /\ data = WordData(s, p, p + 1)
    <3>1. CASE valid_q
      <4>1. PICK data \in Contents : buf_q = [beat |-> BeatOf(x, 1, data), last |-> x.len = 0]
        BY <1>1, <3>1 DEF Skid
      <4>2. s = 1 /\ p = 0
        BY <1>1, <3>1 DEF Skid
      <4>3. p + 1 = 1 /\ ~(p + 1 <= p) /\ p + 1 <= s /\ (p = x.len <=> x.len = 0)
        BY <1>1, <4>2
      <4>4. buf_q.beat.data = data
        BY <4>1 DEF BeatOf, Beat
      <4>5. WordData(s, p, p + 1) = data
        BY <4>3, <4>4 DEF WordData
      <4>6. Word = buf_q
        BY <3>1 DEF Word
      <4> QED
        BY <4>1, <4>3, <4>5, <4>6
    <3>2. CASE ~valid_q
      <4>1. req_fifo # <<>> /\ s = p /\ 1 \in 1 .. Len(req_fifo)
        BY <1>1, <1>2, <1>4, <1>6, <3>2
      <4>2. PICK data \in Contents : req_fifo[1] = BeatOf(x, s + 1, data)
        BY <1>1, <4>1 DEF Fifo
      <4>3. Head(req_fifo) = req_fifo[1]
        BY <4>1 DEF IInv, Types
      <4>4. /\ Head(req_fifo).len = IF s = 0 THEN x.len ELSE 0
            /\ Head(req_fifo).data = data
        <5>1. s + 1 = 1 <=> s = 0
          BY <1>1
        <5> QED
          BY <4>2, <4>3, <5>1 DEF BeatOf, Beat
      <4>5. ((Head(req_fifo).len = 0 /\ req_cnt_q = 0) \/ req_cnt_q = 1) <=> p = x.len
        <5>1. req_cnt_q = IF s = 0 THEN 0 ELSE x.len + 1 - s
          BY <1>1 DEF Counts
        <5> QED
          BY <1>1, <2>1, <4>1, <4>4, <5>1
      <4>6. ~(p + 1 <= p) /\ ~(p + 1 <= s) /\ p + 1 - s = 1
        BY <1>1, <4>1
      <4>7. WordData(s, p, p + 1) = data
        <5>1. WordData(s, p, p + 1) = req_fifo[p + 1 - s].data
          BY <1>1, <4>6, WordPlace
        <5>2. req_fifo[p + 1 - s] = req_fifo[1]
          BY <4>6, Zenon
        <5> QED
          BY <4>3, <4>4, <5>1, <5>2
      <4>8. Word = [beat |-> Head(req_fifo),
                    last |-> (Head(req_fifo).len = 0 /\ req_cnt_q = 0) \/ req_cnt_q = 1]
        BY <3>2 DEF Word
      <4>9. Word = [beat |-> BeatOf(x, p + 1, data), last |-> p = x.len]
        BY <4>1, <4>2, <4>3, <4>5, <4>8
      <4> QED
        BY <4>7, <4>9
    <3> QED
      BY <1>1, <3>1, <3>2
  <2>3. Word.beat = BeatOf(x, p + 1, data) /\ Word.last = (p = x.len)
    BY <2>2
  <2>4. /\ Word.beat.kind = "wr" /\ Word.beat.data = data
        /\ Word.beat.addr = (IF p + 1 = 1 THEN x.addr ELSE 0)
        /\ Word.beat.len = (IF p + 1 = 1 THEN x.len ELSE 0)
    BY <2>3 DEF BeatOf, Beat
  <2>5. OnBus("wr") /\ ~OnBus("rd")
    BY <1>3, <1>4, <1>6, <2>4 DEF OnBus
  <2>6. Ar = None /\ Wd = [data |-> data, last |-> p = x.len]
    BY <1>1, <2>3, <2>4, <2>5 DEF Ar, Wd
  <2>7. ~awvalid_q => s = 0 /\ p = 0 /\ ~valid_q /\ req_fifo # <<>>
    <3> SUFFICES ASSUME ~awvalid_q PROVE s = 0 /\ p = 0 /\ ~valid_q /\ req_fifo # <<>>
      OBVIOUS
    <3>1. ~valid_q /\ ~(s \in 1 .. x.len)
      BY <1>1 DEF Skid
    <3> QED
      BY <1>1, <1>4, <1>6, <2>1, <3>1
  <2>8. Aw = IF awvalid_q THEN None ELSE [addr |-> x.addr, len |-> x.len, burst |-> "incr"]
    <3>1. CASE awvalid_q
      BY <3>1 DEF Aw
    <3>2. CASE ~awvalid_q
      <4>1. p + 1 = 1
        BY <2>7, <3>2
      <4>2. Command = [addr |-> x.addr, len |-> x.len, burst |-> "incr"]
        BY <2>4, <4>1 DEF Command
      <4> QED
        BY <2>5, <3>2, <4>2 DEF Aw
    <3> QED
      BY <3>1, <3>2
  <2> QED
    BY <1>3, <1>4, <1>6, <2>1, <2>2, <2>4, <2>6, <2>7, <2>8
<1> QED
  BY <1>5, <1>6

Pop == CanIssue /\ AxiAccept

(* The counters follow the words: the bridge's burst counter is one word   *)
(* ahead of the widget's, and both end at zero with the last word.         *)
LEMMA CountStep ==
    ASSUME IInv, NEW x, NEW s, NEW p, Writing(x, s, p), NEW beat, Bridge(beat), Widget,
           NEW s2, s2 = IF Pop THEN s + 1 ELSE s
    PROVE  Counts(x, s2)'
<1>1. /\ x.addr \in Nat /\ x.len \in Nat /\ x.taken \in 1 .. x.len + 1
      /\ Len(req_fifo) \in Nat
      /\ s \in 0 .. x.taken /\ s + Len(req_fifo) = x.taken
      /\ Counts(x, s) /\ Fifo(x, s) /\ axi_o.r = None /\ ~axi_o.b
  BY WriteState DEF Writing
<1>2. /\ resp_outstanding_q = (IF s = x.len + 1 THEN 1 ELSE 0)
      /\ burst_cnt_q = (IF s = 0 \/ s > x.len THEN 0 ELSE x.len - s)
      /\ req_cnt_q = (IF s = 0 THEN 0 ELSE x.len + 1 - s)
  BY <1>1 DEF Counts
<1>3. CASE ~Pop
  <2>1. /\ resp_outstanding_q' = resp_outstanding_q + 0 - 0 /\ burst_cnt_q' = burst_cnt_q
        /\ req_cnt_q' = req_cnt_q
    BY <1>1, <1>3 DEF Bridge, Widget, Pop
  <2>2. resp_outstanding_q' = resp_outstanding_q
    BY <1>2, <2>1
  <2> QED
    <3>1. s2 = s
      BY <1>3
    <3> QED
      BY <1>2, <2>1, <2>2, <3>1 DEF Counts
<1>4. CASE Pop
  <2>1. req_fifo # <<>> /\ 1 \in 1 .. Len(req_fifo) /\ Head(req_fifo) = req_fifo[1]
    <3>1. req_fifo # <<>> /\ req_fifo \in Seq(BeatSet)
      BY <1>4 DEF Pop, CanIssue, IInv, Types
    <3>2. Len(req_fifo) # 0
      BY <3>1, EmptySeq
    <3> QED
      BY <1>1, <3>1, <3>2
  <2>2. s <= x.len
    BY <1>1, <2>1
  <2>3. /\ Head(req_fifo).kind = "wr"
        /\ Head(req_fifo).len = IF s = 0 THEN x.len ELSE 0
    <3>1. PICK data \in Contents : req_fifo[1] = BeatOf(x, s + 1, data)
      BY <1>1, <2>1 DEF Fifo
    <3>2. s + 1 = 1 <=> s = 0
      BY <1>1
    <3> QED
      BY <2>1, <3>1, <3>2 DEF BeatOf, Beat
  <2>4. /\ req_cnt_q' = (IF req_cnt_q # 0 THEN req_cnt_q - 1 ELSE Head(req_fifo).len)
        /\ burst_cnt_q' = (IF burst_cnt_q # 0 THEN burst_cnt_q - 1
                           ELSE IF Head(req_fifo).len # 0 THEN Head(req_fifo).len - 1 ELSE 0)
        /\ resp_outstanding_q' = resp_outstanding_q
                                 + (IF Head(req_fifo).len = 0 /\ burst_cnt_q = 0 THEN 1 ELSE 0)
                                 - 0
    BY <1>1, <1>4, <2>3 DEF Bridge, Widget, Pop
  <2>5. /\ req_cnt_q' = x.len + 1 - (s + 1)
        /\ burst_cnt_q' = (IF s + 1 > x.len THEN 0 ELSE x.len - (s + 1))
        /\ resp_outstanding_q' = (IF s + 1 = x.len + 1 THEN 1 ELSE 0)
    <3>1. CASE s = 0
      <4>1. /\ req_cnt_q = 0 /\ burst_cnt_q = 0 /\ Head(req_fifo).len = x.len
            /\ resp_outstanding_q = 0
        BY <1>1, <1>2, <2>3, <3>1
      <4>2. /\ req_cnt_q' = x.len
            /\ burst_cnt_q' = IF x.len # 0 THEN x.len - 1 ELSE 0
            /\ resp_outstanding_q' = IF x.len = 0 THEN 1 ELSE 0
        BY <2>4, <4>1
      <4>3. /\ x.len + 1 - (s + 1) = x.len /\ x.len - (s + 1) = x.len - 1
            /\ (s + 1 > x.len <=> x.len = 0) /\ (s + 1 = x.len + 1 <=> x.len = 0)
        BY <1>1, <3>1
      <4> QED
        BY <4>2, <4>3
    <3>2. CASE s # 0
      <4>1. /\ req_cnt_q = x.len + 1 - s /\ burst_cnt_q = x.len - s
            /\ resp_outstanding_q = 0 /\ Head(req_fifo).len = 0
        BY <1>1, <1>2, <2>2, <2>3, <3>2
      <4>2. /\ req_cnt_q' = x.len + 1 - s - 1
            /\ burst_cnt_q' = (IF x.len - s # 0 THEN x.len - s - 1 ELSE 0)
            /\ resp_outstanding_q' = (IF x.len - s = 0 THEN 1 ELSE 0)
        <5>1. x.len + 1 - s # 0
          BY <1>1, <2>2
        <5> QED
          BY <1>1, <2>4, <4>1, <5>1, SMTT(30)
      <4>3. x.len + 1 - s - 1 = x.len + 1 - (s + 1)
        BY <1>1
      <4>4. CASE s = x.len
        <5>1. x.len - s = 0 /\ s + 1 > x.len
          BY <1>1, <4>4
        <5> QED
          BY <4>2, <4>3, <4>4, <5>1
      <4>5. CASE s # x.len
        <5>1. /\ x.len - s # 0 /\ ~(s + 1 > x.len) /\ s + 1 # x.len + 1
              /\ x.len - s - 1 = x.len - (s + 1)
          BY <1>1, <2>2, <4>5
        <5> QED
          BY <4>2, <4>3, <5>1
      <4> QED
        BY <4>4, <4>5
    <3> QED
      BY <3>1, <3>2
  <2>6. s2 = s + 1 /\ s2 # 0
    BY <1>1, <1>4
  <2> QED
    BY <2>5, <2>6 DEF Counts
<1> QED
  BY <1>3, <1>4

(* A cycle of the bridge and the widget in a write.  The command goes with *)
(* the first word or before it, so data is never taken without it; only a  *)
(* first word whose command went alone stays in the skid buffer.           *)
LEMMA WidgetStep ==
    ASSUME IInv, NEW x, NEW s, NEW p, Writing(x, s, p), NEW beat, Bridge(beat), Widget,
           NEW s2, s2 = (IF Pop THEN s + 1 ELSE s), NEW p2, p2 = (IF WdTaken THEN p + 1 ELSE p)
    PROVE  /\ WdTaken => p < x.taken /\ (awvalid_q \/ AwTaken)
           /\ AwTaken => p < x.taken /\ ~awvalid_q
           /\ Pop => req_fifo # <<>>
           /\ (awvalid_q' <=> (awvalid_q \/ AwTaken) /\ ~(WdTaken /\ p = x.len))
           /\ ~wvalid_q' /\ {valid_q', awvalid_q', wvalid_q', wlast_q'} \subseteq BOOLEAN
           /\ p2 = (IF valid_q' THEN s2 - 1 ELSE s2)
           /\ Skid(x, s2)'
           /\ valid_q' => p = 0 /\ buf_q'.beat.data = WordData(s, p, 1)
<1>1. /\ x.addr \in Nat /\ x.len \in Nat /\ x.taken \in 1 .. x.len + 1
      /\ Len(req_fifo) \in Nat
      /\ valid_q \in BOOLEAN /\ awvalid_q \in BOOLEAN /\ ~wvalid_q
      /\ s \in 0 .. x.taken /\ s + Len(req_fifo) = x.taken
      /\ p \in 0 .. s /\ p = (IF valid_q THEN s - 1 ELSE s)
      /\ Skid(x, s) /\ Memory(x, p)
  BY WriteState
<1>2. /\ Ar = None /\ (CanIssue <=> req_fifo # <<>>)
      /\ (valid_q \/ req_fifo # <<>>) <=> p < x.taken
      /\ p < x.taken => /\ p <= x.len
                        /\ Word.beat.data = WordData(s, p, p + 1)
                        /\ Wd = [data |-> WordData(s, p, p + 1), last |-> p = x.len]
                        /\ WordData(s, p, p + 1) \in Contents
                        /\ Aw = IF awvalid_q THEN None
                                ELSE [addr |-> x.addr, len |-> x.len, burst |-> "incr"]
                        /\ ~awvalid_q => s = 0 /\ p = 0 /\ ~valid_q /\ req_fifo # <<>>
      /\ ~(p < x.taken) => Aw = None /\ Wd = None
  BY Bus
<1>3. p < x.taken => \E data \in Contents : Word = [beat |-> BeatOf(x, p + 1, data), last |-> p = x.len]
  BY Bus
<1>4. p < x.taken => Wd # None /\ (Aw = None <=> awvalid_q) /\ Word.last = (p = x.len)
  <2> SUFFICES ASSUME p < x.taken
               PROVE  Wd # None /\ (Aw = None <=> awvalid_q) /\ Word.last = (p = x.len)
    OBVIOUS
  <2>1. Wd \in Answers
    <3>1. \A data \in Contents, last \in BOOLEAN : [data |-> data, last |-> last] \in Answers
      BY DEF Answers
    <3>2. (p = x.len) \in BOOLEAN
      OBVIOUS
    <3> QED
      BY <1>2, <3>1, <3>2
  <2>2. [addr |-> x.addr, len |-> x.len, burst |-> "incr"] \in Commands
    BY <1>1 DEF Commands
  <2>3. Word.last = (p = x.len)
    BY <1>3
  <2> QED
    BY <1>2, <2>1, <2>2, <2>3, NotNone
<1>5. ~ArTaken /\ (Pop <=> req_fifo # <<>> /\ ~valid_q /\ (AwTaken \/ WdTaken))
  BY <1>2 DEF ArTaken, Pop, AxiAccept
<1>6. WdTaken => p < x.taken /\ (awvalid_q \/ AwTaken)
  <2> SUFFICES ASSUME WdTaken PROVE p < x.taken /\ (awvalid_q \/ AwTaken)
    OBVIOUS
  <2>1. p < x.taken /\ axi_o.wready
    BY <1>2 DEF WdTaken
  <2>2. CASE ~awvalid_q
    <3>1. axi_wr_req = None
      BY <1>1, <2>2 DEF Memory
    <3>2. axi_o.awready
      BY <2>1, <3>1 DEF IInv, Ready
    <3> QED
      BY <1>4, <2>1, <2>2, <3>2 DEF AwTaken
  <2> QED
    BY <2>1, <2>2
<1>7. AwTaken => p < x.taken /\ ~awvalid_q
  BY <1>2, <1>4 DEF AwTaken
<1>8. /\ CommandAccepted <=> AwTaken \/ awvalid_q
      /\ DataAccepted <=> WdTaken
      /\ LastAccepted <=> WdTaken /\ p = x.len
  <2>1. WdTaken => Word.last = (p = x.len)
    BY <1>4, <1>6
  <2> QED
    BY <1>1, <2>1 DEF CommandAccepted, DataAccepted, LastAccepted
<1>9. awvalid_q' <=> (awvalid_q \/ AwTaken) /\ ~(WdTaken /\ p = x.len)
  BY <1>8 DEF Widget
<1>10. ~wvalid_q'
  BY <1>1, <1>6, <1>8 DEF Widget
<1>11. AwTaken \in BOOLEAN /\ WdTaken \in BOOLEAN
  BY DEF AwTaken, WdTaken, IInv, Types
<1>12. {valid_q', awvalid_q', wvalid_q', wlast_q'} \subseteq BOOLEAN
  <2>1. valid_q' \in BOOLEAN /\ awvalid_q' \in BOOLEAN /\ wvalid_q' \in BOOLEAN
    BY DEF Widget, IInv, Types
  <2>2. wlast_q' \in BOOLEAN
    <3>1. WdTaken => Word.last \in BOOLEAN
      <4>1. (p = x.len) \in BOOLEAN
        OBVIOUS
      <4> QED
        BY <1>4, <1>6, <4>1
    <3>2. wlast_q \in BOOLEAN
      BY DEF IInv, Types
    <3> QED
      BY <3>1, <3>2 DEF Widget
  <2> QED
    BY <2>1, <2>2
<1>13. /\ valid_q' <=> IF Pop /\ ~AllTaken THEN TRUE ELSE valid_q /\ ~AllTaken
       /\ buf_q' = IF valid_q' THEN Word ELSE None
  BY DEF Widget, Pop
<1>14. Pop => req_fifo # <<>>
  BY <1>5
<1>15. CASE ~AwTaken /\ ~WdTaken
  <2>1. ~Pop
    BY <1>5, <1>15
  <2>2. valid_q => ~AllTaken
    BY <1>2, <1>4, <1>15 DEF AllTaken
  <2>3. valid_q' <=> valid_q
    BY <1>13, <2>1, <2>2
  <2>4. buf_q' = buf_q
    <3>1. CASE valid_q
      BY <1>13, <2>3, <3>1 DEF Word
    <3>2. CASE ~valid_q
      BY <1>1, <1>13, <2>3, <3>2 DEF Skid
    <3> QED
      BY <1>1, <3>1, <3>2
  <2>5. awvalid_q' <=> awvalid_q
    BY <1>9, <1>15
  <2>6. Skid(x, s2)'
    <3>0. s2 = s
      BY <2>1
    <3>1. CASE valid_q
      BY <1>1, <2>3, <2>4, <2>5, <3>0, <3>1 DEF Skid, BeatOf, Beat
    <3>2. CASE ~valid_q
      BY <1>1, <2>3, <2>4, <2>5, <3>0, <3>2 DEF Skid
    <3> QED
      BY <1>1, <3>1, <3>2
  <2>7. valid_q' => p = 0 /\ buf_q'.beat.data = WordData(s, p, 1)
    <3> SUFFICES ASSUME valid_q PROVE p = 0 /\ buf_q.beat.data = WordData(s, p, 1)
      BY <2>3, <2>4
    <3>1. p = 0 /\ s = 1
      BY <1>1 DEF Skid
    <3>2. ~(1 <= p) /\ 1 <= s
      BY <3>1
    <3> QED
      BY <3>1, <3>2, WordPlace
  <2>8. p2 = IF valid_q' THEN s2 - 1 ELSE s2
    BY <1>1, <1>15, <2>1, <2>3
  <2> QED
    BY <1>6, <1>7, <1>9, <1>10, <1>12, <1>15, <2>1, <2>6, <2>7, <2>8
<1>16. CASE AwTaken /\ ~WdTaken
  <2>1. p < x.taken /\ s = 0 /\ p = 0 /\ ~valid_q /\ Pop
    BY <1>2, <1>5, <1>7, <1>16
  <2>2. ~AllTaken
    BY <1>4, <1>16, <2>1 DEF AllTaken
  <2>3. valid_q' /\ buf_q' = Word
    BY <1>13, <2>1, <2>2
  <2>4. awvalid_q'
    BY <1>9, <1>16
  <2>5. Skid(x, s2)'
    <3>1. PICK data \in Contents : Word = [beat |-> BeatOf(x, p + 1, data), last |-> p = x.len]
      BY <1>3, <2>1
    <3>2. s2 = 1 /\ p + 1 = 1 /\ (p = x.len <=> x.len = 0)
      BY <1>1, <2>1
    <3>3. Word = [beat |-> BeatOf(x, 1, data), last |-> x.len = 0]
      BY <3>1, <3>2
    <3> QED
      BY <2>3, <2>4, <3>2, <3>3 DEF Skid, BeatOf, Beat
  <2>6. buf_q'.beat.data = WordData(s, p, 1)
    <3>1. p + 1 = 1
      BY <2>1
    <3> QED
      BY <1>2, <2>1, <2>3, <3>1
  <2>7. p2 = s2 - 1
    BY <1>16, <2>1
  <2> QED
    BY <1>6, <1>7, <1>9, <1>10, <1>12, <1>14, <1>16, <2>1, <2>3, <2>5, <2>6, <2>7
<1>17. CASE WdTaken
  <2>1. p < x.taken /\ p <= x.len /\ AllTaken
    <3>1. p < x.taken /\ (awvalid_q \/ AwTaken)
      BY <1>6, <1>17
    <3>2. Aw = None \/ AwTaken
      BY <1>4, <3>1
    <3> QED
      BY <1>2, <1>17, <3>1, <3>2 DEF AllTaken
  <2>2. ~valid_q' /\ buf_q' = None
    BY <1>13, <2>1
  <2>3. awvalid_q' <=> p # x.len
    BY <1>6, <1>9, <1>17
  <2>4. CASE valid_q
    <3>1. ~Pop /\ s = 1 /\ p = 0
      BY <1>1, <1>5, <2>4 DEF Skid
    <3>2. s2 = 1 /\ ((p # x.len) <=> s2 \in 1 .. x.len)
      BY <1>1, <3>1
    <3>3. Skid(x, s2)'
      BY <2>2, <2>3, <3>2 DEF Skid
    <3>4. p2 = s2
      BY <1>17, <3>1, <3>2
    <3> QED
      BY <1>6, <1>7, <1>9, <1>10, <1>12, <1>17, <2>2, <3>1, <3>3, <3>4
  <2>5. CASE ~valid_q
    <3>1. Pop /\ s = p
      BY <1>1, <1>2, <1>5, <1>17, <2>1, <2>5
    <3>2. s2 = s + 1 /\ ((p # x.len) <=> s2 \in 1 .. x.len)
      BY <1>1, <2>1, <3>1
    <3>3. Skid(x, s2)'
      BY <2>2, <2>3, <3>2 DEF Skid
    <3>4. p2 = s2
      BY <1>17, <3>1, <3>2
    <3> QED
      BY <1>6, <1>7, <1>9, <1>10, <1>12, <1>14, <2>2, <3>3, <3>4
  <2> QED
    BY <1>1, <2>4, <2>5
<1> QED
  BY <1>11, <1>15, <1>16, <1>17

(* The words of a write in a queue of the memory, those after the first d. *)
WriteSet == [addr : Nat, data : Contents, last : BOOLEAN]
Queued(x, s, p, d, q) ==
    \A i \in 1 .. Len(q) :
        /\ WordData(s, p, d + i) \in Contents
        /\ q[i] = [addr |-> x.addr + d + i - 1, data |-> WordData(s, p, d + i),
                   last |-> d + i = x.len + 1]

(* What is in the memory's queue with the word that it takes in a cycle.   *)
LEMMA QueueStep ==
    ASSUME IInv, NEW x, NEW s, NEW p, Writing(x, s, p),
           WdTaken => p < x.taken /\ (awvalid_q \/ AwTaken),
           AwTaken => p < x.taken /\ ~awvalid_q,
           NEW p2, p2 = (IF WdTaken THEN p + 1 ELSE p),
           NEW d, d = p - Len(axi_wr_q), NEW wr, wr = WriteData(Aw, Wd)
    PROVE  /\ wr \in Seq(WriteSet) /\ Len(wr) = p2 - d
           /\ Queued(x, s, p, d, wr)
           /\ WriteCommand(Aw) = IF awvalid_q \/ AwTaken
                                 THEN [addr |-> x.addr + p, len |-> x.len, burst |-> "incr"]
                                 ELSE None
<1>1. /\ x.addr \in Nat /\ x.len \in Nat /\ x.taken \in 1 .. x.len + 1
      /\ Len(axi_wr_q) \in Nat /\ Len(axi_wr_q) <= p /\ p - Len(axi_wr_q) <= x.len
      /\ s \in 0 .. x.taken /\ p \in 0 .. s
      /\ Memory(x, p)
  BY WriteState
<1>2. p < x.taken => /\ p <= x.len
                     /\ Wd = [data |-> WordData(s, p, p + 1), last |-> p = x.len]
                     /\ WordData(s, p, p + 1) \in Contents
                     /\ Aw = IF awvalid_q THEN None
                             ELSE [addr |-> x.addr, len |-> x.len, burst |-> "incr"]
                     /\ ~awvalid_q => s = 0 /\ p = 0
  BY Bus
<1>3. WriteCommand(Aw) = IF awvalid_q \/ AwTaken
                         THEN [addr |-> x.addr + p, len |-> x.len, burst |-> "incr"]
                         ELSE None
  <2>1. WriteCommand(Aw) = IF AwTaken THEN Aw ELSE axi_wr_req
    BY DEF WriteCommand, AwTaken
  <2>2. axi_wr_req = IF awvalid_q THEN [addr |-> x.addr + p, len |-> x.len, burst |-> "incr"]
                     ELSE None
    BY <1>1 DEF Memory
  <2>3. AwTaken => Aw = [addr |-> x.addr + p, len |-> x.len, burst |-> "incr"]
    <3>1. AwTaken => p = 0 /\ Aw = [addr |-> x.addr, len |-> x.len, burst |-> "incr"]
      BY <1>2
    <3>2. x.addr + 0 = x.addr
      BY <1>1
    <3> QED
      BY <3>1, <3>2
  <2> QED
    BY <2>1, <2>2, <2>3
<1>4. axi_wr_q \in Seq(WriteSet)
  BY DEF IInv, Types, WriteSet
<1>5. \A i \in 1 .. Len(axi_wr_q) :
         /\ WordData(s, p, d + i) \in Contents
         /\ axi_wr_q[i] = [addr |-> x.addr + d + i - 1, data |-> WordData(s, p, d + i),
                           last |-> d + i = x.len + 1]
  <2> TAKE i \in 1 .. Len(axi_wr_q)
  <2>1. PICK data \in Contents :
           axi_wr_q[i] = [addr |-> x.addr + p - Len(axi_wr_q) + i - 1, data |-> data,
                          last |-> p - Len(axi_wr_q) + i = x.len + 1]
    BY <1>1 DEF Memory
  <2>2. /\ d + i <= p /\ d + i - p + Len(axi_wr_q) = i
        /\ x.addr + p - Len(axi_wr_q) + i - 1 = x.addr + d + i - 1
        /\ p - Len(axi_wr_q) + i = d + i
    BY <1>1
  <2>3. WordData(s, p, d + i) = axi_wr_q[i].data
    <3>1. WordData(s, p, d + i) = axi_wr_q[d + i - p + Len(axi_wr_q)].data
      BY <1>1, <2>2, WordPlace
    <3> QED
      BY <2>2, <3>1, Zenon
  <2> QED
    BY <2>1, <2>2, <2>3
<1>6. CASE ~WdTaken
  <2>1. wr = axi_wr_q /\ p2 = p
    BY <1>6 DEF WriteData, TakesData, WdTaken
  <2>2. Len(wr) = p2 - d
    BY <1>1, <2>1
  <2> QED
    BY <1>3, <1>4, <1>5, <2>1, <2>2 DEF Queued
<1>7. CASE WdTaken
  <2> DEFINE e == [addr |-> x.addr + p, data |-> WordData(s, p, p + 1), last |-> p = x.len]
  <2>1. /\ p <= x.len
        /\ Wd.data = WordData(s, p, p + 1) /\ Wd.last = (p = x.len)
        /\ WordData(s, p, p + 1) \in Contents
        /\ WriteCommand(Aw).addr = x.addr + p
    BY <1>2, <1>3, <1>7
  <2>2. wr = Append(axi_wr_q, e)
    BY <1>7, <2>1 DEF WriteData, TakesData, WdTaken
  <2>3. e \in WriteSet
    <3>1. \A a \in Nat, c \in Contents, l \in BOOLEAN : [addr |-> a, data |-> c, last |-> l] \in WriteSet
      BY DEF WriteSet
    <3>2. (p = x.len) \in BOOLEAN /\ x.addr + p \in Nat
      BY <1>1
    <3> QED
      BY <2>1, <3>1, <3>2
  <2> HIDE DEF e
  <2>4. /\ wr \in Seq(WriteSet) /\ Len(wr) = Len(axi_wr_q) + 1
        /\ \A i \in 1 .. Len(axi_wr_q) : wr[i] = axi_wr_q[i]
        /\ wr[Len(axi_wr_q) + 1] = e
    BY <1>4, <2>2, <2>3, AppendProperties
  <2>5. Len(wr) = p2 - d
    BY <1>1, <1>7, <2>4
  <2>6. Queued(x, s, p, d, wr)
    <3> SUFFICES ASSUME NEW i \in 1 .. Len(wr)
                 PROVE  /\ WordData(s, p, d + i) \in Contents
                        /\ wr[i] = [addr |-> x.addr + d + i - 1, data |-> WordData(s, p, d + i),
                                    last |-> d + i = x.len + 1]
      BY DEF Queued
    <3>1. CASE i \in 1 .. Len(axi_wr_q)
      BY <1>5, <2>4, <3>1
    <3>2. CASE i = Len(axi_wr_q) + 1
      <4>1. /\ d + i = p + 1 /\ x.addr + d + i - 1 = x.addr + p
            /\ (d + i = x.len + 1 <=> p = x.len)
        BY <1>1, <3>2, SMTT(30)
      <4>2. wr[i] = e
        BY <2>4, <3>2
      <4> QED
        BY <2>1, <4>1, <4>2 DEF e
    <3> QED
      BY <1>1, <2>4, <3>1, <3>2
  <2> QED
    BY <1>3, <2>4, <2>5, <2>6
<1> QED
  BY <1>6, <1>7

InQueue(s, p, d, p2, q) ==
    \A k \in d + 1 .. p2 : q[k - p2 + Len(q)].data = WordData(s, p, k)

(* The memory in a write: it takes a word or not, and writes the oldest of *)
(* its words or none.  d words are written before, d2 after.               *)
LEMMA MemoryStep ==
    ASSUME IInv, NEW x, NEW s, NEW p, Writing(x, s, p),
           NEW delay \in Delays, Turn(Ar, Aw, Wd, delay),
           WdTaken => p < x.taken /\ (awvalid_q \/ AwTaken),
           AwTaken => p < x.taken /\ ~awvalid_q,
           awvalid_q' <=> (awvalid_q \/ AwTaken) /\ ~(WdTaken /\ p = x.len),
           NEW p2, p2 = (IF WdTaken THEN p + 1 ELSE p),
           NEW d, d = p - Len(axi_wr_q), NEW d2, d2 = p2 - Len(axi_wr_q')
    PROVE  /\ Memory(x, p2)'
           /\ axi_wr_q' \in Seq(WriteSet) /\ Len(axi_wr_q') <= p2
           /\ axi_rd_q' = <<>> /\ axi_o'.r = None
           /\ InQueue(s, p, d2, p2, axi_wr_q')
           /\ \/ d2 = d /\ memory' = memory
              \/ /\ d2 = d + 1 /\ d < p2
                 /\ memory' = [memory EXCEPT ![x.addr + d] = WordData(s, p, d + 1)]
                 /\ WordData(s, p, d + 1) \in Contents
<1> DEFINE wr == WriteData(Aw, Wd)
<1>1. /\ x.addr \in Nat /\ x.len \in Nat /\ Len(axi_wr_q) \in Nat
      /\ p \in Nat /\ p2 \in Nat /\ d \in 0 .. x.len /\ d <= p /\ p <= p2
      /\ axi_rd_q = <<>>
  BY WriteState, SMTT(30)
<1>2. /\ wr \in Seq(WriteSet) /\ Len(wr) = p2 - d
      /\ Queued(x, s, p, d, wr)
      /\ WriteCommand(Aw) = IF awvalid_q \/ AwTaken
                            THEN [addr |-> x.addr + p, len |-> x.len, burst |-> "incr"]
                            ELSE None
  BY QueueStep
<1>3. p < x.taken => Wd.last = (p = x.len)
  <2>1. p < x.taken => Wd = [data |-> WordData(s, p, p + 1), last |-> p = x.len]
    BY Bus
  <2> QED
    BY <2>1
<1>4. Ar = None
  BY Bus
<1> DEFINE write == wr # <<>> /\ ~delay.b
<1>5. /\ axi_wr_q' = IF write THEN Tail(wr) ELSE wr
      /\ axi_wr_req' = RestOfCommand(Aw, Wd)
      /\ memory' = IF write THEN [memory EXCEPT ![Head(wr).addr] = Head(wr).data] ELSE memory
      /\ axi_o'.b = (write /\ Head(wr).last)
  BY DEF Turn
<1>6. axi_rd_q' = <<>> /\ axi_o'.r = None
  <2>1. ReadCommand(Ar) = <<>>
    BY <1>1, <1>4 DEF ReadCommand
  <2> QED
    BY <2>1 DEF Turn
<1> HIDE DEF wr
<1>7. wr # <<>> =>
         /\ Head(wr) = wr[1] /\ 1 \in 1 .. Len(wr)
         /\ Tail(wr) \in Seq(WriteSet) /\ Len(Tail(wr)) = Len(wr) - 1
         /\ \A i \in 1 .. Len(Tail(wr)) : Tail(wr)[i] = wr[i + 1]
  <2> SUFFICES ASSUME wr # <<>>
               PROVE  /\ Head(wr) = wr[1] /\ 1 \in 1 .. Len(wr)
                      /\ Tail(wr) \in Seq(WriteSet) /\ Len(Tail(wr)) = Len(wr) - 1
                      /\ \A i \in 1 .. Len(Tail(wr)) : Tail(wr)[i] = wr[i + 1]
    OBVIOUS
  <2>1. Len(wr) \in Nat \ {0}
    BY <1>2, EmptySeq
  <2>2. 1 \in 1 .. Len(wr) /\ Head(wr) = wr[1]
    BY <1>2, <2>1
  <2> QED
    BY <1>2, <2>2, HeadTailProperties
<1>8. write =>
         /\ Head(wr) = [addr |-> x.addr + d, data |-> WordData(s, p, d + 1), last |-> d + 1 = x.len + 1]
         /\ WordData(s, p, d + 1) \in Contents
  <2> SUFFICES ASSUME wr # <<>>
               PROVE  /\ Head(wr) = [addr |-> x.addr + d, data |-> WordData(s, p, d + 1),
                                     last |-> d + 1 = x.len + 1]
                      /\ WordData(s, p, d + 1) \in Contents
    OBVIOUS
  <2>1. /\ wr[1] = [addr |-> x.addr + d + 1 - 1, data |-> WordData(s, p, d + 1),
                    last |-> d + 1 = x.len + 1]
        /\ WordData(s, p, d + 1) \in Contents
    BY <1>2, <1>7 DEF Queued
  <2>2. x.addr + d + 1 - 1 = x.addr + d
    BY <1>1
  <2> QED
    BY <1>7, <2>1, <2>2
<1>9. /\ axi_wr_q' \in Seq(WriteSet) /\ Len(axi_wr_q') \in Nat
      /\ d2 \in Nat /\ Len(axi_wr_q') = p2 - d2
      /\ d2 = IF write THEN d + 1 ELSE d
      /\ Queued(x, s, p, d2, axi_wr_q')
  <2>1. CASE ~write
    <3>1. axi_wr_q' = wr /\ d2 = d
      BY <1>1, <1>2, <1>5, <2>1
    <3>2. axi_wr_q' \in Seq(WriteSet) /\ Len(axi_wr_q') \in Nat
      <4>1. Len(wr) \in Nat
        BY <1>2, LenProperties
      <4> QED
        BY <1>2, <3>1, <4>1
    <3>3. Queued(x, s, p, d2, axi_wr_q')
      BY <1>2, <3>1
    <3>4. d2 \in Nat /\ Len(axi_wr_q') = p2 - d2
      BY <1>1, <1>2, <3>1
    <3> QED
      BY <2>1, <3>1, <3>2, <3>3, <3>4
  <2>2. CASE write
    <3>1. axi_wr_q' = Tail(wr) /\ Len(Tail(wr)) = Len(wr) - 1 /\ Len(wr) \in Nat
      BY <1>2, <1>5, <1>7, <2>2, LenProperties
    <3>2. d2 = d + 1 /\ Len(axi_wr_q') = p2 - d2 /\ Len(axi_wr_q') \in Nat /\ d2 \in Nat
      <4>1. Len(axi_wr_q') \in Nat
        BY <1>7, <2>2, <3>1, LenProperties
      <4>2. Len(axi_wr_q') = p2 - d - 1
        BY <1>2, <3>1
      <4>3. d2 = p2 - (p2 - d - 1)
        BY <4>2
      <4> QED
        BY <1>1, <4>1, <4>2, <4>3
    <3>3. Queued(x, s, p, d2, axi_wr_q')
      <4> SUFFICES ASSUME NEW i \in 1 .. Len(Tail(wr))
                   PROVE  /\ WordData(s, p, d2 + i) \in Contents
                          /\ Tail(wr)[i] = [addr |-> x.addr + d2 + i - 1,
                                            data |-> WordData(s, p, d2 + i),
                                            last |-> d2 + i = x.len + 1]
        BY <3>1 DEF Queued
      <4>1. i + 1 \in 1 .. Len(wr) /\ i \in Nat
        BY <3>1
      <4>2. /\ WordData(s, p, d + (i + 1)) \in Contents
            /\ wr[i + 1] = [addr |-> x.addr + d + (i + 1) - 1, data |-> WordData(s, p, d + (i + 1)),
                            last |-> d + (i + 1) = x.len + 1]
        BY <1>2, <4>1 DEF Queued
      <4>3. d + (i + 1) = d2 + i /\ x.addr + d + (i + 1) - 1 = x.addr + d2 + i - 1
        <5>1. i \in Nat /\ d \in Nat /\ x.addr \in Nat /\ d2 = d + 1
          BY <1>1, <3>2, <4>1
        <5>2. \A a, e, j \in Nat : /\ e + (j + 1) = (e + 1) + j
                                 /\ a + e + (j + 1) - 1 = a + (e + 1) + j - 1
          OBVIOUS
        <5>3. /\ d + (i + 1) = (d + 1) + i
              /\ x.addr + d + (i + 1) - 1 = x.addr + (d + 1) + i - 1
          BY <5>1, <5>2, Zenon
        <5> QED
          BY <5>1, <5>3, Zenon
      <4>4. Tail(wr)[i] = wr[i + 1]
        BY <1>7, <2>2
      <4> QED
        BY <4>2, <4>3, <4>4
    <3> QED
      BY <1>7, <2>2, <3>1, <3>2, <3>3
  <2> QED
    BY <2>1, <2>2
<1>10. InQueue(s, p, d2, p2, axi_wr_q')
  <2> SUFFICES ASSUME NEW k \in d2 + 1 .. p2
               PROVE  axi_wr_q'[k - p2 + Len(axi_wr_q')].data = WordData(s, p, k)
    BY DEF InQueue
  <2> DEFINE i == k - d2
  <2>1. i \in 1 .. Len(axi_wr_q') /\ k - p2 + Len(axi_wr_q') = i /\ d2 + i = k
    BY <1>1, <1>9, SMTT(30)
  <2> HIDE DEF i
  <2>2. axi_wr_q'[i].data = WordData(s, p, d2 + i)
    <3>1. axi_wr_q'[i] = [addr |-> x.addr + d2 + i - 1, data |-> WordData(s, p, d2 + i),
                          last |-> d2 + i = x.len + 1]
      BY <1>9, <2>1 DEF Queued
    <3> QED
      BY <3>1
  <2> QED
    BY <2>1, <2>2
<1>11. axi_wr_req' = IF awvalid_q' THEN [addr |-> x.addr + p2, len |-> x.len, burst |-> "incr"]
                     ELSE None
  <2>1. CASE ~WdTaken
    <3>1. axi_wr_req' = WriteCommand(Aw) /\ (awvalid_q' <=> awvalid_q \/ AwTaken) /\ p2 = p
      BY <1>5, <2>1 DEF RestOfCommand, TakesData, WdTaken
    <3> QED
      BY <1>2, <3>1
  <2>2. CASE WdTaken /\ p = x.len
    <3>1. axi_wr_req' = None
      BY <1>3, <1>5, <2>2 DEF RestOfCommand, TakesData, WdTaken
    <3> QED
      BY <2>2, <3>1
  <2>3. CASE WdTaken /\ p # x.len
    <3> DEFINE c == [addr |-> x.addr + p, len |-> x.len, burst |-> "incr"]
    <3>1. ~Wd.last /\ WriteCommand(Aw) = c /\ awvalid_q' /\ p2 = p + 1
      BY <1>2, <1>3, <2>3
    <3>2. axi_wr_req' = [c EXCEPT !.addr = NextAddr(c.addr, c.burst, c.len)]
      BY <1>5, <2>3, <3>1 DEF RestOfCommand, TakesData, WdTaken
    <3>3. NextAddr(c.addr, c.burst, c.len) = x.addr + p + 1
      BY DEF NextAddr
    <3>4. axi_wr_req' = [addr |-> x.addr + p + 1, len |-> x.len, burst |-> "incr"]
      BY <3>2, <3>3
    <3>5. x.addr + p + 1 = x.addr + p2
      BY <1>1, <3>1
    <3> QED
      BY <3>1, <3>4, <3>5
  <2> QED
    BY <2>1, <2>2, <2>3
<1>12. axi_o'.b <=> d2 = x.len + 1
  <2>1. CASE write
    <3>1. Head(wr).last = (d + 1 = x.len + 1)
      BY <1>8, <2>1
    <3> QED
      BY <1>5, <1>9, <2>1, <3>1
  <2>2. CASE ~write
    <3>1. d2 = d /\ d # x.len + 1
      BY <1>1, <1>9, <2>2, SMTT(30)
    <3> QED
      BY <1>5, <2>2, <3>1
  <2> QED
    BY <2>1, <2>2
<1>13. Memory(x, p2)'
  <2>1. Len(axi_wr_q') <= p2 /\ (axi_o'.b <=> p2 - Len(axi_wr_q') = x.len + 1)
    BY <1>1, <1>9, <1>12
  <2>2. \A i \in 1 .. Len(axi_wr_q') :
          \E data \in Contents :
              axi_wr_q'[i] = [addr |-> x.addr + p2 - Len(axi_wr_q') + i - 1, data |-> data,
                              last |-> p2 - Len(axi_wr_q') + i = x.len + 1]
    <3> TAKE i \in 1 .. Len(axi_wr_q')
    <3>1. /\ WordData(s, p, d2 + i) \in Contents
          /\ axi_wr_q'[i] = [addr |-> x.addr + d2 + i - 1, data |-> WordData(s, p, d2 + i),
                             last |-> d2 + i = x.len + 1]
      BY <1>9 DEF Queued
    <3>2. /\ x.addr + p2 - Len(axi_wr_q') + i - 1 = x.addr + d2 + i - 1
          /\ p2 - Len(axi_wr_q') + i = d2 + i
      BY <1>1, <1>9
    <3> QED
      BY <3>1, <3>2
  <2> QED
    BY <1>11, <2>1, <2>2 DEF Memory
<1>14. \/ d2 = d /\ memory' = memory
       \/ /\ d2 = d + 1 /\ d < p2
          /\ memory' = [memory EXCEPT ![x.addr + d] = WordData(s, p, d + 1)]
          /\ WordData(s, p, d + 1) \in Contents
  <2>1. CASE ~write
    BY <1>5, <1>9, <2>1
  <2>2. CASE write
    <3>1. d2 = d + 1 /\ d < p2
      BY <1>1, <1>9, <2>2, SMTT(30)
    <3>2. Head(wr).addr = x.addr + d /\ Head(wr).data = WordData(s, p, d + 1)
      BY <1>8, <2>2
    <3> QED
      BY <1>5, <1>8, <2>2, <3>1, <3>2
  <2> QED
    BY <2>1, <2>2
<1>15. Len(axi_wr_q') <= p2
  BY <1>1, <1>9
<1> QED
  BY <1>6, <1>9, <1>10, <1>13, <1>14, <1>15

(* The client hands over the next word of the write or none, and the FIFO  *)
(* keeps the words of one transfer in their order.                         *)
LEMMA FifoStep ==
    ASSUME IInv, NEW x, NEW s, NEW p, Writing(x, s, p),
           NEW beat, Plays(beat), Bridge(beat), Pop => req_fifo # <<>>,
           NEW s2, s2 = (IF Pop THEN s + 1 ELSE s), NEW y, y = xfer'
    PROVE  /\ WellFormed(y) /\ y.kind = "wr" /\ y.answered = 0
           /\ y.addr = x.addr /\ y.len = x.len /\ y.taken \in 1 .. y.len + 1
           /\ \/ y = x /\ Taken(beat) = None
              \/ /\ y = [x EXCEPT !.taken = @ + 1] /\ y.taken = x.taken + 1
                 /\ Taken(beat) = beat /\ Continues(x, beat)
           /\ req_fifo' \in Seq(BeatSet) /\ Len(req_fifo') <= 2
           /\ Len(req_fifo') \in Nat /\ s2 \in Nat /\ s2 + Len(req_fifo') = y.taken
           /\ \A k \in s2 + 1 .. x.taken : req_fifo'[k - s2] = req_fifo[k - s]
           /\ y # x => req_fifo'[y.taken - s2] = beat
<1>1. /\ x \in Transfers /\ x.kind = "wr" /\ x.answered = 0 /\ WellFormed(x)
      /\ x.addr \in Nat /\ x.len \in Nat /\ x.taken \in 1 .. x.len + 1
      /\ Len(req_fifo) \in Nat /\ s \in 0 .. x.taken /\ s + Len(req_fifo) = x.taken
      /\ Pending = x /\ x # None /\ x = xfer
  BY WriteState DEF Writing
<1>2. req_fifo \in Seq(BeatSet) /\ Len(req_fifo) <= 2
  BY DEF IInv, Types
<1>0. /\ x.taken \in Nat /\ Len(req_fifo) \in Nat /\ s \in Nat /\ s + Len(req_fifo) = x.taken
      /\ Len(req_fifo) <= 2
  BY <1>1, <1>2
<1> DEFINE left == IF Pop THEN Tail(req_fifo) ELSE req_fifo
           more == beat # None /\ InportAccept
<1>3. req_fifo' = left \o (IF more THEN <<beat>> ELSE <<>>)
  BY DEF Bridge, Pop
<1>4. /\ left \in Seq(BeatSet) /\ Len(left) \in Nat /\ s2 \in Nat /\ s2 + Len(left) = x.taken
      /\ Len(left) <= Len(req_fifo)
      /\ \A k \in s2 + 1 .. x.taken : left[k - s2] = req_fifo[k - s]
  <2>1. CASE ~Pop
    BY <1>1, <1>2, <2>1
  <2>2. CASE Pop
    <3>1. /\ Tail(req_fifo) \in Seq(BeatSet) /\ Len(Tail(req_fifo)) = Len(req_fifo) - 1
          /\ \A i \in 1 .. Len(Tail(req_fifo)) : Tail(req_fifo)[i] = req_fifo[i + 1]
      BY <1>2, <2>2, HeadTailProperties
    <3>2. Len(req_fifo) # 0
      BY <1>2, <2>2, EmptySeq
    <3>3. s2 = s + 1 /\ left = Tail(req_fifo)
      BY <2>2
    <3>4. \A k \in s2 + 1 .. x.taken : left[k - s2] = req_fifo[k - s]
      <4> TAKE k \in s2 + 1 .. x.taken
      <4> DEFINE i == k - s2
      <4>1. i \in 1 .. Len(Tail(req_fifo)) /\ i + 1 = k - s
        <5>1. k \in s + 1 + 1 .. s + Len(req_fifo) /\ Len(Tail(req_fifo)) = Len(req_fifo) - 1
          BY <1>0, <3>1, <3>3
        <5>2. i = k - (s + 1)
          BY <3>3
        <5> QED
          BY <1>0, <5>1, <5>2
      <4> HIDE DEF i
      <4>2. left[i] = req_fifo[i + 1]
        BY <3>1, <3>3, <4>1
      <4> QED
        BY <4>1, <4>2 DEF i
    <3>5. Len(Tail(req_fifo)) \in Nat /\ s2 \in Nat /\ s2 + Len(Tail(req_fifo)) = x.taken
      <4>1. \A a, b, c \in Nat : b # 0 /\ a + b = c => b - 1 \in Nat /\ a + 1 \in Nat /\ a + 1 + (b - 1) = c
        OBVIOUS
      <4>2. /\ Len(req_fifo) - 1 \in Nat /\ s + 1 \in Nat
            /\ s + 1 + (Len(req_fifo) - 1) = x.taken
        BY <1>0, <3>2, <4>1, Zenon
      <4>3. s2 = s + 1 /\ Len(Tail(req_fifo)) = Len(req_fifo) - 1
        BY <3>1, <3>3
      <4> HIDE DEF left
      <4> QED
        BY <4>2, <4>3, Zenon
    <3>6. Len(Tail(req_fifo)) <= Len(req_fifo)
      BY <1>0, <3>1
    <3> HIDE DEF left
    <3> QED
      BY <3>1, <3>3, <3>4, <3>5, <3>6
  <2> QED
    BY <2>1, <2>2
<1> HIDE DEF left
<1>5. CASE Taken(beat) = None /\ xfer' = Pending
  <2>1. ~more
    BY <1>5 DEF Taken
  <2>2. req_fifo' = left
    BY <1>3, <1>4, <2>1, ConcatEmptySeq
  <2>3. y = x
    BY <1>1, <1>5
  <2> QED
    BY <1>1, <1>2, <1>4, <1>5, <2>2, <2>3
<1>6. CASE /\ Taken(beat) = beat /\ Continues(x, beat)
           /\ xfer' = [x EXCEPT !.taken = @ + 1]
  <2>1. PICK data \in Contents : beat = BeatOf(x, x.taken + 1, data)
    BY <1>6 DEF Continues
  <2>2. beat \in BeatSet /\ beat # None
    <3>1. beat \in BeatSet
      BY <1>1, <2>1 DEF BeatOf, Beat, BeatSet
    <3> QED
      BY <3>1, NotNone
  <2>3. more /\ InportAccept
    BY <1>6, <2>2 DEF Taken
  <2>4. /\ req_fifo' \in Seq(BeatSet) /\ Len(req_fifo') = Len(left) + 1
        /\ \A i \in 1 .. Len(left) : req_fifo'[i] = left[i]
        /\ req_fifo'[Len(left) + 1] = beat
    <3>1. req_fifo' = Append(left, beat)
      BY <1>3, <1>4, <2>2, <2>3
    <3> HIDE DEF more
    <3> QED
      BY <1>4, <2>2, <3>1, AppendProperties
  <2>5. Len(req_fifo') <= 2
    <3>1. Len(req_fifo) # 2
      BY <2>3 DEF InportAccept
    <3>2. Len(left) <= Len(req_fifo) /\ Len(left) \in Nat /\ Len(req_fifo') = Len(left) + 1
      BY <1>4, <2>4
    <3>3. \A a, b \in Nat : a <= 2 /\ a # 2 /\ b <= a => b + 1 <= 2
      OBVIOUS
    <3> QED
      BY <1>0, <3>1, <3>2, <3>3, Zenon
  <2>6. /\ y \in Transfers /\ y.taken = x.taken + 1 /\ y.addr = x.addr /\ y.len = x.len
        /\ y.kind = "wr" /\ y.answered = 0
    BY <1>1, <1>6 DEF Transfers
  <2>7. y.taken \in 1 .. y.len + 1
    BY <1>1, <1>6, <2>6 DEF Continues
  <2>8. WellFormed(y)
    BY <1>1, <2>6 DEF WellFormed
  <2>9. s2 + Len(req_fifo') = y.taken /\ y.taken - s2 = Len(left) + 1
    <3>1. /\ s2 + Len(left) = x.taken /\ Len(left) \in Nat /\ s2 \in Nat
          /\ Len(req_fifo') = Len(left) + 1 /\ y.taken = x.taken + 1
      BY <1>4, <2>4, <2>6
    <3> QED
      BY <3>1
  <2>10. \A k \in s2 + 1 .. x.taken : req_fifo'[k - s2] = req_fifo[k - s]
    <3> TAKE k \in s2 + 1 .. x.taken
    <3>1. k - s2 \in 1 .. Len(left)
      BY <1>1, <1>4
    <3> QED
      BY <1>4, <2>4, <3>1
  <2>11. req_fifo'[y.taken - s2] = beat
    BY <2>4, <2>9, Zenon
  <2>12. Len(req_fifo') \in Nat /\ s2 \in Nat
    BY <1>4, <2>4
  <2> QED
    BY <1>6, <2>4, <2>5, <2>6, <2>7, <2>8, <2>9, <2>10, <2>11, <2>12
<1> QED
  BY <1>1, <1>5, <1>6 DEF Plays

(* A cycle of a write keeps the invariant, with the counters moved on by   *)
(* the words that went from the FIFO and into the memory.                  *)
LEMMA WriteKeeps ==
    ASSUME IInv, NEW x, NEW s, NEW p, Writing(x, s, p),
           NEW beat, NEW delay \in Delays,
           Plays(beat), Bridge(beat), Widget, Turn(Ar, Aw, Wd, delay),
           NEW s2, s2 = (IF Pop THEN s + 1 ELSE s), NEW p2, p2 = (IF WdTaken THEN p + 1 ELSE p),
           NEW y, y = xfer'
    PROVE  /\ IInv'
           /\ WellFormed(y) /\ Writes(y)' /\ s2 = Sent(y)' /\ p2 = Put(y)'
<1> DEFINE d == p - Len(axi_wr_q)  d2 == p2 - Len(axi_wr_q')
<1>1. /\ x.addr \in Nat /\ x.len \in Nat /\ x.taken \in 1 .. x.len + 1
      /\ Len(req_fifo) \in Nat /\ s \in Nat /\ s + Len(req_fifo) = x.taken
      /\ Fifo(x, s)
  BY WriteState
<1>2. /\ WdTaken => p < x.taken /\ (awvalid_q \/ AwTaken)
      /\ AwTaken => p < x.taken /\ ~awvalid_q
      /\ Pop => req_fifo # <<>>
      /\ (awvalid_q' <=> (awvalid_q \/ AwTaken) /\ ~(WdTaken /\ p = x.len))
      /\ ~wvalid_q' /\ {valid_q', awvalid_q', wvalid_q', wlast_q'} \subseteq BOOLEAN
      /\ p2 = (IF valid_q' THEN s2 - 1 ELSE s2)
      /\ Skid(x, s2)'
  BY WidgetStep
<1>3. /\ WellFormed(y) /\ y.kind = "wr" /\ y.answered = 0
      /\ y.addr = x.addr /\ y.len = x.len /\ y.taken \in 1 .. y.len + 1
      /\ \/ y = x
         \/ y # x /\ y.taken = x.taken + 1 /\ Continues(x, beat)
      /\ req_fifo' \in Seq(BeatSet) /\ Len(req_fifo') <= 2
      /\ Len(req_fifo') \in Nat /\ s2 \in Nat /\ s2 + Len(req_fifo') = y.taken
      /\ \A k \in s2 + 1 .. x.taken : req_fifo'[k - s2] = req_fifo[k - s]
      /\ y # x => req_fifo'[y.taken - s2] = beat
  BY <1>2, FifoStep
<1>4. /\ Memory(x, p2)'
      /\ axi_wr_q' \in Seq(WriteSet)
      /\ axi_rd_q' = <<>> /\ axi_o'.r = None
      /\ \/ d2 = d /\ memory' = memory
         \/ /\ memory' = [memory EXCEPT ![x.addr + d] = WordData(s, p, d + 1)]
            /\ WordData(s, p, d + 1) \in Contents
  BY <1>2, MemoryStep
<1>5. Counts(x, s2)'
  BY CountStep
<1> HIDE DEF d, d2
<1>6. s2 = y.taken - Len(req_fifo') /\ Len(req_fifo') <= y.taken
  BY <1>3
<1>7. s2 = Sent(y)' /\ p2 = Put(y)'
  BY <1>2, <1>6 DEF Sent, Put
<1>8. Counts(y, s2)' /\ Skid(y, s2)' /\ Memory(y, p2)'
  <2>1. \A data : BeatOf(y, 1, data) = BeatOf(x, 1, data)
    BY <1>3 DEF BeatOf
  <2>2. Counts(y, s2)'
    BY <1>3, <1>5 DEF Counts
  <2>3. Skid(y, s2)'
    BY <1>2, <1>3, <2>1 DEF Skid
  <2>4. Memory(y, p2)'
    <3>1. y.addr = x.addr /\ y.len = x.len /\ Memory(x, p2)'
      BY <1>3, <1>4
    <3>2. axi_wr_req' = IF awvalid_q' THEN [addr |-> y.addr + p2, len |-> y.len, burst |-> "incr"]
                        ELSE None
      BY <3>1, Zenon DEF Memory
    <3>3. Len(axi_wr_q') <= p2 /\ (axi_o'.b <=> p2 - Len(axi_wr_q') = y.len + 1)
      BY <3>1 DEF Memory
    <3>4. \A i \in 1 .. Len(axi_wr_q') :
             \E data \in Contents :
                 axi_wr_q'[i] = [addr |-> y.addr + p2 - Len(axi_wr_q') + i - 1, data |-> data,
                                 last |-> p2 - Len(axi_wr_q') + i = y.len + 1]
      <4> TAKE i \in 1 .. Len(axi_wr_q')
      <4>1. PICK data \in Contents :
               axi_wr_q'[i] = [addr |-> x.addr + p2 - Len(axi_wr_q') + i - 1, data |-> data,
                               last |-> p2 - Len(axi_wr_q') + i = x.len + 1]
        BY <3>1 DEF Memory
      <4> QED
        BY <3>1, <4>1
    <3> QED
      BY <3>2, <3>3, <3>4 DEF Memory
  <2> QED
    BY <2>2, <2>3, <2>4
<1>9. Fifo(y, s2)'
  <2> SUFFICES ASSUME NEW i \in 1 .. Len(req_fifo')
               PROVE  \E data \in Contents : req_fifo'[i] = BeatOf(y, s2 + i, data)
    BY DEF Fifo
  <2> DEFINE k == s2 + i
  <2>0. \A data : BeatOf(y, k, data) = BeatOf(x, k, data)
    BY <1>3 DEF BeatOf
  <2>1. k - s2 = i /\ k \in s2 + 1 .. y.taken
    BY <1>3
  <2>2. k \in s2 + 1 .. x.taken \/ (y # x /\ k = y.taken /\ k = x.taken + 1 /\ Continues(x, beat))
    <3>1. y.taken = x.taken \/ (y # x /\ y.taken = x.taken + 1 /\ Continues(x, beat))
      BY <1>3
    <3>2. x.taken \in Nat /\ k \in s2 + 1 .. y.taken /\ s2 \in Nat
      BY <1>1, <1>3, <2>1
    <3> HIDE DEF k
    <3> QED
      BY <3>1, <3>2
  <2>3. CASE k \in s2 + 1 .. x.taken
    <3> DEFINE j == k - s
    <3>1. s2 \in {s, s + 1}
      OBVIOUS
    <3>2. j \in 1 .. Len(req_fifo) /\ s + j = k
      BY <1>1, <1>3, <2>3, <3>1
    <3> HIDE DEF k
    <3>3. req_fifo'[i] = req_fifo[j]
      BY <1>3, <2>1, <2>3
    <3> HIDE DEF j
    <3>4. PICK data \in Contents : req_fifo[j] = BeatOf(x, s + j, data)
      BY <1>1, <3>2 DEF Fifo
    <3>5. req_fifo'[i] = BeatOf(y, k, data)
      BY <2>0, <3>2, <3>3, <3>4
    <3> QED
      BY <3>5 DEF k
  <2>4. CASE y # x /\ k = y.taken /\ k = x.taken + 1 /\ Continues(x, beat)
    <3> HIDE DEF k
    <3>1. req_fifo'[i] = beat
      BY <1>3, <2>1, <2>4
    <3>2. PICK data \in Contents : beat = BeatOf(x, x.taken + 1, data)
      BY <2>4 DEF Continues
    <3>3. req_fifo'[i] = BeatOf(y, k, data)
      BY <2>0, <2>4, <3>1, <3>2
    <3> QED
      BY <3>3 DEF k
  <2> HIDE DEF k
  <2> QED
    BY <2>2, <2>3, <2>4
<1>10. Writes(y)'
  BY <1>3, <1>4, <1>6, <1>7, <1>8, <1>9 DEF Writes, NoRead
<1>11. memory' \in [0 .. Size - 1 -> Contents]
  <2>1. memory \in [0 .. Size - 1 -> Contents]
    BY DEF IInv, Types
  <2> QED
    BY <1>4, <2>1
<1>12. /\ axi_o' \in [arready : BOOLEAN, awready : BOOLEAN, wready : BOOLEAN,
                     r : Answers \cup {None}, b : BOOLEAN]
       /\ axi_o'.awready => axi_wr_req' = None
       /\ axi_o'.wready => axi_o'.awready \/ axi_wr_req' # None
  BY <1>4, OutTyped
<1>13. Types'
  <2>1. {valid_q, awvalid_q, wvalid_q, wlast_q}' \subseteq BOOLEAN
    BY <1>2
  <2>2. axi_rd_q' \in Seq([addr : Nat, last : BOOLEAN])
    BY <1>4
  <2>3. axi_wr_q' \in Seq([addr : Nat, data : Contents, last : BOOLEAN])
    BY <1>4 DEF WriteSet
  <2> QED
    BY <1>3, <1>11, <1>12, <2>1, <2>2, <2>3 DEF Types
<1>14. Ready'
  BY <1>2, <1>12 DEF Ready
<1>15. Writes(xfer)' /\ WellFormed(xfer)'
  <2>1. WellFormed(xfer)'
    BY <1>3 DEF WellFormed
  <2>2. Writes(xfer)'
    <3>1. Sent(xfer)' = s2 /\ Put(xfer)' = p2
      BY <1>7 DEF Sent, Put
    <3>2. Counts(xfer, Sent(xfer))'
      BY <1>8, <3>1 DEF Counts
    <3>3. Fifo(xfer, Sent(xfer))'
      BY <1>9, <3>1, Zenon DEF Fifo, BeatOf
    <3>4. Skid(xfer, Sent(xfer))'
      BY <1>8, <3>1, Zenon DEF Skid, BeatOf
    <3>5. Memory(xfer, Put(xfer))'
      <4>1. y = xfer' /\ Memory(y, p2)'
        BY <1>8
      <4> QED
        BY <3>1, <4>1 DEF Memory
    <3> QED
      BY <1>3, <1>4, <1>6, <3>2, <3>3, <3>4, <3>5 DEF Writes, NoRead
  <2> QED
    BY <2>1, <2>2
<1> QED
  BY <1>3, <1>7, <1>10, <1>13, <1>14, <1>15 DEF IInv

(* The next cycle of a write, whatever the client and the memory do.       *)
LEMMA WriteStep ==
    ASSUME IInv, xfer # None, Writes(xfer), ~axi_o.b,
           NEW beat, NEW delay \in Delays,
           Plays(beat), Bridge(beat), Widget, Turn(Ar, Aw, Wd, delay)
    PROVE  IInv'
<1>1. PICK x, s, p, s2, p2, y : /\ x = xfer /\ s = Sent(x) /\ p = Put(x)
                                /\ s2 = (IF Pop THEN s + 1 ELSE s)
                                /\ p2 = (IF WdTaken THEN p + 1 ELSE p) /\ y = xfer'
  OBVIOUS
<1>2. Writing(x, s, p)
  BY <1>1, PendingIs DEF Writing
<1> QED
  BY <1>1, <1>2, WriteKeeps

-----------------------------------------------------------------------------
(* The invariant, and what follows from it. *)

(* The invariant is inductive.                                             *)
LEMMA AxiStep == IInv /\ [Next]_vars => IInv'
<1> SUFFICES ASSUME IInv, [Next]_vars PROVE IInv'
  OBVIOUS
<1>1. CASE Next
  <2>1. PICK beat, delay : /\ delay \in Delays
                           /\ Plays(beat)
                           /\ Bridge(beat) /\ Widget /\ Turn(Ar, Aw, Wd, delay)
    BY <1>1, Decode
  <2>2. CASE Pending = None
    BY <2>1, <2>2, QuietStep
  <2>3. CASE Pending # None /\ Reads(xfer)
    BY <2>1, <2>3, PendingIs, ReadStep
  <2>4. CASE Pending # None /\ Writes(xfer)
    BY <2>1, <2>4, PendingIs, WriteStep
  <2> QED
    BY <2>2, <2>3, <2>4, PendingIs
<1>2. CASE UNCHANGED vars
  <2>1. /\ UNCHANGED <<memory, axi_rd_q, axi_wr_q, axi_wr_req, axi_o, xfer>>
        /\ UNCHANGED <<req_fifo, burst_cnt_q, resp_outstanding_q, req_cnt_q, valid_q, buf_q>>
        /\ UNCHANGED <<awvalid_q, wvalid_q, wlast_q>>
    BY <1>2 DEF vars, axiMemVars, axiVars
  <2>2. Types'
    BY <2>1 DEF IInv, Types
  <2>3. Ready'
    BY <2>1 DEF IInv, Ready
  <2>4. Idle => Idle'
    BY <2>1 DEF Idle, NoWrite, NoRead
  <2>5. Reads(xfer) => Reads(xfer)'
    BY <2>1 DEF Reads, NoWrite, NoRead, Waiting, Serving, Remain, Shown
  <2>6. Writes(xfer) => Writes(xfer)'
    <3>1. Counts(xfer, Sent(xfer)) => Counts(xfer, Sent(xfer))'
      BY <2>1 DEF Counts, Sent
    <3>2. Fifo(xfer, Sent(xfer)) => Fifo(xfer, Sent(xfer))'
      BY <2>1 DEF Fifo, Sent
    <3>3. Skid(xfer, Sent(xfer)) => Skid(xfer, Sent(xfer))'
      BY <2>1 DEF Skid, Sent
    <3>4. Memory(xfer, Put(xfer)) => Memory(xfer, Put(xfer))'
      BY <2>1 DEF Memory, Put, Sent
    <3> QED
      BY <2>1, <3>1, <3>2, <3>3, <3>4 DEF Writes, NoRead
  <2>7. WellFormed(xfer) => WellFormed(xfer)'
    BY <2>1 DEF WellFormed
  <2> QED
    BY <2>2, <2>3, <2>4, <2>5, <2>6, <2>7 DEF IInv
<1> QED
  BY <1>1, <1>2

(* In every state the bridge, the widget and the memory hold just the      *)
(* words of one transfer between those taken and those answered.           *)
THEOREM AxiInvariance == Spec => []IInv
BY AxiInit, AxiStep, PTL DEF Spec

(* The invariant bounds every counter and every queue.                     *)
LEMMA AxiTypes == IInv => TypeOK
<1> SUFFICES ASSUME IInv PROVE TypeOK
  OBVIOUS
<1>1. /\ LineWords \in Nat \ {0} /\ Size \in Nat
      /\ Len(axi_rd_q) \in Nat /\ Len(axi_wr_q) \in Nat /\ Len(req_fifo) \in Nat
      /\ memory \in [0 .. Size - 1 -> Contents] /\ Len(req_fifo) <= 2
      /\ valid_q \in BOOLEAN /\ {valid_q, awvalid_q, wvalid_q, wlast_q} \subseteq BOOLEAN
  BY AxiAssumption, AxiMemAssumption, LenProperties DEF IInv, Types
<1>2. CASE Pending = None /\ xfer = None
  <2>1. /\ axi_rd_q = <<>> /\ axi_wr_q = <<>> /\ axi_wr_req = None
        /\ burst_cnt_q = 0 /\ req_cnt_q = 0 /\ resp_outstanding_q \in 0 .. 2
    BY <1>2, QuietState DEF NoWrite
  <2> QED
    BY <1>1, <1>2, <2>1 DEF TypeOK
<1>3. CASE xfer # None /\ Reads(xfer)
  <2>1. /\ xfer.len \in 0 .. LineWords - 1 /\ xfer.kind = "rd" /\ xfer.taken = 1
        /\ xfer.answered \in 0 .. xfer.len /\ Shown(xfer) \in Nat
        /\ axi_wr_q = <<>> /\ axi_wr_req = None /\ burst_cnt_q = 0 /\ req_cnt_q = 0
    BY <1>3, PendingIs, InRegion DEF Reads, NoWrite
  <2>2. xfer.taken <= Beats(xfer) /\ xfer.answered < Replies(xfer)
    BY <2>1 DEF Beats, Replies
  <2>3. Len(axi_rd_q) <= LineWords /\ resp_outstanding_q \in 0 .. 2
    <3>1. CASE Waiting(xfer)
      BY <1>1, <3>1 DEF Waiting, NoRead
    <3>2. CASE Serving(xfer)
      <4>1. Len(axi_rd_q) = xfer.len + 1 - Shown(xfer) /\ resp_outstanding_q = 1
        BY <3>2 DEF Serving, Remain
      <4> QED
        BY <1>1, <2>1, <4>1
    <3> QED
      BY <1>3, <3>1, <3>2 DEF Reads
  <2> QED
    BY <1>1, <2>1, <2>2, <2>3 DEF TypeOK
<1>4. CASE xfer # None /\ Writes(xfer)
  <2> DEFINE x == xfer  s == Sent(x)  p == Put(x)
  <2>1. /\ x.len \in 0 .. LineWords - 1 /\ x.addr \in Nat /\ x.addr + x.len < Size
        /\ x.kind = "wr" /\ x.taken \in 1 .. x.len + 1
        /\ x.answered = 0 /\ axi_rd_q = <<>> /\ Len(req_fifo) <= x.taken
        /\ Counts(x, s) /\ Skid(x, s) /\ Memory(x, p)
    BY <1>4, PendingIs, InRegion DEF Writes, NoRead
  <2>2. s \in 0 .. x.len + 1
    BY <1>1, <2>1 DEF Sent
  <2>3. p = IF valid_q THEN s - 1 ELSE s
    BY DEF Put
  <2> HIDE DEF x, s, p
  <2>4. p \in 0 .. x.len + 1
    <3>1. valid_q => s = 1
      BY <2>1 DEF Skid
    <3> QED
      BY <2>1, <2>2, <2>3, <3>1
  <2>5. x.taken <= Beats(x) /\ x.answered < Replies(x)
    BY <2>1 DEF Beats, Replies
  <2>6. /\ burst_cnt_q \in 0 .. LineWords - 1 /\ req_cnt_q \in 0 .. LineWords - 1
        /\ resp_outstanding_q \in 0 .. 2
    <3>1. /\ resp_outstanding_q = (IF s = x.len + 1 THEN 1 ELSE 0)
          /\ burst_cnt_q = (IF s = 0 \/ s > x.len THEN 0 ELSE x.len - s)
          /\ req_cnt_q = (IF s = 0 THEN 0 ELSE x.len + 1 - s)
      BY <2>1 DEF Counts
    <3>2. s \in 1 .. x.len => x.len - s \in 0 .. LineWords - 1
      BY <1>1, <2>1, <2>2
    <3>3. s # 0 => x.len + 1 - s \in 0 .. LineWords - 1
      BY <1>1, <2>1, <2>2, SMTT(30)
    <3>4. ~(s = 0 \/ s > x.len) => s \in 1 .. x.len
      BY <1>1, <2>1, <2>2
    <3>5. 0 \in 0 .. LineWords - 1
      BY <1>1
    <3>6. burst_cnt_q \in 0 .. LineWords - 1
      BY <3>1, <3>2, <3>4, <3>5
    <3>7. req_cnt_q \in 0 .. LineWords - 1
      BY <3>1, <3>3, <3>5
    <3>8. resp_outstanding_q \in 0 .. 2
      BY <3>1
    <3> QED
      BY <3>6, <3>7, <3>8
  <2>7. axi_wr_req = None \/ axi_wr_req.addr \in 0 .. Size
    <3>1. axi_wr_req = None \/ axi_wr_req.addr = x.addr + p
      BY <2>1 DEF Memory
    <3>2. x.addr + p \in 0 .. Size
      BY <1>1, <2>1, <2>4, SMTT(30)
    <3> QED
      BY <3>1, <3>2
  <2>8. Len(axi_wr_q) <= LineWords
    <3>1. Len(axi_wr_q) <= p
      BY <2>1 DEF Memory
    <3> QED
      BY <1>1, <2>1, <2>4, <3>1
  <2>9. Len(axi_rd_q) <= LineWords
    BY <1>1, <2>1
  <2> QED
    BY <1>1, <2>5, <2>6, <2>7, <2>8, <2>9 DEF TypeOK, x
<1> QED
  BY <1>2, <1>3, <1>4, PendingIs

(* Every register has its type and the queues of the bridge and the memory *)
(* their bounds, for every burst length.                                   *)
THEOREM AxiTypesAreOK == Spec => []TypeOK
BY AxiInvariance, AxiTypes, PTL

(* With no transfer, or in a read, there is no data on the bus; in a write *)
(* it comes with the command or after it.                                  *)
LEMMA NoOrphan == IInv => NoOrphanData
<1> SUFFICES ASSUME IInv, Wd # None, axi_o.wready PROVE WriteCommand(Aw) # None
  BY DEF NoOrphanData, DataHasCommand, TakesData
<1>1. valid_q \/ (CanIssue /\ Head(req_fifo).kind = "wr")
  BY DEF Wd, OnBus, Word
<1>2. Pending # None
  BY <1>1, QuietState DEF CanIssue, NoWrite
<1>3. ~Reads(xfer)
  <2> SUFFICES ASSUME Reads(xfer) PROVE FALSE
    OBVIOUS
  <2>1. CanIssue /\ Head(req_fifo).kind = "wr"
    BY <1>1 DEF Reads, NoWrite
  <2>2. req_fifo = <<Beat("rd", xfer.addr, xfer.len, None)>>
    BY <2>1 DEF Reads, Waiting, Serving, CanIssue
  <2> QED
    BY <2>1, <2>2 DEF Beat
<1>4. /\ xfer # None /\ WellFormed(xfer) /\ Writes(xfer) /\ ~axi_o.b
  BY <1>2, <1>3, PendingIs
<1>5. PICK x, s, p : x = xfer /\ s = Sent(x) /\ p = Put(x)
  OBVIOUS
<1>6. Writing(x, s, p)
  BY <1>4, <1>5 DEF Writing
<1>7. p < x.taken
  BY <1>6, Bus
<1>8. Aw = IF awvalid_q THEN None ELSE [addr |-> x.addr, len |-> x.len, burst |-> "incr"]
  BY <1>6, <1>7, Bus
<1>9. axi_wr_req = IF awvalid_q THEN [addr |-> x.addr + p, len |-> x.len, burst |-> "incr"]
                   ELSE None
  BY <1>6, WriteState DEF Memory
<1>10. \A a, l \in Nat : [addr |-> a, len |-> l, burst |-> "incr"] # None
  <2>1. \A a, l \in Nat : [addr |-> a, len |-> l, burst |-> "incr"] \in Commands
    BY DEF Commands
  <2> QED
    BY <2>1, NotNone
<1>11. x.addr \in Nat /\ x.len \in Nat /\ x.addr + p \in Nat
  BY <1>6, WriteState
<1>12. CASE awvalid_q
  BY <1>8, <1>9, <1>10, <1>11, <1>12 DEF WriteCommand
<1>13. CASE ~awvalid_q
  <2>1. axi_wr_req = None /\ axi_o.awready
    BY <1>9, <1>13 DEF IInv, Ready
  <2>2. Aw = [addr |-> x.addr, len |-> x.len, burst |-> "incr"] /\ Aw # None
    BY <1>8, <1>10, <1>11, <1>13
  <2> QED
    BY <2>1, <2>2 DEF WriteCommand
<1> QED
  BY <1>12, <1>13

(* Data never reaches the memory without its command: the assertion of     *)
(* tb_axi4_mem.cpp never fails, whatever the delays of the channels.       *)
THEOREM NoDataIsOrphan == Spec => []NoOrphanData
BY AxiInvariance, NoOrphan, PTL

-----------------------------------------------------------------------------
(* The port of PmemPort.  Its memory is the one here with the words of a   *)
(* write that are still on their way.                                      *)

(* The elements of three sequences, one after the other.                   *)
LEMMA ThreeParts ==
    ASSUME NEW S, NEW q \in Seq(S), NEW r \in Seq(S), NEW t \in Seq(S)
    PROVE  /\ q \o r \o t \in Seq(S) /\ Len(q \o r \o t) = Len(q) + Len(r) + Len(t)
           /\ \A i \in 1 .. Len(q) + Len(r) + Len(t) :
                 (q \o r \o t)[i] = IF i <= Len(q) THEN q[i]
                                    ELSE IF i <= Len(q) + Len(r) THEN r[i - Len(q)]
                                    ELSE t[i - (Len(q) + Len(r))]
<1>1. Len(q) \in Nat /\ Len(r) \in Nat /\ Len(t) \in Nat
  BY LenProperties
<1> DEFINE u == q \o r
<1>2. /\ u \in Seq(S) /\ Len(u) = Len(q) + Len(r)
      /\ \A i \in 1 .. Len(q) + Len(r) : u[i] = IF i <= Len(q) THEN q[i] ELSE r[i - Len(q)]
  BY ConcatProperties
<1> HIDE DEF u
<1>3. /\ u \o t \in Seq(S) /\ Len(u \o t) = Len(u) + Len(t)
      /\ \A i \in 1 .. Len(u) + Len(t) : (u \o t)[i] = IF i <= Len(u) THEN u[i] ELSE t[i - Len(u)]
  <2>1. u \in Seq(S)
    BY <1>2
  <2> QED
    BY <2>1, ConcatProperties
<1>4. \A i \in 1 .. Len(q) + Len(r) + Len(t) :
         (u \o t)[i] = IF i <= Len(q) THEN q[i]
                       ELSE IF i <= Len(q) + Len(r) THEN r[i - Len(q)]
                       ELSE t[i - (Len(q) + Len(r))]
  <2> TAKE i \in 1 .. Len(q) + Len(r) + Len(t)
  <2>1. (u \o t)[i] = IF i <= Len(q) + Len(r) THEN u[i] ELSE t[i - (Len(q) + Len(r))]
    BY <1>2, <1>3
  <2>2. CASE i <= Len(q) + Len(r)
    <3>1. u[i] = IF i <= Len(q) THEN q[i] ELSE r[i - Len(q)]
      BY <1>1, <1>2, <2>2
    <3> QED
      BY <2>1, <2>2, <3>1
  <2>3. CASE ~(i <= Len(q) + Len(r))
    <3>1. ~(i <= Len(q))
      BY <1>1, <2>3
    <3> QED
      BY <2>1, <2>3, <3>1
  <2> QED
    BY <2>2, <2>3
<1> QED
  BY <1>1, <1>2, <1>3, <1>4 DEF u

(* The words on their way are those after the d the memory has written.    *)
LEMMA WayIs ==
    ASSUME IInv, NEW x, NEW s, NEW p, Writing(x, s, p), NEW d, d = p - Len(axi_wr_q)
    PROVE  /\ OnTheWay \in Seq(Contents \cup {None}) /\ Len(OnTheWay) = x.taken - d
           /\ \A j \in 1 .. x.taken - d : OnTheWay[j] = WordData(s, p, d + j)
<1> DEFINE D == Contents \cup {None}
           q == [i \in 1 .. Len(axi_wr_q) |-> axi_wr_q[i].data]
           r == IF valid_q THEN <<buf_q.beat.data>> ELSE <<>>
           t == [i \in 1 .. Len(req_fifo) |-> req_fifo[i].data]
<1>1. /\ x.taken \in Nat /\ Len(req_fifo) \in Nat /\ Len(axi_wr_q) \in Nat
      /\ valid_q \in BOOLEAN /\ ~wvalid_q
      /\ s \in Nat /\ s + Len(req_fifo) = x.taken
      /\ p \in Nat /\ p = (IF valid_q THEN s - 1 ELSE s) /\ Len(axi_wr_q) <= p
      /\ Fifo(x, s) /\ Skid(x, s)
  BY WriteState
<1>2. q \in Seq(D) /\ Len(q) = Len(axi_wr_q)
  <2>1. \A i \in 1 .. Len(axi_wr_q) : axi_wr_q[i].data \in D
    <3>1. \A i \in 1 .. Len(axi_wr_q) : axi_wr_q[i] \in [addr : Nat, data : Contents, last : BOOLEAN]
      BY LenProperties DEF IInv, Types
    <3> QED
      BY <3>1
  <2> QED
    BY <1>1, <2>1
<1>3. t \in Seq(D) /\ Len(t) = Len(req_fifo)
  <2>1. \A i \in 1 .. Len(req_fifo) : req_fifo[i].data \in D
    <3>1. \A i \in 1 .. Len(req_fifo) : req_fifo[i] \in BeatSet
      BY LenProperties DEF IInv, Types
    <3> QED
      BY <3>1 DEF BeatSet
  <2> QED
    BY <1>1, <2>1
<1>4. /\ r \in Seq(D) /\ Len(r) = IF valid_q THEN 1 ELSE 0
      /\ valid_q => r[1] = buf_q.beat.data
  <2>1. CASE valid_q
    <3>1. PICK data \in Contents : buf_q = [beat |-> BeatOf(x, 1, data), last |-> x.len = 0]
      BY <1>1, <2>1 DEF Skid
    <3>2. buf_q.beat.data = data
      BY <3>1 DEF BeatOf, Beat
    <3>3. r = <<data>> /\ data \in D
      BY <2>1, <3>2
    <3> HIDE DEF r, D
    <3> QED
      BY <2>1, <3>2, <3>3
  <2>2. CASE ~valid_q
    BY <2>2
  <2> QED
    BY <1>1, <2>1, <2>2
<1>5. OnTheWay = q \o r \o t
  <2>1. (IF valid_q /\ buf_q.beat.kind = "wr" /\ ~wvalid_q THEN <<buf_q.beat.data>> ELSE <<>>) = r
    <3>1. valid_q => buf_q.beat.kind = "wr"
      BY <1>1 DEF Skid, BeatOf, Beat
    <3> QED
      BY <1>1, <3>1
  <2>2. (IF req_fifo # <<>> /\ Head(req_fifo).kind = "wr"
         THEN [i \in 1 .. Len(req_fifo) |-> req_fifo[i].data] ELSE <<>>) = t
    <3>1. CASE req_fifo = <<>>
      <4>1. t = <<>>
        BY <3>1
      <4> QED
        BY <3>1, <4>1
    <3>2. CASE req_fifo # <<>>
      <4>1. req_fifo \in Seq(BeatSet)
        BY DEF IInv, Types
      <4>2. 1 \in 1 .. Len(req_fifo) /\ Head(req_fifo) = req_fifo[1]
        <5>1. Len(req_fifo) # 0
          BY <3>2, <4>1, EmptySeq
        <5> QED
          BY <1>1, <3>2, <4>1, <5>1
      <4>3. Head(req_fifo).kind = "wr"
        <5>1. PICK data \in Contents : req_fifo[1] = BeatOf(x, s + 1, data)
          BY <1>1, <4>2 DEF Fifo
        <5> QED
          BY <4>2, <5>1 DEF BeatOf, Beat
      <4> QED
        BY <3>2, <4>3
    <3> QED
      BY <3>1, <3>2
  <2> HIDE DEF r, t
  <2> QED
    BY <2>1, <2>2 DEF OnTheWay
<1>6. \A j \in 1 .. Len(axi_wr_q) : q[j] = axi_wr_q[j].data
  OBVIOUS
<1>7. \A j \in 1 .. Len(req_fifo) : t[j] = req_fifo[j].data
  OBVIOUS
<1> DEFINE v == IF valid_q THEN 1 ELSE 0
<1>8. /\ v \in Nat /\ (valid_q <=> v = 1) /\ v \in {0, 1} /\ s = p + v
      /\ x.taken - d = Len(axi_wr_q) + v + Len(req_fifo)
  BY <1>1
<1> HIDE DEF q, r, t, D, v
<1>9. /\ OnTheWay \in Seq(D) /\ Len(OnTheWay) = Len(axi_wr_q) + v + Len(req_fifo)
      /\ \A j \in 1 .. Len(axi_wr_q) + v + Len(req_fifo) :
            OnTheWay[j] = IF j <= Len(axi_wr_q) THEN q[j]
                          ELSE IF j <= Len(axi_wr_q) + v THEN r[j - Len(axi_wr_q)]
                          ELSE t[j - (Len(axi_wr_q) + v)]
  <2>1. Len(r) = v
    BY <1>4 DEF v
  <2>2. /\ q \o r \o t \in Seq(D) /\ Len(q \o r \o t) = Len(q) + Len(r) + Len(t)
        /\ \A i \in 1 .. Len(q) + Len(r) + Len(t) :
              (q \o r \o t)[i] = IF i <= Len(q) THEN q[i]
                                 ELSE IF i <= Len(q) + Len(r) THEN r[i - Len(q)]
                                 ELSE t[i - (Len(q) + Len(r))]
    <3>1. q \in Seq(D) /\ r \in Seq(D) /\ t \in Seq(D)
      BY <1>2, <1>3, <1>4
    <3> QED
      BY <3>1, ThreeParts
  <2> QED
    BY <1>2, <1>3, <1>5, <2>1, <2>2
<1>10. \A j \in 1 .. x.taken - d : OnTheWay[j] = WordData(s, p, d + j)
  <2> TAKE j \in 1 .. x.taken - d
  <2> PICK k \in Nat : k = d + j
    <3>1. d \in Nat /\ j \in Nat
      BY <1>1
    <3>2. d + j \in Nat
      BY <3>1
    <3> QED
      BY <3>2
  <2>0. /\ k <= p => WordData(s, p, k) = axi_wr_q[k - p + Len(axi_wr_q)].data
        /\ ~(k <= p) /\ k <= s => WordData(s, p, k) = buf_q.beat.data
        /\ ~(k <= p) /\ ~(k <= s) => WordData(s, p, k) = req_fifo[k - s].data
    BY WordPlace, Zenon
  <2> SUFFICES OnTheWay[j] = WordData(s, p, k)
    BY Zenon
  <2>1. j \in 1 .. Len(axi_wr_q) + v + Len(req_fifo)
    BY <1>8
  <2>2. CASE j <= Len(axi_wr_q)
    <3>1. k <= p /\ k - p + Len(axi_wr_q) = j /\ j \in 1 .. Len(axi_wr_q)
      BY <1>1, <2>1, <2>2
    <3>2. WordData(s, p, k) = axi_wr_q[k - p + Len(axi_wr_q)].data
      BY <2>0, <3>1, Zenon
    <3>3. OnTheWay[j] = axi_wr_q[j].data
      BY <1>6, <1>9, <2>1, <2>2, <3>1
    <3> QED
      BY <3>1, <3>2, <3>3
  <2>3. CASE ~(j <= Len(axi_wr_q)) /\ j <= Len(axi_wr_q) + v
    <3>1. ~(k <= p) /\ k <= s /\ j - Len(axi_wr_q) = 1 /\ valid_q
      <4>1. Len(axi_wr_q) \in Nat
        BY <1>1
      <4>2. v = 1 /\ j = Len(axi_wr_q) + 1
        BY <1>8, <2>3, <4>1
      <4>3. valid_q /\ s = p + 1
        BY <1>8, <4>2
      <4>4. k = p + 1
        BY <1>1, <4>1, <4>2
      <4> QED
        BY <1>1, <4>1, <4>2, <4>3, <4>4
    <3>2. WordData(s, p, k) = buf_q.beat.data
      BY <2>0, <3>1, Zenon
    <3>3. OnTheWay[j] = r[j - Len(axi_wr_q)]
      BY <1>9, <2>1, <2>3
    <3> QED
      BY <1>4, <3>1, <3>2, <3>3
  <2>4. CASE ~(j <= Len(axi_wr_q)) /\ ~(j <= Len(axi_wr_q) + v)
    <3> DEFINE i == j - (Len(axi_wr_q) + v)
    <3>1. ~(k <= p) /\ ~(k <= s) /\ k - s = i /\ i \in 1 .. Len(req_fifo)
      BY <1>1, <1>8, <2>1, <2>4, SMTT(30)
    <3>2. OnTheWay[j] = t[i]
      BY <1>9, <2>1, <2>4
    <3> HIDE DEF i
    <3>3. WordData(s, p, k) = req_fifo[k - s].data
      BY <2>0, <3>1, Zenon
    <3> QED
      BY <1>7, <3>1, <3>2, <3>3
  <2> QED
    BY <2>2, <2>3, <2>4
<1> QED
  BY <1>8, <1>9, <1>10 DEF D

(* The memory with the words taken but not written.                        *)
Image(x, s, p) ==
    [a \in 0 .. Size - 1 |-> IF a \in x.addr + (p - Len(axi_wr_q)) .. x.addr + x.taken - 1
                             THEN WordData(s, p, a - x.addr + 1) ELSE memory[a]]

ImageIs == \A x, s, p : IInv /\ Writing(x, s, p) => PortMem = Image(x, s, p)

(* In a write the port has every word that the bridge has taken.           *)
LEMMA MemIsImage == ImageIs
<1> SUFFICES ASSUME NEW x, NEW s, NEW p, IInv, Writing(x, s, p)
             PROVE  PortMem = Image(x, s, p)
  BY DEF ImageIs
<1> DEFINE d == p - Len(axi_wr_q)
<1>1. /\ x.addr \in Nat /\ x.taken \in Nat /\ d \in Nat /\ d <= x.taken /\ x = xfer
      /\ DOMAIN memory = 0 .. Size - 1
  <2>1. /\ x.addr \in Nat /\ x.taken \in Nat /\ Len(axi_wr_q) \in Nat /\ Len(axi_wr_q) <= p
        /\ p \in Nat /\ p <= x.taken
    BY WriteState
  <2> QED
    BY <2>1 DEF Writing, IInv, Types
<1>2. /\ OnTheWay \in Seq(Contents \cup {None}) /\ Len(OnTheWay) = x.taken - d
      /\ \A j \in 1 .. x.taken - d : OnTheWay[j] = WordData(s, p, d + j)
  BY WayIs
<1>3. Image(x, s, p) = [a \in 0 .. Size - 1 |-> IF a \in x.addr + d .. x.addr + x.taken - 1
                                              THEN WordData(s, p, a - x.addr + 1) ELSE memory[a]]
  BY DEF Image
<1> HIDE DEF d
<1>4. CASE OnTheWay = <<>>
  <2>1. x.taken - d = 0
    BY <1>2, <1>4, EmptySeq
  <2>2. \A a \in 0 .. Size - 1 : ~(a \in x.addr + d .. x.addr + x.taken - 1)
    BY <1>1, <2>1
  <2>3. Image(x, s, p) = [a \in 0 .. Size - 1 |-> memory[a]]
    BY <1>3, <2>2
  <2>4. memory \in [0 .. Size - 1 -> Contents]
    BY DEF IInv, Types
  <2> QED
    BY <1>4, <2>3, <2>4 DEF PortMem
<1>5. CASE OnTheWay # <<>>
  <2> DEFINE first == xfer.addr + xfer.taken - Len(OnTheWay)
  <2>1. PortMem = [a \in 0 .. Size - 1 |->
                     IF a \in first .. first + Len(OnTheWay) - 1 THEN OnTheWay[a - first + 1]
                     ELSE memory[a]]
    BY <1>1, <1>5 DEF PortMem
  <2>2. first = x.addr + d /\ first + Len(OnTheWay) - 1 = x.addr + x.taken - 1
    <3>1. first = x.addr + x.taken - (x.taken - d) /\ Len(OnTheWay) = x.taken - d
      BY <1>1, <1>2
    <3>2. \A m, n, k \in Nat : /\ m + n - (n - k) = m + k
                               /\ m + k + (n - k) - 1 = m + n - 1
      OBVIOUS
    <3>3. first = x.addr + d
      <4> x.addr \in Nat /\ x.taken \in Nat /\ d \in Nat
        BY <1>1, Zenon
      <4> QED
        BY <3>1, <3>2, Zenon
    <3>4. x.addr + d + (x.taken - d) - 1 = x.addr + x.taken - 1
      <4> x.addr \in Nat /\ x.taken \in Nat /\ d \in Nat
        BY <1>1, Zenon
      <4> QED
        BY <3>2, Zenon
    <3> HIDE DEF first
    <3>5. first + Len(OnTheWay) - 1 = x.addr + d + (x.taken - d) - 1
      BY <3>1, <3>3, Zenon
    <3> QED
      BY <3>3, <3>4, <3>5, Zenon
  <2> HIDE DEF first
  <2>3. \A a \in x.addr + d .. x.addr + x.taken - 1 :
           OnTheWay[a - first + 1] = WordData(s, p, a - x.addr + 1)
    <3> TAKE a \in x.addr + d .. x.addr + x.taken - 1
    <3> DEFINE j == a - first + 1
    <3>1. j \in 1 .. x.taken - d /\ d + j = a - x.addr + 1
      <4>1. j = a - (x.addr + d) + 1
        BY <2>2
      <4> HIDE DEF j
      <4> QED
        BY <1>1, <4>1, SMTT(30)
    <3> HIDE DEF j
    <3>2. OnTheWay[j] = WordData(s, p, d + j)
      BY <1>2, <3>1
    <3> QED
      BY <3>1, <3>2 DEF j
  <2> QED
    BY <1>3, <2>1, <2>2, <2>3
<1> QED
  BY <1>4, <1>5

QuietMem == (IInv /\ (Pending = None \/ Reads(xfer))) => PortMem = memory

(* With no write under way nothing is.                                     *)
LEMMA MemIsQuiet == QuietMem
<1> SUFFICES ASSUME IInv, Pending = None \/ Reads(xfer) PROVE PortMem = memory
  BY DEF QuietMem
<1>1. axi_wr_q = <<>> /\ ~valid_q
  BY QuietState DEF Reads, NoWrite
<1>2. req_fifo # <<>> => Head(req_fifo).kind # "wr"
  <2>1. CASE Pending = None
    BY <2>1, QuietState
  <2>2. CASE Reads(xfer)
    <3> SUFFICES ASSUME req_fifo # <<>> PROVE Head(req_fifo).kind = "rd"
      OBVIOUS
    <3>1. req_fifo = <<Beat("rd", xfer.addr, xfer.len, None)>>
      BY <2>2 DEF Reads, Waiting, Serving
    <3> QED
      BY <3>1 DEF Beat
  <2> QED
    BY <2>1, <2>2
<1>3. OnTheWay = <<>>
  <2>1. [i \in 1 .. Len(axi_wr_q) |-> axi_wr_q[i].data] = <<>>
    BY <1>1
  <2>2. OnTheWay = <<>> \o <<>> \o <<>>
    BY <1>1, <1>2, <2>1 DEF OnTheWay
  <2> QED
    BY <2>2
<1> QED
  BY <1>3 DEF PortMem

(* n addresses, from a on.                                                 *)
Run(a, n) == [i \in 1 .. n |-> a + i - 1]

(* The first of them and the rest.                                         *)
LEMMA RunParts ==
    ASSUME NEW a \in Nat, NEW n \in Nat
    PROVE  /\ Run(a, n) \in Seq(Nat) /\ Len(Run(a, n)) = n
           /\ n = 0 => Run(a, n) = <<>>
           /\ n # 0 => /\ Run(a, n) # <<>> /\ Head(Run(a, n)) = a
                       /\ Tail(Run(a, n)) = Run(a + 1, n - 1)
<1>1. Run(a, n) \in Seq(Nat) /\ Len(Run(a, n)) = n
  <2>1. \A i \in 1 .. n : a + i - 1 \in Nat
    OBVIOUS
  <2> QED
    BY <2>1 DEF Run
<1>2. n = 0 => Run(a, n) = <<>>
  BY DEF Run
<1>3. ASSUME n # 0
      PROVE  /\ Run(a, n) # <<>> /\ Head(Run(a, n)) = a
             /\ Tail(Run(a, n)) = Run(a + 1, n - 1)
  <2>1. Run(a, n) # <<>>
    BY <1>1, <1>3
  <2>2. Run(a, n)[1] = a
    BY <1>3 DEF Run
  <2>3. Head(Run(a, n)) = a
    BY <1>1, <1>3, <2>1, <2>2
  <2>4. /\ Tail(Run(a, n)) \in Seq(Nat) /\ Len(Tail(Run(a, n))) = n - 1
        /\ \A i \in 1 .. n - 1 : Tail(Run(a, n))[i] = Run(a, n)[i + 1]
    BY <1>1, <2>1, HeadTailProperties
  <2>5. \A i \in 1 .. n - 1 : Run(a, n)[i + 1] = a + 1 + i - 1
    <3> TAKE i \in 1 .. n - 1
    <3>1. i + 1 \in 1 .. n /\ a + (i + 1) - 1 = a + 1 + i - 1
      BY <1>3
    <3> QED
      BY <3>1 DEF Run
  <2>6. Tail(Run(a, n)) = [i \in 1 .. n - 1 |-> Tail(Run(a, n))[i]]
    <3>1. DOMAIN Tail(Run(a, n)) = 1 .. n - 1
      BY <2>4, LenProperties
    <3>2. Tail(Run(a, n)) \in [1 .. n - 1 -> Nat]
      BY <2>4, LenProperties
    <3> QED
      BY <3>2
  <2>7. Run(a + 1, n - 1) = [i \in 1 .. n - 1 |-> a + 1 + i - 1]
    BY DEF Run
  <2>8. \A i \in 1 .. n - 1 : Tail(Run(a, n))[i] = a + 1 + i - 1
    BY <2>4, <2>5
  <2> QED
    BY <2>1, <2>3, <2>6, <2>7, <2>8
<1> QED
  BY <1>1, <1>2, <1>3

QuietOp == (IInv /\ Pending = None) => PortOp = None

ReadOp ==
    (IInv /\ xfer # None /\ Pending # None /\ Reads(xfer)) =>
        PortOp = [kind |-> "rd", at |-> xfer.addr,
                  todo |-> Run(xfer.addr + Shown(xfer), xfer.len + 1 - Shown(xfer))]

WriteOp ==
    \A x, s, p : IInv /\ Writing(x, s, p) =>
        PortOp = [kind |-> "wr", at |-> x.addr,
                  todo |-> Run(x.addr + x.taken, x.len + 1 - x.taken)]

(* The transfer the port serves is the one that is pending.                *)
LEMMA OpIs == QuietOp /\ ReadOp /\ WriteOp
<1>1. QuietOp
  BY DEF QuietOp, PortOp
<1>2. ReadOp
  <2> SUFFICES ASSUME IInv, xfer # None, Pending # None, Reads(xfer)
               PROVE  PortOp = [kind |-> "rd", at |-> xfer.addr,
                                todo |-> Run(xfer.addr + Shown(xfer), xfer.len + 1 - Shown(xfer))]
    BY DEF ReadOp
  <2>1. /\ xfer \in Transfers /\ xfer.kind = "rd" /\ xfer.taken = 1
        /\ Pending = [xfer EXCEPT !.answered = Shown(xfer)]
    BY PendingIs, InRegion DEF Reads
  <2>2. Pending.answered = Shown(xfer)
    BY <2>1 DEF Transfers
  <2> QED
    BY <2>1, <2>2 DEF PortOp, Run
<1>3. WriteOp
  <2> SUFFICES ASSUME NEW x, NEW s, NEW p, IInv, Writing(x, s, p)
               PROVE  PortOp = [kind |-> "wr", at |-> x.addr,
                                todo |-> Run(x.addr + x.taken, x.len + 1 - x.taken)]
    BY DEF WriteOp
  <2>1. /\ x.kind = "wr" /\ x.taken # 0 /\ Pending = x /\ x # None /\ x = xfer
    <3>1. x.taken \in 1 .. x.len + 1 /\ x.len \in Nat
      BY WriteState
    <3>2. x.taken # 0
      BY <3>1
    <3> QED
      BY <3>2, WriteState DEF Writing
  <2> QED
    BY <2>1 DEF PortOp, Run
<1> QED
  BY <1>1, <1>2, <1>3

(* All that the port shows, in any state of the invariant.                 *)
LEMMA PortNow == ImageIs /\ QuietMem /\ QuietOp /\ ReadOp /\ WriteOp
BY MemIsImage, MemIsQuiet, OpIs

(* After a step too.                                                       *)
LEMMA PortThen == (ImageIs /\ QuietMem /\ QuietOp /\ ReadOp /\ WriteOp)'
BY PortNow, PTL

-----------------------------------------------------------------------------
(* Steps of the port. *)

(* A cycle in which the port takes nothing and shows nothing.              *)
LEMMA PortPause ==
    ASSUME PortMem' = PortMem, PortOp' = PortOp, PortAns' = None
    PROVE  Port!PortNext
<1>1. Port!Take(None) /\ PortAns' = None
  BY DEF Port!Take
<1>2. Port!Serve(None, FALSE)
  BY <1>1 DEF Port!Serve
<1> QED
  BY <1>2 DEF Port!PortNext

(* The port answers the transfer it serves.                                *)
LEMMA PortAnswers ==
    ASSUME Port!AwaitsAnswer, PortMem' = PortMem,
           PortAns' = [data |-> IF PortOp.kind = "wr" THEN None ELSE PortMem[Head(PortOp.todo)],
                       error |-> FALSE],
           PortOp' = IF PortOp.kind = "rd" /\ Len(PortOp.todo) > 1
                     THEN [PortOp EXCEPT !.todo = Tail(@)] ELSE None
    PROVE  Port!PortNext
<1>1. Port!Answer
  BY DEF Port!Answer
<1>2. Port!Serve(None, TRUE)
  BY <1>1 DEF Port!Serve
<1> QED
  BY <1>2 DEF Port!PortNext

PortBursts == {[i \in 1 .. LineWords |-> l + i - 1] : l \in Lines} \cup {<<s>> : s \in Singles}

(* The words of a transfer are a burst of the port.                        *)
LEMMA BurstIs ==
    ASSUME NEW x, WellFormed(x)
    PROVE  Run(x.addr, x.len + 1) \in PortBursts
<1>1. x.addr \in Nat /\ x.len \in Nat
  BY InRegion
<1>2. CASE x.addr \in Lines /\ x.len = LineWords - 1
  <2>1. x.len + 1 = LineWords
    <3>1. LineWords \in 1 .. 256
      BY AxiAssumption, Zenon
    <3> QED
      BY <1>2, <3>1, SMT
  <2>2. Run(x.addr, LineWords) \in PortBursts
    BY <1>2 DEF Run, PortBursts
  <2> QED
    BY <2>1, <2>2
<1>3. CASE x.addr \in Singles /\ x.len = 0
  <2>1. x.len + 1 = 1
    BY <1>3
  <2>2. Run(x.addr, 1) = <<x.addr>>
    <3>1. Run(x.addr, 1) = [i \in 1 .. 1 |-> x.addr + i - 1]
      BY DEF Run
    <3>2. \A i \in 1 .. 1 : x.addr + i - 1 = x.addr
      BY <1>1
    <3>3. <<x.addr>> = [i \in 1 .. 1 |-> x.addr]
      OBVIOUS
    <3> QED
      BY <3>1, <3>2, <3>3
  <2>3. <<x.addr>> \in PortBursts
    BY <1>3 DEF PortBursts
  <2> QED
    BY <2>1, <2>2, <2>3
<1> QED
  BY <1>2, <1>3 DEF WellFormed

(* A word the port may take, for a transfer of the bridge.                 *)
LEMMA PortBeat ==
    ASSUME NEW x, WellFormed(x), NEW kind \in {"rd", "wr"}, NEW data \in Contents \cup {None}
    PROVE  LET beat == [kind |-> kind, burst |-> Run(x.addr, x.len + 1), data |-> data]
           IN beat \in Port!Beats /\ beat # None
<1> DEFINE beat == [kind |-> kind, burst |-> Run(x.addr, x.len + 1), data |-> data]
<1>1. Run(x.addr, x.len + 1) \in PortBursts
  BY BurstIs
<1>2. x.addr \in Nat /\ x.len + 1 \in Nat
  BY InRegion
<1>3. Run(x.addr, x.len + 1) \in Seq(Nat)
  BY <1>2, RunParts
<1>4. beat \in [kind : {"rd", "wr"}, burst : Seq(Nat), data : Contents \cup {None}]
  BY <1>3
<1>5. beat # None
  BY <1>4, NotNone
<1>6. beat \in [kind : {"rd", "wr"}, burst : PortBursts, data : Contents \cup {None}]
  BY <1>1
<1>7. beat \in Port!Beats
  BY <1>6 DEF Port!Beats, PortBursts
<1> QED
  BY <1>5, <1>7

(* The port takes the next word of a write.                                *)
LEMMA PortTakesWord ==
    ASSUME NEW x, WellFormed(x), NEW data \in Contents,
           Port!AwaitsData, PortAns' = None,
           PortMem' = [PortMem EXCEPT ![Head(PortOp.todo)] = data],
           PortOp' = [kind |-> "wr", at |-> PortOp.at, todo |-> Tail(PortOp.todo)]
    PROVE  Port!PortNext
<1> DEFINE beat == [kind |-> "wr", burst |-> Run(x.addr, x.len + 1), data |-> data]
<1>1. beat \in Port!Beats /\ beat # None
  BY PortBeat
<1>2. beat.data = data
  OBVIOUS
<1> HIDE DEF beat
<1>3. Port!Take(beat)
  BY <1>1, <1>2 DEF Port!Take, Port!PutWord
<1>4. Port!Serve(beat, FALSE)
  BY <1>3 DEF Port!Serve
<1> QED
  BY <1>1, <1>4 DEF Port!PortNext

(* The port begins a write with its first word.                            *)
LEMMA PortBeginsWrite ==
    ASSUME NEW x, WellFormed(x), NEW data \in Contents,
           PortOp = None, PortAns' = None,
           PortMem' = [PortMem EXCEPT ![x.addr] = data],
           PortOp' = [kind |-> "wr", at |-> x.addr, todo |-> Run(x.addr + 1, x.len)]
    PROVE  Port!PortNext
<1> DEFINE beat == [kind |-> "wr", burst |-> Run(x.addr, x.len + 1), data |-> data]
<1>1. beat \in Port!Beats /\ beat # None
  BY PortBeat
<1>2. beat.data = data /\ beat.kind = "wr" /\ beat.burst = Run(x.addr, x.len + 1)
  OBVIOUS
<1>3. Head(beat.burst) = x.addr /\ Tail(beat.burst) = Run(x.addr + 1, x.len)
  <2>1. x.addr \in Nat /\ x.len \in Nat /\ x.len + 1 \in Nat /\ x.len + 1 # 0 /\ x.len + 1 - 1 = x.len
    BY InRegion
  <2>2. \A m \in Nat : /\ Head(Run(x.addr, m + 1)) = x.addr
                       /\ Tail(Run(x.addr, m + 1)) = Run(x.addr + 1, m)
    <3> TAKE m \in Nat
    <3>1. PICK n : n = m + 1
      OBVIOUS
    <3>2. n \in Nat /\ n # 0 /\ n - 1 = m /\ x.addr \in Nat
      BY <2>1, <3>1
    <3>3. Head(Run(x.addr, n)) = x.addr /\ Tail(Run(x.addr, n)) = Run(x.addr + 1, n - 1)
      BY <3>2, RunParts
    <3> QED
      BY <3>1, <3>2, <3>3
  <2>3. /\ Head(Run(x.addr, x.len + 1)) = x.addr
        /\ Tail(Run(x.addr, x.len + 1)) = Run(x.addr + 1, x.len)
    BY <2>1, <2>2
  <2> HIDE DEF beat
  <2> QED
    BY <1>2, <2>3
<1> HIDE DEF beat
<1>4. Port!Take(beat)
  BY <1>1, <1>2, <1>3 DEF Port!Take, Port!PutWord
<1>5. Port!Serve(beat, FALSE)
  BY <1>4 DEF Port!Serve
<1> QED
  BY <1>1, <1>5 DEF Port!PortNext

(* The port begins a read.                                                 *)
LEMMA PortBeginsRead ==
    ASSUME NEW x, WellFormed(x), PortOp = None, PortAns' = None, PortMem' = PortMem,
           PortOp' = [kind |-> "rd", at |-> x.addr, todo |-> Run(x.addr, x.len + 1)]
    PROVE  Port!PortNext
<1> DEFINE beat == [kind |-> "rd", burst |-> Run(x.addr, x.len + 1), data |-> None]
<1>1. beat \in Port!Beats /\ beat # None
  BY PortBeat
<1>2. beat.kind = "rd" /\ beat.burst = Run(x.addr, x.len + 1)
  OBVIOUS
<1>3. Head(beat.burst) = x.addr
  <2>1. x.addr \in Nat /\ x.len \in Nat /\ x.len + 1 \in Nat /\ x.len + 1 # 0
    BY InRegion
  <2>2. \A n \in Nat : n # 0 => Head(Run(x.addr, n)) = x.addr
    BY <2>1, RunParts
  <2>3. Head(Run(x.addr, x.len + 1)) = x.addr
    BY <2>1, <2>2, Zenon
  <2> HIDE DEF beat
  <2> QED
    BY <1>2, <2>3
<1> HIDE DEF beat
<1>4. Port!Take(beat)
  BY <1>1, <1>2, <1>3 DEF Port!Take
<1>5. Port!Serve(beat, FALSE)
  BY <1>4 DEF Port!Serve
<1> QED
  BY <1>1, <1>5 DEF Port!PortNext

(* In a cycle of a write every word that is not written yet keeps its      *)
(* data, wherever it goes, and the new word has the client's.              *)
LEMMA WordsStep ==
    ASSUME IInv, NEW x, NEW s, NEW p, Writing(x, s, p),
           NEW beat, NEW delay \in Delays,
           Plays(beat), Bridge(beat), Widget, Turn(Ar, Aw, Wd, delay),
           NEW s2, s2 = (IF Pop THEN s + 1 ELSE s), NEW p2, p2 = (IF WdTaken THEN p + 1 ELSE p),
           NEW y, y = xfer', NEW d2, d2 = p2 - Len(axi_wr_q')
    PROVE  /\ d2 \in 0 .. x.taken
           /\ \A k \in d2 + 1 .. x.taken : WordData(s2, p2, k)' = WordData(s, p, k)
           /\ y # x => WordData(s2, p2, y.taken)' = beat.data
<1>1. /\ x.taken \in Nat /\ s \in 0 .. x.taken /\ p \in 0 .. s /\ p = (IF valid_q THEN s - 1 ELSE s)
      /\ Len(req_fifo) \in Nat /\ s + Len(req_fifo) = x.taken
  BY WriteState
<1>2. /\ WdTaken => p < x.taken /\ (awvalid_q \/ AwTaken)
      /\ AwTaken => p < x.taken /\ ~awvalid_q
      /\ Pop => req_fifo # <<>>
      /\ (awvalid_q' <=> (awvalid_q \/ AwTaken) /\ ~(WdTaken /\ p = x.len))
      /\ p2 = (IF valid_q' THEN s2 - 1 ELSE s2)
      /\ valid_q' => p = 0 /\ buf_q'.beat.data = WordData(s, p, 1)
      /\ Skid(x, s2)'
  BY WidgetStep
<1>3. /\ \A k \in s2 + 1 .. x.taken : req_fifo'[k - s2] = req_fifo[k - s]
      /\ y # x => req_fifo'[y.taken - s2] = beat /\ y.taken = x.taken + 1
  BY <1>2, FifoStep
<1>4. /\ \A k \in d2 + 1 .. p2 : axi_wr_q'[k - p2 + Len(axi_wr_q')].data = WordData(s, p, k)
      /\ axi_wr_q' \in Seq(WriteSet) /\ Len(axi_wr_q') <= p2
  <2>1. PICK d : d = p - Len(axi_wr_q)
    OBVIOUS
  <2>2. axi_wr_q' \in Seq(WriteSet) /\ Len(axi_wr_q') <= p2
    BY <1>2, <2>1, MemoryStep
  <2>3. InQueue(s, p, d2, p2, axi_wr_q')
    BY <1>2, <2>1, MemoryStep
  <2> QED
    BY <2>2, <2>3 DEF InQueue
<1>5. /\ s2 \in 0 .. x.taken /\ p2 \in 0 .. s2 /\ (valid_q' => s2 = 1)
  <2>1. Len(req_fifo) = 0 => ~Pop
    <3>1. req_fifo \in Seq(BeatSet)
      BY DEF IInv, Types
    <3> QED
      BY <1>2, <3>1, EmptySeq
  <2>2. valid_q' => s2 = 1
    BY <1>2 DEF Skid
  <2>3. s2 \in 0 .. x.taken
    BY <1>1, <2>1
  <2> QED
    BY <1>2, <2>2, <2>3
<1>6. d2 \in 0 .. x.taken
  <2>1. Len(axi_wr_q') \in Nat
    BY <1>4, LenProperties
  <2> QED
    BY <1>1, <1>4, <1>5, <2>1
<1>7. \A k : /\ k <= p2 => WordData(s2, p2, k)' = axi_wr_q'[k - p2 + Len(axi_wr_q')].data
             /\ ~(k <= p2) /\ k <= s2 => WordData(s2, p2, k)' = buf_q'.beat.data
             /\ ~(k <= p2) /\ ~(k <= s2) => WordData(s2, p2, k)' = req_fifo'[k - s2].data
  BY DEF WordData
<1>8. ASSUME NEW k \in d2 + 1 .. x.taken
      PROVE  WordData(s2, p2, k)' = WordData(s, p, k)
  <2>0. k \in Nat
    BY <1>6
  <2>1. CASE k <= p2
    <3>1. k \in d2 + 1 .. p2
      BY <1>5, <1>6, <2>1
    <3> QED
      BY <1>4, <1>7, <2>1, <3>1
  <2>2. CASE ~(k <= p2) /\ k <= s2
    <3>1. valid_q' /\ s2 = 1 /\ k = 1
      BY <1>2, <1>5, <2>0, <2>2
    <3>2. buf_q'.beat.data = WordData(s, p, k)
      BY <1>2, <3>1
    <3> QED
      BY <1>7, <2>2, <3>2
  <2>3. CASE ~(k <= p2) /\ ~(k <= s2)
    <3>1. k \in s2 + 1 .. x.taken /\ ~(k <= s) /\ ~(k <= p)
      BY <1>1, <1>5, <2>0, <2>3
    <3>2. WordData(s, p, k) = req_fifo[k - s].data
      BY <1>1, <2>0, <3>1, WordPlace
    <3>3. req_fifo'[k - s2] = req_fifo[k - s]
      BY <1>3, <3>1
    <3> QED
      BY <1>7, <2>3, <3>2, <3>3
  <2> QED
    BY <2>1, <2>2, <2>3
<1>9. ASSUME y # x PROVE WordData(s2, p2, y.taken)' = beat.data
  <2>1. ~(y.taken <= p2) /\ ~(y.taken <= s2)
    BY <1>1, <1>3, <1>5, <1>9, SMTT(30)
  <2> QED
    BY <1>3, <1>7, <1>9, <2>1
<1> QED
  BY <1>6, <1>8, <1>9

(* The port in a cycle of a write that does not end it: the words the      *)
(* memory writes were in the port's memory already, the new one is added.  *)
LEMMA ImageStep ==
    ASSUME IInv, NEW x, NEW s, NEW p, Writing(x, s, p),
           NEW beat, NEW delay \in Delays,
           Plays(beat), Bridge(beat), Widget, Turn(Ar, Aw, Wd, delay),
           NEW s2, s2 = (IF Pop THEN s + 1 ELSE s), NEW p2, p2 = (IF WdTaken THEN p + 1 ELSE p),
           NEW y, y = xfer', NEW then, then = Image(y, s2, p2)'
    PROVE  /\ y = x => then = Image(x, s, p)
           /\ y # x => then = [Image(x, s, p) EXCEPT ![x.addr + x.taken] = beat.data]
<1> DEFINE d == p - Len(axi_wr_q)  d2 == p2 - Len(axi_wr_q')
<1>1. /\ x.addr \in Nat /\ x.taken \in Nat /\ x.taken <= x.len + 1 /\ x.len \in Nat
      /\ x.addr + x.len < Size /\ Size \in Nat
  <2>1. x.taken \in 1 .. x.len + 1 /\ WellFormed(x)
    BY WriteState DEF Writing
  <2> QED
    BY <2>1, InRegion, AxiMemAssumption
<1>2. /\ WdTaken => p < x.taken /\ (awvalid_q \/ AwTaken)
      /\ AwTaken => p < x.taken /\ ~awvalid_q
      /\ Pop => req_fifo # <<>>
      /\ (awvalid_q' <=> (awvalid_q \/ AwTaken) /\ ~(WdTaken /\ p = x.len))
  BY WidgetStep
<1>3. /\ y.addr = x.addr
      /\ y = x \/ (y # x /\ y.taken = x.taken + 1 /\ Continues(x, beat))
  BY <1>2, FifoStep
<1>4. \/ d2 = d /\ memory' = memory
      \/ /\ d2 = d + 1
         /\ memory' = [memory EXCEPT ![x.addr + d] = WordData(s, p, d + 1)]
  BY <1>2, MemoryStep
<1>5. /\ d2 \in 0 .. x.taken
      /\ \A k \in d2 + 1 .. x.taken : WordData(s2, p2, k)' = WordData(s, p, k)
      /\ y # x => WordData(s2, p2, y.taken)' = beat.data
  BY WordsStep
<1>6. d \in Nat /\ d <= x.taken
  <2>1. Len(axi_wr_q) \in Nat /\ Len(axi_wr_q) <= p /\ p \in Nat /\ p <= x.taken
    BY WriteState
  <2> QED
    BY <1>1, <2>1
<1>7. Image(x, s, p) =
         [a \in 0 .. Size - 1 |-> IF a \in x.addr + d .. x.addr + x.taken - 1
                                  THEN WordData(s, p, a - x.addr + 1) ELSE memory[a]]
  BY DEF Image
<1>8. Image(y, s2, p2)' =
         [a \in 0 .. Size - 1 |-> IF a \in x.addr + d2 .. x.addr + y.taken - 1
                                  THEN WordData(s2, p2, a - x.addr + 1)' ELSE memory'[a]]
  BY <1>3 DEF Image
<1>9. memory \in [0 .. Size - 1 -> Contents]
  BY DEF IInv, Types
<1> HIDE DEF d, d2
<1>10. ASSUME NEW a \in 0 .. Size - 1, a # x.addr + x.taken
       PROVE  (IF a \in x.addr + d2 .. x.addr + y.taken - 1
               THEN WordData(s2, p2, a - x.addr + 1)' ELSE memory'[a])
              = (IF a \in x.addr + d .. x.addr + x.taken - 1
                 THEN WordData(s, p, a - x.addr + 1) ELSE memory[a])
  <2>0. y.taken \in {x.taken, x.taken + 1} /\ d2 \in {d, d + 1} /\ a \in Nat /\ d2 \in Nat
    BY <1>1, <1>3, <1>4, <1>5
  <2>1. a \in x.addr + d2 .. x.addr + y.taken - 1 <=> a \in x.addr + d2 .. x.addr + x.taken - 1
    <3>1. a # x.addr + x.taken
      BY <1>10
    <3>2. CASE y.taken = x.taken
      BY <3>2
    <3>3. CASE y.taken = x.taken + 1
      <4>1. PICK e, c : e = x.addr + x.taken /\ c = x.addr + d2
        OBVIOUS
      <4>2. /\ x.addr + y.taken - 1 = e /\ x.addr + x.taken - 1 = e - 1 /\ a # e
            /\ e \in Nat /\ a \in Nat /\ c \in Nat
        BY <1>1, <2>0, <3>1, <3>3, <4>1
      <4>3. a \in c .. e <=> a \in c .. e - 1
        BY <4>2
      <4> QED
        BY <4>1, <4>2, <4>3
    <3> QED
      BY <2>0, <3>2, <3>3
  <2>2. CASE a \in x.addr + d2 .. x.addr + x.taken - 1
    <3> DEFINE k == a - x.addr + 1
    <3>1. k \in d2 + 1 .. x.taken /\ a \in x.addr + d .. x.addr + x.taken - 1
      BY <1>1, <1>6, <2>0, <2>2
    <3> HIDE DEF k
    <3>2. WordData(s2, p2, k)' = WordData(s, p, k)
      BY <1>5, <3>1
    <3> QED
      BY <2>1, <2>2, <3>1, <3>2 DEF k
  <2>3. CASE ~(a \in x.addr + d2 .. x.addr + x.taken - 1) /\ a \in x.addr + d .. x.addr + x.taken - 1
    <3>1. a = x.addr + d /\ d2 = d + 1 /\ a - x.addr + 1 = d + 1
      BY <1>1, <1>6, <2>0, <2>3
    <3>2. memory'[a] = WordData(s, p, d + 1)
      <4>1. memory' = [memory EXCEPT ![a] = WordData(s, p, d + 1)]
        BY <1>4, <1>6, <3>1
      <4> QED
        BY <1>9, <4>1
    <3> QED
      BY <2>1, <2>3, <3>1, <3>2
  <2>4. CASE ~(a \in x.addr + d .. x.addr + x.taken - 1)
    <3>1. ~(a \in x.addr + d2 .. x.addr + x.taken - 1)
      BY <1>1, <1>6, <2>0, <2>4
    <3>2. d2 = d + 1 => a # x.addr + d
      BY <1>1, <1>5, <1>6, <2>4
    <3>3. memory'[a] = memory[a]
      BY <1>4, <1>9, <3>2
    <3> QED
      BY <2>1, <2>4, <3>1, <3>3
  <2> QED
    BY <2>2, <2>3, <2>4
<1>11. CASE y = x
  <2>1. ASSUME NEW a \in 0 .. Size - 1, a = x.addr + x.taken
        PROVE  /\ ~(a \in x.addr + d .. x.addr + x.taken - 1)
               /\ ~(a \in x.addr + d2 .. x.addr + y.taken - 1)
               /\ memory'[a] = memory[a]
    <3>1. /\ ~(a \in x.addr + d .. x.addr + x.taken - 1)
          /\ ~(a \in x.addr + d2 .. x.addr + y.taken - 1)
      BY <1>1, <1>11, <2>1
    <3>2. d2 = d + 1 => a # x.addr + d
      BY <1>1, <1>5, <1>6, <2>1
    <3> QED
      BY <1>4, <1>9, <3>1, <3>2
  <2>2. \A a \in 0 .. Size - 1 :
               (IF a \in x.addr + d2 .. x.addr + y.taken - 1
               THEN WordData(s2, p2, a - x.addr + 1)' ELSE memory'[a])
              = (IF a \in x.addr + d .. x.addr + x.taken - 1
                 THEN WordData(s, p, a - x.addr + 1) ELSE memory[a])
    BY <1>10, <2>1
  <2>3. Image(y, s2, p2)' = [a \in 0 .. Size - 1 |->
                               IF a \in x.addr + d .. x.addr + x.taken - 1
                               THEN WordData(s, p, a - x.addr + 1) ELSE memory[a]]
    BY <1>8, <2>2, Zenon
  <2> QED
    BY <1>7, <1>11, <2>3, Zenon
<1>12. CASE y # x
  <2> DEFINE w == x.addr + x.taken
  <2>1. x.taken <= x.len /\ y.taken = x.taken + 1
    BY <1>3, <1>12 DEF Continues
  <2>2. /\ w \in 0 .. Size - 1 /\ w \in x.addr + d2 .. x.addr + y.taken - 1
        /\ w - x.addr + 1 = y.taken
    BY <1>1, <1>5, <2>1
  <2> HIDE DEF w
  <2>3. Image(y, s2, p2)'[w] = beat.data
    BY <1>5, <1>8, <1>12, <2>2
  <2>4. \A a \in 0 .. Size - 1 : a # w => Image(y, s2, p2)'[a] = Image(x, s, p)[a]
    <3> SUFFICES ASSUME NEW a \in 0 .. Size - 1, a # w
                 PROVE  Image(y, s2, p2)'[a] = Image(x, s, p)[a]
      OBVIOUS
    <3>1. a # x.addr + x.taken
      BY DEF w
    <3>2. Image(y, s2, p2)'[a] = (IF a \in x.addr + d2 .. x.addr + y.taken - 1
                                  THEN WordData(s2, p2, a - x.addr + 1)' ELSE memory'[a])
      BY <1>8
    <3>3. Image(x, s, p)[a] = (IF a \in x.addr + d .. x.addr + x.taken - 1
                               THEN WordData(s, p, a - x.addr + 1) ELSE memory[a])
      BY <1>7
    <3> QED
      BY <1>10, <3>1, <3>2, <3>3
  <2>5. Image(x, s, p) = [a \in 0 .. Size - 1 |-> Image(x, s, p)[a]]
    BY <1>7
  <2>6. Image(y, s2, p2)' = [a \in 0 .. Size - 1 |-> Image(y, s2, p2)'[a]]
    BY <1>8
  <2>7. Image(y, s2, p2)' = [Image(x, s, p) EXCEPT ![w] = beat.data]
    BY <2>2, <2>3, <2>4, <2>5, <2>6
  <2> QED
    BY <1>12, <2>7 DEF w
<1> QED
  BY <1>11, <1>12

-----------------------------------------------------------------------------
(* The bridge with its memory implements the port. *)

(* A transfer that begins, or none, is a step of the port.                 *)
LEMMA PortQuietStep ==
    ASSUME IInv, Pending = None, NEW beat, NEW delay \in Delays,
           Plays(beat), Bridge(beat), Widget, Turn(Ar, Aw, Wd, delay)
    PROVE  Port!PortNext
<1>1. /\ InportAccept
      /\ req_fifo' = (IF beat = None THEN <<>> ELSE <<beat>>)
      /\ ~valid_q' /\ axi_wr_q' = <<>>
      /\ axi_o'.r = None /\ ~axi_o'.b /\ memory' = memory
  BY QuietEffect
<1>2. IInv'
  BY QuietStep
<1>3. PortMem = memory /\ PortOp = None
  BY PortNow DEF QuietMem, QuietOp
<1>4. PortAns' = None
  BY <1>1 DEF PortAns
<1>5. CASE xfer' = None
  <2>1. Pending' = None
    BY <1>5 DEF Pending, Answered
  <2>2. PortMem' = memory' /\ PortOp' = None
    BY <1>2, <2>1, PortThen DEF QuietMem, QuietOp
  <2> QED
    BY <1>1, <1>3, <1>4, <2>2, PortPause
<1>6. CASE xfer' # None
  <2> DEFINE y == xfer'
  <2>1. Begun(y, beat)
    <3>1. Taken(beat) = beat
      BY <1>1 DEF Taken
    <3> QED
      BY <1>6, <3>1 DEF Plays
  <2>2. /\ WellFormed(y) /\ y.taken = 1 /\ y.answered = 0 /\ y \in Transfers
        /\ y.addr \in Nat /\ y.len \in Nat /\ y.addr + y.len < Size
    BY <2>1, InRegion DEF Begun
  <2>3. beat # None /\ req_fifo' = <<beat>>
    <3>1. beat \in BeatSet
      BY <2>1, <2>2 DEF Begun, BeatOf, Beat, BeatSet
    <3> QED
      BY <1>1, <3>1, NotNone
  <2>4. Idle' \/ (WellFormed(xfer)' /\ (Reads(xfer)' \/ Writes(xfer)'))
    BY <1>2 DEF IInv
  <2>5. Reads(xfer)' \/ Writes(xfer)'
    BY <1>6, <2>4 DEF Idle
  <2>6. CASE y.kind = "rd"
    <3>1. Reads(xfer)'
      BY <2>5, <2>6 DEF Writes
    <3>2. Shown(xfer)' = 0
      BY <1>1, <2>2 DEF Shown
    <3>3. Pending' # None
      <4>1. Answered(xfer)' = xfer'
        BY <1>1 DEF Answered, InportAck
      <4>2. Replies(xfer)' = y.len + 1
        BY <2>6 DEF Replies
      <4> QED
        BY <1>6, <2>2, <4>1, <4>2 DEF Pending
    <3>4. PortMem' = memory'
      BY <1>2, <3>1, PortThen DEF QuietMem
    <3>5. PortOp' = [kind |-> "rd", at |-> y.addr,
                     todo |-> Run(y.addr + 0, y.len + 1 - 0)]
      <4>1. PortOp' = [kind |-> "rd", at |-> y.addr,
                       todo |-> Run(y.addr + Shown(xfer)', y.len + 1 - Shown(xfer)')]
        BY <1>2, <1>6, <3>1, <3>3, PortThen DEF ReadOp, Run
      <4> QED
        BY <3>2, <4>1
    <3>6. y.addr + 0 = y.addr /\ y.len + 1 - 0 = y.len + 1
      BY <2>2
    <3>7. PortOp' = [kind |-> "rd", at |-> y.addr, todo |-> Run(y.addr, y.len + 1)]
      BY <3>5, <3>6
    <3> QED
      BY <1>1, <1>3, <1>4, <2>2, <3>4, <3>7, PortBeginsRead
  <2>7. CASE y.kind = "wr"
    <3>1. PICK data \in Contents : beat = BeatOf(y, 1, data)
      BY <2>1, <2>7 DEF Begun
    <3>2. Writes(xfer)'
      BY <2>5, <2>7 DEF Reads
    <3>3. Sent(xfer)' = 0 /\ Put(xfer)' = 0
      <4>1. Len(req_fifo') = 1
        BY <2>3
      <4>2. Sent(xfer)' = 0
        BY <2>2, <4>1 DEF Sent
      <4> QED
        BY <1>1, <4>2 DEF Put
    <3>4. Writing(xfer, 0, 0)'
      <4>1. WellFormed(xfer)'
        BY <2>2 DEF WellFormed
      <4> QED
        BY <1>1, <1>6, <3>2, <3>3, <4>1 DEF Writing
    <3>5. PICK z : z = y
      OBVIOUS
    <3>6. Writing(z, 0, 0)'
      BY <3>4, <3>5 DEF Writing, Writes, WellFormed, Sent, Put, Counts, Fifo, Skid, Memory, BeatOf
    <3>7. /\ PortMem' = Image(z, 0, 0)'
          /\ PortOp' = [kind |-> "wr", at |-> z.addr, todo |-> Run(z.addr + z.taken, z.len + 1 - z.taken)]
      BY <1>2, <3>6, PortThen DEF ImageIs, WriteOp, Run
    <3>8. PortOp' = [kind |-> "wr", at |-> z.addr, todo |-> Run(z.addr + 1, z.len)]
      <4>1. z.taken = 1 /\ z.len + 1 - 1 = z.len
        BY <2>2, <3>5
      <4> QED
        BY <3>7, <4>1
    <3>9. WordData(0, 0, 1)' = data
      <4>1. WordData(0, 0, 1)' = req_fifo'[1].data
        BY DEF WordData
      <4>2. req_fifo'[1] = beat
        BY <2>3
      <4> QED
        BY <3>1, <4>1, <4>2 DEF BeatOf, Beat
    <3>10. Image(z, 0, 0)' = [memory EXCEPT ![z.addr] = data]
      <4>1. /\ z.addr \in Nat /\ z.addr \in 0 .. Size - 1 /\ z.taken = 1 /\ Size \in Nat
        BY <2>2, <3>5, AxiMemAssumption
      <4>2. Len(axi_wr_q') = 0
        BY <1>1
      <4>3. Image(z, 0, 0)' = [a \in 0 .. Size - 1 |->
                                 IF a \in z.addr + (0 - 0) .. z.addr + 1 - 1
                                 THEN WordData(0, 0, a - z.addr + 1)' ELSE memory[a]]
        BY <1>1, <4>1, <4>2 DEF Image
      <4>4. \A a \in 0 .. Size - 1 : a \in z.addr + (0 - 0) .. z.addr + 1 - 1 <=> a = z.addr
        BY <4>1
      <4>5. \A a \in 0 .. Size - 1 : a = z.addr => WordData(0, 0, a - z.addr + 1)' = data
        <5> SUFFICES ASSUME NEW a, a = z.addr PROVE WordData(0, 0, a - z.addr + 1)' = data
          OBVIOUS
        <5>1. a - z.addr + 1 = 1
          BY <4>1
        <5> QED
          BY <3>9, <5>1
      <4>6. memory \in [0 .. Size - 1 -> Contents]
        BY DEF IInv, Types
      <4> QED
        BY <4>1, <4>3, <4>4, <4>5, <4>6
    <3> QED
      BY <1>3, <1>4, <2>2, <3>5, <3>7, <3>8, <3>10, PortBeginsWrite
  <2> QED
    BY <2>1, <2>6, <2>7 DEF Begun
<1> QED
  BY <1>5, <1>6

(* The memory shows the next word of a read, from its own address.         *)
LEMMA ReadShows ==
    ASSUME IInv, xfer # None, Reads(xfer), Pending # None,
           NEW beat, NEW delay \in Delays,
           Plays(beat), Bridge(beat), Widget, Turn(Ar, Aw, Wd, delay)
    PROVE  axi_o'.r # None => axi_o'.r.data = memory[xfer.addr + Shown(xfer)]
<1> SUFFICES ASSUME axi_o'.r # None PROVE axi_o'.r.data = memory[xfer.addr + Shown(xfer)]
  OBVIOUS
<1> DEFINE n == Shown(xfer)
<1>1. /\ n \in 0 .. xfer.len
      /\ ReadCommand(Ar) \in Seq([addr : Nat, last : BOOLEAN])
      /\ Remain(xfer, n, ReadCommand(Ar))
  BY ReadEffect
<1>2. WellFormed(xfer)
  BY PendingIs
<1>3. memory \in [0 .. Size - 1 -> Contents]
  BY DEF IInv, Types
<1> HIDE DEF n
<1>4. \E m \in {n, n + 1} : axi_o'.r = [data |-> memory[xfer.addr + n], last |-> m = xfer.len + 1]
  BY <1>1, <1>2, <1>3, ServeStep
<1> DEFINE r == axi_o'.r
<1>5. \E m : r = [data |-> memory[xfer.addr + n], last |-> m = xfer.len + 1]
  BY <1>4
<1> HIDE DEF r
<1>6. r.data = memory[xfer.addr + n]
  BY <1>5
<1> QED
  BY <1>6 DEF r, n

(* A cycle of a read is a step of the port: a pause or an answer.          *)
LEMMA PortReadStep ==
    ASSUME IInv, xfer # None, Reads(xfer), Pending # None,
           NEW beat, NEW delay \in Delays,
           Plays(beat), Bridge(beat), Widget, Turn(Ar, Aw, Wd, delay)
    PROVE  Port!PortNext
<1>1. PICK x, y, n : x = xfer /\ y = xfer' /\ n = Shown(xfer)
  OBVIOUS
<1>2. /\ xfer' = [xfer EXCEPT !.answered = n] /\ n \in 0 .. x.len
      /\ ~axi_o'.b /\ memory' = memory
  BY <1>1, ReadEffect
<1>3. /\ WellFormed(xfer) /\ x \in Transfers /\ x.addr \in Nat /\ x.len \in Nat
      /\ x.kind = "rd" /\ x.taken = 1
  BY <1>1, PendingIs, InRegion DEF Reads
<1>4. /\ y \in Transfers /\ y.addr = x.addr /\ y.len = x.len /\ y.kind = "rd" /\ y.answered = n
      /\ xfer' # None
  BY <1>1, <1>2, <1>3, NotNone DEF Transfers
<1>5. IInv'
  BY ReadStep
<1>6. Reads(xfer)'
  <2>1. Idle' \/ (WellFormed(xfer)' /\ (Reads(xfer)' \/ Writes(xfer)'))
    BY <1>5 DEF IInv
  <2> QED
    BY <1>1, <1>4, <2>1 DEF Idle, Writes
<1>7. /\ PortMem = memory
      /\ PortOp = [kind |-> "rd", at |-> x.addr, todo |-> Run(x.addr + n, x.len + 1 - n)]
  BY <1>1, PortNow DEF QuietMem, ReadOp
<1>8. PortMem' = memory'
  BY <1>5, <1>6, PortThen DEF QuietMem
<1>9. CASE axi_o'.r = None
  <2>1. PortAns' = None
    BY <1>2, <1>9 DEF PortAns
  <2>2. Shown(xfer)' = n
    BY <1>1, <1>4, <1>9 DEF Shown
  <2>3. Pending' # None
    <3>1. Answered(xfer)' = xfer'
      BY <1>2, <1>9 DEF Answered, InportAck
    <3>2. Replies(xfer)' = x.len + 1
      BY <1>1, <1>4 DEF Replies
    <3>3. xfer'.answered # x.len + 1
      BY <1>1, <1>2, <1>3, <1>4
    <3>4. Pending' = xfer'
      BY <3>1, <3>2, <3>3 DEF Pending, Replies
    <3> QED
      BY <1>4, <3>4
  <2>4. PortOp' = [kind |-> "rd", at |-> x.addr, todo |-> Run(x.addr + n, x.len + 1 - n)]
    <3>1. PortOp' = [kind |-> "rd", at |-> y.addr,
                     todo |-> Run(y.addr + Shown(xfer)', y.len + 1 - Shown(xfer)')]
      BY <1>1, <1>4, <1>5, <1>6, <2>3, PortThen DEF ReadOp, Run
    <3> QED
      BY <1>4, <2>2, <3>1
  <2> QED
    BY <1>2, <1>7, <1>8, <2>1, <2>4, PortPause
<1>10. CASE axi_o'.r # None
  <2>1. PortAns' = [data |-> memory[x.addr + n], error |-> FALSE]
    <3>1. axi_o'.r.data = memory[x.addr + n]
      BY <1>1, <1>10, ReadShows
    <3> QED
      BY <1>2, <1>10, <3>1 DEF PortAns
  <2>2. Shown(xfer)' = n + 1
    BY <1>1, <1>4, <1>10 DEF Shown
  <2> DEFINE left == x.len - n
  <2>3. left \in Nat /\ x.len + 1 - n = left + 1 /\ x.addr + n \in Nat
    BY <1>2, <1>3
  <2> HIDE DEF left
  <2>4. PICK m : m = left + 1
    OBVIOUS
  <2>5. m \in Nat /\ m # 0 /\ m - 1 = left /\ x.len + 1 - n = m
    BY <2>3, <2>4
  <2>6. /\ Run(x.addr + n, m) \in Seq(Nat) /\ Len(Run(x.addr + n, m)) = m
        /\ Head(Run(x.addr + n, m)) = x.addr + n
        /\ Tail(Run(x.addr + n, m)) = Run(x.addr + n + 1, m - 1)
    BY <2>3, <2>5, RunParts
  <2>7. PortOp = [kind |-> "rd", at |-> x.addr, todo |-> Run(x.addr + n, m)]
    BY <1>7, <2>5
  <2>8. Port!AwaitsAnswer
    <3>1. PortOp \in [kind : {"rd", "wr"}, at : Nat, todo : Seq(Nat)]
      BY <1>3, <2>6, <2>7
    <3>2. PortOp # None
      BY <3>1, NotNone
    <3> QED
      BY <2>7, <3>2 DEF Port!AwaitsAnswer, Port!AwaitsData
  <2>9. Pending' = IF left = 0 THEN None ELSE [xfer' EXCEPT !.answered = n + 1]
    <3>1. PICK z : z = [y EXCEPT !.answered = n + 1]
      OBVIOUS
    <3>2. z \in Transfers /\ z.answered = n + 1 /\ z.kind = "rd" /\ z.len = x.len
      BY <1>2, <1>4, <3>1 DEF Transfers
    <3>3. Answered(xfer)' = z
      BY <1>1, <1>2, <1>4, <1>10, <3>1 DEF Answered, InportAck
    <3>4. z # None /\ Replies(z) = x.len + 1
      BY <3>2, NotNone DEF Replies
    <3>5. n + 1 = x.len + 1 <=> left = 0
      BY <1>2, <1>3 DEF left
    <3>6. Pending' = IF z.answered = Replies(z) THEN None ELSE z
      BY <3>3, <3>4 DEF Pending, Replies
    <3> QED
      BY <1>1, <3>1, <3>2, <3>4, <3>5, <3>6
  <2>10. PortOp' = IF Len(PortOp.todo) > 1 THEN [PortOp EXCEPT !.todo = Tail(@)] ELSE None
    <3>1. PortOp.todo = Run(x.addr + n, m)
      BY <2>7
    <3>2. CASE left = 0
      <4>1. PortOp' = None
        BY <1>5, <2>9, <3>2, PortThen DEF QuietOp
      <4>2. ~(Len(PortOp.todo) > 1)
        BY <2>4, <2>6, <3>1, <3>2
      <4> QED
        BY <4>1, <4>2
    <3>3. CASE left # 0
      <4>1. Pending' # None
        <5>1. [y EXCEPT !.answered = n + 1] \in Transfers
          BY <1>2, <1>4 DEF Transfers
        <5> QED
          BY <1>1, <2>9, <3>3, <5>1, NotNone
      <4>2. PortOp' = [kind |-> "rd", at |-> y.addr,
                       todo |-> Run(y.addr + Shown(xfer)', y.len + 1 - Shown(xfer)')]
        BY <1>1, <1>4, <1>5, <1>6, <4>1, PortThen DEF ReadOp, Run
      <4>3. PortOp' = [kind |-> "rd", at |-> x.addr,
                       todo |-> Run(x.addr + (n + 1), x.len + 1 - (n + 1))]
        BY <1>4, <2>2, <4>2
      <4>4. x.addr + (n + 1) = x.addr + n + 1 /\ x.len + 1 - (n + 1) = left
        BY <1>2, <1>3 DEF left
      <4>5. Len(PortOp.todo) > 1
        BY <2>3, <2>4, <2>6, <3>1, <3>3
      <4>6. [PortOp EXCEPT !.todo = Tail(@)] = [kind |-> "rd", at |-> x.addr,
                                               todo |-> Run(x.addr + n + 1, left)]
        <5>1. Tail(PortOp.todo) = Run(x.addr + n + 1, left)
          BY <2>5, <2>6, <3>1
        <5>2. PICK q, r : q = Run(x.addr + n, m) /\ r = Run(x.addr + n + 1, left)
          OBVIOUS
        <5>3. PortOp = [kind |-> "rd", at |-> x.addr, todo |-> q] /\ Tail(PortOp.todo) = r
          BY <2>7, <5>1, <5>2
        <5>4. PICK o, a : o = PortOp /\ a = x.addr
          OBVIOUS
        <5>5. [o EXCEPT !.todo = r] = [kind |-> "rd", at |-> a, todo |-> r]
          <6>1. o = [kind |-> "rd", at |-> a, todo |-> q]
            BY <5>3, <5>4, Zenon
          <6> QED
            BY <6>1
        <5>6. Tail(o.todo) = r
          BY <5>3, <5>4
        <5>7. [o EXCEPT !.todo = Tail(@)] = [kind |-> "rd", at |-> a, todo |-> r]
          BY <5>5, <5>6, Zenon
        <5> QED
          BY <5>2, <5>4, <5>7, Zenon
      <4> QED
        BY <4>3, <4>4, <4>5, <4>6
    <3> QED
      BY <3>2, <3>3
  <2>11. PortOp.kind = "rd" /\ PortMem[Head(PortOp.todo)] = memory[x.addr + n]
    BY <1>7, <2>6, <2>7
  <2>12. PortMem' = PortMem
    BY <1>2, <1>7, <1>8
  <2> QED
    BY <2>1, <2>8, <2>10, <2>11, <2>12, PortAnswers
<1> QED
  BY <1>9, <1>10

(* A cycle of a write is a step of the port: a pause, a word or the        *)
(* answer.                                                                 *)
LEMMA PortWriteStep ==
    ASSUME IInv, xfer # None, Writes(xfer), ~axi_o.b,
           NEW beat, NEW delay \in Delays,
           Plays(beat), Bridge(beat), Widget, Turn(Ar, Aw, Wd, delay)
    PROVE  Port!PortNext
<1>1. PICK x, s, p, s2, p2, y : /\ x = xfer /\ s = Sent(x) /\ p = Put(x)
                                /\ s2 = (IF Pop THEN s + 1 ELSE s)
                                /\ p2 = (IF WdTaken THEN p + 1 ELSE p) /\ y = xfer'
  OBVIOUS
<1>2. Writing(x, s, p) /\ WellFormed(x)
  BY <1>1, PendingIs DEF Writing
<1>3. IInv' /\ WellFormed(y) /\ Writes(y)' /\ s2 = Sent(y)' /\ p2 = Put(y)'
  BY <1>1, <1>2, WriteKeeps
<1>4. x.addr \in Nat /\ x.len \in Nat /\ x.taken \in 1 .. x.len + 1
  BY <1>2, WriteState
<1>5. /\ WdTaken => p < x.taken /\ (awvalid_q \/ AwTaken)
      /\ AwTaken => p < x.taken /\ ~awvalid_q
      /\ Pop => req_fifo # <<>>
      /\ (awvalid_q' <=> (awvalid_q \/ AwTaken) /\ ~(WdTaken /\ p = x.len))
  BY <1>1, <1>2, WidgetStep
<1>6. /\ y.kind = "wr" /\ y.answered = 0 /\ y.addr = x.addr /\ y.len = x.len
      /\ y = x \/ (y # x /\ y.taken = x.taken + 1 /\ Continues(x, beat))
  BY <1>1, <1>2, <1>5, FifoStep
<1>7. y # None /\ y \in Transfers
  BY <1>3, InRegion
<1>8. PICK d, d2 : d = p - Len(axi_wr_q) /\ d2 = p2 - Len(axi_wr_q')
  OBVIOUS
<1>9. axi_o'.r = None /\ Memory(x, p2)'
  BY <1>1, <1>2, <1>5, <1>8, MemoryStep
<1>10. d2 \in 0 .. x.taken
  BY <1>1, <1>2, <1>8, WordsStep
<1>11. /\ y = x => Image(y, s2, p2)' = Image(x, s, p)
       /\ y # x => Image(y, s2, p2)' = [Image(x, s, p) EXCEPT ![x.addr + x.taken] = beat.data]
  <2>1. PICK then : then = Image(y, s2, p2)'
    OBVIOUS
  <2>2. /\ y = x => then = Image(x, s, p)
        /\ y # x => then = [Image(x, s, p) EXCEPT ![x.addr + x.taken] = beat.data]
    BY <1>1, <1>2, <2>1, ImageStep
  <2> QED
    BY <2>1, <2>2
<1>12. /\ PortMem = Image(x, s, p)
       /\ PortOp = [kind |-> "wr", at |-> x.addr, todo |-> Run(x.addr + x.taken, x.len + 1 - x.taken)]
  BY <1>2, PortNow DEF ImageIs, WriteOp
<1>13. PICK n : n = x.len + 1 - x.taken
  OBVIOUS
<1>14. n \in Nat /\ x.addr + x.taken \in Nat
  BY <1>4, <1>13
<1>15. /\ Run(x.addr + x.taken, n) \in Seq(Nat)
       /\ n = 0 => Run(x.addr + x.taken, n) = <<>>
       /\ n # 0 => /\ Run(x.addr + x.taken, n) # <<>>
                   /\ Head(Run(x.addr + x.taken, n)) = x.addr + x.taken
                   /\ Tail(Run(x.addr + x.taken, n)) = Run(x.addr + x.taken + 1, n - 1)
  BY <1>14, RunParts
<1>16. PortOp = [kind |-> "wr", at |-> x.addr, todo |-> Run(x.addr + x.taken, n)]
  BY <1>12, <1>13
<1>17. PortOp # None
  <2>1. PortOp \in [kind : {"rd", "wr"}, at : Nat, todo : Seq(Nat)]
    BY <1>4, <1>15, <1>16
  <2> QED
    BY <2>1, NotNone
<1>18. CASE ~axi_o'.b
  <2>1. Writing(y, s2, p2)'
    BY <1>1, <1>3, <1>7, <1>18 DEF Writing, WellFormed
  <2>2. /\ PortMem' = Image(y, s2, p2)'
        /\ PortOp' = [kind |-> "wr", at |-> y.addr, todo |-> Run(y.addr + y.taken, y.len + 1 - y.taken)]
    BY <1>3, <2>1, PortThen DEF ImageIs, WriteOp, Run
  <2>3. PortAns' = None
    BY <1>9, <1>18 DEF PortAns
  <2>4. CASE y = x
    <3>1. PortMem' = PortMem /\ PortOp' = PortOp
      BY <1>11, <1>12, <2>2, <2>4
    <3> QED
      BY <2>3, <3>1, PortPause
  <2>5. CASE y # x
    <3>1. y.taken = x.taken + 1 /\ Continues(x, beat)
      BY <1>6, <2>5
    <3>2. PICK data \in Contents : beat = BeatOf(x, x.taken + 1, data)
      BY <3>1 DEF Continues
    <3>3. beat.data = data
      BY <3>2 DEF BeatOf, Beat
    <3>4. n # 0
      BY <1>4, <1>13, <3>1 DEF Continues
    <3>5. /\ PortOp.kind = "wr" /\ PortOp.at = x.addr
          /\ PortOp.todo # <<>> /\ Head(PortOp.todo) = x.addr + x.taken
          /\ Tail(PortOp.todo) = Run(x.addr + x.taken + 1, n - 1)
      BY <1>15, <1>16, <3>4
    <3>6. Port!AwaitsData
      BY <1>17, <3>5 DEF Port!AwaitsData
    <3>7. PortMem' = [PortMem EXCEPT ![Head(PortOp.todo)] = data]
      BY <1>11, <1>12, <2>2, <2>5, <3>3, <3>5
    <3>8. y.addr + y.taken = x.addr + x.taken + 1 /\ y.len + 1 - y.taken = n - 1
      BY <1>4, <1>6, <1>13, <3>1
    <3>9. PortOp' = [kind |-> "wr", at |-> PortOp.at, todo |-> Tail(PortOp.todo)]
      BY <1>6, <2>2, <3>5, <3>8
    <3> QED
      BY <1>2, <2>3, <3>6, <3>7, <3>9, PortTakesWord
  <2> QED
    BY <2>4, <2>5
<1>19. CASE axi_o'.b
  <2>1. d2 = x.len + 1
    BY <1>8, <1>9, <1>19 DEF Memory
  <2>2. x.taken = x.len + 1 /\ n = 0
    BY <1>4, <1>10, <1>13, <2>1
  <2>3. y = x
    BY <1>4, <1>6, <2>2 DEF Continues
  <2>4. Pending' = None
    <3>1. PICK z : z = [y EXCEPT !.answered = @ + 1]
      OBVIOUS
    <3>2. z.answered = 1 /\ z.kind = "wr"
      BY <1>6, <1>7, <3>1 DEF Transfers
    <3>3. Answered(xfer)' = z
      BY <1>1, <1>7, <1>19, <3>1 DEF Answered, InportAck
    <3> QED
      BY <3>2, <3>3 DEF Pending, Replies
  <2>5. PortMem' = memory' /\ PortOp' = None
    BY <1>3, <2>4, PortThen DEF QuietMem, QuietOp
  <2>6. PortAns' = [data |-> None, error |-> FALSE]
    BY <1>19 DEF PortAns
  <2>7. Image(y, s2, p2)' = memory'
    <3>1. Image(y, s2, p2)' =
             [a \in 0 .. Size - 1 |-> IF a \in y.addr + d2 .. y.addr + y.taken - 1
                                      THEN WordData(s2, p2, a - y.addr + 1)' ELSE memory'[a]]
      BY <1>8 DEF Image
    <3>2. \A a \in 0 .. Size - 1 : ~(a \in y.addr + d2 .. y.addr + y.taken - 1)
      BY <1>4, <2>1, <2>2, <2>3
    <3>3. memory' \in [0 .. Size - 1 -> Contents]
      BY <1>3 DEF IInv, Types
    <3>4. memory' = [a \in 0 .. Size - 1 |-> memory'[a]]
      BY <3>3
    <3>5. Image(y, s2, p2)' = [a \in 0 .. Size - 1 |-> memory'[a]]
      BY <3>1, <3>2
    <3> QED
      BY <3>4, <3>5
  <2>8. PortMem' = PortMem
    BY <1>11, <1>12, <2>3, <2>5, <2>7
  <2>9. PortOp.kind = "wr" /\ PortOp.todo = <<>>
    BY <1>15, <1>16, <2>2
  <2>10. Port!AwaitsAnswer
    BY <1>17, <2>9 DEF Port!AwaitsAnswer, Port!AwaitsData
  <2> QED
    BY <2>5, <2>6, <2>8, <2>9, <2>10, PortAnswers
<1> QED
  BY <1>18, <1>19

(* Every step is a step of the port, or leaves it as it is.                *)
LEMMA PortStep == IInv /\ [Next]_vars => [Port!PortNext]_(Port!portVars)
<1> SUFFICES ASSUME IInv, [Next]_vars PROVE [Port!PortNext]_(Port!portVars)
  OBVIOUS
<1>1. CASE Next
  <2>1. PICK beat, delay : /\ delay \in Delays
                           /\ Plays(beat)
                           /\ Bridge(beat) /\ Widget /\ Turn(Ar, Aw, Wd, delay)
    BY <1>1, Decode
  <2>2. CASE Pending = None
    BY <2>1, <2>2, PortQuietStep
  <2>3. CASE Pending # None /\ Reads(xfer)
    BY <2>1, <2>3, PendingIs, PortReadStep
  <2>4. CASE Pending # None /\ Writes(xfer)
    BY <2>1, <2>4, PendingIs, PortWriteStep
  <2> QED
    BY <2>2, <2>3, <2>4, PendingIs
<1>2. CASE UNCHANGED vars
  <2>1. Pending' = Pending /\ OnTheWay' = OnTheWay
    BY <1>2 DEF vars, axiMemVars, axiVars, Pending, Answered, InportAck, Replies, OnTheWay
  <2>2. PortMem' = PortMem /\ PortOp' = PortOp /\ PortAns' = PortAns
    BY <1>2, <2>1 DEF vars, axiMemVars, axiVars, PortMem, PortOp, PortAns
  <2> QED
    BY <2>2 DEF Port!portVars
<1> QED
  BY <1>1, <1>2

(* dcache_axi.v, dcache_axi_axi.v and the memory behind them implement the *)
(* port that the data cache is checked against, for every memory, burst    *)
(* length and delay: words reach their addresses in order, a read is       *)
(* answered from its own addresses, a write once and after its last word.  *)
THEOREM AxiImplementsPort == Spec => ImplementsPort
BY AxiInvariance, PortStep, PTL DEF Spec, ImplementsPort

=============================================================================
