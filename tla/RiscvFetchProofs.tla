-------------------------- MODULE RiscvFetchProofs --------------------------
(***************************************************************************)
(* Proofs about RiscvFetch, for every set of addresses, privileges and     *)
(* faults and with or without the extra decode stage.  IInv is the         *)
(* inductive invariant: it says where the next instruction of the stream   *)
(* is (decode register, skid buffer, icache or PC) and that every place    *)
(* further from the issue stage holds the one after it.                    *)
(***************************************************************************)
EXTENDS RiscvFetch, TLAPS

(* Before the first branch the unit is empty. *)
IdleInv ==
    ~active_q =>
        ~icache_fetch_q /\ ~branch_d_q /\ skid_q = None /\ buffer_q = None

(* A request in flight was made for the last address and, unless it is to  *)
(* be dropped, the PC is just past it.                                     *)
RequestInv ==
    icache_fetch_q =>
        /\ icache_req \in Places
        /\ ~branch_d_q => /\ icache_req = [pc |-> pc_d_q, priv |-> priv_f_q]
                          /\ pc_f_q = NextPc[pc_d_q]

(* The skid buffer holds the instruction just before the PC.               *)
SkidInv ==
    skid_q # None =>
        /\ ~icache_fetch_q
        /\ ~branch_d_q
        /\ pc_f_q = NextPc[skid_q.pc]
        /\ skid_q.instr.pc = skid_q.pc
        /\ skid_q.instr.priv = priv_f_q

(* The decode register holds the instruction before all of those.          *)
DecodeInv ==
    buffer_q # None =>
        /\ EXTRA_DECODE_STAGE
        /\ ~branch_q
        /\ ~branch_d_q
        /\ buffer_q.instr.pc = buffer_q.pc
        /\ buffer_q.instr.priv = priv_f_q
        /\ NextPc[buffer_q.pc] = IF skid_q # None THEN skid_q.pc
                                 ELSE IF icache_fetch_q THEN pc_d_q ELSE pc_f_q

PrivInv ==
    /\ branch_q => branch_to_q.priv = priv_x_q
    /\ (active_q /\ ~branch_q) => priv_f_q = priv_x_q

IInv ==
    /\ TypeOK
    /\ IdleInv
    /\ RequestInv
    /\ SkidInv
    /\ DecodeInv
    /\ PrivInv

-----------------------------------------------------------------------------
(* What an edge of the clock is, whichever action it belongs to. *)
Edge(answer, ready, accept, branch) ==
    /\ answer \in AnswersNow
    /\ ready \in BOOLEAN
    /\ accept \in BOOLEAN
    /\ branch \in Places \cup {None}
    /\ DecodeOut(answer) = None => accept
    /\ Cycle(answer, ready, accept, branch)
    /\ priv_x_q' = IF branch = None THEN priv_x_q ELSE branch.priv

(* Every action of RiscvFetch is an edge: a CSR branch is accepted, and a  *)
(* branch instruction needs an instruction in the issue stage.             *)
LEMMA NextIsEdge ==
    ASSUME TypeOK, Next
    PROVE  \E answer, ready, accept, branch : Edge(answer, ready, accept, branch)
<1>1. CASE Advance
  BY <1>1 DEF Advance, Edge, AcceptNow
<1>2. CASE Hold
  BY <1>2 DEF Hold, Edge, AcceptNow
<1>3. CASE ExecBranch
  <2>1. PICK answer \in AnswersNow, accept \in BOOLEAN, ready \in BOOLEAN, pc \in Pcs :
            /\ DecodeOut(answer) # None
            /\ Cycle(answer, ready, accept, [pc |-> pc, priv |-> priv_x_q])
            /\ UNCHANGED priv_x_q
    BY <1>3 DEF ExecBranch
  <2>2. [pc |-> pc, priv |-> priv_x_q] \in Places
    BY DEF Places, TypeOK
  <2>3. [pc |-> pc, priv |-> priv_x_q] # None
    BY <2>2, FetchAssumption
  <2>4. Edge(answer, ready, accept, [pc |-> pc, priv |-> priv_x_q])
    BY <2>1, <2>2, <2>3 DEF Edge
  <2> QED BY <2>4
<1>4. CASE CsrBranch
  <2>1. PICK answer \in AnswersNow, ready \in BOOLEAN, target \in Places :
            /\ Cycle(answer, ready, TRUE, target)
            /\ priv_x_q' = target.priv
    BY <1>4 DEF CsrBranch
  <2>2. Edge(answer, ready, TRUE, target)
    BY <2>1, FetchAssumption DEF Edge
  <2> QED BY <2>2
<1> QED BY <1>1, <1>2, <1>3, <1>4 DEF Next

(* An answer of the icache is one, and it is for the request in flight.    *)
LEMMA AnswerFacts ==
    ASSUME IInv, NEW answer \in AnswersNow, answer # None
    PROVE  /\ icache_fetch_q
           /\ answer \in Answers
           /\ answer.pc = icache_req.pc
           /\ answer.priv = icache_req.priv
           /\ answer.fault \in Faults
<1>1. icache_fetch_q
  BY DEF AnswersNow
<1>2. PICK f \in Faults :
          answer = [pc |-> icache_req.pc, priv |-> icache_req.priv, fault |-> f]
  BY <1>1 DEF AnswersNow
<1>3. icache_req \in Places
  BY <1>1 DEF IInv, RequestInv
<1> QED BY <1>1, <1>2, <1>3 DEF Places, Answers

(* What the fetch unit shows to decode is the instruction just before the  *)
(* PC, read from the address it is labelled with.                          *)
LEMMA FetchOutFacts ==
    ASSUME IInv, NEW answer \in AnswersNow, FetchOut(answer) # None
    PROVE  /\ FetchOut(answer) \in Entries
           /\ ~branch_q /\ ~branch_d_q /\ active_q
           /\ ~Busy(answer)
           /\ pc_f_q = NextPc[FetchOut(answer).pc]
           /\ FetchOut(answer).instr.pc = FetchOut(answer).pc
           /\ FetchOut(answer).instr.priv = priv_f_q
           /\ FetchOut(answer).pc = IF skid_q # None THEN skid_q.pc ELSE pc_d_q
           /\ skid_q = None => icache_fetch_q
<1>1. ~branch_q /\ ~branch_d_q
  BY DEF FetchOut
<1>2. CASE skid_q # None
  BY <1>1, <1>2 DEF FetchOut, Busy, IInv, SkidInv, IdleInv, TypeOK
<1>3. CASE skid_q = None
  <2>1. answer # None
    BY <1>3 DEF FetchOut
  <2>2. FetchOut(answer) = [pc |-> pc_d_q, instr |-> answer]
    BY <1>1, <1>3, <2>1 DEF FetchOut
  <2>3. icache_req = [pc |-> pc_d_q, priv |-> priv_f_q] /\ pc_f_q = NextPc[pc_d_q]
    BY <1>1, <2>1, AnswerFacts DEF IInv, RequestInv
  <2> QED BY <1>1, <1>3, <2>1, <2>2, <2>3, AnswerFacts
          DEF Busy, Entries, IInv, IdleInv, TypeOK
<1> QED BY <1>2, <1>3

(* What the issue stage looks at is the next instruction of the stream.    *)
LEMMA DecodeOutFacts ==
    ASSUME IInv, NEW answer \in AnswersNow, DecodeOut(answer) # None
    PROVE  /\ DecodeOut(answer) \in Entries
           /\ Expected = [pc |-> DecodeOut(answer).pc, priv |-> priv_f_q]
           /\ Expected # None
           /\ ~branch_q
           /\ \E f \in Faults : DecodeOut(answer) = Stream!EntryAt(Expected, f)
<1>1. /\ DecodeOut(answer) \in Entries
      /\ ~branch_q /\ active_q
      /\ DecodeOut(answer).instr.pc = DecodeOut(answer).pc
      /\ DecodeOut(answer).instr.priv = priv_f_q
      /\ Expected = [pc |-> DecodeOut(answer).pc, priv |-> priv_f_q]
  <2>1. CASE EXTRA_DECODE_STAGE
    BY <2>1 DEF DecodeOut, IInv, DecodeInv, IdleInv, TypeOK, Expected
  <2>2. CASE ~EXTRA_DECODE_STAGE
    <3>1. buffer_q = None
      BY <2>2 DEF IInv, DecodeInv
    <3> QED BY <2>2, <3>1, FetchOutFacts DEF DecodeOut, Expected
  <2> QED BY <2>1, <2>2
<1>2. Expected \in Places
  BY <1>1 DEF Places, Entries, IInv, TypeOK
<1>3. DecodeOut(answer) = Stream!EntryAt(Expected, DecodeOut(answer).instr.fault)
  BY <1>1 DEF Stream!EntryAt, Entries, Answers
<1>4. DecodeOut(answer).instr.fault \in Faults
  BY <1>1 DEF Entries, Answers
<1> QED BY <1>1, <1>2, <1>3, <1>4, FetchAssumption

-----------------------------------------------------------------------------
(* The reset values of the fetch and issue stages satisfy the invariant. *)
LEMMA InitIInv == Init => IInv
<1> SUFFICES ASSUME Init PROVE IInv
  OBVIOUS
<1>1. TypeOK
  BY FetchAssumption DEF Init, TypeOK, Places
<1>2. IdleInv /\ RequestInv /\ SkidInv /\ DecodeInv /\ PrivInv
  BY DEF Init, IdleInv, RequestInv, SkidInv, DecodeInv, PrivInv
<1> QED BY <1>1, <1>2 DEF IInv

(* Every edge keeps the invariant, one conjunct at a time.                 *)
LEMMA EdgeKeepsIInv ==
    ASSUME IInv,
           NEW answer, NEW ready, NEW accept, NEW branch,
           Edge(answer, ready, accept, branch)
    PROVE  IInv'
<1> USE FetchAssumption
<1> DEFINE out == FetchOut(answer)
           stall == Stall(answer, ready, accept)
           request == Request(answer, ready, accept)
<1>1. /\ BranchBuffer(answer, ready, accept, branch)
      /\ ProgramCounter(stall)
      /\ RequestTracking(answer, ready, accept)
      /\ ResponseBuffer(answer, accept)
      /\ DecodeStage(answer, accept, branch)
      /\ IssueStage(answer, accept)
  BY DEF Edge, Cycle
<1>2. answer \in AnswersNow /\ ready \in BOOLEAN /\ accept \in BOOLEAN
      /\ branch \in Places \cup {None}
  BY DEF Edge
<1>3. out # None =>
          /\ out \in Entries
          /\ ~branch_q /\ ~branch_d_q /\ active_q
          /\ ~Busy(answer)
          /\ pc_f_q = NextPc[out.pc]
          /\ out.instr.pc = out.pc
          /\ out.instr.priv = priv_f_q
          /\ out.pc = IF skid_q # None THEN skid_q.pc ELSE pc_d_q
          /\ skid_q = None => icache_fetch_q
  BY <1>2, FetchOutFacts
<1>4. request => ~stall /\ active_q
  BY DEF Request, Stall
<1>5. ~stall => accept /\ ready /\ ~Busy(answer)
  BY <1>2 DEF Stall
<1>6. answer # None => icache_fetch_q
  BY <1>2 DEF AnswersNow
<1>7. TypeOK'
  <2>1. (branch_q \in BOOLEAN /\ branch_to_q \in Places)'
    BY <1>1, <1>2 DEF BranchBuffer, IInv, TypeOK, Places
  <2>2. (active_q \in BOOLEAN /\ pc_f_q \in Pcs /\ priv_f_q \in Privs /\ branch_d_q \in BOOLEAN)'
    BY <1>1 DEF ProgramCounter, IInv, TypeOK, Places
  <2>3. (icache_fetch_q \in BOOLEAN /\ pc_d_q \in Pcs /\ icache_req \in Places \cup {None})'
    <3>1. pc_f_q \in Pcs /\ priv_f_q \in Privs /\ pc_d_q \in Pcs
          /\ icache_fetch_q \in BOOLEAN /\ icache_req \in Places \cup {None}
      BY DEF IInv, TypeOK
    <3>2. [pc |-> pc_f_q, priv |-> priv_f_q] \in Places
      BY <3>1 DEF Places
    <3>3. RequestTracking(answer, ready, accept)
      BY <1>1
    <3>4. CASE request
      BY <3>1, <3>2, <3>3, <3>4 DEF RequestTracking
    <3>5. CASE ~request
      BY <3>1, <3>3, <3>5 DEF RequestTracking
    <3> QED BY <3>4, <3>5
  <2>4. (skid_q \in Entries \cup {None} /\ buffer_q \in Entries \cup {None})'
    BY <1>1, <1>3 DEF ResponseBuffer, DecodeStage, IInv, TypeOK
  <2>5. (delivered \in Entries \cup {None})'
    BY <1>1, <1>2, DecodeOutFacts DEF IssueStage, IInv, TypeOK
  <2>6. (priv_x_q \in Privs)'
    BY <1>2 DEF Edge, IInv, TypeOK, Places
  <2> QED BY <2>1, <2>2, <2>3, <2>4, <2>5, <2>6 DEF TypeOK
<1>8. IdleInv'
  <2>1. SUFFICES ASSUME ~active_q'
                 PROVE  ~icache_fetch_q' /\ ~branch_d_q' /\ skid_q' = None /\ buffer_q' = None
    BY DEF IdleInv
  <2>2. ~active_q /\ ~(branch_q /\ ~stall)
    BY <1>1, <2>1 DEF ProgramCounter, IInv, TypeOK
  <2>3. ~icache_fetch_q /\ ~branch_d_q /\ out = None /\ buffer_q = None
    BY <1>3, <2>2 DEF IInv, IdleInv
  <2>4. ~branch_d_q'
    BY <1>1, <2>2, <2>3 DEF ProgramCounter, IInv, TypeOK
  <2>5. ~icache_fetch_q'
    BY <1>1, <1>4, <2>2, <2>3 DEF RequestTracking
  <2> QED BY <1>1, <2>3, <2>4, <2>5 DEF ResponseBuffer, DecodeStage
<1>9. RequestInv'
  <2>1. CASE request
    <3>1. icache_req' = [pc |-> pc_f_q, priv |-> priv_f_q] /\ pc_d_q' = pc_f_q
      BY <1>1, <2>1 DEF RequestTracking
    <3>2. ~branch_d_q' => pc_f_q' = NextPc[pc_f_q] /\ priv_f_q' = priv_f_q
      BY <1>1, <1>4, <2>1 DEF ProgramCounter
    <3> QED BY <3>1, <3>2 DEF RequestInv, Places, IInv, TypeOK
  <2>2. CASE ~request /\ answer # None
    BY <1>1, <2>2 DEF RequestTracking, RequestInv
  <2>3. CASE ~request /\ answer = None
    <3>1. SUFFICES ASSUME icache_fetch_q' PROVE RequestInv'
      BY DEF RequestInv
    <3>2. icache_fetch_q /\ UNCHANGED <<pc_d_q, icache_req>>
      BY <1>1, <2>3, <3>1 DEF RequestTracking
    <3>3. stall
      BY <2>3, <3>2 DEF Stall, Busy
    <3> QED BY <1>1, <3>2, <3>3 DEF ProgramCounter, RequestInv, IInv
  <2> QED BY <2>1, <2>2, <2>3
<1>10. SkidInv'
  <2>1. SUFFICES ASSUME skid_q' # None PROVE SkidInv'
    BY DEF SkidInv
  <2>2. ~accept /\ skid_q' = out /\ out # None
    BY <1>1, <2>1 DEF ResponseBuffer
  <2>3. stall /\ ~request
    BY <2>2, <1>4, <1>5
  <2>4. ~icache_fetch_q'
    <3>1. answer # None \/ ~icache_fetch_q
      BY <1>3, <2>2 DEF Busy
    <3> QED BY <1>1, <2>3, <3>1 DEF RequestTracking
  <2>5. UNCHANGED <<pc_f_q, priv_f_q, branch_d_q>>
    BY <1>1, <2>3 DEF ProgramCounter
  <2> QED BY <1>3, <2>2, <2>4, <2>5 DEF SkidInv
<1>11. PrivInv'
  <2>1. CASE branch # None
    BY <1>1, <2>1 DEF BranchBuffer, Edge, PrivInv
  <2>2. CASE branch = None
    <3>1. priv_x_q' = priv_x_q
      BY <2>2 DEF Edge
    <3>2. branch_q' => branch_q /\ branch_to_q' = branch_to_q
      BY <1>1, <2>2 DEF BranchBuffer
    <3>3. (active_q' /\ ~branch_q') => priv_f_q' = priv_x_q
      <4>1. CASE branch_q
        BY <1>1, <1>4, <2>2, <4>1 DEF BranchBuffer, ProgramCounter, IInv, PrivInv
      <4>2. CASE ~branch_q
        BY <1>1, <4>2 DEF ProgramCounter, IInv, PrivInv
      <4> QED BY <4>1, <4>2
    <3> QED BY <3>1, <3>2, <3>3 DEF PrivInv, IInv
  <2> QED BY <2>1, <2>2
<1>12. DecodeInv'
  <2>1. SUFFICES ASSUME buffer_q' # None PROVE DecodeInv'
    BY DEF DecodeInv
  <2>2. EXTRA_DECODE_STAGE /\ branch = None
    BY <1>1, <2>1 DEF DecodeStage
  <2>3. CASE accept \/ buffer_q = None
    <3>1. buffer_q' = out /\ out # None
      BY <1>1, <2>1, <2>2, <2>3 DEF DecodeStage
    <3>2. accept
      <4>1. CASE buffer_q = None
        BY <2>2, <4>1 DEF Edge, DecodeOut
      <4> QED BY <2>3, <4>1
    <3>3. skid_q' = None
      BY <1>1, <3>2 DEF ResponseBuffer
    <3>4. ~branch_q' /\ ~branch_d_q' /\ priv_f_q' = priv_f_q
      BY <1>1, <1>3, <2>2, <3>1 DEF BranchBuffer, ProgramCounter
    <3>5. NextPc[out.pc] = IF icache_fetch_q' THEN pc_d_q' ELSE pc_f_q'
      <4>1. CASE request
        BY <1>1, <1>3, <3>1, <4>1 DEF RequestTracking
      <4>2. CASE ~request
        <5>1. stall
          BY <1>3, <3>1, <3>2, <4>2 DEF Request, Stall
        <5>2. pc_f_q' = pc_f_q
          BY <1>1, <5>1 DEF ProgramCounter
        <5>3. ~icache_fetch_q'
          BY <1>1, <1>3, <3>1, <4>2 DEF RequestTracking, Busy
        <5> QED BY <1>3, <3>1, <5>2, <5>3
      <4> QED BY <4>1, <4>2
    <3> QED BY <1>3, <2>2, <3>1, <3>3, <3>4, <3>5 DEF DecodeInv
  <2>4. CASE ~accept /\ buffer_q # None
    <3>1. buffer_q' = buffer_q
      BY <1>1, <2>2, <2>4 DEF DecodeStage
    <3>2. stall /\ ~request
      BY <1>4, <1>5, <2>4
    <3>3. ~branch_q' /\ UNCHANGED <<pc_f_q, priv_f_q, branch_d_q, pc_d_q>>
      BY <1>1, <2>2, <2>4, <3>2
         DEF BranchBuffer, ProgramCounter, RequestTracking, IInv, DecodeInv
    <3>4. skid_q' = out
      BY <1>1, <2>4 DEF ResponseBuffer
    <3>5. out = None => skid_q = None /\ icache_fetch_q' = icache_fetch_q
      <4>1. SUFFICES ASSUME out = None PROVE skid_q = None /\ answer = None
        BY <1>1, <3>2 DEF RequestTracking
      <4>2. ~branch_q /\ ~branch_d_q
        BY <2>4 DEF IInv, DecodeInv
      <4>3. answer # None => [pc |-> pc_d_q, instr |-> answer] \in Entries
        BY <1>2, AnswerFacts DEF Entries, IInv, TypeOK
      <4> QED BY <4>1, <4>2, <4>3 DEF FetchOut
    <3>6. out # None => out.pc = IF skid_q # None THEN skid_q.pc
                                 ELSE IF icache_fetch_q THEN pc_d_q ELSE pc_f_q
      BY <1>3
    <3> QED BY <2>2, <2>4, <3>1, <3>3, <3>4, <3>5, <3>6 DEF DecodeInv, IInv
  <2> QED BY <1>2, <2>3, <2>4
<1> QED BY <1>7, <1>8, <1>9, <1>10, <1>11, <1>12 DEF IInv

-----------------------------------------------------------------------------
(* The first place behind the skid buffer: the request in flight, or the PC. *)
Tail == IF icache_fetch_q /\ ~branch_d_q THEN pc_d_q ELSE pc_f_q

(* While the issue stage or the decode register takes what the unit shows, *)
(* the skid buffer is emptied and the tail moves past what was shown, or   *)
(* stays where it is when nothing was shown.                               *)
LEMMA TailFacts ==
    ASSUME IInv,
           NEW answer, NEW ready, NEW accept,
           Edge(answer, ready, accept, None),
           accept, ~branch_q, active_q
    PROVE  /\ skid_q' = None /\ ~branch_q' /\ active_q' /\ priv_f_q' = priv_f_q
           /\ FetchOut(answer) # None => Tail' = NextPc[FetchOut(answer).pc]
           /\ FetchOut(answer) = None => skid_q = None /\ Tail' = Tail
<1>1. /\ BranchBuffer(answer, ready, accept, None)
      /\ ProgramCounter(Stall(answer, ready, accept))
      /\ RequestTracking(answer, ready, accept)
      /\ ResponseBuffer(answer, accept)
      /\ answer \in AnswersNow
      /\ ready \in BOOLEAN
  BY DEF Edge, Cycle
<1>2. skid_q' = None /\ ~branch_q' /\ active_q' /\ priv_f_q' = priv_f_q
  BY <1>1 DEF BranchBuffer, ProgramCounter, ResponseBuffer
<1>3. CASE Request(answer, ready, accept)
  <2>1. ~Stall(answer, ready, accept) /\ ~Busy(answer)
    BY <1>3 DEF Request, Stall
  <2>2. icache_fetch_q' /\ pc_d_q' = pc_f_q /\ ~branch_d_q'
    BY <1>1, <1>3, <2>1 DEF RequestTracking, ProgramCounter
  <2>3. Tail' = pc_f_q
    BY <2>2 DEF Tail
  <2>4. FetchOut(answer) # None => pc_f_q = NextPc[FetchOut(answer).pc]
    BY <1>1, FetchOutFacts
  <2>5. ASSUME FetchOut(answer) = None PROVE skid_q = None /\ Tail = pc_f_q
    <3>1. CASE branch_d_q
      BY <3>1 DEF Tail, IInv, SkidInv
    <3>2. CASE ~branch_d_q
      <4>1. answer # None => [pc |-> pc_d_q, instr |-> answer] \in Entries
        BY <1>1, AnswerFacts DEF Entries, IInv, TypeOK
      <4>2. answer = None /\ skid_q = None
        BY <2>5, <3>2, <4>1, FetchAssumption DEF FetchOut
      <4> QED BY <2>1, <4>2 DEF Busy, Tail
    <3> QED BY <3>1, <3>2
  <2> QED BY <1>2, <2>3, <2>4, <2>5
<1>4. CASE ~Request(answer, ready, accept)
  <2>1. Stall(answer, ready, accept)
    BY <1>1, <1>4 DEF Request, Stall
  <2>2. UNCHANGED <<pc_f_q, branch_d_q, pc_d_q>>
    BY <1>1, <1>4, <2>1 DEF RequestTracking, ProgramCounter
  <2>3. icache_fetch_q' = (icache_fetch_q /\ answer = None)
    BY <1>1, <1>4 DEF RequestTracking, IInv, TypeOK, AnswersNow
  <2>4. ASSUME FetchOut(answer) # None PROVE Tail' = NextPc[FetchOut(answer).pc]
    <3>1. pc_f_q = NextPc[FetchOut(answer).pc] /\ ~Busy(answer)
      BY <1>1, <2>4, FetchOutFacts
    <3> QED BY <2>2, <2>3, <3>1 DEF Busy, Tail
  <2>5. ASSUME FetchOut(answer) = None PROVE skid_q = None /\ Tail' = Tail
    <3>1. CASE branch_d_q
      BY <2>2, <3>1 DEF Tail, IInv, SkidInv
    <3>2. CASE ~branch_d_q
      <4>1. answer # None => [pc |-> pc_d_q, instr |-> answer] \in Entries
        BY <1>1, AnswerFacts DEF Entries, IInv, TypeOK
      <4>2. answer = None /\ skid_q = None
        BY <2>5, <3>2, <4>1, FetchAssumption DEF FetchOut
      <4> QED BY <2>2, <2>3, <4>2 DEF Tail
    <3> QED BY <3>1, <3>2
  <2> QED BY <1>2, <2>4, <2>5
<1> QED BY <1>3, <1>4

(* Every edge is a step of the stream, or leaves the stream as it is.      *)
LEMMA EdgeRefines ==
    ASSUME IInv,
           NEW answer, NEW ready, NEW accept, NEW branch,
           Edge(answer, ready, accept, branch)
    PROVE  [Stream!Next]_(Stream!vars)
<1> USE FetchAssumption
<1> DEFINE out == DecodeOut(answer)
           taken == accept /\ out # None
<1>1. /\ BranchBuffer(answer, ready, accept, branch)
      /\ ProgramCounter(Stall(answer, ready, accept))
      /\ ResponseBuffer(answer, accept)
      /\ DecodeStage(answer, accept, branch)
      /\ delivered' = IF taken THEN out ELSE delivered
  BY DEF Edge, Cycle, IssueStage
<1>2. answer \in AnswersNow /\ ready \in BOOLEAN /\ accept \in BOOLEAN
      /\ branch \in Places \cup {None}
      /\ (out = None => accept)
  BY DEF Edge
<1>3. out # None => /\ Expected = [pc |-> out.pc, priv |-> priv_f_q]
                    /\ Expected # None
                    /\ ~branch_q
                    /\ \E f \in Faults : out = Stream!EntryAt(Expected, f)
  BY <1>2, DecodeOutFacts
<1>4. taken => Expected # None /\ Stream!Receive
  BY <1>1, <1>3 DEF Stream!Receive, Stream!EntryAt
<1>5. CASE branch # None
  <2>1. Expected' \in Stream!Places
    BY <1>1, <1>2, <1>5 DEF BranchBuffer, Expected, Places, Stream!Places
  <2>2. Stream!Redirect
    BY <1>1, <1>4, <2>1 DEF Stream!Redirect
  <2> QED BY <2>2 DEF Stream!Next
<1>6. CASE branch = None /\ taken
  <2>1. ~branch_q /\ active_q
    BY <1>3, <1>6 DEF Expected
  <2>2. Expected' = [pc |-> NextPc[out.pc], priv |-> priv_f_q]
    <3>1. /\ skid_q' = None /\ ~branch_q' /\ active_q' /\ priv_f_q' = priv_f_q
          /\ FetchOut(answer) # None => Tail' = NextPc[FetchOut(answer).pc]
          /\ FetchOut(answer) = None => skid_q = None /\ Tail' = Tail
      BY <1>6, <2>1, TailFacts
    <3>2. Expected' = [pc |-> IF buffer_q' # None THEN buffer_q'.pc ELSE Tail',
                       priv |-> priv_f_q]
      BY <3>1 DEF Expected, Tail
    <3>3. CASE EXTRA_DECODE_STAGE
      <4>1. out = buffer_q /\ buffer_q' = FetchOut(answer)
        BY <1>1, <1>6, <3>3 DEF DecodeOut, DecodeStage
      <4>2. NextPc[out.pc] = IF skid_q # None THEN skid_q.pc ELSE Tail
        BY <1>6, <4>1 DEF IInv, DecodeInv, Tail
      <4>3. FetchOut(answer) # None =>
                FetchOut(answer).pc = IF skid_q # None THEN skid_q.pc ELSE Tail
        BY <1>2, FetchOutFacts DEF Tail
      <4> QED BY <3>1, <3>2, <4>1, <4>2, <4>3
    <3>4. CASE ~EXTRA_DECODE_STAGE
      <4>1. out = FetchOut(answer) /\ buffer_q' = None
        BY <1>1, <3>4 DEF DecodeOut, DecodeStage
      <4> QED BY <1>6, <3>1, <3>2, <4>1
    <3> QED BY <3>3, <3>4
  <2>3. Stream!Deliver
    BY <1>3, <1>4, <1>6, <2>2 DEF Stream!Deliver
  <2> QED BY <2>3 DEF Stream!Next
<1>7. CASE branch = None /\ ~taken
  <2>1. delivered' = delivered
    BY <1>1, <1>7
  <2>2. CASE branch_q
    <3>1. buffer_q = None /\ FetchOut(answer) = None
      BY <2>2 DEF IInv, DecodeInv, FetchOut
    <3>2. buffer_q' = None /\ skid_q' = None
      BY <1>1, <3>1 DEF DecodeStage, ResponseBuffer
    <3>3. branch_to_q = [pc |-> branch_to_q.pc, priv |-> branch_to_q.priv]
      BY DEF IInv, TypeOK, Places
    <3>4. CASE Request(answer, ready, accept)
      <4>1. ~Stall(answer, ready, accept)
        BY <3>4 DEF Request, Stall
      <4>2. /\ ~branch_q' /\ branch_d_q' /\ active_q'
            /\ pc_f_q' = branch_to_q.pc /\ priv_f_q' = branch_to_q.priv
        BY <1>1, <1>7, <2>2, <3>4, <4>1 DEF BranchBuffer, ProgramCounter
      <4> QED BY <2>1, <2>2, <3>2, <3>3, <4>2 DEF Expected, Stream!vars
    <3>5. CASE ~Request(answer, ready, accept)
      BY <1>1, <1>7, <2>1, <2>2, <3>5 DEF BranchBuffer, Expected, Stream!vars
    <3> QED BY <3>4, <3>5
  <2>3. CASE ~branch_q /\ ~active_q
    <3>1. ~branch_q' /\ ~active_q'
      BY <1>1, <1>7, <2>3 DEF BranchBuffer, ProgramCounter
    <3> QED BY <2>1, <2>3, <3>1 DEF Expected, Stream!vars
  <2>4. CASE ~branch_q /\ active_q /\ out # None
    <3>1. ~accept
      BY <1>7, <2>4
    <3>2. /\ ~branch_q' /\ active_q' /\ priv_f_q' = priv_f_q
      BY <1>1, <1>7, <2>4, <3>1 DEF BranchBuffer, Request, ProgramCounter, Stall
    <3>3. CASE EXTRA_DECODE_STAGE
      <4>1. buffer_q' = buffer_q /\ buffer_q = out
        BY <1>1, <1>7, <2>4, <3>1, <3>3 DEF DecodeStage, DecodeOut
      <4> QED BY <1>3, <2>1, <2>4, <3>2, <4>1 DEF Expected, Stream!vars
    <3>4. CASE ~EXTRA_DECODE_STAGE
      <4>1. buffer_q' = None /\ skid_q' = out
        BY <1>1, <3>1, <3>4 DEF DecodeStage, ResponseBuffer, DecodeOut
      <4> QED BY <1>3, <2>1, <2>4, <3>2, <4>1 DEF Expected, Stream!vars
    <3> QED BY <3>3, <3>4
  <2>5. CASE ~branch_q /\ active_q /\ out = None
    <3>1. accept
      BY <1>2, <2>5
    <3>2. /\ skid_q' = None /\ ~branch_q' /\ active_q' /\ priv_f_q' = priv_f_q
          /\ FetchOut(answer) = None => skid_q = None /\ Tail' = Tail
      BY <1>7, <2>5, <3>1, TailFacts
    <3>3. Expected' = [pc |-> IF buffer_q' # None THEN buffer_q'.pc ELSE Tail',
                       priv |-> priv_f_q]
      BY <3>2 DEF Expected, Tail
    <3>4. buffer_q = None
      BY <2>5 DEF DecodeOut, IInv, DecodeInv
    <3>5. Expected = [pc |-> IF skid_q # None THEN skid_q.pc ELSE Tail, priv |-> priv_f_q]
      BY <2>5, <3>4 DEF Expected, Tail
    <3>6. buffer_q' = FetchOut(answer)
      BY <1>1, <1>7, <2>5, <3>1 DEF DecodeStage, DecodeOut
    <3>7. FetchOut(answer) # None =>
              FetchOut(answer).pc = IF skid_q # None THEN skid_q.pc ELSE Tail
      BY <1>2, FetchOutFacts DEF Tail
    <3> QED BY <2>1, <3>2, <3>3, <3>5, <3>6, <3>7 DEF Stream!vars
  <2> QED BY <2>2, <2>3, <2>4, <2>5
<1> QED BY <1>5, <1>6, <1>7

-----------------------------------------------------------------------------
(* Every step of the specification keeps the invariant. *)
LEMMA StepKeepsIInv == IInv /\ [Next]_vars => IInv'
<1> SUFFICES ASSUME IInv, [Next]_vars PROVE IInv'
  OBVIOUS
<1>1. CASE Next
  <2>1. PICK answer, ready, accept, branch : Edge(answer, ready, accept, branch)
    BY <1>1, NextIsEdge DEF IInv
  <2> QED BY <2>1, EdgeKeepsIInv
<1>2. CASE UNCHANGED vars
  BY <1>2 DEF vars, IInv, TypeOK, IdleInv, RequestInv, SkidInv, DecodeInv, PrivInv
<1> QED BY <1>1, <1>2

(* So every reachable state of the fetch and issue stages satisfies it. *)
THEOREM Invariance == Spec => []IInv
<1>1. Init => IInv
  BY InitIInv
<1>2. IInv /\ [Next]_vars => IInv'
  BY StepKeepsIInv
<1> QED BY <1>1, <1>2, PTL DEF Spec

(* Type correctness. *)
THEOREM TypeCorrect == Spec => []TypeOK
<1>1. IInv => TypeOK
  BY DEF IInv
<1> QED BY <1>1, Invariance, PTL

(* No answer of the icache meets a full skid buffer. *)
THEOREM SkidBufferSafe == Spec => []NoAnswerLost
<1>1. IInv => NoAnswerLost
  BY DEF IInv, SkidInv, NoAnswerLost
<1> QED BY <1>1, Invariance, PTL

(* An answer that is kept was read from the address, and with the          *)
(* privilege, it will be labelled with.                                    *)
THEOREM AnswersLabelled == Spec => []AnswerIsLabelled
<1>1. IInv => AnswerIsLabelled
  BY DEF IInv, RequestInv, AnswerIsLabelled
<1> QED BY <1>1, Invariance, PTL

(* The fetch unit reads at the privilege the issue stage runs at. *)
THEOREM PrivilegesAgree == Spec => []PrivilegeAgrees
<1>1. IInv => PrivilegeAgrees
  BY DEF IInv, PrivInv, PrivilegeAgrees, Expected
<1> QED BY <1>1, Invariance, PTL

(* The front end implements the stream of instructions: whatever the       *)
(* icache and the issue stage do, no instruction is skipped, repeated or   *)
(* taken from an abandoned path.                                           *)
THEOREM StreamImplemented == Spec => ImplementsStream
<1>1. Init => Stream!Init
  BY DEF Init, Stream!Init, Expected
<1>2. IInv /\ [Next]_vars => [Stream!Next]_(Stream!vars)
  <2> SUFFICES ASSUME IInv, [Next]_vars PROVE [Stream!Next]_(Stream!vars)
    OBVIOUS
  <2>1. CASE Next
    <3>1. PICK answer, ready, accept, branch : Edge(answer, ready, accept, branch)
      BY <2>1, NextIsEdge DEF IInv
    <3> QED BY <3>1, EdgeRefines
  <2>2. CASE UNCHANGED vars
    BY <2>2 DEF vars, Expected, Stream!vars
  <2> QED BY <2>1, <2>2
<1> QED BY <1>1, <1>2, Invariance, PTL DEF Spec, Stream!Spec, ImplementsStream

=============================================================================
