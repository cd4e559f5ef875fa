------------------------------ MODULE PmemPort ------------------------------
(***************************************************************************)
(* What the data cache may count on from the memory side: a port that      *)
(* serves one transfer at a time.  A read answers every word of its burst; *)
(* a write takes the words one by one and answers once, after the last.    *)
(* Abstract specification of dcache_axi.v with the AXI memory behind it,   *)
(* and the environment of dcache.v.                                        *)
(***************************************************************************)
EXTENDS Integers, Sequences

CONSTANTS
    Addrs,      \* word addresses
    Initial,    \* contents of the memory at reset, a function on Addrs
    Contents,   \* what a word may hold
    Bursts,     \* sequences of addresses that a transfer may be for
    FailAddrs,  \* addresses where a transfer may fail
    None

VARIABLES
    mem,        \* the memory
    op,         \* the transfer being served (its first word is at, the
                \* words to come are todo), or None
    ans         \* the answer shown in this cycle, or None

portVars == <<mem, op, ans>>

Ops     == [kind : {"rd", "wr"}, at : Addrs, todo : Seq(Addrs)]
Beats   == [kind : {"rd", "wr"}, burst : Bursts, data : Contents \cup {None}]
Answers == [data : Contents \cup {None}, error : BOOLEAN]

PortInit == mem = Initial /\ op = None /\ ans = None

AwaitsData   == op # None /\ op.kind = "wr" /\ op.todo # <<>>
AwaitsAnswer == op # None /\ ~AwaitsData

(* The words of a burst are in todo, the next one first. *)
PutWord(at, todo, data) ==
    /\ mem' = [mem EXCEPT ![Head(todo)] = data]
    /\ op' = [kind |-> "wr", at |-> at, todo |-> Tail(todo)]

(* A word after the first goes to the next address of the burst, whatever  *)
(* address it comes with.                                                  *)
Take(beat) ==
    \/ beat = None /\ UNCHANGED <<mem, op>>
    \/ /\ beat # None /\ AwaitsData
       /\ PutWord(op.at, op.todo, beat.data)
    \/ /\ beat # None /\ op = None /\ beat.kind = "wr"
       /\ PutWord(Head(beat.burst), beat.burst, beat.data)
    \/ /\ beat # None /\ op = None /\ beat.kind = "rd"
       /\ op' = [kind |-> "rd", at |-> Head(beat.burst), todo |-> beat.burst]
       /\ UNCHANGED mem

Answer ==
    /\ AwaitsAnswer
    /\ \E error \in BOOLEAN :
          /\ error => op.at \in FailAddrs
          /\ ans' = IF op.kind = "wr" THEN [data |-> None, error |-> error]
                    ELSE [data |-> mem[Head(op.todo)], error |-> error]
    /\ op' = IF op.kind = "rd" /\ Len(op.todo) > 1
             THEN [op EXCEPT !.todo = Tail(@)] ELSE None
    /\ UNCHANGED mem

(* A cycle in which the beat, or None, is accepted; it may answer only     *)
(* what was accepted before.                                               *)
Serve(beat, reply) ==
    IF reply /\ AwaitsAnswer THEN beat = None /\ Answer
    ELSE Take(beat) /\ ans' = None

PortNext == \E beat \in Beats \cup {None}, reply \in BOOLEAN : Serve(beat, reply)

PortSpec == PortInit /\ [][PortNext]_portVars

PortTypeOK ==
    /\ mem \in [Addrs -> Contents]
    /\ op \in Ops \cup {None}
    /\ ans \in Answers \cup {None}

=============================================================================
