-------------------------- MODULE RiscvArithProofs --------------------------
(***************************************************************************)
(* The comparisons, the sums and the divisions of the core are those of    *)
(* the simulator, for words of every width.                                *)
(***************************************************************************)
EXTENDS RiscvArith, TLAPS

(* What a difference modulo Values is. *)
LEMMA SubResIs ==
    ASSUME NEW a \in Word, NEW b \in Word
    PROVE  SubRes(a, b) = IF a >= b THEN a - b ELSE a - b + Values
BY ArithAssumption DEF SubRes, Word, Values

(* slt, slti and blt: the sign of the difference, corrected where the      *)
(* signs differ, is the comparison of the signed numbers.                  *)
THEOREM LessSignedAgrees ==
    ASSUME NEW a \in Word, NEW b \in Word
    PROVE  LessSigned(a, b) <=> Signed(a) < Signed(b)
<1>1. CASE Sign(a) # Sign(b)
    BY <1>1, ArithAssumption DEF LessSigned, Signed, Sign, Word, Values
<1>2. CASE Sign(a) = Sign(b)
    <2>1. LessSigned(a, b) = Sign(SubRes(a, b))
        BY <1>2 DEF LessSigned
    <2>2. Sign(SubRes(a, b)) <=> a < b
        BY <1>2, SubResIs, ArithAssumption DEF Sign, Word, Values
    <2> QED
        BY <1>2, <2>1, <2>2, ArithAssumption DEF Signed, Word, Values
<1> QED
    BY <1>1, <1>2

(* bge: what the core takes for greater is the other comparison.           *)
THEOREM GreaterSignedAgrees ==
    ASSUME NEW a \in Word, NEW b \in Word
    PROVE  GreaterSigned(a, b) \/ a = b <=> Signed(a) >= Signed(b)
<1>1. GreaterSigned(a, b) <=> LessSigned(b, a)
    BY DEF GreaterSigned, LessSigned
<1>2. LessSigned(b, a) <=> Signed(b) < Signed(a)
    BY LessSignedAgrees
<1>3. a = b <=> Signed(a) = Signed(b)
    BY ArithAssumption DEF Signed, Sign, Word, Values
<1>4. Signed(a) \in Int /\ Signed(b) \in Int
    BY ArithAssumption DEF Signed, Word, Values
<1> QED
    BY <1>1, <1>2, <1>3, <1>4

(* Every branch is taken by the core exactly when the simulator takes it.  *)
THEOREM BranchesAgree ==
    ASSUME NEW a \in Word, NEW b \in Word,
           NEW op \in {"beq", "bne", "blt", "bge", "bltu", "bgeu"}
    PROVE  Taken(op, a, b) <=> SimTaken(op, a, b)
<1>1. CASE op = "blt"
    BY <1>1, LessSignedAgrees DEF Taken, SimTaken
<1>2. CASE op = "bge"
    BY <1>2, GreaterSignedAgrees DEF Taken, SimTaken
<1>3. CASE op \in {"beq", "bne", "bltu", "bgeu"}
    BY <1>3 DEF Taken, SimTaken
<1> QED
    BY <1>1, <1>2, <1>3

(* Sums, differences and comparisons.                                      *)
THEOREM SumsAgree ==
    ASSUME NEW a \in Word, NEW b \in Word
    PROVE  Alu(a, b) = SimAlu(a, b)
<1>1. (IF LessSigned(a, b) THEN 1 ELSE 0) = (IF Signed(a) < Signed(b) THEN 1 ELSE 0)
    BY LessSignedAgrees
<1> QED
    BY <1>1 DEF Alu, SimAlu, SubRes

(* Divisions, except by 0: the one quotient that is not a word, of the     *)
(* least number by -1, wraps to what the simulator singles out.            *)
THEOREM DivisionsAgree ==
    ASSUME NEW a \in Word, NEW b \in Word \ {0}
    PROVE  Divider(a, b) = SimDiv(a, b)
<1>1. CASE ~Overflows(a, b)
    BY <1>1 DEF Divider, SimDiv
<1>2. CASE Overflows(a, b)
    <2>1. Signed(a) = -Half /\ Signed(b) = -1
        BY <1>2, ArithAssumption DEF Overflows, Signed, Sign, Values
    <2>2. Quotient(-Half, -1) = Half
        BY ArithAssumption DEF Quotient, Abs
    <2>3. Remainder(-Half, -1) = 0
        BY <2>2, ArithAssumption DEF Remainder
    <2>4. Half % Values = a /\ 0 % Values = 0
        BY <1>2, ArithAssumption DEF Overflows, Values
    <2> QED
        BY <1>2, <2>1, <2>2, <2>3, <2>4 DEF Divider, SimDiv
<1> QED
    BY <1>1, <1>2

=============================================================================
