----------------------------- MODULE RiscvArith -----------------------------
(***************************************************************************)
(* What instructions compute, twice: by the units of the core (riscv_alu,  *)
(* riscv_exec, riscv_multiplier, riscv_divider) and by the simulator it is *)
(* verified against (riscv.cpp).  A word is a number below Values.         *)
(***************************************************************************)
EXTENDS Integers

CONSTANTS
    Width,   \* bits of a word, 32
    Half     \* 2^31, the words from which on the sign is set

ASSUME ArithAssumption ==
    Width \in Nat \ {0} /\ Half \in Nat \ {0} /\ 2^Width = 2 * Half

Values == 2 * Half
Word   == 0 .. Values - 1

Sign(x)   == x >= Half                               \* x[31]
Signed(x) == IF Sign(x) THEN x - Values ELSE x       \* (signed)x

(* Division of C and of Verilog: towards 0. *)
Abs(x) == IF x < 0 THEN -x ELSE x
Quotient(x, y) ==
    IF (x < 0) = (y < 0) THEN Abs(x) \div Abs(y) ELSE -(Abs(x) \div Abs(y))
Remainder(x, y) == x - (y * Quotient(x, y))

-----------------------------------------------------------------------------
(* riscv.cpp, execute(): the results of the instructions, by their names. *)

SimAlu(a, b) ==
    [add  |-> (a + b) % Values,
     sub  |-> (a - b) % Values,
     slt  |-> IF Signed(a) < Signed(b) THEN 1 ELSE 0,
     sltu |-> IF a < b THEN 1 ELSE 0]

(* A shift of C by Width or more is undefined, and the count is not cut.   *)
SimShiftDefined(b) == b < Width

SimShift(a, b) ==
    [sll |-> (a * (2^b)) % Values,
     srl |-> a \div (2^b),
     sra |-> (Signed(a) \div (2^b)) % Values]

SimTaken(op, a, b) ==
    \/ op = "beq"  /\ a = b
    \/ op = "bne"  /\ a # b
    \/ op = "blt"  /\ Signed(a) < Signed(b)
    \/ op = "bge"  /\ Signed(a) >= Signed(b)
    \/ op = "bltu" /\ a < b
    \/ op = "bgeu" /\ a >= b

(* The products are of long long, which has twice the bits. *)
SimMul(a, b) ==
    [mul    |-> (Signed(a) * Signed(b)) % Values,
     mulh   |-> ((Signed(a) * Signed(b)) \div Values) % Values,
     mulhsu |-> ((Signed(a) * b) \div Values) % Values,
     mulhu  |-> (a * b) \div Values]

Overflows(a, b) == a = Half /\ b = Values - 1        \* INT32_MIN / -1

SimDiv(a, b) ==
    [div  |-> IF Overflows(a, b) THEN a
              ELSE IF b # 0 THEN Quotient(Signed(a), Signed(b)) % Values
              ELSE Values - 1,
     divu |-> IF b # 0 THEN a \div b ELSE Values - 1,
     rem  |-> IF Overflows(a, b) THEN 0
              ELSE IF b # 0 THEN Remainder(Signed(a), Signed(b)) % Values ELSE a,
     remu |-> IF b # 0 THEN a % b ELSE a]

-----------------------------------------------------------------------------
(* riscv_alu.v *)

SubRes(a, b) == (a - b) % Values

(* A comparison takes the sign of the difference, or of the operand where  *)
(* the signs differ and the difference may overflow.                       *)
LessSigned(a, b) == IF Sign(a) # Sign(b) THEN Sign(a) ELSE Sign(SubRes(a, b))

Alu(a, b) ==
    [add  |-> (a + b) % Values,
     sub  |-> SubRes(a, b),
     slt  |-> IF LessSigned(a, b) THEN 1 ELSE 0,
     sltu |-> IF a < b THEN 1 ELSE 0]

(* A shift takes the low bits of the count, and an arithmetic one fills    *)
(* the upper bits with the sign.                                           *)
ShiftCount(b) == b % Width

Shift(a, count) ==
    [sll |-> (a * (2^count)) % Values,
     srl |-> a \div (2^count),
     sra |-> (a \div (2^count))
             + (IF Sign(a) THEN Values - (2^(Width - count)) ELSE 0)]

(* riscv_exec.v *)

GreaterSigned(a, b) == IF Sign(a) # Sign(b) THEN Sign(b) ELSE Sign(SubRes(b, a))

Taken(op, a, b) ==
    \/ op = "beq"  /\ a = b
    \/ op = "bne"  /\ a # b
    \/ op = "blt"  /\ LessSigned(a, b)
    \/ op = "bge"  /\ (GreaterSigned(a, b) \/ a = b)
    \/ op = "bltu" /\ a < b
    \/ op = "bgeu" /\ a >= b

(* riscv_multiplier.v: operands of twice the bits, whose upper half is the *)
(* sign where the operand has one, and a product of as many bits.          *)
Wide(signed, x) == IF signed /\ Sign(x) THEN ((Values - 1) * Values) + x ELSE x

MultResult(op, a, b) ==
    (Wide(op \in {"mulh", "mulhsu"}, a) * Wide(op = "mulh", b)) % (Values * Values)

Multiplier(op, a, b) ==
    IF op = "mul" THEN MultResult(op, a, b) % Values ELSE MultResult(op, a, b) \div Values

(* riscv_divider.v; a division by 0 gives x, which is left out here.       *)
Divider(a, b) ==
    [div  |-> Quotient(Signed(a), Signed(b)) % Values,
     divu |-> a \div b,
     rem  |-> Remainder(Signed(a), Signed(b)) % Values,
     remu |-> a % b]

-----------------------------------------------------------------------------
(* The core computes what the simulator does, where both define a result.  *)
UnitsAgree(a, b) ==
    /\ Alu(a, b) = SimAlu(a, b)
    /\ SimShiftDefined(b) => Shift(a, ShiftCount(b)) = SimShift(a, b)
    /\ \A op \in {"beq", "bne", "blt", "bge", "bltu", "bgeu"} :
          Taken(op, a, b) <=> SimTaken(op, a, b)
    /\ \A op \in {"mul", "mulh", "mulhsu", "mulhu"} :
          Multiplier(op, a, b) = SimMul(a, b)[op]
    /\ b # 0 => Divider(a, b) = SimDiv(a, b)

=============================================================================
