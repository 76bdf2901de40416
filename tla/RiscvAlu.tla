------------------------------- MODULE RiscvAlu --------------------------------
(***************************************************************************)
(* The integer instructions of riscv.c.  The registers have XLEN bits where*)
(* the code has 64, and the operands of the -w instructions half of them.  *)
(* An instruction with an immediate gives the number as second operand.    *)
(***************************************************************************)
EXTENDS Words

CONSTANTS
  XLEN,     \* 64 in the code
  MulCycles, Div32Cycles, Div64Cycles   \* 5, 35, 67

RiscvAluAssumption ==
  /\ XLEN \in Nat /\ XLEN >= 4 /\ XLEN % 2 = 0
  /\ {MulCycles, Div32Cycles, Div64Cycles} \subseteq Nat \ {0}

Half == XLEN \div 2
S(x) == Signed(XLEN, x)
U(x) == Wrap(XLEN, x)
Short(x) == Extend(XLEN, Half, x)

\* riscv_mulhu: the upper word of a product, from products of halves.
Mulhu(a, b) ==
  LET a0 == a % 2^Half   a1 == a \div 2^Half
      b0 == b % 2^Half   b1 == b \div 2^Half
      t == U(a1 * b0 + (a0 * b0) \div 2^Half)
  IN U(a1 * b1 + t \div 2^Half + (a0 * b1 + (t % 2^Half)) \div 2^Half)

\* Mutant: the carry of the negation is forgotten.
MulhsuNoCarry(a, b) == IF S(a) < 0 THEN U(Not1s(XLEN, Mulhu(Neg(XLEN, a), b))) ELSE Mulhu(a, b)

\* riscv_mulhsu, riscv_mulh.
Mulhsu(a, b) ==
  IF S(a) < 0 THEN U(Not1s(XLEN, Mulhu(Neg(XLEN, a), b)) + Truth(U(a * b) = 0)) ELSE Mulhu(a, b)
Mulh(a, b) == IF S(b) < 0 THEN Mulhsu(Neg(XLEN, a), Neg(XLEN, b)) ELSE Mulhsu(a, b)

\* div and rem of the code catch the two operands for which C has no result.
Div(w, a, b) ==
  IF a = 2^(w - 1) /\ b = 2^w - 1 THEN 2^(w - 1)
  ELSE IF b = 0 THEN 2^w - 1 ELSE Wrap(w, Quot(Signed(w, a), Signed(w, b)))
Remainder(w, a, b) ==
  IF a = 2^(w - 1) /\ b = 2^w - 1 THEN 0
  ELSE IF b = 0 THEN a ELSE Wrap(w, Rem(Signed(w, a), Signed(w, b)))
Divu(w, a, b) == IF b = 0 THEN 2^w - 1 ELSE a \div b
Remu(a, b) == IF b = 0 THEN a ELSE a % b

\* addi to andi and add to and.
Simple(op, a, b) ==
  CASE op = "add" -> U(a + b)
    [] op = "sub" -> U(a - b)
    [] op = "sll" -> Shl(XLEN, a, b % XLEN)
    [] op = "slt" -> Truth(S(a) < S(b))
    [] op = "sltu" -> Truth(a < b)
    [] op = "xor" -> a ^^ b
    [] op = "srl" -> Shr(a, b % XLEN)
    [] op = "sra" -> Sar(XLEN, a, b % XLEN)
    [] op = "or" -> a | b
    [] op = "and" -> a & b
SimpleOps == {"add", "sub", "sll", "slt", "sltu", "xor", "srl", "sra", "or", "and"}

\* mul to remu.
MulDiv(op, a, b) ==
  CASE op = "mul" -> U(a * b)
    [] op = "mulh" -> Mulh(a, b)
    [] op = "mulhsu" -> Mulhsu(a, b)
    [] op = "mulhu" -> Mulhu(a, b)
    [] op = "div" -> Div(XLEN, a, b)
    [] op = "divu" -> Divu(XLEN, a, b)
    [] op = "rem" -> Remainder(XLEN, a, b)
    [] op = "remu" -> Remu(a, b)
MulOps == {"mul", "mulh", "mulhsu", "mulhu"}
DivOps == {"div", "divu", "rem", "remu"}

\* addiw to sraiw and addw to sraw: a and b are cut to Half bits, and the result
\* is extended.
Word(op, a, b) ==
  LET la == Wrap(Half, a)  lb == Wrap(Half, b)
  IN Short(CASE op = "addw" -> U(a + b)
             [] op = "subw" -> U(a - b)
             [] op = "sllw" -> Shl(Half, la, b % Half)
             [] op = "srlw" -> Shr(la, b % Half)
             [] op = "sraw" -> Sar(Half, la, b % Half)
             [] op = "mulw" -> U(a * b)
             [] op = "divw" -> Div(Half, la, lb)
             [] op = "divuw" -> Divu(Half, la, lb)
             [] op = "remw" -> Remainder(Half, la, lb)
             [] op = "remuw" -> Remu(la, lb))
WordOps == {"addw", "subw", "sllw", "srlw", "sraw"}
WordDivOps == {"divw", "divuw", "remw", "remuw"}

AluOps == SimpleOps \cup MulOps \cup DivOps \cup WordOps \cup WordDivOps \cup {"mulw"}
Alu(op, a, b) ==
  IF op \in SimpleOps THEN Simple(op, a, b)
  ELSE IF op \in MulOps \cup DivOps THEN MulDiv(op, a, b) ELSE Word(op, a, b)

AluLatency(op) ==
  IF op \in MulOps \cup {"mulw"} THEN MulCycles
  ELSE IF op \in DivOps THEN Div64Cycles
  ELSE IF op \in WordDivOps THEN Div32Cycles ELSE 1
=============================================================================
