--------------------------------- MODULE ArmAlu --------------------------------
(***************************************************************************)
(* The arithmetic that armv6m.c and armv3.c have in common, with its side  *)
(* effects on the flags of the processor, and the conditions.  A result is *)
(* a record of the word and the flags.                                     *)
(***************************************************************************)
EXTENDS Words

CONSTANTS W   \* bits of a word, 32 in the code

Cut(x) == Wrap(W, x)
Inv(x) == Not1s(W, x)
Res(v, fl) == [val |-> v, fl |-> fl]

\* instr_set_apsr_nz.
Nz(v, fl) == Res(v, [fl EXCEPT !.n = Bit(v, W - 1), !.z = Truth(v = 0)])

\* instr_lsl, instr_lsr, instr_asr and instr_ror.
Lsl(fl, v, k) ==
  IF k = 0 THEN Nz(v, fl)
  ELSE IF k < W THEN Nz(Shl(W, v, k), [fl EXCEPT !.c = Bit(v, W - k)])
  ELSE Nz(0, [fl EXCEPT !.c = IF k = W THEN v % 2 ELSE 0])
Lsr(fl, v, k) ==
  IF k = 0 THEN Nz(v, fl)
  ELSE IF k < W THEN Nz(Shr(v, k), [fl EXCEPT !.c = Bit(v, k - 1)])
  ELSE Nz(0, [fl EXCEPT !.c = IF k = W THEN Bit(v, W - 1) ELSE 0])
Asr(fl, v, k) ==
  IF k = 0 THEN Nz(v, fl)
  ELSE IF k < W THEN Nz(Sar(W, v, k), [fl EXCEPT !.c = Bit(v, k - 1)])
  ELSE Nz(Neg(W, Bit(v, W - 1)), [fl EXCEPT !.c = Bit(v, W - 1)])
Ror(fl, v, k) ==
  LET res == Shr(v, k) | Shl(W, v, W - k)
  IN IF k = 0 THEN Nz(v, fl) ELSE Nz(res, [fl EXCEPT !.c = Bit(res, W - 1)])

\* Mutant: the carry into the sum does not count for the one out of it.
AddWithCarryOfOperands(fl, a, b, carry) ==
  LET res == Cut(a + b + carry)
  IN Nz(res, [fl EXCEPT !.c = Bit(a + b, W),
                        !.v = Truth(Bit(a, W - 1) # Bit(res, W - 1) /\ Bit(b, W - 1) # Bit(res, W - 1))])

\* instr_add_with_carry.  The overflow is read off the signs.
AddWithCarry(fl, a, b, carry) ==
  LET sum == a + b + carry
      res == Cut(sum)
  IN Nz(res, [fl EXCEPT !.c = Bit(sum, W),
                        !.v = Truth(Bit(a, W - 1) # Bit(res, W - 1) /\ Bit(b, W - 1) # Bit(res, W - 1))])

\* The conditions of the branches of armv6m and of all instructions of armv3.
Condition(fl, cond) ==
  CASE cond = "eq" -> fl.z = 1
    [] cond = "ne" -> fl.z = 0
    [] cond = "cs" -> fl.c = 1
    [] cond = "cc" -> fl.c = 0
    [] cond = "mi" -> fl.n = 1
    [] cond = "pl" -> fl.n = 0
    [] cond = "vs" -> fl.v = 1
    [] cond = "vc" -> fl.v = 0
    [] cond = "hi" -> fl.c = 1 /\ fl.z = 0
    [] cond = "ls" -> fl.c = 0 \/ fl.z = 1
    [] cond = "ge" -> fl.n = fl.v
    [] cond = "lt" -> fl.n # fl.v
    [] cond = "gt" -> fl.z = 0 /\ fl.n = fl.v
    [] cond = "le" -> fl.z = 1 \/ fl.n # fl.v
    [] cond = "al" -> TRUE
=============================================================================
