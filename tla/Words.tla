--------------------------------- MODULE Words ---------------------------------
(***************************************************************************)
(* Integers of a fixed width, as the processors of the simulator and C know*)
(* them.  A word of w bits is a number from 0 to 2^w - 1.                  *)
(***************************************************************************)
EXTENDS Integers, Bitwise

Wrap(w, x) == x % 2^w
Bit(x, k) == (x \div 2^k) % 2
Signed(w, x) == IF Bit(x, w - 1) = 1 THEN x - 2^w ELSE x
Neg(w, x) == Wrap(w, -x)
Not1s(w, x) == 2^w - 1 - x
Truth(b) == IF b THEN 1 ELSE 0

\* The lower h bits of x as an integer, extended to w bits.
Extend(w, h, x) == Wrap(w, Signed(h, Wrap(h, x)))

\* The shifts of C, the second for unsigned and the third for signed operands.
Shl(w, x, k) == Wrap(w, x * 2^k)
Shr(x, k) == x \div 2^k
Sar(w, x, k) == Wrap(w, Signed(w, x) \div 2^k)

\* The operators / and % of C truncate.
Magnitude(x) == IF x < 0 THEN -x ELSE x
Quot(a, b) == IF (a < 0) = (b < 0) THEN Magnitude(a) \div Magnitude(b) ELSE -(Magnitude(a) \div Magnitude(b))
Rem(a, b) == a - b * Quot(a, b)
=============================================================================
