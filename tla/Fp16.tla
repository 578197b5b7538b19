--------------------------------- MODULE Fp16 ---------------------------------
(***************************************************************************)
(* The combinational arithmetic of src/fp16_mult.v, src/fp16_add.v and     *)
(* src/fp16_mac.v on 16-bit words: sign, 5 bits of exponent, 10 bits of    *)
(* fraction.  The code treats exponent 31 as any other, drops subnormal    *)
(* mantissas, truncates, and lets an exponent out of range wrap.           *)
(***************************************************************************)
EXTENDS Integers

HalfSize == 65536
Half == 0 .. HalfSize - 1

Sign(x) == x \div 32768
Exp(x) == (x \div 1024) % 32
Frac(x) == x % 1024
IsZero(x) == x % 32768 = 0

\* The mantissa with its implicit bit; 0 for subnormal numbers.
Mant(x) == IF Exp(x) = 0 THEN 0 ELSE 1024 + Frac(x)

\* Concatenation: the fields keep their low 5 and 10 bits.
Pack(sign, exp, frac) == (32768 * sign) + (1024 * (exp % 32)) + (frac % 1024)

Pow2 == <<1, 2, 4, 8, 16, 32, 64, 128, 256, 512, 1024, 2048, 4096, 8192>>

\* x >> d of a 13-bit x, and x << d for d <= 10.
ShiftRight(x, d) == IF d > 13 THEN 0 ELSE x \div Pow2[d + 1]
ShiftLeft(x, d) == x * Pow2[d + 1]

-----------------------------------------------------------------------------
(***************************************************************************)
(* fp16_mult: the product of two mantissas has 21 or 22 bits.              *)
(***************************************************************************)
\* Variant: the carry of the mantissas does not reach the exponent.
CarryLost(a, b) ==
  LET mant_mult == Mant(a) * Mant(b)
  IN  IF IsZero(a) \/ IsZero(b) THEN 0
      ELSE Pack((Sign(a) + Sign(b)) % 2, Exp(a) + Exp(b) - 15,
                mant_mult \div (IF mant_mult >= 2097152 THEN 2048 ELSE 1024))

\* Variant: the fraction is taken from the same bits in both cases.
SameSlice(a, b) ==
  LET mant_mult == Mant(a) * Mant(b)
  IN  IF IsZero(a) \/ IsZero(b) THEN 0
      ELSE Pack((Sign(a) + Sign(b)) % 2,
                Exp(a) + Exp(b) - (IF mant_mult >= 2097152 THEN 14 ELSE 15),
                mant_mult \div 1024)

fp16_mult(a, b) ==
  LET sign_res == (Sign(a) + Sign(b)) % 2
      exp_sum == Exp(a) + Exp(b) - 15
      mant_mult == Mant(a) * Mant(b)
  IN  IF IsZero(a) \/ IsZero(b) THEN 0
      ELSE IF mant_mult >= 2097152
           THEN Pack(sign_res, exp_sum + 1, mant_mult \div 2048)
           ELSE Pack(sign_res, exp_sum, mant_mult \div 1024)

-----------------------------------------------------------------------------
(***************************************************************************)
(* fp16_add: the smaller operand is aligned to the larger with two guard   *)
(* bits, added or subtracted, and the sum normalised.                      *)
(***************************************************************************)
Magnitude(x) == Exp(x) * 2048 + Mant(x)

Larger(a, b) == IF Magnitude(a) > Magnitude(b) THEN a ELSE b
Smaller(a, b) == IF Magnitude(a) > Magnitude(b) THEN b ELSE a

\* mant_sum, 14 bits.
MantSum(large, small) ==
  LET aligned == ShiftRight(4 * Mant(small), Exp(large) - Exp(small))
  IN  IF Sign(large) = Sign(small) THEN 4 * Mant(large) + aligned
                                   ELSE 4 * Mant(large) - aligned

\* Variant: the encoder gives up one bit earlier.
ShortEncoder(sum) ==
  IF sum < 16 THEN 10 ELSE 13 - CHOOSE p \in 4 .. 13 : sum \div Pow2[p + 1] = 1

\* The priority encoder: 13 - p for the first one bit p, and 11 below bit 3.
shift_left(sum) ==
  IF sum < 8 THEN 11 ELSE 13 - CHOOSE p \in 3 .. 13 : sum \div Pow2[p + 1] = 1

\* mant_sum << (shift_left ? shift_left - 1 : 0), in 14 bits.
normalized_mant(sum) ==
  LET s == shift_left(sum)
  IN  ShiftLeft(sum, IF s = 0 THEN 0 ELSE s - 1) % 16384

fp16_add(a, b) ==
  LET large == Larger(a, b)
      sum == MantSum(large, Smaller(a, b))
  IN  IF IsZero(a) THEN b
      ELSE IF IsZero(b) THEN a
      ELSE IF sum = 0 THEN 0
      ELSE IF sum >= 8192
           THEN Pack(Sign(large), Exp(large) + 1, sum \div 8)
           ELSE Pack(Sign(large), Exp(large) + 1 - shift_left(sum),
                     normalized_mant(sum) \div 4)

fp16_mac(a, b, acc) == fp16_add(fp16_mult(a, b), acc)

-----------------------------------------------------------------------------
(***************************************************************************)
(* What the words stand for: x is Signed(x) units of 2^(Exp(x) - 25), and  *)
(* Scaled(x, k) is x in units of 2^-k, for x that has no finer bits.       *)
(***************************************************************************)
Signed(x) == IF Sign(x) = 1 THEN -Mant(x) ELSE Mant(x)

Abs(n) == IF n < 0 THEN -n ELSE n

Scaled(x, k) ==
  IF Exp(x) = 0 THEN 0
  ELSE IF Exp(x) + k >= 25 THEN Signed(x) * 2 ^ (Exp(x) + k - 25)
  ELSE IF Sign(x) = 1 THEN -(Mant(x) \div 2 ^ (25 - Exp(x) - k))
                      ELSE Mant(x) \div 2 ^ (25 - Exp(x) - k)

\* The word x is n units of 2^-k, none of its bits finer than the unit.
Represents(x, n, k) ==
  IF n = 0 THEN IsZero(x)
  ELSE /\ Exp(x) >= 15 - k
       /\ Sign(x) = 1 <=> n < 0
       /\ Mant(x) * 2 ^ (Exp(x) - (15 - k)) = Abs(n) * 1024
=============================================================================
