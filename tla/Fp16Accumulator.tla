---------------------------- MODULE Fp16Accumulator ----------------------------
(***************************************************************************)
(* One accumulator of the array (c_reg of src/pe_fp16.v) and the values    *)
(* its multiply-accumulate unit brings it to: a START clears it, and then  *)
(* every edge adds the product of two operands.  The states are the        *)
(* accumulator values on which the arithmetic is examined.                 *)
(***************************************************************************)
EXTENDS Fp16

CONSTANT Operand

ASSUME OperandAssumption == Operand \subseteq Half

\* What the powers of two are that places differ by.
ASSUME PlacesAssumption ==
  2^0 = 1 /\ \A n \in 0 .. 29 : 2^n \in Nat /\ 2^(n + 1) = 2 * 2^n

VARIABLE accumulator   \* c_reg, a name the array as a whole already has

Clear == accumulator' = 0

Accumulate == \E a, b \in Operand : accumulator' = fp16_mac(a, b, accumulator)

AccumulatorSpec == accumulator = 0 /\ [][Clear \/ Accumulate]_accumulator

-----------------------------------------------------------------------------
\* The accumulator stays a 16-bit word.
AccumulatorTypeOK == accumulator \in Half

IsNormal(x) == Exp(x) \in 1 .. 30

\* The exponent of the sum does not leave the range.
SumInRange(a, b) ==
  LET large == Larger(a, b)
      sum == MantSum(large, Smaller(a, b))
  IN  Exp(large) <= 29 /\ Exp(large) + 1 - shift_left(sum) >= 1

\* Exp of the exact product before the carry.
ExpSum(a, b) == Exp(a) + Exp(b) - 15

(***************************************************************************)
(* The product of two normal numbers is truncated toward zero and nothing  *)
(* else, as long as its exponent is in range: counted in its own last      *)
(* place it is less than one below the exact product, and has its sign     *)
(* (fp16_mult.v lines 25-47).                                              *)
(***************************************************************************)
Truncated(a, b) ==
  LET r == fp16_mult(a, b)
      exact == Mant(a) * Mant(b)
      place == IF Exp(r) = ExpSum(a, b) THEN 1024 ELSE 2048
  IN  /\ Exp(r) \in {ExpSum(a, b), ExpSum(a, b) + 1}
      /\ Mant(r) * place <= exact /\ exact < (Mant(r) + 1) * place
      /\ (Sign(r) = 1) <=> (Sign(a) # Sign(b))

ProductTruncated ==
  \A a \in Operand :
    IsNormal(a) /\ IsNormal(accumulator) /\ ExpSum(a, accumulator) \in 1 .. 30
    => Truncated(a, accumulator)

(***************************************************************************)
(* The sum of two normal numbers is less than one unit of the result's     *)
(* last place away from the exact sum, so a sum that a word can hold is    *)
(* exact: aligning with two guard bits and no sticky bit loses nothing     *)
(* that survives the normalisation (fp16_add.v lines 31-82).  Left out are *)
(* the one difference for which the encoder fails (SumNormalised), and     *)
(* operands more than 18 binary places apart, the smaller of which is      *)
(* shifted out at 13 places already.                                       *)
(***************************************************************************)
WithinOneUlp(a, b) ==
  LET r == fp16_add(a, b)
      low == IF Exp(r) <= Exp(Smaller(a, b)) THEN Exp(r) ELSE Exp(Smaller(a, b))
      At(x) == Signed(x) * 2 ^ (Exp(x) - low)
  IN  IF r = 0 THEN At(a) + At(b) = 0
      ELSE Abs(At(r) - (At(a) + At(b))) < 2 ^ (Exp(r) - low)

SumWithinOneUlp ==
  \A a \in Operand :
    /\ IsNormal(a) /\ IsNormal(accumulator) /\ SumInRange(a, accumulator)
    /\ Abs(Exp(a) - Exp(accumulator)) <= 18
    /\ MantSum(Larger(a, accumulator), Smaller(a, accumulator)) # 2
    => WithinOneUlp(a, accumulator)

(***************************************************************************)
(* The comment of fp16_add.v line 41: the priority encoder finds the first *)
(* one bit of the sum, so the normalised mantissa has its implicit bit.    *)
(***************************************************************************)
SumNormalised ==
  \A a \in Operand :
    LET sum == MantSum(Larger(a, accumulator), Smaller(a, accumulator))
    IN  IsNormal(a) /\ IsNormal(accumulator) /\ sum \in 1 .. 8191
        => normalized_mant(sum) \div 4096 = 1

(***************************************************************************)
(* The comment of fp16_mult.v line 21: the sixth bit of exp_sum guards     *)
(* against overflow.  So the product of two numbers of magnitude at least  *)
(* 1 would have magnitude at least 1.                                      *)
(***************************************************************************)
OverflowGuarded ==
  \A a \in Operand :
    IsNormal(a) /\ IsNormal(accumulator) /\ Exp(a) >= 15 /\ Exp(accumulator) >= 15
    => Exp(fp16_mult(a, accumulator)) >= 15
=============================================================================
