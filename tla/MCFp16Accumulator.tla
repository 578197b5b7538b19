--------------------------- MODULE MCFp16Accumulator ---------------------------
(***************************************************************************)
(* Operands of different signs, exponents and fractions: the smallest and  *)
(* the largest fraction, single low bits, a subnormal number, zeros, and   *)
(* magnitudes far enough apart to be shifted out.                          *)
(***************************************************************************)
EXTENDS Fp16Accumulator

Word16(sign, exp, frac) == sign * 32768 + exp * 1024 + frac

MCOperand ==
  {0, 32768,
   Word16(0, 15, 0), Word16(1, 15, 0),       \* 1, -1
   Word16(1, 14, 1023),                      \* just above -1
   Word16(0, 15, 1), Word16(0, 13, 341), Word16(1, 16, 682),
   Word16(0, 17, 1023), Word16(1, 9, 512), Word16(0, 4, 3), 5}
=============================================================================
