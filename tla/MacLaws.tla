-------------------------------- MODULE MacLaws --------------------------------
(***************************************************************************)
(* What the proofs assume of the multiply-accumulate unit, and no more:    *)
(* its output is a word, and two zero operands leave the accumulator as it *)
(* is (src/fp16_mult.v lines 32-33, src/fp16_add.v lines 64-65).  The      *)
(* array relies on the second: outside the N edges at which an element     *)
(* meets its operands it accumulates products of zeros.                    *)
(***************************************************************************)
EXTENDS SystolicArray

ASSUME MacType == \A a, b, acc \in Word : Mac(a, b, acc) \in Word

ASSUME MacZero == \A acc \in Word : Mac(0, 0, acc) = acc
=============================================================================
