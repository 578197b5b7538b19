----------------------------- MODULE AccelParams -----------------------------
(***************************************************************************)
(* The parameters of the accelerator, shared by the modules of its parts.  *)
(*                                                                         *)
(*   N     the Verilog parameter N: matrices are N x N, the array has N*N  *)
(*         processing elements (src/system/synthesis/system.v builds N=3)  *)
(*   Word  the values of a 16-bit data register.  The hardware's Word is   *)
(*         0 .. 65535; a smaller set with a stand-in for the multiply-     *)
(*         accumulate unit is enough to tell any two results apart.        *)
(***************************************************************************)
EXTENDS Integers

CONSTANTS N, Word

ASSUME NAssumption == N \in Nat \ {0}

ASSUME WordAssumption == 0 \in Word /\ Word \subseteq Nat

\* The index of a row, of a column and of a lane of the skew buffers.
Lane == 0 .. N - 1
=============================================================================
