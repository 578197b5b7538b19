------------------------------- MODULE NiosFp16 -------------------------------
(***************************************************************************)
(* The system of NiosSystem with the multiply-accumulate unit it is built  *)
(* with (Mac is fp16_mac and Word is Half in the configuration), and what  *)
(* its user expects of the numbers.                                        *)
(***************************************************************************)
EXTENDS NiosInvariant, Fp16

-----------------------------------------------------------------------------
(***************************************************************************)
(* How the program shows a word (source.c lines 37-57 and 127-138).        *)
(* fp16_to_float() is exact, for subnormals too; infinities and NaNs,      *)
(* which the unit takes for numbers, become zero.  The value is num / den. *)
(***************************************************************************)
fp16_to_float(w) ==
  CASE Exp(w) = 0 -> [num |-> Frac(w), den |-> 2^24]
    [] Exp(w) = 31 -> [num |-> 0, den |-> 1]
    [] Exp(w) \in 1 .. 25 -> [num |-> 1024 + Frac(w), den |-> 2^(25 - Exp(w))]
    [] OTHER -> [num |-> (1024 + Frac(w)) * 2^(Exp(w) - 25), den |-> 1]

\* Sign, whole part and hundredths of a quotient, cut off.  A minus sign is
\* printed with the whole part or, if that is zero, by itself.
Cut(negative, num, den) ==
  [minus |-> negative /\ num > 0,
   int_part |-> num \div den,
   frac_part |-> ((num % den) * 100) \div den]

Printed(w) ==
  LET value == fp16_to_float(w) IN Cut(Sign(w) = 1, value.num, value.den)

-----------------------------------------------------------------------------
\* Entry (i, k) of A times entry (k, j) of B in sixteenths, for matrices
\* whose entries are multiples of a quarter, and the sums of these terms.
ExactTerm(i, j, k) ==
  Scaled(matrix_A[Idx(i, k)], 2) * Scaled(matrix_B[Idx(k, j)], 2)

ExactSums(i, j) ==
  LET sum[k \in 0 .. N] ==
        IF k = 0 THEN 0 ELSE sum[k - 1] + ExactTerm(i, j, k - 1)
  IN  sum

ExactEntry(i, j) == ExactSums(i, j)[N]

(***************************************************************************)
(* Every entry the program reads is the exact product of matrices of small *)
(* multiples of a quarter: the sixteenths fit a mantissa, so neither the   *)
(* truncations of the multiplier and the adder nor the order in which an   *)
(* element accumulates may show.  What it prints is that number, cut off   *)
(* after the hundredths and with its sign (source.c lines 120-140).        *)
(***************************************************************************)
ResultsAreExact ==
  \A i, j \in Lane :
    result[Idx(i, j)] # NotRead
    => LET exact == ExactEntry(i, j)
       IN  /\ Scaled(result[Idx(i, j)], 4) = exact
           /\ Printed(result[Idx(i, j)]) = Cut(exact < 0, Abs(exact), 16)

\* A count the eleven bits of a mantissa hold, with a unit to spare.
FitsMantissa(n) == n <= 2046

(***************************************************************************)
(* The matrices of which that is said.  No entry has bits finer than a     *)
(* quarter, and N products of the largest two make no more sixteenths than *)
(* a mantissa counts; source.c, lines 23-34, has entries of at most 12     *)
(* quarters.                                                               *)
(***************************************************************************)
SmallMatrices ==
  \E most \in 0 .. 45 :
    /\ FitsMantissa(N * (most * most))
    /\ \A c \in Cell :
         \A x \in {matrix_A[c], matrix_B[c]} :
           Represents(x, Scaled(x, 2), 2) /\ Abs(Scaled(x, 2)) <= most
=============================================================================
