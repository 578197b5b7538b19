------------------------------ MODULE Fp16Proofs ------------------------------
(***************************************************************************)
(* The 16-bit arithmetic for all operands: it has the two laws the array   *)
(* relies on (MacLaws), the multiplier truncates exactly, and the adder is *)
(* less than one unit of the last place away from the exact sum.           *)
(***************************************************************************)
EXTENDS Fp16Accumulator, TLAPS

LEMMA HalfRange ==
  /\ Half \subseteq Int
  /\ \A x \in Int : x \in Half <=> 0 <= x /\ x <= 65535
<1>1. HalfSize = 65536
  BY SMT DEF HalfSize
<1>2. \A x \in Int : x \in Half <=> 0 <= x /\ x <= HalfSize - 1
  BY <1>1, SMTT(30) DEF Half
<1>3. Half \subseteq Int
  BY <1>1, SMT DEF Half
<1> QED
  BY <1>1, <1>2, <1>3, SMT

LEMMA Fields ==
  ASSUME NEW x \in Half
  PROVE  /\ Sign(x) \in {0, 1}
         /\ Exp(x) \in Nat /\ Exp(x) <= 31
         /\ Frac(x) \in Nat /\ Frac(x) <= 1023
         /\ Mant(x) \in Nat /\ Mant(x) <= 2047
         /\ Exp(x) # 0 => Mant(x) >= 1024
<1>1. x \in Int /\ 0 <= x /\ x <= 65535
  BY HalfRange, SMT
<1>2. Sign(x) \in {0, 1}
  BY <1>1, SMT DEF Sign
<1>3. Exp(x) \in Nat /\ Exp(x) <= 31
  BY <1>1, SMT DEF Exp
<1>4. Frac(x) \in Nat /\ Frac(x) <= 1023
  BY <1>1, SMT DEF Frac
<1>5. /\ Mant(x) \in Nat /\ Mant(x) <= 2047
      /\ Exp(x) # 0 => Mant(x) >= 1024
  BY <1>4, SMT DEF Mant
<1> QED
  BY <1>2, <1>3, <1>4, <1>5, SMT

LEMMA Packed ==
  ASSUME NEW s \in {0, 1}, NEW e \in Int, NEW f \in Int
  PROVE  /\ Pack(s, e, f) \in Half
         /\ Sign(Pack(s, e, f)) = s
         /\ Exp(Pack(s, e, f)) = e % 32
         /\ Frac(Pack(s, e, f)) = f % 1024
<1>1. PICK e5 \in Nat, f10 \in Nat :
        /\ e5 = e % 32 /\ e5 <= 31
        /\ f10 = f % 1024 /\ f10 <= 1023
  BY SMT
<1>2. Pack(s, e, f) = (32768 * s) + (1024 * e5) + f10
  BY <1>1, SMT DEF Pack
<1>3. Pack(s, e, f) \in Half
  BY <1>1, <1>2, HalfRange, SMT
<1>4. Sign(Pack(s, e, f)) = s
  BY <1>1, <1>2, SMT DEF Sign
<1>5. Exp(Pack(s, e, f)) = e5
  BY <1>1, <1>2, SMT DEF Exp
<1>6. Frac(Pack(s, e, f)) = f10
  BY <1>1, <1>2, SMT DEF Frac
<1> QED
  BY <1>1, <1>3, <1>4, <1>5, <1>6, SMT

LEMMA Powers ==
  /\ Pow2[1] = 1 /\ Pow2[2] = 2 /\ Pow2[3] = 4 /\ Pow2[4] = 8
  /\ Pow2[5] = 16 /\ Pow2[6] = 32 /\ Pow2[7] = 64 /\ Pow2[8] = 128
  /\ Pow2[9] = 256 /\ Pow2[10] = 512 /\ Pow2[11] = 1024
  /\ Pow2[12] = 2048 /\ Pow2[13] = 4096 /\ Pow2[14] = 8192
  BY SMT DEF Pow2

LEMMA PowerPositive ==
  ASSUME NEW d \in 0 .. 13
  PROVE  Pow2[d + 1] \in Nat /\ Pow2[d + 1] > 0
  BY Powers, SMT

-----------------------------------------------------------------------------
LEMMA ProductIsHalf ==
  ASSUME NEW a \in Half, NEW b \in Half
  PROVE  fp16_mult(a, b) \in Half
<1> DEFINE sign == (Sign(a) + Sign(b)) % 2
           sum == Exp(a) + Exp(b) - 15
           mm == Mant(a) * Mant(b)
           high == mm \div 2048
           low == mm \div 1024
<1>1. sign \in {0, 1} /\ sum \in Int /\ sum + 1 \in Int
  BY Fields, SMT
<1>2. high \in Int /\ low \in Int
  <2>1. mm \in Nat
    BY Fields, SMT
  <2> HIDE DEF mm
  <2> QED
    BY <2>1, SMT
<1>3. 0 \in Half
  BY HalfRange, SMT
<1>4. Pack(sign, sum + 1, high) \in Half /\ Pack(sign, sum, low) \in Half
  <2> HIDE DEF sign, sum, high, low
  <2> QED
    BY <1>1, <1>2, Packed
<1> QED
  BY <1>3, <1>4, SMT DEF fp16_mult

\* The adder orders its operands by exponent, then by mantissa.
LEMMA Ordered ==
  ASSUME NEW a \in Half, NEW b \in Half
  PROVE  /\ Larger(a, b) \in Half /\ Smaller(a, b) \in Half
         /\ Exp(Smaller(a, b)) <= Exp(Larger(a, b))
<1>1. /\ Exp(a) \in Nat /\ Exp(b) \in Nat
      /\ Mant(a) \in Nat /\ Mant(a) <= 2047
      /\ Mant(b) \in Nat /\ Mant(b) <= 2047
  BY Fields
<1>2. Magnitude(a) > Magnitude(b) => Exp(b) <= Exp(a)
  BY <1>1, SMT DEF Magnitude
<1>3. ~(Magnitude(a) > Magnitude(b)) => Exp(a) <= Exp(b)
  BY <1>1, SMT DEF Magnitude
<1> QED
  BY <1>2, <1>3, SMT DEF Larger, Smaller

LEMMA ShiftedRight ==
  ASSUME NEW x \in Nat, NEW d \in Nat
  PROVE  ShiftRight(x, d) \in Nat /\ ShiftRight(x, d) <= x
<1>1. CASE d > 13
  BY <1>1, SMT DEF ShiftRight
<1>2. CASE d <= 13
  <2>1. d \in 0 .. 13
    BY <1>2, SMT
  <2>2. PICK p \in Nat : p > 0 /\ p = Pow2[d + 1]
    BY <2>1, PowerPositive, SMT
  <2>3. ShiftRight(x, d) = x \div p
    BY <1>2, <2>2, SMT DEF ShiftRight
  <2>4. x \div p \in Nat /\ x \div p <= x
    BY <2>2, SMT
  <2> QED
    BY <2>3, <2>4, SMT
<1> QED
  BY <1>1, <1>2, SMT

\* The sum fits the 14 bits of mant_sum.
LEMMA MantSumRange ==
  ASSUME NEW a \in Half, NEW b \in Half, Exp(b) <= Exp(a)
  PROVE  MantSum(a, b) \in Int /\ MantSum(a, b) <= 16383
<1> DEFINE aligned == ShiftRight(4 * Mant(b), Exp(a) - Exp(b))
<1>1. /\ Mant(a) \in Nat /\ Mant(a) <= 2047
      /\ Mant(b) \in Nat /\ Mant(b) <= 2047
      /\ Exp(a) - Exp(b) \in Nat /\ 4 * Mant(b) \in Nat
  BY Fields, SMT
<1>2. aligned \in Nat /\ aligned <= 4 * Mant(b)
  BY <1>1, ShiftedRight, SMT
<1> HIDE DEF aligned
<1>3. MantSum(a, b) \in {4 * Mant(a) + aligned, 4 * Mant(a) - aligned}
  BY SMT DEF MantSum, aligned
<1> QED
  BY <1>1, <1>2, <1>3, SMT

\* The first one bit of a number of at most 14 bits, found by its quotients.
LEMMA FirstBit ==
  ASSUME NEW sum \in Nat, 8 <= sum, sum <= 16383
  PROVE  \E p \in 3 .. 13 : sum \div Pow2[p + 1] = 1
<1>1. CASE sum < 128
  BY <1>1, Powers, SMTT(30)
<1>2. CASE 128 <= sum /\ sum < 2048
  BY <1>2, Powers, SMTT(30)
<1>3. CASE 2048 <= sum
  BY <1>3, Powers, SMTT(30)
<1> QED
  BY <1>1, <1>2, <1>3, SMT

LEMMA ShiftLeftRange ==
  ASSUME NEW sum \in Int, sum <= 16383
  PROVE  shift_left(sum) \in 0 .. 11
<1>1. CASE sum < 8
  BY <1>1, SMT DEF shift_left
<1>2. CASE 8 <= sum
  <2>1. \E q \in 3 .. 13 : sum \div Pow2[q + 1] = 1
    BY <1>2, FirstBit, SMT
  <2>2. PICK p \in 3 .. 13 :
          p = CHOOSE q \in 3 .. 13 : sum \div Pow2[q + 1] = 1
    BY <2>1, SMT
  <2>3. shift_left(sum) = 13 - p
    BY <1>2, <2>2, SMT DEF shift_left
  <2>4. 13 - p \in 0 .. 11
    BY SMT
  <2> QED
    BY <2>3, <2>4, SMT
<1> QED
  BY <1>1, <1>2, SMT

LEMMA NormalizedIsInt ==
  ASSUME NEW sum \in Int, sum <= 16383
  PROVE  normalized_mant(sum) \in Int
<1> DEFINE s == shift_left(sum)
           d == IF s = 0 THEN 0 ELSE s - 1
<1>1. d \in 0 .. 10
  BY ShiftLeftRange, SMT
<1>2. normalized_mant(sum) = (sum * Pow2[d + 1]) % 16384
  BY SMT DEF normalized_mant, ShiftLeft
<1> HIDE DEF d
<1>3. PICK p \in Nat : p = Pow2[d + 1]
  BY <1>1, PowerPositive, SMT
<1> QED
  BY <1>2, <1>3, SMT

LEMMA SumIsHalf ==
  ASSUME NEW a \in Half, NEW b \in Half
  PROVE  fp16_add(a, b) \in Half
<1> DEFINE large == Larger(a, b)
           sum == MantSum(large, Smaller(a, b))
           sign == Sign(large)
           exp == Exp(large) + 1
           lower == exp - shift_left(sum)
           high == sum \div 8
           low == normalized_mant(sum) \div 4
<1>1. sum \in Int /\ sum <= 16383
  BY Ordered, MantSumRange, SMT
<1>2. sign \in {0, 1} /\ Exp(large) \in Int /\ exp \in Int
  <2>1. large \in Half
    BY Ordered, SMT
  <2> HIDE DEF large
  <2> QED
    BY <2>1, Fields, SMT
<1>3. shift_left(sum) \in 0 .. 11 /\ normalized_mant(sum) \in Int
  BY <1>1, ShiftLeftRange, NormalizedIsInt, SMT
<1>4. lower \in Int /\ high \in Int /\ low \in Int
  <2> HIDE DEF sum, exp
  <2> QED
    BY <1>1, <1>2, <1>3, SMT
<1>5. Pack(sign, exp, high) \in Half /\ Pack(sign, lower, low) \in Half
  <2> HIDE DEF large, sum, sign, exp, lower, high, low
  <2> QED
    BY <1>2, <1>4, Packed
<1>6. 0 \in Half
  BY HalfRange, SMT
<1>7. CASE IsZero(a) \/ IsZero(b) \/ sum = 0
  BY <1>6, <1>7, SMT DEF fp16_add
<1>8. CASE ~IsZero(a) /\ ~IsZero(b) /\ sum # 0 /\ sum >= 8192
  <2>1. fp16_add(a, b) = Pack(sign, exp, high)
    BY <1>8, SMT DEF fp16_add
  <2> QED
    BY <1>5, <2>1, SMT
<1>9. CASE ~IsZero(a) /\ ~IsZero(b) /\ sum # 0 /\ ~(sum >= 8192)
  <2>1. fp16_add(a, b) = Pack(sign, lower, low)
    BY <1>1, <1>2, <1>3, <1>9, SMTT(30) DEF fp16_add
  <2> QED
    BY <1>5, <2>1, SMT
<1> QED
  BY <1>7, <1>8, <1>9, SMT

(***************************************************************************)
(* fp16_mac.v has the first law of MacLaws: words give a word.             *)
(***************************************************************************)
THEOREM MacTypeHolds ==
  \A a, b, acc \in Half : fp16_mac(a, b, acc) \in Half
  BY ProductIsHalf, SumIsHalf DEF fp16_mac

(***************************************************************************)
(* fp16_mac.v has the second law of MacLaws: two zero operands leave the   *)
(* accumulator as it is.                                                   *)
(***************************************************************************)
THEOREM MacZeroHolds ==
  \A acc \in Half : fp16_mac(0, 0, acc) = acc
<1>1. IsZero(0)
  BY SMT DEF IsZero
<1>2. fp16_mult(0, 0) = 0
  BY <1>1, SMT DEF fp16_mult
<1> QED
  BY <1>1, <1>2, SMT DEF fp16_mac, fp16_add

-----------------------------------------------------------------------------
(***************************************************************************)
(* The accumulator stays a 16-bit word.                                    *)
(***************************************************************************)
THEOREM AccumulatorTypeCorrect == AccumulatorSpec => []AccumulatorTypeOK
<1>1. accumulator = 0 => AccumulatorTypeOK
  BY HalfRange, SMT DEF AccumulatorTypeOK
<1>2. AccumulatorTypeOK /\ [Clear \/ Accumulate]_accumulator => AccumulatorTypeOK'
  <2> SUFFICES ASSUME AccumulatorTypeOK, [Clear \/ Accumulate]_accumulator
               PROVE  AccumulatorTypeOK'
    OBVIOUS
  <2>1. CASE Clear
    BY <2>1, HalfRange, SMT DEF Clear, AccumulatorTypeOK
  <2>2. CASE Accumulate
    BY <2>2, MacTypeHolds, OperandAssumption
    DEF Accumulate, AccumulatorTypeOK
  <2>3. CASE UNCHANGED accumulator
    BY <2>3 DEF AccumulatorTypeOK
  <2> QED
    BY <2>1, <2>2, <2>3
<1> QED
  BY <1>1, <1>2, PTL DEF AccumulatorSpec

-----------------------------------------------------------------------------
LEMMA NormalIsNotZero ==
  ASSUME NEW x \in Half, IsNormal(x)
  PROVE  ~IsZero(x) /\ Exp(x) # 0
<1>1. x \in Int /\ 0 <= x /\ x <= 65535
  BY HalfRange, SMT
<1>2. Exp(x) # 0
  BY SMT DEF IsNormal
<1>3. ~IsZero(x)
  BY <1>1, <1>2, SMT DEF IsZero, Exp
<1> QED
  BY <1>2, <1>3, SMT

\* Packing 11 bits with a leading one, under an exponent in range.
LEMMA PackedMant ==
  ASSUME NEW s \in {0, 1}, NEW e \in Nat, 1 <= e, e <= 31,
         NEW m \in Nat, 1024 <= m, m <= 2047
  PROVE  /\ Sign(Pack(s, e, m)) = s
         /\ Exp(Pack(s, e, m)) = e
         /\ Mant(Pack(s, e, m)) = m
<1>1. e % 32 = e /\ m % 1024 = m - 1024
  BY SMT
<1>2. e \in Int /\ m \in Int
  OBVIOUS
<1>3. /\ Sign(Pack(s, e, m)) = s
      /\ Exp(Pack(s, e, m)) = e
      /\ Frac(Pack(s, e, m)) = m - 1024
  <2>1. /\ Sign(Pack(s, e, m)) = s
        /\ Exp(Pack(s, e, m)) = e % 32
        /\ Frac(Pack(s, e, m)) = m % 1024
    BY <1>2, Packed
  <2> QED
    BY <1>1, <2>1, SMT
<1> QED
  BY <1>3, SMT DEF Mant

LEMMA ProductIsTruncated ==
  ASSUME NEW a \in Half, NEW b \in Half, IsNormal(a), IsNormal(b),
         ExpSum(a, b) \in 1 .. 30
  PROVE  Truncated(a, b)
<1> DEFINE s == (Sign(a) + Sign(b)) % 2
           e == ExpSum(a, b)
           mm == Mant(a) * Mant(b)
           high == mm \div 2048
           low == mm \div 1024
           r == fp16_mult(a, b)
<1>1. /\ Mant(a) \in Nat /\ 1024 <= Mant(a) /\ Mant(a) <= 2047
      /\ Mant(b) \in Nat /\ 1024 <= Mant(b) /\ Mant(b) <= 2047
  BY Fields, NormalIsNotZero, SMT
<1>2. mm \in Nat /\ 1048576 <= mm /\ mm <= 4190209
  <2>1. 1024 * 1024 <= Mant(a) * 1024 /\ Mant(a) * 1024 <= mm
    BY <1>1, SMT
  <2>2. mm <= Mant(a) * 2047 /\ Mant(a) * 2047 <= 2047 * 2047
    BY <1>1, SMT
  <2>3. mm \in Nat
    BY <1>1, SMT
  <2> HIDE DEF mm
  <2> QED
    BY <1>1, <2>1, <2>2, <2>3, SMT
<1>3. s \in {0, 1} /\ (s = 1 <=> Sign(a) # Sign(b))
  BY Fields, SMT
<1>4. e \in Nat /\ 1 <= e /\ e <= 30
  BY SMT
<1>5. CASE mm >= 2097152
  <2>1. r = Pack(s, e + 1, high)
    BY <1>5, NormalIsNotZero, SMT DEF fp16_mult, ExpSum
  <2>2. /\ high \in Nat /\ 1024 <= high /\ high <= 2047
        /\ high * 2048 <= mm /\ mm < (high + 1) * 2048
    <3> HIDE DEF mm
    <3> QED
      BY <1>2, <1>5, SMT
  <2>3. Sign(r) = s /\ Exp(r) = e + 1 /\ Mant(r) = high
    <3> HIDE DEF s, e, high, r
    <3>1. e + 1 \in Nat /\ 1 <= e + 1 /\ e + 1 <= 31
      BY <1>4, SMT
    <3> QED
      BY <1>3, <2>1, <2>2, <3>1, PackedMant, SMT
  <2> QED
    BY <1>3, <1>4, <2>2, <2>3, SMT DEF Truncated
<1>6. CASE ~(mm >= 2097152)
  <2>1. r = Pack(s, e, low)
    BY <1>6, NormalIsNotZero, SMT DEF fp16_mult, ExpSum
  <2>2. /\ low \in Nat /\ 1024 <= low /\ low <= 2047
        /\ low * 1024 <= mm /\ mm < (low + 1) * 1024
    <3> HIDE DEF mm
    <3> QED
      BY <1>2, <1>6, SMT
  <2>3. Sign(r) = s /\ Exp(r) = e /\ Mant(r) = low
    <3> HIDE DEF s, e, low, r
    <3>1. e <= 31
      BY <1>4, SMT
    <3> QED
      BY <1>3, <1>4, <2>1, <2>2, <3>1, PackedMant, SMT
  <2> QED
    BY <1>3, <1>4, <2>2, <2>3, SMT DEF Truncated
<1> QED
  BY <1>5, <1>6, SMT

(***************************************************************************)
(* Whatever the operands, the product of two normal numbers whose exponent *)
(* is in range is the exact product truncated toward zero.                 *)
(***************************************************************************)
THEOREM ProductTruncatedCorrect == AccumulatorSpec => []ProductTruncated
<1>1. AccumulatorTypeOK => ProductTruncated
  BY ProductIsTruncated, OperandAssumption
  DEF AccumulatorTypeOK, ProductTruncated
<1> QED
  BY <1>1, AccumulatorTypeCorrect, PTL

-----------------------------------------------------------------------------
\* Powers as numbers, and as the table of the shifters.
LEMMA PlacesAre ==
  /\ 2^0 = 1 /\ 2^1 = 2 /\ 2^2 = 4 /\ 2^3 = 8 /\ 2^4 = 16 /\ 2^5 = 32 /\ 2^6 = 64
  /\ 2^7 = 128 /\ 2^8 = 256 /\ 2^9 = 512 /\ 2^10 = 1024 /\ 2^11 = 2048 /\ 2^12 = 4096
  /\ 2^13 = 8192 /\ 2^14 = 16384 /\ 2^15 = 32768 /\ 2^16 = 65536 /\ 2^17 = 131072
  /\ 2^18 = 262144
<1>0. 2^0 = 1 BY PlacesAssumption
<1>1. 2^1 = 2
  <2>1. 0 \in 0 .. 29 /\ 0 + 1 = 1 OBVIOUS
  <2>2. 2^(0 + 1) = 2 * 2^0 BY PlacesAssumption, <2>1
  <2> QED BY <1>0, <2>1, <2>2
<1>2. 2^2 = 4
  <2>1. 1 \in 0 .. 29 /\ 1 + 1 = 2 OBVIOUS
  <2>2. 2^(1 + 1) = 2 * 2^1 BY PlacesAssumption, <2>1
  <2> QED BY <1>1, <2>1, <2>2
<1>3. 2^3 = 8
  <2>1. 2 \in 0 .. 29 /\ 2 + 1 = 3 OBVIOUS
  <2>2. 2^(2 + 1) = 2 * 2^2 BY PlacesAssumption, <2>1
  <2> QED BY <1>2, <2>1, <2>2
<1>4. 2^4 = 16
  <2>1. 3 \in 0 .. 29 /\ 3 + 1 = 4 OBVIOUS
  <2>2. 2^(3 + 1) = 2 * 2^3 BY PlacesAssumption, <2>1
  <2> QED BY <1>3, <2>1, <2>2
<1>5. 2^5 = 32
  <2>1. 4 \in 0 .. 29 /\ 4 + 1 = 5 OBVIOUS
  <2>2. 2^(4 + 1) = 2 * 2^4 BY PlacesAssumption, <2>1
  <2> QED BY <1>4, <2>1, <2>2
<1>6. 2^6 = 64
  <2>1. 5 \in 0 .. 29 /\ 5 + 1 = 6 OBVIOUS
  <2>2. 2^(5 + 1) = 2 * 2^5 BY PlacesAssumption, <2>1
  <2> QED BY <1>5, <2>1, <2>2
<1>7. 2^7 = 128
  <2>1. 6 \in 0 .. 29 /\ 6 + 1 = 7 OBVIOUS
  <2>2. 2^(6 + 1) = 2 * 2^6 BY PlacesAssumption, <2>1
  <2> QED BY <1>6, <2>1, <2>2
<1>8. 2^8 = 256
  <2>1. 7 \in 0 .. 29 /\ 7 + 1 = 8 OBVIOUS
  <2>2. 2^(7 + 1) = 2 * 2^7 BY PlacesAssumption, <2>1
  <2> QED BY <1>7, <2>1, <2>2
<1>9. 2^9 = 512
  <2>1. 8 \in 0 .. 29 /\ 8 + 1 = 9 OBVIOUS
  <2>2. 2^(8 + 1) = 2 * 2^8 BY PlacesAssumption, <2>1
  <2> QED BY <1>8, <2>1, <2>2
<1>10. 2^10 = 1024
  <2>1. 9 \in 0 .. 29 /\ 9 + 1 = 10 OBVIOUS
  <2>2. 2^(9 + 1) = 2 * 2^9 BY PlacesAssumption, <2>1
  <2> QED BY <1>9, <2>1, <2>2
<1>11. 2^11 = 2048
  <2>1. 10 \in 0 .. 29 /\ 10 + 1 = 11 OBVIOUS
  <2>2. 2^(10 + 1) = 2 * 2^10 BY PlacesAssumption, <2>1
  <2> QED BY <1>10, <2>1, <2>2
<1>12. 2^12 = 4096
  <2>1. 11 \in 0 .. 29 /\ 11 + 1 = 12 OBVIOUS
  <2>2. 2^(11 + 1) = 2 * 2^11 BY PlacesAssumption, <2>1
  <2> QED BY <1>11, <2>1, <2>2
<1>13. 2^13 = 8192
  <2>1. 12 \in 0 .. 29 /\ 12 + 1 = 13 OBVIOUS
  <2>2. 2^(12 + 1) = 2 * 2^12 BY PlacesAssumption, <2>1
  <2> QED BY <1>12, <2>1, <2>2
<1>14. 2^14 = 16384
  <2>1. 13 \in 0 .. 29 /\ 13 + 1 = 14 OBVIOUS
  <2>2. 2^(13 + 1) = 2 * 2^13 BY PlacesAssumption, <2>1
  <2> QED BY <1>13, <2>1, <2>2
<1>15. 2^15 = 32768
  <2>1. 14 \in 0 .. 29 /\ 14 + 1 = 15 OBVIOUS
  <2>2. 2^(14 + 1) = 2 * 2^14 BY PlacesAssumption, <2>1
  <2> QED BY <1>14, <2>1, <2>2
<1>16. 2^16 = 65536
  <2>1. 15 \in 0 .. 29 /\ 15 + 1 = 16 OBVIOUS
  <2>2. 2^(15 + 1) = 2 * 2^15 BY PlacesAssumption, <2>1
  <2> QED BY <1>15, <2>1, <2>2
<1>17. 2^17 = 131072
  <2>1. 16 \in 0 .. 29 /\ 16 + 1 = 17 OBVIOUS
  <2>2. 2^(16 + 1) = 2 * 2^16 BY PlacesAssumption, <2>1
  <2> QED BY <1>16, <2>1, <2>2
<1>18. 2^18 = 262144
  <2>1. 17 \in 0 .. 29 /\ 17 + 1 = 18 OBVIOUS
  <2>2. 2^(17 + 1) = 2 * 2^17 BY PlacesAssumption, <2>1
  <2> QED BY <1>17, <2>1, <2>2
<1> QED BY <1>0, <1>1, <1>2, <1>3, <1>4, <1>5, <1>6, <1>7, <1>8, <1>9, <1>10, <1>11, <1>12, <1>13, <1>14, <1>15, <1>16, <1>17, <1>18

LEMMA PlaceIs ==
  ASSUME NEW d \in 0 .. 18
  PROVE  /\ 2^d \in Nat \ {0}
         /\ d <= 13 => Pow2[d + 1] = 2^d
         /\ d > 13 => 2^d > 2^13
         /\ d >= 2 => 2^d >= 4
         /\ d > 0 => 2^d = 2 * 2^(d - 1)
<1> DEFINE Fact(k) == /\ 2^k \in Nat \ {0}
                      /\ k <= 13 => Pow2[k + 1] = 2^k
                      /\ k > 13 => 2^k > 2^13
                      /\ k >= 2 => 2^k >= 4
<1>0. Fact(0) BY PlacesAre, Powers
<1>1. Fact(1) BY PlacesAre, Powers
<1>2. Fact(2) BY PlacesAre, Powers
<1>3. Fact(3) BY PlacesAre, Powers
<1>4. Fact(4) BY PlacesAre, Powers
<1>5. Fact(5) BY PlacesAre, Powers
<1>6. Fact(6) BY PlacesAre, Powers
<1>7. Fact(7) BY PlacesAre, Powers
<1>8. Fact(8) BY PlacesAre, Powers
<1>9. Fact(9) BY PlacesAre, Powers
<1>10. Fact(10) BY PlacesAre, Powers
<1>11. Fact(11) BY PlacesAre, Powers
<1>12. Fact(12) BY PlacesAre, Powers
<1>13. Fact(13) BY PlacesAre, Powers
<1>14. Fact(14) BY PlacesAre, Powers
<1>15. Fact(15) BY PlacesAre, Powers
<1>16. Fact(16) BY PlacesAre, Powers
<1>17. Fact(17) BY PlacesAre, Powers
<1>18. Fact(18) BY PlacesAre, Powers
<1>19. d \in {0, 1, 2, 3, 4, 5, 6, 7, 8, 9, 10, 11, 12, 13, 14, 15, 16, 17, 18} OBVIOUS
<1>20. d > 0 => 2^d = 2 * 2^(d - 1)
  <2>1. d > 0 => d - 1 \in 0 .. 29 /\ (d - 1) + 1 = d OBVIOUS
  <2> QED BY <2>1, PlacesAssumption
<1> HIDE DEF Fact
<1>21. Fact(d)
  BY <1>0, <1>1, <1>2, <1>3, <1>4, <1>5, <1>6, <1>7, <1>8, <1>9, <1>10, <1>11, <1>12, <1>13, <1>14, <1>15, <1>16, <1>17, <1>18, <1>19, Zenon
<1> QED BY <1>20, <1>21 DEF Fact

LEMMA Divided ==
  ASSUME NEW n \in Nat, NEW p \in Nat \ {0}
  PROVE  \E q \in Nat, r \in 0 .. p - 1 : q = n \div p /\ n = p * q + r
<1>1. n \div p \in Nat /\ n % p \in 0 .. p - 1 /\ n = p * (n \div p) + (n % p) OBVIOUS
<1> QED BY <1>1


\* A normal mantissa, and a sum the encoder finds a bit of.
Mantissas == 1024 .. 2047
NormalSums == 4 .. 8191

\* The aligned mantissa and what the shifter drops.
LEMMA MantissaAligned ==
  ASSUME NEW m \in Mantissas, NEW d \in 0 .. 18
  PROVE  \E al \in Nat, rem \in Nat :
           /\ al = ShiftRight(4 * m, d) /\ rem < 2^d
           /\ 4 * m = 2^d * al + rem
           /\ d = 0 => al = 4 * m /\ rem = 0
           /\ d = 1 => al = 2 * m /\ rem = 0
           /\ d >= 2 => al < 2^11
<1>0. d \in 0 .. 18 OBVIOUS
<1>1. PICK p \in Nat \ {0} : p = 2^d BY <1>0, PlaceIs, Zenon
<1>2. PICK n \in Nat : n = 4 * m /\ n <= 8188 BY DEF Mantissas
<1>3. PICK al \in Nat, rem \in 0 .. p - 1 : al = n \div p /\ n = p * al + rem
  BY Divided
<1>4. ShiftRight(n, d) = al
  <2>1. CASE d <= 13
    <3>1. Pow2[d + 1] = p BY <1>0, <1>1, <2>1, PlaceIs, Zenon
    <3> QED BY <1>3, <2>1, <3>1 DEF ShiftRight
  <2>2. CASE d > 13
    <3>1. p > 2^13 BY <1>0, <1>1, <2>2, PlaceIs, Zenon
    <3>2. n \div p = 0 BY <1>2, <3>1, PlacesAre
    <3> QED BY <1>3, <2>2, <3>2 DEF ShiftRight
  <2> QED BY <2>1, <2>2
<1>5. d = 0 => al = 4 * m /\ rem = 0
  <2>1. d = 0 => p = 1 BY <1>1, PlacesAre
  <2> QED BY <1>2, <1>3, <2>1
<1>6. d = 1 => al = 2 * m /\ rem = 0
  <2> SUFFICES ASSUME d = 1 PROVE al = 2 * m /\ rem = 0 OBVIOUS
  <2>1. p = 2 BY <1>1, PlacesAre
  <2>2. n = 2 * al + rem /\ rem \in {0, 1} BY <1>3, <2>1
  <2>3. m \in Nat BY DEF Mantissas
  <2> QED BY ONLY <1>2, <1>3, <2>2, <2>3
<1>6a. n = 4 * m BY <1>2
<1>6b. d >= 2 => p >= 4 BY <1>0, <1>1, PlaceIs, Zenon
<1>7. d >= 2 => al < 2^11
  <2> SUFFICES ASSUME d >= 2, al > 2047 PROVE FALSE BY <1>3, PlacesAre
  <2>1. PICK u \in Nat, w \in Nat : p = 4 + u /\ al = 2048 + w
    <3>1. p >= 4 BY <1>6b
    <3>2. p - 4 \in Nat /\ al - 2048 \in Nat BY <1>3, <3>1
    <3> QED BY <3>2
  <2>2. (4 + u) * (2048 + w) = 8192 + 4 * w + u * 2048 + u * w /\ u * w \in Nat OBVIOUS
  <2>3. p * al >= 8192 BY <2>1, <2>2
  <2> QED BY <1>2, <1>3, <2>3
<1>8. rem \in Nat /\ rem < p BY <1>3
<1>9. al = ShiftRight(4 * m, d) /\ 4 * m = p * al + rem BY <1>3, <1>4, <1>6a
<1> QED BY <1>1, <1>5, <1>6, <1>7, <1>8, <1>9, Zenon

\* The encoder brings the first one bit to its place, if it is not below bit 2.
Between(n) == n \in Nat /\ 4096 <= n /\ n <= 8191

\* Shifted by s - 1 places, the first one bit is in its place.
Encoded(sum, s) ==
  /\ Between(sum * Pow2[s])
  /\ s = 1 <=> sum >= 4096
  /\ s = 2 <=> sum >= 2048 /\ sum < 4096

LEMMA EncoderIs ==
  ASSUME NEW sum \in NormalSums
  PROVE  \E s \in 1 .. 11 :
           /\ s = shift_left(sum) /\ normalized_mant(sum) = sum * Pow2[s]
           /\ Encoded(sum, s)
<1> DEFINE Found(p) == sum \div Pow2[p + 1] = 1
           Fits(p) == Encoded(sum, 13 - p)
<1>3. Found(3) => Fits(3)
  <2>1. sum \div 8 = 1 => sum >= 8 /\ sum <= 15 BY DEF NormalSums
  <2>2. Pow2[3 + 1] = 8 /\ Pow2[13 - 3] = 512 BY Powers
  <2> QED BY <2>1, <2>2 DEF Encoded, Between, NormalSums
<1>4. Found(4) => Fits(4)
  <2>1. sum \div 16 = 1 => sum >= 16 /\ sum <= 31 BY DEF NormalSums
  <2>2. Pow2[4 + 1] = 16 /\ Pow2[13 - 4] = 256 BY Powers
  <2> QED BY <2>1, <2>2 DEF Encoded, Between, NormalSums
<1>5. Found(5) => Fits(5)
  <2>1. sum \div 32 = 1 => sum >= 32 /\ sum <= 63 BY DEF NormalSums
  <2>2. Pow2[5 + 1] = 32 /\ Pow2[13 - 5] = 128 BY Powers
  <2> QED BY <2>1, <2>2 DEF Encoded, Between, NormalSums
<1>6. Found(6) => Fits(6)
  <2>1. sum \div 64 = 1 => sum >= 64 /\ sum <= 127 BY DEF NormalSums
  <2>2. Pow2[6 + 1] = 64 /\ Pow2[13 - 6] = 64 BY Powers
  <2> QED BY <2>1, <2>2 DEF Encoded, Between, NormalSums
<1>7. Found(7) => Fits(7)
  <2>1. sum \div 128 = 1 => sum >= 128 /\ sum <= 255 BY DEF NormalSums
  <2>2. Pow2[7 + 1] = 128 /\ Pow2[13 - 7] = 32 BY Powers
  <2> QED BY <2>1, <2>2 DEF Encoded, Between, NormalSums
<1>8. Found(8) => Fits(8)
  <2>1. sum \div 256 = 1 => sum >= 256 /\ sum <= 511 BY DEF NormalSums
  <2>2. Pow2[8 + 1] = 256 /\ Pow2[13 - 8] = 16 BY Powers
  <2> QED BY <2>1, <2>2 DEF Encoded, Between, NormalSums
<1>9. Found(9) => Fits(9)
  <2>1. sum \div 512 = 1 => sum >= 512 /\ sum <= 1023 BY DEF NormalSums
  <2>2. Pow2[9 + 1] = 512 /\ Pow2[13 - 9] = 8 BY Powers
  <2> QED BY <2>1, <2>2 DEF Encoded, Between, NormalSums
<1>10. Found(10) => Fits(10)
  <2>1. sum \div 1024 = 1 => sum >= 1024 /\ sum <= 2047 BY DEF NormalSums
  <2>2. Pow2[10 + 1] = 1024 /\ Pow2[13 - 10] = 4 BY Powers
  <2> QED BY <2>1, <2>2 DEF Encoded, Between, NormalSums
<1>11. Found(11) => Fits(11)
  <2>1. sum \div 2048 = 1 => sum >= 2048 /\ sum <= 4095 BY DEF NormalSums
  <2>2. Pow2[11 + 1] = 2048 /\ Pow2[13 - 11] = 2 BY Powers
  <2> QED BY <2>1, <2>2 DEF Encoded, Between, NormalSums
<1>12. Found(12) => Fits(12)
  <2>1. sum \div 4096 = 1 => sum >= 4096 /\ sum <= 8191 BY DEF NormalSums
  <2>2. Pow2[12 + 1] = 4096 /\ Pow2[13 - 12] = 1 BY Powers
  <2> QED BY <2>1, <2>2 DEF Encoded, Between, NormalSums
<1>13. ~Found(13)
  <2>1. sum \div 8192 # 1 BY DEF NormalSums
  <2> QED BY <2>1, Powers
<1>15. \A p \in 3 .. 13 : Found(p) => p # 13 /\ Fits(p)
  <2> HIDE DEF Found, Fits
  <2> TAKE p \in 3 .. 13
  <2>1. p \in {3, 4, 5, 6, 7, 8, 9, 10, 11, 12, 13} OBVIOUS
  <2> QED BY <1>3, <1>4, <1>5, <1>6, <1>7, <1>8, <1>9, <1>10, <1>11, <1>12, <1>13, <2>1, Zenon
<1> HIDE DEF Fits
<1>16. \E s \in 1 .. 11 :
         /\ s = shift_left(sum) /\ Encoded(sum, s)
  <2>1. CASE sum < 8
    <3>1. shift_left(sum) = 11 BY <2>1 DEF shift_left, NormalSums
    <3>2. sum * 1024 >= 4096 /\ sum * 1024 <= 8191 BY <2>1 DEF NormalSums
    <3>3. 11 \in 1 .. 11 OBVIOUS
    <3>4. Encoded(sum, 11) BY <2>1, <3>2, Powers DEF Encoded, Between, NormalSums
    <3> QED BY <3>1, <3>3, <3>4, Zenon
  <2>2. CASE sum >= 8
    <3>1. \E p \in 3 .. 13 : Found(p)
      <4>1. sum \in Nat /\ 8 <= sum /\ sum <= 16383 BY <2>2 DEF NormalSums
      <4> QED BY <4>1, FirstBit, SMT
    <3>2. PICK p \in 3 .. 13 : p = (CHOOSE q \in 3 .. 13 : Found(q)) /\ Found(p)
      <4> HIDE DEF Found
      <4> QED BY <3>1, Zenon
    <3>3. shift_left(sum) = 13 - p
      <4>1. ~(sum < 8) BY <2>2 DEF NormalSums
      <4>2. shift_left(sum) = 13 - CHOOSE q \in 3 .. 13 : Found(q) BY <4>1, Zenon DEF shift_left
      <4> HIDE DEF Found
      <4> QED BY <3>2, <4>2, Zenon
    <3>4. Fits(p) /\ p # 13 BY <1>15, <3>2, Zenon
    <3>5. 13 - p \in 1 .. 11 BY <3>4
    <3> QED BY <3>3, <3>4, <3>5, Zenon DEF Fits
  <2>3. sum < 8 \/ sum >= 8 BY DEF NormalSums
  <2> QED BY <2>1, <2>2, <2>3
<1>17. PICK s \in 1 .. 11 :
         /\ s = shift_left(sum) /\ Encoded(sum, s)
  BY <1>16, Zenon
<1>18. PICK n \in Nat : n = sum * Pow2[s] /\ n <= 8191 BY <1>17 DEF Encoded, Between, NormalSums, NormalSums
<1>19. normalized_mant(sum) = n
  <2>1. s # 0 /\ (s - 1) + 1 = s OBVIOUS
  <2>2. normalized_mant(sum) = (sum * Pow2[s]) % 16384
    BY <1>17, <2>1 DEF normalized_mant, ShiftLeft
  <2>3. n % 16384 = n BY <1>18
  <2> QED BY <1>18, <2>2, <2>3
<1>20. n = sum * Pow2[s] BY <1>18
<1> QED BY <1>17, <1>19, <1>20, Zenon

(***************************************************************************)
(* What is left out of a sum, in eighths, quarters or halves of the place. *)
(***************************************************************************)
Close(x, y, place) == -place < x - y /\ x - y < place

LEMMA Rounded ==
  ASSUME NEW c \in {2, 4, 8}, NEW p \in Nat \ {0}, NEW rem \in 0 .. p - 1,
         NEW mL \in Nat, NEW mS \in Nat, NEW al \in Nat, 4 * mS = p * al + rem,
         NEW sum \in Nat, NEW m \in Nat, NEW t \in 0 .. c - 1, sum = c * m + t
  PROVE  /\ sum = 4 * mL + al => Close(c * (m * p), 4 * (mL * p + mS), c * p)
         /\ sum = 4 * mL - al => Close(c * (m * p), 4 * (mL * p - mS), c * p)
<1>1. PICK x \in Nat, y \in Nat, z \in Nat, w \in Nat :
        x = p * al /\ y = mL * p /\ z = m * p /\ w = t * p
  OBVIOUS
<1>2. PICK u \in Nat : t + 1 + u = c OBVIOUS
<1>3. (t + 1 + u) * p = t * p + p + u * p /\ u * p \in Nat OBVIOUS
<1>4. w <= c * p - p /\ w >= 0 BY <1>1, <1>2, <1>3
<1>5. sum * p = c * z + w
  <2>1. (c * m + t) * p = c * (m * p) + t * p OBVIOUS
  <2> QED BY <1>1, <2>1
<1>6. sum = 4 * mL + al => sum * p = 4 * y + x
  <2>1. (4 * mL + al) * p = 4 * (mL * p) + p * al OBVIOUS
  <2> QED BY <1>1, <2>1
<1>7. sum = 4 * mL - al => sum * p = 4 * y - x
  <2>1. (4 * mL - al) * p = 4 * (mL * p) - p * al OBVIOUS
  <2> QED BY <1>1, <2>1
<1>8. 4 * mS = x + rem BY <1>1
<1>9. PICK cz \in Nat, cp \in Nat, sp \in Nat : cz = c * z /\ cp = c * p /\ sp = sum * p OBVIOUS
<1>10. cp >= 2 * p BY <1>9
<1>11. c * (m * p) = cz /\ mL * p = y BY <1>1, <1>9
<1>12. ASSUME sum = 4 * mL + al PROVE Close(cz, 4 * (y + mS), cp)
  <2>1. cz + w = 4 * y + x BY <1>5, <1>6, <1>9, <1>12
  <2> QED BY ONLY <2>1, <1>4, <1>8, <1>9, <1>10 DEF Close
<1>13. ASSUME sum = 4 * mL - al PROVE Close(cz, 4 * (y - mS), cp)
  <2>1. cz + w = 4 * y - x BY <1>5, <1>7, <1>9, <1>13
  <2> QED BY ONLY <2>1, <1>4, <1>8, <1>9, <1>10 DEF Close
<1> QED BY <1>9, <1>11, <1>12, <1>13

-----------------------------------------------------------------------------
(***************************************************************************)
(* The sum of two mantissas d places apart, in places of the smaller one,  *)
(* and in quarters of the larger one's as the adder has it.                *)
(***************************************************************************)
Exact(mL, mS, d, same) == IF same THEN mL * 2^d + mS ELSE mL * 2^d - mS
Added(mL, mS, d, same) ==
  IF same THEN 4 * mL + ShiftRight(4 * mS, d) ELSE 4 * mL - ShiftRight(4 * mS, d)

\* m, k places above those of x: less than one of its places away, or x itself.
Approximates(m, k, x) ==
  \/ k >= 0 /\ Close(m * 2^k, x, 2^k)
  \/ k < 0 /\ m = x * 2^(-k)

LEMMA AddedIs ==
  ASSUME NEW mL \in Mantissas, NEW mS \in Mantissas, NEW d \in 0 .. 18, NEW same \in BOOLEAN,
         d = 0 => mL >= mS
  PROVE  LET sum == Added(mL, mS, d, same)
         IN  /\ sum \in Nat /\ sum <= 16383
             /\ sum < 4096 => ~same
             /\ sum < 2048 => d \in {0, 1}
             /\ d = 0 /\ ~same => sum = 4 * (mL - mS)
             /\ d = 1 /\ ~same => sum = 2 * (2 * mL - mS)
             /\ sum = 0 => d = 0 /\ mL = mS
             /\ sum \notin {1, 3}
<1>0. PICK sum : sum = Added(mL, mS, d, same) OBVIOUS
<1>1. PICK al \in Nat, rem \in Nat :
        /\ al = ShiftRight(4 * mS, d)
        /\ d = 0 => al = 4 * mS
        /\ d = 1 => al = 2 * mS
        /\ d >= 2 => al < 2^11
  BY MantissaAligned, Zenon
<1>2. d >= 2 => al <= 2047 BY <1>1, PlacesAre
<1>3. mL \in Nat /\ mS \in Nat /\ 1024 <= mL /\ mL <= 2047 /\ 1024 <= mS /\ mS <= 2047
  BY DEF Mantissas
<1>4. /\ same => sum = 4 * mL + al
      /\ ~same => sum = 4 * mL - al
  BY <1>0, <1>1 DEF Added
<1>5. d = 0 \/ d = 1 \/ d >= 2 OBVIOUS
<1>6. d = 0 => al = 4 * mS BY <1>1
<1>7. d = 1 => al = 2 * mS BY <1>1
<1>8. /\ sum \in Nat /\ sum <= 16383
      /\ sum < 4096 => ~same
      /\ sum < 2048 => d \in {0, 1}
      /\ d = 0 /\ ~same => sum = 4 * (mL - mS)
      /\ d = 1 /\ ~same => sum = 2 * (2 * mL - mS)
      /\ sum = 0 => d = 0 /\ mL = mS
      /\ sum \notin {1, 3}
  <2>1. CASE same
    <3>1. al <= 8188 BY <1>2, <1>3, <1>5, <1>6, <1>7
    <3> QED BY <1>3, <1>4, <2>1, <3>1
  <2>2. CASE ~same
    <3>1. CASE d = 0
      <4>1. sum = 4 * mL - 4 * mS /\ mL >= mS BY <1>4, <1>6, <2>2, <3>1
      <4> QED BY <1>3, <2>2, <3>1, <4>1
    <3>2. CASE d = 1
      <4>1. sum = 4 * mL - 2 * mS BY <1>4, <1>7, <2>2, <3>2
      <4> QED BY <1>3, <2>2, <3>2, <4>1
    <3>3. CASE d >= 2
      <4>1. sum = 4 * mL - al BY <1>4, <2>2
      <4> QED BY <1>2, <1>3, <2>2, <3>3, <4>1
    <3> QED BY <1>5, <3>1, <3>2, <3>3
  <2> QED BY <2>1, <2>2
<1> QED BY <1>0, <1>8

\* A quarter, an eighth or half of the sum keeps within one of its places.
LEMMA RoundedIs ==
  ASSUME NEW mL \in Mantissas, NEW mS \in Mantissas, NEW d \in 0 .. 18, NEW same \in BOOLEAN,
         NEW sum \in Nat, sum = Added(mL, mS, d, same),
         NEW c \in {2, 4, 8}, NEW m \in Nat, NEW t \in 0 .. c - 1, sum = c * m + t
  PROVE  Close(c * (m * 2^d), 4 * Exact(mL, mS, d, same), c * 2^d)
<1>1. d \in 0 .. 18 /\ mS \in Mantissas OBVIOUS
<1>2. PICK p \in Nat \ {0} : p = 2^d BY <1>1, PlaceIs, Zenon
<1>3. PICK al \in Nat, rem \in Nat :
        al = ShiftRight(4 * mS, d) /\ rem < 2^d /\ 4 * mS = 2^d * al + rem
  BY MantissaAligned, Zenon
<1>4. rem \in 0 .. p - 1 /\ 4 * mS = p * al + rem BY <1>2, <1>3
<1>5. mL \in Nat /\ mS \in Nat BY DEF Mantissas
<1>6. /\ sum = 4 * mL + al => Close(c * (m * p), 4 * (mL * p + mS), c * p)
      /\ sum = 4 * mL - al => Close(c * (m * p), 4 * (mL * p - mS), c * p)
  BY <1>4, <1>5, Rounded
<1>7. CASE same
  <2>1. sum = 4 * mL + al /\ Exact(mL, mS, d, same) = mL * p + mS
    BY <1>2, <1>3, <1>7 DEF Added, Exact
  <2> QED BY <1>2, <1>6, <2>1
<1>8. CASE ~same
  <2>1. sum = 4 * mL - al /\ Exact(mL, mS, d, same) = mL * p - mS
    BY <1>2, <1>3, <1>8 DEF Added, Exact
  <2> QED BY <1>2, <1>6, <2>1
<1> QED BY <1>7, <1>8

Carries == 8192 .. 16383

\* A carry: the place of the sum is twice that of the larger operand.
LEMMA CarryApproximates ==
  ASSUME NEW mL \in Mantissas, NEW mS \in Mantissas, NEW d \in 0 .. 18, NEW same \in BOOLEAN,
         d = 0 => mL >= mS, Added(mL, mS, d, same) \in Carries
  PROVE  LET m == Added(mL, mS, d, same) \div 8
         IN  m \in Mantissas /\ Approximates(m, d + 1, Exact(mL, mS, d, same))
<1>1. PICK sum \in Carries : sum = Added(mL, mS, d, same) OBVIOUS
<1>1a. sum \in Nat /\ sum >= 8192 /\ sum <= 16383 BY DEF Carries
<1>2. PICK m \in Nat, t \in 0 .. 7 : m = sum \div 8 /\ sum = 8 * m + t
  <2>1. sum \div 8 \in Nat /\ sum % 8 \in 0 .. 7 /\ sum = 8 * (sum \div 8) + (sum % 8) BY <1>1a
  <2> QED BY <2>1
<1>3. m \in Mantissas
  <2>1. m >= 1024 /\ m <= 2047 BY <1>1a, <1>2
  <2> QED BY <2>1 DEF Mantissas
<1>4. PICK x : x = Exact(mL, mS, d, same) OBVIOUS
<1>5. x \in Int
  <2>1. 2^d \in Int
    <3>1. d \in 0 .. 29 OBVIOUS
    <3> QED BY <3>1, PlacesAssumption
  <2> QED BY <1>4, <2>1 DEF Exact, Mantissas
<1>6. PICK p \in Nat \ {0} : p = 2^d
  <2>1. d \in 0 .. 18 OBVIOUS
  <2>2. 2^d \in Nat \ {0} BY ONLY <2>1, PlaceIs, Zenon
  <2> QED BY ONLY <2>2
<1>7. Close(8 * (m * p), 4 * x, 8 * p)
  <2>1. 8 \in {2, 4, 8} /\ t \in 0 .. 8 - 1 OBVIOUS
  <2>2. sum = 8 * m + t BY <1>2
  <2>3. sum \in Nat BY <1>1a
  <2>4. Close(8 * (m * 2^d), 4 * Exact(mL, mS, d, same), 8 * 2^d)
    BY <1>1, <2>1, <2>2, <2>3, RoundedIs, Zenon
  <2> QED BY <1>4, <1>6, <2>4, Zenon
<1>8. 2^(d + 1) = 2 * p
  <2>1. d \in 0 .. 29 OBVIOUS
  <2>2. 2^(d + 1) = 2 * 2^d BY ONLY <2>1, PlacesAssumption, Zenon
  <2> QED BY ONLY <1>6, <2>2, Zenon
<1>9. PICK y \in Nat : y = m * p OBVIOUS
<1>10. m * (2 * p) = 2 * y BY <1>9
<1>11. Close(2 * y, x, 2 * p) BY <1>5, <1>7, <1>9 DEF Close
<1>12. d + 1 >= 0 OBVIOUS
<1>13. Approximates(m, d + 1, x) BY <1>8, <1>10, <1>11, <1>12 DEF Approximates
<1> QED BY <1>1, <1>2, <1>3, <1>4, <1>13

\* No carry: the first one bit, found by the encoder, gives the place of the sum.
LEMMA ShiftApproximates ==
  ASSUME NEW mL \in Mantissas, NEW mS \in Mantissas, NEW d \in 0 .. 18, NEW same \in BOOLEAN,
         d = 0 => mL >= mS, Added(mL, mS, d, same) \in NormalSums
  PROVE  LET sum == Added(mL, mS, d, same)
             m == normalized_mant(sum) \div 4
         IN  /\ m \in Mantissas
             /\ Approximates(m, d + 1 - shift_left(sum), Exact(mL, mS, d, same))
             /\ d + 1 - shift_left(sum) < 0 => d \in {0, 1}
<1>1. PICK sum \in NormalSums : sum = Added(mL, mS, d, same) OBVIOUS
<1>1a. sum \in Nat /\ sum >= 4 /\ sum <= 8191 BY DEF NormalSums
<1>2. PICK s \in 1 .. 11 :
        s = shift_left(sum) /\ normalized_mant(sum) = sum * Pow2[s] /\ Encoded(sum, s)
  BY EncoderIs, Zenon
<1>3. PICK q \in Nat \ {0} : q = Pow2[s] /\ q = 2^(s - 1)
  <2>1. s - 1 \in 0 .. 18 /\ s - 1 <= 13 /\ (s - 1) + 1 = s OBVIOUS
  <2> QED BY <2>1, PlaceIs, Zenon
<1>4. PICK n \in Nat : n = sum * q BY <1>1a
<1>5. n >= 4096 /\ n <= 8191 /\ (s = 1 <=> sum >= 4096) /\ (s = 2 <=> sum >= 2048 /\ sum < 4096)
  BY <1>2, <1>3, <1>4 DEF Encoded, Between
<1>6. PICK m \in Nat, t \in 0 .. 3 : m = n \div 4 /\ n = 4 * m + t
  <2>1. n \div 4 \in Nat /\ n % 4 \in 0 .. 3 /\ n = 4 * (n \div 4) + (n % 4) OBVIOUS
  <2> QED BY <2>1
<1>7. m \in Mantissas BY <1>5, <1>6 DEF Mantissas
<1>8. m = normalized_mant(sum) \div 4 BY <1>2, <1>3, <1>4, <1>6
<1>9. PICK x : x = Exact(mL, mS, d, same) OBVIOUS
<1>10. PICK p \in Nat \ {0} : p = 2^d
  <2>1. d \in 0 .. 18 OBVIOUS
  <2> QED BY <2>1, PlaceIs, Zenon
<1>11. x \in Int BY <1>9, <1>10 DEF Exact, Mantissas
<1>12. /\ sum < 4096 => ~same
       /\ sum < 2048 => d \in {0, 1}
       /\ d = 0 /\ ~same => sum = 4 * (mL - mS)
       /\ d = 1 /\ ~same => sum = 2 * (2 * mL - mS)
  BY <1>1, AddedIs
<1>13. Approximates(m, d + 1 - s, x)
  <2>1. CASE s = 1
    <3>1. q = 1 BY <1>3, <2>1, PlacesAre
    <3>2. sum = 4 * m + t BY <1>1a, <1>4, <1>6, <3>1
    <3>3. Close(4 * (m * p), 4 * x, 4 * p)
      <4>1. 4 \in {2, 4, 8} /\ t \in 0 .. 4 - 1 OBVIOUS
      <4>2. sum \in Nat BY <1>1a
      <4>3. Close(4 * (m * 2^d), 4 * Exact(mL, mS, d, same), 4 * 2^d)
        BY <1>1, <3>2, <4>1, <4>2, RoundedIs, Zenon
      <4> QED BY <1>9, <1>10, <4>3, Zenon
    <3>4. PICK y \in Nat : y = m * p OBVIOUS
    <3>5. Close(m * p, x, p) BY <1>11, <3>3, <3>4 DEF Close
    <3>6. d + 1 - s = d /\ d >= 0 BY <2>1
    <3> QED BY <1>10, <3>5, <3>6 DEF Approximates
  <2>2. CASE s = 2 /\ d >= 1
    <3>1. q = 2
      <4>1. s - 1 = 1 BY <2>2
      <4> QED BY <1>3, <4>1, PlacesAre
    <3>2. PICK u \in 0 .. 1 : sum = 2 * m + u BY <1>1a, <1>4, <1>6, <3>1
    <3>3. Close(2 * (m * p), 4 * x, 2 * p)
      <4>1. 2 \in {2, 4, 8} /\ u \in 0 .. 2 - 1 OBVIOUS
      <4>2. sum \in Nat BY <1>1a
      <4>3. Close(2 * (m * 2^d), 4 * Exact(mL, mS, d, same), 2 * 2^d)
        BY <1>1, <3>2, <4>1, <4>2, RoundedIs, Zenon
      <4> QED BY <1>9, <1>10, <4>3, Zenon
    <3>4. PICK h \in Nat : h = 2^(d - 1) /\ p = 2 * h
      <4>1. d - 1 \in 0 .. 29 /\ (d - 1) + 1 = d BY <2>2
      <4> QED BY <1>10, <4>1, PlacesAssumption
    <3>5. PICK y \in Nat : y = m * h OBVIOUS
    <3>6. m * p = 2 * y BY <3>4, <3>5
    <3>7. Close(m * h, x, h) BY <1>11, <3>3, <3>4, <3>5, <3>6 DEF Close
    <3>8. d + 1 - s = d - 1 /\ d - 1 >= 0 BY <2>2
    <3> QED BY <3>4, <3>7, <3>8 DEF Approximates
  <2>3. CASE s >= 2 /\ d = 0
    <3>1. ~same BY <1>5, <1>12, <1>1a, <2>3
    <3>2. x = mL - mS /\ sum = 4 * x
      <4>1. p = 1 BY <1>10, <2>3, PlacesAre
      <4>2. x = mL * p - mS BY <1>9, <1>10, <3>1 DEF Exact
      <4> QED BY <1>12, <2>3, <3>1, <4>1, <4>2 DEF Mantissas
    <3>3. n = 4 * (x * q) BY <1>4, <1>11, <3>2
    <3>4. m = x * q
      <4>1. PICK y \in Int : y = x * q BY <1>11
      <4> QED BY <1>6, <3>3, <4>1
    <3>5. -(d + 1 - s) = s - 1 /\ d + 1 - s < 0 BY <2>3
    <3> QED BY <1>3, <3>4, <3>5 DEF Approximates
  <2>4. CASE s >= 3 /\ d = 1
    <3>1. ~same BY <1>5, <1>12, <1>1a, <2>4
    <3>2. x = 2 * mL - mS /\ sum = 2 * x
      <4>1. p = 2 BY <1>10, <2>4, PlacesAre
      <4>2. x = mL * p - mS BY <1>9, <1>10, <3>1 DEF Exact
      <4> QED BY <1>12, <2>4, <3>1, <4>1, <4>2 DEF Mantissas
    <3>3. PICK h \in Nat : h = 2^(s - 2) /\ q = 2 * h
      <4>1. s - 2 \in 0 .. 29 /\ (s - 2) + 1 = s - 1 BY <2>4
      <4> QED BY <1>3, <4>1, PlacesAssumption
    <3>4. n = 4 * (x * h)
      <4>1. n = (2 * x) * (2 * h) BY <1>4, <3>2, <3>3
      <4>2. (2 * x) * (2 * h) = 4 * (x * h) BY <1>11
      <4> QED BY <4>1, <4>2
    <3>5. m = x * h
      <4>1. PICK y \in Int : y = x * h BY <1>11
      <4> QED BY <1>6, <3>4, <4>1
    <3>6. -(d + 1 - s) = s - 2 /\ d + 1 - s < 0 BY <2>4
    <3> QED BY <3>3, <3>5, <3>6 DEF Approximates
  <2>5. s = 1 \/ (s = 2 /\ d >= 1) \/ (s >= 2 /\ d = 0) \/ (s >= 3 /\ d = 1)
    <3>1. s >= 3 => sum < 2048 BY <1>1a, <1>5
    <3> QED BY <1>12, <3>1
  <2> QED BY <2>1, <2>2, <2>3, <2>4, <2>5
<1>14. d + 1 - s < 0 => d \in {0, 1}
  <2>1. s >= 3 => sum < 2048 BY <1>1a, <1>5
  <2> QED BY <1>12, <2>1
<1> QED BY <1>1, <1>2, <1>7, <1>8, <1>9, <1>13, <1>14

-----------------------------------------------------------------------------
(***************************************************************************)
(* From the mantissas to the words.                                        *)
(***************************************************************************)
Negated(s, n) == IF s = 1 THEN -n ELSE n

LEMMA SignedClose ==
  ASSUME NEW s \in {0, 1}, NEW t \in {0, 1}, NEW m \in Int, NEW l \in Int, NEW n \in Int,
         NEW w \in Int, Close(m, IF s = t THEN l + n ELSE l - n, w)
  PROVE  Abs(Negated(s, m) - (Negated(s, l) + Negated(t, n))) < w
BY DEF Close, Negated, Abs

LEMMA SignedTimes ==
  ASSUME NEW x \in Half, NEW p \in Int
  PROVE  Signed(x) * p = Negated(Sign(x), Mant(x) * p)
<1>1. Mant(x) \in Int BY Fields
<1>2. (-Mant(x)) * p = -(Mant(x) * p) BY <1>1
<1> QED BY <1>2 DEF Signed, Negated

\* The operands of the adder, and what it adds.
LEMMA AdderOperands ==
  ASSUME NEW a \in Half, NEW b \in Half, IsNormal(a), IsNormal(b),
         Abs(Exp(a) - Exp(b)) <= 18
  PROVE  \E l \in Half, s \in Half, d \in 0 .. 18 :
           /\ l = Larger(a, b) /\ s = Smaller(a, b)
           /\ (l = a /\ s = b) \/ (l = b /\ s = a)
           /\ d = Exp(l) - Exp(s)
           /\ Mant(l) \in Mantissas /\ Mant(s) \in Mantissas
           /\ d = 0 => Mant(l) >= Mant(s)
           /\ MantSum(l, s) = Added(Mant(l), Mant(s), d, Sign(l) = Sign(s))
<1>1. PICK l \in Half, s \in Half :
        /\ l = Larger(a, b) /\ s = Smaller(a, b)
        /\ Exp(s) <= Exp(l)
  BY Ordered
<1>2. \/ l = a /\ s = b /\ Magnitude(a) > Magnitude(b)
      \/ l = b /\ s = a /\ ~(Magnitude(a) > Magnitude(b))
  BY <1>1 DEF Larger, Smaller
<1>3. (l = a /\ s = b) \/ (l = b /\ s = a) BY <1>2
<1>4. /\ Exp(a) \in Nat /\ Exp(b) \in Nat
      /\ Mant(a) \in Nat /\ Mant(b) \in Nat
      /\ 1024 <= Mant(a) /\ Mant(a) <= 2047 /\ 1024 <= Mant(b) /\ Mant(b) <= 2047
  BY Fields, NormalIsNotZero
<1>5. Mant(l) \in Mantissas /\ Mant(s) \in Mantissas BY <1>3, <1>4 DEF Mantissas
<1>6. PICK d \in 0 .. 18 : d = Exp(l) - Exp(s)
  <2>1. Exp(a) - Exp(b) <= 18 /\ Exp(b) - Exp(a) <= 18 BY <1>4 DEF Abs
  <2> QED BY <1>1, <1>3, <1>4, <2>1
<1>7. d = 0 => Mant(l) >= Mant(s) BY <1>2, <1>4, <1>6 DEF Magnitude
<1>8. MantSum(l, s) = Added(Mant(l), Mant(s), d, Sign(l) = Sign(s))
  BY <1>6 DEF MantSum, Added
<1> QED BY <1>1, <1>3, <1>5, <1>6, <1>7, <1>8

\* The words in units of the lowest place that occurs.
ValueAt(x, low) == Signed(x) * 2^(Exp(x) - low)
LowOf(r, s) == IF Exp(r) <= Exp(s) THEN Exp(r) ELSE Exp(s)
Kept(r, t, z, place) == IF r = 0 THEN t = 0 ELSE Abs(z - t) < place

InOrder(a, b, l, s) == s = Smaller(a, b) /\ ((l = a /\ s = b) \/ (l = b /\ s = a))

\* It is enough to compare the operands in the adder's order.
LEMMA WithinIs ==
  ASSUME NEW a \in Half, NEW b \in Half, NEW l \in Half, NEW s \in Half, NEW r \in Half,
         InOrder(a, b, l, s), r = fp16_add(a, b), NEW low \in Int, low = LowOf(r, s),
         NEW x \in Int, NEW y \in Int, NEW z \in Int,
         x = ValueAt(l, low), y = ValueAt(s, low), z = ValueAt(r, low),
         Kept(r, x + y, z, 2^(Exp(r) - low))
  PROVE  WithinOneUlp(a, b)
<1>1. ValueAt(a, low) + ValueAt(b, low) = x + y
  <2>1. x + y = y + x OBVIOUS
  <2>2. (l = a /\ s = b) \/ (l = b /\ s = a) BY DEF InOrder
  <2>3. CASE l = a /\ s = b BY <2>3
  <2>4. CASE l = b /\ s = a
    <3>1. ValueAt(b, low) = x /\ ValueAt(a, low) = y BY <2>4
    <3> QED BY <2>1, <3>1
  <2> QED BY <2>2, <2>3, <2>4
<1>2. IF r = 0 THEN ValueAt(a, low) + ValueAt(b, low) = 0
      ELSE Abs(ValueAt(r, low) - (ValueAt(a, low) + ValueAt(b, low))) < 2^(Exp(r) - low)
  BY <1>1, Zenon DEF Kept
<1>3. s = Smaller(a, b) /\ low = IF Exp(r) <= Exp(s) THEN Exp(r) ELSE Exp(s)
  BY Zenon DEF LowOf, InOrder
<1> QED BY <1>2, <1>3, Zenon DEF WithinOneUlp, ValueAt

\* What the adder returns for the exact sum x of l and s.
SumFits(r, l, s, d, same, x) ==
  \/ r = 0 /\ d = 0 /\ ~same /\ Mant(l) = Mant(s)
  \/ /\ r # 0 /\ Sign(r) = Sign(l) /\ Mant(r) \in Mantissas
     /\ Exp(r) \in 1 .. 30
     /\ Approximates(Mant(r), Exp(r) - Exp(s), x)
     /\ Exp(r) < Exp(s) => d \in {0, 1}

\* The sum has a mantissa and an exponent that stand for it within one place.
LEMMA SumApproximates ==
  ASSUME NEW a \in Half, NEW b \in Half, IsNormal(a), IsNormal(b), SumInRange(a, b),
         NEW l \in Half, NEW s \in Half, l = Larger(a, b), s = Smaller(a, b),
         IsNormal(l), IsNormal(s),
         NEW d \in 0 .. 18, d = Exp(l) - Exp(s),
         Mant(l) \in Mantissas, Mant(s) \in Mantissas, d = 0 => Mant(l) >= Mant(s),
         NEW same \in BOOLEAN, same <=> Sign(l) = Sign(s),
         MantSum(l, s) = Added(Mant(l), Mant(s), d, same),
         MantSum(l, s) # 2
  PROVE  SumFits(fp16_add(a, b), l, s, d, same, Exact(Mant(l), Mant(s), d, same))
<1>1. PICK sum : sum = MantSum(l, s) OBVIOUS
<1>2. sum = Added(Mant(l), Mant(s), d, same) BY <1>1
<1>3. /\ sum \in Nat /\ sum <= 16383
      /\ sum < 4096 => ~same
      /\ sum = 0 => d = 0 /\ Mant(l) = Mant(s)
      /\ sum \notin {1, 3}
  <2>1. Mant(l) \in Mantissas /\ Mant(s) \in Mantissas /\ (d = 0 => Mant(l) >= Mant(s)) OBVIOUS
  <2> QED BY ONLY <1>2, <2>1, AddedIs
<1>4. PICK e \in 1 .. 29, f \in 1 .. 30 : e = Exp(l) /\ f = Exp(s) /\ f = e - d
  BY DEF IsNormal, SumInRange
<1>5. PICK x : x = Exact(Mant(l), Mant(s), d, same) OBVIOUS
<1>6. PICK r : r = fp16_add(a, b) OBVIOUS
<1>7. /\ sum = 0 => r = 0
      /\ sum >= 8192 => r = Pack(Sign(l), Exp(l) + 1, sum \div 8)
      /\ sum # 0 /\ sum < 8192
         => r = Pack(Sign(l), Exp(l) + 1 - shift_left(sum), normalized_mant(sum) \div 4)
  BY <1>1, <1>3, <1>6, NormalIsNotZero DEF fp16_add
<1>8. Sign(l) \in {0, 1} BY Fields
<1>9. ASSUME NEW m \in Mantissas, NEW g \in 1 .. 30, r = Pack(Sign(l), g, m)
      PROVE  r # 0 /\ Sign(r) = Sign(l) /\ Mant(r) = m /\ Exp(r) = g
  <2>1. m \in Nat /\ 1024 <= m /\ m <= 2047 /\ g \in Nat /\ 1 <= g /\ g <= 31 BY DEF Mantissas
  <2>2. Sign(r) = Sign(l) /\ Exp(r) = g /\ Mant(r) = m BY <1>8, <1>9, <2>1, PackedMant
  <2>3. Exp(0) = 0 BY DEF Exp
  <2> QED BY <2>1, <2>2, <2>3
<1>10. CASE sum = 0
  <2>1. r = 0 /\ d = 0 /\ ~same /\ Mant(l) = Mant(s) BY <1>3, <1>7, <1>10
  <2> QED BY <1>6, <2>1, Zenon DEF SumFits
<1>11. CASE sum >= 8192
  <2>1. sum \in Carries BY <1>3, <1>11 DEF Carries
  <2>2. PICK m \in Mantissas : m = sum \div 8 /\ Approximates(m, d + 1, x)
    BY <1>2, <1>5, <2>1, CarryApproximates, Zenon
  <2>3. Exp(l) + 1 \in 1 .. 30 /\ d + 1 = (Exp(l) + 1) - Exp(s) /\ ~(Exp(l) + 1 < Exp(s)) BY ONLY <1>4
  <2>4. r = Pack(Sign(l), Exp(l) + 1, m) BY <1>7, <1>11, <2>2
  <2>5. r # 0 /\ Sign(r) = Sign(l) /\ Mant(r) = m /\ Exp(r) = Exp(l) + 1
    BY <1>9, <2>3, <2>4, Zenon
  <2> QED BY <1>5, <1>6, <2>2, <2>3, <2>5, Zenon DEF SumFits
<1>12. CASE sum # 0 /\ sum < 8192
  <2>0. sum # 2 BY <1>1
  <2>1. sum \in NormalSums BY ONLY <1>3, <1>12, <2>0 DEF NormalSums
  <2>2. PICK m \in Mantissas :
          /\ m = normalized_mant(sum) \div 4
          /\ Approximates(m, d + 1 - shift_left(sum), x)
          /\ d + 1 - shift_left(sum) < 0 => d \in {0, 1}
    BY <1>2, <1>5, <2>1, ShiftApproximates, Zenon
  <2>3. PICK h \in 1 .. 11 : h = shift_left(sum) BY <2>1, EncoderIs, Zenon
  <2>4. Exp(l) + 1 - shift_left(sum) >= 1 BY <1>1 DEF SumInRange
  <2>5. PICK g \in 1 .. 30 : g = Exp(l) + 1 - shift_left(sum) BY <1>4, <2>3, <2>4
  <2>6. g - Exp(s) = d + 1 - shift_left(sum) BY <1>4, <2>3, <2>5
  <2>7. g < Exp(s) => d + 1 - shift_left(sum) < 0 BY <1>4, <2>3, <2>5
  <2>8. r = Pack(Sign(l), g, m) BY <1>7, <1>12, <2>2, <2>5
  <2>9. r # 0 /\ Sign(r) = Sign(l) /\ Mant(r) = m /\ Exp(r) = g BY <1>9, <2>8, Zenon
  <2>10. Approximates(m, g - Exp(s), x) BY <2>2, <2>6
  <2>11. g < Exp(s) => d \in {0, 1} BY <2>2, <2>7
  <2> QED BY <1>5, <1>6, <2>9, <2>10, <2>11, Zenon DEF SumFits
<1> QED BY <1>3, <1>10, <1>11, <1>12

\* The exact sum of the words, in places of the smaller operand.
ExactSum(l, s, p) ==
  IF Sign(l) = Sign(s) THEN Mant(l) * p + Mant(s) ELSE Mant(l) * p - Mant(s)

LEMMA PlaceInt ==
  ASSUME NEW k \in 0 .. 30
  PROVE  2^k \in Nat
<1>1. k \in 0 .. 29 \/ k = 29 + 1 OBVIOUS
<1>2. k \in 0 .. 29 => 2^k \in Nat BY PlacesAssumption
<1>3. 29 \in 0 .. 29 OBVIOUS
<1>4. 2^29 \in Nat /\ 2^(29 + 1) = 2 * 2^29 BY <1>3, PlacesAssumption, Zenon
<1>5. 2 * 2^29 \in Nat BY <1>4
<1> QED BY <1>1, <1>2, <1>4, <1>5, Zenon

LEMMA PlaceZero == 2^0 = 1 BY PlacesAssumption

\* Equal operands of opposite signs.
LEMMA SumCancels ==
  ASSUME NEW a \in Half, NEW b \in Half, NEW l \in Half, NEW s \in Half,
         InOrder(a, b, l, s), NEW r \in Half, r = fp16_add(a, b), r = 0,
         NEW e \in 1 .. 30, e = Exp(l), e = Exp(s),
         Mant(l) = Mant(s), Sign(l) # Sign(s)
  PROVE  WithinOneUlp(a, b)
<1>0. Exp(0) = 0 /\ Signed(0) = 0
  <2>1. Exp(0) = 0 BY DEF Exp
  <2>2. Mant(0) = 0 BY <2>1 DEF Mant
  <2> QED BY <2>1, <2>2 DEF Signed
<1>1. PICK low \in Int : low = LowOf(r, s) BY <1>0 DEF LowOf
<1>2. low = 0 BY <1>0, <1>1 DEF LowOf
<1>3. PICK p \in Nat : p = 2^e
  <2>1. e \in 0 .. 30 OBVIOUS
  <2>2. 2^e \in Nat BY <2>1, PlaceInt, Zenon
  <2> QED BY <2>2
<1>4. PICK m \in Nat, n \in Nat : m = Mant(l) /\ n = m * p BY <1>3, Fields
<1>5. Exp(l) - low = e /\ Exp(s) - low = e BY <1>2
<1>6. Signed(l) * p = Negated(Sign(l), n) /\ Signed(s) * p = Negated(Sign(s), n)
  BY <1>4, SignedTimes
<1>7. Signed(l) * 2^(Exp(l) - low) = Negated(Sign(l), n) BY <1>3, <1>5, <1>6, Zenon
<1>8. Signed(s) * 2^(Exp(s) - low) = Negated(Sign(s), n) BY <1>3, <1>5, <1>6, Zenon
<1>9. Exp(r) - low = 0 BY <1>0, <1>2
<1>10. Signed(r) * 2^(Exp(r) - low) = 0
  <2>1. Signed(r) * 2^(Exp(r) - low) = 0 * 1 BY <1>0, <1>9, PlaceZero, Zenon
  <2> QED BY <2>1
<1>11. /\ Negated(Sign(l), n) \in Int /\ Negated(Sign(s), n) \in Int
       /\ Negated(Sign(l), n) + Negated(Sign(s), n) = 0
  <2>1. Sign(l) \in {0, 1} /\ Sign(s) \in {0, 1} BY Fields
  <2> QED BY <2>1 DEF Negated
<1>13. PICK u \in Int, v \in Int, z \in Int :
         u = Negated(Sign(l), n) /\ v = Negated(Sign(s), n) /\ z = 0
  BY <1>11
<1>14. u + v = 0 BY <1>11, <1>13
<1>15. /\ u = ValueAt(l, low) /\ v = ValueAt(s, low)
       /\ z = ValueAt(r, low)
  BY <1>7, <1>8, <1>10, <1>13, Zenon DEF ValueAt
<1>16. Kept(r, u + v, z, 2^(Exp(r) - low))
  BY <1>14 DEF Kept
<1> QED BY <1>1, <1>15, <1>16, WithinIs, Zenon

\* The place of the sum is at or above that of the smaller operand.
LEMMA SumAbove ==
  ASSUME NEW a \in Half, NEW b \in Half, NEW l \in Half, NEW s \in Half,
         InOrder(a, b, l, s), NEW r \in Half, r = fp16_add(a, b), r # 0,
         NEW e \in 1 .. 30, NEW f \in 1 .. 30, NEW g \in 1 .. 30, NEW d \in 0 .. 18,
         e = Exp(l), f = Exp(s), g = Exp(r), f = e - d, g >= f, Sign(r) = Sign(l),
         Close(Mant(r) * 2^(g - f), ExactSum(l, s, 2^d), 2^(g - f))
  PROVE  WithinOneUlp(a, b)
<1>1. PICK low \in Int : low = LowOf(r, s) BY DEF LowOf
<1>0. e = Exp(l) /\ f = Exp(s) /\ g = Exp(r) /\ f = e - d /\ g >= f OBVIOUS
<1>2. Exp(l) - low = d /\ Exp(s) - low = 0 /\ Exp(r) - low = g - f
  <2>0. f = Exp(s) /\ g = Exp(r) /\ g >= f BY ONLY <1>0
  <2>1. low = f BY ONLY <1>1, <2>0 DEF LowOf
  <2>2. e - f = d /\ f - f = 0 BY ONLY <1>0
  <2> QED BY ONLY <1>0, <2>1, <2>2, Zenon
<1>3. PICK p \in Nat : p = 2^d
  <2>1. d \in 0 .. 30 OBVIOUS
  <2>2. 2^d \in Nat BY <2>1, PlaceInt, Zenon
  <2> QED BY <2>2
<1>4. PICK w \in Nat : w = 2^(g - f)
  <2>1. g - f \in 0 .. 30 OBVIOUS
  <2>2. 2^(g - f) \in Nat BY <2>1, PlaceInt, Zenon
  <2> QED BY <2>2
<1>5. PICK ml \in Nat, ms \in Nat, mr \in Nat : ml = Mant(l) /\ ms = Mant(s) /\ mr = Mant(r)
  BY Fields
<1>6. PICK h \in Nat, y \in Nat : h = ml * p /\ y = mr * w OBVIOUS
<1>7. Signed(l) * 2^(Exp(l) - low) = Negated(Sign(l), h)
  <2>1. Signed(l) * p = Negated(Sign(l), Mant(l) * p) BY SignedTimes
  <2> QED BY <1>2, <1>3, <1>5, <1>6, <2>1, Zenon
<1>8. Signed(r) * 2^(Exp(r) - low) = Negated(Sign(l), y)
  <2>1. Signed(r) * w = Negated(Sign(r), Mant(r) * w) BY SignedTimes
  <2> QED BY <1>2, <1>4, <1>5, <1>6, <2>1, Zenon
<1>9. Signed(s) * 2^(Exp(s) - low) = Negated(Sign(s), ms)
  <2>1. Signed(s) * 1 = Negated(Sign(s), Mant(s) * 1) BY SignedTimes
  <2>2. Mant(s) * 1 = ms BY <1>5
  <2> QED BY <1>2, <2>1, <2>2, PlaceZero, Zenon
<1>10. Sign(l) \in {0, 1} /\ Sign(s) \in {0, 1} BY Fields
<1>11. Close(y, ExactSum(l, s, p), w) BY <1>3, <1>4, <1>5, <1>6, Zenon
<1>12. ExactSum(l, s, p) = IF Sign(l) = Sign(s) THEN h + ms ELSE h - ms
  BY <1>5, <1>6 DEF ExactSum
<1>13. Abs(Negated(Sign(l), y) - (Negated(Sign(l), h) + Negated(Sign(s), ms))) < w
  <2>1. y \in Int /\ h \in Int /\ ms \in Int /\ w \in Int OBVIOUS
  <2>2. Close(y, IF Sign(l) = Sign(s) THEN h + ms ELSE h - ms, w) BY <1>11, <1>12, Zenon
  <2> QED BY <1>10, <2>1, <2>2, SignedClose, Zenon
<1>14. PICK u \in Int, v \in Int, z \in Int :
         u = Negated(Sign(l), h) /\ v = Negated(Sign(s), ms) /\ z = Negated(Sign(l), y)
  BY DEF Negated
<1>15. Abs(z - (u + v)) < 2^(Exp(r) - low) BY <1>2, <1>4, <1>13, <1>14, Zenon
<1>17. /\ u = ValueAt(l, low) /\ v = ValueAt(s, low)
       /\ z = ValueAt(r, low)
  BY <1>7, <1>8, <1>9, <1>14, Zenon DEF ValueAt
<1>18. Kept(r, u + v, z, 2^(Exp(r) - low))
  BY <1>15 DEF Kept
<1> QED BY <1>1, <1>17, <1>18, WithinIs, Zenon

\* The place of the sum is below that of the smaller operand: the sum is exact.
LEMMA SumBelow ==
  ASSUME NEW a \in Half, NEW b \in Half, NEW l \in Half, NEW s \in Half,
         InOrder(a, b, l, s), NEW r \in Half, r = fp16_add(a, b), r # 0,
         NEW e \in 1 .. 30, NEW f \in 1 .. 30, NEW g \in 1 .. 30, NEW d \in {0, 1},
         e = Exp(l), f = Exp(s), g = Exp(r), f = e - d, g < f, Sign(r) = Sign(l),
         Mant(r) = ExactSum(l, s, 2^d) * 2^(f - g)
  PROVE  WithinOneUlp(a, b)
<1>1. PICK low \in Int : low = LowOf(r, s) BY DEF LowOf
<1>2. PICK k \in 1 .. 29 : k = f - g OBVIOUS
<1>0. e = Exp(l) /\ f = Exp(s) /\ g = Exp(r) /\ f = e - d /\ g < f OBVIOUS
<1>3. Exp(l) - low = d + k /\ Exp(s) - low = k /\ Exp(r) - low = 0
  <2>0. f = Exp(s) /\ g = Exp(r) /\ g < f BY ONLY <1>0
  <2>1. low = g BY ONLY <1>1, <2>0 DEF LowOf
  <2>2. e - g = d + k /\ f - g = k /\ g - g = 0 BY ONLY <1>0, <1>2
  <2> QED BY ONLY <1>0, <2>1, <2>2, Zenon
<1>4. PICK q \in Nat : q = 2^k
  <2>1. k \in 0 .. 30 OBVIOUS
  <2>2. 2^k \in Nat BY <2>1, PlaceInt, Zenon
  <2> QED BY <2>2
<1>5. PICK p \in Nat : p = 2^d /\ 2^(d + k) = p * q
  <2>1. CASE d = 0
    <3>1. 2^d = 1 BY <2>1, PlaceZero, Zenon
    <3>2. d + k = k BY <2>1
    <3>3. 2^(d + k) = q BY <1>4, <3>2, Zenon
    <3> QED BY <3>1, <3>3
  <2>2. CASE d = 1
    <3>1. 2^1 = 2 BY PlacesAre
    <3>2. d + k = k + 1 /\ k \in 0 .. 29 BY <2>2
    <3>3. 2^(k + 1) = 2 * 2^k BY <3>2, PlacesAssumption, Zenon
    <3>4. 2^(d + k) = 2 * q /\ 2^d = 2 BY <1>4, <2>2, <3>1, <3>2, <3>3, Zenon
    <3> QED BY <3>4
  <2> QED BY <2>1, <2>2
<1>6. PICK ml \in Nat, ms \in Nat, mr \in Nat : ml = Mant(l) /\ ms = Mant(s) /\ mr = Mant(r)
  BY Fields
<1>7. PICK h \in Nat, hq \in Nat, sq \in Nat : h = ml * p /\ hq = ml * (p * q) /\ sq = ms * q
  OBVIOUS
<1>8. (h + ms) * q = hq + sq /\ (h - ms) * q = hq - sq
  <2>1. (ml * p + ms) * q = ml * (p * q) + ms * q OBVIOUS
  <2>2. (ml * p - ms) * q = ml * (p * q) - ms * q OBVIOUS
  <2> QED BY <1>7, <2>1, <2>2
<1>9. Signed(l) * 2^(Exp(l) - low) = Negated(Sign(l), hq)
  <2>1. p * q \in Int OBVIOUS
  <2>2. Signed(l) * (p * q) = Negated(Sign(l), Mant(l) * (p * q)) BY <2>1, SignedTimes
  <2> QED BY <1>3, <1>5, <1>6, <1>7, <2>2, Zenon
<1>10. Signed(s) * 2^(Exp(s) - low) = Negated(Sign(s), sq)
  <2>1. Signed(s) * q = Negated(Sign(s), Mant(s) * q) BY SignedTimes
  <2> QED BY <1>3, <1>4, <1>6, <1>7, <2>1, Zenon
<1>11. Signed(r) * 2^(Exp(r) - low) = Negated(Sign(l), mr)
  <2>1. Signed(r) * 1 = Negated(Sign(r), Mant(r) * 1) BY SignedTimes
  <2>2. Mant(r) * 1 = mr BY <1>6
  <2> QED BY <1>3, <2>1, <2>2, PlaceZero, Zenon
<1>12. mr = IF Sign(l) = Sign(s) THEN hq + sq ELSE hq - sq
  <2>1. mr = ExactSum(l, s, p) * q BY <1>2, <1>4, <1>5, <1>6, Zenon
  <2>2. ExactSum(l, s, p) = IF Sign(l) = Sign(s) THEN h + ms ELSE h - ms
    BY <1>6, <1>7 DEF ExactSum
  <2> QED BY <1>8, <2>1, <2>2
<1>13. Close(mr, mr, 1) BY DEF Close
<1>14. Sign(l) \in {0, 1} /\ Sign(s) \in {0, 1} BY Fields
<1>15. Abs(Negated(Sign(l), mr) - (Negated(Sign(l), hq) + Negated(Sign(s), sq))) < 1
  <2>1. mr \in Int /\ hq \in Int /\ sq \in Int /\ 1 \in Int OBVIOUS
  <2>2. Close(mr, IF Sign(l) = Sign(s) THEN hq + sq ELSE hq - sq, 1) BY <1>12, <1>13, Zenon
  <2> QED BY <1>14, <2>1, <2>2, SignedClose, Zenon
<1>16. PICK u \in Int, v \in Int, z \in Int :
         u = Negated(Sign(l), hq) /\ v = Negated(Sign(s), sq) /\ z = Negated(Sign(l), mr)
  BY DEF Negated
<1>17. Abs(z - (u + v)) < 2^(Exp(r) - low) BY <1>3, <1>15, <1>16, PlaceZero, Zenon
<1>19. /\ u = ValueAt(l, low) /\ v = ValueAt(s, low)
       /\ z = ValueAt(r, low)
  BY <1>9, <1>10, <1>11, <1>16, Zenon DEF ValueAt
<1>20. Kept(r, u + v, z, 2^(Exp(r) - low))
  BY <1>17 DEF Kept
<1> QED BY <1>1, <1>19, <1>20, WithinIs, Zenon

LEMMA SumIsWithin ==
  ASSUME NEW a \in Half, NEW b \in Half, IsNormal(a), IsNormal(b), SumInRange(a, b),
         Abs(Exp(a) - Exp(b)) <= 18, MantSum(Larger(a, b), Smaller(a, b)) # 2
  PROVE  WithinOneUlp(a, b)
<1>1. PICK l \in Half, s \in Half, d \in 0 .. 18 :
        /\ l = Larger(a, b) /\ s = Smaller(a, b)
        /\ (l = a /\ s = b) \/ (l = b /\ s = a)
        /\ d = Exp(l) - Exp(s)
        /\ Mant(l) \in Mantissas /\ Mant(s) \in Mantissas
        /\ d = 0 => Mant(l) >= Mant(s)
        /\ MantSum(l, s) = Added(Mant(l), Mant(s), d, Sign(l) = Sign(s))
  BY AdderOperands, Zenon
<1>2. IsNormal(l) /\ IsNormal(s) /\ InOrder(a, b, l, s) BY <1>1 DEF InOrder
<1>3. PICK same \in BOOLEAN : same = (Sign(l) = Sign(s)) OBVIOUS
<1>4. MantSum(l, s) = Added(Mant(l), Mant(s), d, same) BY <1>1, <1>3, Zenon
<1>5. MantSum(l, s) # 2 BY <1>1, Zenon
<1>6. PICK r \in Half : r = fp16_add(a, b) BY SumIsHalf
<1>7. PICK x : x = Exact(Mant(l), Mant(s), d, same) OBVIOUS
<1>8. SumFits(r, l, s, d, same, x)
  <2>1. /\ l = Larger(a, b) /\ s = Smaller(a, b) /\ d = Exp(l) - Exp(s)
        /\ Mant(l) \in Mantissas /\ Mant(s) \in Mantissas
    BY <1>1, Zenon
  <2>2. d = 0 => Mant(l) >= Mant(s) BY <1>1, Zenon
  <2>3. same <=> Sign(l) = Sign(s) BY <1>3
  <2> QED BY <1>2, <1>4, <1>5, <1>6, <1>7, <2>1, <2>2, <2>3, SumApproximates, Zenon
<1>9. x = ExactSum(l, s, 2^d)
  <2>1. CASE same
    <3>1. Sign(l) = Sign(s) BY <1>3, <2>1, Zenon
    <3>2. x = Mant(l) * 2^d + Mant(s) BY <1>7, <2>1, Zenon DEF Exact
    <3> QED BY <3>1, <3>2, Zenon DEF ExactSum
  <2>2. CASE ~same
    <3>1. Sign(l) # Sign(s) BY <1>3, <2>2, Zenon
    <3>2. x = Mant(l) * 2^d - Mant(s) BY <1>7, <2>2, Zenon DEF Exact
    <3> QED BY <3>1, <3>2, Zenon DEF ExactSum
  <2> QED BY <2>1, <2>2
<1>10. PICK e \in 1 .. 30, f \in 1 .. 30 : e = Exp(l) /\ f = Exp(s) BY <1>2 DEF IsNormal
<1>11. f = e - d
  <2>1. d = Exp(l) - Exp(s) BY <1>1, Zenon
  <2>2. d = e - f BY <1>10, <2>1, Zenon
  <2> QED BY ONLY <2>2
<1>12. CASE r = 0
  <2>1. d = 0 /\ Mant(l) = Mant(s) /\ ~same BY <1>8, <1>12, Zenon DEF SumFits
  <2>2. Sign(l) # Sign(s) BY <1>3, <2>1, Zenon
  <2>3. e = Exp(s)
    <3>1. f = e BY <1>11, <2>1
    <3> QED BY <1>10, <3>1, Zenon
  <2> QED BY <1>2, <1>6, <1>10, <1>12, <2>1, <2>2, <2>3, SumCancels, Zenon
<1>13. CASE r # 0
  <2>1. /\ Sign(r) = Sign(l) /\ Exp(r) \in 1 .. 30
        /\ Approximates(Mant(r), Exp(r) - Exp(s), x)
        /\ Exp(r) < Exp(s) => d \in {0, 1}
    BY <1>8, <1>13, Zenon DEF SumFits
  <2>2. PICK g \in 1 .. 30 : g = Exp(r) BY <2>1, Zenon
  <2>3. Approximates(Mant(r), g - f, ExactSum(l, s, 2^d)) BY <1>9, <1>10, <2>1, <2>2, Zenon
  <2>4. g < f => d \in {0, 1} BY <1>10, <2>1, <2>2, Zenon
  <2>5. CASE g >= f
    <3>1. g - f >= 0 /\ ~(g - f < 0) BY ONLY <2>5
    <3>2. Close(Mant(r) * 2^(g - f), ExactSum(l, s, 2^d), 2^(g - f))
      BY <2>3, <3>1, Zenon DEF Approximates
    <3> QED BY <1>2, <1>6, <1>10, <1>11, <1>13, <2>1, <2>2, <2>5, <3>2, SumAbove, Zenon
  <2>6. CASE g < f
    <3>1. ~(g - f >= 0) /\ -(g - f) = f - g BY ONLY <2>6
    <3>2. Mant(r) = ExactSum(l, s, 2^d) * 2^(f - g)
      BY <2>3, <3>1, Zenon DEF Approximates
    <3>3. d \in {0, 1} BY <2>4, <2>6, Zenon
    <3> QED BY <1>2, <1>6, <1>10, <1>11, <1>13, <2>1, <2>2, <2>6, <3>2, <3>3, SumBelow, Zenon
  <2>7. g >= f \/ g < f OBVIOUS
  <2> QED BY <2>5, <2>6, <2>7, Zenon
<1> QED BY <1>12, <1>13, Zenon

(***************************************************************************)
(* Whatever the operands, the sum of two normal numbers, the exponent of   *)
(* which is in range, is less than one unit of its last place away from    *)
(* the exact sum (fp16_add.v lines 31-82).                                 *)
(***************************************************************************)
THEOREM SumWithinOneUlpCorrect == AccumulatorSpec => []SumWithinOneUlp
<1>1. AccumulatorTypeOK => SumWithinOneUlp
  BY SumIsWithin, OperandAssumption DEF AccumulatorTypeOK, SumWithinOneUlp
<1> QED
  BY <1>1, AccumulatorTypeCorrect, PTL

-----------------------------------------------------------------------------
(***************************************************************************)
(* Words that stand for short numbers: what the unit makes of them is      *)
(* exact.                                                                  *)
(***************************************************************************)
PowersTo1024 == {1, 2, 4, 8, 16, 32, 64, 128, 256, 512, 1024}

Large(g) == g >= 2048

\* A power of two is one of the first eleven or beyond an 11-bit number.
LEMMA PlaceSmallOrLarge ==
  ASSUME NEW k \in 0 .. 20
  PROVE  (k \in 0 .. 10 /\ 2^k \in PowersTo1024) \/ Large(2^k)
<1>1. 2^19 = 2 * 2^18 /\ 2^20 = 2 * 2^19
  <2>1. 18 \in 0 .. 29 /\ 18 + 1 = 19 OBVIOUS
  <2>2. 2^(18 + 1) = 2 * 2^18 BY <2>1, PlacesAssumption
  <2>3. 19 \in 0 .. 29 /\ 19 + 1 = 20 OBVIOUS
  <2>4. 2^(19 + 1) = 2 * 2^19 BY <2>3, PlacesAssumption
  <2> QED BY <2>1, <2>2, <2>3, <2>4
<1>2. 2^19 = 524288 /\ 2^20 = 1048576 BY <1>1, PlacesAre, SMT
<1>3. \/ k \in {11, 12, 13, 14, 15, 16, 17, 18, 19, 20}
      \/ k \in {0, 1, 2, 3, 4, 5, 6, 7, 8, 9, 10}
  OBVIOUS
<1>4. /\ Large(2^11) /\ Large(2^12) /\ Large(2^13) /\ Large(2^14) /\ Large(2^15)
      /\ Large(2^16) /\ Large(2^17) /\ Large(2^18)
  BY PlacesAre, SMT DEF Large
<1>5. Large(2^19) /\ Large(2^20) BY <1>2, SMT DEF Large
<1>6. /\ 2^0 \in PowersTo1024 /\ 2^1 \in PowersTo1024 /\ 2^2 \in PowersTo1024
      /\ 2^3 \in PowersTo1024 /\ 2^4 \in PowersTo1024 /\ 2^5 \in PowersTo1024
      /\ 2^6 \in PowersTo1024 /\ 2^7 \in PowersTo1024 /\ 2^8 \in PowersTo1024
      /\ 2^9 \in PowersTo1024 /\ 2^10 \in PowersTo1024
  BY PlacesAre, SMT DEF PowersTo1024
<1>7. CASE k \in {11, 12, 13, 14, 15, 16, 17, 18, 19, 20} BY <1>4, <1>5, <1>7, Zenon
<1>8. CASE k \in {0, 1, 2, 3, 4, 5, 6, 7, 8, 9, 10}
  <2>1. k \in 0 .. 10 BY <1>8
  <2>2. 2^k \in PowersTo1024 BY <1>6, <1>8, Zenon
  <2> QED BY <2>1, <2>2
<1> QED BY <1>3, <1>7, <1>8

\* A power of two that a small number reaches is one of the first eleven.
Reached(k) == 2^k <= 2046

LEMMA PlaceSmall ==
  ASSUME NEW k \in 0 .. 20, Reached(k)
  PROVE  k \in 0 .. 10 /\ 2^k \in PowersTo1024
<1>1. PICK p \in Nat : p = 2^k
  <2>1. k \in 0 .. 30 OBVIOUS
  <2>2. 2^k \in Nat BY <2>1, PlaceInt, Zenon
  <2> QED BY <2>2
<1>2. ~Large(p) BY <1>1, SMT DEF Reached, Large
<1>3. ~Large(2^k) BY <1>1, <1>2, Zenon
<1> QED BY <1>3, PlaceSmallOrLarge, Zenon

\* Powers of two multiply as their exponents add.
AddsUpTo(i) == \A j \in 0 .. 19 : 2^(i + j) = 2^i * 2^j

LEMMA AddsNext ==
  ASSUME NEW i \in 0 .. 9, AddsUpTo(i)
  PROVE  AddsUpTo(i + 1)
<1> SUFFICES ASSUME NEW j \in 0 .. 19 PROVE 2^((i + 1) + j) = 2^(i + 1) * 2^j
  BY DEF AddsUpTo
<1>1. i \in 0 .. 29 /\ i + j \in 0 .. 29 /\ j \in 0 .. 29 /\ (i + 1) + j = (i + j) + 1 OBVIOUS
<1>2. PICK p \in Nat : p = 2^i BY <1>1, PlacesAssumption
<1>3. PICK q \in Nat : q = 2^j BY <1>1, PlacesAssumption
<1>4. 2^(i + j) = p * q BY <1>2, <1>3, Zenon DEF AddsUpTo
<1>5. 2^((i + j) + 1) = 2 * 2^(i + j) BY <1>1, PlacesAssumption, Zenon
<1>6. 2^(i + 1) = 2 * 2^i BY <1>1, PlacesAssumption, Zenon
<1>7. 2 * (p * q) = (2 * p) * q OBVIOUS
<1> QED BY <1>1, <1>2, <1>3, <1>4, <1>5, <1>6, <1>7, Zenon

LEMMA PlacesAdd ==
  ASSUME NEW i \in 0 .. 10, NEW j \in 0 .. 19
  PROVE  2^(i + j) = 2^i * 2^j
<1>0. AddsUpTo(0)
  <2> SUFFICES ASSUME NEW n \in 0 .. 19 PROVE 2^(0 + n) = 2^0 * 2^n BY DEF AddsUpTo
  <2>1. n \in 0 .. 29 /\ 0 + n = n OBVIOUS
  <2>2. PICK q \in Nat : q = 2^n BY <2>1, PlacesAssumption
  <2>3. 1 * q = q OBVIOUS
  <2> QED BY <2>1, <2>2, <2>3, PlaceZero, Zenon
<1>1. AddsUpTo(0 + 1) BY <1>0, AddsNext
<1>2. AddsUpTo(1 + 1) BY <1>1, AddsNext
<1>3. AddsUpTo(2 + 1) BY <1>2, AddsNext
<1>4. AddsUpTo(3 + 1) BY <1>3, AddsNext
<1>5. AddsUpTo(4 + 1) BY <1>4, AddsNext
<1>6. AddsUpTo(5 + 1) BY <1>5, AddsNext
<1>7. AddsUpTo(6 + 1) BY <1>6, AddsNext
<1>8. AddsUpTo(7 + 1) BY <1>7, AddsNext
<1>9. AddsUpTo(8 + 1) BY <1>8, AddsNext
<1>10. AddsUpTo(9 + 1) BY <1>9, AddsNext
<1>11. i \in {0, 1, 2, 3, 4, 5, 6, 7, 8, 9, 10} OBVIOUS
<1>12. AddsUpTo(i) BY <1>0, <1>1, <1>2, <1>3, <1>4, <1>5, <1>6, <1>7, <1>8, <1>9, <1>10, <1>11
<1> QED BY <1>12 DEF AddsUpTo

\* A product of mantissas that is n units of its place, and the slice taken of it.
Shorts == 0 .. 2046
Slices(mm, T, n) ==
  /\ mm < 2097152 => (mm \div 1024) * T = n * 1024
  /\ mm >= 2097152 => T <= 512 /\ (mm \div 2048) * (2 * T) = n * 1024
Units(mm, T, n) == mm * T = n * 1048576

LEMMA ExactProduct ==
  ASSUME NEW T \in PowersTo1024, NEW mm \in Nat, NEW n \in Shorts, Units(mm, T, n)
  PROVE  Slices(mm, T, n)
<1>0. n \in Nat /\ n <= 2046 BY SMT DEF Shorts
<1>t. mm * T = n * 1048576 BY SMT DEF Units
<1>1. T = 1 => Slices(mm, T, n) BY <1>0, <1>t, SMT DEF Slices
<1>2. T = 2 => Slices(mm, T, n) BY <1>0, <1>t, SMT DEF Slices
<1>3. T = 4 => Slices(mm, T, n) BY <1>0, <1>t, SMT DEF Slices
<1>4. T = 8 => Slices(mm, T, n) BY <1>0, <1>t, SMT DEF Slices
<1>5. T = 16 => Slices(mm, T, n) BY <1>0, <1>t, SMT DEF Slices
<1>6. T = 32 => Slices(mm, T, n) BY <1>0, <1>t, SMT DEF Slices
<1>7. T = 64 => Slices(mm, T, n) BY <1>0, <1>t, SMT DEF Slices
<1>8. T = 128 => Slices(mm, T, n) BY <1>0, <1>t, SMT DEF Slices
<1>9. T = 256 => Slices(mm, T, n) BY <1>0, <1>t, SMT DEF Slices
<1>10. T = 512 => Slices(mm, T, n) BY <1>0, <1>t, SMT DEF Slices
<1>11. T = 1024 => Slices(mm, T, n) BY <1>0, <1>t, SMT DEF Slices
<1> QED BY <1>1, <1>2, <1>3, <1>4, <1>5, <1>6, <1>7, <1>8, <1>9, <1>10, <1>11, SMT DEF PowersTo1024

\* A number of eleven bits, and m units of u / 1024 that make n.
Short(n) == Abs(n) <= 2046
Makes(m, u, n) == m * u = n * 1024

\* The places of a small number: its exponent, and its mantissa in whole units.
LEMMA PlacesOf ==
  ASSUME NEW x \in Half, NEW k \in {2, 4}, NEW n \in Int, n # 0, Short(n),
         Represents(x, n, k)
  PROVE  \E i \in 0 .. 10, u \in PowersTo1024 :
           /\ u = 2^i /\ Exp(x) = i + (15 - k) /\ IsNormal(x)
           /\ Mant(x) \in Mantissas /\ Makes(Mant(x), u, Abs(n))
           /\ Sign(x) = 1 <=> n < 0
<1>1. /\ Exp(x) >= 15 - k
      /\ Sign(x) = 1 <=> n < 0
      /\ Mant(x) * 2 ^ (Exp(x) - (15 - k)) = Abs(n) * 1024
  BY SMT DEF Represents
<1>2. /\ Exp(x) \in Nat /\ Exp(x) <= 31 /\ Exp(x) # 0
      /\ Mant(x) \in Nat /\ 1024 <= Mant(x) /\ Mant(x) <= 2047
  BY <1>1, Fields, SMT
<1>3. PICK i \in 0 .. 20 : i = Exp(x) - (15 - k) BY <1>1, <1>2, SMT
<1>4. PICK u \in Nat : u = 2^i
  <2>1. i \in 0 .. 30 OBVIOUS
  <2>2. 2^i \in Nat BY <2>1, PlaceInt, Zenon
  <2> QED BY <2>2
<1>5. Mant(x) * u = Abs(n) * 1024 BY ONLY <1>1, <1>3, <1>4, SMT
<1>6. u <= 2046
  <2>0. Abs(n) <= 2046 BY SMT DEF Short
  <2>1. PICK f \in Nat : Mant(x) = 1024 + f BY <1>2, SMT
  <2>2. (1024 + f) * u = 1024 * u + f * u /\ f * u \in Nat BY SMT
  <2>3. Abs(n) \in Nat BY SMT DEF Abs
  <2>4. 1024 * u <= 1024 * Abs(n) BY <1>5, <2>1, <2>2, <2>3, SMT
  <2> QED BY <2>0, <2>3, <2>4, SMT
<1>7. i \in 0 .. 10 /\ u \in PowersTo1024
  <2>1. Reached(i) BY <1>4, <1>6, SMT DEF Reached
  <2> QED BY <1>4, <2>1, PlaceSmall, Zenon
<1>8. Exp(x) = i + (15 - k) BY <1>2, <1>3, SMT
<1>9. Exp(x) \in 1 .. 30 BY <1>7, <1>8, SMT
<1>10. Mant(x) \in Mantissas BY <1>2, SMT DEF Mantissas
<1>11. IsNormal(x) BY <1>9, SMT DEF IsNormal
<1>12. Makes(Mant(x), u, Abs(n)) BY <1>5, SMT DEF Makes
<1>13. Sign(x) = 1 <=> n < 0 BY <1>1
<1> QED BY <1>4, <1>7, <1>8, <1>10, <1>11, <1>12, <1>13, Zenon

\* What makes a word with a normal mantissa stand for n sixteenths.
LEMMA SixteenthsAre ==
  ASSUME NEW x \in Half, NEW n \in Int, n # 0, NEW i \in 0 .. 10, Exp(x) = i + 11,
         Sign(x) = 1 <=> n < 0, Makes(Mant(x), 2^i, Abs(n))
  PROVE  Represents(x, n, 4)
<1>1. 15 - 4 = 11 OBVIOUS
<1>2. Exp(x) >= 11 /\ Exp(x) - 11 = i BY SMT
<1>3. Mant(x) * 2 ^ (Exp(x) - (15 - 4)) = Abs(n) * 1024 BY <1>1, <1>2, SMT DEF Makes
<1> QED BY <1>1, <1>2, <1>3, SMT DEF Represents

LEMMA AbsProduct ==
  ASSUME NEW q \in Int, NEW s \in Int
  PROVE  /\ Abs(q) \in Nat /\ Abs(s) \in Nat /\ Abs(q * s) = Abs(q) * Abs(s)
         /\ q = 0 <=> Abs(q) = 0
         /\ q # 0 /\ s # 0 => (q * s < 0 <=> ((q < 0) # (s < 0))) /\ q * s # 0
<1>1. PICK x \in Nat, y \in Nat : x = Abs(q) /\ y = Abs(s) BY SMT DEF Abs
<1>2. PICK z \in Nat : z = x * y BY SMT
<1>3. (q = x \/ q = -x) /\ (s = y \/ s = -y) BY <1>1, SMT DEF Abs
<1>4. x > 0 /\ y > 0 => z > 0 BY <1>2, SMT
<1>5. x * y = z /\ (-x) * y = -z /\ x * (-y) = -z /\ (-x) * (-y) = z BY <1>2, SMT
<1>6. q * s = IF (q < 0) = (s < 0) THEN z ELSE -z
  <2>1. CASE q < 0 /\ s < 0 BY <2>1, <1>1, <1>5, SMT DEF Abs
  <2>2. CASE q < 0 /\ ~(s < 0) BY <2>2, <1>1, <1>5, SMT DEF Abs
  <2>3. CASE ~(q < 0) /\ s < 0 BY <2>3, <1>1, <1>5, SMT DEF Abs
  <2>4. CASE ~(q < 0) /\ ~(s < 0) BY <2>4, <1>1, <1>5, SMT DEF Abs
  <2> QED BY <2>1, <2>2, <2>3, <2>4
<1>7. Abs(q * s) = z BY <1>6, SMT DEF Abs
<1>8. q # 0 /\ s # 0 => z > 0 BY <1>1, <1>4, SMT DEF Abs
<1>9. q = 0 <=> Abs(q) = 0 BY SMT DEF Abs
<1>10. q # 0 /\ s # 0 => (q * s < 0 <=> ((q < 0) # (s < 0))) /\ q * s # 0 BY <1>6, <1>8, SMT
<1> QED BY <1>1, <1>2, <1>7, <1>9, <1>10

(***************************************************************************)
(* The product of two words that are q and s quarters, q * s a number of   *)
(* at most 11 bits, is q * s sixteenths: the bits the multiplier drops are *)
(* zero (fp16_mult.v lines 25-47).                                         *)
(***************************************************************************)
LEMMA ProductRepresents ==
  ASSUME NEW a \in Half, NEW b \in Half, NEW q \in Int, NEW s \in Int,
         Represents(a, q, 2), Represents(b, s, 2), Short(q * s)
  PROVE  Represents(fp16_mult(a, b), q * s, 4)
<1>1. CASE q = 0 \/ s = 0
  <2>1. IsZero(a) \/ IsZero(b) BY <1>1 DEF Represents
  <2>2. fp16_mult(a, b) = 0 BY <2>1, SMT DEF fp16_mult
  <2>3. q * s = 0 BY <1>1, SMT
  <2>4. IsZero(0) BY SMT DEF IsZero
  <2> QED BY <2>2, <2>3, <2>4, SMT DEF Represents
<1>2. CASE q # 0 /\ s # 0
  <2>1. PICK x \in Nat, y \in Nat, n \in Nat :
          /\ x = Abs(q) /\ y = Abs(s) /\ n = x * y /\ n = Abs(q * s)
          /\ x > 0 /\ y > 0 /\ n <= 2046 /\ x <= n /\ y <= n
    <3>a. Abs(q) \in Nat /\ Abs(s) \in Nat BY AbsProduct, Zenon
    <3>1. PICK x \in Nat, y \in Nat : x = Abs(q) /\ y = Abs(s) BY <3>a
    <3>0. Abs(q * s) <= 2046 BY SMT DEF Short
    <3>2. x > 0 /\ y > 0 BY <1>2, <3>1, SMT DEF Abs
    <3>3. PICK n \in Nat : n = x * y BY SMT
    <3>4. x <= n /\ y <= n BY <3>2, <3>3, SMT
    <3>5. n = Abs(q * s) BY <3>1, <3>3, AbsProduct, SMT
    <3> QED BY <3>0, <3>1, <3>2, <3>3, <3>4, <3>5, SMT
  <2>2. Short(q) /\ Short(s) BY <2>1, SMT DEF Short
  <2>3. PICK i \in 0 .. 10, u \in PowersTo1024 :
          /\ u = 2^i /\ Exp(a) = i + (15 - 2) /\ IsNormal(a)
          /\ Mant(a) \in Mantissas /\ Makes(Mant(a), u, Abs(q))
          /\ Sign(a) = 1 <=> q < 0
    <3>1. 2 \in {2, 4} OBVIOUS
    <3> QED BY <1>2, <2>2, <3>1, PlacesOf, Zenon
  <2>4. PICK j \in 0 .. 10, v \in PowersTo1024 :
          /\ v = 2^j /\ Exp(b) = j + (15 - 2) /\ IsNormal(b)
          /\ Mant(b) \in Mantissas /\ Makes(Mant(b), v, Abs(s))
          /\ Sign(b) = 1 <=> s < 0
    <3>1. 2 \in {2, 4} OBVIOUS
    <3> QED BY <1>2, <2>2, <3>1, PlacesOf, Zenon
  <2>5. PICK t \in Nat : t = u * v /\ t = 2^(i + j)
    <3>1. 2^(i + j) = 2^i * 2^j
      <4>1. j \in 0 .. 19 OBVIOUS
      <4> QED BY <4>1, PlacesAdd, Zenon
    <3>2. u \in Nat /\ v \in Nat BY SMT DEF PowersTo1024
    <3>3. u * v \in Nat BY <3>2, SMT
    <3> QED BY <2>3, <2>4, <3>1, <3>3, Zenon
  <2>6a. PICK ma \in Mantissas, mb \in Mantissas : ma = Mant(a) /\ mb = Mant(b)
    BY <2>3, <2>4, Zenon
  <2>6. /\ ma \in Nat /\ 1024 <= ma /\ ma <= 2047
        /\ mb \in Nat /\ 1024 <= mb /\ mb <= 2047
    BY ONLY SMT DEF Mantissas
  <2>7. PICK mm \in Nat : mm = ma * mb /\ 1048576 <= mm /\ mm <= 4190209
    <3>1. 1024 * 1024 <= ma * 1024 /\ ma * 1024 <= ma * mb BY <2>6, <2>6a, SMT
    <3>2. ma * mb <= ma * 2047 /\ ma * 2047 <= 2047 * 2047 BY <2>6, <2>6a, SMT
    <3>3. PICK mm \in Nat : mm = ma * mb BY <2>6, SMT
    <3>4. 1048576 <= mm /\ mm <= 4190209 BY <2>6, <3>1, <3>2, <3>3, SMT
    <3> QED BY <3>3, <3>4, SMT
  <2>8. mm * t = n * 1048576
    <3>1. u \in Nat /\ v \in Nat BY SMT DEF PowersTo1024
    <3>2. (ma * mb) * (u * v) = (ma * u) * (mb * v) BY <2>6, <3>1, SMT
    <3>3. ma * u = x * 1024 /\ mb * v = y * 1024 BY <2>1, <2>3, <2>4, <2>6, <2>6a, SMT DEF Makes
    <3>4. (x * 1024) * (y * 1024) = (x * y) * 1048576 BY SMT
    <3> QED BY ONLY <2>1, <2>5, <2>7, <3>2, <3>3, <3>4, SMT
  <2>9. t <= 2046
    <3>1. PICK f \in Nat : mm = 1048576 + f BY <2>7, SMT
    <3>2. (1048576 + f) * t = 1048576 * t + f * t /\ f * t \in Nat BY SMT
    <3>3. 1048576 * t <= 1048576 * n BY <2>8, <3>1, <3>2, SMT
    <3> QED BY <2>1, <3>3, SMT
  <2>10. PICK h \in 0 .. 10 : h = i + j /\ t = 2^h /\ t \in PowersTo1024
    <3>1. i + j \in 0 .. 20 OBVIOUS
    <3>2. Reached(i + j) BY <2>5, <2>9, SMT DEF Reached
    <3>3. i + j \in 0 .. 10 /\ 2^(i + j) \in PowersTo1024 BY <3>1, <3>2, PlaceSmall, Zenon
    <3> QED BY <2>5, <3>3, Zenon
  <2>11. /\ mm < 2097152 => (mm \div 1024) * t = n * 1024
         /\ mm >= 2097152 => t <= 512 /\ (mm \div 2048) * (2 * t) = n * 1024
    <3>0. PICK nn \in Int : nn = n /\ 0 <= nn /\ nn <= 2046 BY <2>1
    <3>1. n \in Shorts BY ONLY <3>0, SMT DEF Shorts
    <3>2. Units(mm, t, n) BY <2>8, SMT DEF Units
    <3>3. Slices(mm, t, n) BY <2>10, <3>1, <3>2, ExactProduct, Zenon
    <3> QED BY <3>3, SMT DEF Slices
  <2>12. PICK sg \in {0, 1} : sg = (Sign(a) + Sign(b)) % 2 /\ (sg = 1 <=> q * s < 0)
    <3>1. Sign(a) \in {0, 1} /\ Sign(b) \in {0, 1} BY Fields
    <3>2. q * s < 0 <=> ((q < 0) # (s < 0)) BY <1>2, AbsProduct, Zenon
    <3>3. (Sign(a) + Sign(b)) % 2 = IF Sign(a) = Sign(b) THEN 0 ELSE 1 BY <3>1, SMT
    <3>4. (Sign(a) = Sign(b)) <=> ((q < 0) = (s < 0)) BY <2>3, <2>4, <3>1, SMT
    <3> QED BY <3>2, <3>3, <3>4
  <2>13. q * s # 0 /\ q * s \in Int
    <3>1. q * s # 0 BY <1>2, AbsProduct, Zenon
    <3> QED BY <3>1, SMT
  <2>14. fp16_mult(a, b) \in Half BY ProductIsHalf
  <2>15. ~IsZero(a) /\ ~IsZero(b) BY <2>3, <2>4, NormalIsNotZero
  <2>16. Exp(a) + Exp(b) - 15 = h + 11 BY <2>3, <2>4, <2>10, SMT
  <2>17. PICK r \in Half : r = fp16_mult(a, b) BY <2>14
  <2>18. CASE mm < 2097152
    <3>1. PICK m \in Nat : m = mm \div 1024 /\ 1024 <= m /\ m <= 2047 BY <2>7, <2>18, SMT
    <3>2. r = Pack(sg, h + 11, m)
      BY <2>6, <2>6a, <2>7, <2>12, <2>15, <2>16, <2>17, <2>18, <3>1, SMT DEF fp16_mult
    <3>3. h + 11 \in Nat /\ 1 <= h + 11 /\ h + 11 <= 31 OBVIOUS
    <3>4. Sign(r) = sg /\ Exp(r) = h + 11 /\ Mant(r) = m BY <3>1, <3>2, <3>3, PackedMant, SMT
    <3>5. m * t = n * 1024 BY <2>11, <2>18, <3>1
    <3>6. Makes(Mant(r), 2^h, Abs(q * s)) BY ONLY <2>1, <2>10, <3>4, <3>5, SMT DEF Makes
    <3>7. Sign(r) = 1 <=> q * s < 0 BY <2>12, <3>4
    <3>8. Exp(r) = h + 11 BY <3>4
    <3> QED BY <2>13, <2>17, <3>6, <3>7, <3>8, SixteenthsAre, Zenon
  <2>19. CASE mm >= 2097152
    <3>1. PICK m \in Nat : m = mm \div 2048 /\ 1024 <= m /\ m <= 2047 BY <2>7, <2>19, SMT
    <3>2. r = Pack(sg, (h + 11) + 1, m)
      BY <2>6, <2>6a, <2>7, <2>12, <2>15, <2>16, <2>17, <2>19, <3>1, SMT DEF fp16_mult
    <3>3. h # 10
      <4>1. t <= 512 BY <2>11, <2>19
      <4>2. 2^10 = 1024 BY PlacesAre, SMT
      <4>3. h = 10 => t = 2^10 BY <2>10, Zenon
      <4> QED BY <4>1, <4>2, <4>3, SMT
    <3>4. PICK g \in 0 .. 10 : g = h + 1 BY <3>3
    <3>5. 2^g = 2 * t
      <4>1. h \in 0 .. 29 OBVIOUS
      <4>2. 2^(h + 1) = 2 * 2^h BY <4>1, PlacesAssumption, Zenon
      <4> QED BY <2>10, <3>4, <4>2, Zenon
    <3>6. g + 11 \in Nat /\ 1 <= g + 11 /\ g + 11 <= 31 /\ (h + 11) + 1 = g + 11 BY <3>4
    <3>7. Sign(r) = sg /\ Exp(r) = g + 11 /\ Mant(r) = m BY <3>1, <3>2, <3>6, PackedMant, SMT
    <3>8. m * (2 * t) = n * 1024 BY <2>11, <2>19, <3>1
    <3>9. Makes(Mant(r), 2^g, Abs(q * s)) BY ONLY <2>1, <3>5, <3>7, <3>8, SMT DEF Makes
    <3>10. Sign(r) = 1 <=> q * s < 0 BY <2>12, <3>7
    <3>11. Exp(r) = g + 11 BY <3>7
    <3> QED BY <2>13, <2>17, <3>9, <3>10, <3>11, SixteenthsAre, Zenon
  <2>20. mm < 2097152 \/ mm >= 2097152 BY SMT
  <2> QED BY <2>18, <2>19, <2>20
<1> QED BY <1>1, <1>2

\* A number of at most 11 bits is not rounded.
Whole(n) == n * 1024

LEMMA ExactRounding ==
  ASSUME NEW G \in Nat, G \in PowersTo1024 \/ Large(G), NEW m \in Mantissas,
         NEW n \in Shorts, NEW y \in Nat, y = m * G, Close(y, Whole(n), G)
  PROVE  G \in PowersTo1024 /\ y = Whole(n)
<1>0. m \in Nat /\ 1024 <= m /\ m <= 2047 BY SMT DEF Mantissas
<1>n. n \in Nat /\ n <= 2046 BY SMT DEF Shorts
<1>c. -G < y - n * 1024 /\ y - n * 1024 < G BY <1>n, SMT DEF Close, Whole
<1>12. ~Large(G)
  <2> SUFFICES ASSUME G >= 2048 PROVE FALSE BY SMT DEF Large
  <2>1. y >= 1024 * G BY <1>0, SMT
  <2> QED BY <2>1, <1>n, <1>c, SMT
<1>1. G = 1 => y = n * 1024 BY <1>0, <1>n, <1>c, SMT
<1>2. G = 2 => y = n * 1024 BY <1>0, <1>n, <1>c, SMT
<1>3. G = 4 => y = n * 1024 BY <1>0, <1>n, <1>c, SMT
<1>4. G = 8 => y = n * 1024 BY <1>0, <1>n, <1>c, SMT
<1>5. G = 16 => y = n * 1024 BY <1>0, <1>n, <1>c, SMT
<1>6. G = 32 => y = n * 1024 BY <1>0, <1>n, <1>c, SMT
<1>7. G = 64 => y = n * 1024 BY <1>0, <1>n, <1>c, SMT
<1>8. G = 128 => y = n * 1024 BY <1>0, <1>n, <1>c, SMT
<1>9. G = 256 => y = n * 1024 BY <1>0, <1>n, <1>c, SMT
<1>10. G = 512 => y = n * 1024 BY <1>0, <1>n, <1>c, SMT
<1>11. G = 1024 => y = n * 1024 BY <1>0, <1>n, <1>c, SMT
<1>13. G \in PowersTo1024 BY <1>12, SMT
<1> QED BY <1>13, <1>1, <1>2, <1>3, <1>4, <1>5, <1>6, <1>7, <1>8, <1>9, <1>10, <1>11, SMT DEF PowersTo1024, Whole

\* The exact sum of two mantissas that stand for f and h sixteenths.
SumOf(f, h, same) == IF same THEN f + h ELSE f - h

LEMMA ExactIsMultiple ==
  ASSUME NEW mL \in Mantissas, NEW mS \in Mantissas, NEW d \in 0 .. 10, NEW j \in 0 .. 10,
         NEW same \in BOOLEAN, d = 0 => mL >= mS, NEW f \in Nat, NEW h \in Nat,
         Makes(mL, 2^(d + j), f), Makes(mS, 2^j, h)
  PROVE  /\ Exact(mL, mS, d, same) \in Nat
         /\ Makes(Exact(mL, mS, d, same), 2^j, SumOf(f, h, same))
<1>0. d \in 0 .. 10 /\ j \in 0 .. 10 /\ j \in 0 .. 19 /\ d \in 0 .. 30 /\ j \in 0 .. 30 OBVIOUS
<1>1. PICK p \in Nat : p = 2^d
  <2>1. 2^d \in Nat BY ONLY <1>0, PlaceInt, Zenon
  <2> QED BY ONLY <2>1
<1>2. PICK v \in Nat : v = 2^j
  <2>1. 2^j \in Nat BY ONLY <1>0, PlaceInt, Zenon
  <2> QED BY ONLY <2>1
<1>3. 2^(d + j) = p * v
  <2>1. 2^(d + j) = 2^d * 2^j BY ONLY <1>0, PlacesAdd, Zenon
  <2> QED BY ONLY <1>1, <1>2, <2>1, Zenon
<1>4. Makes(mL, p * v, f) /\ Makes(mS, v, h) BY <1>2, <1>3, Zenon
<1>5. mL * (p * v) = f * 1024 /\ mS * v = h * 1024 BY ONLY <1>4, SMT DEF Makes
<1>6. /\ mL \in Nat /\ 1024 <= mL /\ mL <= 2047
      /\ mS \in Nat /\ 1024 <= mS /\ mS <= 2047
  BY ONLY SMT DEF Mantissas
<1>7. PICK x \in Int : x = IF same THEN mL * p + mS ELSE mL * p - mS
  BY <1>6, SMT
<1>8. x = Exact(mL, mS, d, same)
  BY ONLY <1>1, <1>7, Zenon DEF Exact
<1>9. x >= 0
  <2>1. CASE d = 0
    <3>1. p = 1 BY ONLY <1>1, <2>1, PlaceZero, Zenon
    <3>2. mL >= mS BY <2>1
    <3> QED BY ONLY <1>6, <1>7, <3>1, <3>2, SMT
  <2>2. CASE d # 0
    <3>1. p >= 2
      <4>1. d \in 0 .. 18 /\ d > 0 /\ d - 1 \in 0 .. 18 BY ONLY <1>0, <2>2, SMT
      <4>2. 2^d = 2 * 2^(d - 1) BY ONLY <4>1, PlaceIs, Zenon
      <4>3. 2^(d - 1) \in Nat \ {0} BY ONLY <4>1, PlaceIs, Zenon
      <4> QED BY ONLY <1>1, <4>2, <4>3, SMT
    <3>2. mL * p >= 2048
      <4>1. PICK w \in Nat : p = 2 + w BY ONLY <3>1, SMT
      <4>2. mL * (2 + w) = 2 * mL + mL * w /\ mL * w \in Nat BY ONLY <1>6, SMT
      <4> QED BY ONLY <1>6, <4>1, <4>2, SMT
    <3>3. PICK y \in Int : y = mL * p BY ONLY <1>6, SMT
    <3> QED BY ONLY <1>6, <1>7, <3>2, <3>3, SMT
  <2> QED BY <2>1, <2>2
<1>10. x * v = SumOf(f, h, same) * 1024
  <2>1. (mL * p + mS) * v = mL * (p * v) + mS * v BY ONLY <1>6, SMT
  <2>2. (mL * p - mS) * v = mL * (p * v) - mS * v BY ONLY <1>6, SMT
  <2>3. CASE same
    <3>1. x = mL * p + mS BY ONLY <1>7, <2>3, Zenon
    <3>2. SumOf(f, h, same) = f + h BY ONLY <2>3, Zenon DEF SumOf
    <3> QED BY ONLY <1>5, <2>1, <3>1, <3>2, SMT
  <2>4. CASE ~same
    <3>1. x = mL * p - mS BY ONLY <1>7, <2>4, Zenon
    <3>2. SumOf(f, h, same) = f - h BY ONLY <2>4, Zenon DEF SumOf
    <3> QED BY ONLY <1>5, <2>2, <3>1, <3>2, SMT
  <2> QED BY <2>3, <2>4
<1>11. x \in Nat BY ONLY <1>9, SMT
<1>12. Makes(x, v, SumOf(f, h, same)) BY ONLY <1>10, Zenon DEF Makes
<1> QED BY ONLY <1>2, <1>8, <1>11, <1>12, Zenon

\* A short number survives the normalisation.
LEMMA ShortIsKept ==
  ASSUME NEW m \in Mantissas, NEW g \in 1 .. 30, NEW j \in 0 .. 10, NEW x \in Nat,
         NEW t \in Shorts, Makes(x, 2^j, t), Approximates(m, g - (j + 11), x)
  PROVE  g - 11 \in 0 .. 10 /\ Makes(m, 2^(g - 11), t) /\ t # 0
<1>0. g \in 1 .. 30 /\ j \in 0 .. 10 /\ j \in 0 .. 30 OBVIOUS
<1>1. m \in Nat /\ 1024 <= m /\ m <= 2047 BY ONLY SMT DEF Mantissas
<1>2. t \in Nat /\ t <= 2046 BY ONLY SMT DEF Shorts
<1>3. PICK v \in Nat : v = 2^j
  <2>1. 2^j \in Nat BY ONLY <1>0, PlaceInt, Zenon
  <2> QED BY ONLY <2>1
<1>4. x * v = t * 1024
  <2>1. Makes(x, v, t) BY <1>3, Zenon
  <2> QED BY ONLY <2>1, SMT DEF Makes
<1>5. CASE g - (j + 11) >= 0
  <2>1. PICK k \in 0 .. 19 : k = g - (j + 11) BY ONLY <1>0, <1>5, SMT
  <2>2. PICK w \in Nat : w = 2^k
    <3>1. k \in 0 .. 30 OBVIOUS
    <3>2. 2^k \in Nat BY ONLY <3>1, PlaceInt, Zenon
    <3> QED BY ONLY <3>2
  <2>3. Close(m * w, x, w)
    <3>1. ~(k < 0) BY ONLY SMT
    <3>2. Approximates(m, k, x) BY <2>1, Zenon
    <3> QED BY ONLY <2>2, <3>1, <3>2, Zenon DEF Approximates
  <2>4. PICK e \in 0 .. 20 : e = g - 11 /\ e = j + k BY ONLY <1>0, <2>1, SMT
  <2>5. PICK G \in Nat : G = 2^e /\ G = v * w
    <3>1. 2^(j + k) = 2^j * 2^k BY ONLY <1>0, PlacesAdd, Zenon
    <3>2. v * w \in Nat BY ONLY SMT
    <3> QED BY ONLY <1>3, <2>2, <2>4, <3>1, <3>2, Zenon
  <2>6. PICK y \in Nat : y = m * G BY ONLY <1>1, SMT
  <2>7. Close(y, Whole(t), G)
    <3>0. v > 0
      <4>1. j \in 0 .. 18 BY ONLY SMT
      <4>2. 2^j \in Nat \ {0} BY ONLY <4>1, PlaceIs, Zenon
      <4> QED BY ONLY <1>3, <4>2, SMT
    <3>1. PICK z \in Nat : z = m * w BY ONLY <1>1, SMT
    <3>2. -w < z - x /\ z - x < w BY ONLY <2>3, <3>1, SMT DEF Close
    <3>3. (z - x) * v = y - t * 1024
      <4>1. (m * w) * v = m * (v * w) BY ONLY <1>1, SMT
      <4>2. (z - x) * v = z * v - x * v BY ONLY SMT
      <4> QED BY ONLY <1>4, <2>5, <2>6, <3>1, <4>1, <4>2, SMT
    <3>4. PICK c \in Nat : z - x + w = c /\ c > 0 BY ONLY <3>2, SMT
    <3>5. PICK b \in Nat : w - (z - x) = b /\ b > 0 BY ONLY <3>2, SMT
    <3>6. c * v > 0 /\ b * v > 0 BY ONLY <3>0, <3>4, <3>5, SMT
    <3>7. c * v = (z - x) * v + v * w /\ b * v = v * w - (z - x) * v
      <4>1. (z - x + w) * v = (z - x) * v + v * w BY ONLY SMT
      <4>2. (w - (z - x)) * v = v * w - (z - x) * v BY ONLY SMT
      <4> QED BY ONLY <3>4, <3>5, <4>1, <4>2, SMT
    <3>8. (y - t * 1024) + G > 0 /\ G - (y - t * 1024) > 0
      BY ONLY <2>5, <3>3, <3>6, <3>7, SMT
    <3> QED BY ONLY <1>2, <3>8, SMT DEF Close, Whole
  <2>8. G \in PowersTo1024 \/ Large(G) BY ONLY <2>5, PlaceSmallOrLarge, Zenon
  <2>9. G \in PowersTo1024 /\ y = t * 1024
    <3>1. G \in PowersTo1024 /\ y = Whole(t) BY ONLY <2>6, <2>7, <2>8, ExactRounding, Zenon
    <3> QED BY ONLY <3>1, SMT DEF Whole
  <2>10. e \in 0 .. 10
    <3>1. ~Large(G)
      <4>1. G <= 1024 BY ONLY <2>9, SMT DEF PowersTo1024
      <4> QED BY ONLY <4>1, SMT DEF Large
    <3> QED BY ONLY <2>5, <3>1, PlaceSmallOrLarge, Zenon
  <2>11. Makes(m, 2^e, t) BY ONLY <2>5, <2>6, <2>9, Zenon DEF Makes
  <2>12. t # 0
    <3>1. G >= 1 BY ONLY <2>9, SMT DEF PowersTo1024
    <3>2. y >= 1 BY ONLY <1>1, <2>6, <3>1, SMT
    <3> QED BY ONLY <2>9, <3>2, SMT
  <2> QED BY ONLY <2>4, <2>10, <2>11, <2>12, Zenon
<1>6. CASE g - (j + 11) < 0
  <2>1. PICK k \in 1 .. 20 : k = -(g - (j + 11)) BY ONLY <1>0, <1>6, SMT
  <2>2. PICK w \in Nat : w = 2^k
    <3>1. k \in 0 .. 30 OBVIOUS
    <3>2. 2^k \in Nat BY ONLY <3>1, PlaceInt, Zenon
    <3> QED BY ONLY <3>2
  <2>3. m = x * w
    <3>1. ~(g - (j + 11) >= 0) BY ONLY <1>0, <1>6, SMT
    <3>2. m = x * 2^(-(g - (j + 11))) BY <3>1, Zenon DEF Approximates
    <3> QED BY ONLY <2>1, <2>2, <3>2, Zenon
  <2>4. CASE g >= 11
    <3>1. PICK e \in 0 .. 10 : e = g - 11 /\ k + e = j /\ k \in 0 .. 10
      BY ONLY <1>0, <2>1, <2>4, SMT
    <3>2. PICK u \in Nat : u = 2^e
      <4>1. e \in 0 .. 30 OBVIOUS
      <4>2. 2^e \in Nat BY ONLY <4>1, PlaceInt, Zenon
      <4> QED BY ONLY <4>2
    <3>3. v = w * u
      <4>1. e \in 0 .. 19 OBVIOUS
      <4>2. 2^(k + e) = 2^k * 2^e BY ONLY <3>1, <4>1, PlacesAdd, Zenon
      <4> QED BY ONLY <1>3, <2>2, <3>1, <3>2, <4>2, Zenon
    <3>4. m * u = t * 1024
      <4>1. (x * w) * u = x * (w * u) BY ONLY SMT
      <4> QED BY ONLY <1>4, <2>3, <3>3, <4>1, Zenon
    <3>5. t # 0
      <4>1. e \in 0 .. 18 BY ONLY SMT
      <4>2. 2^e \in Nat \ {0} BY ONLY <4>1, PlaceIs, Zenon
      <4>3. u >= 1 BY ONLY <3>2, <4>2, SMT
      <4>4. PICK y \in Nat : y = m * u /\ y >= 1 BY ONLY <1>1, <4>3, SMT
      <4> QED BY ONLY <3>4, <4>4, SMT
    <3>6. Makes(m, 2^e, t) BY ONLY <3>2, <3>4, Zenon DEF Makes
    <3> QED BY ONLY <3>1, <3>5, <3>6, Zenon
  <2>5. CASE g < 11
    <3>1. PICK e \in 1 .. 10 : e = 11 - g /\ k = j + e BY ONLY <1>0, <2>1, <2>5, SMT
    <3>2. PICK u \in Nat : u = 2^e /\ u >= 2
      <4>1. e \in 0 .. 18 /\ e > 0 /\ e - 1 \in 0 .. 18 BY ONLY SMT
      <4>2. 2^e = 2 * 2^(e - 1) BY ONLY <4>1, PlaceIs, Zenon
      <4>3. 2^(e - 1) \in Nat \ {0} BY ONLY <4>1, PlaceIs, Zenon
      <4> QED BY ONLY <4>2, <4>3, SMT
    <3>3. w = v * u
      <4>1. e \in 0 .. 19 OBVIOUS
      <4>2. 2^(j + e) = 2^j * 2^e BY ONLY <1>0, <4>1, PlacesAdd, Zenon
      <4> QED BY ONLY <1>3, <2>2, <3>1, <3>2, <4>2, Zenon
    <3>4. m = (t * 1024) * u
      <4>1. x * (v * u) = (x * v) * u BY ONLY SMT
      <4> QED BY ONLY <1>2, <1>4, <2>3, <3>3, <4>1, SMT
    <3>5. PICK z \in Nat : z = t * u BY ONLY <1>2, SMT
    <3>6. m = 1024 * z
      <4>1. (t * 1024) * u = 1024 * (t * u) BY ONLY <1>2, SMT
      <4> QED BY ONLY <3>4, <3>5, <4>1, SMT
    <3>7. z = 1 BY ONLY <1>1, <3>6, SMT
    <3>8. t >= 1 => z >= 2
      <4>1. t >= 1 => t * u >= u BY ONLY <1>2, SMT
      <4> QED BY ONLY <3>2, <3>5, <4>1, SMT
    <3>9. t = 0 => z = 0 BY ONLY <3>5, SMT
    <3> QED BY ONLY <1>2, <3>7, <3>8, <3>9, SMT
  <2> QED BY <1>0, <2>4, <2>5, SMT
<1> QED BY <1>0, <1>5, <1>6, SMT

\* The sum of ordered operands that stand for f and h sixteenths, neither zero.
LEMMA OrderedSumRepresents ==
  ASSUME NEW a \in Half, NEW b \in Half, NEW l \in Half, NEW s \in Half,
         NEW d \in 0 .. 18, NEW f \in Int, NEW h \in Int,
         IsNormal(a), IsNormal(b), l = Larger(a, b), s = Smaller(a, b), d = Exp(l) - Exp(s),
         Mant(l) \in Mantissas, Mant(s) \in Mantissas, d = 0 => Mant(l) >= Mant(s),
         MantSum(l, s) = Added(Mant(l), Mant(s), d, Sign(l) = Sign(s)),
         f # 0, h # 0, Short(f), Short(h), Short(f + h),
         Represents(l, f, 4), Represents(s, h, 4)
  PROVE  Represents(fp16_add(a, b), f + h, 4)
<1>0. 4 \in {2, 4} OBVIOUS
<1>1. PICK i \in 0 .. 10, u \in PowersTo1024 :
        /\ u = 2^i /\ Exp(l) = i + (15 - 4) /\ IsNormal(l)
        /\ Mant(l) \in Mantissas /\ Makes(Mant(l), u, Abs(f))
        /\ Sign(l) = 1 <=> f < 0
  BY <1>0, PlacesOf, Zenon
<1>2. PICK j \in 0 .. 10, v \in PowersTo1024 :
        /\ v = 2^j /\ Exp(s) = j + (15 - 4) /\ IsNormal(s)
        /\ Mant(s) \in Mantissas /\ Makes(Mant(s), v, Abs(h))
        /\ Sign(s) = 1 <=> h < 0
  BY <1>0, PlacesOf, Zenon
<1>3. Exp(l) = i + 11 /\ Exp(s) = j + 11
  <2>1. Exp(l) = i + (15 - 4) BY <1>1, Zenon
  <2>2. Exp(s) = j + (15 - 4) BY <1>2, Zenon
  <2> QED BY ONLY <2>1, <2>2, SMT
<1>4. i = d + j /\ d \in 0 .. 10
  <2>2. d = (i + 11) - (j + 11) BY <1>3, Zenon
  <2> QED BY ONLY <2>2, SMT
<1>5. PICK same \in BOOLEAN : same = (Sign(l) = Sign(s)) OBVIOUS
<1>6. PICK g \in Nat, k \in Nat : g = Abs(f) /\ k = Abs(h)
  BY SMT DEF Abs
<1>7. PICK t \in Int : t = SumOf(g, k, same)
  <2>1. CASE same
    <3>1. SumOf(g, k, same) = g + k BY ONLY <2>1, Zenon DEF SumOf
    <3> QED BY ONLY <3>1
  <2>2. CASE ~same
    <3>1. SumOf(g, k, same) = g - k BY ONLY <2>2, Zenon DEF SumOf
    <3> QED BY ONLY <3>1
  <2> QED BY <2>1, <2>2
<1>8. f + h = Negated(Sign(l), t)
  <2>1. Sign(l) \in {0, 1} /\ Sign(s) \in {0, 1} BY Fields
  <2>2. (Sign(l) = 1 <=> f < 0) /\ (Sign(s) = 1 <=> h < 0) BY <1>1, <1>2, Zenon
  <2>3. f = IF Sign(l) = 1 THEN -g ELSE g BY ONLY <1>6, <2>2, SMT DEF Abs
  <2>4. h = IF Sign(s) = 1 THEN -k ELSE k BY ONLY <1>6, <2>2, SMT DEF Abs
  <2>5. CASE same
    <3>1. Sign(l) = Sign(s) BY ONLY <1>5, <2>5
    <3>2. t = g + k BY ONLY <1>7, <2>5, Zenon DEF SumOf
    <3> QED BY ONLY <2>3, <2>4, <3>1, <3>2, SMT DEF Negated
  <2>6. CASE ~same
    <3>1. Sign(l) # Sign(s) BY ONLY <1>5, <2>6
    <3>2. t = g - k BY ONLY <1>7, <2>6, Zenon DEF SumOf
    <3> QED BY ONLY <2>1, <2>3, <2>4, <3>1, <3>2, SMT DEF Negated
  <2> QED BY <2>5, <2>6
<1>9. PICK mL \in Mantissas, mS \in Mantissas : mL = Mant(l) /\ mS = Mant(s) BY Zenon
<1>9a. d = 0 => mL >= mS BY <1>9, Zenon
<1>10. PICK x \in Nat : /\ x = Exact(Mant(l), Mant(s), d, same)
                        /\ Makes(x, 2^j, t)
  <2>1. Makes(mL, 2^(d + j), g) /\ Makes(mS, 2^j, k)
    BY <1>1, <1>2, <1>4, <1>6, <1>9, Zenon
  <2>2. /\ Exact(mL, mS, d, same) \in Nat
        /\ Makes(Exact(mL, mS, d, same), 2^j, SumOf(g, k, same))
    BY <1>4, <1>9a, <2>1, ExactIsMultiple, Zenon
  <2> QED BY <1>7, <1>9, <2>2, Zenon
<1>11. t \in Shorts
  <2>1. t >= 0
    <3>1. j \in 0 .. 18 BY ONLY SMT
    <3>2. 2^j \in Nat \ {0} BY ONLY <3>1, PlaceIs, Zenon
    <3>3. PICK w \in Nat : w = 2^j BY <3>2
    <3>4. x * w = t * 1024
      <4>1. Makes(x, w, t) BY <1>10, <3>3, Zenon
      <4> QED BY ONLY <4>1, SMT DEF Makes
    <3>5. x * w >= 0 BY ONLY SMT
    <3> QED BY ONLY <3>4, <3>5, SMT
  <2>2. Abs(f + h) <= 2046 BY SMT DEF Short
  <2>3. t = f + h \/ t = -(f + h) BY ONLY <1>8, SMT DEF Negated
  <2> QED BY ONLY <2>1, <2>2, <2>3, SMT DEF Shorts, Abs
<1>12. MantSum(l, s) = Added(mL, mS, d, same) BY <1>5, <1>9, Zenon
<1>13. MantSum(l, s) # 2
  <2> SUFFICES ASSUME MantSum(l, s) = 2 PROVE FALSE OBVIOUS
  <2>1. PICK sum : sum = Added(mL, mS, d, same) OBVIOUS
  <2>2. sum = 2 BY <1>12, <2>1, Zenon
  <2>3. /\ sum < 4096 => ~same
        /\ sum < 2048 => d \in {0, 1}
        /\ d = 0 /\ ~same => sum = 4 * (mL - mS)
        /\ d = 1 /\ ~same => sum = 2 * (2 * mL - mS)
    BY ONLY <1>9a, <2>1, AddedIs
  <2>4. mL \in Nat /\ mS \in Nat BY ONLY SMT DEF Mantissas
  <2>5. d = 1 /\ ~same /\ 2 * mL - mS = 1 BY ONLY <2>2, <2>3, <2>4, SMT
  <2>6. x = 1
    <3>1. x = mL * 2^d - mS BY <1>9, <1>10, <2>5, Zenon DEF Exact
    <3>2. 2^d = 2 BY ONLY <2>5, PlacesAre, SMT
    <3>3. x = mL * 2 - mS BY ONLY <3>1, <3>2, Zenon
    <3> QED BY ONLY <2>4, <2>5, <3>3, SMT
  <2>7. PICK w \in Nat : w = 2^j /\ w > 0 /\ 2 * w <= 1024
    <3>1. j \in 0 .. 18 /\ j \in 0 .. 29 /\ i = j + 1 BY ONLY <1>4, <2>5, SMT
    <3>2. 2^j \in Nat \ {0} BY ONLY <3>1, PlaceIs, Zenon
    <3>3. PICK w \in Nat : w = 2^j /\ w > 0 BY ONLY <3>2, SMT
    <3>4. 2^(j + 1) = 2 * 2^j BY ONLY <3>1, PlacesAssumption, Zenon
    <3>5. u = 2 * w BY <1>1, <3>1, <3>3, <3>4, Zenon
    <3>6. u <= 1024 BY ONLY SMT DEF PowersTo1024
    <3> QED BY ONLY <3>3, <3>5, <3>6, SMT
  <2>8. x * w = t * 1024
    <3>1. Makes(x, w, t) BY <1>10, <2>7, Zenon
    <3> QED BY ONLY <3>1, SMT DEF Makes
  <2>9. w = t * 1024 BY ONLY <2>6, <2>8, SMT
  <2>10. t \in Nat BY ONLY <1>11, SMT DEF Shorts
  <2> QED BY ONLY <2>7, <2>9, <2>10, SMT
<1>14. SumInRange(a, b)
  <2>1. MantSum(l, s) \in Int /\ MantSum(l, s) <= 16383
    <3>1. Exp(s) <= Exp(l) BY ONLY <1>3, <1>4, SMT
    <3> QED BY <3>1, MantSumRange, SMT
  <2>2. PICK c \in 0 .. 11 : c = shift_left(MantSum(l, s)) BY <2>1, ShiftLeftRange, SMT
  <2>3. Exp(l) <= 29 /\ Exp(l) + 1 - c >= 1 BY ONLY <1>3, SMT
  <2>4. l = Larger(a, b) /\ s = Smaller(a, b) OBVIOUS
  <2>5. Exp(l) + 1 - shift_left(MantSum(l, s)) >= 1 BY ONLY <2>2, <2>3, Zenon
  <2> QED BY ONLY <2>3, <2>4, <2>5, Zenon DEF SumInRange
<1>15. PICK r \in Half : r = fp16_add(a, b) BY SumIsHalf
<1>16. SumFits(r, l, s, d, same, x)
  <2>1. IsNormal(l) /\ IsNormal(s) BY <1>1, <1>2, Zenon
  <2>2. same <=> Sign(l) = Sign(s) BY ONLY <1>5
  <2>3. MantSum(l, s) = Added(Mant(l), Mant(s), d, same) BY <1>5, Zenon
  <2> QED BY <1>10, <1>13, <1>14, <1>15, <2>1, <2>2, <2>3, SumApproximates, Zenon
<1>17. CASE r = 0
  <2>1. d = 0 /\ ~same /\ mL = mS BY <1>9, <1>16, <1>17, Zenon DEF SumFits
  <2>2. x = 0
    <3>1. x = mL * 2^d - mS BY <1>9, <1>10, <2>1, Zenon DEF Exact
    <3>2. 2^d = 1 BY ONLY <2>1, PlaceZero, Zenon
    <3>3. x = mL * 1 - mS BY ONLY <3>1, <3>2, Zenon
    <3>4. mL \in Nat /\ mS \in Nat BY ONLY SMT DEF Mantissas
    <3> QED BY ONLY <2>1, <3>3, <3>4, SMT
  <2>3. t = 0
    <3>1. PICK w \in Nat : w = 2^j
      <4>1. j \in 0 .. 30 BY ONLY SMT
      <4>2. 2^j \in Nat BY ONLY <4>1, PlaceInt, Zenon
      <4> QED BY ONLY <4>2
    <3>2. Makes(x, w, t) BY <1>10, <3>1, Zenon
    <3>3. x * w = t * 1024 BY ONLY <3>2, SMT DEF Makes
    <3> QED BY ONLY <2>2, <3>3, SMT
  <2>4. f + h = 0 BY ONLY <1>8, <2>3, SMT DEF Negated
  <2>5. IsZero(r) BY ONLY <1>17, SMT DEF IsZero
  <2> QED BY <1>15, <2>4, <2>5, Zenon DEF Represents
<1>18. CASE r # 0
  <2>1. /\ Sign(r) = Sign(l) /\ Exp(r) \in 1 .. 30 /\ Mant(r) \in Mantissas
        /\ Approximates(Mant(r), Exp(r) - Exp(s), x)
    BY <1>16, <1>18, Zenon DEF SumFits
  <2>2. PICK e \in 1 .. 30, m \in Mantissas : e = Exp(r) /\ m = Mant(r) BY <2>1, Zenon
  <2>3. Approximates(m, e - (j + 11), x) BY <1>3, <2>1, <2>2, Zenon
  <2>4. e - 11 \in 0 .. 10 /\ Makes(m, 2^(e - 11), t) /\ t # 0
    BY <1>10, <1>11, <2>3, ShortIsKept, Zenon
  <2>5. PICK p \in 0 .. 10 : p = e - 11 BY <2>4, Zenon
  <2>6. Exp(r) = p + 11 BY ONLY <2>2, <2>5, SMT
  <2>7. t \in Nat BY ONLY <1>11, SMT DEF Shorts
  <2>8. Sign(l) \in {0, 1} BY Fields
  <2>9. f + h # 0 /\ Abs(f + h) = t /\ (Sign(r) = 1 <=> f + h < 0)
    BY ONLY <1>8, <2>1, <2>4, <2>7, <2>8, SMT DEF Negated, Abs
  <2>10. Makes(Mant(r), 2^p, Abs(f + h)) BY ONLY <2>2, <2>4, <2>5, <2>9, Zenon
  <2>11. f + h \in Int OBVIOUS
  <2> QED BY <1>15, <2>6, <2>9, <2>10, <2>11, SixteenthsAre, Zenon
<1> QED BY <1>17, <1>18

(***************************************************************************)
(* The sum of two words that are n and m sixteenths, all three numbers of  *)
(* at most 11 bits, is n + m sixteenths (fp16_add.v lines 31-82).          *)
(***************************************************************************)
LEMMA SumRepresents ==
  ASSUME NEW a \in Half, NEW b \in Half, NEW n \in Int, NEW m \in Int,
         Represents(a, n, 4), Represents(b, m, 4), Short(n), Short(m), Short(n + m)
  PROVE  Represents(fp16_add(a, b), n + m, 4)
<1>1. CASE n = 0
  <2>1. IsZero(a) BY <1>1, Zenon DEF Represents
  <2>2. fp16_add(a, b) = b BY <2>1, Zenon DEF fp16_add
  <2>3. n + m = m BY ONLY <1>1, SMT
  <2> QED BY <2>2, <2>3, Zenon
<1>2. CASE n # 0 /\ m = 0
  <2>1. IsZero(b) BY <1>2, Zenon DEF Represents
  <2>2. ~IsZero(a)
    <3>1. 4 \in {2, 4} OBVIOUS
    <3>2. IsNormal(a) BY <1>2, <3>1, PlacesOf, Zenon
    <3> QED BY <3>2, NormalIsNotZero, Zenon
  <2>3. fp16_add(a, b) = a BY <2>1, <2>2, Zenon DEF fp16_add
  <2>4. n + m = n BY ONLY <1>2, SMT
  <2> QED BY <2>3, <2>4, Zenon
<1>3. CASE n # 0 /\ m # 0
  <2>0. 4 \in {2, 4} OBVIOUS
  <2>1. PICK i \in 0 .. 10 : Exp(a) = i + (15 - 4) /\ IsNormal(a)
    BY <1>3, <2>0, PlacesOf, Zenon
  <2>2. PICK j \in 0 .. 10 : Exp(b) = j + (15 - 4) /\ IsNormal(b)
    BY <1>3, <2>0, PlacesOf, Zenon
  <2>3. Abs(Exp(a) - Exp(b)) <= 18 BY ONLY <2>1, <2>2, SMT DEF Abs
  <2>4. PICK l \in Half, s \in Half, d \in 0 .. 18 :
          /\ l = Larger(a, b) /\ s = Smaller(a, b)
          /\ (l = a /\ s = b) \/ (l = b /\ s = a)
          /\ d = Exp(l) - Exp(s)
          /\ Mant(l) \in Mantissas /\ Mant(s) \in Mantissas
          /\ d = 0 => Mant(l) >= Mant(s)
          /\ MantSum(l, s) = Added(Mant(l), Mant(s), d, Sign(l) = Sign(s))
    BY <2>1, <2>2, <2>3, AdderOperands, Zenon
  <2>5. PICK f \in Int, h \in Int :
          /\ Represents(l, f, 4) /\ Represents(s, h, 4) /\ f # 0 /\ h # 0
          /\ Short(f) /\ Short(h) /\ f + h = n + m
    <3>1. n + m = m + n OBVIOUS
    <3>2. CASE l = a /\ s = b BY <1>3, <3>2, Zenon
    <3>3. CASE l = b /\ s = a BY <1>3, <3>1, <3>3, Zenon
    <3> QED BY <2>4, <3>2, <3>3, Zenon
  <2>6. Short(f + h) BY <2>5, Zenon
  <2>7. /\ l = Larger(a, b) /\ s = Smaller(a, b) /\ d = Exp(l) - Exp(s)
        /\ Mant(l) \in Mantissas /\ Mant(s) \in Mantissas
    BY <2>4, Zenon
  <2>8. d = 0 => Mant(l) >= Mant(s) BY <2>4, Zenon
  <2>9. MantSum(l, s) = Added(Mant(l), Mant(s), d, Sign(l) = Sign(s)) BY <2>4, Zenon
  <2>10. Represents(fp16_add(a, b), f + h, 4)
    BY <2>1, <2>2, <2>5, <2>6, <2>7, <2>8, <2>9, OrderedSumRepresents, Zenon
  <2> QED BY <2>5, <2>10, Zenon
<1> QED BY <1>1, <1>2, <1>3

(***************************************************************************)
(* Short numbers do not feel that the unit truncates: if a and b are q and *)
(* s quarters and acc is n sixteenths, and neither the product nor the sum *)
(* needs more than 11 bits, fp16_mac is n + q * s sixteenths.              *)
(***************************************************************************)
THEOREM MacIsExact ==
  ASSUME NEW a \in Half, NEW b \in Half, NEW acc \in Half,
         NEW q \in Int, NEW s \in Int, NEW n \in Int,
         Represents(a, q, 2), Represents(b, s, 2), Represents(acc, n, 4),
         Short(q * s), Short(n), Short(q * s + n)
  PROVE  Represents(fp16_mac(a, b, acc), q * s + n, 4)
<1>1. Represents(fp16_mult(a, b), q * s, 4) BY ProductRepresents, Zenon
<1>2. fp16_mult(a, b) \in Half BY ProductIsHalf, Zenon
<1>3. q * s \in Int BY SMT
<1>4. Represents(fp16_add(fp16_mult(a, b), acc), q * s + n, 4)
  BY <1>1, <1>2, <1>3, SumRepresents, Zenon
<1> QED BY <1>4, Zenon DEF fp16_mac

\* The mantissa of a word that is n sixteenths, not zero.
LEMMA MantissaOf ==
  ASSUME NEW x \in Half, NEW n \in Int, n # 0, Short(n), Represents(x, n, 4)
  PROVE  \E i \in 0 .. 10, g \in PowersTo1024 :
           /\ Exp(x) = i + 11 /\ g = 2^(10 - i) /\ Mant(x) = Abs(n) * g
           /\ Mant(x) \in Mantissas /\ (Sign(x) = 1 <=> n < 0)
<1>1. PICK i \in 0 .. 10, u \in PowersTo1024 :
        /\ u = 2^i /\ Exp(x) = i + (15 - 4) /\ IsNormal(x)
        /\ Mant(x) \in Mantissas /\ Makes(Mant(x), u, Abs(n))
        /\ Sign(x) = 1 <=> n < 0
  <2>1. 4 \in {2, 4} OBVIOUS
  <2> QED BY <2>1, PlacesOf, Zenon
<1>2. PICK k \in 0 .. 10 : k = 10 - i OBVIOUS
<1>3. PICK g \in PowersTo1024 : g = 2^k /\ u * g = 1024
  <2>1. i + k = 10 /\ k \in 0 .. 19 /\ k \in 0 .. 20 /\ k \in 0 .. 18 BY ONLY <1>2, SMT
  <2>2. 2^(i + k) = 2^i * 2^k BY ONLY <2>1, PlacesAdd, Zenon
  <2>3. 2^10 = 1024 BY PlacesAre, SMT
  <2>4. u * 2^k = 2^10 BY <1>1, <2>1, <2>2, Zenon
  <2>5. PICK p \in Nat \ {0} : p = 2^k BY ONLY <2>1, PlaceIs, Zenon
  <2>6. u * p = 1024 BY ONLY <2>3, <2>4, <2>5, SMT
  <2>7. u \in Nat /\ u >= 1 BY ONLY SMT DEF PowersTo1024
  <2>8. p <= 1024
    <3>1. PICK c \in Nat : u = 1 + c BY ONLY <2>7, SMT
    <3>2. (1 + c) * p = p + c * p /\ c * p \in Nat BY ONLY SMT
    <3> QED BY ONLY <2>6, <3>1, <3>2, SMT
  <2>9. Reached(k) BY ONLY <2>5, <2>8, SMT DEF Reached
  <2>10. 2^k \in PowersTo1024 BY ONLY <2>1, <2>9, PlaceSmall, Zenon
  <2> QED BY ONLY <2>5, <2>6, <2>10, Zenon
<1>4. PICK m \in Mantissas, a \in Nat : m = Mant(x) /\ a = Abs(n)
  <2>1. Abs(n) \in Nat BY SMT DEF Abs
  <2> QED BY <1>1, <2>1, Zenon
<1>5. m = a * g
  <2>1. Makes(m, u, a) BY <1>1, <1>4, Zenon
  <2>2. m * u = a * 1024 BY ONLY <2>1, SMT DEF Makes
  <2>3. m \in Nat /\ u \in Nat /\ g \in Nat BY ONLY SMT DEF Mantissas, PowersTo1024
  <2>4. (m * u) * g = m * (u * g) /\ (a * 1024) * g = (a * g) * 1024 BY ONLY <2>3, SMT
  <2>5. PICK y \in Nat : y = a * g BY ONLY <2>3, SMT
  <2>6. m * 1024 = y * 1024 BY ONLY <1>3, <2>2, <2>4, <2>5, SMT
  <2> QED BY ONLY <2>3, <2>5, <2>6, SMT
<1>6. Exp(x) = i + 11
  <2>1. Exp(x) = i + (15 - 4) BY <1>1, Zenon
  <2> QED BY ONLY <2>1, SMT
<1>7. Sign(x) = 1 <=> n < 0 BY <1>1, Zenon
<1>8. g = 2^(10 - i) BY <1>2, <1>3, Zenon
<1>9. Mant(x) = Abs(n) * g /\ Mant(x) \in Mantissas BY <1>4, <1>5, Zenon
<1> QED BY <1>6, <1>7, <1>8, <1>9, Zenon

\* Scaled finds the number again.
LEMMA ScaledIs ==
  ASSUME NEW x \in Half, NEW n \in Int, Short(n), Represents(x, n, 4)
  PROVE  Scaled(x, 4) = n
<1>1. CASE n = 0
  <2>1. IsZero(x) BY <1>1, Zenon DEF Represents
  <2>2. ~IsNormal(x) BY <2>1, NormalIsNotZero, Zenon
  <2>3. Exp(x) = 0
    <3>1. x \in Int /\ 0 <= x /\ x <= 65535 BY HalfRange, SMT
    <3>2. x % 32768 = 0 BY <2>1, SMT DEF IsZero
    <3>3. x = 0 \/ x = 32768 BY ONLY <3>1, <3>2, SMT
    <3> QED BY ONLY <3>3, SMT DEF Exp
  <2> QED BY <1>1, <2>3, Zenon DEF Scaled
<1>2. CASE n # 0
  <2>1. PICK i \in 0 .. 10, g \in PowersTo1024 :
          /\ Exp(x) = i + 11 /\ g = 2^(10 - i) /\ Mant(x) = Abs(n) * g
          /\ Mant(x) \in Mantissas /\ (Sign(x) = 1 <=> n < 0)
    BY <1>2, MantissaOf, Zenon
  <2>2. PICK a \in Nat, e \in 11 .. 21 : a = Abs(n) /\ e = Exp(x) /\ e = i + 11
    <3>1. Abs(n) \in Nat BY SMT DEF Abs
    <3>2. i + 11 \in 11 .. 21 OBVIOUS
    <3> QED BY <2>1, <3>1, <3>2, Zenon
  <2>3. n = Negated(Sign(x), a)
    <3>1. Sign(x) = 1 <=> n < 0 BY <2>1, Zenon
    <3> QED BY ONLY <2>2, <3>1, SMT DEF Negated, Abs
  <2>4. PICK m \in Nat : m = Mant(x) /\ m = a * g
    <3>1. a * g \in Nat BY ONLY SMT DEF PowersTo1024
    <3> QED BY <2>1, <2>2, <3>1, Zenon
  <2>5. m \div g = a
    <3>1. g = 1 => m \div g = a BY ONLY <2>4, SMT
    <3>2. g = 2 => m \div g = a BY ONLY <2>4, SMT
    <3>3. g = 4 => m \div g = a BY ONLY <2>4, SMT
    <3>4. g = 8 => m \div g = a BY ONLY <2>4, SMT
    <3>5. g = 16 => m \div g = a BY ONLY <2>4, SMT
    <3>6. g = 32 => m \div g = a BY ONLY <2>4, SMT
    <3>7. g = 64 => m \div g = a BY ONLY <2>4, SMT
    <3>8. g = 128 => m \div g = a BY ONLY <2>4, SMT
    <3>9. g = 256 => m \div g = a BY ONLY <2>4, SMT
    <3>10. g = 512 => m \div g = a BY ONLY <2>4, SMT
    <3>11. g = 1024 => m \div g = a BY ONLY <2>4, SMT
    <3> QED BY ONLY <3>1, <3>2, <3>3, <3>4, <3>5, <3>6, <3>7, <3>8, <3>9, <3>10, <3>11, SMT
            DEF PowersTo1024
  <2>6. CASE i = 10
    <3>1. 10 - i = 0 /\ e = 21 BY ONLY <2>2, <2>6, SMT
    <3>2. g = 1 BY <2>1, <3>1, PlaceZero, Zenon
    <3>3. e # 0 /\ e + 4 >= 25 /\ e + 4 - 25 = 0 BY ONLY <3>1, SMT
    <3>4. Scaled(x, 4) = Signed(x) * 2^0 BY <2>2, <3>3, Zenon DEF Scaled
    <3>5. Scaled(x, 4) = Signed(x) * 1 BY <3>4, PlaceZero, Zenon
    <3>6. Signed(x) = n BY ONLY <2>3, <2>4, <3>2, SMT DEF Signed, Negated
    <3> QED BY ONLY <3>5, <3>6, SMT
  <2>7. CASE i # 10
    <3>1. e # 0 /\ ~(e + 4 >= 25) /\ 25 - e - 4 = 10 - i BY ONLY <2>2, <2>7, SMT
    <3>2. Scaled(x, 4) = IF Sign(x) = 1 THEN -(Mant(x) \div 2 ^ (25 - e - 4))
                                        ELSE Mant(x) \div 2 ^ (25 - e - 4)
      BY <2>2, <3>1, Zenon DEF Scaled
    <3>3. Mant(x) \div 2 ^ (25 - e - 4) = a BY <2>1, <2>4, <2>5, <3>1, Zenon
    <3> QED BY ONLY <2>3, <3>2, <3>3, Zenon DEF Negated
  <2> QED BY <2>6, <2>7
<1> QED BY <1>1, <1>2

\* Scaled gives a whole number, of whatever word.
LEMMA ScaledInt ==
  ASSUME NEW x \in Half
  PROVE  Scaled(x, 2) \in Int
<1>1. PICK e \in Nat, m \in Nat : e = Exp(x) /\ m = Mant(x) /\ e <= 31
  BY Fields
<1>2. Signed(x) \in Int
  BY <1>1, SMT DEF Signed
<1>3. CASE e = 0
  BY <1>1, <1>3, SMT DEF Scaled
<1>4. CASE e # 0 /\ e + 2 >= 25
  <2>1. PICK k \in 0 .. 30 : k = e + 2 - 25 BY ONLY <1>1, <1>4, SMT
  <2>2. 2^k \in Nat BY PlaceInt, Zenon
  <2>3. PICK p \in Nat : p = 2^k BY <2>2
  <2>4. Scaled(x, 2) = Signed(x) * p BY <1>1, <1>4, <2>1, <2>3, Zenon DEF Scaled
  <2> QED BY ONLY <1>2, <2>4, SMT
<1>5. CASE e # 0 /\ ~(e + 2 >= 25)
  <2>1. PICK k \in 0 .. 22 : k = 25 - e - 2 BY ONLY <1>1, <1>5, SMT
  <2>2. PICK p \in Nat : p = 2^k /\ p > 0
    <3>1. k \in 0 .. 20 \/ k = 21 \/ k = 22 BY ONLY SMT
    <3>2. 2^21 = 2 * 2^20 /\ 2^22 = 2 * 2^21
      <4>1. 20 \in 0 .. 29 /\ 20 + 1 = 21 OBVIOUS
      <4>2. 2^(20 + 1) = 2 * 2^20 BY <4>1, PlacesAssumption
      <4>3. 21 \in 0 .. 29 /\ 21 + 1 = 22 OBVIOUS
      <4>4. 2^(21 + 1) = 2 * 2^21 BY <4>3, PlacesAssumption
      <4> QED BY <4>1, <4>2, <4>3, <4>4
    <3>3. ASSUME NEW j \in 0 .. 20 PROVE 2^j \in Nat /\ 2^j > 0
      <4>1. j \in 0 .. 30 OBVIOUS
      <4>2. PICK w \in Nat : w = 2^j
        <5>1. 2^j \in Nat BY <4>1, PlaceInt, Zenon
        <5> QED BY <5>1
      <4>3. w \in PowersTo1024 \/ Large(w) BY <4>2, PlaceSmallOrLarge, Zenon
      <4>4. w > 0 BY ONLY <4>3, SMT DEF PowersTo1024, Large
      <4> QED BY ONLY <4>2, <4>4
    <3>4. 20 \in 0 .. 20 OBVIOUS
    <3>5. 2^20 \in Nat /\ 2^20 > 0 BY <3>3, <3>4, Zenon
    <3>6. 2^21 \in Nat /\ 2^21 > 0 BY ONLY <3>2, <3>5, SMT
    <3>7. 2^22 \in Nat /\ 2^22 > 0 BY ONLY <3>2, <3>6, SMT
    <3>8. 2^k \in Nat /\ 2^k > 0 BY <3>1, <3>3, <3>6, <3>7, Zenon
    <3> QED BY ONLY <3>8
  <2>3. m \div p \in Int BY ONLY <2>2, SMT
  <2>4. Scaled(x, 2) = IF Sign(x) = 1 THEN -(m \div p) ELSE m \div p
    BY <1>1, <1>5, <2>1, <2>2, Zenon DEF Scaled
  <2> QED BY ONLY <2>3, <2>4, SMT
<1> QED BY <1>3, <1>4, <1>5
=============================================================================
