------------------------- MODULE AccelContractProofs -------------------------
(***************************************************************************)
(* Theorems about the control registers, for every N whose counts fit the  *)
(* 8-bit counter (N <= 84), and about the whole accelerator: it keeps its  *)
(* promise, whatever the bus carries and for every multiply-accumulate     *)
(* unit with the laws of MacLaws.  Safety only: that phases end is left to *)
(* TLC.                                                                    *)
(***************************************************************************)
EXTENDS AccelContract, AccelInvariant, MacLaws, WellFoundedInduction, TLAPS

-----------------------------------------------------------------------------
(***************************************************************************)
(* A tick that starts below the largest count does not wrap.               *)
(***************************************************************************)
LEMMA TickBounds ==
  ASSUME NEW c \in 0 .. CounterSize - 1
  PROVE  /\ Tick(c) \in 0 .. CounterSize - 1
         /\ c < CounterSize - 1 => Tick(c) = c + 1
  BY DEF Tick, CounterSize

LEMMA ZeroIsACount == 0 \in 0 .. CounterSize - 1
  BY DEF CounterSize

\* Neither phase lets the counter wrap.
LEMMA PhaseTick ==
  ASSUME CounterFits, ControlTypeOK, cycle_cnt < 3 * N + 2
  PROVE  /\ Tick(cycle_cnt) = cycle_cnt + 1
         /\ cycle_cnt \in Nat /\ N \in Nat /\ N > 0
<1>1. cycle_cnt \in 0 .. CounterSize - 1
  BY DEF ControlTypeOK
<1>2. cycle_cnt < CounterSize - 1 /\ cycle_cnt \in Nat /\ N \in Nat /\ N > 0
  BY <1>1, NAssumption DEF CounterFits, CounterSize
<1> QED
  BY <1>1, <1>2, TickBounds

(***************************************************************************)
(* The registers keep their widths under any bus, for every N.             *)
(***************************************************************************)
LEMMA EdgeType ==
  ASSUME ControlTypeOK, NEW cmd \in Command, ControlEdge(cmd)
  PROVE  ControlTypeOK'
<1>1. NextCount(cmd = "start") \in 0 .. CounterSize - 1
  <2>1. cycle_cnt \in 0 .. CounterSize - 1
    BY DEF ControlTypeOK
  <2>2. Tick(cycle_cnt) \in 0 .. CounterSize - 1
    BY <2>1, TickBounds
  <2> QED
    BY <2>1, <2>2, ZeroIsACount DEF NextCount
<1> QED
  BY <1>1
  DEF ControlTypeOK, ControlEdge, NextCalc, NextDrain, NextDone, NextStart

LEMMA ResetType == ControlReset => ControlTypeOK'
  BY ZeroIsACount DEF ControlReset, ControlTypeOK

(***************************************************************************)
(* No assignment leaves a control register outside its width.              *)
(***************************************************************************)
THEOREM ControlTypeCorrect == ControlSpec => []ControlTypeOK
<1>1. ControlInit => ControlTypeOK
  BY ZeroIsACount DEF ControlInit, ControlTypeOK
<1>2. ControlTypeOK /\ [ControlNext]_controlVars => ControlTypeOK'
  <2> SUFFICES ASSUME ControlTypeOK, [ControlNext]_controlVars
               PROVE  ControlTypeOK'
    OBVIOUS
  <2>1. CASE ControlReset
    BY <2>1, ResetType
  <2>2. CASE ClockEdge
    BY <2>2, EdgeType DEF ClockEdge
  <2>3. CASE UNCHANGED controlVars
    BY <2>3 DEF controlVars, ControlTypeOK
  <2> QED
    BY <2>1, <2>2, <2>3 DEF ControlNext
<1> QED
  BY <1>1, <1>2, PTL DEF ControlSpec

-----------------------------------------------------------------------------
(***************************************************************************)
(* What an edge does in each phase.  Where the counts fit, it is an        *)
(* increment or a change of phase; only in phase 1 does a START change     *)
(* nothing of it.                                                          *)
(***************************************************************************)
LEMMA CalcTick ==
  ASSUME CounterFits, ControlTypeOK, PhaseBounds,
         NEW cmd \in Command, ControlEdge(cmd), state_calc
  PROVE  /\ CalcLast => ~state_calc' /\ state_drain' /\ cycle_cnt' = 0
         /\ ~CalcLast => /\ state_calc' /\ ~state_drain'
                         /\ cycle_cnt' = cycle_cnt + 1
         /\ ctrl_done' => ctrl_done
<1>1. ~state_drain
  BY DEF PhaseBounds
<1>2. CalcLast => ~state_calc' /\ state_drain' /\ cycle_cnt' = 0
  BY <1>1
  DEF ControlEdge, NextCalc, NextDrain, NextDone, NextStart, NextCount,
      DrainLast
<1>3. ASSUME ~CalcLast
      PROVE  state_calc' /\ ~state_drain' /\ cycle_cnt' = cycle_cnt + 1
  <2>1. state_calc' /\ ~state_drain' /\ cycle_cnt' = Tick(cycle_cnt)
    BY <1>1, <1>3
    DEF ControlEdge, NextCalc, NextDrain, NextDone, NextStart, NextCount, Busy
  <2>2. cycle_cnt \in 0 .. CounterSize - 1 /\ cycle_cnt < CounterSize - 1
    BY <1>3, NAssumption
    DEF CalcLast, CounterFits, CounterSize, ControlTypeOK, PhaseBounds
  <2> QED
    BY <2>1, <2>2, TickBounds
<1>4. ctrl_done' => ctrl_done
  BY <1>1 DEF ControlEdge, NextCalc, NextDrain, NextDone, NextStart, DrainLast
<1> QED
  BY <1>2, <1>3, <1>4

LEMMA DrainTick ==
  ASSUME CounterFits, ControlTypeOK, PhaseBounds,
         NEW cmd \in Command, cmd # "start", ControlEdge(cmd), state_drain
  PROVE  /\ DrainLast => ~state_calc' /\ ~state_drain' /\ ctrl_done'
         /\ ~DrainLast => /\ state_drain' /\ ~state_calc'
                          /\ cycle_cnt' = cycle_cnt + 1
                          /\ ctrl_done' => ctrl_done
<1>1. ~state_calc
  BY DEF PhaseBounds
<1>2. DrainLast => ~state_calc' /\ ~state_drain' /\ ctrl_done'
  BY <1>1 DEF ControlEdge, NextCalc, NextDrain, NextDone, NextStart
<1>3. ASSUME ~DrainLast
      PROVE  /\ state_drain' /\ ~state_calc'
             /\ cycle_cnt' = cycle_cnt + 1
             /\ ctrl_done' => ctrl_done
  <2>1. /\ state_drain' /\ ~state_calc' /\ cycle_cnt' = Tick(cycle_cnt)
        /\ ctrl_done' => ctrl_done
    BY <1>1, <1>3
    DEF ControlEdge, NextCalc, NextDrain, NextDone, NextStart, NextCount, Busy,
        CalcLast
  <2>2. cycle_cnt \in 0 .. CounterSize - 1 /\ cycle_cnt < CounterSize - 1
    BY NAssumption DEF CounterFits, CounterSize, ControlTypeOK, PhaseBounds
  <2> QED
    BY <2>1, <2>2, TickBounds
<1> QED
  BY <1>2, <1>3

LEMMA IdleTick ==
  ASSUME NEW cmd \in Command, ControlEdge(cmd), ~Busy
  PROVE  /\ cmd = "start" => /\ state_calc' /\ ~state_drain'
                             /\ cycle_cnt' = 0 /\ ~ctrl_done'
         /\ cmd # "start" => /\ ~state_calc' /\ ~state_drain'
                             /\ ctrl_done' => ctrl_done
BY DEF ControlEdge, NextCalc, NextDrain, NextDone, NextStart, NextCount, Busy,
       CalcLast, DrainLast

-----------------------------------------------------------------------------
(***************************************************************************)
(* PhaseBounds and StartBitMeansBusy are inductive together with the type  *)
(* invariant, under any bus.                                               *)
(***************************************************************************)
ControlInv == ControlTypeOK /\ PhaseBounds /\ StartBitMeansBusy

LEMMA EdgePhases ==
  ASSUME CounterFits, ControlTypeOK, PhaseBounds,
         NEW cmd \in Command, ControlEdge(cmd)
  PROVE  PhaseBounds'
<1> DEFINE go == cmd = "start"
<1>1. ~(state_calc' /\ state_drain')
  BY DEF PhaseBounds, ControlEdge, NextCalc, NextDrain, NextDone, NextStart,
         CalcLast, DrainLast, ControlTypeOK
<1>2. ASSUME state_calc' PROVE cycle_cnt' <= 3 * N + 2
  <2>1. CASE state_calc
    <3>1. ~state_drain /\ cycle_cnt # 3 * N + 2 /\ cycle_cnt <= 3 * N + 2
      BY <1>2, <2>1
      DEF PhaseBounds, ControlEdge, NextCalc, NextDrain, NextDone, NextStart,
          CalcLast
    <3>2. cycle_cnt' = Tick(cycle_cnt)
      BY <3>1, <2>1
      DEF ControlEdge, NextCalc, NextDrain, NextDone, NextStart, NextCount,
          CalcLast, Busy
    <3>3. cycle_cnt < 3 * N + 2
      BY <3>1, NAssumption DEF ControlTypeOK, CounterSize
    <3> QED
      BY <3>2, <3>3, PhaseTick
  <2>2. CASE ~state_calc /\ state_drain
    <3>1. cycle_cnt' = Tick(cycle_cnt) /\ cycle_cnt <= 2 * N
      BY <2>2
      DEF ControlEdge, NextCalc, NextDrain, NextDone, NextStart, NextCount,
          PhaseBounds, CalcLast, Busy
    <3>2. cycle_cnt < 3 * N + 2
      BY <3>1, NAssumption DEF ControlTypeOK, CounterSize
    <3> QED
      BY <3>1, <3>2, PhaseTick
  <2>3. CASE ~Busy
    <3>1. go
      BY <1>2, <2>3
      DEF ControlEdge, NextCalc, NextDrain, NextDone, NextStart, Busy
    <3>2. cycle_cnt' = 0
      BY <2>3, <3>1
      DEF ControlEdge, NextCalc, NextDrain, NextDone, NextStart, NextCount,
          CalcLast, Busy
    <3> QED
      BY <3>2, NAssumption
  <2> QED
    BY <2>1, <2>2, <2>3 DEF Busy
<1>3. ASSUME state_drain' PROVE cycle_cnt' <= 2 * N
  <2>1. CASE state_calc
    <3>1. CalcLast /\ ~state_drain
      BY <1>3, <2>1
      DEF ControlEdge, NextCalc, NextDrain, NextDone, NextStart, PhaseBounds
    <3>2. cycle_cnt' = 0
      BY <3>1
      DEF ControlEdge, NextCalc, NextDrain, NextDone, NextStart, NextCount,
          Busy
    <3> QED
      BY <3>2, NAssumption
  <2>2. CASE ~state_calc
    <3>1. state_drain /\ cycle_cnt # 2 * N /\ cycle_cnt <= 2 * N
      BY <1>3, <2>2
      DEF ControlEdge, NextCalc, NextDrain, NextDone, NextStart, PhaseBounds,
          CalcLast, DrainLast
    <3>2. cycle_cnt' = Tick(cycle_cnt)
      BY <3>1
      DEF ControlEdge, NextCalc, NextDrain, NextDone, NextStart, NextCount,
          Busy
    <3>3. cycle_cnt < 3 * N + 2
      BY <3>1, NAssumption DEF ControlTypeOK, CounterSize
    <3> QED
      BY <3>1, <3>2, <3>3, PhaseTick
  <2> QED
    BY <2>1, <2>2
<1> QED
  BY <1>1, <1>2, <1>3 DEF PhaseBounds

LEMMA ResetPhases == ControlReset => PhaseBounds' /\ StartBitMeansBusy'
  BY DEF ControlReset, PhaseBounds, StartBitMeansBusy

LEMMA EdgeStartBit ==
  ASSUME ControlTypeOK, PhaseBounds, StartBitMeansBusy,
         NEW cmd \in Command, ControlEdge(cmd)
  PROVE  StartBitMeansBusy'
BY DEF ControlTypeOK, PhaseBounds, StartBitMeansBusy, ControlEdge, NextCalc,
       NextDrain, NextDone, NextStart, Busy,
       CalcLast, DrainLast

LEMMA ControlInvStep ==
  ASSUME CounterFits, ControlInv, [ControlNext]_controlVars
  PROVE  ControlInv'
<1>1. CASE ControlReset
  BY <1>1, ResetType, ResetPhases DEF ControlInv
<1>2. CASE ClockEdge
  BY <1>2, EdgeType, EdgePhases, EdgeStartBit DEF ClockEdge, ControlInv
<1>3. CASE UNCHANGED controlVars
  BY <1>3 DEF controlVars, ControlInv, ControlTypeOK, PhaseBounds,
              StartBitMeansBusy, Busy
<1> QED
  BY <1>1, <1>2, <1>3 DEF ControlNext

LEMMA ControlInvInit == ControlInit => ControlInv
  BY ZeroIsACount
  DEF ControlInit, ControlInv, ControlTypeOK, PhaseBounds, StartBitMeansBusy

(***************************************************************************)
(* Whatever the bus writes, the phases exclude each other and no counter   *)
(* runs past the comparison that ends its phase.                           *)
(***************************************************************************)
THEOREM PhaseBoundsCorrect ==
  ASSUME CounterFits PROVE ControlSpec => []PhaseBounds
<1>1. ControlInit => ControlInv
  BY ControlInvInit
<1>2. ControlInv /\ [ControlNext]_controlVars => ControlInv'
  BY ControlInvStep
<1>3. ControlInv => PhaseBounds
  BY DEF ControlInv
<1> QED
  BY <1>1, <1>2, <1>3, PTL DEF ControlSpec

(***************************************************************************)
(* Whatever the bus writes, the START bit reads 1 only on a busy machine.  *)
(***************************************************************************)
THEOREM StartBitCorrect ==
  ASSUME CounterFits PROVE ControlSpec => []StartBitMeansBusy
<1>1. ControlInit => ControlInv
  BY ControlInvInit
<1>2. ControlInv /\ [ControlNext]_controlVars => ControlInv'
  BY ControlInvStep
<1>3. ControlInv => StartBitMeansBusy
  BY DEF ControlInv
<1> QED
  BY <1>1, <1>2, <1>3, PTL DEF ControlSpec

-----------------------------------------------------------------------------
(***************************************************************************)
(* The handshake is a restriction of what the bus may do, and under it     *)
(* DONE is never set on a busy machine.  The exclusion of the phases is    *)
(* what the induction needs: DONE is written by the drain phase alone.     *)
(***************************************************************************)
LEMMA HandshakeIsABus == HandshakeEdge => ClockEdge
  BY DEF HandshakeEdge, ClockEdge

LEMMA HandshakeKeepsDone ==
  ASSUME ControlInv, DoneMeansIdle, HandshakeEdge
  PROVE  DoneMeansIdle'
<1>1. PICK cmd \in Command : (cmd = "start" => ~Busy) /\ ControlEdge(cmd)
  BY DEF HandshakeEdge
<1> QED
  BY <1>1
  DEF ControlInv, PhaseBounds, DoneMeansIdle, ControlEdge, NextCalc, NextDrain,
      NextDone, NextStart, Busy,
              CalcLast, DrainLast

(***************************************************************************)
(* DONE of an idle machine only, when START is written to idle machines.   *)
(***************************************************************************)
THEOREM DoneMeansIdleCorrect ==
  ASSUME CounterFits PROVE HandshakeSpec => []DoneMeansIdle
<1> DEFINE Inv == ControlInv /\ DoneMeansIdle
<1>1. ControlInit => Inv
  BY ControlInvInit DEF ControlInit, DoneMeansIdle, Busy
<1>2. Inv /\ [ControlReset \/ HandshakeEdge]_controlVars => Inv'
  <2> SUFFICES ASSUME Inv, [ControlReset \/ HandshakeEdge]_controlVars
               PROVE  Inv'
    OBVIOUS
  <2>1. ControlInv'
    BY ControlInvStep, HandshakeIsABus DEF ControlNext
  <2>2. CASE ControlReset
    BY <2>1, <2>2 DEF ControlReset, DoneMeansIdle
  <2>3. CASE HandshakeEdge
    BY <2>1, <2>3, HandshakeKeepsDone
  <2>4. CASE UNCHANGED controlVars
    BY <2>1, <2>4 DEF controlVars, DoneMeansIdle, Busy
  <2> QED
    BY <2>2, <2>3, <2>4
<1>3. Inv => DoneMeansIdle
  OBVIOUS
<1> QED
  BY <1>1, <1>2, <1>3, PTL DEF HandshakeSpec

-----------------------------------------------------------------------------
(***************************************************************************)
(* The device.  First, lemmas about the operators its specification is     *)
(* built from: the flat index of a matrix entry, and the partial dot       *)
(* products.                                                               *)
(***************************************************************************)

(***************************************************************************)
(* The cells of different entries are different, and all are cells.        *)
(***************************************************************************)
LEMMA IdxIsCell ==
  ASSUME NEW i \in Lane, NEW j \in Lane
  PROVE  Idx(i, j) \in Cell
<1>1. i \in 0 .. N - 1 /\ j \in 0 .. N - 1 /\ N \in Nat
  BY NAssumption DEF Lane
<1>2. i * N \in Nat /\ N * N \in Nat
  BY <1>1
<1>3. i * N <= (N - 1) * N
  BY <1>1
<1>4. (N - 1) * N = N * N - N
  BY <1>1
<1> QED
  BY <1>1, <1>2, <1>3, <1>4 DEF Idx, Cell

LEMMA IdxInjective ==
  ASSUME NEW i \in Lane, NEW j \in Lane, NEW r \in Lane, NEW c \in Lane,
         Idx(i, j) = Idx(r, c)
  PROVE  i = r /\ j = c
<1> USE NAssumption DEF Lane
<1>1. ASSUME NEW x \in Lane, NEW y \in Lane, x < y
      PROVE  x * N + N <= y * N
  <2>1. (x + 1) * N <= y * N
    BY <1>1
  <2>2. (x + 1) * N = x * N + N
    OBVIOUS
  <2> QED
    BY <2>1, <2>2
<1>2. i * N + j = r * N + c /\ i * N \in Nat /\ r * N \in Nat
  BY DEF Idx
<1>3. ~ (i < r) /\ ~ (r < i)
  BY <1>1, <1>2
<1>4. i = r
  BY <1>3
<1> QED
  BY <1>2, <1>4

LEMMA RowOfIdx ==
  ASSUME NEW i \in Lane, NEW j \in Lane
  PROVE  RowOf(Idx(i, j)) = i /\ ColOf(Idx(i, j)) = j
<1>1. RowOf(Idx(i, j)) = i
  BY IdxInjective DEF RowOf
<1>2. ColOf(Idx(i, j)) = j
  BY IdxInjective DEF ColOf
<1> QED
  BY <1>1, <1>2

-----------------------------------------------------------------------------
(***************************************************************************)
(* Every cell is the cell of an entry.                                     *)
(***************************************************************************)
LEMMA CellIsIdx ==
  ASSUME NEW c \in Cell
  PROVE  \E i \in Lane, j \in Lane : c = Idx(i, j)
<1> DEFINE q == c \div N
           r == c % N
<1>1. c \in Nat /\ c < N * N /\ N \in Nat /\ N > 0
  BY NAssumption DEF Cell
<1>2. q \in Nat /\ r \in 0 .. N - 1 /\ c = q * N + r
  BY <1>1
<1>3. q < N
  BY <1>1, <1>2
<1>4. q \in Lane /\ r \in Lane /\ c = Idx(q, r)
  BY <1>1, <1>2, <1>3 DEF Idx, Lane
<1> HIDE DEF q, r
<1> QED
  BY <1>4

-----------------------------------------------------------------------------
(***************************************************************************)
(* Induction on the natural numbers for a set, from the existence of a     *)
(* least element in every nonempty set of them.                            *)
(***************************************************************************)
LEMMA SetInduction ==
  ASSUME NEW S, 0 \in S, \A n \in Nat : n \in S => n + 1 \in S
  PROVE  Nat \subseteq S
<1> DEFINE T == Nat \ S
<1> SUFFICES ASSUME T # {} PROVE FALSE
  OBVIOUS
<1>1. PICK x \in T : \A y \in T : ~ (<<y, x>> \in OpToRel(<, Nat))
  BY WFMin, NatLessThanWellFounded
<1>2. x \in Nat /\ x # 0
  BY <1>1
<1>3. x - 1 \in Nat /\ x - 1 < x
  BY <1>2
<1>4. <<x - 1, x>> \in OpToRel(<, Nat)
  BY <1>2, <1>3 DEF OpToRel
<1>5. x - 1 \in S
  BY <1>1, <1>3, <1>4
<1>6. (x - 1) + 1 \in S
  BY <1>3, <1>5
<1>7. x \notin S
  OBVIOUS
<1>8. (x - 1) + 1 = x
  BY <1>2
<1> QED
  BY <1>6, <1>7, <1>8

-----------------------------------------------------------------------------
(***************************************************************************)
(* Sums of products on top of acc, which is 0 for PartialDot, are well     *)
(* defined: a function that satisfies the equations up to n extends to     *)
(* n + 1; with one up to N there is a function for CHOOSE to find.         *)
(***************************************************************************)
SumsUpTo(row, col, acc, n, s) ==
  s = [k \in 0 .. n |->
         IF k = 0 THEN acc ELSE Mac(row[k - 1], col[k - 1], s[k - 1])]

LEMMA SumsExtend ==
  ASSUME NEW row, NEW col, NEW acc, NEW n \in Nat, NEW s, SumsUpTo(row, col, acc, n, s)
  PROVE  \E t : SumsUpTo(row, col, acc, n + 1, t)
<1> DEFINE t == [k \in 0 .. n + 1 |->
                   IF k = n + 1 THEN Mac(row[n], col[n], s[n]) ELSE s[k]]
           u == [k \in 0 .. n + 1 |->
                   IF k = 0 THEN acc ELSE Mac(row[k - 1], col[k - 1], t[k - 1])]
<1>1. ASSUME NEW k \in 0 .. n
      PROVE  s[k] = IF k = 0 THEN acc ELSE Mac(row[k - 1], col[k - 1], s[k - 1])
  BY DEF SumsUpTo
<1>2. ASSUME NEW k \in 0 .. n + 1, k # 0
      PROVE  t[k - 1] = s[k - 1]
  <2>1. k - 1 \in 0 .. n + 1 /\ k - 1 # n + 1
    BY <1>2
  <2> QED
    BY <2>1
<1>3. ASSUME NEW k \in 0 .. n + 1
      PROVE  t[k] = u[k]
  <2>1. CASE k = n + 1
    <3>1. k - 1 = n /\ k # 0
      BY <2>1
    <3>2. u[k] = Mac(row[n], col[n], t[k - 1])
      BY <3>1
    <3> QED
      BY <2>1, <3>1, <3>2, <1>2
  <2>2. CASE k # n + 1
    <3>1. k \in 0 .. n /\ t[k] = s[k]
      BY <2>2
    <3>2. CASE k = 0
      BY <3>1, <3>2, <1>1
    <3>3. CASE k # 0
      BY <3>1, <3>3, <1>1, <1>2
    <3> QED
      BY <3>2, <3>3
  <2> QED
    BY <2>1, <2>2
<1>4. t = u
  <2> HIDE DEF t
  <2>1. t = [k \in 0 .. n + 1 |-> t[k]]
    BY DEF t
  <2> QED
    BY <1>3, <2>1
<1> QED
  BY <1>4 DEF SumsUpTo

LEMMA SumsExist ==
  ASSUME NEW row, NEW col, NEW acc, NEW n \in Nat
  PROVE  \E s : SumsUpTo(row, col, acc, n, s)
<1> DEFINE S == {m \in Nat : \E s : SumsUpTo(row, col, acc, m, s)}
<1>1. 0 \in S
  <2> DEFINE z == [k \in 0 .. 0 |-> acc]
  <2>1. z = [k \in 0 .. 0 |->
               IF k = 0 THEN acc ELSE Mac(row[k - 1], col[k - 1], z[k - 1])]
    OBVIOUS
  <2> QED
    BY <2>1 DEF SumsUpTo
<1>2. \A m \in Nat : m \in S => m + 1 \in S
  BY SumsExtend
<1> HIDE DEF S
<1>3. n \in S
  BY <1>1, <1>2, SetInduction
<1> QED
  BY <1>3 DEF S

(***************************************************************************)
(* The equations of PartialDot, the only facts the other proofs use of it. *)
(***************************************************************************)
LEMMA PartialDotIs ==
  ASSUME NEW row, NEW col
  PROVE  SumsUpTo(row, col, 0, N, PartialDot(row, col))
<1>1. PartialDot(row, col) = CHOOSE s : SumsUpTo(row, col, 0, N, s)
  BY DEF PartialDot, SumsUpTo
<1>2. \E s : SumsUpTo(row, col, 0, N, s)
  BY SumsExist, NAssumption
<1> QED
  BY <1>1, <1>2, Zenon

LEMMA PartialDotZero ==
  ASSUME NEW row, NEW col
  PROVE  PartialDot(row, col)[0] = 0
BY PartialDotIs, NAssumption DEF SumsUpTo

LEMMA PartialDotNext ==
  ASSUME NEW row, NEW col, NEW k \in Lane
  PROVE  PartialDot(row, col)[k + 1] = Mac(row[k], col[k], PartialDot(row, col)[k])
<1>1. k + 1 \in 0 .. N /\ k + 1 # 0 /\ (k + 1) - 1 = k
  BY NAssumption DEF Lane
<1>2. SumsUpTo(row, col, 0, N, PartialDot(row, col))
  BY PartialDotIs
<1> QED
  BY <1>1, <1>2 DEF SumsUpTo

(***************************************************************************)
(* Partial dot products of words are words.                                *)
(***************************************************************************)
LEMMA PartialDotType ==
  ASSUME NEW row \in [Lane -> Word], NEW col \in [Lane -> Word],
         NEW n \in 0 .. N
  PROVE  PartialDot(row, col)[n] \in Word
<1> DEFINE S == {m \in Nat : m <= N => PartialDot(row, col)[m] \in Word}
<1>1. 0 \in S
  BY PartialDotZero, WordAssumption
<1>2. ASSUME NEW m \in Nat, m \in S
      PROVE  m + 1 \in S
  <2> SUFFICES ASSUME m + 1 <= N
               PROVE  PartialDot(row, col)[m + 1] \in Word
    OBVIOUS
  <2>1. m \in Lane /\ m <= N
    BY NAssumption DEF Lane
  <2>2. PartialDot(row, col)[m] \in Word
    BY <1>2, <2>1
  <2>3. row[m] \in Word /\ col[m] \in Word
    BY <2>1
  <2> QED
    BY <2>1, <2>2, <2>3, PartialDotNext, MacType
<1> HIDE DEF S
<1>3. n \in Nat /\ n <= N
  BY NAssumption
<1>4. n \in S
  BY <1>1, <1>2, <1>3, SetInduction
<1> QED
  BY <1>3, <1>4 DEF S

-----------------------------------------------------------------------------
(***************************************************************************)
(* A request as the control registers see it.                              *)
(***************************************************************************)
LEMMA CommandFacts ==
  ASSUME NEW req \in Request
  PROVE  /\ CommandOf(req) \in Command
         /\ CommandOf(req) = "start" <=> clr_pe_sig(req)
BY DEF CommandOf, Command, clr_pe_sig

-----------------------------------------------------------------------------
(***************************************************************************)
(* Types.  The mesh keeps words because its inputs are words: feeders,     *)
(* skew buffers, neighbours.                                               *)
(***************************************************************************)
LEMMA FeedType ==
  ASSUME AccelTypeOK, NEW g \in Lane
  PROVE  a_col_feed[g] \in Word /\ b_row_feed[g] \in Word
<1>1. CASE state_calc /\ cycle_cnt < N
  <2>1. cycle_cnt \in Lane
    BY <1>1, NAssumption DEF AccelTypeOK, ControlTypeOK, CounterSize, Lane
  <2>2. Idx(g, cycle_cnt) \in Cell /\ Idx(cycle_cnt, g) \in Cell
    BY <2>1, IdxIsCell
  <2>3. mem_A \in [Cell -> Word] /\ mem_B \in [Cell -> Word]
    BY DEF AccelTypeOK
  <2> QED
    BY <1>1, <2>2, <2>3 DEF a_col_feed, b_row_feed
<1>2. CASE ~(state_calc /\ cycle_cnt < N)
  BY <1>2, WordAssumption DEF a_col_feed, b_row_feed
<1> QED
  BY <1>1, <1>2

LEMMA SkewedType ==
  ASSUME AccelTypeOK, NEW g \in Lane
  PROVE  a_skewed[g] \in Word /\ b_skewed[g] \in Word
<1>1. CASE g = 0
  BY <1>1, FeedType DEF a_skewed, b_skewed, Skewed
<1>2. CASE g # 0
  <2>1. g \in DelayedLane /\ g - 1 \in 0 .. g - 1
    BY <1>2, NAssumption DEF Lane, DelayedLane
  <2>2. /\ delay_a[g] \in [0 .. g - 1 -> Word]
        /\ delay_b[g] \in [0 .. g - 1 -> Word]
    BY <2>1 DEF AccelTypeOK, SkewTypeOK
  <2>3. delay_a[g][g - 1] \in Word /\ delay_b[g][g - 1] \in Word
    BY <2>1, <2>2
  <2> QED
    BY <1>2, <2>3 DEF a_skewed, b_skewed, Skewed
<1> QED
  BY <1>1, <1>2

LEMMA InputType ==
  ASSUME AccelTypeOK, NEW i \in Lane, NEW j \in Lane
  PROVE  AIn(a_skewed, i, j) \in Word /\ BIn(b_skewed, i, j) \in Word
<1>1. /\ a_out \in [Lane -> [Lane -> Word]]
      /\ b_out \in [Lane -> [Lane -> Word]]
  BY DEF AccelTypeOK, ArrayTypeOK
<1>2. AIn(a_skewed, i, j) \in Word
  <2>1. CASE j = 0
    BY <2>1, SkewedType DEF AIn
  <2>2. CASE j # 0
    <3>1. j - 1 \in Lane
      BY <2>2, NAssumption DEF Lane
    <3> QED
      BY <1>1, <2>2, <3>1 DEF AIn
  <2> QED
    BY <2>1, <2>2
<1>3. BIn(b_skewed, i, j) \in Word
  <2>1. CASE i = 0
    BY <2>1, SkewedType DEF BIn
  <2>2. CASE i # 0
    <3>1. i - 1 \in Lane
      BY <2>2, NAssumption DEF Lane
    <3> QED
      BY <1>1, <2>2, <3>1 DEF BIn
  <2> QED
    BY <2>1, <2>2
<1> QED
  BY <1>2, <1>3

LEMMA EmptyMeshType == EmptyMesh \in [Lane -> [Lane -> Word]]
  BY WordAssumption DEF EmptyMesh

LEMMA EdgeArrayType ==
  ASSUME AccelTypeOK, NEW clr, NEW en, NEW drain_en,
         ArrayEdge(clr, en, drain_en, a_skewed, b_skewed)
  PROVE  ArrayTypeOK'
<1> DEFINE Mesh == [Lane -> [Lane -> Word]]
<1>1. a_out \in Mesh /\ b_out \in Mesh /\ c_reg \in Mesh
  BY DEF AccelTypeOK, ArrayTypeOK
<1>2. [i \in Lane |-> [j \in Lane |-> AIn(a_skewed, i, j)]] \in Mesh
  BY InputType
<1>3. [i \in Lane |-> [j \in Lane |-> BIn(b_skewed, i, j)]] \in Mesh
  BY InputType
<1>4. [i \in Lane |-> [j \in Lane |->
         Mac(AIn(a_skewed, i, j), BIn(b_skewed, i, j), c_reg[i][j])]] \in Mesh
  <2>1. ASSUME NEW i \in Lane, NEW j \in Lane
        PROVE  Mac(AIn(a_skewed, i, j), BIn(b_skewed, i, j), c_reg[i][j]) \in Word
    <3>1. c_reg[i][j] \in Word
      BY <1>1
    <3> QED
      BY <3>1, InputType, MacType
  <2> QED
    BY <2>1
<1> HIDE DEF Mesh
<1>5. ArrayEdge(clr, en, drain_en, a_skewed, b_skewed)
  OBVIOUS
<1>6. a_out' \in Mesh /\ b_out' \in Mesh /\ c_reg' \in Mesh
  <2>0. EmptyMesh \in Mesh
    BY EmptyMeshType DEF Mesh
  <2>1. CASE ArrayClear
    BY <2>0, <2>1 DEF ArrayClear
  <2>2. CASE UNCHANGED arrayVars
    BY <1>1, <2>2 DEF arrayVars
  <2>3. CASE ~ArrayClear /\ ~UNCHANGED arrayVars
    BY <1>1, <1>2, <1>3, <1>4, <1>5, <2>3 DEF ArrayEdge
  <2> QED
    BY <2>1, <2>2, <2>3
<1> QED
  BY <1>6 DEF ArrayTypeOK, Mesh

(***************************************************************************)
(* The skew buffers: the types, and the zeros that follow the operands     *)
(* through them (SkewTail), which leave them empty when phase 1 ends.      *)
(***************************************************************************)
LEMMA EdgeSkewType ==
  ASSUME AccelTypeOK, SkewEdge(state_calc, a_col_feed, b_row_feed)
  PROVE  SkewTypeOK'
<1>1. ASSUME NEW delay, NEW in,
             DOMAIN delay = DelayedLane,
             \A i \in DelayedLane : delay[i] \in [0 .. i - 1 -> Word],
             \A g \in Lane : in[g] \in Word
      PROVE  /\ DOMAIN Shifted(delay, in) = DelayedLane
             /\ \A i \in DelayedLane :
                  Shifted(delay, in)[i] \in [0 .. i - 1 -> Word]
  <2>1. ASSUME NEW i \in DelayedLane, NEW k \in 0 .. i - 1
        PROVE  (IF k = 0 THEN in[i] ELSE delay[i][k - 1]) \in Word
    <3>1. CASE k = 0
      <4>1. i \in Lane
        BY NAssumption DEF Lane, DelayedLane
      <4> QED
        BY <1>1, <3>1, <4>1
    <3>2. CASE k # 0
      <4>1. k - 1 \in 0 .. i - 1
        BY <3>2 DEF DelayedLane
      <4> QED
        BY <1>1, <3>2, <4>1
    <3> QED
      BY <3>1, <3>2
  <2> QED
    BY <2>1 DEF Shifted
<1>2. /\ DOMAIN delay_a = DelayedLane /\ DOMAIN delay_b = DelayedLane
      /\ \A i \in DelayedLane : /\ delay_a[i] \in [0 .. i - 1 -> Word]
                                /\ delay_b[i] \in [0 .. i - 1 -> Word]
  BY DEF AccelTypeOK, SkewTypeOK
<1>3. SkewEdge(state_calc, a_col_feed, b_row_feed)
  OBVIOUS
<1>4. CASE state_calc
  <2>1. /\ delay_a' = Shifted(delay_a, a_col_feed)
        /\ delay_b' = Shifted(delay_b, b_row_feed)
    BY <1>3, <1>4 DEF SkewEdge
  <2> QED
    BY <1>1, <1>2, <2>1, FeedType DEF SkewTypeOK
<1>5. CASE ~state_calc
  BY <1>2, <1>3, <1>5 DEF SkewEdge, SkewTypeOK
<1> QED
  BY <1>4, <1>5

LEMMA EmptyDelayFacts ==
  /\ DOMAIN EmptyDelay = DelayedLane
  /\ \A i \in DelayedLane : /\ EmptyDelay[i] \in [0 .. i - 1 -> Word]
                            /\ \A k \in 0 .. i - 1 : EmptyDelay[i][k] = 0
BY WordAssumption DEF EmptyDelay

PhaseOneTick ==
  state_calc => IF CalcLast THEN ~state_calc' ELSE state_calc' /\ cycle_cnt' = cycle_cnt + 1

LEMMA EdgeSkewFlushed ==
  ASSUME AccelTypeOK, SkewTail, SkewFlushed,
         SkewEdge(state_calc, a_col_feed, b_row_feed), PhaseOneTick
  PROVE  SkewTail' /\ SkewFlushed'
<1>1. SkewEdge(state_calc, a_col_feed, b_row_feed)
  OBVIOUS
<1>2. CASE ~state_calc
  <2>1. delay_a' = EmptyDelay /\ delay_b' = EmptyDelay
    BY <1>1, <1>2 DEF SkewEdge, SkewFlushed
  <2> QED
    BY <2>1, EmptyDelayFacts DEF SkewTail, SkewFlushed
<1>3. CASE state_calc
  <2>1. cycle_cnt \in Nat /\ N \in Nat
    BY NAssumption DEF AccelTypeOK, ControlTypeOK, CounterSize
  <2>2. /\ delay_a' = Shifted(delay_a, a_col_feed)
        /\ delay_b' = Shifted(delay_b, b_row_feed)
    BY <1>1, <1>3 DEF SkewEdge
  <2>3. ASSUME NEW i \in DelayedLane, NEW k \in 0 .. i - 1,
               cycle_cnt + 1 > N + k
        PROVE  delay_a'[i][k] = 0 /\ delay_b'[i][k] = 0
    <3>1. i \in Lane /\ k \in Nat
      BY NAssumption DEF Lane, DelayedLane
    <3>2. CASE k = 0
      <4>1. ~(cycle_cnt < N)
        BY <2>1, <2>3, <3>2
      <4>2. a_col_feed[i] = 0 /\ b_row_feed[i] = 0
        BY <3>1, <4>1 DEF a_col_feed, b_row_feed
      <4> QED
        BY <2>2, <3>2, <4>2 DEF Shifted
    <3>3. CASE k # 0
      <4>1. k - 1 \in 0 .. i - 1 /\ cycle_cnt > N + (k - 1)
        BY <2>1, <2>3, <3>1, <3>3 DEF DelayedLane
      <4>2. delay_a[i][k - 1] = 0 /\ delay_b[i][k - 1] = 0
        BY <1>3, <4>1 DEF SkewTail
      <4> QED
        BY <2>2, <3>3, <4>2 DEF Shifted
    <3> QED
      BY <3>2, <3>3
  <2>4. CASE CalcLast
    <3>1. cycle_cnt = 3 * N + 2 /\ ~state_calc'
      BY <2>4 DEF CalcLast, PhaseOneTick
    <3>2. ASSUME NEW i \in DelayedLane, NEW k \in 0 .. i - 1
          PROVE  delay_a'[i][k] = 0 /\ delay_b'[i][k] = 0
      <4>1. cycle_cnt + 1 > N + k
        BY <2>1, <3>1 DEF DelayedLane
      <4> QED
        BY <2>3, <4>1
    <3>3. delay_a' = EmptyDelay
      <4>1. delay_a' = [i \in DelayedLane |-> [k \in 0 .. i - 1 |-> delay_a'[i][k]]]
        BY <2>2 DEF Shifted
      <4> QED
        BY <3>2, <4>1 DEF EmptyDelay
    <3>4. delay_b' = EmptyDelay
      <4>1. delay_b' = [i \in DelayedLane |-> [k \in 0 .. i - 1 |-> delay_b'[i][k]]]
        BY <2>2 DEF Shifted
      <4> QED
        BY <3>2, <4>1 DEF EmptyDelay
    <3> QED
      BY <3>1, <3>3, <3>4 DEF SkewTail, SkewFlushed
  <2>5. CASE ~CalcLast
    <3>1. state_calc' /\ cycle_cnt' = cycle_cnt + 1
      BY <1>3, <2>5 DEF PhaseOneTick
    <3> QED
      BY <2>3, <3>1 DEF SkewTail, SkewFlushed
  <2> QED
    BY <2>4, <2>5
<1> QED
  BY <1>2, <1>3

-----------------------------------------------------------------------------
(***************************************************************************)
(* The memories and the history variables.                                 *)
(***************************************************************************)
LEMMA BusWriteType ==
  ASSUME AccelTypeOK, NEW req \in Request, BusWrite(req)
  PROVE  mem_A' \in [Cell -> Word] /\ mem_B' \in [Cell -> Word]
<1>1. mem_A \in [Cell -> Word] /\ mem_B \in [Cell -> Word]
  BY DEF AccelTypeOK
<1>2. req.data \in Word
  BY DEF Request
<1> QED
  BY <1>1, <1>2 DEF BusWrite

\* The control register is in neither window: a START writes no operand.
LEMMA StartWritesNoOperand ==
  ASSUME NEW req \in Request, clr_pe_sig(req), BusWrite(req)
  PROVE  mem_A' = mem_A /\ mem_B' = mem_B
<1>1. req.address = 0
  BY DEF clr_pe_sig, WritesCtrl, CTRL
<1>2. 0 \notin Window(MEM_A) /\ 0 \notin Window(MEM_B)
  BY NAssumption DEF Window, MEM_A, MEM_B
<1> QED
  BY <1>1, <1>2 DEF BusWrite

LEMMA EdgeMemType ==
  ASSUME AccelTypeOK, NEW req \in Request, AccelEdge(req)
  PROVE  /\ mem_A' \in [Cell -> Word]
         /\ mem_B' \in [Cell -> Word]
         /\ mem_C' \in [Cell -> Word]
         /\ avs_readdata' \in Word \cup 0 .. 3
<1>1. /\ mem_A \in [Cell -> Word] /\ mem_B \in [Cell -> Word]
      /\ mem_C \in [Cell -> Word] /\ avs_readdata \in Word \cup 0 .. 3
      /\ a_out \in [Lane -> [Lane -> Word]]
  BY DEF AccelTypeOK, ArrayTypeOK
<1>2. req.data \in Word /\ req.address \in Nat
  <2>1. req.data \in Word /\ req.address \in Address
    BY DEF Request
  <2>2. \A a \in Address : a \in Nat
    BY DEF Address
  <2> QED
    BY <2>1, <2>2
<1>3. BusWrite(req) /\ BusRead(req) /\ Capture
  BY DEF AccelEdge
<1>4. mem_A' \in [Cell -> Word] /\ mem_B' \in [Cell -> Word]
  BY <1>3, BusWriteType
<1>5. mem_C' \in [Cell -> Word]
  <2>1. ASSUME NEW c \in Cell, CaptureNow, ColOf(c) = CaptureCol
        PROVE  c_right_out(RowOf(c)) \in Word
    <3>1. PICK i \in Lane, j \in Lane : c = Idx(i, j)
      BY CellIsIdx
    <3>2. RowOf(c) \in Lane /\ N - 1 \in Lane
      BY <3>1, RowOfIdx, NAssumption DEF Lane
    <3> QED
      BY <1>1, <3>2 DEF c_right_out
  <2> QED
    BY <1>1, <1>3, <2>1 DEF Capture
<1>6. avs_readdata' \in Word \cup 0 .. 3
  <2>1. ReadValue(req.address) \in Word \cup 0 .. 3
    <3>1. StatusWord \in 0 .. 3
      BY DEF StatusWord
    <3>2. ASSUME req.address \in Window(MEM_C)
          PROVE  mem_C[req.address - MEM_C] \in Word
      <4>1. req.address - MEM_C \in Cell
        BY <1>2, <3>2, NAssumption DEF Window, MEM_C, Cell
      <4> QED
        BY <1>1, <4>1
    <3>3. 0 \in Word
      BY WordAssumption
    <3> QED
      BY <3>1, <3>2, <3>3 DEF ReadValue
  <2> QED
    BY <1>1, <1>3, <2>1 DEF BusRead
<1> QED
  BY <1>4, <1>5, <1>6

LEMMA EdgeAccelType ==
  ASSUME AccelTypeOK, NEW req \in Request, AccelEdge(req)
  PROVE  AccelTypeOK'
<1>1. ControlTypeOK'
  BY CommandFacts, EdgeType DEF AccelEdge, AccelTypeOK
<1>2. SkewTypeOK'
  BY EdgeSkewType DEF AccelEdge
<1>3. ArrayTypeOK'
  BY EdgeArrayType DEF AccelEdge
<1> QED
  BY <1>1, <1>2, <1>3, EdgeMemType DEF AccelTypeOK

LEMMA EdgeHistoryType ==
  ASSUME AccelTypeOK, HistoryTypeOK, NEW req \in Request, HostEdge(req)
  PROVE  HistoryTypeOK'
<1>1. opA' \in [Cell -> Word] /\ opB' \in [Cell -> Word]
  BY DEF HostEdge, HistoryTypeOK, AccelTypeOK
<1>2. clean' \in BOOLEAN
  BY DEF HostEdge, HistoryTypeOK
<1> QED
  BY <1>1, <1>2 DEF HistoryTypeOK

-----------------------------------------------------------------------------
(***************************************************************************)
(* The six ways in which a run can be clean after an edge: it begins, it   *)
(* goes on, passes from one phase to the other, drains, ends, is over.     *)
(***************************************************************************)
Begins(req) ==
  /\ ~Busy /\ clr_pe_sig(req)
  /\ opA' = mem_A /\ opB' = mem_B
  /\ state_calc' /\ ~state_drain' /\ cycle_cnt' = 0 /\ ~ctrl_done'

Undisturbed(req) ==
  clean /\ ~clr_pe_sig(req) /\ ~Disturbs /\ opA' = opA /\ opB' = opB

GoesOn ==
  /\ state_calc /\ ~CalcLast
  /\ state_calc' /\ ~state_drain' /\ cycle_cnt' = cycle_cnt + 1 /\ ~ctrl_done'

TurnsRound ==
  /\ state_calc /\ CalcLast
  /\ ~state_calc' /\ state_drain' /\ cycle_cnt' = 0 /\ ~ctrl_done'

Drains ==
  /\ state_drain /\ ~DrainLast
  /\ ~state_calc' /\ state_drain' /\ cycle_cnt' = cycle_cnt + 1 /\ ~ctrl_done'

Ends == DrainLast /\ ~state_calc' /\ ~state_drain'

IsOver == ~Busy /\ ~state_calc' /\ ~state_drain' /\ (ctrl_done' => ctrl_done)

LEMMA CleanCases ==
  ASSUME CounterFits, ContractInv, NEW req \in Request, HostEdge(req), clean'
  PROVE  \/ Begins(req)
         \/ Undisturbed(req) /\ (GoesOn \/ TurnsRound \/ Drains \/ Ends \/ IsOver)
<1> DEFINE cmd == CommandOf(req)
<1>1. /\ cmd \in Command /\ (cmd = "start" <=> clr_pe_sig(req))
      /\ ControlEdge(cmd)
  BY CommandFacts DEF HostEdge, AccelEdge
<1>2. /\ clean' = IF clr_pe_sig(req) THEN ~Busy ELSE clean /\ ~Disturbs
      /\ opA' = IF clr_pe_sig(req) /\ ~Busy THEN mem_A ELSE opA
      /\ opB' = IF clr_pe_sig(req) /\ ~Busy THEN mem_B ELSE opB
  BY DEF HostEdge
<1>3. ControlTypeOK /\ PhaseBounds /\ CleanDone
  BY DEF ContractInv, AccelTypeOK, RunAligned
<1> HIDE DEF cmd
<1>4. CASE clr_pe_sig(req)
  <2>1. ~Busy /\ opA' = mem_A /\ opB' = mem_B
    BY <1>2, <1>4
  <2> QED
    BY <1>1, <1>4, <2>1, IdleTick DEF Begins
<1>5. CASE ~clr_pe_sig(req)
  <2>1. Undisturbed(req)
    BY <1>2, <1>5 DEF Undisturbed
  <2>2. clean
    BY <2>1 DEF Undisturbed
  <2>3. CASE state_calc
    <3>1. ~ctrl_done
      BY <1>3, <2>2, <2>3 DEF CleanDone, Busy
    <3> QED
      BY <1>1, <1>3, <2>1, <2>3, <3>1, CalcTick DEF GoesOn, TurnsRound
  <2>4. CASE state_drain
    <3>1. ~ctrl_done
      BY <1>3, <2>2, <2>4 DEF CleanDone, Busy
    <3> QED
      BY <1>1, <1>3, <1>5, <2>1, <2>4, <3>1, DrainTick DEF Drains, Ends
  <2>5. CASE ~Busy
    BY <1>1, <1>5, <2>1, <2>5, IdleTick DEF IsOver
  <2> QED
    BY <2>3, <2>4, <2>5 DEF Busy
<1> QED
  BY <1>4, <1>5

-----------------------------------------------------------------------------
\* Everything the alignment says of a clean run; SkewTail is of any run.
Aligned ==
  /\ CleanDone /\ OperandsKept /\ SkewAligned /\ MeshAligned
  /\ DrainAligned /\ Captured /\ ResultCorrect

(***************************************************************************)
(* A run begins: the array is cleared, the buffers were empty already.     *)
(***************************************************************************)
LEMMA BeginAligned ==
  ASSUME ContractInv, NEW req \in Request, HostEdge(req), Begins(req)
  PROVE  Aligned'
<1>1. /\ ~Busy /\ clr_pe_sig(req) /\ opA' = mem_A /\ opB' = mem_B
      /\ state_calc' /\ ~state_drain' /\ cycle_cnt' = 0 /\ ~ctrl_done'
  BY DEF Begins
<1>2. mem_A' = mem_A /\ mem_B' = mem_B
  BY <1>1, StartWritesNoOperand DEF HostEdge, AccelEdge
<1>3. ASSUME NEW i \in DelayedLane, NEW k \in 0 .. i - 1
      PROVE  delay_a'[i][k] = 0 /\ delay_b'[i][k] = 0
  <2>1. delay_a' = EmptyDelay /\ delay_b' = EmptyDelay
    BY <1>1 DEF HostEdge, AccelEdge, SkewEdge, Busy, ContractInv, SkewFlushed
  <2> QED
    BY <2>1, EmptyDelayFacts
<1>4. ASSUME NEW i \in Lane, NEW j \in Lane
      PROVE  a_out'[i][j] = 0 /\ b_out'[i][j] = 0 /\ c_reg'[i][j] = 0
  <2>1. ArrayClear
    BY <1>1 DEF HostEdge, AccelEdge, ArrayEdge
  <2> QED
    BY <2>1 DEF ArrayClear, EmptyMesh
<1>5. OperandsKept'
  BY <1>1, <1>2 DEF OperandsKept
<1>6. SkewAligned'
  <2>1. ASSUME NEW i \in DelayedLane, NEW k \in 0 .. i - 1
        PROVE  cycle_cnt' - 1 - k \notin Lane
    BY <1>1 DEF Lane, DelayedLane
  <2> QED
    BY <1>3, <2>1 DEF SkewAligned, FedA, FedB
<1>7. MeshAligned'
  <2>1. ASSUME NEW i \in Lane, NEW j \in Lane
        PROVE  cycle_cnt' - 1 - i - j \notin Lane /\ Terms(cycle_cnt' - i - j) = 0
    BY <1>1, NAssumption DEF Lane, Terms
  <2>2. ASSUME NEW i \in Lane, NEW j \in Lane
        PROVE  Sum(i, j)'[0] = 0
    BY PartialDotZero DEF Sum
  <2>3. ASSUME NEW i \in Lane, NEW j \in Lane
        PROVE  /\ FedA(i, cycle_cnt - 1 - i - j)' = 0
               /\ FedB(j, cycle_cnt - 1 - i - j)' = 0
    BY <2>1 DEF FedA, FedB
  <2>4. ASSUME NEW i \in Lane, NEW j \in Lane
        PROVE  (Sum(i, j)[Terms(cycle_cnt - i - j)])' = 0
    <3>1. Terms(cycle_cnt - i - j)' = 0
      BY <2>1 DEF Terms
    <3> QED
      BY <2>2, <3>1
  <2> QED
    BY <1>4, <2>3, <2>4 DEF MeshAligned
<1> QED
  BY <1>1, <1>5, <1>6, <1>7
  DEF Aligned, CleanDone, DrainAligned, Captured, ResultCorrect

-----------------------------------------------------------------------------
(***************************************************************************)
(* Phase 1 of a clean run: operand k of row i and of column j arrive at    *)
(* element (i, j) together, in cycle k + i + j.                            *)
(***************************************************************************)
LEMMA FeedAligned ==
  ASSUME ContractInv, clean, state_calc, NEW g \in Lane
  PROVE  /\ a_col_feed[g] = FedA(g, cycle_cnt)
         /\ b_row_feed[g] = FedB(g, cycle_cnt)
<1>1. cycle_cnt \in Nat /\ N \in Nat
  BY NAssumption
  DEF ContractInv, AccelTypeOK, ControlTypeOK, CounterSize
<1>2. CASE cycle_cnt < N
  <2>1. cycle_cnt \in Lane
    BY <1>1, <1>2 DEF Lane
  <2>2. /\ mem_A[Idx(g, cycle_cnt)] = opA[Idx(g, cycle_cnt)]
        /\ mem_B[Idx(cycle_cnt, g)] = opB[Idx(cycle_cnt, g)]
    <3>1. OperandsKept
      BY DEF ContractInv, RunAligned
    <3>2. cycle_cnt >= cycle_cnt
      BY <1>1
    <3> QED
      BY <2>1, <3>1, <3>2 DEF OperandsKept
  <2> QED
    BY <1>2, <2>1, <2>2 DEF a_col_feed, b_row_feed, FedA, FedB
<1>3. CASE ~(cycle_cnt < N)
  <2>1. cycle_cnt \notin Lane
    BY <1>1, <1>3 DEF Lane
  <2> QED
    BY <1>3, <2>1 DEF a_col_feed, b_row_feed, FedA, FedB
<1> QED
  BY <1>2, <1>3

LEMMA InputsAligned ==
  ASSUME ContractInv, clean, state_calc, NEW i \in Lane, NEW j \in Lane
  PROVE  /\ AIn(a_skewed, i, j) = FedA(i, cycle_cnt - i - j)
         /\ BIn(b_skewed, i, j) = FedB(j, cycle_cnt - i - j)
<1>1. cycle_cnt \in Nat /\ N \in Nat /\ i \in Nat /\ j \in Nat
  BY NAssumption
  DEF ContractInv, AccelTypeOK, ControlTypeOK, CounterSize, Lane
<1>2. ASSUME NEW g \in Lane
      PROVE  /\ a_skewed[g] = FedA(g, cycle_cnt - g)
             /\ b_skewed[g] = FedB(g, cycle_cnt - g)
  <2>1. CASE g = 0
    <3>1. a_skewed[g] = a_col_feed[g] /\ b_skewed[g] = b_row_feed[g]
      BY <2>1 DEF a_skewed, b_skewed, Skewed
    <3>2. cycle_cnt - g = cycle_cnt
      BY <1>1, <2>1
    <3> QED
      BY <3>1, <3>2, FeedAligned
  <2>2. CASE g # 0
    <3>1. g \in DelayedLane /\ g - 1 \in 0 .. g - 1
      BY <2>2, NAssumption DEF Lane, DelayedLane
    <3>2. cycle_cnt - 1 - (g - 1) = cycle_cnt - g
      BY <1>1, <3>1 DEF DelayedLane
    <3>3. /\ delay_a[g][g - 1] = FedA(g, cycle_cnt - 1 - (g - 1))
          /\ delay_b[g][g - 1] = FedB(g, cycle_cnt - 1 - (g - 1))
      BY <3>1 DEF ContractInv, RunAligned, SkewAligned
    <3> QED
      BY <2>2, <3>2, <3>3 DEF a_skewed, b_skewed, Skewed
  <2> QED
    BY <2>1, <2>2
<1>3. ASSUME NEW r \in Lane, NEW c \in Lane
      PROVE  /\ a_out[r][c] = FedA(r, cycle_cnt - 1 - r - c)
             /\ b_out[r][c] = FedB(c, cycle_cnt - 1 - r - c)
  BY DEF ContractInv, RunAligned, MeshAligned
<1>4. AIn(a_skewed, i, j) = FedA(i, cycle_cnt - i - j)
  <2>1. CASE j = 0
    <3>1. cycle_cnt - i - j = cycle_cnt - i
      BY <1>1, <2>1
    <3> QED
      BY <1>2, <2>1, <3>1 DEF AIn
  <2>2. CASE j # 0
    <3>1. j - 1 \in Lane /\ cycle_cnt - 1 - i - (j - 1) = cycle_cnt - i - j
      BY <1>1, <2>2 DEF Lane
    <3> QED
      BY <1>3, <2>2, <3>1 DEF AIn
  <2> QED
    BY <2>1, <2>2
<1>5. BIn(b_skewed, i, j) = FedB(j, cycle_cnt - i - j)
  <2>1. CASE i = 0
    <3>1. cycle_cnt - i - j = cycle_cnt - j
      BY <1>1, <2>1
    <3> QED
      BY <1>2, <2>1, <3>1 DEF BIn
  <2>2. CASE i # 0
    <3>1. i - 1 \in Lane /\ cycle_cnt - 1 - (i - 1) - j = cycle_cnt - i - j
      BY <1>1, <2>2 DEF Lane
    <3> QED
      BY <1>3, <2>2, <3>1 DEF BIn
  <2> QED
    BY <2>1, <2>2
<1> QED
  BY <1>4, <1>5

(***************************************************************************)
(* One product more for the elements whose operands arrive; a product of   *)
(* zeros, which changes nothing, for those that wait or are finished.      *)
(***************************************************************************)
LEMMA SumType ==
  ASSUME HistoryTypeOK, NEW i \in Lane, NEW j \in Lane, NEW n \in 0 .. N
  PROVE  Sum(i, j)[n] \in Word
<1>1. Row(opA, i) \in [Lane -> Word] /\ Col(opB, j) \in [Lane -> Word]
  BY IdxIsCell DEF HistoryTypeOK, Row, Col
<1> QED
  BY <1>1, PartialDotType DEF Sum

LEMMA SumStep ==
  ASSUME HistoryTypeOK, NEW i \in Lane, NEW j \in Lane, NEW t \in Int
  PROVE  Sum(i, j)[Terms(t + 1)] = Mac(FedA(i, t), FedB(j, t), Sum(i, j)[Terms(t)])
<1>1. N \in Nat /\ N > 0
  BY NAssumption
<1>2. CASE t \in Lane
  <2>1. Terms(t) = t /\ Terms(t + 1) = t + 1
    BY <1>1, <1>2 DEF Lane, Terms
  <2>2. Row(opA, i)[t] = FedA(i, t) /\ Col(opB, j)[t] = FedB(j, t)
    BY <1>2 DEF Row, Col, FedA, FedB
  <2> QED
    BY <1>2, <2>1, <2>2, PartialDotNext DEF Sum
<1>3. CASE t \notin Lane
  <2>1. Terms(t + 1) = Terms(t) /\ Terms(t) \in 0 .. N
    BY <1>1, <1>3 DEF Lane, Terms
  <2>2. FedA(i, t) = 0 /\ FedB(j, t) = 0
    BY <1>3 DEF FedA, FedB
  <2>3. Sum(i, j)[Terms(t)] \in Word
    BY <2>1, SumType
  <2> QED
    BY <2>1, <2>2, <2>3, MacZero
<1> QED
  BY <1>2, <1>3

LEMMA CalcMesh ==
  ASSUME ContractInv, clean, state_calc,
         NEW req \in Request, AccelEdge(req), ~clr_pe_sig(req),
         NEW i \in Lane, NEW j \in Lane
  PROVE  /\ a_out'[i][j] = FedA(i, cycle_cnt - i - j)
         /\ b_out'[i][j] = FedB(j, cycle_cnt - i - j)
         /\ c_reg'[i][j] = Sum(i, j)[Terms(cycle_cnt + 1 - i - j)]
<1>1. ~state_drain
  BY DEF ContractInv, PhaseBounds
<1>2. /\ a_out'[i][j] = AIn(a_skewed, i, j)
      /\ b_out'[i][j] = BIn(b_skewed, i, j)
      /\ c_reg'[i][j] = Mac(AIn(a_skewed, i, j), BIn(b_skewed, i, j), c_reg[i][j])
  BY <1>1 DEF AccelEdge, ArrayEdge, Busy
<1>3. c_reg[i][j] = Sum(i, j)[Terms(cycle_cnt - i - j)]
  BY DEF ContractInv, RunAligned, MeshAligned
<1>4. /\ cycle_cnt - i - j \in Int
      /\ cycle_cnt + 1 - i - j = (cycle_cnt - i - j) + 1
  BY NAssumption
  DEF ContractInv, AccelTypeOK, ControlTypeOK, CounterSize, Lane
<1>5. HistoryTypeOK
  BY DEF ContractInv
<1>6. Sum(i, j)[Terms((cycle_cnt - i - j) + 1)]
        = Mac(FedA(i, cycle_cnt - i - j), FedB(j, cycle_cnt - i - j),
              Sum(i, j)[Terms(cycle_cnt - i - j)])
  BY <1>4, <1>5, SumStep
<1> QED
  BY <1>2, <1>3, <1>4, <1>6, InputsAligned

(***************************************************************************)
(* A run goes on in phase 1.                                               *)
(***************************************************************************)
LEMMA CalcAligned ==
  ASSUME ContractInv, NEW req \in Request, HostEdge(req),
         Undisturbed(req), GoesOn
  PROVE  Aligned'
<1>1. /\ state_calc /\ state_calc' /\ ~state_drain' /\ ~ctrl_done'
      /\ cycle_cnt' = cycle_cnt + 1
      /\ clean /\ ~clr_pe_sig(req) /\ ~Disturbs /\ opA' = opA /\ opB' = opB
      /\ AccelEdge(req)
  BY DEF GoesOn, Undisturbed, HostEdge
<1>2. cycle_cnt \in Nat /\ N \in Nat
  BY NAssumption
  DEF ContractInv, AccelTypeOK, ControlTypeOK, CounterSize
<1>3. OperandsKept'
  <2>1. ASSUME NEW i \in Lane, NEW k \in Lane, k >= cycle_cnt + 1
        PROVE  /\ mem_A'[Idx(i, k)] = opA[Idx(i, k)]
               /\ mem_B'[Idx(k, i)] = opB[Idx(k, i)]
    <3>1. k > cycle_cnt /\ k >= cycle_cnt
      BY <1>2, <2>1 DEF Lane
    <3>2. /\ mem_A'[Idx(i, k)] = mem_A[Idx(i, k)]
          /\ mem_B'[Idx(k, i)] = mem_B[Idx(k, i)]
      BY <1>1, <3>1 DEF Disturbs
    <3>3. /\ mem_A[Idx(i, k)] = opA[Idx(i, k)]
          /\ mem_B[Idx(k, i)] = opB[Idx(k, i)]
      <4>1. OperandsKept
        BY DEF ContractInv, RunAligned
      <4> QED
        BY <1>1, <3>1, <4>1 DEF OperandsKept
    <3> QED
      BY <3>2, <3>3
  <2> QED
    BY <1>1, <2>1 DEF OperandsKept
<1>4. SkewAligned'
  <2>1. ASSUME NEW i \in DelayedLane, NEW k \in 0 .. i - 1
        PROVE  /\ delay_a'[i][k] = FedA(i, cycle_cnt - k)
               /\ delay_b'[i][k] = FedB(i, cycle_cnt - k)
    <3>1. /\ delay_a' = Shifted(delay_a, a_col_feed)
          /\ delay_b' = Shifted(delay_b, b_row_feed)
      BY <1>1 DEF AccelEdge, SkewEdge
    <3>2. CASE k = 0
      <4>1. i \in Lane /\ cycle_cnt - k = cycle_cnt
        BY <1>2, <3>2 DEF Lane, DelayedLane
      <4>2. /\ a_col_feed[i] = FedA(i, cycle_cnt)
            /\ b_row_feed[i] = FedB(i, cycle_cnt)
        BY <1>1, <4>1, FeedAligned
      <4> QED
        BY <3>1, <3>2, <4>1, <4>2 DEF Shifted
    <3>3. CASE k # 0
      <4>1. k - 1 \in 0 .. i - 1 /\ cycle_cnt - 1 - (k - 1) = cycle_cnt - k
        BY <1>2, <3>3 DEF DelayedLane
      <4>2. /\ delay_a[i][k - 1] = FedA(i, cycle_cnt - 1 - (k - 1))
            /\ delay_b[i][k - 1] = FedB(i, cycle_cnt - 1 - (k - 1))
        BY <1>1, <4>1 DEF ContractInv, RunAligned, SkewAligned
      <4> QED
        BY <3>1, <3>3, <4>1, <4>2 DEF Shifted
    <3> QED
      BY <3>2, <3>3
  <2>2. ASSUME NEW i \in DelayedLane, NEW k \in 0 .. i - 1
        PROVE  cycle_cnt' - 1 - k = cycle_cnt - k
    BY <1>1, <1>2 DEF DelayedLane
  <2> QED
    BY <1>1, <2>1, <2>2 DEF SkewAligned, FedA, FedB
<1>5. MeshAligned'
  <2>1. ASSUME NEW i \in Lane, NEW j \in Lane
        PROVE  /\ cycle_cnt' - 1 - i - j = cycle_cnt - i - j
               /\ cycle_cnt' - i - j = cycle_cnt + 1 - i - j
    BY <1>1, <1>2 DEF Lane
  <2>2. ASSUME NEW i \in Lane, NEW j \in Lane
        PROVE  /\ a_out'[i][j] = FedA(i, cycle_cnt - 1 - i - j)'
               /\ b_out'[i][j] = FedB(j, cycle_cnt - 1 - i - j)'
    BY <1>1, <2>1, CalcMesh DEF FedA, FedB
  <2>3. ASSUME NEW i \in Lane, NEW j \in Lane
        PROVE  c_reg'[i][j] = (Sum(i, j)[Terms(cycle_cnt - i - j)])'
    <3>1. Sum(i, j)' = Sum(i, j)
      BY <1>1 DEF Sum
    <3>2. Terms(cycle_cnt - i - j)' = Terms(cycle_cnt + 1 - i - j)
      BY <2>1 DEF Terms
    <3> QED
      BY <1>1, <3>1, <3>2, CalcMesh
  <2> QED
    BY <2>2, <2>3 DEF MeshAligned
<1> QED
  BY <1>1, <1>3, <1>4, <1>5
  DEF Aligned, CleanDone, DrainAligned, Captured, ResultCorrect

-----------------------------------------------------------------------------
(***************************************************************************)
(* The run turns round: the operands have left the mesh, every element has *)
(* seen its N products.                                                    *)
(***************************************************************************)
LEMMA TurnAligned ==
  ASSUME ContractInv, NEW req \in Request, HostEdge(req),
         Undisturbed(req), TurnsRound
  PROVE  Aligned'
<1>1. /\ state_calc /\ CalcLast /\ ~state_calc' /\ state_drain' /\ ~ctrl_done'
      /\ cycle_cnt' = 0 /\ clean /\ ~clr_pe_sig(req)
      /\ opA' = opA /\ opB' = opB /\ AccelEdge(req)
  BY DEF TurnsRound, Undisturbed, HostEdge
<1>2. cycle_cnt = 3 * N + 2 /\ N \in Nat /\ N > 0
  BY <1>1, NAssumption DEF CalcLast
<1>3. ASSUME NEW i \in Lane, NEW j \in Lane
      PROVE  a_out'[i][j] = 0 /\ c_reg'[i][j] = Product(i, j)
  <2>1. cycle_cnt - i - j \notin Lane
    BY <1>2 DEF Lane
  <2>2. Terms(cycle_cnt + 1 - i - j) = N
    BY <1>2 DEF Lane, Terms
  <2> QED
    BY <1>1, <2>1, <2>2, CalcMesh DEF FedA, Product
<1>4. ASSUME NEW i \in Lane, NEW j \in Lane
      PROVE  Product(i, j)' = Product(i, j)
  BY <1>1 DEF Product, Sum
<1>5. DrainAligned'
  <2>1. ASSUME NEW p \in 0 .. N
        PROVE  cycle_cnt' # 2 * p + 1 /\ (cycle_cnt' = 2 * p => p = 0)
    BY <1>1, <1>2
  <2>2. ASSUME NEW i \in Lane, NEW j \in Lane
        PROVE  Moved(i, j, 0)' = Product(i, j)
    <3>1. j >= 0 /\ j - 0 = j
      BY <1>2 DEF Lane
    <3> QED
      BY <3>1, <1>4 DEF Moved
  <2>3. ASSUME NEW p \in 0 .. N, NEW i \in Lane, NEW j \in Lane
        PROVE  /\ cycle_cnt' = 2 * p =>
                    c_reg'[i][j] = Moved(i, j, p)' /\ a_out'[i][j] = 0
               /\ cycle_cnt' = 2 * p + 1 =>
                    a_out'[i][j] = Moved(i, j, p)' /\ c_reg'[i][j] = 0
    BY <1>3, <2>1, <2>2
  <2> QED
    BY <2>3 DEF DrainAligned
<1>6. Captured'
  <2>1. ASSUME NEW j \in Lane
        PROVE  ~(2 * (N - 1 - j) + 1 < cycle_cnt')
    BY <1>1, <1>2 DEF Lane
  <2> QED
    BY <2>1 DEF Captured
<1> QED
  BY <1>1, <1>5, <1>6
  DEF Aligned, CleanDone, OperandsKept, SkewAligned, MeshAligned, ResultCorrect

-----------------------------------------------------------------------------
(***************************************************************************)
(* Phase 2 of a clean run.  Zeros follow the results into the mesh, since  *)
(* the skew buffers are empty.                                             *)
(***************************************************************************)
LEMMA DrainMesh ==
  ASSUME ContractInv, state_drain,
         NEW req \in Request, AccelEdge(req), ~clr_pe_sig(req),
         NEW i \in Lane, NEW j \in Lane
  PROVE  /\ a_out'[i][j] = c_reg[i][j]
         /\ c_reg'[i][j] = IF j = 0 THEN 0 ELSE a_out[i][j - 1]
<1>1. ~state_calc
  BY DEF ContractInv, PhaseBounds
<1>2. /\ a_out' = c_reg
      /\ c_reg'[i][j] = AIn(a_skewed, i, j)
  BY DEF AccelEdge, ArrayEdge, Busy
<1>3. a_skewed[i] = 0
  <2>1. a_col_feed[i] = 0
    BY <1>1 DEF a_col_feed
  <2>2. delay_a = EmptyDelay
    BY <1>1 DEF ContractInv, SkewFlushed
  <2>3. CASE i = 0
    BY <2>1, <2>3 DEF a_skewed, Skewed
  <2>4. CASE i # 0
    <3>1. i \in DelayedLane /\ i - 1 \in 0 .. i - 1
      BY <2>4, NAssumption DEF Lane, DelayedLane
    <3>2. delay_a[i][i - 1] = 0
      BY <2>2, <3>1, EmptyDelayFacts
    <3> QED
      BY <2>4, <3>2 DEF a_skewed, Skewed
  <2> QED
    BY <2>3, <2>4
<1> QED
  BY <1>2, <1>3 DEF AIn

(***************************************************************************)
(* Column j is stored in cycle 2 * (N - 1 - j) + 1 and is not stored over. *)
(***************************************************************************)
LEMMA CaptureAligned ==
  ASSUME ContractInv, clean, state_drain, NEW req \in Request, AccelEdge(req),
         NEW i \in Lane, NEW j \in Lane, 2 * (N - 1 - j) + 1 <= cycle_cnt
  PROVE  mem_C'[Idx(i, j)] = Product(i, j)
<1>1. cycle_cnt \in Nat /\ N \in Nat /\ N > 0 /\ j \in 0 .. N - 1
  BY NAssumption
  DEF ContractInv, AccelTypeOK, ControlTypeOK, CounterSize, Lane
<1>2. /\ Idx(i, j) \in Cell /\ RowOf(Idx(i, j)) = i /\ ColOf(Idx(i, j)) = j
  BY IdxIsCell, RowOfIdx
<1>3. mem_C'[Idx(i, j)] = IF CaptureNow /\ j = CaptureCol
                          THEN a_out[i][N - 1] ELSE mem_C[Idx(i, j)]
  BY <1>2 DEF AccelEdge, Capture, c_right_out
<1>4. CASE cycle_cnt = 2 * (N - 1 - j) + 1
  <2> DEFINE p == N - 1 - j
  <2>1. p \in 0 .. N /\ cycle_cnt = 2 * p + 1 /\ N - 1 >= p
    BY <1>1, <1>4
  <2>2. CaptureNow /\ j = CaptureCol
    BY <1>1, <1>4 DEF CaptureNow, CaptureCol
  <2>3. N - 1 \in Lane /\ (N - 1) - p = j
    BY <1>1 DEF Lane
  <2> HIDE DEF p
  <2>4. a_out[i][N - 1] = Moved(i, N - 1, p)
    BY <2>1, <2>3 DEF ContractInv, RunAligned, DrainAligned
  <2> QED
    BY <1>3, <2>1, <2>2, <2>3, <2>4 DEF Moved
<1>5. CASE 2 * (N - 1 - j) + 1 < cycle_cnt
  <2>1. mem_C[Idx(i, j)] = Product(i, j)
    BY <1>5 DEF ContractInv, RunAligned, Captured
  <2>2. ~(CaptureNow /\ j = CaptureCol)
    BY <1>1, <1>5 DEF CaptureNow, CaptureCol
  <2> QED
    BY <1>3, <2>1, <2>2
<1> QED
  BY <1>1, <1>4, <1>5

LEMMA DrainStep ==
  ASSUME ContractInv, NEW req \in Request, HostEdge(req),
         Undisturbed(req), Drains
  PROVE  Aligned'
<1>1. /\ state_drain /\ ~state_calc' /\ state_drain' /\ ~ctrl_done'
      /\ cycle_cnt' = cycle_cnt + 1 /\ clean /\ ~clr_pe_sig(req)
      /\ opA' = opA /\ opB' = opB /\ AccelEdge(req)
  BY DEF Drains, Undisturbed, HostEdge
<1>2. cycle_cnt \in Nat /\ N \in Nat /\ N > 0
  BY NAssumption
  DEF ContractInv, AccelTypeOK, ControlTypeOK, CounterSize
<1>3. ASSUME NEW i \in Lane, NEW j \in Lane
      PROVE  Product(i, j)' = Product(i, j)
  BY <1>1 DEF Product, Sum
<1>4. ASSUME NEW i \in Lane, NEW j \in Lane, NEW p \in 0 .. N
      PROVE  Moved(i, j, p)' = Moved(i, j, p)
  BY <1>1 DEF Moved, Product, Sum
<1>5. ASSUME NEW p \in 0 .. N, NEW i \in Lane, NEW j \in Lane
      PROVE  /\ cycle_cnt = 2 * p =>
                  c_reg[i][j] = Moved(i, j, p) /\ a_out[i][j] = 0
             /\ cycle_cnt = 2 * p + 1 =>
                  a_out[i][j] = Moved(i, j, p) /\ c_reg[i][j] = 0
  BY <1>1 DEF ContractInv, RunAligned, DrainAligned
<1>6. ASSUME NEW p \in 0 .. N, NEW i \in Lane, NEW j \in Lane,
             cycle_cnt + 1 = 2 * p
      PROVE  c_reg'[i][j] = Moved(i, j, p) /\ a_out'[i][j] = 0
  <2>1. p - 1 \in 0 .. N /\ cycle_cnt = 2 * (p - 1) + 1
    BY <1>2, <1>6
  <2>2. a_out'[i][j] = 0
    BY <1>1, <1>5, <2>1, DrainMesh
  <2>3. CASE j = 0
    <3>1. ~(j >= p)
      BY <2>1, <2>3
    <3> QED
      BY <1>1, <2>2, <2>3, <3>1, DrainMesh DEF Moved
  <2>4. CASE j # 0
    <3>1. /\ j - 1 \in Lane
          /\ j - 1 >= p - 1 <=> j >= p
          /\ (j - 1) - (p - 1) = j - p
      BY <1>2, <2>1, <2>4 DEF Lane
    <3>2. a_out[i][j - 1] = Moved(i, j - 1, p - 1)
      BY <1>5, <2>1, <3>1
    <3>3. Moved(i, j - 1, p - 1) = Moved(i, j, p)
      BY <3>1 DEF Moved
    <3> QED
      BY <1>1, <2>2, <2>4, <3>2, <3>3, DrainMesh
  <2> QED
    BY <2>3, <2>4
<1>7. ASSUME NEW p \in 0 .. N, NEW i \in Lane, NEW j \in Lane,
             cycle_cnt + 1 = 2 * p + 1
      PROVE  a_out'[i][j] = Moved(i, j, p) /\ c_reg'[i][j] = 0
  <2>1. cycle_cnt = 2 * p
    BY <1>2, <1>7
  <2>2. a_out'[i][j] = Moved(i, j, p)
    BY <1>1, <1>5, <2>1, DrainMesh
  <2>3. c_reg'[i][j] = 0
    <3>1. CASE j = 0
      BY <1>1, <3>1, DrainMesh
    <3>2. CASE j # 0
      <4>1. j - 1 \in Lane
        BY <3>2, <1>2 DEF Lane
      <4>2. a_out[i][j - 1] = 0
        BY <1>5, <2>1, <4>1
      <4> QED
        BY <1>1, <3>2, <4>2, DrainMesh
    <3> QED
      BY <3>1, <3>2
  <2> QED
    BY <2>2, <2>3
<1>8. DrainAligned'
  BY <1>1, <1>4, <1>6, <1>7 DEF DrainAligned
<1>9. Captured'
  <2>1. ASSUME NEW i \in Lane, NEW j \in Lane,
               2 * (N - 1 - j) + 1 < cycle_cnt + 1
        PROVE  mem_C'[Idx(i, j)] = Product(i, j)
    <3>1. 2 * (N - 1 - j) + 1 <= cycle_cnt
      BY <1>2, <2>1 DEF Lane
    <3> QED
      BY <1>1, <3>1, CaptureAligned
  <2> QED
    BY <1>1, <1>3, <2>1 DEF Captured
<1> QED
  BY <1>1, <1>8, <1>9
  DEF Aligned, CleanDone, OperandsKept, SkewAligned, MeshAligned, ResultCorrect

(***************************************************************************)
(* The last cycle of phase 2 finds every column stored.                    *)
(***************************************************************************)
LEMMA EndAligned ==
  ASSUME ContractInv, NEW req \in Request, HostEdge(req),
         Undisturbed(req), Ends
  PROVE  Aligned'
<1>1. /\ state_drain /\ cycle_cnt = 2 * N /\ ~state_calc' /\ ~state_drain'
      /\ clean /\ opA' = opA /\ opB' = opB /\ AccelEdge(req)
  BY DEF Ends, DrainLast, Undisturbed, HostEdge
<1>2. ASSUME NEW i \in Lane, NEW j \in Lane
      PROVE  mem_C'[Idx(i, j)] = Product(i, j)
  <2>1. 2 * (N - 1 - j) + 1 <= cycle_cnt
    BY <1>1, NAssumption DEF Lane
  <2> QED
    BY <1>1, <2>1, CaptureAligned
<1>3. ASSUME NEW i \in Lane, NEW j \in Lane
      PROVE  Product(i, j) = Dot(Row(opA', i), Col(opB', j))
  BY <1>1 DEF Product, Sum, Dot
<1>4. ResultCorrect'
  BY <1>2, <1>3 DEF ResultCorrect, Row, Col
<1> QED
  BY <1>1, <1>4
  DEF Aligned, CleanDone, Busy, OperandsKept, SkewAligned, MeshAligned,
      DrainAligned, Captured

(***************************************************************************)
(* After a run nothing stores into C.                                      *)
(***************************************************************************)
LEMMA OverAligned ==
  ASSUME ContractInv, NEW req \in Request, HostEdge(req),
         Undisturbed(req), IsOver
  PROVE  Aligned'
<1>1. /\ ~Busy /\ ~state_calc' /\ ~state_drain' /\ (ctrl_done' => ctrl_done)
      /\ clean /\ opA' = opA /\ opB' = opB /\ AccelEdge(req)
  BY DEF IsOver, Undisturbed, HostEdge
<1>2. ASSUME NEW i \in Lane, NEW j \in Lane
      PROVE  mem_C'[Idx(i, j)] = mem_C[Idx(i, j)]
  <2>1. Idx(i, j) \in Cell /\ ~CaptureNow
    BY <1>1, IdxIsCell DEF Busy, CaptureNow
  <2> QED
    BY <1>1, <2>1 DEF AccelEdge, Capture
<1>3. ResultCorrect'
  <2>1. ASSUME NEW i \in Lane, NEW j \in Lane, ctrl_done'
        PROVE  mem_C'[Idx(i, j)] = Dot(Row(opA', i), Col(opB', j))
    <3>1. mem_C[Idx(i, j)] = Dot(Row(opA, i), Col(opB, j))
      BY <1>1, <2>1 DEF ContractInv, ResultCorrect
    <3> QED
      BY <1>1, <1>2, <3>1
  <2> QED
    BY <2>1 DEF ResultCorrect, Row, Col
<1> QED
  BY <1>1, <1>3
  DEF Aligned, CleanDone, Busy, OperandsKept, SkewAligned, MeshAligned,
      DrainAligned, Captured

-----------------------------------------------------------------------------
(***************************************************************************)
(* The invariant is inductive.                                             *)
(***************************************************************************)
LEMMA EdgeAligned ==
  ASSUME CounterFits, ContractInv, NEW req \in Request, HostEdge(req)
  PROVE  Aligned'
<1>1. CASE clean'
  <2>1. CASE Begins(req)
    BY <2>1, BeginAligned
  <2>2. CASE Undisturbed(req) /\ GoesOn
    BY <2>2, CalcAligned
  <2>3. CASE Undisturbed(req) /\ TurnsRound
    BY <2>3, TurnAligned
  <2>4. CASE Undisturbed(req) /\ Drains
    BY <2>4, DrainStep
  <2>5. CASE Undisturbed(req) /\ Ends
    BY <2>5, EndAligned
  <2>6. CASE Undisturbed(req) /\ IsOver
    BY <2>6, OverAligned
  <2> QED
    BY <1>1, <2>1, <2>2, <2>3, <2>4, <2>5, <2>6, CleanCases
<1>2. CASE ~clean'
  BY <1>2
  DEF Aligned, CleanDone, OperandsKept, SkewAligned, MeshAligned,
      DrainAligned, Captured, ResultCorrect
<1> QED
  BY <1>1, <1>2

LEMMA EdgeInv ==
  ASSUME CounterFits, ContractInv, NEW req \in Request, HostEdge(req)
  PROVE  ContractInv'
<1>1. AccelEdge(req)
  BY DEF HostEdge
<1>2. /\ AccelTypeOK /\ HistoryTypeOK /\ PhaseBounds
      /\ SkewTail /\ SkewFlushed /\ ControlTypeOK
  BY DEF ContractInv, RunAligned, AccelTypeOK
<1>3. AccelTypeOK' /\ HistoryTypeOK'
  BY <1>1, <1>2, EdgeAccelType, EdgeHistoryType
<1>4. PhaseBounds'
  BY <1>1, <1>2, CommandFacts, EdgePhases DEF AccelEdge
<1>5. SkewTail' /\ SkewFlushed'
  <2>1. PhaseOneTick
    BY <1>1, <1>2, CommandFacts, CalcTick DEF AccelEdge, PhaseOneTick
  <2> QED
    BY <1>1, <1>2, <2>1, EdgeSkewFlushed DEF AccelEdge
<1> QED
  BY <1>3, <1>4, <1>5, EdgeAligned DEF ContractInv, RunAligned, Aligned

LEMMA ZeroMemory == [c \in Cell |-> 0] \in [Cell -> Word]
  BY WordAssumption

LEMMA ResetInv ==
  ASSUME HostReset
  PROVE  ContractInv'
<1>1. /\ ControlReset /\ SkewReset /\ ArrayClear /\ clean' = FALSE
      /\ ~state_calc' /\ ~state_drain'
  BY DEF HostReset, AccelReset, ControlReset
<1>2. ControlTypeOK' /\ PhaseBounds'
  BY <1>1, ResetType, ResetPhases
<1>3. SkewTypeOK' /\ SkewFlushed'
  BY <1>1, EmptyDelayFacts DEF SkewReset, SkewTypeOK, SkewFlushed
<1>4. ArrayTypeOK'
  BY <1>1, EmptyMeshType DEF ArrayClear, ArrayTypeOK
<1>5. /\ mem_A' \in [Cell -> Word] /\ mem_B' \in [Cell -> Word]
      /\ mem_C' \in [Cell -> Word] /\ avs_readdata' \in Word \cup 0 .. 3
      /\ opA' \in [Cell -> Word] /\ opB' \in [Cell -> Word]
  BY ZeroMemory, WordAssumption DEF HostReset, AccelReset
<1>6. AccelTypeOK' /\ HistoryTypeOK'
  BY <1>1, <1>2, <1>3, <1>4, <1>5 DEF AccelTypeOK, HistoryTypeOK
<1>7. RunAligned' /\ ResultCorrect'
  BY <1>1
  DEF RunAligned, SkewTail, CleanDone, OperandsKept, SkewAligned,
      MeshAligned, DrainAligned, Captured, ResultCorrect
<1> QED
  BY <1>2, <1>3, <1>6, <1>7 DEF ContractInv

LEMMA InitInv ==
  ASSUME HostInit
  PROVE  ContractInv
<1>1. /\ ControlInit /\ SkewInit /\ ArrayInit /\ clean = FALSE
      /\ ~state_calc /\ ~state_drain
  BY DEF HostInit, AccelInit, ControlInit
<1>2. ControlTypeOK /\ PhaseBounds
  BY <1>1, ControlInvInit DEF ControlInv
<1>3. SkewTypeOK /\ SkewFlushed
  BY <1>1, EmptyDelayFacts DEF SkewInit, SkewTypeOK, SkewFlushed
<1>4. ArrayTypeOK
  BY <1>1, EmptyMeshType DEF ArrayInit, ArrayTypeOK
<1>5. /\ mem_A \in [Cell -> Word] /\ mem_B \in [Cell -> Word]
      /\ mem_C \in [Cell -> Word] /\ avs_readdata \in Word \cup 0 .. 3
      /\ opA \in [Cell -> Word] /\ opB \in [Cell -> Word]
  BY ZeroMemory, WordAssumption DEF HostInit, AccelInit
<1>6. AccelTypeOK /\ HistoryTypeOK
  BY <1>1, <1>2, <1>3, <1>4, <1>5 DEF AccelTypeOK, HistoryTypeOK
<1>7. RunAligned /\ ResultCorrect
  BY <1>1
  DEF RunAligned, SkewTail, CleanDone, OperandsKept, SkewAligned,
      MeshAligned, DrainAligned, Captured, ResultCorrect
<1> QED
  BY <1>2, <1>3, <1>6, <1>7 DEF ContractInv

LEMMA ContractStep ==
  ASSUME CounterFits, ContractInv, [ContractNext]_hostVars
  PROVE  ContractInv'
<1>1. CASE HostReset
  BY <1>1, ResetInv
<1>2. ASSUME NEW req \in HostRequests, HostEdge(req)
      PROVE  ContractInv'
  BY <1>2, HostAssumption, EdgeInv
<1>3. CASE UNCHANGED hostVars
  <2>1. UNCHANGED <<controlVars, skewVars, arrayVars, memVars, historyVars>>
    BY <1>3 DEF hostVars, accelVars
  <2>2. AccelTypeOK' /\ HistoryTypeOK'
    BY <2>1
    DEF controlVars, skewVars, arrayVars, memVars, historyVars, ContractInv, AccelTypeOK,
        ControlTypeOK, SkewTypeOK, ArrayTypeOK, HistoryTypeOK
  <2>3. PhaseBounds' /\ SkewFlushed'
    BY <2>1 DEF controlVars, skewVars, ContractInv, PhaseBounds, SkewFlushed
  <2>4. RunAligned' /\ ResultCorrect'
    BY <2>1
    DEF controlVars, skewVars, arrayVars, memVars, historyVars, ContractInv, RunAligned,
        SkewTail, CleanDone, Busy, OperandsKept, SkewAligned, MeshAligned, DrainAligned,
        Captured, ResultCorrect, FedA, FedB, Sum, Moved, Product
  <2> QED
    BY <2>2, <2>3, <2>4 DEF ContractInv
<1> QED
  BY <1>1, <1>2, <1>3 DEF ContractNext

(***************************************************************************)
(* The invariant holds under any bus, with resets at any time.             *)
(***************************************************************************)
THEOREM ContractInvCorrect ==
  ASSUME CounterFits PROVE ContractSpec => []ContractInv
<1>1. HostInit => ContractInv
  BY InitInv
<1>2. ContractInv /\ [ContractNext]_hostVars => ContractInv'
  BY ContractStep
<1> QED
  BY <1>1, <1>2, PTL DEF ContractSpec

-----------------------------------------------------------------------------
(***************************************************************************)
(* The registers, buffers, mesh and memories hold words.                   *)
(***************************************************************************)
THEOREM AccelTypeCorrect ==
  ASSUME CounterFits PROVE ContractSpec => []AccelTypeOK
<1>1. ContractInv => AccelTypeOK
  BY DEF ContractInv
<1> QED
  BY <1>1, ContractInvCorrect, PTL

(***************************************************************************)
(* Whatever is written to the bus, nothing stays behind in the skew        *)
(* buffers when phase 1 ends.                                              *)
(***************************************************************************)
THEOREM SkewFlushedCorrect ==
  ASSUME CounterFits PROVE ContractSpec => []SkewFlushed
<1>1. ContractInv => SkewFlushed
  BY DEF ContractInv
<1> QED
  BY <1>1, ContractInvCorrect, PTL

(***************************************************************************)
(* In every cycle of a clean run each operand and each partial sum is      *)
(* where the delays of the buffers and of the mesh should have brought it, *)
(* and each column that left the mesh is in C.                             *)
(***************************************************************************)
THEOREM RunAlignedCorrect ==
  ASSUME CounterFits PROVE ContractSpec => []RunAligned
<1>1. ContractInv => RunAligned
  BY DEF ContractInv
<1> QED
  BY <1>1, ContractInvCorrect, PTL

(***************************************************************************)
(* DONE after a clean run means that C is the product of the operands at   *)
(* START, for every N up to 84, whatever the bus carried before.           *)
(***************************************************************************)
THEOREM ResultIsProduct ==
  ASSUME CounterFits PROVE ContractSpec => []ResultCorrect
<1>1. ContractInv => ResultCorrect
  BY DEF ContractInv
<1> QED
  BY <1>1, ContractInvCorrect, PTL

-----------------------------------------------------------------------------
(***************************************************************************)
(* The accelerator as the unit of MatMulUnit: the control registers, the   *)
(* bus, and the cells of C.                                                *)
(***************************************************************************)
LEMMA UnitTick ==
  ASSUME ControlTypeOK, PhaseBounds, NEW cmd \in Command, ControlEdge(cmd)
  PROVE  /\ ctrl_done' \in BOOLEAN
         /\ cmd = "start" => Busy'
         /\ cmd = "start" /\ ~Busy => ctrl_done' = FALSE
         /\ cmd # "start" /\ ~Busy => ~Busy' /\ ctrl_done' = ctrl_done
         /\ cmd # "start" /\ Busy /\ ~DrainLast => Busy' /\ ctrl_done' = ctrl_done
<1>1. /\ ctrl_done \in BOOLEAN
      /\ ctrl_done' = (DrainLast \/ (ctrl_done /\ cmd # "start"))
  BY DEF ControlEdge, NextDone, ControlTypeOK
<1>2. ~(state_calc /\ state_drain)
  BY DEF PhaseBounds
<1>3. /\ Busy' = (state_calc' \/ state_drain')
      /\ state_calc' = ((state_calc \/ cmd = "start") /\ ~CalcLast)
      /\ state_drain' = (((state_drain /\ cmd # "start") \/ CalcLast) /\ ~DrainLast)
  BY DEF Busy, ControlEdge, NextCalc, NextDrain
<1>4. /\ CalcLast => state_calc
      /\ DrainLast => state_drain
      /\ Busy = (state_calc \/ state_drain)
  BY DEF CalcLast, DrainLast, Busy
<1>5. ~DrainLast /\ cmd # "start" => ctrl_done' = ctrl_done
  BY <1>1
<1>6. ctrl_done' \in BOOLEAN /\ (~DrainLast /\ cmd = "start" => ctrl_done' = FALSE)
  BY <1>1
<1> QED
  BY <1>2, <1>3, <1>4, <1>5, <1>6

LEMMA EdgeStores ==
  ASSUME AccelTypeOK, NEW req \in Request, BusWrite(req)
  PROVE  Unit!Store
<1>1. mem_A \in [Cell -> Word] /\ mem_B \in [Cell -> Word]
  BY DEF AccelTypeOK
<1>2. req.data \in Word /\ req.address \in Nat
  <2>1. req.data \in Word /\ req.address \in Address
    BY DEF Request
  <2>2. \A a \in Address : a \in Nat
    BY DEF Address
  <2> QED
    BY <2>1, <2>2
<1> DEFINE toA == req.write /\ req.address \in Window(MEM_A)
           toB == req.write /\ req.address \in Window(MEM_B) /\ ~toA
<1>3. CASE toA
  <2>1. PICK c \in Cell : c = req.address - MEM_A
    BY <1>2, <1>3, NAssumption DEF Window, MEM_A, Cell
  <2>2. mem_A' = [mem_A EXCEPT ![c] = req.data] /\ mem_B' = mem_B
    BY <1>3, <2>1 DEF BusWrite
  <2>3. mem_A'[c] = req.data
    BY <1>1, <2>2
  <2> QED
    BY <1>2, <2>2, <2>3 DEF Unit!Store, Unit!StoreA
<1>4. CASE toB
  <2>1. PICK c \in Cell : c = req.address - MEM_B
    BY <1>2, <1>4, NAssumption DEF Window, MEM_B, Cell
  <2>2. mem_B' = [mem_B EXCEPT ![c] = req.data] /\ mem_A' = mem_A
    BY <1>4, <2>1 DEF BusWrite
  <2>3. mem_B'[c] = req.data
    BY <1>1, <2>2
  <2> QED
    BY <1>2, <2>2, <2>3 DEF Unit!Store, Unit!StoreB
<1>5. CASE ~toA /\ ~toB
  BY <1>5 DEF BusWrite, Unit!Store, Unit!Unchanged
<1> QED
  BY <1>3, <1>4, <1>5

LEMMA OwedIs ==
  ASSUME NEW i \in Lane, NEW j \in Lane
  PROVE  Unit!Owed[Idx(i, j)] = Product(i, j)
<1>1. Idx(i, j) \in Cell /\ RowOf(Idx(i, j)) = i /\ ColOf(Idx(i, j)) = j
  BY IdxIsCell, RowOfIdx
<1> QED
  BY <1>1 DEF Unit!Owed, MatrixProduct, Product, Sum, Dot

\* What a clean run stores into a cell is its entry of the product.
LEMMA EdgeArrives ==
  ASSUME ContractInv, NEW req \in Request, AccelEdge(req)
  PROVE  Unit!Arrive
<1>1. mem_C' \in [Cell -> Word]
  BY EdgeMemType DEF ContractInv
<1>2. ASSUME RunState = "sound", NEW c \in Cell
      PROVE  mem_C'[c] \in {mem_C[c], Unit!Owed[c]}
  <2>1. clean
    BY <1>2 DEF RunState
  <2>2. PICK i \in Lane, j \in Lane : c = Idx(i, j)
    BY CellIsIdx
  <2>3. CASE CaptureNow /\ j = CaptureCol
    <3>1. /\ cycle_cnt \in Nat /\ N \in Nat /\ j \in 0 .. N - 1
          /\ state_drain /\ cycle_cnt % 2 = 1 /\ j = N - 1 - (cycle_cnt \div 2)
      BY <2>3, NAssumption
      DEF CaptureNow, CaptureCol, ContractInv, AccelTypeOK, ControlTypeOK, CounterSize, Lane
    <3>2. 2 * (N - 1 - j) + 1 <= cycle_cnt
      BY ONLY <3>1, SMT
    <3>3. mem_C'[c] = Product(i, j)
      BY <2>1, <2>2, <3>1, <3>2, CaptureAligned
    <3> QED
      BY <2>2, <3>3, OwedIs
  <2>4. CASE ~(CaptureNow /\ j = CaptureCol)
    <3>1. mem_C'[c] = mem_C[c]
      BY <2>2, <2>4, RowOfIdx DEF AccelEdge, Capture
    <3> QED
      BY <3>1
  <2> QED
    BY <2>3, <2>4
<1> QED
  BY <1>1, <1>2 DEF Unit!Arrive

\* At the end of a clean run every cell holds it.
LEMMA EndDelivers ==
  ASSUME ContractInv, NEW req \in Request, AccelEdge(req), clean, DrainLast
  PROVE  mem_C' = Unit!Owed
<1>1. mem_C' \in [Cell -> Word]
  BY EdgeMemType DEF ContractInv
<1>2. ASSUME NEW c \in Cell
      PROVE  mem_C'[c] = Unit!Owed[c]
  <2>1. PICK i \in Lane, j \in Lane : c = Idx(i, j)
    BY CellIsIdx
  <2>2. state_drain /\ 2 * (N - 1 - j) + 1 <= cycle_cnt
    BY NAssumption DEF DrainLast, Lane
  <2>3. mem_C'[Idx(i, j)] = Product(i, j)
    BY <2>2, CaptureAligned
  <2> QED
    BY <2>1, <2>3, OwedIs
<1>3. Unit!Owed = [c \in Cell |-> Unit!Owed[c]]
  BY DEF Unit!Owed, MatrixProduct
<1> QED
  BY <1>1, <1>2, <1>3

(***************************************************************************)
(* Every edge is a step of the unit.                                       *)
(***************************************************************************)
LEMMA EdgeIsUnit ==
  ASSUME ContractInv, NEW req \in Request, HostEdge(req)
  PROVE  Unit!UnitNext
<1> DEFINE go == clr_pe_sig(req)
<1>1. /\ AccelEdge(req) /\ BusWrite(req)
      /\ clean' = IF go THEN ~Busy ELSE clean /\ ~Disturbs
      /\ opA' = IF go /\ ~Busy THEN mem_A ELSE opA
      /\ opB' = IF go /\ ~Busy THEN mem_B ELSE opB
  BY DEF HostEdge, AccelEdge
<1>2. /\ ctrl_done' \in BOOLEAN
      /\ go => Busy'
      /\ go /\ ~Busy => ctrl_done' = FALSE
      /\ ~go /\ ~Busy => ~Busy' /\ ctrl_done' = ctrl_done
      /\ ~go /\ Busy /\ ~DrainLast => Busy' /\ ctrl_done' = ctrl_done
  BY <1>1, CommandFacts, UnitTick DEF AccelEdge, ContractInv, AccelTypeOK
<1>3. go => mem_A' = mem_A /\ mem_B' = mem_B
  BY <1>1, StartWritesNoOperand
<1>4. Unit!Store /\ Unit!Arrive
  BY <1>1, EdgeStores, EdgeArrives DEF ContractInv
<1>5. clean \in BOOLEAN
  BY DEF ContractInv, HistoryTypeOK
<1>6. ~Busy => mem_C' = mem_C
  <2>1. SUFFICES ASSUME ~Busy PROVE mem_C' = mem_C
    OBVIOUS
  <2>2. ~CaptureNow
    BY <2>1 DEF Busy, CaptureNow
  <2>3. mem_C \in [Cell -> Word]
    BY DEF ContractInv, AccelTypeOK
  <2> QED
    BY <1>1, <2>2, <2>3 DEF AccelEdge, Capture
<1> HIDE DEF go
<1>7. CASE ~Busy /\ go
  <2>1. RunState = "idle" /\ RunState' = "sound"
    BY <1>1, <1>2, <1>7 DEF RunState
  <2> QED
    BY <1>1, <1>2, <1>3, <1>6, <1>7, <2>1 DEF Unit!UnitNext, Unit!Start
<1>8. CASE ~Busy /\ ~go
  <2>1. RunState = "idle" /\ RunState' = "idle"
    BY <1>2, <1>8 DEF RunState
  <2> QED
    BY <1>1, <1>2, <1>4, <1>6, <1>8, <2>1 DEF Unit!UnitNext, Unit!Rest
<1>9. CASE Busy /\ go
  <2>1. RunState # "idle" /\ RunState' = "voided"
    BY <1>1, <1>2, <1>9 DEF RunState
  <2> QED
    BY <1>1, <1>2, <1>3, <1>4, <1>9, <2>1 DEF Unit!UnitNext, Unit!StartAgain
<1>10. CASE Busy /\ ~go /\ ~DrainLast
  <2>1. RunState # "idle"
    BY <1>10 DEF RunState
  <2>2. RunState' = RunState \/ (RunState' = "voided" /\ ~Unit!Unchanged)
    <3>1. CASE clean' = clean
      BY <1>2, <1>10, <3>1 DEF RunState
    <3>2. CASE clean' # clean
      <4>1. ~clean' /\ Disturbs
        BY <1>1, <1>5, <1>10, <3>2
      <4>2. ~Unit!Unchanged
        BY <4>1 DEF Disturbs, Unit!Unchanged
      <4> QED
        BY <1>2, <1>10, <4>1, <4>2 DEF RunState
    <3> QED
      BY <3>1, <3>2
  <2> QED
    BY <1>1, <1>2, <1>4, <1>10, <2>1, <2>2 DEF Unit!UnitNext, Unit!Work
<1>11. CASE Busy /\ ~go /\ DrainLast
  <2>1. ~Busy' /\ ctrl_done' = TRUE
    <3>1. ControlTypeOK /\ PhaseBounds
      BY DEF ContractInv, AccelTypeOK
    <3>2. ~state_calc /\ state_drain
      BY <1>11, <3>1 DEF PhaseBounds, DrainLast
    <3>3. CommandOf(req) # "start"
      BY <1>11, CommandFacts DEF go
    <3>4. ControlEdge(CommandOf(req))
      BY <1>1 DEF AccelEdge
    <3> QED
      BY <1>11, <3>2, <3>3, <3>4
      DEF ControlEdge, NextCalc, NextDrain, NextDone, CalcLast, Busy
  <2>2. RunState # "idle" /\ RunState' = "idle"
    BY <1>11, <2>1 DEF RunState
  <2>3. RunState = "sound" => mem_C' = Unit!Owed
    BY <1>1, <1>11, EndDelivers DEF RunState
  <2> QED
    BY <1>1, <1>4, <1>11, <2>1, <2>2, <2>3 DEF Unit!UnitNext, Unit!Finish
<1> QED
  BY <1>7, <1>8, <1>9, <1>10, <1>11

LEMMA ResetIsUnit ==
  ASSUME HostReset
  PROVE  Unit!UnitReset
<1>1. RunState' = "idle"
  BY DEF HostReset, AccelReset, ControlReset, RunState, Busy
<1> QED
  BY <1>1 DEF HostReset, AccelReset, ControlReset, Unit!UnitReset, Unit!Zero

LEMMA InitIsUnit ==
  ASSUME HostInit
  PROVE  Unit!UnitInit
<1>1. RunState = "idle"
  BY DEF HostInit, AccelInit, ControlInit, RunState, Busy
<1> QED
  BY <1>1 DEF HostInit, AccelInit, ControlInit, Unit!UnitInit, Unit!Zero

LEMMA QuietIsUnit ==
  ASSUME UNCHANGED hostVars
  PROVE  UNCHANGED Unit!unitVars
BY DEF hostVars, accelVars, controlVars, memVars, historyVars, Unit!unitVars, RunState, Busy

(***************************************************************************)
(* The accelerator is the unit of MatMulUnit, for every N up to 84 and     *)
(* whatever the bus carries: a run that is not disturbed delivers the      *)
(* product, entry by entry and nothing else, C and DONE keep till the next *)
(* run, and a run that is disturbed does the next one no harm.             *)
(***************************************************************************)
THEOREM ContractIsMatMulUnit ==
  ASSUME CounterFits PROVE ContractSpec => IsMatMulUnit
<1>1. HostInit => Unit!UnitInit
  BY InitIsUnit
<1>2. ContractInv /\ [ContractNext]_hostVars => [Unit!UnitNext]_(Unit!unitVars)
  <2> SUFFICES ASSUME ContractInv, [ContractNext]_hostVars
               PROVE  [Unit!UnitNext]_(Unit!unitVars)
    OBVIOUS
  <2>1. CASE HostReset
    BY <2>1, ResetIsUnit DEF Unit!UnitNext
  <2>2. ASSUME NEW req \in HostRequests, HostEdge(req)
        PROVE  Unit!UnitNext
    BY <2>2, HostAssumption, EdgeIsUnit
  <2>3. CASE UNCHANGED hostVars
    BY <2>3, QuietIsUnit
  <2> QED
    BY <2>1, <2>2, <2>3 DEF ContractNext
<1> QED
  BY <1>1, <1>2, ContractInvCorrect, PTL DEF ContractSpec, IsMatMulUnit, Unit!UnitSpec
=============================================================================
