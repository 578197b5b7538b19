-------------------------- MODULE DeployedAccelProofs --------------------------
(***************************************************************************)
(* The theorem about the accelerator in the generated system, for every N  *)
(* up to 84, any words, any requests on the bus and any number of runs.    *)
(*                                                                         *)
(* This design clears neither the accumulators nor the operands in its     *)
(* mesh at START.  Both are part of the argument: phase 1 is long enough   *)
(* to flush the mesh as well as the skew buffers, so a run begins with     *)
(* zeros everywhere but in the accumulators, and every element then adds   *)
(* its N products to what it held.                                         *)
(***************************************************************************)
EXTENDS DeployedAccel, AccelContractProofs

OperandA(i, k) == IF k \in Lane THEN started.A[Idx(i, k)] ELSE 0
OperandB(j, k) == IF k \in Lane THEN started.B[Idx(k, j)] ELSE 0

\* The sums on top of acc, one for each number of products.
SumsOn(acc, row, col) == CHOOSE s : SumsUpTo(row, col, acc, N, s)

Sums(i, j) == SumsOn(started.C[i][j], Row(started.A, i), Col(started.B, j))

-----------------------------------------------------------------------------
StartedTypeOK ==
  /\ started \in [A : [Cell -> Word], B : [Cell -> Word], C : [Lane -> [Lane -> Word]]]
  /\ disturbed \in BOOLEAN /\ runs \in Nat

DeployedPhase ==
  /\ ~state_drain
  /\ state_calc => cycle_cnt <= 3 * N + 2 /\ ~ctrl_done

\* In phase 1 the zeros reach element (i, j) N + i + j cycles on, and then
\* stay; the mesh is empty when the phase is over.
MeshTail ==
  state_calc =>
    \A i, j \in Lane : cycle_cnt > N + i + j => a_out[i][j] = 0 /\ b_out[i][j] = 0

MeshFlushed == ~state_calc => a_out = EmptyMesh /\ b_out = EmptyMesh

\* The operands an undisturbed run has still to feed are those at START.
StartedKept ==
  ~disturbed /\ state_calc =>
    \A i, k \in Lane : k >= cycle_cnt =>
      /\ mem_A[Idx(i, k)] = started.A[Idx(i, k)]
      /\ mem_B[Idx(k, i)] = started.B[Idx(k, i)]

\* Where its operands and its sums are.
StartedInSkew ==
  ~disturbed /\ state_calc =>
    \A i \in DelayedLane : \A k \in 0 .. i - 1 :
      /\ delay_a[i][k] = OperandA(i, cycle_cnt - 1 - k)
      /\ delay_b[i][k] = OperandB(i, cycle_cnt - 1 - k)

StartedInMesh ==
  ~disturbed /\ state_calc =>
    \A i, j \in Lane :
      /\ a_out[i][j] = OperandA(i, cycle_cnt - 1 - i - j)
      /\ b_out[i][j] = OperandB(j, cycle_cnt - 1 - i - j)
      /\ c_reg[i][j] = Sums(i, j)[Terms(cycle_cnt - i - j)]

\* Before the first run the accumulators are as the reset left them.
FirstRun ==
  /\ runs = 0 => c_reg = EmptyMesh /\ ~state_calc
  /\ runs <= 1 => started.C = EmptyMesh

(***************************************************************************)
(* The inductive invariant.                                                *)
(***************************************************************************)
DeployedInv ==
  /\ AccelTypeOK /\ StartedTypeOK /\ DeployedPhase
  /\ SkewTail /\ SkewFlushed /\ MeshTail /\ MeshFlushed
  /\ StartedKept /\ StartedInSkew /\ StartedInMesh
  /\ FirstRun /\ DeployedResult

-----------------------------------------------------------------------------
(***************************************************************************)
(* The sums: their equations, and one product more for an element whose    *)
(* operands arrive; a product of zeros, which changes nothing, for one     *)
(* that waits or is finished.                                              *)
(***************************************************************************)
LEMMA SumsOnIs ==
  ASSUME NEW acc, NEW row, NEW col
  PROVE  SumsUpTo(row, col, acc, N, SumsOn(acc, row, col))
<1>1. \E s : SumsUpTo(row, col, acc, N, s)
  BY SumsExist, NAssumption
<1> QED
  BY <1>1, Zenon DEF SumsOn

LEMMA AccumulatedIs ==
  ASSUME NEW acc, NEW row, NEW col
  PROVE  Accumulated(acc, row, col) = SumsOn(acc, row, col)[N]
BY Zenon DEF Accumulated, SumsOn, SumsUpTo

LEMMA SumsOnNext ==
  ASSUME NEW acc, NEW row, NEW col, NEW k \in Lane
  PROVE  /\ SumsOn(acc, row, col)[0] = acc
         /\ SumsOn(acc, row, col)[k + 1] = Mac(row[k], col[k], SumsOn(acc, row, col)[k])
<1>1. k + 1 \in 0 .. N /\ k + 1 # 0 /\ (k + 1) - 1 = k /\ 0 \in 0 .. N
  BY NAssumption DEF Lane
<1>2. SumsUpTo(row, col, acc, N, SumsOn(acc, row, col))
  BY SumsOnIs
<1> QED
  BY <1>1, <1>2 DEF SumsUpTo

LEMMA SumsOnType ==
  ASSUME NEW acc \in Word, NEW row \in [Lane -> Word], NEW col \in [Lane -> Word],
         NEW n \in 0 .. N
  PROVE  SumsOn(acc, row, col)[n] \in Word
<1> DEFINE s == SumsOn(acc, row, col)
           S == {m \in Nat : m <= N => s[m] \in Word}
<1>1. 0 \in S
  <2>1. 0 \in Lane
    BY NAssumption DEF Lane
  <2> QED
    BY <2>1, SumsOnNext
<1>2. ASSUME NEW m \in Nat, m \in S
      PROVE  m + 1 \in S
  <2> SUFFICES ASSUME m + 1 <= N
               PROVE  s[m + 1] \in Word
    OBVIOUS
  <2>1. m \in Lane /\ m <= N
    BY NAssumption DEF Lane
  <2>2. s[m] \in Word
    BY <1>2, <2>1
  <2>3. row[m] \in Word /\ col[m] \in Word
    BY <2>1
  <2>4. s[m + 1] = Mac(row[m], col[m], s[m])
    BY <2>1, SumsOnNext
  <2> QED
    BY <2>2, <2>3, <2>4, MacType
<1> HIDE DEF S
<1>3. n \in Nat /\ n <= N
  BY NAssumption
<1>4. n \in S
  BY <1>1, <1>2, <1>3, SetInduction
<1> QED
  BY <1>3, <1>4 DEF S

LEMMA SumsStep ==
  ASSUME StartedTypeOK, NEW i \in Lane, NEW j \in Lane, NEW t \in Int
  PROVE  Sums(i, j)[Terms(t + 1)] = Mac(OperandA(i, t), OperandB(j, t), Sums(i, j)[Terms(t)])
<1>0. /\ started.C[i][j] \in Word
      /\ Row(started.A, i) \in [Lane -> Word] /\ Col(started.B, j) \in [Lane -> Word]
  BY IdxIsCell DEF StartedTypeOK, Row, Col
<1>1. N \in Nat /\ N > 0
  BY NAssumption
<1>2. CASE t \in Lane
  <2>1. Terms(t) = t /\ Terms(t + 1) = t + 1
    BY <1>1, <1>2 DEF Lane, Terms
  <2>2. Row(started.A, i)[t] = OperandA(i, t) /\ Col(started.B, j)[t] = OperandB(j, t)
    BY <1>2 DEF Row, Col, OperandA, OperandB
  <2> QED
    BY <1>2, <2>1, <2>2, SumsOnNext DEF Sums
<1>3. CASE t \notin Lane
  <2>1. Terms(t + 1) = Terms(t) /\ Terms(t) \in 0 .. N
    BY <1>1, <1>3 DEF Lane, Terms
  <2>2. OperandA(i, t) = 0 /\ OperandB(j, t) = 0
    BY <1>3 DEF OperandA, OperandB
  <2>3. Sums(i, j)[Terms(t)] \in Word
    BY <1>0, <2>1, SumsOnType DEF Sums
  <2> QED
    BY <2>1, <2>2, <2>3, MacZero
<1> QED
  BY <1>2, <1>3

-----------------------------------------------------------------------------
(***************************************************************************)
(* The control registers.                                                  *)
(***************************************************************************)
LEMMA DeployedTick ==
  ASSUME CounterFits, DeployedInv, NEW req \in Request, DeployedEdge(req)
  PROVE  /\ ControlTypeOK' /\ DeployedPhase' /\ PhaseOneTick
         /\ ~state_calc /\ clr_pe_sig(req) => state_calc' /\ cycle_cnt' = 0
         /\ ~state_calc /\ ~clr_pe_sig(req) => ~state_calc' /\ (ctrl_done' => ctrl_done)
<1> DEFINE go == CommandOf(req) = "start"
<1>1. /\ go <=> clr_pe_sig(req)
      /\ state_calc' = ((state_calc \/ go) /\ ~CalcLast)
      /\ cycle_cnt' = IF state_calc THEN Tick(cycle_cnt) ELSE IF go THEN 0 ELSE cycle_cnt
      /\ ctrl_done' = (CalcLast \/ (ctrl_done /\ ~go))
      /\ ctrl_start' \in BOOLEAN /\ state_drain' = state_drain /\ state_drain \in BOOLEAN
      /\ state_calc' \in BOOLEAN /\ ctrl_done' \in BOOLEAN
  BY CommandFacts DEF DeployedEdge, DeployedControl, DeployedInv, AccelTypeOK, ControlTypeOK
<1>2. /\ cycle_cnt \in 0 .. CounterSize - 1 /\ ~state_drain
      /\ state_calc \in BOOLEAN /\ ctrl_done \in BOOLEAN
      /\ state_calc => cycle_cnt <= 3 * N + 2 /\ ~ctrl_done
  BY DEF DeployedInv, AccelTypeOK, ControlTypeOK, DeployedPhase
<1> HIDE DEF go
<1>3. CASE state_calc
  <2>1. CASE CalcLast
    <3>1. cycle_cnt' \in 0 .. CounterSize - 1
      BY <1>1, <1>2, <1>3, TickBounds
    <3> QED
      BY <1>1, <1>2, <1>3, <2>1, <3>1 DEF ControlTypeOK, DeployedPhase, PhaseOneTick
  <2>2. CASE ~CalcLast
    <3>1. cycle_cnt # 3 * N + 2
      BY <1>3, <2>2 DEF CalcLast
    <3>2. cycle_cnt < CounterSize - 1 /\ cycle_cnt + 1 <= 3 * N + 2
      BY <1>2, <1>3, <3>1, NAssumption DEF CounterFits, CounterSize
    <3>3. cycle_cnt' = cycle_cnt + 1 /\ cycle_cnt' \in 0 .. CounterSize - 1
      BY <1>1, <1>2, <1>3, <3>2, TickBounds
    <3> QED
      BY <1>1, <1>2, <1>3, <2>2, <3>2, <3>3 DEF ControlTypeOK, DeployedPhase, PhaseOneTick
  <2> QED
    BY <2>1, <2>2
<1>4. CASE ~state_calc
  <2>1. ~CalcLast
    BY <1>4 DEF CalcLast
  <2>2. cycle_cnt' \in 0 .. CounterSize - 1 /\ 0 <= 3 * N + 2
    BY <1>1, <1>2, <1>4, ZeroIsACount, NAssumption
  <2> QED
    BY <1>1, <1>2, <1>4, <2>1, <2>2 DEF ControlTypeOK, DeployedPhase, PhaseOneTick
<1> QED
  BY <1>3, <1>4

LEMMA DeployedTypes ==
  ASSUME CounterFits, DeployedInv, NEW req \in Request, DeployedEdge(req)
  PROVE  AccelTypeOK'
<1>1. AccelTypeOK
  BY DEF DeployedInv
<1>2. ControlTypeOK'
  BY DeployedTick
<1>3. SkewTypeOK' /\ ArrayTypeOK'
  BY <1>1, EdgeSkewType, EdgeArrayType DEF DeployedEdge
<1>4. mem_A' \in [Cell -> Word] /\ mem_B' \in [Cell -> Word] /\ mem_C' \in [Cell -> Word]
  BY <1>1, BusWriteType DEF DeployedEdge, AccelTypeOK
<1>5. avs_readdata' \in Word \cup 0 .. 3
  <2>1. DeployedReadValue(req.address) \in Word \cup 0 .. 3
    <3>1. StatusWord \in 0 .. 3
      BY DEF StatusWord
    <3>2. ASSUME req.address \in Window(MEM_C)
          PROVE  c_reg[RowOf(req.address - MEM_C)][ColOf(req.address - MEM_C)] \in Word
      <4>1. req.address \in Nat
        <5>1. req.address \in Address
          BY DEF Request
        <5>2. \A a \in Address : a \in Nat
          BY DEF Address
        <5> QED
          BY <5>1, <5>2
      <4>2. req.address - MEM_C \in Cell
        BY <4>1, <3>2, NAssumption DEF Window, MEM_C, Cell
      <4>3. PICK i \in Lane, j \in Lane : req.address - MEM_C = Idx(i, j)
        BY <4>2, CellIsIdx
      <4> QED
        BY <1>1, <4>3, RowOfIdx DEF AccelTypeOK, ArrayTypeOK
    <3>3. 0 \in Word
      BY WordAssumption
    <3> QED
      BY <3>1, <3>2, <3>3 DEF DeployedReadValue
  <2> QED
    BY <1>1, <2>1 DEF DeployedEdge, AccelTypeOK
<1> QED
  BY <1>2, <1>3, <1>4, <1>5 DEF AccelTypeOK

-----------------------------------------------------------------------------
(***************************************************************************)
(* What an edge does to the mesh: nothing outside phase 1.                 *)
(***************************************************************************)
LEMMA DeployedMesh ==
  ASSUME NEW req \in Request, DeployedEdge(req)
  PROVE  /\ ~state_calc => a_out' = a_out /\ b_out' = b_out /\ c_reg' = c_reg
         /\ state_calc =>
              /\ a_out' = [i \in Lane |-> [j \in Lane |-> AIn(a_skewed, i, j)]]
              /\ b_out' = [i \in Lane |-> [j \in Lane |-> BIn(b_skewed, i, j)]]
              /\ c_reg' = [i \in Lane |-> [j \in Lane |->
                             Mac(AIn(a_skewed, i, j), BIn(b_skewed, i, j), c_reg[i][j])]]
BY DEF DeployedEdge, ArrayEdge, Cleared, arrayVars

\* Zeros follow the operands through the mesh, as they do in the buffers.
LEMMA ZerosFollow ==
  ASSUME DeployedInv, state_calc, NEW i \in Lane, NEW j \in Lane, cycle_cnt >= N + i + j
  PROVE  AIn(a_skewed, i, j) = 0 /\ BIn(b_skewed, i, j) = 0
<1>1. cycle_cnt \in Nat /\ N \in Nat /\ i \in Nat /\ j \in Nat
  BY NAssumption DEF DeployedInv, AccelTypeOK, ControlTypeOK, CounterSize, Lane
<1>2. ASSUME NEW g \in Lane, cycle_cnt >= N + g
      PROVE  a_skewed[g] = 0 /\ b_skewed[g] = 0
  <2>1. CASE g = 0
    <3>1. ~(cycle_cnt < N)
      BY <1>1, <1>2, <2>1
    <3> QED
      BY <2>1, <3>1 DEF a_skewed, b_skewed, Skewed, a_col_feed, b_row_feed
  <2>2. CASE g # 0
    <3>1. g \in DelayedLane /\ g - 1 \in 0 .. g - 1 /\ cycle_cnt > N + (g - 1)
      BY <1>1, <1>2, <2>2 DEF Lane, DelayedLane
    <3>2. delay_a[g][g - 1] = 0 /\ delay_b[g][g - 1] = 0
      BY <3>1 DEF DeployedInv, SkewTail
    <3> QED
      BY <2>2, <3>2 DEF a_skewed, b_skewed, Skewed
  <2> QED
    BY <2>1, <2>2
<1>3. AIn(a_skewed, i, j) = 0
  <2>1. CASE j = 0
    <3>1. cycle_cnt >= N + i
      BY <1>1, <2>1
    <3> QED
      BY <1>2, <2>1, <3>1 DEF AIn
  <2>2. CASE j # 0
    <3>1. j - 1 \in Lane /\ cycle_cnt > N + i + (j - 1)
      BY <1>1, <2>2 DEF Lane
    <3> QED
      BY <2>2, <3>1 DEF AIn, DeployedInv, MeshTail
  <2> QED
    BY <2>1, <2>2
<1>4. BIn(b_skewed, i, j) = 0
  <2>1. CASE i = 0
    <3>1. cycle_cnt >= N + j
      BY <1>1, <2>1
    <3> QED
      BY <1>2, <2>1, <3>1 DEF BIn
  <2>2. CASE i # 0
    <3>1. i - 1 \in Lane /\ cycle_cnt > N + (i - 1) + j
      BY <1>1, <2>2 DEF Lane
    <3> QED
      BY <2>2, <3>1 DEF BIn, DeployedInv, MeshTail
  <2> QED
    BY <2>1, <2>2
<1> QED
  BY <1>3, <1>4

LEMMA DeployedFlush ==
  ASSUME CounterFits, DeployedInv, NEW req \in Request, DeployedEdge(req)
  PROVE  SkewTail' /\ SkewFlushed' /\ MeshTail' /\ MeshFlushed'
<1>1. PhaseOneTick
  BY DeployedTick
<1>2. SkewTail' /\ SkewFlushed'
  BY <1>1, EdgeSkewFlushed DEF DeployedInv, DeployedEdge
<1>3. CASE ~state_calc
  <2>1. a_out' = EmptyMesh /\ b_out' = EmptyMesh
    BY <1>3, DeployedMesh DEF DeployedInv, MeshFlushed
  <2> QED
    BY <1>2, <2>1 DEF MeshTail, MeshFlushed, EmptyMesh
<1>4. CASE state_calc
  <2>1. cycle_cnt \in Nat /\ N \in Nat
    BY NAssumption DEF DeployedInv, AccelTypeOK, ControlTypeOK, CounterSize
  <2>2. ASSUME NEW i \in Lane, NEW j \in Lane, cycle_cnt >= N + i + j
        PROVE  a_out'[i][j] = 0 /\ b_out'[i][j] = 0
    BY <1>4, <2>2, ZerosFollow, DeployedMesh
  <2>3. CASE CalcLast
    <3>1. cycle_cnt = 3 * N + 2 /\ ~state_calc'
      BY <1>1, <2>3 DEF CalcLast, PhaseOneTick
    <3>2. ASSUME NEW i \in Lane, NEW j \in Lane
          PROVE  a_out'[i][j] = 0 /\ b_out'[i][j] = 0
      <4>1. cycle_cnt >= N + i + j
        BY <2>1, <3>1 DEF Lane
      <4> QED
        BY <2>2, <4>1
    <3>3. a_out' = EmptyMesh
      <4>1. a_out' = [i \in Lane |-> [j \in Lane |-> a_out'[i][j]]]
        BY <1>4, DeployedMesh
      <4> QED
        BY <3>2, <4>1 DEF EmptyMesh
    <3>4. b_out' = EmptyMesh
      <4>1. b_out' = [i \in Lane |-> [j \in Lane |-> b_out'[i][j]]]
        BY <1>4, DeployedMesh
      <4> QED
        BY <3>2, <4>1 DEF EmptyMesh
    <3> QED
      BY <1>2, <3>1, <3>3, <3>4 DEF MeshTail, MeshFlushed
  <2>4. CASE ~CalcLast
    <3>1. state_calc' /\ cycle_cnt' = cycle_cnt + 1
      BY <1>1, <1>4, <2>4 DEF PhaseOneTick
    <3>2. ASSUME NEW i \in Lane, NEW j \in Lane, cycle_cnt' > N + i + j
          PROVE  cycle_cnt >= N + i + j
      BY <2>1, <3>1, <3>2 DEF Lane
    <3> QED
      BY <1>2, <2>2, <3>1, <3>2 DEF MeshTail, MeshFlushed
  <2> QED
    BY <2>3, <2>4
<1> QED
  BY <1>3, <1>4

-----------------------------------------------------------------------------
(***************************************************************************)
(* Where the operands of an undisturbed run are when they reach an         *)
(* element.                                                                *)
(***************************************************************************)
LEMMA StartedFeed ==
  ASSUME DeployedInv, ~disturbed, state_calc, NEW g \in Lane
  PROVE  /\ a_col_feed[g] = OperandA(g, cycle_cnt)
         /\ b_row_feed[g] = OperandB(g, cycle_cnt)
<1>1. cycle_cnt \in Nat /\ N \in Nat
  BY NAssumption DEF DeployedInv, AccelTypeOK, ControlTypeOK, CounterSize
<1>2. CASE cycle_cnt < N
  <2>1. cycle_cnt \in Lane /\ cycle_cnt >= cycle_cnt
    BY <1>1, <1>2 DEF Lane
  <2>2. /\ mem_A[Idx(g, cycle_cnt)] = started.A[Idx(g, cycle_cnt)]
        /\ mem_B[Idx(cycle_cnt, g)] = started.B[Idx(cycle_cnt, g)]
    BY <2>1 DEF DeployedInv, StartedKept
  <2> QED
    BY <1>2, <2>1, <2>2 DEF a_col_feed, b_row_feed, OperandA, OperandB
<1>3. CASE ~(cycle_cnt < N)
  <2>1. cycle_cnt \notin Lane
    BY <1>1, <1>3 DEF Lane
  <2> QED
    BY <1>3, <2>1 DEF a_col_feed, b_row_feed, OperandA, OperandB
<1> QED
  BY <1>2, <1>3

LEMMA StartedInputs ==
  ASSUME DeployedInv, ~disturbed, state_calc, NEW i \in Lane, NEW j \in Lane
  PROVE  /\ AIn(a_skewed, i, j) = OperandA(i, cycle_cnt - i - j)
         /\ BIn(b_skewed, i, j) = OperandB(j, cycle_cnt - i - j)
<1>1. cycle_cnt \in Nat /\ N \in Nat /\ i \in Nat /\ j \in Nat
  BY NAssumption DEF DeployedInv, AccelTypeOK, ControlTypeOK, CounterSize, Lane
<1>2. ASSUME NEW g \in Lane
      PROVE  /\ a_skewed[g] = OperandA(g, cycle_cnt - g)
             /\ b_skewed[g] = OperandB(g, cycle_cnt - g)
  <2>1. CASE g = 0
    <3>1. a_skewed[g] = a_col_feed[g] /\ b_skewed[g] = b_row_feed[g]
      BY <2>1 DEF a_skewed, b_skewed, Skewed
    <3>2. cycle_cnt - g = cycle_cnt
      BY <1>1, <2>1
    <3> QED
      BY <3>1, <3>2, StartedFeed
  <2>2. CASE g # 0
    <3>1. g \in DelayedLane /\ g - 1 \in 0 .. g - 1
      BY <2>2, NAssumption DEF Lane, DelayedLane
    <3>2. cycle_cnt - 1 - (g - 1) = cycle_cnt - g
      BY <1>1, <3>1 DEF DelayedLane
    <3>3. /\ delay_a[g][g - 1] = OperandA(g, cycle_cnt - 1 - (g - 1))
          /\ delay_b[g][g - 1] = OperandB(g, cycle_cnt - 1 - (g - 1))
      BY <3>1 DEF DeployedInv, StartedInSkew
    <3> QED
      BY <2>2, <3>2, <3>3 DEF a_skewed, b_skewed, Skewed
  <2> QED
    BY <2>1, <2>2
<1>3. ASSUME NEW r \in Lane, NEW c \in Lane
      PROVE  /\ a_out[r][c] = OperandA(r, cycle_cnt - 1 - r - c)
             /\ b_out[r][c] = OperandB(c, cycle_cnt - 1 - r - c)
  BY DEF DeployedInv, StartedInMesh
<1>4. AIn(a_skewed, i, j) = OperandA(i, cycle_cnt - i - j)
  <2>1. CASE j = 0
    <3>1. cycle_cnt - i - j = cycle_cnt - i
      BY <1>1, <2>1
    <3> QED
      BY <1>2, <2>1, <3>1 DEF AIn
  <2>2. CASE j # 0
    <3>1. j - 1 \in Lane /\ cycle_cnt - 1 - i - (j - 1) = cycle_cnt - i - j
      BY <1>1, <2>2 DEF Lane
    <3> QED
      BY <1>3, <2>2, <3>1 DEF AIn
  <2> QED
    BY <2>1, <2>2
<1>5. BIn(b_skewed, i, j) = OperandB(j, cycle_cnt - i - j)
  <2>1. CASE i = 0
    <3>1. cycle_cnt - i - j = cycle_cnt - j
      BY <1>1, <2>1
    <3> QED
      BY <1>2, <2>1, <3>1 DEF BIn
  <2>2. CASE i # 0
    <3>1. i - 1 \in Lane /\ cycle_cnt - 1 - (i - 1) - j = cycle_cnt - i - j
      BY <1>1, <2>2 DEF Lane
    <3> QED
      BY <1>3, <2>2, <3>1 DEF BIn
  <2> QED
    BY <2>1, <2>2
<1> QED
  BY <1>4, <1>5

LEMMA StartedMesh ==
  ASSUME DeployedInv, ~disturbed, state_calc,
         NEW req \in Request, DeployedEdge(req),
         NEW i \in Lane, NEW j \in Lane
  PROVE  /\ a_out'[i][j] = OperandA(i, cycle_cnt - i - j)
         /\ b_out'[i][j] = OperandB(j, cycle_cnt - i - j)
         /\ c_reg'[i][j] = Sums(i, j)[Terms(cycle_cnt + 1 - i - j)]
<1>1. /\ a_out'[i][j] = AIn(a_skewed, i, j)
      /\ b_out'[i][j] = BIn(b_skewed, i, j)
      /\ c_reg'[i][j] = Mac(AIn(a_skewed, i, j), BIn(b_skewed, i, j), c_reg[i][j])
  BY DeployedMesh
<1>2. c_reg[i][j] = Sums(i, j)[Terms(cycle_cnt - i - j)]
  BY DEF DeployedInv, StartedInMesh
<1>3. /\ cycle_cnt - i - j \in Int
      /\ cycle_cnt + 1 - i - j = (cycle_cnt - i - j) + 1
  BY NAssumption DEF DeployedInv, AccelTypeOK, ControlTypeOK, CounterSize, Lane
<1>4. Sums(i, j)[Terms((cycle_cnt - i - j) + 1)]
        = Mac(OperandA(i, cycle_cnt - i - j), OperandB(j, cycle_cnt - i - j),
              Sums(i, j)[Terms(cycle_cnt - i - j)])
  BY <1>3, SumsStep DEF DeployedInv
<1> QED
  BY <1>1, <1>2, <1>3, <1>4, StartedInputs

-----------------------------------------------------------------------------
\* Everything the invariant says of a run and its result.
StartedInv ==
  /\ StartedTypeOK /\ StartedKept /\ StartedInSkew /\ StartedInMesh
  /\ FirstRun /\ DeployedResult

(***************************************************************************)
(* A run begins: the buffers and the mesh are empty, the accumulators as   *)
(* they are.                                                               *)
(***************************************************************************)
LEMMA BeginStarted ==
  ASSUME CounterFits, DeployedInv, NEW req \in Request, DeployedHost(req),
         clr_pe_sig(req), ~state_calc
  PROVE  StartedInv'
<1>1. /\ DeployedEdge(req) /\ started' = [A |-> mem_A, B |-> mem_B, C |-> c_reg]
      /\ runs' = runs + 1 /\ disturbed' = FALSE
  BY DEF DeployedHost, Start
<1>2. state_calc' /\ cycle_cnt' = 0 /\ ~ctrl_done'
  BY <1>1, DeployedTick DEF DeployedPhase
<1>3. mem_A' = mem_A /\ mem_B' = mem_B
  BY <1>1, StartWritesNoOperand DEF DeployedEdge
<1>4. c_reg' = c_reg /\ a_out' = EmptyMesh /\ b_out' = EmptyMesh
  BY <1>1, DeployedMesh DEF DeployedInv, MeshFlushed
<1>5. delay_a' = EmptyDelay /\ delay_b' = EmptyDelay
  BY <1>1 DEF DeployedInv, SkewFlushed, DeployedEdge, SkewEdge
<1>6. StartedTypeOK'
  <2>1. /\ mem_A \in [Cell -> Word] /\ mem_B \in [Cell -> Word]
        /\ c_reg \in [Lane -> [Lane -> Word]] /\ runs \in Nat
    BY DEF DeployedInv, AccelTypeOK, ArrayTypeOK, StartedTypeOK
  <2>2. started' \in [A : [Cell -> Word], B : [Cell -> Word], C : [Lane -> [Lane -> Word]]]
    BY <1>1, <2>1
  <2>3. runs' \in Nat
    <3>1. runs' = runs + 1
      BY <1>1
    <3> QED
      BY <2>1, <3>1
  <2> QED
    BY <1>1, <2>2, <2>3 DEF StartedTypeOK
<1>7. StartedKept'
  BY <1>1, <1>3 DEF StartedKept
<1>8. StartedInSkew'
  <2>1. ASSUME NEW i \in DelayedLane, NEW k \in 0 .. i - 1
        PROVE  OperandA(i, cycle_cnt - 1 - k)' = 0 /\ OperandB(i, cycle_cnt - 1 - k)' = 0
    <3>1. cycle_cnt' - 1 - k \notin Lane
      BY <1>2 DEF Lane, DelayedLane
    <3> QED
      BY <3>1 DEF OperandA, OperandB
  <2> QED
    BY <1>5, <2>1, EmptyDelayFacts DEF StartedInSkew
<1>9. StartedInMesh'
  <2>1. ASSUME NEW i \in Lane, NEW j \in Lane
        PROVE  cycle_cnt' - 1 - i - j \notin Lane /\ Terms(cycle_cnt' - i - j) = 0
    BY <1>2, NAssumption DEF Lane, Terms
  <2>2. ASSUME NEW i \in Lane, NEW j \in Lane
        PROVE  /\ OperandA(i, cycle_cnt - 1 - i - j)' = 0
               /\ OperandB(j, cycle_cnt - 1 - i - j)' = 0
    BY <2>1 DEF OperandA, OperandB
  <2>3. ASSUME NEW i \in Lane, NEW j \in Lane
        PROVE  (Sums(i, j)[Terms(cycle_cnt - i - j)])' = c_reg[i][j]
    <3>1. Terms(cycle_cnt - i - j)' = 0
      BY <2>1 DEF Terms
    <3>2. Sums(i, j)'[0] = started'.C[i][j]
      <4>1. 0 \in Lane
        BY NAssumption DEF Lane
      <4> QED
        BY <4>1, SumsOnNext DEF Sums
    <3> QED
      BY <1>1, <3>1, <3>2
  <2>4. ASSUME NEW i \in Lane, NEW j \in Lane
        PROVE  a_out'[i][j] = 0 /\ b_out'[i][j] = 0
    BY <1>4 DEF EmptyMesh
  <2> QED
    BY <1>4, <2>2, <2>3, <2>4 DEF StartedInMesh
<1>10. FirstRun'
  <2>1. runs \in Nat /\ (runs = 0 => c_reg = EmptyMesh)
    BY DEF DeployedInv, StartedTypeOK, FirstRun
  <2>2. started'.C = c_reg
    BY <1>1
  <2>3. runs' # 0 /\ (runs' <= 1 => runs = 0)
    BY <1>1, <2>1
  <2> QED
    BY <2>1, <2>2, <2>3 DEF FirstRun
<1> QED
  BY <1>2, <1>6, <1>7, <1>8, <1>9, <1>10 DEF StartedInv, DeployedResult, FirstRun

(***************************************************************************)
(* A run goes on.                                                          *)
(***************************************************************************)
LEMMA CalcStarted ==
  ASSUME CounterFits, DeployedInv, NEW req \in Request, DeployedHost(req),
         state_calc, ~CalcLast
  PROVE  StartedInv'
<1>1. /\ DeployedEdge(req) /\ started' = started /\ runs' = runs
      /\ disturbed' = (disturbed \/ Changes)
  BY DEF DeployedHost
<1>2. state_calc' /\ cycle_cnt' = cycle_cnt + 1 /\ ~ctrl_done'
  BY <1>1, DeployedTick DEF DeployedPhase, PhaseOneTick
<1>3. cycle_cnt \in Nat /\ N \in Nat
  BY NAssumption DEF DeployedInv, AccelTypeOK, ControlTypeOK, CounterSize
<1>4. StartedTypeOK'
  BY <1>1 DEF DeployedInv, StartedTypeOK
<1>5. FirstRun' /\ DeployedResult'
  BY <1>1, <1>2 DEF DeployedInv, FirstRun, DeployedResult
<1>6. ASSUME ~disturbed'
      PROVE  StartedKept' /\ StartedInSkew' /\ StartedInMesh'
  <2>0. ~disturbed /\ ~Changes
    BY <1>1, <1>6
  <2>1. StartedKept'
    <3>1. ASSUME NEW i \in Lane, NEW k \in Lane, k >= cycle_cnt'
          PROVE  /\ mem_A'[Idx(i, k)] = started.A[Idx(i, k)]
                 /\ mem_B'[Idx(k, i)] = started.B[Idx(k, i)]
      <4>1. k > cycle_cnt /\ k >= cycle_cnt
        BY <1>2, <1>3, <3>1 DEF Lane
      <4>2. /\ mem_A'[Idx(i, k)] = mem_A[Idx(i, k)]
            /\ mem_B'[Idx(k, i)] = mem_B[Idx(k, i)]
        BY <2>0, <4>1 DEF Changes
      <4>3. /\ mem_A[Idx(i, k)] = started.A[Idx(i, k)]
            /\ mem_B[Idx(k, i)] = started.B[Idx(k, i)]
        BY <2>0, <4>1 DEF DeployedInv, StartedKept
      <4> QED
        BY <4>2, <4>3
    <3> QED
      BY <1>1, <3>1 DEF StartedKept
  <2>2. StartedInSkew'
    <3>1. ASSUME NEW i \in DelayedLane, NEW k \in 0 .. i - 1
          PROVE  /\ delay_a'[i][k] = OperandA(i, cycle_cnt - k)
                 /\ delay_b'[i][k] = OperandB(i, cycle_cnt - k)
      <4>1. /\ delay_a' = Shifted(delay_a, a_col_feed)
            /\ delay_b' = Shifted(delay_b, b_row_feed)
        BY <1>1 DEF DeployedEdge, SkewEdge
      <4>2. CASE k = 0
        <5>1. i \in Lane /\ cycle_cnt - k = cycle_cnt
          BY <1>3, <4>2 DEF Lane, DelayedLane
        <5>2. /\ a_col_feed[i] = OperandA(i, cycle_cnt)
              /\ b_row_feed[i] = OperandB(i, cycle_cnt)
          BY <2>0, <5>1, StartedFeed
        <5> QED
          BY <4>1, <4>2, <5>1, <5>2 DEF Shifted
      <4>3. CASE k # 0
        <5>1. k - 1 \in 0 .. i - 1 /\ cycle_cnt - 1 - (k - 1) = cycle_cnt - k
          BY <1>3, <4>3 DEF DelayedLane
        <5>2. /\ delay_a[i][k - 1] = OperandA(i, cycle_cnt - 1 - (k - 1))
              /\ delay_b[i][k - 1] = OperandB(i, cycle_cnt - 1 - (k - 1))
          BY <2>0, <5>1 DEF DeployedInv, StartedInSkew
        <5> QED
          BY <4>1, <4>3, <5>1, <5>2 DEF Shifted
      <4> QED
        BY <4>2, <4>3
    <3>2. ASSUME NEW i \in DelayedLane, NEW k \in 0 .. i - 1
          PROVE  cycle_cnt' - 1 - k = cycle_cnt - k
      BY <1>2, <1>3 DEF DelayedLane
    <3> QED
      BY <1>1, <3>1, <3>2 DEF StartedInSkew, OperandA, OperandB
  <2>3. StartedInMesh'
    <3>1. ASSUME NEW i \in Lane, NEW j \in Lane
          PROVE  /\ cycle_cnt' - 1 - i - j = cycle_cnt - i - j
                 /\ cycle_cnt' - i - j = cycle_cnt + 1 - i - j
      BY <1>2, <1>3 DEF Lane
    <3>2. ASSUME NEW i \in Lane, NEW j \in Lane
          PROVE  /\ a_out'[i][j] = OperandA(i, cycle_cnt - 1 - i - j)'
                 /\ b_out'[i][j] = OperandB(j, cycle_cnt - 1 - i - j)'
      BY <1>1, <2>0, <3>1, StartedMesh DEF OperandA, OperandB
    <3>3. ASSUME NEW i \in Lane, NEW j \in Lane
          PROVE  c_reg'[i][j] = (Sums(i, j)[Terms(cycle_cnt - i - j)])'
      <4>1. Sums(i, j)' = Sums(i, j)
        BY <1>1 DEF Sums
      <4>2. Terms(cycle_cnt - i - j)' = Terms(cycle_cnt + 1 - i - j)
        BY <3>1 DEF Terms
      <4> QED
        BY <1>1, <2>0, <4>1, <4>2, StartedMesh
    <3> QED
      BY <3>2, <3>3 DEF StartedInMesh
  <2> QED
    BY <2>1, <2>2, <2>3
<1>7. CASE disturbed'
  BY <1>4, <1>5, <1>7 DEF StartedInv, StartedKept, StartedInSkew, StartedInMesh
<1> QED
  BY <1>4, <1>5, <1>6, <1>7 DEF StartedInv

(***************************************************************************)
(* A run ends: every element has seen its N products.                      *)
(***************************************************************************)
LEMMA EndStarted ==
  ASSUME CounterFits, DeployedInv, NEW req \in Request, DeployedHost(req),
         state_calc, CalcLast
  PROVE  StartedInv'
<1>1. /\ DeployedEdge(req) /\ started' = started /\ runs' = runs
      /\ disturbed' = (disturbed \/ Changes)
  BY DEF DeployedHost
<1>2. ~state_calc'
  BY <1>1, DeployedTick DEF PhaseOneTick
<1>3. cycle_cnt = 3 * N + 2 /\ N \in Nat
  BY NAssumption DEF CalcLast
<1>4. StartedTypeOK'
  BY <1>1 DEF DeployedInv, StartedTypeOK
<1>5. FirstRun'
  BY <1>1, <1>2 DEF DeployedInv, FirstRun
<1>6. DeployedResult'
  <2>1. runs' <= 1 => started'.C = EmptyMesh
    BY <1>1 DEF DeployedInv, FirstRun
  <2>2. ASSUME ~disturbed', NEW i \in Lane, NEW j \in Lane
        PROVE  c_reg'[i][j]
                 = Accumulated(started'.C[i][j], Row(started'.A, i), Col(started'.B, j))
    <3>1. c_reg'[i][j] = Sums(i, j)[Terms(cycle_cnt + 1 - i - j)]
      BY <1>1, <2>2, StartedMesh
    <3>2. Terms(cycle_cnt + 1 - i - j) = N
      BY <1>3 DEF Lane, Terms
    <3> QED
      BY <1>1, <3>1, <3>2, AccumulatedIs DEF Sums
  <2> QED
    BY <2>1, <2>2 DEF DeployedResult
<1> QED
  BY <1>2, <1>4, <1>5, <1>6 DEF StartedInv, StartedKept, StartedInSkew, StartedInMesh

(***************************************************************************)
(* Between the runs the accumulators keep the result.                      *)
(***************************************************************************)
LEMMA IdleStarted ==
  ASSUME CounterFits, DeployedInv, NEW req \in Request, DeployedHost(req),
         ~state_calc, ~clr_pe_sig(req)
  PROVE  StartedInv'
<1>1. /\ DeployedEdge(req) /\ started' = started /\ runs' = runs
      /\ disturbed' = disturbed
  BY DEF DeployedHost, Changes, DeployedInv, StartedTypeOK
<1>2. ~state_calc' /\ (ctrl_done' => ctrl_done)
  BY <1>1, DeployedTick
<1>3. c_reg' = c_reg
  BY <1>1, DeployedMesh
<1>4. StartedTypeOK'
  BY <1>1 DEF DeployedInv, StartedTypeOK
<1>5. FirstRun' /\ DeployedResult'
  BY <1>1, <1>2, <1>3 DEF DeployedInv, FirstRun, DeployedResult
<1> QED
  BY <1>2, <1>4, <1>5 DEF StartedInv, StartedKept, StartedInSkew, StartedInMesh

-----------------------------------------------------------------------------
(***************************************************************************)
(* The invariant is inductive.                                             *)
(***************************************************************************)
LEMMA DeployedEdgeInv ==
  ASSUME CounterFits, DeployedInv, NEW req \in Request, DeployedHost(req)
  PROVE  DeployedInv'
<1>1. DeployedEdge(req)
  BY DEF DeployedHost
<1>2. StartedInv'
  BY BeginStarted, CalcStarted, EndStarted, IdleStarted
<1> QED
  BY <1>1, <1>2, DeployedTypes, DeployedTick, DeployedFlush DEF DeployedInv, StartedInv

LEMMA DeployedResetInv ==
  ASSUME DeployedReset
  PROVE  DeployedInv'
<1>1. /\ ControlReset /\ SkewReset /\ ArrayClear /\ disturbed' = FALSE /\ runs' = 0
      /\ ~state_calc' /\ ~state_drain' /\ ~ctrl_done'
      /\ started' = [A |-> mem_A', B |-> mem_B', C |-> c_reg']
  BY DEF DeployedReset, AccelReset, ControlReset, Start
<1>2. ControlTypeOK' /\ DeployedPhase'
  BY <1>1, ResetType DEF DeployedPhase
<1>3. SkewTypeOK' /\ SkewFlushed'
  BY <1>1, EmptyDelayFacts DEF SkewReset, SkewTypeOK, SkewFlushed
<1>4. /\ ArrayTypeOK' /\ MeshFlushed' /\ c_reg' = EmptyMesh
      /\ c_reg' \in [Lane -> [Lane -> Word]]
  BY <1>1, EmptyMeshType DEF ArrayClear, ArrayTypeOK, MeshFlushed
<1>5. /\ mem_A' \in [Cell -> Word] /\ mem_B' \in [Cell -> Word]
      /\ mem_C' \in [Cell -> Word] /\ avs_readdata' \in Word \cup 0 .. 3
  BY ZeroMemory, WordAssumption DEF DeployedReset, AccelReset
<1>6. AccelTypeOK'
  BY <1>2, <1>3, <1>4, <1>5 DEF AccelTypeOK
<1>7. StartedTypeOK'
  BY <1>1, <1>4, <1>5 DEF StartedTypeOK
<1>8. started'.C = EmptyMesh
  BY <1>1, <1>4
<1> QED
  BY <1>1, <1>2, <1>3, <1>4, <1>6, <1>7, <1>8
  DEF DeployedInv, SkewTail, MeshTail, StartedKept, StartedInSkew, StartedInMesh,
      FirstRun, DeployedResult

LEMMA DeployedInitInv ==
  ASSUME DeployedInit
  PROVE  DeployedInv
<1>1. /\ ControlInit /\ SkewInit /\ ArrayInit /\ disturbed = FALSE /\ runs = 0
      /\ ~state_calc /\ ~state_drain /\ ~ctrl_done
      /\ started = [A |-> mem_A, B |-> mem_B, C |-> c_reg]
  BY DEF DeployedInit, AccelInit, ControlInit, Start
<1>2. ControlTypeOK /\ DeployedPhase
  BY <1>1, ControlInvInit DEF ControlInv, DeployedPhase
<1>3. SkewTypeOK /\ SkewFlushed
  BY <1>1, EmptyDelayFacts DEF SkewInit, SkewTypeOK, SkewFlushed
<1>4. /\ ArrayTypeOK /\ MeshFlushed /\ c_reg = EmptyMesh
      /\ c_reg \in [Lane -> [Lane -> Word]]
  BY <1>1, EmptyMeshType DEF ArrayInit, ArrayTypeOK, MeshFlushed
<1>5. /\ mem_A \in [Cell -> Word] /\ mem_B \in [Cell -> Word]
      /\ mem_C \in [Cell -> Word] /\ avs_readdata \in Word \cup 0 .. 3
  BY ZeroMemory, WordAssumption DEF DeployedInit, AccelInit
<1>6. AccelTypeOK
  BY <1>2, <1>3, <1>4, <1>5 DEF AccelTypeOK
<1>7. StartedTypeOK
  BY <1>1, <1>4, <1>5 DEF StartedTypeOK
<1>8. started.C = EmptyMesh
  BY <1>1, <1>4
<1> QED
  BY <1>1, <1>2, <1>3, <1>4, <1>6, <1>7, <1>8
  DEF DeployedInv, SkewTail, MeshTail, StartedKept, StartedInSkew, StartedInMesh,
      FirstRun, DeployedResult

LEMMA DeployedStep ==
  ASSUME CounterFits, DeployedInv, [DeployedNext]_deployedVars
  PROVE  DeployedInv'
<1>1. CASE DeployedReset
  BY <1>1, DeployedResetInv
<1>2. ASSUME NEW req \in DeployedRequests, DeployedHost(req)
      PROVE  DeployedInv'
  BY <1>2, DeployedAssumption, DeployedEdgeInv
<1>3. CASE UNCHANGED deployedVars
  BY <1>3
  DEF deployedVars, accelVars, controlVars, skewVars, arrayVars, memVars,
      DeployedInv, AccelTypeOK, ControlTypeOK, SkewTypeOK, ArrayTypeOK, StartedTypeOK,
      DeployedPhase, SkewTail, SkewFlushed, MeshTail, MeshFlushed, StartedKept,
      StartedInSkew, StartedInMesh, FirstRun, DeployedResult, OperandA, OperandB, Sums
<1> QED
  BY <1>1, <1>2, <1>3 DEF DeployedNext

(***************************************************************************)
(* In every cycle of an undisturbed run the operands and the sums are      *)
(* where the delays of the buffers and of the mesh should have brought     *)
(* them, and between the runs buffers and mesh hold zeros.                 *)
(***************************************************************************)
THEOREM DeployedInvariant ==
  ASSUME CounterFits PROVE DeployedSpec => []DeployedInv
<1>1. DeployedInit => DeployedInv
  BY DeployedInitInv
<1>2. DeployedInv /\ [DeployedNext]_deployedVars => DeployedInv'
  BY DeployedStep
<1> QED
  BY <1>1, <1>2, PTL DEF DeployedSpec

(***************************************************************************)
(* DONE after an undisturbed run means that the product of the operands at *)
(* START was added to what the accumulators held, which is zero in the     *)
(* first run after a reset and only then known to be (pe_fp16.v:22-32,     *)
(* matrix_accel_top_systolic_array.v:70-91 of src/system/synthesis/        *)
(* submodules).                                                            *)
(***************************************************************************)
THEOREM DeployedResultCorrect ==
  ASSUME CounterFits PROVE DeployedSpec => []DeployedResult
<1>1. DeployedInv => DeployedResult
  BY DEF DeployedInv
<1> QED
  BY <1>1, DeployedInvariant, PTL
=============================================================================
