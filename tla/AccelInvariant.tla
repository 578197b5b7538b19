---------------------------- MODULE AccelInvariant ----------------------------
(***************************************************************************)
(* The inductive invariant behind ResultCorrect: where every operand and   *)
(* every partial result is at every cycle of a run.  TLC checks it on a    *)
(* small array, AccelContractProofs proves it for every N up to 84.        *)
(*                                                                         *)
(* Operand k of lane l is fed in cycle k of phase 1 and reaches element    *)
(* (i, j) in cycle k + i + j; a cycle outside Lane stands for the zeros    *)
(* fed before and after the operands.                                      *)
(***************************************************************************)
EXTENDS AccelHistory

FedA(i, k) == IF k \in Lane THEN opA[Idx(i, k)] ELSE 0
FedB(j, k) == IF k \in Lane THEN opB[Idx(k, j)] ELSE 0

\* How many products an element has seen at time t of its own clock.
Terms(t) == IF t < 0 THEN 0 ELSE IF t > N THEN N ELSE t

Sum(i, j) == PartialDot(Row(opA, i), Col(opB, j))
Product(i, j) == Sum(i, j)[N]

\* What element (i, j) holds after the rows moved p places to the right.
Moved(i, j, p) == IF j >= p THEN Product(i, j - p) ELSE 0

-----------------------------------------------------------------------------
HistoryTypeOK ==
  /\ opA \in [Cell -> Word] /\ opB \in [Cell -> Word]
  /\ clean \in BOOLEAN

\* In phase 1, stage k of a lane is past the last operand N + k cycles on.
SkewTail ==
  state_calc =>
    \A i \in DelayedLane : \A k \in 0 .. i - 1 :
      cycle_cnt > N + k => delay_a[i][k] = 0 /\ delay_b[i][k] = 0

\* A clean run: DONE comes after it, and never during it.
CleanDone == clean /\ ctrl_done => ~Busy

\* The operands a clean run has still to feed are the ones it started with.
OperandsKept ==
  clean /\ state_calc =>
    \A i, k \in Lane : k >= cycle_cnt =>
      /\ mem_A[Idx(i, k)] = opA[Idx(i, k)]
      /\ mem_B[Idx(k, i)] = opB[Idx(k, i)]

\* Where the operands of a clean run are, in the buffers and in the mesh.
SkewAligned ==
  clean /\ state_calc =>
    \A i \in DelayedLane : \A k \in 0 .. i - 1 :
      /\ delay_a[i][k] = FedA(i, cycle_cnt - 1 - k)
      /\ delay_b[i][k] = FedB(i, cycle_cnt - 1 - k)

MeshAligned ==
  clean /\ state_calc =>
    \A i, j \in Lane :
      /\ a_out[i][j] = FedA(i, cycle_cnt - 1 - i - j)
      /\ b_out[i][j] = FedB(j, cycle_cnt - 1 - i - j)
      /\ c_reg[i][j] = Sum(i, j)[Terms(cycle_cnt - i - j)]

\* The drain phase moves the results from c_reg to a_out and on to the next
\* c_reg: one place every two cycles.
DrainAligned ==
  clean /\ state_drain =>
    \A p \in 0 .. N : \A i, j \in Lane :
      /\ cycle_cnt = 2 * p =>
           c_reg[i][j] = Moved(i, j, p) /\ a_out[i][j] = 0
      /\ cycle_cnt = 2 * p + 1 =>
           a_out[i][j] = Moved(i, j, p) /\ c_reg[i][j] = 0

\* Columns already captured, the last one first.
Captured ==
  clean /\ state_drain =>
    \A i, j \in Lane :
      2 * (N - 1 - j) + 1 < cycle_cnt => mem_C[Idx(i, j)] = Product(i, j)

(***************************************************************************)
(* The whole alignment of a clean run, cycle by cycle and register by      *)
(* register: it fails as soon as one operand is one cycle or one element   *)
(* away from where its partner expects it.                                 *)
(***************************************************************************)
RunAligned ==
  /\ SkewTail /\ CleanDone /\ OperandsKept
  /\ SkewAligned /\ MeshAligned /\ DrainAligned /\ Captured

ContractInv ==
  /\ AccelTypeOK /\ HistoryTypeOK /\ PhaseBounds
  /\ SkewFlushed /\ RunAligned /\ ResultCorrect
=============================================================================
