----------------------------- MODULE AccelHistory -----------------------------
(***************************************************************************)
(* The accelerator with history variables that say what it owes.  opA and  *)
(* opB are the operands at the START that found the machine idle; clean    *)
(* says that nothing since that START has voided the run: no second START  *)
(* while the machine was busy, no change of a column of A or a row of B    *)
(* that was still to be fed.  The device does not read them.               *)
(***************************************************************************)
EXTENDS MatrixAccel

VARIABLES opA, opB, clean

historyVars == <<opA, opB, clean>>
hostVars == <<accelVars, historyVars>>

HostInit ==
  /\ AccelInit
  /\ opA = mem_A /\ opB = mem_B
  /\ clean = FALSE

\* The edge changes an operand that this run has not fed yet (an operand
\* that is fed at this very edge is still read with its old value).
Disturbs ==
  /\ state_calc
  /\ \E i, k \in Lane :
       /\ k > cycle_cnt
       /\ \/ mem_A'[Idx(i, k)] # mem_A[Idx(i, k)]
          \/ mem_B'[Idx(k, i)] # mem_B[Idx(k, i)]

HostEdge(req) ==
  LET go == clr_pe_sig(req)
  IN  /\ AccelEdge(req)
      /\ clean' = IF go THEN ~Busy ELSE clean /\ ~Disturbs
      /\ opA' = IF go /\ ~Busy THEN mem_A ELSE opA
      /\ opB' = IF go /\ ~Busy THEN mem_B ELSE opB

HostReset ==
  /\ AccelReset
  /\ opA' = mem_A' /\ opB' = mem_B'
  /\ clean' = FALSE

-----------------------------------------------------------------------------
(***************************************************************************)
(* What the accelerator promises.  If DONE is set and the run was clean,   *)
(* C is the product of the operands that were in A and B at START: every   *)
(* operand met its partner in every element, all of them, once and in      *)
(* order; nothing of an earlier run - however that one was abused - was    *)
(* left in the array or the skew buffers; and every column left the array  *)
(* into its own cells.  Operands may be overwritten for the next run as    *)
(* soon as they are fed.                                                   *)
(***************************************************************************)
ResultCorrect ==
  clean /\ ctrl_done =>
    \A i, j \in Lane : mem_C[Idx(i, j)] = Dot(Row(opA, i), Col(opB, j))

(***************************************************************************)
(* The same as a machine: whatever the bus, the device is the unit of      *)
(* MatMulUnit.  It adds to ResultCorrect that C keeps a result until the   *)
(* next run, that a cell of C never shows a partial sum or the entry of    *)
(* another cell while a clean run goes on, and that DONE is taken back by  *)
(* START and by nothing else.                                              *)
(***************************************************************************)
MatrixProduct(A, B) == [c \in Cell |-> Dot(Row(A, RowOf(c)), Col(B, ColOf(c)))]

RunState == IF ~Busy THEN "idle" ELSE IF clean THEN "sound" ELSE "voided"

Unit == INSTANCE MatMulUnit WITH
          A <- mem_A, B <- mem_B, C <- mem_C, done <- ctrl_done, run <- RunState,
          operands <- <<opA, opB>>, Product <- MatrixProduct

IsMatMulUnit == Unit!UnitSpec

(***************************************************************************)
(* The skew buffers, which START does not clear and which stand still      *)
(* outside phase 1, are empty whenever the machine is outside phase 1: the *)
(* 2N+3 extra cycles of the phase always flush them, whatever STARTs the   *)
(* master has written in between.                                          *)
(***************************************************************************)
SkewFlushed == ~state_calc => delay_a = EmptyDelay /\ delay_b = EmptyDelay
=============================================================================
