------------------------------ MODULE MatMulUnit ------------------------------
(***************************************************************************)
(* What the accelerator promises its master: a unit with two operand       *)
(* memories and one for the result.  A START on an idle unit begins a run, *)
(* which owes the product of what the operand memories hold then.  While   *)
(* it goes on a cell of C holds what it held, until it holds its entry of  *)
(* the product; when it ends every cell does, and DONE is set.  Nothing    *)
(* but a run changes C, and nothing but a START takes DONE back.           *)
(*                                                                         *)
(* A run may be voided, by a second START or by an operand stored too      *)
(* soon.  A voided run owes nothing, but ends like another and leaves the  *)
(* next one none the worse.                                                *)
(***************************************************************************)
EXTENDS Naturals

CONSTANTS Cell, Word, Product(_, _)

VARIABLES A, B, C, done, run, operands

unitVars == <<A, B, C, done, run, operands>>

Zero == [c \in Cell |-> 0]
Owed == Product(operands[1], operands[2])

UnitInit ==
  /\ A = Zero /\ B = Zero /\ C = Zero
  /\ done = FALSE /\ run = "idle" /\ operands = <<Zero, Zero>>

UnitReset ==
  /\ A' = Zero /\ B' = Zero /\ C' = Zero
  /\ done' = FALSE /\ run' = "idle" /\ operands' = <<Zero, Zero>>

\* The master stores at most one operand at a time.
Unchanged == UNCHANGED <<A, B>>
StoreA == \E c \in Cell : A'[c] \in Word /\ A' = [A EXCEPT ![c] = A'[c]] /\ B' = B
StoreB == \E c \in Cell : B'[c] \in Word /\ B' = [B EXCEPT ![c] = B'[c]] /\ A' = A
Store == Unchanged \/ StoreA \/ StoreB

\* The results of a sound run arrive in C, in whatever order.
Arrive ==
  /\ C' \in [Cell -> Word]
  /\ run = "sound" => \A c \in Cell : C'[c] \in {C[c], Owed[c]}

-----------------------------------------------------------------------------
Rest == run = "idle" /\ Store /\ UNCHANGED <<C, done, run, operands>>

Start ==
  /\ run = "idle" /\ run' = "sound"
  /\ operands' = <<A, B>> /\ done' = FALSE
  /\ UNCHANGED <<A, B, C>>

\* The unit does not say how soon an operand may be stored again.
Work ==
  /\ run # "idle" /\ Store /\ Arrive
  /\ run' = run \/ (run' = "voided" /\ ~Unchanged)
  /\ UNCHANGED <<done, operands>>

\* A START while the unit is busy.  On the last edge of a run it finds DONE
\* set for the run it begins.
StartAgain ==
  /\ run # "idle" /\ run' = "voided" /\ Arrive
  /\ done' \in BOOLEAN
  /\ UNCHANGED <<A, B, operands>>

Finish ==
  /\ run # "idle" /\ run' = "idle" /\ Store /\ Arrive
  /\ run = "sound" => C' = Owed
  /\ done' = TRUE /\ UNCHANGED operands

UnitNext == UnitReset \/ Rest \/ Start \/ Work \/ StartAgain \/ Finish

UnitSpec == UnitInit /\ [][UnitNext]_unitVars
=============================================================================
