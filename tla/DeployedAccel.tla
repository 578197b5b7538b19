----------------------------- MODULE DeployedAccel -----------------------------
(***************************************************************************)
(* The copy of the accelerator in the generated system                     *)
(* (src/system/synthesis/submodules/{matrix_accel_top_systolic_array,      *)
(* systolic_array,pe_fp16}.v), made from an earlier version of the design. *)
(* It has no drain phase, no memory C - the bus reads the accumulators     *)
(* themselves - and START does not clear them: only the reset does.        *)
(* Everything else is as in MatrixAccel, from which the feeders, the skew  *)
(* buffers, the mesh with clr and drain_en low, and the bus decoding are   *)
(* taken.  The registers this device does not have, state_drain and mem_C, *)
(* keep their initial values.                                              *)
(***************************************************************************)
EXTENDS MatrixAccel

CONSTANTS
  DeployedRequests,   \* what the master puts on the bus
  MaxRuns             \* bound on the runs after a reset

ASSUME DeployedAssumption == DeployedRequests \subseteq Request

VARIABLES
  started,     \* history: the operands and the accumulators at the last START
               \* on an idle machine,
  disturbed,   \* whether an operand was changed before it was fed,
  runs         \* and the STARTs on an idle machine since the reset

deployedVars == <<accelVars, started, disturbed, runs>>

-----------------------------------------------------------------------------
(***************************************************************************)
(* The control registers after an edge.  The last nonblocking assignment   *)
(* wins: a START on a busy machine clears DONE, which is clear, and        *)
(* nothing else; on the last edge of a run it is lost.                     *)
(***************************************************************************)
DeployedControl(cmd) ==
  LET go == cmd = "start"
  IN  /\ state_calc' = ((state_calc \/ go) /\ ~CalcLast)
      /\ cycle_cnt' = IF state_calc THEN Tick(cycle_cnt) ELSE IF go THEN 0 ELSE cycle_cnt
      /\ ctrl_done' = (CalcLast \/ (ctrl_done /\ ~go))
      /\ ctrl_start' = (~CalcLast /\ (go \/ (cmd = "none" /\ ctrl_start)))
      /\ UNCHANGED state_drain

\* Variant: the elements are cleared by START, as in the later design.
ClearedByStart(req) == clr_pe_sig(req)

\* The element has no clr.
Cleared(req) == FALSE

\* mem_C_flat: the wires from the accumulators.
DeployedReadValue(a) ==
  IF a = CTRL THEN StatusWord
  ELSE IF a \in Window(MEM_C) THEN c_reg[RowOf(a - MEM_C)][ColOf(a - MEM_C)] ELSE 0

DeployedEdge(req) ==
  /\ DeployedControl(CommandOf(req))
  /\ SkewEdge(state_calc, a_col_feed, b_row_feed)
  /\ ArrayEdge(Cleared(req), state_calc, FALSE, a_skewed, b_skewed)
  /\ BusWrite(req)
  /\ avs_readdata' = IF req.read THEN DeployedReadValue(req.address) ELSE avs_readdata
  /\ UNCHANGED mem_C

-----------------------------------------------------------------------------
Start == [A |-> mem_A, B |-> mem_B, C |-> c_reg]

DeployedInit == AccelInit /\ started = Start /\ disturbed = FALSE /\ runs = 0

DeployedReset ==
  /\ AccelReset
  /\ started' = Start' /\ disturbed' = FALSE /\ runs' = 0

\* An operand that this run has not fed yet is changed.
Changes ==
  /\ state_calc
  /\ \E i, k \in Lane :
       /\ k > cycle_cnt
       /\ \/ mem_A'[Idx(i, k)] # mem_A[Idx(i, k)]
          \/ mem_B'[Idx(k, i)] # mem_B[Idx(k, i)]

DeployedHost(req) ==
  LET begins == clr_pe_sig(req) /\ ~state_calc
  IN  /\ begins => runs < MaxRuns
      /\ DeployedEdge(req)
      /\ runs' = IF begins THEN runs + 1 ELSE runs
      /\ started' = IF begins THEN Start ELSE started
      /\ disturbed' = (~begins /\ (disturbed \/ Changes))

DeployedNext == DeployedReset \/ \E req \in DeployedRequests : DeployedHost(req)

DeployedSpec == DeployedInit /\ [][DeployedNext]_deployedVars

-----------------------------------------------------------------------------
\* What an accumulator that held acc makes of a row and a column.
Accumulated(acc, row, col) ==
  LET sum[k \in 0 .. N] == IF k = 0 THEN acc ELSE Mac(row[k - 1], col[k - 1], sum[k - 1])
  IN  sum[N]

(***************************************************************************)
(* DONE means that the product of the operands at START was added to what  *)
(* the accumulators held: to zero in the first run after a reset, so that  *)
(* C is the product, and to the results of the run before, however that    *)
(* one was disturbed, in any other; a START on a busy machine does no harm *)
(* (submodules/pe_fp16.v:22-32, submodules/matrix_accel_top_systolic_      *)
(* array.v:70-91).  The program, which does not reset the device, prints   *)
(* the product when it is run for the first time and sums of products      *)
(* when it is restarted (Software/matrix_accel_SW/source.c:72-98).         *)
(***************************************************************************)
DeployedResult ==
  /\ ctrl_done /\ ~disturbed =>
       \A i, j \in Lane :
         c_reg[i][j] = Accumulated(started.C[i][j], Row(started.A, i), Col(started.B, j))
  /\ runs <= 1 => started.C = EmptyMesh
=============================================================================
