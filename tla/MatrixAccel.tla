------------------------------ MODULE MatrixAccel ------------------------------
(***************************************************************************)
(* The accelerator, src/matrix_accel_top_systolic_array.v: the control     *)
(* registers, the skew buffers and the array, joined by the feeders, the   *)
(* three local memories and the Avalon-MM slave port.                      *)
(*                                                                         *)
(* All registers take their new values at the same edge, from the values   *)
(* before it, so an edge is one action: the conjunction of what every      *)
(* always block does.  The value of the bus lines at an edge is a Request. *)
(***************************************************************************)
EXTENDS AccelControl, SkewBuffer, SystolicArray

VARIABLES mem_A, mem_B, mem_C, avs_readdata

memVars == <<mem_A, mem_B, mem_C, avs_readdata>>
accelVars == <<controlVars, skewVars, arrayVars, memVars>>

-----------------------------------------------------------------------------
(***************************************************************************)
(* Addresses are word offsets, avs_address[13:0].                          *)
(***************************************************************************)
CTRL == 0
MEM_A == 1024
MEM_B == 2048
MEM_C == 3072
Address == 0 .. 16383

Request == [write : BOOLEAN, read : BOOLEAN, address : Address, data : Word]

\* The memories are flat: matrix entry (i, j) is cell i*N + j.
Cell == 0 .. N * N - 1
Idx(i, j) == i * N + j
RowOf(c) == CHOOSE i \in Lane : \E j \in Lane : c = Idx(i, j)
ColOf(c) == CHOOSE j \in Lane : \E i \in Lane : c = Idx(i, j)

\* Variant: the decoder misses the last cell.
ShortWindow(base) == base .. base + N * N - 2

Window(base) == base .. base + N * N - 1

StartBit(req) == req.data % 2 = 1

WritesCtrl(req) == req.write /\ req.address = CTRL
clr_pe_sig(req) == WritesCtrl(req) /\ StartBit(req)

CommandOf(req) ==
  IF ~WritesCtrl(req) THEN "none"
  ELSE IF StartBit(req) THEN "start" ELSE "clear"

-----------------------------------------------------------------------------
\* The feeders: column cycle_cnt of A, row cycle_cnt of B, then zeros.
a_col_feed == [g \in Lane |-> IF state_calc /\ cycle_cnt < N
                              THEN mem_A[Idx(g, cycle_cnt)] ELSE 0]
b_row_feed == [g \in Lane |-> IF state_calc /\ cycle_cnt < N
                              THEN mem_B[Idx(cycle_cnt, g)] ELSE 0]

a_skewed == [g \in Lane |-> Skewed(delay_a, a_col_feed, g)]
b_skewed == [g \in Lane |-> Skewed(delay_b, b_row_feed, g)]

\* Variant: the columns are taken to arrive in their own order.
FirstColumnFirst == cycle_cnt \div 2

(***************************************************************************)
(* In the odd cycles of the drain phase the column that has reached the    *)
(* right border is stored, the last column of C first.                     *)
(***************************************************************************)
CaptureNow == state_drain /\ cycle_cnt % 2 = 1 /\ cycle_cnt < 2 * N
CaptureCol == N - 1 - (cycle_cnt \div 2)

Capture ==
  mem_C' = [c \in Cell |-> IF CaptureNow /\ ColOf(c) = CaptureCol
                           THEN c_right_out(RowOf(c)) ELSE mem_C[c]]

\* The write decode tries A before B; nothing on the bus writes C.
BusWrite(req) ==
  LET toA == req.write /\ req.address \in Window(MEM_A)
      toB == req.write /\ req.address \in Window(MEM_B) /\ ~toA
  IN  /\ mem_A' = IF toA THEN [mem_A EXCEPT ![req.address - MEM_A] = req.data]
                         ELSE mem_A
      /\ mem_B' = IF toB THEN [mem_B EXCEPT ![req.address - MEM_B] = req.data]
                         ELSE mem_B

\* {30'd0, ctrl_done, ctrl_start}
StatusWord ==
  (IF ctrl_done THEN 2 ELSE 0) + (IF ctrl_start THEN 1 ELSE 0)

ReadValue(a) ==
  IF a = CTRL THEN StatusWord
  ELSE IF a \in Window(MEM_C) THEN mem_C[a - MEM_C] ELSE 0

BusRead(req) ==
  avs_readdata' = IF req.read THEN ReadValue(req.address) ELSE avs_readdata

-----------------------------------------------------------------------------
AccelInit ==
  /\ ControlInit /\ SkewInit /\ ArrayInit
  /\ mem_A = [c \in Cell |-> 0]
  /\ mem_B = [c \in Cell |-> 0]
  /\ mem_C = [c \in Cell |-> 0]
  /\ avs_readdata = 0

\* rst_n low: every register and all three memories.
AccelReset ==
  /\ ControlReset /\ SkewReset /\ ArrayClear
  /\ mem_A' = [c \in Cell |-> 0]
  /\ mem_B' = [c \in Cell |-> 0]
  /\ mem_C' = [c \in Cell |-> 0]
  /\ avs_readdata' = 0

\* A rising edge of clk that finds req on the bus.
AccelEdge(req) ==
  /\ ControlEdge(CommandOf(req))
  /\ SkewEdge(state_calc, a_col_feed, b_row_feed)
  /\ ArrayEdge(clr_pe_sig(req), Busy, state_drain, a_skewed, b_skewed)
  /\ Capture
  /\ BusWrite(req)
  /\ BusRead(req)

-----------------------------------------------------------------------------
\* Every register and memory cell of the device holds a value of its width.
AccelTypeOK ==
  /\ ControlTypeOK /\ SkewTypeOK /\ ArrayTypeOK
  /\ \A mem \in {mem_A, mem_B, mem_C} : mem \in [Cell -> Word]
  /\ avs_readdata \in Word \cup 0 .. 3

(***************************************************************************)
(* The entries the device is to compute: entry (i, j) of C accumulates the *)
(* products of row i of A and column j of B one after the other, from zero *)
(* and in the order of the columns, through the multiply-accumulate unit.  *)
(***************************************************************************)
Row(A, i) == [k \in Lane |-> A[Idx(i, k)]]
Col(B, j) == [k \in Lane |-> B[Idx(k, j)]]

PartialDot(row, col) ==
  LET sum[k \in 0 .. N] ==
        IF k = 0 THEN 0 ELSE Mac(row[k - 1], col[k - 1], sum[k - 1])
  IN  sum

Dot(row, col) == PartialDot(row, col)[N]
=============================================================================
