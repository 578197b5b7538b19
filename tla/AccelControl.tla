----------------------------- MODULE AccelControl -----------------------------
(***************************************************************************)
(* The control registers of the accelerator: lines 23-29 and 94-145 of     *)
(* src/matrix_accel_top_systolic_array.v.                                  *)
(*                                                                         *)
(* A rising clock edge is one action.  The Verilog block is a list of      *)
(* nonblocking assignments, of which the last one reached wins: every      *)
(* register below is the value the last assignment leaves, which is what   *)
(* makes a START that lands on a running machine interesting.              *)
(***************************************************************************)
EXTENDS AccelParams

VARIABLES
  ctrl_start,   \* bit 0 of the status word
  ctrl_done,    \* bit 1 of the status word
  cycle_cnt,    \* the 8-bit cycle counter of both phases
  state_calc,   \* phase 1: operands are streamed through the array
  state_drain   \* phase 2: the results are shifted out to the right

controlVars == <<ctrl_start, ctrl_done, cycle_cnt, state_calc, state_drain>>

\* cycle_cnt is reg [7:0].
CounterSize == 256
Tick(c) == (c + 1) % CounterSize

\* The counter reaches every value it is compared with: N <= 84.
CounterFits == 3 * N + 2 < CounterSize

(***************************************************************************)
(* What the bus does to the control register at an edge: nothing, a write  *)
(* with bit 0 clear, a write with bit 0 set.                               *)
(***************************************************************************)
Command == {"none", "clear", "start"}

Busy == state_calc \/ state_drain

\* Variant: phase 1 is compared with a count that 8 bits do not reach.
LateCalcLast == state_calc /\ cycle_cnt = 3 * N + 4

\* Variant: phase 1 stops as soon as the last operands are fed.
EarlyCalcLast == state_calc /\ cycle_cnt = N - 1

\* The comparisons that end the phases (lines 119 and 138).
CalcLast == state_calc /\ cycle_cnt = 3 * N + 2
DrainLast == state_drain /\ cycle_cnt = 2 * N

-----------------------------------------------------------------------------
ControlInit ==
  /\ ctrl_start = FALSE
  /\ ctrl_done = FALSE
  /\ cycle_cnt = 0
  /\ state_calc = FALSE
  /\ state_drain = FALSE

\* The asynchronous reset, rst_n low (lines 95-100).
ControlReset ==
  /\ ctrl_start' = FALSE
  /\ ctrl_done' = FALSE
  /\ cycle_cnt' = 0
  /\ state_calc' = FALSE
  /\ state_drain' = FALSE

(***************************************************************************)
(* The registers after a rising edge of clk with rst_n high (lines         *)
(* 104-143); go says that the edge finds a START on the bus.               *)
(***************************************************************************)
NextCalc(go) == (state_calc \/ go) /\ ~CalcLast

\* Variant: START does not leave the drain phase (no line 110).
StubbornDrain(go) == (state_drain \/ CalcLast) /\ ~DrainLast

NextDrain(go) == ((state_drain /\ ~go) \/ CalcLast) /\ ~DrainLast

\* Variant: START rewinds a running counter (line 111 after line 118).
RewoundCount(go) ==
  IF CalcLast \/ go THEN 0 ELSE IF Busy THEN Tick(cycle_cnt) ELSE cycle_cnt

\* A running phase overrides the zero a START writes to the counter.
NextCount(go) ==
  IF (CalcLast /\ ~state_drain) \/ (go /\ ~Busy) THEN 0
  ELSE IF Busy THEN Tick(cycle_cnt) ELSE cycle_cnt

\* Variants: START leaves DONE alone (no line 112); DONE is a pulse.
StickyDone(go) == DrainLast \/ ctrl_done
PulsedDone(go) == DrainLast

NextDone(go) == DrainLast \/ (ctrl_done /\ ~go)

\* Variant: the end of the run leaves the START bit (no line 141).
StickyStart(cmd) == cmd = "start" \/ (cmd = "none" /\ ctrl_start)

NextStart(cmd) ==
  ~DrainLast /\ (cmd = "start" \/ (cmd = "none" /\ ctrl_start))

ControlEdge(cmd) ==
  LET go == cmd = "start"
  IN  /\ state_calc' = NextCalc(go)
      /\ state_drain' = NextDrain(go)
      /\ cycle_cnt' = NextCount(go)
      /\ ctrl_done' = NextDone(go)
      /\ ctrl_start' = NextStart(cmd)

-----------------------------------------------------------------------------
(***************************************************************************)
(* The registers under a bus that may write anything at any edge, and      *)
(* under one that follows the handshake and writes START only when the     *)
(* machine is idle.  The clock never stops: that is the only fairness.     *)
(***************************************************************************)
ClockEdge == \E cmd \in Command : ControlEdge(cmd)

HandshakeEdge ==
  \E cmd \in Command : (cmd = "start" => ~Busy) /\ ControlEdge(cmd)

ControlNext == ControlReset \/ ClockEdge

ControlSpec == ControlInit /\ [][ControlNext]_controlVars

ControlFair == ControlSpec /\ WF_controlVars(ClockEdge)

HandshakeSpec == ControlInit /\ [][ControlReset \/ HandshakeEdge]_controlVars

HandshakeFair == HandshakeSpec /\ WF_controlVars(HandshakeEdge)

-----------------------------------------------------------------------------
\* Every register holds a value of its width.
ControlTypeOK ==
  /\ ctrl_start \in BOOLEAN
  /\ ctrl_done \in BOOLEAN
  /\ cycle_cnt \in 0 .. CounterSize - 1
  /\ state_calc \in BOOLEAN
  /\ state_drain \in BOOLEAN

(***************************************************************************)
(* The phases exclude each other and neither counter runs past the value   *)
(* its phase is compared with.  The code compares with "==" and a START    *)
(* moves a draining machine back to phase 1 without resetting the counter: *)
(* were the count ever beyond the comparison, the phase would go round the *)
(* whole 8-bit range, or for ever.  It must hold whatever the bus writes.  *)
(***************************************************************************)
PhaseBounds ==
  /\ ~(state_calc /\ state_drain)
  /\ state_calc => cycle_cnt <= 3 * N + 2
  /\ state_drain => cycle_cnt <= 2 * N

(***************************************************************************)
(* The START bit of the status word reads 1 only while a run is going on.  *)
(* The bit is written by the bus and cleared at the last edge of the drain *)
(* phase; a START on that very edge, or on the edge between the phases,    *)
(* must not leave it set on an idle machine.                               *)
(***************************************************************************)
StartBitMeansBusy == ctrl_start => Busy

(***************************************************************************)
(* Phase 1 ends, however often the bus writes START during it: a START     *)
(* does not rewind the counter of a running phase.  This needs 3N+2 to fit *)
(* the 8-bit counter.                                                      *)
(***************************************************************************)
CalcEnds == state_calc ~> ~state_calc

(***************************************************************************)
(* DONE is set only after the machine has gone through both phases and     *)
(* stopped (the sequence compute -> drain -> DONE of line 92).             *)
(***************************************************************************)
DoneMeansIdle == ctrl_done => ~Busy

(***************************************************************************)
(* Under the handshake every run that starts reaches DONE, unless a reset  *)
(* takes the machine back to its initial state.                            *)
(***************************************************************************)
RunReachesDone == state_calc ~> (ctrl_done \/ ControlInit)
=============================================================================
