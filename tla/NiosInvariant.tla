---------------------------- MODULE NiosInvariant ----------------------------
(***************************************************************************)
(* The inductive invariant of the driver and the device together.  Its     *)
(* heart is a race: after a restart an old run may still be going on, and  *)
(* the program comes to its START without looking.                         *)
(***************************************************************************)
EXTENDS NiosSystem, AccelInvariant

(***************************************************************************)
(* The sizes for which the program is right: the counts fit the counter,   *)
(* the windows of A, B and C are apart, and the 3N*N+1 writes before START *)
(* take longer than a run.  The system built has N = 3.                    *)
(***************************************************************************)
SystemFits == CounterFits /\ N * N <= MEM_B - MEM_A /\ N >= 3

\* The edges a busy machine still takes until DONE.
Remaining ==
  IF state_calc THEN (3 * N + 3 - cycle_cnt) + (2 * N + 1)
  ELSE IF state_drain THEN 2 * N + 1 - cycle_cnt ELSE 0

BeforeStart == {"reset", "clearC", "loadA", "loadB", "start"}
AfterDone == {"read", "take", "finished"}
AfterStart == {"poll", "test"} \cup AfterDone

\* The accesses of main() so far, each of which took an edge.
Position ==
  CASE pc = "reset" -> 0
    [] pc = "clearC" -> 1 + iter
    [] pc = "loadA" -> 1 + N * N + iter
    [] pc = "loadB" -> 1 + 2 * (N * N) + iter
    [] OTHER -> 1 + 3 * (N * N)

-----------------------------------------------------------------------------
(***************************************************************************)
(* A run the program finds going on when it starts, or restarts, loses one *)
(* edge to each of the accesses before START: a whole run has 5N+4 edges.  *)
(***************************************************************************)
OldRunEnds ==
  pc \in BeforeStart /\ Busy => Position + Remaining <= 5 * N + 4

LoopAtZero == pc \in {"reset", "start", "poll", "test", "finished"} => iter = 0

\* The cells loaded so far.
LoadedSoFar ==
  /\ pc = "loadA" => \A c \in Cell : c < iter => mem_A[c] = matrix_A[c]
  /\ pc \in {"loadB", "start"} => mem_A = matrix_A
  /\ pc = "loadB" => \A c \in Cell : c < iter => mem_B[c] = matrix_B[c]
  /\ pc = "start" => mem_B = matrix_B

\* After START the run is the program's own, and nothing disturbs it.
OwnRun == pc \in AfterStart => clean /\ opA = matrix_A /\ opB = matrix_B

\* What the last read returned is still so, and past the poll DONE is set.
ReadsFresh ==
  /\ pc = "test" /\ (avs_readdata \div 2) % 2 = 1 => ctrl_done
  /\ pc \in AfterDone => ctrl_done
  /\ pc = "take" => avs_readdata = mem_C[iter]
  /\ pc \notin AfterDone => result = NothingRead

(***************************************************************************)
(* The conjuncts the driver adds to the invariant of the device.           *)
(***************************************************************************)
DriverInv ==
  /\ OldRunEnds /\ LoopAtZero /\ LoadedSoFar /\ OwnRun /\ ReadsFresh

SystemInv == ContractInv /\ SystemTypeOK /\ DriverInv /\ ResultsAreProduct
=============================================================================
