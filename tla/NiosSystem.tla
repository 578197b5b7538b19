------------------------------ MODULE NiosSystem ------------------------------
(***************************************************************************)
(* The accelerator driven by the program on the Nios II,                   *)
(* src/Software/matrix_accel_SW/source.c, main().                          *)
(*                                                                         *)
(* The CPU's data master is the only master of the slave port, and the     *)
(* port takes no wait states: an IOWR or IORD is one clock edge that finds *)
(* the access on the bus.  Between two accesses any number of edges may    *)
(* pass (instruction fetches, printf, usleep).  The value an IORD returns  *)
(* is the readdata register, which only the next read changes.             *)
(*                                                                         *)
(* The program can be started again at any moment: by KEY[0], which resets *)
(* the whole system, or from the debugger, which restarts the CPU and      *)
(* leaves the accelerator as it is.                                        *)
(***************************************************************************)
EXTENDS AccelHistory

CONSTANTS matrix_A, matrix_B   \* the program's matrix_A_fp16, matrix_B_fp16

ASSUME MatrixAssumption ==
  matrix_A \in [Cell -> Word] /\ matrix_B \in [Cell -> Word]

ASSUME OneInWord == 1 \in Word

VARIABLES
  pc,      \* where main() is
  iter,    \* its loop counter i, or i * N + j in the nested loops
  result   \* the entries of C it has read, NotRead for the others

cpuVars == <<pc, iter, result>>
systemVars == <<hostVars, cpuVars>>

NotRead == -1
NothingRead == [c \in Cell |-> NotRead]

ProgramPoint == {"reset", "clearC", "loadA", "loadB", "start",
                 "poll", "test", "read", "take", "finished"}

-----------------------------------------------------------------------------
\* Values of the bus lines.
NoAccess == [write |-> FALSE, read |-> FALSE, address |-> CTRL, data |-> 0]
IOWR(a, d) == [write |-> TRUE, read |-> FALSE, address |-> a, data |-> d]
IORD(a) == [write |-> FALSE, read |-> TRUE, address |-> a, data |-> 0]

\* Variants: i <= N * N; i < N.
LoopOver(here, next) ==
  /\ pc = here
  /\ pc' = IF iter < N * N THEN here ELSE next
  /\ iter' = IF iter < N * N THEN iter + 1 ELSE 0
  /\ UNCHANGED result

LoopRow(here, next) ==
  /\ pc = here
  /\ pc' = IF iter + 1 < N THEN here ELSE next
  /\ iter' = IF iter + 1 < N THEN iter + 1 ELSE 0
  /\ UNCHANGED result

(***************************************************************************)
(* for (i = 0; i < N * N; i++): one iteration of the loop at `here`; after *)
(* the last one the program is at `next`.                                  *)
(***************************************************************************)
Loop(here, next) ==
  /\ pc = here
  /\ pc' = IF iter + 1 < N * N THEN here ELSE next
  /\ iter' = IF iter + 1 < N * N THEN iter + 1 ELSE 0
  /\ UNCHANGED result

-----------------------------------------------------------------------------
SystemInit ==
  /\ HostInit
  /\ pc = "reset" /\ iter = 0 /\ result = NothingRead

\* Variant: the reset is written as a START.
ResetByStart ==
  /\ pc = "reset" /\ pc' = "clearC"
  /\ HostEdge(IOWR(CTRL, 1))
  /\ UNCHANGED <<iter, result>>

\* Lines 68-72.
SoftwareReset ==
  /\ pc = "reset" /\ pc' = "clearC"
  /\ HostEdge(IOWR(CTRL, 0))
  /\ UNCHANGED <<iter, result>>

\* Lines 74-76.
ClearC == Loop("clearC", "loadA") /\ HostEdge(IOWR(MEM_C + iter, 0))

\* Lines 82-84 and 90-92.
LoadA == Loop("loadA", "loadB") /\ HostEdge(IOWR(MEM_A + iter, matrix_A[iter]))
LoadB == Loop("loadB", "start") /\ HostEdge(IOWR(MEM_B + iter, matrix_B[iter]))

\* Line 98.
Start ==
  /\ pc = "start" /\ pc' = "poll"
  /\ HostEdge(IOWR(CTRL, 1))
  /\ UNCHANGED <<iter, result>>

\* Line 105: the edge of the read, then the test of the value it returned.
Poll ==
  /\ pc = "poll" /\ pc' = "test"
  /\ HostEdge(IORD(CTRL))
  /\ UNCHANGED <<iter, result>>

\* Variant: the program waits for status & 0x01.
TestStartBit ==
  /\ pc = "test"
  /\ pc' = IF avs_readdata % 2 = 1 THEN "read" ELSE "poll"
  /\ UNCHANGED <<hostVars, iter, result>>

\* Lines 106-110.
Test ==
  /\ pc = "test"
  /\ pc' = IF (avs_readdata \div 2) % 2 = 1 THEN "read" ELSE "poll"
  /\ UNCHANGED <<hostVars, iter, result>>

\* Lines 120-125: the two loops visit the cells in the order of i*N + j.
ReadC ==
  /\ pc = "read" /\ pc' = "take"
  /\ HostEdge(IORD(MEM_C + iter))
  /\ UNCHANGED <<iter, result>>

TakeC ==
  /\ pc = "take"
  /\ result' = [result EXCEPT ![iter] = avs_readdata]
  /\ pc' = IF iter + 1 < N * N THEN "read" ELSE "finished"
  /\ iter' = IF iter + 1 < N * N THEN iter + 1 ELSE 0
  /\ UNCHANGED hostVars

CpuStep ==
  \/ SoftwareReset \/ ClearC \/ LoadA \/ LoadB \/ Start
  \/ Poll \/ Test \/ ReadC \/ TakeC

-----------------------------------------------------------------------------
\* A clock edge between two accesses.
IdleEdge == HostEdge(NoAccess) /\ UNCHANGED cpuVars

CpuToMain == pc' = "reset" /\ iter' = 0 /\ result' = NothingRead

\* The debugger restarts the program.
CpuRestart == CpuToMain /\ UNCHANGED hostVars

\* KEY[0]: one reset controller drives both the CPU and the accelerator.
SystemReset == CpuToMain /\ HostReset

SystemNext == CpuStep \/ IdleEdge \/ CpuRestart \/ SystemReset

SystemSpec == SystemInit /\ [][SystemNext]_systemVars

\* The CPU executes its program; each of its accesses is a clock edge.
SystemFair == SystemSpec /\ WF_systemVars(CpuStep)

-----------------------------------------------------------------------------
\* The device registers and the program's variables have their types.
SystemTypeOK ==
  /\ AccelTypeOK
  /\ pc \in ProgramPoint
  /\ iter \in Cell
  /\ result \in [Cell -> Word \cup {NotRead}]

(***************************************************************************)
(* The program never starts a machine that is running.  It does not look   *)
(* at the machine before START, and after a restart the last run may still *)
(* be going on: it is the 3N*N+1 writes before START that outlast any run, *)
(* for N >= 3.  (For N = 2 they do not, by one edge.)                      *)
(***************************************************************************)
StartOnlyWhenIdle == pc = "start" => ~Busy

(***************************************************************************)
(* Whatever entry of C the program has read is that of the product of its  *)
(* matrices: the DONE bit it saw is not the one of an earlier run, the run *)
(* it waited for was not disturbed by the restart, and what it reads does  *)
(* not change under it.                                                    *)
(***************************************************************************)
ResultsAreProduct ==
  \A r, c \in Lane :
    result[Idx(r, c)] \in {NotRead, Dot(Row(matrix_A, r), Col(matrix_B, c))}

(***************************************************************************)
(* Seen from the control registers, the program is a master that follows   *)
(* the handshake: driver and device together implement that specification, *)
(* and with it all that AccelControl says of it.                           *)
(***************************************************************************)
DriverKeepsHandshake == HandshakeSpec

(***************************************************************************)
(* Once the restarts come to an end, the program sees DONE, reads all of C *)
(* and finishes.                                                           *)
(***************************************************************************)
ProgramFinishes ==
  <>[][~(CpuRestart \/ SystemReset)]_systemVars => <>[](pc = "finished")

(***************************************************************************)
(* The comment of lines 68-70: the "Software Reset" at the top of main()   *)
(* leaves the memory C clean.                                              *)
(***************************************************************************)
SoftwareResetCleansC == pc = "loadA" => \A c \in Cell : mem_C[c] = 0
=============================================================================
