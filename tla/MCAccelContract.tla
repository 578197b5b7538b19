---------------------------- MODULE MCAccelContract ----------------------------
(***************************************************************************)
(* AccelContract and DeployedAccel, one of them per behaviour, on a 2 x 2  *)
(* array.  The stand-in for the multiply-accumulate unit leaves the        *)
(* accumulator alone on a zero operand, as the real one does, and          *)
(* otherwise depends on the order of the operands and of the accumulation. *)
(***************************************************************************)
EXTENDS AccelContract, AccelInvariant, DeployedAccel, MacLaws

VARIABLE design

deployedOnly == <<started, disturbed, runs>>

MCWord == 0 .. 12

MCMac(a, b, acc) ==
  IF a = 0 \/ b = 0 THEN acc ELSE (5 * acc + 3 * a + b) % 13

Access(w, r, a, d) == [write |-> w, read |-> r, address |-> a, data |-> d]

MCNop == Access(FALSE, FALSE, 0, 0)
MCStart == Access(TRUE, FALSE, CTRL, 1)
MCClear == Access(TRUE, FALSE, CTRL, 0)
MCWrite(base, cell, value) == Access(TRUE, FALSE, base + cell, value)
MCRead(a) == Access(FALSE, TRUE, a, 0)

MCRequests ==
  {MCNop, MCStart, MCClear,
   MCWrite(MEM_A, 0, 1), MCWrite(MEM_A, 1, 2), MCWrite(MEM_A, 2, 3),
   MCWrite(MEM_B, 0, 1), MCWrite(MEM_B, 2, 2), MCWrite(MEM_B, 3, 3)}

MCDeployedRequests == MCRequests \cup {MCRead(CTRL), MCRead(MEM_C)}

-----------------------------------------------------------------------------
MCInit ==
  /\ HostInit /\ DeployedInit
  /\ design \in {"later", "deployed"}

MCNext ==
  /\ UNCHANGED design
  /\ IF design = "later" THEN ContractNext /\ UNCHANGED deployedOnly
     ELSE DeployedNext /\ UNCHANGED historyVars

MCSpec == MCInit /\ [][MCNext]_<<hostVars, deployedOnly, design>>
=============================================================================
