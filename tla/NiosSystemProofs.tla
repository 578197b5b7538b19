-------------------------- MODULE NiosSystemProofs --------------------------
(***************************************************************************)
(* The driver and the device together, for every size that fits: the       *)
(* program never starts a running machine, and what it reads is the        *)
(* product of its matrices.                                                *)
(***************************************************************************)
EXTENDS NiosFp16, AccelContractProofs, Fp16Proofs

-----------------------------------------------------------------------------
(***************************************************************************)
(* Arithmetic of the sizes and of the loop counter.                        *)
(***************************************************************************)
LEMMA Sizes ==
  ASSUME SystemFits
  PROVE  /\ N \in Nat /\ N >= 3 /\ N * N \in Nat /\ N * N <= 1024
         /\ 3 * (N * N) >= 9 * N /\ 0 \in Cell
<1>1. N \in Nat /\ N >= 3
  BY NAssumption DEF SystemFits
<1>2. N * N \in Nat /\ N * N <= 1024
  BY <1>1 DEF SystemFits, MEM_A, MEM_B
<1>3. N * N >= 3 * N
  BY <1>1
<1>4. 3 * (N * N) >= 9 * N
  BY <1>1, <1>2, <1>3
<1> QED
  BY <1>1, <1>2, <1>3, <1>4 DEF Cell

LEMMA CellStep ==
  ASSUME SystemFits, NEW c \in Cell
  PROVE  /\ c \in Nat /\ c < N * N
         /\ c + 1 < N * N => c + 1 \in Cell
         /\ ~(c + 1 < N * N) => c = N * N - 1
BY Sizes DEF Cell

-----------------------------------------------------------------------------
(***************************************************************************)
(* The accesses of the program are requests; one of them is a START.       *)
(***************************************************************************)
LEMMA Accesses ==
  ASSUME SystemFits
  PROVE  /\ NoAccess \in Request /\ ~clr_pe_sig(NoAccess)
         /\ IOWR(CTRL, 0) \in Request /\ ~clr_pe_sig(IOWR(CTRL, 0))
         /\ IOWR(CTRL, 1) \in Request /\ clr_pe_sig(IOWR(CTRL, 1))
         /\ IORD(CTRL) \in Request /\ ~clr_pe_sig(IORD(CTRL))
<1>1. 0 \in Word /\ 1 \in Word /\ CTRL \in Address
  BY WordAssumption, OneInWord DEF CTRL, Address
<1>2. 1 % 2 = 1 /\ 0 % 2 = 0
  OBVIOUS
<1> QED
  BY <1>1, <1>2
  DEF NoAccess, IOWR, IORD, Request, clr_pe_sig, WritesCtrl, StartBit

LEMMA CellAccesses ==
  ASSUME SystemFits, NEW base \in {MEM_A, MEM_B, MEM_C},
         NEW c \in Cell, NEW d \in Word
  PROVE  /\ IOWR(base + c, d) \in Request /\ ~clr_pe_sig(IOWR(base + c, d))
         /\ IORD(base + c) \in Request /\ ~clr_pe_sig(IORD(base + c))
<1>0. base \in Nat /\ base >= 1024 /\ base <= 3072
  BY DEF MEM_A, MEM_B, MEM_C
<1>c. c \in Nat /\ c < 1024
  BY Sizes, CellStep
<1>1. base + c \in Address /\ base + c # CTRL
  BY <1>0, <1>c, SMTT(30) DEF Address, CTRL
<1>2. 0 \in Word
  BY WordAssumption
<1> QED
  BY <1>1, <1>2 DEF IOWR, IORD, Request, clr_pe_sig, WritesCtrl

-----------------------------------------------------------------------------
(***************************************************************************)
(* An edge without START takes a busy machine one edge closer to DONE and  *)
(* sets nothing going.                                                     *)
(***************************************************************************)
LEMMA RemainingRange ==
  ASSUME ControlTypeOK, PhaseBounds, Busy
  PROVE  Remaining \in 1 .. 5 * N + 4
BY NAssumption DEF ControlTypeOK, CounterSize, PhaseBounds, Busy, Remaining

LEMMA RemainingTick ==
  ASSUME CounterFits, ControlTypeOK, PhaseBounds,
         NEW cmd \in Command, cmd # "start", ControlEdge(cmd), Busy'
  PROVE  Busy /\ Remaining' = Remaining - 1
<1>1. cycle_cnt \in Nat /\ N \in Nat
  BY NAssumption DEF ControlTypeOK, CounterSize
<1>2. CASE state_calc
  <2>1. CASE CalcLast
    <3>1. ~state_calc' /\ state_drain' /\ cycle_cnt' = 0
      BY <1>2, <2>1, CalcTick
    <3>2. cycle_cnt = 3 * N + 2
      BY <2>1 DEF CalcLast
    <3> QED
      BY <1>1, <1>2, <3>1, <3>2 DEF Remaining, Busy
  <2>2. CASE ~CalcLast
    <3>1. state_calc' /\ cycle_cnt' = cycle_cnt + 1
      BY <1>2, <2>2, CalcTick
    <3> QED
      BY <1>1, <1>2, <3>1 DEF Remaining, Busy
  <2> QED
    BY <2>1, <2>2
<1>3. CASE state_drain
  <2>1. ~DrainLast
    BY <1>3, DrainTick DEF Busy
  <2>2. ~state_calc' /\ state_drain' /\ cycle_cnt' = cycle_cnt + 1
    BY <1>3, <2>1, DrainTick
  <2>3. ~state_calc
    BY <1>3 DEF PhaseBounds
  <2> QED
    BY <1>1, <1>3, <2>2, <2>3 DEF Remaining, Busy
<1>4. CASE ~Busy
  BY <1>4, IdleTick DEF Busy
<1> QED
  BY <1>2, <1>3, <1>4 DEF Busy

-----------------------------------------------------------------------------
(***************************************************************************)
(* What an edge without START does to what the program relies on.          *)
(***************************************************************************)
LEMMA QuietEdge ==
  ASSUME SystemFits, ContractInv,
         NEW req \in Request, ~clr_pe_sig(req), HostEdge(req)
  PROVE  /\ ContractInv'
         /\ opA' = opA /\ opB' = opB
         /\ Busy' => Busy /\ Remaining' = Remaining - 1
         /\ ctrl_done => ctrl_done'
         /\ clean /\ mem_A' = mem_A /\ mem_B' = mem_B => clean'
         /\ clean /\ ctrl_done => mem_C' = mem_C
<1>1. CounterFits /\ ControlTypeOK /\ PhaseBounds
  BY DEF SystemFits, ContractInv, AccelTypeOK
<1>2. /\ CommandOf(req) \in Command /\ CommandOf(req) # "start"
      /\ ControlEdge(CommandOf(req)) /\ AccelEdge(req)
  BY CommandFacts DEF HostEdge, AccelEdge
<1>3. ContractInv'
  BY <1>1, EdgeInv
<1>4. opA' = opA /\ opB' = opB
  BY DEF HostEdge
<1>5. Busy' => Busy /\ Remaining' = Remaining - 1
  BY <1>1, <1>2, RemainingTick
<1>6. ctrl_done => ctrl_done'
  BY <1>2 DEF ControlEdge, NextCalc, NextDrain, NextDone, NextStart
<1>7. clean /\ mem_A' = mem_A /\ mem_B' = mem_B => clean'
  BY DEF HostEdge, Disturbs
<1>8. ASSUME clean, ctrl_done
      PROVE  mem_C' = mem_C
  <2>1. ~CaptureNow
    BY <1>8 DEF ContractInv, RunAligned, CleanDone, Busy, CaptureNow
  <2>2. mem_C \in [Cell -> Word]
    BY DEF ContractInv, AccelTypeOK
  <2> QED
    BY <1>2, <2>1, <2>2 DEF AccelEdge, Capture
<1> QED
  BY <1>3, <1>4, <1>5, <1>6, <1>7, <1>8

LEMMA MemoryKept ==
  ASSUME NEW req \in Request, HostEdge(req),
         \/ ~req.write
         \/ req.address = CTRL
  PROVE  mem_A' = mem_A /\ mem_B' = mem_B
<1>1. CTRL \notin Window(MEM_A) /\ CTRL \notin Window(MEM_B)
  BY NAssumption DEF Window, MEM_A, MEM_B, CTRL
<1> QED
  BY <1>1 DEF HostEdge, AccelEdge, BusWrite

LEMMA MemoryLoaded ==
  ASSUME SystemFits, NEW c \in Cell, NEW d \in Word
  PROVE  /\ HostEdge(IOWR(MEM_A + c, d)) =>
              mem_A' = [mem_A EXCEPT ![c] = d]
         /\ HostEdge(IOWR(MEM_B + c, d)) =>
              mem_A' = mem_A /\ mem_B' = [mem_B EXCEPT ![c] = d]
<1>1. /\ MEM_A + c \in Window(MEM_A) /\ (MEM_A + c) - MEM_A = c
      /\ MEM_B + c \in Window(MEM_B) /\ (MEM_B + c) - MEM_B = c
      /\ MEM_B + c \notin Window(MEM_A)
  BY Sizes, CellStep DEF Window, MEM_A, MEM_B
<1> QED
  BY <1>1 DEF HostEdge, AccelEdge, BusWrite, IOWR

-----------------------------------------------------------------------------
(***************************************************************************)
(* The race with an old run: an access brings the program one step and the *)
(* machine one edge further.                                               *)
(***************************************************************************)
LEMMA RaceKept ==
  ASSUME SystemFits, SystemInv,
         NEW req \in Request, ~clr_pe_sig(req), HostEdge(req),
         pc' \in BeforeStart => pc \in BeforeStart,
         pc' \in BeforeStart => Position' <= Position + 1,
         pc' \in BeforeStart => Position \in Nat /\ Position' \in Nat
  PROVE  OldRunEnds'
<1>1. OldRunEnds /\ ContractInv
  BY DEF SystemInv, DriverInv
<1>2. ControlTypeOK /\ PhaseBounds
  BY <1>1 DEF ContractInv, AccelTypeOK
<1>3. SUFFICES ASSUME pc' \in BeforeStart, Busy'
               PROVE  Position' + Remaining' <= 5 * N + 4
  BY DEF OldRunEnds
<1>4. Busy /\ Remaining' = Remaining - 1
  BY <1>1, <1>3, QuietEdge
<1>5. Position + Remaining <= 5 * N + 4
  BY <1>1, <1>3, <1>4 DEF OldRunEnds
<1>6. Remaining \in Int /\ N \in Nat
  BY <1>2, <1>4, RemainingRange, NAssumption
<1> QED
  BY <1>3, <1>4, <1>5, <1>6

\* At START the race is won: 3N*N + 1 accesses outlast the 5N + 4 edges.
LEMMA RaceWon ==
  ASSUME SystemFits, SystemInv
  PROVE  StartOnlyWhenIdle
<1>1. SUFFICES ASSUME pc = "start", Busy
               PROVE  FALSE
  BY DEF StartOnlyWhenIdle
<1>2. Remaining \in 1 .. 5 * N + 4
  BY <1>1, RemainingRange DEF SystemInv, ContractInv, AccelTypeOK
<1>3. Position = 1 + 3 * (N * N)
  BY <1>1 DEF Position
<1>4. Position + Remaining <= 5 * N + 4
  BY <1>1 DEF SystemInv, DriverInv, OldRunEnds, BeforeStart
<1> QED
  BY <1>2, <1>3, <1>4, Sizes

-----------------------------------------------------------------------------
(***************************************************************************)
(* One lemma per action.  The accesses before START: what is loaded stays  *)
(* loaded, and nothing has been read.                                      *)
(***************************************************************************)
LEMMA SystemFacts ==
  ASSUME SystemFits, SystemInv
  PROVE  /\ iter \in Cell /\ N \in Nat
         /\ iter \in Nat /\ iter < N * N /\ N * N \in Nat
         /\ iter + 1 < N * N => iter + 1 \in Cell
         /\ ~(iter + 1 < N * N) => iter = N * N - 1
         /\ 0 \in Cell /\ 0 \in Word
         /\ result \in [Cell -> Word \cup {NotRead}]
         /\ mem_A \in [Cell -> Word] /\ mem_B \in [Cell -> Word]
         /\ mem_C \in [Cell -> Word]
         /\ matrix_A \in [Cell -> Word] /\ matrix_B \in [Cell -> Word]
<1>1. iter \in Cell /\ result \in [Cell -> Word \cup {NotRead}]
  BY DEF SystemInv, SystemTypeOK
<1>2. \A mem \in {mem_A, mem_B, mem_C} : mem \in [Cell -> Word]
  BY DEF SystemInv, SystemTypeOK, AccelTypeOK
<1> QED
  BY <1>1, <1>2, CellStep, Sizes, WordAssumption, MatrixAssumption

LEMMA NothingReadType == NothingRead \in [Cell -> Word \cup {NotRead}]
BY DEF NothingRead

LEMMA NothingReadIsRight == ASSUME result' = NothingRead PROVE ResultsAreProduct'
BY IdxIsCell DEF ResultsAreProduct, NothingRead

LEMMA SoftwareResetInv ==
  ASSUME SystemFits, SystemInv, SoftwareReset
  PROVE  SystemInv'
<1> DEFINE req == IOWR(CTRL, 0)
<1>1. req \in Request /\ ~clr_pe_sig(req) /\ HostEdge(req)
  BY Accesses DEF SoftwareReset
<1>2. pc = "reset" /\ pc' = "clearC" /\ iter' = iter /\ result' = result
  BY DEF SoftwareReset
<1>3. ContractInv'
  BY <1>1, QuietEdge DEF SystemInv
<1>4. iter = 0 /\ result = NothingRead
  BY <1>2 DEF SystemInv, DriverInv, LoopAtZero, ReadsFresh, AfterDone
<1>5. SystemTypeOK'
  BY <1>2, <1>3, SystemFacts DEF SystemTypeOK, ContractInv, ProgramPoint
<1>6. OldRunEnds'
  <2>1. Position = 0 /\ Position' = 1
    BY <1>2, <1>4 DEF Position
  <2> QED
    BY <1>1, <1>2, <2>1, RaceKept DEF BeforeStart
<1>7. LoopAtZero' /\ LoadedSoFar' /\ OwnRun' /\ ReadsFresh'
  BY <1>2, <1>4
  DEF LoopAtZero, LoadedSoFar, OwnRun, ReadsFresh, AfterStart, AfterDone
<1>8. ResultsAreProduct'
  BY <1>2, <1>4, NothingReadIsRight
<1> QED
  BY <1>3, <1>5, <1>6, <1>7, <1>8 DEF SystemInv, DriverInv

LEMMA ClearCInv ==
  ASSUME SystemFits, SystemInv, ClearC
  PROVE  SystemInv'
<1> DEFINE req == IOWR(MEM_C + iter, 0)
<1>1. req \in Request /\ ~clr_pe_sig(req) /\ HostEdge(req)
  BY CellAccesses, SystemFacts DEF ClearC
<1>2. /\ pc = "clearC" /\ result' = result
      /\ \/ iter + 1 < N * N /\ pc' = "clearC" /\ iter' = iter + 1
         \/ ~(iter + 1 < N * N) /\ pc' = "loadA" /\ iter' = 0
  BY DEF ClearC, Loop
<1>3. ContractInv'
  BY <1>1, QuietEdge DEF SystemInv
<1>4. result = NothingRead
  BY <1>2 DEF SystemInv, DriverInv, ReadsFresh, AfterDone
<1>5. SystemTypeOK'
  BY <1>2, <1>3, SystemFacts DEF SystemTypeOK, ContractInv, ProgramPoint
<1>6. OldRunEnds'
  <2>1. Position = 1 + iter /\ Position' = 2 + iter
    BY <1>2, SystemFacts DEF Position
  <2> QED
    BY <1>1, <1>2, <2>1, RaceKept, SystemFacts DEF BeforeStart
<1>7. LoopAtZero' /\ LoadedSoFar' /\ OwnRun' /\ ReadsFresh'
  BY <1>2, <1>4, SystemFacts
  DEF LoopAtZero, LoadedSoFar, OwnRun, ReadsFresh, AfterStart, AfterDone, Cell
<1>8. ResultsAreProduct'
  BY <1>2, <1>4, NothingReadIsRight
<1> QED
  BY <1>3, <1>5, <1>6, <1>7, <1>8 DEF SystemInv, DriverInv

LEMMA LoadAInv ==
  ASSUME SystemFits, SystemInv, LoadA
  PROVE  SystemInv'
<1> DEFINE req == IOWR(MEM_A + iter, matrix_A[iter])
<1>1. req \in Request /\ ~clr_pe_sig(req) /\ HostEdge(req)
  BY CellAccesses, SystemFacts DEF LoadA
<1>2. /\ pc = "loadA" /\ result' = result
      /\ \/ iter + 1 < N * N /\ pc' = "loadA" /\ iter' = iter + 1
         \/ ~(iter + 1 < N * N) /\ pc' = "loadB" /\ iter' = 0
  BY DEF LoadA, Loop
<1>3. ContractInv'
  BY <1>1, QuietEdge DEF SystemInv
<1>4. result = NothingRead
  BY <1>2 DEF SystemInv, DriverInv, ReadsFresh, AfterDone
<1>5. SystemTypeOK'
  BY <1>2, <1>3, SystemFacts DEF SystemTypeOK, ContractInv, ProgramPoint
<1>6. OldRunEnds'
  <2>1. Position = 1 + N * N + iter /\ Position' = 2 + N * N + iter
    BY <1>2, SystemFacts DEF Position
  <2> QED
    BY <1>1, <1>2, <2>1, RaceKept, SystemFacts DEF BeforeStart
<1>7. LoadedSoFar'
  <2>1. \A c \in Cell : c < iter => mem_A[c] = matrix_A[c]
    BY <1>2 DEF SystemInv, DriverInv, LoadedSoFar
  <2>2. mem_A' = [mem_A EXCEPT ![iter] = matrix_A[iter]]
    BY <1>1, MemoryLoaded, SystemFacts
  <2>3. \A c \in Cell : c < iter + 1 => mem_A'[c] = matrix_A[c]
    BY <2>1, <2>2, SystemFacts DEF Cell
  <2>4. CASE iter + 1 < N * N
    BY <1>2, <2>3, <2>4 DEF LoadedSoFar
  <2>5. CASE ~(iter + 1 < N * N)
    <3>1. \A c \in Cell : c < iter + 1
      BY <2>5, SystemFacts DEF Cell
    <3>2. mem_A' = matrix_A
      BY <2>2, <2>3, <3>1, SystemFacts
    <3>3. iter' = 0 /\ \A c \in Cell : ~(c < 0)
      BY <1>2, <2>5 DEF Cell
    <3> QED
      BY <1>2, <2>5, <3>2, <3>3 DEF LoadedSoFar
  <2> QED
    BY <2>4, <2>5
<1>8. LoopAtZero' /\ OwnRun' /\ ReadsFresh'
  BY <1>2, <1>4 DEF LoopAtZero, OwnRun, ReadsFresh, AfterStart, AfterDone
<1>9. ResultsAreProduct'
  BY <1>2, <1>4, NothingReadIsRight
<1> QED
  BY <1>3, <1>5, <1>6, <1>7, <1>8, <1>9 DEF SystemInv, DriverInv

LEMMA LoadBInv ==
  ASSUME SystemFits, SystemInv, LoadB
  PROVE  SystemInv'
<1> DEFINE req == IOWR(MEM_B + iter, matrix_B[iter])
<1>1. req \in Request /\ ~clr_pe_sig(req) /\ HostEdge(req)
  BY CellAccesses, SystemFacts DEF LoadB
<1>2. /\ pc = "loadB" /\ result' = result
      /\ \/ iter + 1 < N * N /\ pc' = "loadB" /\ iter' = iter + 1
         \/ ~(iter + 1 < N * N) /\ pc' = "start" /\ iter' = 0
  BY DEF LoadB, Loop
<1>3. ContractInv'
  BY <1>1, QuietEdge DEF SystemInv
<1>4. result = NothingRead
  BY <1>2 DEF SystemInv, DriverInv, ReadsFresh, AfterDone
<1>5. SystemTypeOK'
  BY <1>2, <1>3, SystemFacts DEF SystemTypeOK, ContractInv, ProgramPoint
<1>6. OldRunEnds'
  <2>1. /\ Position = 1 + 2 * (N * N) + iter
        /\ Position' = 2 + 2 * (N * N) + iter
    BY <1>2, SystemFacts DEF Position
  <2> QED
    BY <1>1, <1>2, <2>1, RaceKept, SystemFacts DEF BeforeStart
<1>7. LoadedSoFar'
  <2>1. mem_A = matrix_A /\ \A c \in Cell : c < iter => mem_B[c] = matrix_B[c]
    BY <1>2 DEF SystemInv, DriverInv, LoadedSoFar
  <2>2. /\ mem_A' = matrix_A
        /\ mem_B' = [mem_B EXCEPT ![iter] = matrix_B[iter]]
    BY <1>1, <2>1, MemoryLoaded, SystemFacts
  <2>3. \A c \in Cell : c < iter + 1 => mem_B'[c] = matrix_B[c]
    BY <2>1, <2>2, SystemFacts DEF Cell
  <2>4. CASE iter + 1 < N * N
    BY <1>2, <2>2, <2>3, <2>4 DEF LoadedSoFar
  <2>5. CASE ~(iter + 1 < N * N)
    <3>1. \A c \in Cell : c < iter + 1
      BY <2>5, SystemFacts DEF Cell
    <3>2. mem_B' = matrix_B
      BY <2>2, <2>3, <3>1, SystemFacts
    <3> QED
      BY <1>2, <2>2, <2>5, <3>2 DEF LoadedSoFar
  <2> QED
    BY <2>4, <2>5
<1>8. LoopAtZero' /\ OwnRun' /\ ReadsFresh'
  BY <1>2, <1>4 DEF LoopAtZero, OwnRun, ReadsFresh, AfterStart, AfterDone
<1>9. ResultsAreProduct'
  BY <1>2, <1>4, NothingReadIsRight
<1> QED
  BY <1>3, <1>5, <1>6, <1>7, <1>8, <1>9 DEF SystemInv, DriverInv

\* START finds the machine idle: the run that begins is the program's own.
LEMMA StartInv ==
  ASSUME SystemFits, SystemInv, Start
  PROVE  SystemInv'
<1> DEFINE req == IOWR(CTRL, 1)
<1>1. req \in Request /\ clr_pe_sig(req) /\ HostEdge(req)
  BY Accesses DEF Start
<1>2. pc = "start" /\ pc' = "poll" /\ iter' = iter /\ result' = result
  BY DEF Start
<1>3. ContractInv'
  BY <1>1, EdgeInv DEF SystemInv, SystemFits
<1>4. result = NothingRead /\ iter = 0
  BY <1>2 DEF SystemInv, DriverInv, ReadsFresh, AfterDone, LoopAtZero
<1>5. SystemTypeOK'
  BY <1>2, <1>3, SystemFacts DEF SystemTypeOK, ContractInv, ProgramPoint
<1>6. ~Busy /\ mem_A = matrix_A /\ mem_B = matrix_B
  BY <1>2, RaceWon DEF StartOnlyWhenIdle, SystemInv, DriverInv, LoadedSoFar
<1>7. OwnRun'
  BY <1>1, <1>6 DEF HostEdge, OwnRun
<1>8. OldRunEnds' /\ LoopAtZero' /\ LoadedSoFar' /\ ReadsFresh'
  BY <1>2, <1>4
  DEF OldRunEnds, LoopAtZero, LoadedSoFar, ReadsFresh, BeforeStart, AfterDone
<1>9. ResultsAreProduct'
  BY <1>2, <1>4, NothingReadIsRight
<1> QED
  BY <1>3, <1>5, <1>7, <1>8, <1>9 DEF SystemInv, DriverInv

-----------------------------------------------------------------------------
(***************************************************************************)
(* The poll: the DONE bit that ends it is that of the program's own run,   *)
(* and it stays set while the results are read.                            *)
(***************************************************************************)
LEMMA Unchanged ==
  ASSUME SystemFits, SystemInv, UNCHANGED hostVars
  PROVE  /\ ContractInv'
         /\ mem_A' = mem_A /\ mem_B' = mem_B /\ mem_C' = mem_C
         /\ opA' = opA /\ opB' = opB /\ clean' = clean
         /\ avs_readdata' = avs_readdata /\ ctrl_done' = ctrl_done
         /\ Busy' = Busy /\ Remaining' = Remaining
<1>1. ContractInv'
  BY ContractStep DEF SystemInv, SystemFits
<1>2. UNCHANGED controlVars /\ UNCHANGED memVars /\ UNCHANGED historyVars
  BY DEF hostVars, accelVars
<1> QED
  BY <1>1, <1>2 DEF controlVars, memVars, historyVars, Busy, Remaining

LEMMA PollInv ==
  ASSUME SystemFits, SystemInv, Poll
  PROVE  SystemInv'
<1> DEFINE req == IORD(CTRL)
<1>1. req \in Request /\ ~clr_pe_sig(req) /\ HostEdge(req)
  BY Accesses DEF Poll
<1>2. pc = "poll" /\ pc' = "test" /\ iter' = iter /\ result' = result
  BY DEF Poll
<1>3. ContractInv' /\ (ctrl_done => ctrl_done')
  BY <1>1, QuietEdge DEF SystemInv
<1>4. result = NothingRead /\ iter = 0
  BY <1>2 DEF SystemInv, DriverInv, ReadsFresh, AfterDone, LoopAtZero
<1>5. SystemTypeOK'
  BY <1>2, <1>3, SystemFacts DEF SystemTypeOK, ContractInv, ProgramPoint
<1>6. OwnRun'
  <2>1. clean /\ opA = matrix_A /\ opB = matrix_B
    BY <1>2 DEF SystemInv, DriverInv, OwnRun, AfterStart
  <2>2. mem_A' = mem_A /\ mem_B' = mem_B
    BY <1>1, MemoryKept DEF IORD
  <2> QED
    BY <1>1, <2>1, <2>2, QuietEdge DEF SystemInv, OwnRun
<1>7. (avs_readdata' \div 2) % 2 = 1 => ctrl_done
  <2>1. avs_readdata' = StatusWord
    BY <1>1 DEF HostEdge, AccelEdge, BusRead, IORD, ReadValue
  <2>2. (0 \div 2) % 2 = 0 /\ (1 \div 2) % 2 = 0
    OBVIOUS
  <2>3. ~ctrl_done => avs_readdata' \in {0, 1}
    BY <2>1 DEF StatusWord
  <2> QED
    BY <2>2, <2>3
<1>8. OldRunEnds' /\ LoopAtZero' /\ LoadedSoFar' /\ ReadsFresh'
  BY <1>2, <1>3, <1>4, <1>7
  DEF OldRunEnds, LoopAtZero, LoadedSoFar, ReadsFresh, BeforeStart, AfterDone
<1>9. ResultsAreProduct'
  BY <1>2, <1>4, NothingReadIsRight
<1> QED
  BY <1>3, <1>5, <1>6, <1>8, <1>9 DEF SystemInv, DriverInv

LEMMA TestInv ==
  ASSUME SystemFits, SystemInv, Test
  PROVE  SystemInv'
<1>1. /\ pc = "test" /\ iter' = iter /\ result' = result /\ UNCHANGED hostVars
      /\ pc' = IF (avs_readdata \div 2) % 2 = 1 THEN "read" ELSE "poll"
  BY DEF Test
<1>2. result = NothingRead /\ iter = 0
  BY <1>1 DEF SystemInv, DriverInv, ReadsFresh, AfterDone, LoopAtZero
<1>3. SystemTypeOK'
  BY <1>1, Unchanged, SystemFacts DEF SystemTypeOK, ContractInv, ProgramPoint
<1>4. OwnRun'
  BY <1>1, Unchanged DEF SystemInv, DriverInv, OwnRun, AfterStart
<1>5. pc' = "read" => ctrl_done'
  BY <1>1, Unchanged DEF SystemInv, DriverInv, ReadsFresh
<1>6. OldRunEnds' /\ LoopAtZero' /\ LoadedSoFar' /\ ReadsFresh'
  BY <1>1, <1>2, <1>5
  DEF OldRunEnds, LoopAtZero, LoadedSoFar, ReadsFresh, BeforeStart, AfterDone
<1>7. ResultsAreProduct'
  BY <1>1, <1>2, NothingReadIsRight
<1> QED
  BY <1>1, <1>3, <1>4, <1>6, <1>7, Unchanged DEF SystemInv, DriverInv

-----------------------------------------------------------------------------
(***************************************************************************)
(* Reading the results: each cell holds its entry of the product, at the   *)
(* read and still when the value is taken.                                 *)
(***************************************************************************)
LEMMA ReadCInv ==
  ASSUME SystemFits, SystemInv, ReadC
  PROVE  SystemInv'
<1> DEFINE req == IORD(MEM_C + iter)
<1>1. req \in Request /\ ~clr_pe_sig(req) /\ HostEdge(req)
  BY CellAccesses, SystemFacts DEF ReadC
<1>2. pc = "read" /\ pc' = "take" /\ iter' = iter /\ result' = result
  BY DEF ReadC
<1>3. ContractInv' /\ (ctrl_done => ctrl_done')
  BY <1>1, QuietEdge DEF SystemInv
<1>4. clean /\ opA = matrix_A /\ opB = matrix_B /\ ctrl_done
  BY <1>2 DEF SystemInv, DriverInv, OwnRun, ReadsFresh, AfterStart, AfterDone
<1>5. SystemTypeOK'
  BY <1>2, <1>3, SystemFacts DEF SystemTypeOK, ContractInv, ProgramPoint
<1>6. OwnRun'
  <2>1. mem_A' = mem_A /\ mem_B' = mem_B
    BY <1>1, MemoryKept DEF IORD
  <2> QED
    BY <1>1, <1>4, <2>1, QuietEdge DEF SystemInv, OwnRun
<1>7. avs_readdata' = mem_C'[iter']
  <2>1. mem_C' = mem_C
    BY <1>1, <1>4, QuietEdge DEF SystemInv
  <2>2. /\ MEM_C + iter \in Window(MEM_C) /\ (MEM_C + iter) - MEM_C = iter
        /\ MEM_C + iter # CTRL
    BY SystemFacts DEF Window, MEM_C, CTRL
  <2> QED
    BY <1>1, <1>2, <2>1, <2>2 DEF HostEdge, AccelEdge, BusRead, IORD, ReadValue
<1>8. OldRunEnds' /\ LoopAtZero' /\ LoadedSoFar' /\ ReadsFresh'
  BY <1>2, <1>3, <1>4, <1>7
  DEF OldRunEnds, LoopAtZero, LoadedSoFar, ReadsFresh, BeforeStart, AfterDone
<1>9. ResultsAreProduct'
  BY <1>2 DEF SystemInv, ResultsAreProduct
<1> QED
  BY <1>3, <1>5, <1>6, <1>8, <1>9 DEF SystemInv, DriverInv

LEMMA TakeCInv ==
  ASSUME SystemFits, SystemInv, TakeC
  PROVE  SystemInv'
<1>1. /\ pc = "take" /\ UNCHANGED hostVars
      /\ result' = [result EXCEPT ![iter] = avs_readdata]
      /\ pc' \in {"read", "finished"}
      /\ \/ iter + 1 < N * N /\ iter' = iter + 1 /\ pc' = "read"
         \/ iter' = 0
  BY DEF TakeC
<1>2. /\ clean /\ opA = matrix_A /\ opB = matrix_B /\ ctrl_done
      /\ avs_readdata = mem_C[iter]
  BY <1>1 DEF SystemInv, DriverInv, OwnRun, ReadsFresh, AfterStart, AfterDone
<1>3. avs_readdata \in Word
  BY <1>2, SystemFacts
<1>4. iter' \in Cell /\ result' \in [Cell -> Word \cup {NotRead}]
  BY <1>1, <1>3, SystemFacts
<1>5. SystemTypeOK'
  BY <1>1, <1>4, Unchanged DEF SystemTypeOK, ContractInv, ProgramPoint
<1>6. OldRunEnds' /\ LoopAtZero' /\ LoadedSoFar' /\ OwnRun' /\ ReadsFresh'
  BY <1>1, <1>2, Unchanged
  DEF OldRunEnds, LoopAtZero, LoadedSoFar, OwnRun, ReadsFresh, BeforeStart,
      AfterDone
<1>7. ResultsAreProduct'
  <2>1. SUFFICES ASSUME NEW r \in Lane, NEW c \in Lane
                 PROVE  result'[Idx(r, c)] \in
                          {NotRead, Dot(Row(matrix_A, r), Col(matrix_B, c))}
    BY DEF ResultsAreProduct
  <2>2. Idx(r, c) \in Cell
    BY IdxIsCell
  <2>3. CASE Idx(r, c) = iter
    <3>1. mem_C[Idx(r, c)] = Dot(Row(matrix_A, r), Col(matrix_B, c))
      BY <1>2 DEF SystemInv, ContractInv, ResultCorrect
    <3> QED
      BY <1>1, <1>2, <2>2, <2>3, <3>1, SystemFacts
  <2>4. CASE Idx(r, c) # iter
    BY <1>1, <2>2, <2>4, SystemFacts DEF SystemInv, ResultsAreProduct
  <2> QED
    BY <2>3, <2>4
<1> QED
  BY <1>1, <1>5, <1>6, <1>7, Unchanged DEF SystemInv, DriverInv

-----------------------------------------------------------------------------
(***************************************************************************)
(* Edges between the accesses, restarts of the program, resets.            *)
(***************************************************************************)
LEMMA IdleEdgeInv ==
  ASSUME SystemFits, SystemInv, IdleEdge
  PROVE  SystemInv'
<1> DEFINE req == NoAccess
<1>1. req \in Request /\ ~clr_pe_sig(req) /\ HostEdge(req)
  BY Accesses DEF IdleEdge
<1>2. pc' = pc /\ iter' = iter /\ result' = result
  BY DEF IdleEdge, cpuVars
<1>3. ContractInv' /\ (ctrl_done => ctrl_done')
  BY <1>1, QuietEdge DEF SystemInv
<1>4. mem_A' = mem_A /\ mem_B' = mem_B
  BY <1>1, MemoryKept DEF NoAccess
<1>5. SystemTypeOK'
  BY <1>2, <1>3 DEF SystemInv, SystemTypeOK, ContractInv
<1>6. OldRunEnds'
  <2>1. pc \in BeforeStart => Position \in Nat
    BY SystemFacts DEF Position, BeforeStart
  <2>2. Position' = Position
    BY <1>2 DEF Position
  <2> QED
    BY <1>1, <1>2, <2>1, <2>2, RaceKept
<1>7. LoopAtZero' /\ LoadedSoFar'
  BY <1>2, <1>4 DEF SystemInv, DriverInv, LoopAtZero, LoadedSoFar
<1>8. OwnRun'
  BY <1>1, <1>2, <1>4, QuietEdge DEF SystemInv, DriverInv, OwnRun
<1>9. ReadsFresh'
  <2>1. avs_readdata' = avs_readdata
    BY <1>1 DEF HostEdge, AccelEdge, BusRead, NoAccess
  <2>2. pc = "take" => mem_C' = mem_C
    BY <1>1, QuietEdge
    DEF SystemInv, DriverInv, OwnRun, ReadsFresh, AfterStart, AfterDone
  <2> QED
    BY <1>2, <1>3, <2>1, <2>2 DEF SystemInv, DriverInv, ReadsFresh
<1>10. ResultsAreProduct'
  BY <1>2 DEF SystemInv, ResultsAreProduct
<1> QED
  BY <1>3, <1>5, <1>6, <1>7, <1>8, <1>9, <1>10 DEF SystemInv, DriverInv

LEMMA ToMainInv ==
  ASSUME SystemFits, CpuToMain, ContractInv',
         Busy' => Remaining' \in 1 .. 5 * N + 4
  PROVE  SystemInv'
<1>1. pc' = "reset" /\ iter' = 0 /\ result' = NothingRead
  BY DEF CpuToMain
<1>2. SystemTypeOK'
  BY <1>1, Sizes, NothingReadType DEF SystemTypeOK, ContractInv, ProgramPoint
<1>3. OldRunEnds'
  <2>1. SUFFICES ASSUME Busy' PROVE Position' + Remaining' <= 5 * N + 4
    BY DEF OldRunEnds
  <2>2. Remaining' \in 1 .. 5 * N + 4
    BY <2>1
  <2>3. Position' = 0
    BY <1>1 DEF Position
  <2> QED
    BY <2>2, <2>3, Sizes
<1>4. LoopAtZero' /\ LoadedSoFar' /\ OwnRun' /\ ReadsFresh'
  BY <1>1
  DEF LoopAtZero, LoadedSoFar, OwnRun, ReadsFresh, AfterStart, AfterDone
<1>5. ResultsAreProduct'
  BY <1>1, NothingReadIsRight
<1> QED
  BY <1>2, <1>3, <1>4, <1>5 DEF SystemInv, DriverInv

LEMMA StutterInv ==
  ASSUME SystemFits, SystemInv, UNCHANGED systemVars
  PROVE  SystemInv'
<1>1. UNCHANGED hostVars /\ pc' = pc /\ iter' = iter /\ result' = result
  BY DEF systemVars, cpuVars
<1>2. Position' = Position
  BY <1>1 DEF Position
<1>3. SystemTypeOK' /\ ResultsAreProduct'
  BY <1>1, Unchanged
  DEF SystemInv, SystemTypeOK, ContractInv, ResultsAreProduct
<1>4. DriverInv'
  BY <1>1, <1>2, Unchanged
  DEF SystemInv, DriverInv, OldRunEnds, LoopAtZero, LoadedSoFar, OwnRun,
      ReadsFresh
<1> QED
  BY <1>1, <1>3, <1>4, Unchanged DEF SystemInv

LEMMA SystemStep ==
  ASSUME SystemFits, SystemInv, [SystemNext]_systemVars
  PROVE  SystemInv'
<1>1. CASE CpuStep
  BY <1>1, SoftwareResetInv, ClearCInv, LoadAInv, LoadBInv, StartInv, PollInv,
     TestInv, ReadCInv, TakeCInv
  DEF CpuStep
<1>2. CASE IdleEdge
  BY <1>2, IdleEdgeInv
<1>3. CASE CpuRestart
  <2>1. CpuToMain /\ UNCHANGED hostVars
    BY <1>3 DEF CpuRestart
  <2>2. Busy => Remaining \in 1 .. 5 * N + 4
    BY RemainingRange DEF SystemInv, ContractInv, AccelTypeOK
  <2> QED
    BY <2>1, <2>2, Unchanged, ToMainInv
<1>4. CASE SystemReset
  <2>1. CpuToMain /\ HostReset
    BY <1>4 DEF SystemReset
  <2>2. ~Busy'
    BY <2>1 DEF HostReset, AccelReset, ControlReset, Busy
  <2> QED
    BY <2>1, <2>2, ResetInv, ToMainInv
<1>5. CASE UNCHANGED systemVars
  BY <1>5, StutterInv
<1> QED
  BY <1>1, <1>2, <1>3, <1>4, <1>5 DEF SystemNext

LEMMA SystemInvInit ==
  ASSUME SystemFits, SystemInit
  PROVE  SystemInv
<1>1. /\ ContractInv /\ ~Busy
      /\ pc = "reset" /\ iter = 0 /\ result = NothingRead
  BY InitInv DEF SystemInit, HostInit, AccelInit, ControlInit, Busy
<1>2. SystemTypeOK
  BY <1>1, Sizes, NothingReadType DEF SystemTypeOK, ContractInv, ProgramPoint
<1>3. DriverInv
  BY <1>1
  DEF DriverInv, OldRunEnds, LoopAtZero, LoadedSoFar, OwnRun, ReadsFresh,
      AfterStart, AfterDone
<1>4. ResultsAreProduct
  BY <1>1, IdxIsCell DEF ResultsAreProduct, NothingRead
<1> QED
  BY <1>1, <1>2, <1>3, <1>4 DEF SystemInv

-----------------------------------------------------------------------------
(***************************************************************************)
(* The invariant of driver and device holds at every size that fits.       *)
(***************************************************************************)
THEOREM SystemInvCorrect ==
  ASSUME SystemFits PROVE SystemSpec => []SystemInv
<1>1. SystemInit => SystemInv
  BY SystemInvInit
<1>2. SystemInv /\ [SystemNext]_systemVars => SystemInv'
  BY SystemStep
<1> QED
  BY <1>1, <1>2, PTL DEF SystemSpec

(***************************************************************************)
(* The device's registers and the program's variables keep their types.    *)
(***************************************************************************)
THEOREM SystemTypeCorrect ==
  ASSUME SystemFits PROVE SystemSpec => []SystemTypeOK
<1>1. SystemInv => SystemTypeOK
  BY DEF SystemInv
<1> QED
  BY <1>1, SystemInvCorrect, PTL

(***************************************************************************)
(* What the program relies on at each of its statements: how long a run    *)
(* begun before a restart can still go on, what is loaded, whose run the   *)
(* machine is in, and what its read register and C hold.                   *)
(***************************************************************************)
THEOREM DriverInvCorrect ==
  ASSUME SystemFits PROVE SystemSpec => []DriverInv
<1>1. SystemInv => DriverInv
  BY DEF SystemInv
<1> QED
  BY <1>1, SystemInvCorrect, PTL

(***************************************************************************)
(* The program, which never looks before it starts the machine, never      *)
(* starts a running one, whenever it was restarted and however slow it is. *)
(***************************************************************************)
THEOREM StartOnlyWhenIdleCorrect ==
  ASSUME SystemFits PROVE SystemSpec => []StartOnlyWhenIdle
<1>1. SystemInv => StartOnlyWhenIdle
  BY RaceWon
<1> QED
  BY <1>1, SystemInvCorrect, PTL

(***************************************************************************)
(* Every entry of C the program has read is that of the product of its own *)
(* matrices.                                                               *)
(***************************************************************************)
THEOREM ResultsAreProductCorrect ==
  ASSUME SystemFits PROVE SystemSpec => []ResultsAreProduct
<1>1. SystemInv => ResultsAreProduct
  BY DEF SystemInv
<1> QED
  BY <1>1, SystemInvCorrect, PTL

-----------------------------------------------------------------------------
(***************************************************************************)
(* The driver keeps the handshake: driver and device together implement    *)
(* HandshakeSpec of AccelControl.  A step of the system is an edge of the  *)
(* registers, their reset, or leaves them alone.                           *)
(***************************************************************************)
LEMMA EdgeIsHandshake ==
  ASSUME NEW req \in Request, HostEdge(req), clr_pe_sig(req) => ~Busy
  PROVE  HandshakeEdge
BY CommandFacts DEF HostEdge, AccelEdge, HandshakeEdge

LEMMA StepIsHandshake ==
  ASSUME SystemFits, SystemInv, [SystemNext]_systemVars
  PROVE  [ControlReset \/ HandshakeEdge]_controlVars
<1>1. CASE SoftwareReset \/ Poll \/ IdleEdge
  BY <1>1, Accesses, EdgeIsHandshake DEF SoftwareReset, Poll, IdleEdge
<1>2. CASE ClearC
  BY <1>2, CellAccesses, SystemFacts, EdgeIsHandshake DEF ClearC
<1>3. CASE LoadA
  BY <1>3, CellAccesses, SystemFacts, EdgeIsHandshake DEF LoadA
<1>4. CASE LoadB
  BY <1>4, CellAccesses, SystemFacts, EdgeIsHandshake DEF LoadB
<1>5. CASE ReadC
  BY <1>5, CellAccesses, SystemFacts, EdgeIsHandshake DEF ReadC
<1>6. CASE Start
  BY <1>6, Accesses, RaceWon, EdgeIsHandshake DEF Start, StartOnlyWhenIdle
<1>7. CASE SystemReset
  BY <1>7 DEF SystemReset, HostReset, AccelReset
<1>8. CASE Test \/ TakeC \/ CpuRestart \/ UNCHANGED systemVars
  BY <1>8 DEF Test, TakeC, CpuRestart, systemVars, hostVars, accelVars
<1> QED
  BY <1>1, <1>2, <1>3, <1>4, <1>5, <1>6, <1>7, <1>8 DEF SystemNext, CpuStep

(***************************************************************************)
(* What the driver does to the registers is what HandshakeSpec allows.     *)
(***************************************************************************)
THEOREM HandshakeKept ==
  ASSUME SystemFits PROVE SystemSpec => DriverKeepsHandshake
<1>1. SystemInit => ControlInit
  BY DEF SystemInit, HostInit, AccelInit
<1>2. SystemInv /\ [SystemNext]_systemVars
        => [ControlReset \/ HandshakeEdge]_controlVars
  BY StepIsHandshake
<1> QED
  BY <1>1, <1>2, SystemInvCorrect, PTL
  DEF SystemSpec, HandshakeSpec, DriverKeepsHandshake

-----------------------------------------------------------------------------
(***************************************************************************)
(* The device with its driver is the unit of MatMulUnit as well: a step of *)
(* the system is an edge of the device, its reset, or leaves it alone.     *)
(***************************************************************************)
LEMMA StepIsUnit ==
  ASSUME SystemFits, SystemInv, [SystemNext]_systemVars
  PROVE  [Unit!UnitNext]_(Unit!unitVars)
<1>1. ContractInv
  BY DEF SystemInv
<1>2. ASSUME NEW req \in Request, HostEdge(req)
      PROVE  Unit!UnitNext
  BY <1>1, <1>2, EdgeIsUnit
<1>3. CASE SoftwareReset \/ Poll \/ IdleEdge \/ Start
  BY <1>2, <1>3, Accesses DEF SoftwareReset, Poll, IdleEdge, Start
<1>4. CASE ClearC
  BY <1>2, <1>4, CellAccesses, SystemFacts DEF ClearC
<1>5. CASE LoadA
  BY <1>2, <1>5, CellAccesses, SystemFacts DEF LoadA
<1>6. CASE LoadB
  BY <1>2, <1>6, CellAccesses, SystemFacts DEF LoadB
<1>7. CASE ReadC
  BY <1>2, <1>7, CellAccesses, SystemFacts DEF ReadC
<1>8. CASE SystemReset
  BY <1>8, ResetIsUnit DEF SystemReset, Unit!UnitNext
<1>9. CASE Test \/ TakeC \/ CpuRestart \/ UNCHANGED systemVars
  <2>1. UNCHANGED hostVars
    BY <1>9 DEF Test, TakeC, CpuRestart, systemVars
  <2> QED
    BY <2>1, QuietIsUnit
<1> QED
  BY <1>3, <1>4, <1>5, <1>6, <1>7, <1>8, <1>9 DEF SystemNext, CpuStep

(***************************************************************************)
(* Under its driver, which may be restarted at any moment, the accelerator *)
(* keeps the promise of MatMulUnit, at every size the addresses and the    *)
(* counter allow.                                                          *)
(***************************************************************************)
THEOREM SystemIsMatMulUnit ==
  ASSUME SystemFits PROVE SystemSpec => IsMatMulUnit
<1>1. SystemInit => Unit!UnitInit
  BY InitIsUnit DEF SystemInit
<1>2. SystemInv /\ [SystemNext]_systemVars => [Unit!UnitNext]_(Unit!unitVars)
  BY StepIsUnit
<1> QED
  BY <1>1, <1>2, SystemInvCorrect, PTL DEF SystemSpec, IsMatMulUnit, Unit!UnitSpec

-----------------------------------------------------------------------------
(***************************************************************************)
(* The numbers of the results.  The sums of exact products, as PartialDot  *)
(* is treated in AccelContractProofs: a function up to n extends to n + 1, *)
(* so there is one up to N.                                                *)
(***************************************************************************)
BuiltUnit ==
  Word = Half /\ \A a, b, acc \in Half : Mac(a, b, acc) = fp16_mac(a, b, acc)

TotalsUpTo(i, j, n, s) ==
  s = [k \in 0 .. n |-> IF k = 0 THEN 0 ELSE s[k - 1] + ExactTerm(i, j, k - 1)]

LEMMA TotalsExtend ==
  ASSUME NEW i, NEW j, NEW n \in Nat, NEW s, TotalsUpTo(i, j, n, s)
  PROVE  \E t : TotalsUpTo(i, j, n + 1, t)
<1> DEFINE t == [k \in 0 .. n + 1 |->
                   IF k = n + 1 THEN s[n] + ExactTerm(i, j, n) ELSE s[k]]
           u == [k \in 0 .. n + 1 |->
                   IF k = 0 THEN 0 ELSE t[k - 1] + ExactTerm(i, j, k - 1)]
<1>1. ASSUME NEW k \in 0 .. n
      PROVE  s[k] = IF k = 0 THEN 0 ELSE s[k - 1] + ExactTerm(i, j, k - 1)
  BY DEF TotalsUpTo
<1>2. ASSUME NEW k \in 0 .. n + 1, k # 0
      PROVE  t[k - 1] = s[k - 1]
  <2>1. k - 1 \in 0 .. n + 1 /\ k - 1 # n + 1
    BY <1>2
  <2> QED
    BY <2>1
<1>3. ASSUME NEW k \in 0 .. n + 1
      PROVE  t[k] = u[k]
  <2>1. CASE k = n + 1
    <3>1. k - 1 = n /\ k # 0
      BY <2>1
    <3>2. u[k] = t[k - 1] + ExactTerm(i, j, n)
      BY <3>1
    <3> QED
      BY <2>1, <3>1, <3>2, <1>2
  <2>2. CASE k # n + 1
    <3>1. k \in 0 .. n /\ t[k] = s[k]
      BY <2>2
    <3>2. CASE k = 0
      BY <3>1, <3>2, <1>1
    <3>3. CASE k # 0
      BY <3>1, <3>3, <1>1, <1>2
    <3> QED
      BY <3>2, <3>3
  <2> QED
    BY <2>1, <2>2
<1>4. t = u
  <2> HIDE DEF t
  <2>1. t = [k \in 0 .. n + 1 |-> t[k]]
    BY DEF t
  <2> QED
    BY <1>3, <2>1
<1> QED
  BY <1>4 DEF TotalsUpTo

LEMMA ExactSumsAre ==
  ASSUME NEW i, NEW j
  PROVE  TotalsUpTo(i, j, N, ExactSums(i, j))
<1> DEFINE S == {m \in Nat : \E s : TotalsUpTo(i, j, m, s)}
<1>1. 0 \in S
  <2> DEFINE z == [k \in 0 .. 0 |-> 0]
  <2>1. z = [k \in 0 .. 0 |-> IF k = 0 THEN 0 ELSE z[k - 1] + ExactTerm(i, j, k - 1)]
    OBVIOUS
  <2> QED
    BY <2>1 DEF TotalsUpTo
<1>2. \A m \in Nat : m \in S => m + 1 \in S
  BY TotalsExtend
<1> HIDE DEF S
<1>3. N \in S
  BY <1>1, <1>2, SetInduction, NAssumption
<1>4. \E s : TotalsUpTo(i, j, N, s)
  BY <1>3 DEF S
<1>5. ExactSums(i, j) = CHOOSE s : TotalsUpTo(i, j, N, s)
  BY DEF ExactSums, TotalsUpTo
<1> QED
  BY <1>4, <1>5, Zenon

LEMMA ExactSumsNext ==
  ASSUME NEW i, NEW j
  PROVE  /\ ExactSums(i, j)[0] = 0
         /\ \A k \in Lane :
              ExactSums(i, j)[k + 1] = ExactSums(i, j)[k] + ExactTerm(i, j, k)
<1>1. TotalsUpTo(i, j, N, ExactSums(i, j))
  BY ExactSumsAre
<1>2. ExactSums(i, j)[0] = 0
  BY <1>1, NAssumption DEF TotalsUpTo
<1>3. ASSUME NEW k \in Lane
      PROVE  ExactSums(i, j)[k + 1] = ExactSums(i, j)[k] + ExactTerm(i, j, k)
  <2>1. k + 1 \in 0 .. N /\ k + 1 # 0 /\ (k + 1) - 1 = k
    BY NAssumption DEF Lane
  <2> QED
    BY <1>1, <2>1 DEF TotalsUpTo
<1> QED
  BY <1>2, <1>3

(***************************************************************************)
(* Products of two entries, and k of them together.                        *)
(***************************************************************************)
LEMMA TermIsShort ==
  ASSUME NEW most \in Nat, NEW q \in Int, NEW s \in Int, Abs(q) <= most, Abs(s) <= most
  PROVE  q * s \in Int /\ Abs(q * s) <= most * most
<1>1. PICK x \in Nat, y \in Nat : x = Abs(q) /\ y = Abs(s)
  BY DEF Abs
<1>2. Abs(q * s) = x * y
  <2>1. Abs(q * s) = Abs(q) * Abs(s)
    BY ONLY AbsProduct, Zenon
  <2> QED
    BY ONLY <1>1, <2>1, Zenon
<1>3. x * y <= most * y /\ most * y <= most * most
  BY <1>1
<1>4. x * y \in Nat /\ most * y \in Nat /\ most * most \in Nat
  OBVIOUS
<1> QED
  BY <1>2, <1>3, <1>4

\* The sum of k terms, each at most p.
Within(n, k, p) == n \in Int /\ Abs(n) <= k * p

LEMMA WithinNext ==
  ASSUME NEW k \in Nat, NEW p \in Nat, NEW n \in Int, NEW t \in Int,
         Within(n, k, p), Abs(t) <= p
  PROVE  Within(t + n, k + 1, p)
<1>1. (k + 1) * p = k * p + p /\ k * p \in Nat
  OBVIOUS
<1> QED
  BY <1>1 DEF Within, Abs

LEMMA WithinShort ==
  ASSUME NEW k \in 0 .. N, NEW p \in Nat, FitsMantissa(N * p), NEW n \in Int, Within(n, k, p)
  PROVE  Short(n)
<1>1. k * p <= N * p /\ k * p \in Nat /\ N * p \in Nat
  BY NAssumption
<1> QED
  BY <1>1 DEF Within, Short, Abs, FitsMantissa

(***************************************************************************)
(* Every partial sum of an element stands for the exact sum of its terms.  *)
(***************************************************************************)
LEMMA SumsAreExact ==
  ASSUME BuiltUnit, SmallMatrices, NEW i \in Lane, NEW j \in Lane
  PROVE  \E p \in Nat : /\ FitsMantissa(N * p)
                        /\ LET sum == ExactSums(i, j)[N]
                               dot == Dot(Row(matrix_A, i), Col(matrix_B, j))
                           IN  Within(sum, N, p) /\ dot \in Half /\ Represents(dot, sum, 4)
<1> DEFINE row == Row(matrix_A, i)
           col == Col(matrix_B, j)
           Good(k, p) == /\ Within(ExactSums(i, j)[k], k, p)
                         /\ PartialDot(row, col)[k] \in Half
                         /\ Represents(PartialDot(row, col)[k], ExactSums(i, j)[k], 4)
<1>1. PICK most \in 0 .. 45 :
        /\ FitsMantissa(N * (most * most))
        /\ \A c \in Cell :
             \A x \in {matrix_A[c], matrix_B[c]} :
               Represents(x, Scaled(x, 2), 2) /\ Abs(Scaled(x, 2)) <= most
  BY DEF SmallMatrices
<1>2. PICK p \in Nat : p = most * most
  OBVIOUS
<1>3. FitsMantissa(N * p)
  BY <1>1, <1>2
<1>4. ASSUME NEW k \in Lane
      PROVE  /\ row[k] \in Half /\ col[k] \in Half
             /\ Represents(row[k], Scaled(row[k], 2), 2)
             /\ Represents(col[k], Scaled(col[k], 2), 2)
             /\ Abs(Scaled(row[k], 2)) <= most /\ Abs(Scaled(col[k], 2)) <= most
             /\ ExactTerm(i, j, k) = Scaled(row[k], 2) * Scaled(col[k], 2)
  <2>1. Idx(i, k) \in Cell /\ Idx(k, j) \in Cell
    BY IdxIsCell
  <2>2. row[k] = matrix_A[Idx(i, k)] /\ col[k] = matrix_B[Idx(k, j)]
    BY DEF Row, Col
  <2>3. row[k] \in Half /\ col[k] \in Half
    BY <2>1, <2>2, MatrixAssumption DEF BuiltUnit
  <2> HIDE DEF row, col
  <2>4. /\ Represents(row[k], Scaled(row[k], 2), 2) /\ Abs(Scaled(row[k], 2)) <= most
        /\ Represents(col[k], Scaled(col[k], 2), 2) /\ Abs(Scaled(col[k], 2)) <= most
    BY <1>1, <2>1, <2>2, Zenon
  <2>5. ExactTerm(i, j, k) = Scaled(row[k], 2) * Scaled(col[k], 2)
    BY <2>2, Zenon DEF ExactTerm
  <2> QED
    BY <2>3, <2>4, <2>5, Zenon
<1>5. Good(0, p)
  <2>1. PartialDot(row, col)[0] = 0 /\ ExactSums(i, j)[0] = 0
    BY PartialDotZero, ExactSumsNext, Zenon
  <2>2. 0 \in Half /\ IsZero(0)
    BY HalfRange, SMT DEF IsZero
  <2>3. Within(0, 0, p)
    BY DEF Within, Abs
  <2>4. Represents(0, 0, 4)
    BY <2>2, Zenon DEF Represents
  <2> QED
    BY <2>1, <2>2, <2>3, <2>4, Zenon
<1>6. ASSUME NEW k \in Lane, Good(k, p)
      PROVE  Good(k + 1, p)
  <2>1. PICK q \in Int, s \in Int : q = Scaled(row[k], 2) /\ s = Scaled(col[k], 2)
    BY <1>4, ScaledInt, Zenon
  <2>2. PICK n \in Int, acc \in Half : n = ExactSums(i, j)[k] /\ acc = PartialDot(row, col)[k]
    BY <1>6, Zenon DEF Within
  <2>3. q * s \in Int /\ Abs(q * s) <= p
    <3>1. Abs(q) <= most /\ Abs(s) <= most
      BY <1>4, <2>1, Zenon
    <3>2. most \in Nat
      OBVIOUS
    <3> QED
      BY <1>2, <2>1, <3>1, <3>2, TermIsShort, Zenon
  <2>4. PICK t \in Int : t = q * s
    BY <2>3
  <2>5. Within(n, k, p)
    BY <1>6, <2>2, Zenon
  <2>6. k \in Nat /\ k \in 0 .. N /\ k + 1 \in 0 .. N /\ 1 \in 0 .. N
    BY NAssumption DEF Lane
  <2>7. Within(t + n, k + 1, p)
    BY <2>3, <2>4, <2>5, <2>6, WithinNext, Zenon
  <2>8. Short(t) /\ Short(n) /\ Short(t + n)
    <3>1. Within(t, 1, p)
      BY <2>3, <2>4 DEF Within
    <3>2. t + n \in Int
      OBVIOUS
    <3> QED
      BY <1>3, <2>5, <2>6, <2>7, <3>1, <3>2, WithinShort, Zenon
  <2>9. Represents(acc, n, 4)
    BY <1>6, <2>2, Zenon
  <2>10. Represents(row[k], q, 2) /\ Represents(col[k], s, 2) /\ row[k] \in Half /\ col[k] \in Half
    BY <1>4, <2>1, Zenon
  <2>11. Represents(fp16_mac(row[k], col[k], acc), q * s + n, 4)
    BY <2>4, <2>8, <2>9, <2>10, MacIsExact, Zenon
  <2>12. PartialDot(row, col)[k + 1] = fp16_mac(row[k], col[k], acc)
    <3>1. PartialDot(row, col)[k + 1] = Mac(row[k], col[k], acc)
      BY <2>2, PartialDotNext, Zenon
    <3> QED
      BY <2>10, <3>1, Zenon DEF BuiltUnit
  <2>13. ExactSums(i, j)[k + 1] = t + n
    <3>1. ExactSums(i, j)[k + 1] = n + t
      BY <1>4, <2>1, <2>2, <2>4, ExactSumsNext, Zenon
    <3>2. n + t = t + n
      OBVIOUS
    <3> QED
      BY <3>1, <3>2, Zenon
  <2>14. fp16_mac(row[k], col[k], acc) \in Half
    BY <2>10, MacTypeHolds, Zenon
  <2> QED
    BY <2>4, <2>7, <2>11, <2>12, <2>13, <2>14, Zenon
<1> HIDE DEF Good
<1> DEFINE S == {m \in Nat : m <= N => Good(m, p)}
<1>7. 0 \in S
  BY <1>5
<1>8. ASSUME NEW m \in Nat, m \in S
      PROVE  m + 1 \in S
  <2>1. CASE m + 1 <= N
    <3>1. m \in Lane /\ m <= N
      BY <2>1, NAssumption DEF Lane
    <3>2. Good(m, p)
      BY <1>8, <3>1
    <3>3. Good(m + 1, p)
      BY <1>6, <3>1, <3>2
    <3> QED
      BY <3>3
  <2>2. CASE ~(m + 1 <= N)
    BY <2>2
  <2> QED
    BY <2>1, <2>2
<1> HIDE DEF S
<1>9. N \in S
  BY <1>7, <1>8, SetInduction, NAssumption
<1>10. Good(N, p)
  BY <1>9, NAssumption DEF S
<1> QED
  BY <1>3, <1>10, Zenon DEF Good, Dot

-----------------------------------------------------------------------------
(***************************************************************************)
(* What the program prints of a word that stands for n sixteenths is n cut *)
(* off after the hundredths: the quotient fp16_to_float makes of the word  *)
(* is n / 16 with numerator and denominator multiplied by a power of two,  *)
(* which neither the whole part nor the hundredths tell.                   *)
(***************************************************************************)
LEMMA ZeroPrinted ==
  ASSUME NEW x \in Half, IsZero(x)
  PROVE  Printed(x) = Cut(FALSE, 0, 16)
<1>1. Exp(x) = 0 /\ Frac(x) = 0
  <2>1. x \in Int /\ 0 <= x /\ x <= 65535
    BY HalfRange, SMT
  <2>2. x % 32768 = 0
    BY SMT DEF IsZero
  <2>3. x = 0 \/ x = 32768
    BY ONLY <2>1, <2>2, SMT
  <2> QED
    BY ONLY <2>3, SMT DEF Exp, Frac
<1>2. PICK d \in Nat \ {0} : d = 2^24
  <2>1. 6 \in 0 .. 10 /\ 18 \in 0 .. 19 /\ 6 \in 0 .. 18 /\ 18 \in 0 .. 18 /\ 6 + 18 = 24
    BY ONLY SMT
  <2>2. PICK g \in Nat \ {0}, h \in Nat \ {0} : g = 2^6 /\ h = 2^18
    BY ONLY <2>1, PlaceIs, Zenon
  <2>3. 2^24 = g * h
    BY ONLY <2>1, <2>2, PlacesAdd, Zenon
  <2>4. g * h \in Nat \ {0}
    BY ONLY SMT
  <2> QED
    BY ONLY <2>3, <2>4, Zenon
<1>3. fp16_to_float(x) = [num |-> 0, den |-> d]
  <2>1. /\ Exp(x) # 31 /\ Exp(x) \notin 1 .. 25
    BY ONLY <1>1, SMT
  <2> QED
    BY ONLY <1>1, <1>2, <2>1, Zenon DEF fp16_to_float
<1>4. Printed(x) = Cut(Sign(x) = 1, 0, d)
  <2>1. fp16_to_float(x).num = 0 /\ fp16_to_float(x).den = d
    BY ONLY <1>3, SMT
  <2> QED
    BY ONLY <2>1, Zenon DEF Printed
<1>5. 0 \div d = 0 /\ ((0 % d) * 100) \div d = 0
  BY ONLY SMT
<1>6. 0 \div 16 = 0 /\ ((0 % 16) * 100) \div 16 = 0 /\ ~(0 > 0)
  BY ONLY SMT
<1> QED
  BY ONLY <1>4, <1>5, <1>6, Zenon DEF Cut

\* A common factor shows neither in the whole part nor in the hundredths.
SameQuotient(a, g) ==
  /\ (a * g) \div (16 * g) = a \div 16
  /\ (((a * g) % (16 * g)) * 100) \div (16 * g) = ((a % 16) * 100) \div 16

LEMMA FactorCancels ==
  ASSUME NEW a \in Nat, NEW g \in PowersTo1024
  PROVE  SameQuotient(a, g)
<1>1. g = 1 => SameQuotient(a, g) BY ONLY SMT DEF SameQuotient
<1>2. g = 2 => SameQuotient(a, g) BY ONLY SMT DEF SameQuotient
<1>3. g = 4 => SameQuotient(a, g) BY ONLY SMT DEF SameQuotient
<1>4. g = 8 => SameQuotient(a, g) BY ONLY SMT DEF SameQuotient
<1>5. g = 16 => SameQuotient(a, g) BY ONLY SMT DEF SameQuotient
<1>6. g = 32 => SameQuotient(a, g) BY ONLY SMT DEF SameQuotient
<1>7. g = 64 => SameQuotient(a, g) BY ONLY SMT DEF SameQuotient
<1>8. g = 128 => SameQuotient(a, g) BY ONLY SMT DEF SameQuotient
<1>9. g = 256 => SameQuotient(a, g) BY ONLY SMT DEF SameQuotient
<1>10. g = 512 => SameQuotient(a, g) BY ONLY SMT DEF SameQuotient
<1>11. g = 1024 => SameQuotient(a, g) BY ONLY SMT DEF SameQuotient
<1> QED
  BY ONLY <1>1, <1>2, <1>3, <1>4, <1>5, <1>6, <1>7, <1>8, <1>9, <1>10, <1>11, SMT
     DEF PowersTo1024

LEMMA NumberPrinted ==
  ASSUME NEW x \in Half, NEW n \in Int, n # 0, Short(n), Represents(x, n, 4)
  PROVE  Printed(x) = Cut(n < 0, Abs(n), 16)
<1>1. PICK i \in 0 .. 10, g \in PowersTo1024 :
        /\ Exp(x) = i + 11 /\ g = 2^(10 - i) /\ Mant(x) = Abs(n) * g
        /\ Mant(x) \in Mantissas /\ (Sign(x) = 1 <=> n < 0)
  BY MantissaOf, Zenon
<1>2. PICK a \in Nat, e \in 11 .. 21 : a = Abs(n) /\ e = Exp(x) /\ e = i + 11
  <2>1. Abs(n) \in Nat
    BY ONLY SMT DEF Abs
  <2>2. i + 11 \in 11 .. 21
    BY ONLY SMT
  <2> QED
    BY ONLY <1>1, <2>1, <2>2, Zenon
<1>3. a > 0
  BY ONLY <1>2, n # 0, SMT DEF Abs
<1>4. PICK m \in Nat : m = a * g /\ m = Mant(x) /\ m > 0
  <2>1. a * g \in Nat
    BY ONLY SMT DEF PowersTo1024
  <2>2. PICK m \in Nat : m = a * g
    BY ONLY <2>1, Zenon
  <2>3. m = Mant(x)
    BY ONLY <1>1, <1>2, <2>2, Zenon
  <2>4. m \in Mantissas
    BY ONLY <1>1, <2>3, Zenon
  <2>5. m > 0
    BY ONLY <2>4, SMT DEF Mantissas
  <2> QED
    BY ONLY <2>2, <2>3, <2>5, Zenon
<1>5. e # 0 /\ e # 31 /\ e \in 1 .. 25
  BY ONLY SMT
<1>6. 2^(25 - e) = 16 * g
  <2>1. PICK k \in 0 .. 10 : k = 10 - i /\ 25 - e = 4 + k
    <3>1. 10 - i \in 0 .. 10 /\ 25 - e = 4 + (10 - i)
      BY ONLY <1>2, SMT
    <3> QED
      BY ONLY <3>1, Zenon
  <2>2. 4 \in 0 .. 10 /\ k \in 0 .. 19
    BY ONLY SMT
  <2>3. 2^(4 + k) = 2^4 * 2^k
    BY ONLY <2>2, PlacesAdd, Zenon
  <2>4. 2^4 = 16
    BY PlacesAre, SMT
  <2> QED
    BY ONLY <1>1, <2>1, <2>3, <2>4, Zenon
<1>7. fp16_to_float(x) = [num |-> m, den |-> 16 * g]
  <2>1. Mant(x) = 1024 + Frac(x)
    BY ONLY <1>2, <1>5, SMT DEF Mant
  <2>2. fp16_to_float(x) = [num |-> 1024 + Frac(x), den |-> 2^(25 - e)]
    BY ONLY <1>2, <1>5, SMT DEF fp16_to_float
  <2> QED
    BY ONLY <1>4, <1>6, <2>1, <2>2, SMT
<1>8. Printed(x) = Cut(Sign(x) = 1, m, 16 * g)
  <2>1. fp16_to_float(x).num = m /\ fp16_to_float(x).den = 16 * g
    BY ONLY <1>7, SMT
  <2> QED
    BY ONLY <2>1, Zenon DEF Printed
<1>9. SameQuotient(a, g)
  BY ONLY FactorCancels, Zenon
<1>10. /\ m \div (16 * g) = a \div 16
       /\ ((m % (16 * g)) * 100) \div (16 * g) = ((a % 16) * 100) \div 16
  BY ONLY <1>4, <1>9, Zenon DEF SameQuotient
<1>11. (Sign(x) = 1 /\ m > 0) = (n < 0 /\ a > 0)
  BY ONLY <1>1, <1>3, <1>4, Zenon
<1>12. Cut(Sign(x) = 1, m, 16 * g) = Cut(n < 0, a, 16)
  BY ONLY <1>10, <1>11, Zenon DEF Cut
<1> QED
  BY ONLY <1>2, <1>8, <1>12, Zenon

LEMMA PrintedIs ==
  ASSUME NEW x \in Half, NEW n \in Int, Short(n), Represents(x, n, 4)
  PROVE  Printed(x) = Cut(n < 0, Abs(n), 16)
<1>1. CASE n = 0
  <2>1. IsZero(x)
    BY <1>1, Zenon DEF Represents
  <2>2. (n < 0) = FALSE /\ Abs(n) = 0
    BY ONLY <1>1, SMT DEF Abs
  <2> QED
    BY <2>1, <2>2, ZeroPrinted, Zenon
<1>2. CASE n # 0
  BY <1>2, NumberPrinted, Zenon
<1> QED
  BY <1>1, <1>2

-----------------------------------------------------------------------------
(***************************************************************************)
(* The numbers of a run are right: whatever the order in which the edges   *)
(* bring an element its products, and though both units of an element cut  *)
(* bits off, a result the program has read is the exact entry of the       *)
(* product and is printed as that number, for matrices whose entries are   *)
(* quarters small enough for N products to fit a mantissa (source.c, lines *)
(* 120-140; the matrices of lines 23-34 are such).                         *)
(***************************************************************************)
THEOREM ResultsAreExactCorrect ==
  ASSUME SystemFits, BuiltUnit, SmallMatrices
  PROVE  SystemSpec => []ResultsAreExact
<1>1. ASSUME NEW r \in Lane, NEW c \in Lane,
             result[Idx(r, c)] = Dot(Row(matrix_A, r), Col(matrix_B, c))
      PROVE  LET exact == ExactEntry(r, c)
             IN  /\ Scaled(result[Idx(r, c)], 4) = exact
                 /\ Printed(result[Idx(r, c)]) = Cut(exact < 0, Abs(exact), 16)
  <2>1. PICK p \in Nat :
          /\ FitsMantissa(N * p)
          /\ LET sum == ExactSums(r, c)[N]
                 dot == Dot(Row(matrix_A, r), Col(matrix_B, c))
             IN  Within(sum, N, p) /\ dot \in Half /\ Represents(dot, sum, 4)
    BY SumsAreExact, Zenon
  <2>2. PICK n \in Int : n = ExactEntry(r, c)
    BY <2>1, Zenon DEF Within, ExactEntry
  <2>3. PICK x \in Half : x = result[Idx(r, c)]
    BY <1>1, <2>1, Zenon
  <2>4. Represents(x, n, 4)
    BY <1>1, <2>1, <2>2, <2>3, Zenon DEF ExactEntry
  <2>5. Short(n)
    <3>1. Within(n, N, p)
      BY <2>1, <2>2, Zenon DEF ExactEntry
    <3>2. N \in 0 .. N
      BY NAssumption
    <3> QED
      BY <2>1, <3>1, <3>2, WithinShort, Zenon
  <2>6. Scaled(x, 4) = n
    BY <2>4, <2>5, ScaledIs, Zenon
  <2>7. Printed(x) = Cut(n < 0, Abs(n), 16)
    BY <2>4, <2>5, PrintedIs, Zenon
  <2> QED
    BY <2>2, <2>3, <2>6, <2>7, Zenon
<1>2. ResultsAreProduct => ResultsAreExact
  BY <1>1, Zenon DEF ResultsAreProduct, ResultsAreExact
<1> QED
  BY <1>2, ResultsAreProductCorrect, PTL
=============================================================================
