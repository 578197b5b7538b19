--------------------------------- MODULE MCHal ---------------------------------
(***************************************************************************)
(* The services of the HAL side by side.  They share no state but the      *)
(* clock of AltAlarm and AltTime, so each behaviour uses one of them.      *)
(***************************************************************************)
EXTENDS JtagUartPolled, AltMain, AltTime, AltSleep, AltIrq, AltGmon, AltPrintf, AltLog,
        AltException, AltBoot, AltCache, AltDeviceLists

MCOptions == {[emulation |-> e, trap_handler |-> t, api |-> a] : <<e, t, a>> \in
   {<<TRUE, TRUE, FALSE>>, <<FALSE, FALSE, FALSE>>, <<TRUE, FALSE, TRUE>>}}
\* Contents of the registers that tell them apart; u in A and v in B.
MCRegs(i, u, v) ==
  [r \in 0 .. 31 |-> IF r = 0 THEN 0 ELSE IF r = i.A THEN u ELSE IF r = i.B THEN v
                     ELSE (3 * r + r \div 16) % 16]
MCInst(op, A, B, C, imm) == [op |-> op, A |-> A, B |-> B, C |-> C, imm |-> imm]
MCOperands == {0, 1, 7, 8, 15}
\* Every pair of operands, and every choice of registers.
MCCases ==
  {LET i == MCInst(op, 2, 16, 31, v) IN [inst |-> i, reg |-> MCRegs(i, u, v)] :
     op \in MulDiv, u \in MCOperands, v \in MCOperands}
  \cup {LET i == MCInst(op, A, B, C, 9) IN [inst |-> i, reg |-> MCRegs(i, 13, 5)] :
          op \in {"muli", "div"}, A \in {0, 15, 26}, B \in {3, 28}, C \in {0, 17}}
  \cup {LET i == MCInst(op, 2, 16, 31, 0) IN [inst |-> i, reg |-> MCRegs(i, 3, 4)] :
          op \in {"trap", "illegal", "other"}}

MCLayouts == [exceptions : {1}, rodata : {0, 1}, rwdata : {1, 2}, bss : {0, 2}]

MCBytes(start, len) == [start |-> start, len |-> len]
\* A byte next to a line end, and more than the cache holds, from a line start or not.
MCRegions == {MCBytes(1, 1), MCBytes(1, 5), MCBytes(0, 6)}
MCBlocks == {MCBytes(2, 2)}
MCFlashWrites == {MCBytes(4, 2)}
\* Two devices of one name and kind, one of each other kind, one without a name.
MCChannels ==
  {[name |-> n, dir |-> d, id |-> k] : <<n, d, k>> \in
     {<<"dma", "tx", 1>>, <<"dma", "tx", 2>>, <<"dma", "rx", 1>>, <<"none", "rx", 1>>,
      <<"dma", "flash", 1>>}}

IdleOption == CHOOSE o \in MCOptions : TRUE
IdleCase == CHOOSE c \in MCCases : c.inst.op = "other"
IdleLayout == CHOOSE l \in MCLayouts : TRUE

-----------------------------------------------------------------------------
VARIABLE service

timeOnly == <<alt_resettime, setTo, setAt, exact>>
halVars == <<service, polledVars, mainVars, timeVars, sleepVars, irqVars, gmonVars,
             printfVars, logVars, exceptionVars, bootVars, cacheVars, dmaVars>>

HalInit ==
  /\ service \in {"polled", "file", "alarm", "time", "sleep", "irq", "gmon", "printf", "log",
                 "exception", "boot", "dcache", "icache", "lists"}
  /\ IF service = "exception" THEN TRUE
     ELSE option = IdleOption /\ inst = IdleCase.inst /\ reg = IdleCase.reg
  /\ IF service = "boot" THEN TRUE ELSE layout = IdleLayout /\ ALT_STACK_CHECK = FALSE
  /\ PolledInit /\ MainInit /\ TimeInit /\ SleepInit /\ IrqInit /\ GmonInit
  /\ PrintfInit /\ LogInit /\ ExceptionInit /\ BootInit /\ CacheInit /\ DmaInit
  /\ service # "polled" => ~connected
  /\ service # "printf" => printer = "alt_log"
  /\ service # "log" => ALT_LOG_FLAGS = 0
  /\ service # "boot" => memory[end] = 0
  /\ service # "dcache" => ~flushda /\ ~initda

HalNext ==
  /\ UNCHANGED service
  /\ IF service = "polled" THEN PolledNext ELSE UNCHANGED polledVars
  /\ IF service = "file" THEN MainNext ELSE UNCHANGED mainVars
  /\ IF service = "alarm" THEN AlarmNext /\ UNCHANGED timeOnly
     ELSE IF service = "time" THEN TimeNext
     ELSE UNCHANGED timeVars
  /\ IF service = "sleep" THEN SleepNext ELSE UNCHANGED sleepVars
  /\ IF service = "irq" THEN IrqNext ELSE UNCHANGED irqVars
  /\ IF service = "gmon" THEN GmonNext ELSE UNCHANGED gmonVars
  /\ IF service = "printf" THEN PrintfNext ELSE UNCHANGED printfVars
  /\ IF service = "log" THEN LogNext ELSE UNCHANGED logVars
  /\ IF service = "exception" THEN ExceptionNext ELSE UNCHANGED exceptionVars
  /\ IF service = "boot" THEN BootNext ELSE UNCHANGED bootVars
  /\ IF service = "dcache" THEN DataNext
     ELSE IF service = "icache" THEN CodeNext
     ELSE UNCHANGED cacheVars
  /\ IF service = "lists" THEN DmaNext ELSE UNCHANGED dmaVars

HalSpec == HalInit /\ [][HalNext]_halVars /\ PolledFair
-----------------------------------------------------------------------------
uart == <<"dev", "jtag_uart_0">>
MCNameOf == [dev \in {"null", "uart", "rozipfs"} |->
               CASE dev = "null" -> <<"dev", "null">>
                 [] dev = "uart" -> uart
                 [] dev = "rozipfs" -> <<"mnt">>]
MCMethods == [dev \in {"null", "uart", "rozipfs"} |->
               CASE dev = "null" -> {"write"}
                 [] dev = "uart" -> {"close", "read", "write", "ioctl"}
                 [] dev = "rozipfs" -> {"open", "read", "fstat", "lseek"}]
MCFiles == {uart, <<"mnt", "file">>}
MCTimes == [sec : 0 .. 1, usec : 0 .. 5]
=============================================================================
