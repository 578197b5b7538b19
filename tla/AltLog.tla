--------------------------------- MODULE AltLog ---------------------------------
(***************************************************************************)
(* The debug log of the HAL (HAL/src/alt_log_printf.c,                     *)
(* HAL/inc/sys/alt_log_printf.h): lines go character by character straight *)
(* to the transmit register of a UART, from the program and from the       *)
(* interrupt handlers that come in the middle of its lines.  The UART has  *)
(* a FIFO which the host empties; the interrupt routine of the driver      *)
(* writes to the same FIFO.                                                *)
(*                                                                         *)
(* Of a line its number of characters is kept.  What formats make of their *)
(* arguments is the matter of AltPrintf.                                   *)
(***************************************************************************)
EXTENDS Integers

CONSTANTS
  LogDepth,                    \* places in the FIFO
  ALT_LOG_SYS_CLK_INTERVAL,
  ALT_LOG_WRITE_ECHO_LEN,
  LineLengths,                 \* of the messages, headers included
  WriteLengths                 \* of what is written by ALT_WRITE

ASSUME LogAssumption ==
  /\ LogDepth \in Nat \ {0}
  /\ ALT_LOG_SYS_CLK_INTERVAL \in Nat /\ ALT_LOG_WRITE_ECHO_LEN \in Nat
  /\ LineLengths \subseteq Nat \ {0} /\ WriteLengths \subseteq Nat

VARIABLES
  ALT_LOG_FLAGS,               \* the level the BSP is built with
  space,                       \* WSPACE, or TRDY, of the status register
  program,                     \* the line the program is printing
  handler,                     \* the line of the interrupt handler
  uartIrq,                     \* the handler is that of the driver
  alt_log_sys_clk_count

logVars == <<ALT_LOG_FLAGS, space, program, handler, uartIrq, alt_log_sys_clk_count>>

(***************************************************************************)
(* A line has left characters to go.  looked says whether the status was   *)
(* found to show room for the next, and whether an interrupt came since;   *)
(* lost and stale count the characters that were dropped and those written *)
(* on a status read before an interrupt.                                   *)
(***************************************************************************)
Line(length) == [left |-> length, looked |-> "no", lost |-> 0, stale |-> 0]
NoLine == Line(0)
Printing(line) == line.left > 0

\* The flags of a level: boot messages are off in silent mode only.
alt_log_boot_on_flag == ALT_LOG_FLAGS # -1
alt_log_sys_clk_on_flag == ALT_LOG_FLAGS \in 1 .. 3
alt_log_jtag_uart_startup_info_on_flag == ALT_LOG_FLAGS \in 1 .. 3
alt_log_write_on_flag == ALT_LOG_FLAGS \in 2 .. 3
alt_log_jtag_uart_alarm_on_flag == ALT_LOG_FLAGS \in 2 .. 3
alt_log_jtag_uart_isr_on_flag == ALT_LOG_FLAGS = 3

LogInit ==
  /\ ALT_LOG_FLAGS \in -1 .. 3
  /\ space = LogDepth
  /\ program = NoLine /\ handler = NoLine /\ uartIrq = FALSE
  /\ alt_log_sys_clk_count = 0

-----------------------------------------------------------------------------
\* while (!(status & mask)): goes on once there is room.
Looked(line) == line.looked = "no" /\ space > 0
Look(line) == [line EXCEPT !.looked = "yes"]

\* Variant: the status is looked at once in a line.
StillLooked(line) == line.looked

LookedAfter(line) == "no"

\* The character is written, into a full FIFO in vain.
Put(line) ==
  [left |-> line.left - 1,
   looked |-> LookedAfter(line),
   lost |-> line.lost + (IF space = 0 THEN 1 ELSE 0),
   stale |-> line.stale + (IF line.looked = "stale" THEN 1 ELSE 0)]
SpaceAfterPut == IF space = 0 THEN 0 ELSE space - 1

\* alt_log_txchar(): the wait, and the write.
alt_log_txchar(line, next) ==
  \/ Looked(line) /\ next = Look(line) /\ UNCHANGED space
  \/ line.looked # "no" /\ next = Put(line) /\ space' = SpaceAfterPut

ProgramPrints ==
  /\ Printing(program) /\ ~Printing(handler) /\ ~uartIrq
  /\ alt_log_txchar(program, program')
  /\ UNCHANGED <<ALT_LOG_FLAGS, handler, uartIrq, alt_log_sys_clk_count>>

HandlerPrints ==
  /\ Printing(handler)
  /\ alt_log_txchar(handler, handler')
  /\ UNCHANGED <<ALT_LOG_FLAGS, program, uartIrq, alt_log_sys_clk_count>>

-----------------------------------------------------------------------------
\* The characters echoed of a write(), with the end of line that replaces the
\* last one; less than two are not worth a line.
EchoLength(len) == IF ALT_LOG_WRITE_ECHO_LEN > len THEN len ELSE ALT_LOG_WRITE_ECHO_LEN
EchoLine(len, header) == IF EchoLength(len) < 2 THEN NoLine ELSE Line(header + EchoLength(len) + 1)

\* ALT_LOG_PRINT_BOOT, ALT_LOG_JTAG_UART_ALARM_REGISTER and ALT_LOG_WRITE_FUNCTION.
ProgramLogs ==
  /\ ~Printing(program) /\ ~Printing(handler) /\ ~uartIrq
  /\ \E length \in LineLengths :
       \/ alt_log_boot_on_flag /\ program' = Line(length)
       \/ alt_log_jtag_uart_startup_info_on_flag /\ program' = Line(length)
       \/ alt_log_write_on_flag /\ \E len \in WriteLengths : program' = EchoLine(len, length)
  /\ UNCHANGED <<ALT_LOG_FLAGS, space, handler, uartIrq, alt_log_sys_clk_count>>

\* An interrupt finds the program between looking and writing, or elsewhere.
Interrupts ==
  /\ ~Printing(handler) /\ ~uartIrq
  /\ program' = IF program.looked = "yes" THEN [program EXCEPT !.looked = "stale"] ELSE program

\* alt_log_system_clock(), called in every tick.
Beats == alt_log_sys_clk_on_flag /\ alt_log_sys_clk_count + 1 > ALT_LOG_SYS_CLK_INTERVAL

Tick ==
  /\ Interrupts
  /\ alt_log_sys_clk_count' = IF ~alt_log_sys_clk_on_flag THEN alt_log_sys_clk_count
                              ELSE IF Beats THEN 0 ELSE alt_log_sys_clk_count + 1
  /\ IF Beats THEN \E length \in LineLengths : handler' = Line(length) ELSE handler' = NoLine
  /\ UNCHANGED <<ALT_LOG_FLAGS, space, uartIrq>>

\* altera_avalon_jtag_uart_report_log(), when its alarm goes off.
ReportAlarm ==
  /\ Interrupts
  /\ alt_log_jtag_uart_alarm_on_flag
  /\ \E length \in LineLengths : handler' = Line(length)
  /\ UNCHANGED <<ALT_LOG_FLAGS, space, uartIrq, alt_log_sys_clk_count>>

\* The interrupt routine of the driver reports, if it is to, and then fills the
\* FIFO with bytes of its own.
UartInterrupt ==
  /\ Interrupts
  /\ uartIrq' = TRUE
  /\ IF alt_log_jtag_uart_isr_on_flag
     THEN \E length \in LineLengths : handler' = Line(length)
     ELSE handler' = NoLine
  /\ UNCHANGED <<ALT_LOG_FLAGS, space, alt_log_sys_clk_count>>

UartFills ==
  /\ uartIrq /\ ~Printing(handler)
  /\ uartIrq' = FALSE
  /\ space' \in 0 .. space
  /\ UNCHANGED <<ALT_LOG_FLAGS, program, handler, alt_log_sys_clk_count>>

HostReads ==
  /\ space < LogDepth
  /\ space' = space + 1
  /\ UNCHANGED <<ALT_LOG_FLAGS, program, handler, uartIrq, alt_log_sys_clk_count>>

LogNext ==
  \/ ProgramPrints \/ HandlerPrints \/ ProgramLogs
  \/ Tick \/ ReportAlarm \/ UartInterrupt \/ UartFills \/ HostReads

LogSpec == LogInit /\ [][LogNext]_logVars

-----------------------------------------------------------------------------
LogTypeOK ==
  /\ ALT_LOG_FLAGS \in -1 .. 3
  /\ space \in 0 .. LogDepth
  /\ \A line \in {program, handler} :
       /\ line.left \in Nat /\ line.lost \in Nat /\ line.stale \in Nat
       /\ line.looked \in {"no", "yes", "stale"}
  /\ uartIrq \in BOOLEAN
  /\ alt_log_sys_clk_count \in 0 .. ALT_LOG_SYS_CLK_INTERVAL

(***************************************************************************)
(* Logging from interrupt handlers costs the line of the program no more   *)
(* than the characters it was about to write when it was interrupted, and  *)
(* the lines of the handlers nothing (alt_log_printf.c:95-102).            *)
(***************************************************************************)
LogLosesOnlyStale ==
  /\ handler.lost = 0
  /\ program.lost <= program.stale
=============================================================================
