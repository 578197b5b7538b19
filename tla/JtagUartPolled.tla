---------------------------- MODULE JtagUartPolled ----------------------------
(***************************************************************************)
(* The small driver of the JTAG UART, which this BSP is built with         *)
(* (ALTERA_AVALON_JTAG_UART_SMALL in                                       *)
(* drivers/src/altera_avalon_jtag_uart_{write,read,fd}.c): no buffers and  *)
(* no interrupts, one access to the device per step, and the host moving   *)
(* bytes between any two.                                                  *)
(***************************************************************************)
EXTENDS JtagUartDevice

CONSTANT MaxBytes    \* bound on the size of a read or a write

ASSUME PolledAssumption == MaxBytes \in Nat

VARIABLES
  at,         \* where the call is
  length,     \* count of a write, space of a read
  wanted,     \* end - ptr
  got,        \* bytes a read has so far
  noWait,     \* flags & O_NONBLOCK
  result,     \* of the last call
  nextOut,    \* number of the next byte the program writes
  nextIn      \* number of the next byte the program expects

polledCall == <<at, length, wanted, got, noWait, result, nextOut, nextIn>>
polledVars == <<deviceVars, polledCall>>

EWOULDBLOCK == -11
NothingRead == -5      \* -EIO

PolledInit ==
  /\ DeviceInit /\ irq_enable = {}
  /\ at = "idle" /\ length = 0 /\ wanted = 0 /\ got = <<>> /\ noWait = FALSE
  /\ result = 0
  /\ nextOut = 0 /\ nextIn = 0

PolledCall ==
  /\ at = "idle"
  /\ at' \in {"write", "read"}
  /\ length' \in 0 .. MaxBytes /\ wanted' = length'
  /\ noWait' \in BOOLEAN
  /\ result' = 0
  /\ UNCHANGED <<deviceVars, got, nextOut, nextIn>>

Returns(rc) ==
  /\ at' = "idle" /\ wanted' = 0 /\ got' = <<>> /\ noWait' = FALSE /\ result' = rc
  /\ UNCHANGED length

-----------------------------------------------------------------------------
\* Variant: space is taken for granted.
AlwaysSpace == TRUE

HasSpace == WSpace # 0

\* while (ptr < end): look at WSPACE, and write a byte if there is any. The count is
\* returned when the last byte has been written.
PolledWrite ==
  /\ at = "write"
  /\ IF wanted = 0 THEN Returns(length) ELSE
       /\ at' = IF HasSpace THEN "put" ELSE "write"
       /\ UNCHANGED <<length, wanted, got, noWait, result>>
  /\ UNCHANGED <<deviceVars, nextOut, nextIn>>

PolledPut ==
  /\ at = "put"
  /\ WriteDataReg(nextOut)
  /\ nextOut' = (nextOut + 1) % Streams
  /\ at' = "write"
  /\ wanted' = wanted - 1
  /\ UNCHANGED <<rxFifo, irq_enable, ac, pause_irq, connected, hostDue, hostPos,
                 length, got, noWait, result, nextIn>>

-----------------------------------------------------------------------------
\* The byte a read of the data register returns, if RVALID is set.
Valid(fifo) == IF fifo = <<>> THEN <<>> ELSE <<Head(fifo)>>

\* Variant: a read waits for the first byte whatever its flags are.
GivesUpLater(bytes) == bytes = <<>> /\ got # <<>>

\* A read that has not got its fill goes on while bytes come, or for the first one.
GivesUp(bytes) == bytes = <<>> /\ (got # <<>> \/ noWait)

PolledRead ==
  /\ at = "read"
  /\ wanted > 0
  /\ ReadDataReg
  /\ LET bytes == Valid(rxFifo)
     IN  /\ got' = got \o bytes
         /\ wanted' = IF GivesUp(bytes) THEN 0 ELSE wanted - Len(bytes)
  /\ UNCHANGED <<txFifo, irq_enable, ac, connected, hostDue, hostPos,
                 at, length, noWait, result, nextOut, nextIn>>

PolledReadEnd ==
  /\ at = "read"
  /\ wanted = 0
  /\ Returns(IF got # <<>> THEN Len(got) ELSE IF noWait THEN EWOULDBLOCK ELSE NothingRead)
  /\ nextIn' = (nextIn + Len(got)) % Streams
  /\ UNCHANGED <<deviceVars, nextOut>>

PolledStep == PolledWrite \/ PolledPut \/ PolledRead \/ PolledReadEnd
PolledHost == (HostTake \/ HostSend \/ HostPause \/ HostPlug) /\ UNCHANGED polledCall

PolledNext == PolledCall \/ PolledStep \/ PolledHost

PolledSpec == PolledInit /\ [][PolledNext]_polledVars

\* The program goes on with its call, and a host that stays takes and sends bytes.
PolledFair ==
  /\ WF_polledVars(PolledStep)
  /\ WF_polledVars(HostTake /\ UNCHANGED polledCall)
  /\ WF_polledVars(HostSend /\ UNCHANGED polledCall)

-----------------------------------------------------------------------------
PolledTypeOK ==
  /\ DeviceTypeOK
  /\ at \in {"idle", "write", "put", "read"}
  /\ length \in 0 .. MaxBytes /\ wanted \in 0 .. MaxBytes
  /\ got \in Seq(Byte)
  /\ noWait \in BOOLEAN
  /\ result \in {EWOULDBLOCK, NothingRead} \cup 0 .. MaxBytes
  /\ nextOut \in Byte /\ nextIn \in Byte

PolledOut == INSTANCE ByteStream WITH
  M <- Streams, sent <- nextOut, received <- hostDue, inFlight <- txFifo

PolledIn == INSTANCE ByteStream WITH
  M <- Streams, sent <- hostPos, received <- nextIn, inFlight <- got \o rxFifo

\* Both directions are byte streams: although space is looked up in one access
\* and used in the next, no byte is lost at a full FIFO, and a read takes only
\* bytes that were sent, in order (altera_avalon_jtag_uart_write.c:70,
\* altera_avalon_jtag_uart_read.c:75).
PolledStream == PolledOut!StreamSpec /\ PolledIn!StreamSpec

\* A call returns if there is a host from some time on, a write with the count it
\* was given (altera_avalon_jtag_uart_write.c:69-74, altera_avalon_jtag_uart_read.c:71);
\* a call that may not wait returns in any case.
PolledReturns ==
  /\ <>[]connected => [](/\ at = "read" => <>(at = "idle")
                         /\ at = "write" => <>(at = "idle" /\ result = length))
  /\ (at = "read" /\ noWait) ~> (at = "idle")
=============================================================================
