------------------------------- MODULE JtagUart -------------------------------
(***************************************************************************)
(* The interrupt-driven driver of the JTAG UART                            *)
(* (drivers/src/altera_avalon_jtag_uart_{init,write,read,ioctl}.c of the   *)
(* BSP): two circular buffers between a program that calls write(),        *)
(* read(), close() and ioctl(), and an interrupt routine that moves bytes  *)
(* to and from the device.  Without an operating system the program's      *)
(* calls do not overlap; the interrupt routine runs between any two of     *)
(* their steps, and the host moves bytes between any two accesses of       *)
(* either.                                                                 *)
(*                                                                         *)
(* sp->irq_enable and the enable bits of the device are one variable:      *)
(* every assignment to the first is followed by a write of it to the       *)
(* device with interrupts disabled.                                        *)
(***************************************************************************)
EXTENDS JtagUartDevice

CONSTANTS
  BufLen,      \* ALTERA_AVALON_JTAG_UART_BUF_LEN
  IntMax,      \* INT_MAX
  Timeouts,    \* values a program passes to TIOCSTIMEOUT
  MaxCount,    \* bound on the size of a read or a write
  Programs     \* what programs there are: the calls they make, and "input"
               \* if the host sends them something

ASSUME DriverAssumption ==
  /\ BufLen \in Nat /\ BufLen > 1
  /\ IntMax \in Nat /\ IntMax > 3
  /\ Timeouts \subseteq 0 .. IntMax
  /\ MaxCount \in Nat
  /\ Programs \subseteq SUBSET {"write", "read", "close", "ioctl", "input"}

VARIABLES
  program,
  tx_in, tx_out, tx_buf,
  rx_in, rx_out, rx_buf,
  timeout, host_inactive,
  isr,        \* where the interrupt routine is
  control,    \* the control word it has read
  call,       \* where the program's call is, "idle" between calls
  count,      \* bytes still to write, or space left to read into
  done,       \* ptr - start
  seen,       \* the device's end of the buffer as last sampled: out, or in
  n,          \* size of the piece being copied
  nonblock,   \* flags & O_NONBLOCK
  buffer,     \* the bytes read
  ret,        \* the value of the last call
  txPos,      \* number of the first byte the program has still to write
  rxPos       \* number of the next byte the program expects

txVars == <<tx_in, tx_out, tx_buf>>
rxVars == <<rx_in, rx_out, rx_buf>>
hostVars == <<timeout, host_inactive>>
isrVars == <<isr, control>>
callVars == <<program, call, count, done, seen, n, nonblock, buffer, ret, txPos, rxPos>>
uartVars == <<deviceVars, txVars, rxVars, hostVars, isrVars, callVars>>

EAGAIN == -11      \* EWOULDBLOCK
EIO == -5

Index == 0 .. BufLen - 1
Lesser(a, b) == IF a < b THEN a ELSE b

(***************************************************************************)
(* The room at tx_in and the data at rx_out, up to the end of the array:   *)
(* one place of each buffer stays empty.                                   *)
(***************************************************************************)
TxRoom(in, out) ==
  IF in < out THEN out - 1 - in
  ELSE IF out > 0 THEN BufLen - in
  ELSE BufLen - 1 - in

\* Variant: equal indexes are taken for a full buffer.
RxDataFull(in, out) == IF in > out THEN in - out ELSE BufLen - out

RxData(in, out) == IF in >= out THEN in - out ELSE BufLen - out

\* The bytes between two indexes, in order.
Segment(buf, out, in) ==
  [i \in 1 .. (in - out) % BufLen |-> buf[(out + i - 1) % BufLen]]

HostActive == host_inactive < timeout

\* Local variables are forgotten (0, <<>>, NoControl) once they are dead.
NoControl == [wi |-> FALSE, space |-> 0]

-----------------------------------------------------------------------------
(***************************************************************************)
(* altera_avalon_jtag_uart_init(): receive interrupts are enabled, and if  *)
(* there is no system clock to start the alarm with, the driver never      *)
(* gives up on the host.                                                   *)
(***************************************************************************)
UartInit ==
  /\ DeviceInit
  /\ irq_enable = {"RE"}
  /\ tx_in = 0 /\ tx_out = 0 /\ tx_buf = [i \in Index |-> 0]
  /\ rx_in = 0 /\ rx_out = 0 /\ rx_buf = [i \in Index |-> 0]
  /\ host_inactive = 0
  /\ timeout \in {2, IntMax}
  /\ isr = "idle" /\ control = NoControl
  /\ program \in Programs
  /\ call = "idle" /\ count = 0 /\ done = 0 /\ seen = 0 /\ n = 0
  /\ nonblock = FALSE /\ buffer = <<>> /\ ret = 0
  /\ txPos = 0 /\ rxPos = 0

-----------------------------------------------------------------------------
(***************************************************************************)
(* altera_avalon_jtag_uart_irq(), one access to the device per step.  The  *)
(* program stands still from IrqTaken until the routine is "idle" again.   *)
(***************************************************************************)
IrqTaken ==
  /\ isr = "idle"
  /\ av_irq
  /\ isr' = "control"
  /\ UNCHANGED <<deviceVars, txVars, rxVars, hostVars, control, callVars>>

\* Read the control register; return once there is nothing more to do.
IsrControl ==
  /\ isr = "control"
  /\ control' = IF av_irq THEN [wi |-> ipen_AE, space |-> WSpace] ELSE NoControl
  /\ isr' = IF ipen_AF THEN "rx" ELSE IF ipen_AE THEN "tx" ELSE "idle"
  /\ UNCHANGED <<deviceVars, txVars, rxVars, hostVars, callVars>>

AfterRx == IF control.wi THEN "tx" ELSE "control"

RxNext == (rx_in + 1) % BufLen

RxFull == RxNext = rx_out

(***************************************************************************)
(* One round of the receive loop.  A full buffer ends it and receive       *)
(* interrupts with it: data, if it is not from the last read, still has    *)
(* its initial RAVAIL.  ("rxLast" stands for a last read that said there   *)
(* was nothing left.)                                                      *)
(***************************************************************************)
IsrRxFull ==
  /\ isr \in {"rx", "rxLast"}
  /\ RxFull
  /\ irq_enable' = IF isr = "rx" THEN irq_enable \ {"RE"} ELSE irq_enable
  /\ isr' = AfterRx
  /\ UNCHANGED <<txFifo, rxFifo, ac, pause_irq, connected, hostDue, hostPos,
                 txVars, rxVars, hostVars, control, callVars>>

IsrRxByte ==
  /\ isr \in {"rx", "rxLast"}
  /\ ~RxFull
  /\ ReadDataReg
  /\ IF rxFifo # <<>>
     THEN /\ rx_buf' = [rx_buf EXCEPT ![rx_in] = Head(rxFifo)]
          /\ rx_in' = RxNext
          /\ isr' = IF Len(rxFifo) > 1 THEN "rx" ELSE "rxLast"
     ELSE /\ isr' = AfterRx
          /\ UNCHANGED <<rx_in, rx_buf>>
  /\ UNCHANGED <<txFifo, irq_enable, ac, connected, hostDue, hostPos,
                 txVars, rx_out, hostVars, control, callVars>>

\* One round of the transmit loop.
IsrTxByte ==
  /\ isr = "tx"
  /\ control.space > 0 /\ tx_out # tx_in
  /\ WriteDataReg(tx_buf[tx_out])
  /\ tx_out' = (tx_out + 1) % BufLen
  /\ control' = [control EXCEPT !.space = @ - 1]
  /\ UNCHANGED <<rxFifo, irq_enable, ac, pause_irq, connected, hostDue, hostPos,
                 tx_in, tx_buf, rxVars, hostVars, isr, callVars>>

\* Variant: transmit interrupts are turned off whenever the loop ends.
AlwaysOff(space) == TRUE

\* Space left over means that the buffer is empty.
TxIdle(space) == space > 0

IsrTxEnd ==
  /\ isr = "tx"
  /\ control.space = 0 \/ tx_out = tx_in
  /\ irq_enable' =
       IF TxIdle(control.space) THEN irq_enable \ {"WE"} ELSE irq_enable
  /\ isr' = "control"
  /\ control' = NoControl
  /\ UNCHANGED <<txFifo, rxFifo, ac, pause_irq, connected, hostDue, hostPos,
                 txVars, rxVars, hostVars, callVars>>

IsrStep ==
  \/ IsrControl \/ IsrRxFull \/ IsrRxByte \/ IsrTxByte \/ IsrTxEnd

(***************************************************************************)
(* altera_avalon_jtag_uart_timeout(), called by the alarm once a second:   *)
(* count the seconds without a sign of the host.  There is no alarm when   *)
(* timeout is INT_MAX.                                                     *)
(***************************************************************************)
Timeout ==
  /\ isr = "idle"
  /\ timeout # IntMax
  /\ ac' = FALSE
  /\ host_inactive' =
       IF ac THEN 0
       ELSE IF host_inactive < IntMax - 2 THEN host_inactive + 1
       ELSE host_inactive
  /\ UNCHANGED <<txFifo, rxFifo, irq_enable, pause_irq, connected, hostDue,
                 hostPos, txVars, rxVars, timeout, isrVars, callVars>>

-----------------------------------------------------------------------------
(***************************************************************************)
(* The program.  Its steps wait while the interrupt routine runs.          *)
(***************************************************************************)
Program == isr = "idle"

\* A call begins with these arguments.
Begin(where, size, nb) ==
  /\ Program /\ call = "idle"
  /\ call' = where
  /\ count' = size /\ nonblock' = nb /\ ret' = 0
  /\ UNCHANGED <<deviceVars, txVars, rxVars, hostVars, isrVars,
                 program, done, seen, n, buffer, txPos, rxPos>>

Writing == call \in {"w_room", "w_copy", "w_put", "w_kick", "w_spin", "w_check"}
Reading == call \in {"r_data", "r_copy", "r_take", "r_spin", "r_check", "r_end"}

Write == "write" \in program /\ \E size \in 0 .. MaxCount, nb \in BOOLEAN : Begin("w_room", size, nb)

\* Compare the two indexes and decide how much fits in one piece.
WriteRoom ==
  /\ Program /\ call = "w_room"
  /\ LET room == TxRoom(tx_in, tx_out)
     IN  IF count = 0 THEN call' = "w_kick" /\ UNCHANGED <<seen, n>>
         ELSE /\ seen' = tx_out
              /\ n' = Lesser(room, count)
              /\ call' = IF room = 0 THEN "w_kick" ELSE "w_copy"
  /\ UNCHANGED <<deviceVars, txVars, rxVars, hostVars, isrVars,
                 program, count, done, nonblock, buffer, ret, txPos, rxPos>>

\* memcpy() into the buffer; the pointer has moved done bytes from the start.
WriteCopy ==
  /\ Program /\ call = "w_copy"
  /\ tx_buf' = [i \in Index |->
       IF i \in tx_in .. tx_in + n - 1
       THEN (txPos + done + i - tx_in) % Streams ELSE tx_buf[i]]
  /\ call' = "w_put"
  /\ UNCHANGED <<deviceVars, tx_in, tx_out, rxVars, hostVars, isrVars,
                 program, count, done, seen, n, nonblock, buffer, ret, txPos, rxPos>>

\* The bytes become the interrupt routine's.
WritePut ==
  /\ Program /\ call = "w_put"
  /\ tx_in' = (tx_in + n) % BufLen
  /\ done' = done + n
  /\ count' = count - n
  /\ n' = 0
  /\ call' = "w_room"
  /\ UNCHANGED <<deviceVars, tx_out, tx_buf, rxVars, hostVars, isrVars,
                 program, seen, nonblock, buffer, ret, txPos, rxPos>>

Result == IF done > 0 THEN done ELSE IF nonblock THEN EAGAIN ELSE EIO

\* Variant: the number asked for is returned, whatever was written.
ResultAll == IF done > 0 THEN done + count ELSE IF nonblock THEN EAGAIN ELSE EIO

WriteResult == Result

\* The program goes on from the byte after those it was told were written.
WriteReturn ==
  /\ ret' = WriteResult
  /\ txPos' = IF WriteResult > 0 THEN (txPos + WriteResult) % Streams ELSE txPos
  /\ call' = "idle"
  /\ count' = 0 /\ done' = 0 /\ seen' = 0 /\ n' = 0 /\ nonblock' = FALSE
  /\ UNCHANGED <<program, buffer, rxPos>>

\* Variant: transmit interrupts are enabled only when the buffer was empty.
Lazily(enable) == IF tx_in = tx_out THEN enable \union {"WE"} ELSE enable

Kicked(enable) == enable \union {"WE"}

(***************************************************************************)
(* Interrupts are disabled, WE is set, interrupts are enabled again.  Then *)
(* the call is over, or waits for the interrupt routine.                   *)
(***************************************************************************)
WriteKick ==
  /\ Program /\ call = "w_kick"
  /\ irq_enable' = Kicked(irq_enable)
  /\ IF count = 0 \/ nonblock THEN WriteReturn
     ELSE /\ call' = "w_spin"
          /\ UNCHANGED <<program, count, done, seen, n, nonblock, buffer, ret, txPos, rxPos>>
  /\ UNCHANGED <<txFifo, rxFifo, ac, pause_irq, connected, hostDue, hostPos,
                 txVars, rxVars, hostVars, isrVars>>

\* while (out == sp->tx_out && sp->host_inactive < sp->timeout)
WriteSpin ==
  /\ Program /\ call = "w_spin"
  /\ seen # tx_out \/ ~HostActive
  /\ call' = "w_check"
  /\ UNCHANGED <<deviceVars, txVars, rxVars, hostVars, isrVars,
                 program, count, done, seen, n, nonblock, buffer, ret, txPos, rxPos>>

WriteCheck ==
  /\ Program /\ call = "w_check"
  /\ IF seen = tx_out THEN WriteReturn
     ELSE /\ call' = "w_room"
          /\ UNCHANGED <<program, count, done, seen, n, nonblock, buffer, ret, txPos, rxPos>>
  /\ UNCHANGED <<deviceVars, txVars, rxVars, hostVars, isrVars>>

-----------------------------------------------------------------------------
Read == "read" \in program /\ \E size \in 0 .. MaxCount, nb \in BOOLEAN :
          Begin(IF size > 0 THEN "r_data" ELSE "r_end", size, nb)

(***************************************************************************)
(* Compare the two indexes and decide how much there is in one piece.  If  *)
(* there is nothing (more), a call that has read something or must not     *)
(* wait is over.                                                           *)
(***************************************************************************)
ReadData ==
  /\ Program /\ call = "r_data"
  /\ LET data == RxData(rx_in, rx_out)
     IN  /\ seen' = rx_in
         /\ n' = Lesser(data, count)
         /\ call' = IF data > 0 THEN "r_copy"
                    ELSE IF done > 0 \/ nonblock THEN "r_end" ELSE "r_spin"
  /\ UNCHANGED <<deviceVars, txVars, rxVars, hostVars, isrVars,
                 program, count, done, nonblock, buffer, ret, txPos, rxPos>>

ReadCopy ==
  /\ Program /\ call = "r_copy"
  /\ buffer' = buffer \o [i \in 1 .. n |-> rx_buf[rx_out + i - 1]]
  /\ call' = "r_take"
  /\ UNCHANGED <<deviceVars, txVars, rxVars, hostVars, isrVars,
                 program, count, done, seen, n, nonblock, ret, txPos, rxPos>>

\* The places become the interrupt routine's.
ReadTake ==
  /\ Program /\ call = "r_take"
  /\ rx_out' = (rx_out + n) % BufLen
  /\ done' = done + n
  /\ count' = count - n
  /\ n' = 0
  /\ call' = IF count > n THEN "r_data" ELSE "r_end"
  /\ UNCHANGED <<deviceVars, txVars, rx_in, rx_buf, hostVars, isrVars,
                 program, seen, nonblock, buffer, ret, txPos, rxPos>>

\* while (in == sp->rx_in && sp->host_inactive < sp->timeout)
ReadSpin ==
  /\ Program /\ call = "r_spin"
  /\ seen # rx_in \/ ~HostActive
  /\ call' = "r_check"
  /\ UNCHANGED <<deviceVars, txVars, rxVars, hostVars, isrVars,
                 program, count, done, seen, n, nonblock, buffer, ret, txPos, rxPos>>

ReadCheck ==
  /\ Program /\ call = "r_check"
  /\ call' = IF seen = rx_in THEN "r_end" ELSE "r_data"
  /\ UNCHANGED <<deviceVars, txVars, rxVars, hostVars, isrVars,
                 program, count, done, seen, n, nonblock, buffer, ret, txPos, rxPos>>

\* Variant: receive interrupts stay as they are.
NotRearmed(enable) == enable

Rearmed(enable) == IF done > 0 THEN enable \union {"RE"} ELSE enable

\* There is space in the buffer again: receive interrupts are enabled.
ReadEnd ==
  /\ Program /\ call = "r_end"
  /\ irq_enable' = Rearmed(irq_enable)
  /\ ret' = Result
  /\ rxPos' = (rxPos + done) % Streams
  /\ call' = "idle" /\ buffer' = <<>>
  /\ count' = 0 /\ done' = 0 /\ seen' = 0 /\ n' = 0 /\ nonblock' = FALSE
  /\ UNCHANGED <<txFifo, rxFifo, ac, pause_irq, connected, hostDue, hostPos,
                 txVars, rxVars, hostVars, isrVars, program, txPos>>

-----------------------------------------------------------------------------
(***************************************************************************)
(* altera_avalon_jtag_uart_close(): wait for the buffer to drain, for a    *)
(* host that is gone, or not at all.                                       *)
(***************************************************************************)
Close == "close" \in program /\ \E nb \in BOOLEAN : Begin("close", 0, nb)

CloseWait ==
  /\ Program /\ call = "close"
  /\ nonblock \/ tx_out = tx_in \/ ~HostActive
  /\ ret' = IF tx_out # tx_in /\ HostActive THEN EAGAIN ELSE 0
  /\ call' = "idle" /\ nonblock' = FALSE
  /\ UNCHANGED <<deviceVars, txVars, rxVars, hostVars, isrVars,
                 program, count, done, seen, n, buffer, txPos, rxPos>>

\* ioctl(TIOCSTIMEOUT): refused without an alarm.
SetTimeout ==
  /\ "ioctl" \in program
  /\ Program /\ call = "idle"
  /\ timeout # IntMax
  /\ \E t \in Timeouts : timeout' = IF t >= 2 /\ t < IntMax THEN t ELSE IntMax - 1
  /\ ret' = 0
  /\ UNCHANGED <<deviceVars, txVars, rxVars, host_inactive, isrVars,
                 program, call, count, done, seen, n, nonblock, buffer, txPos, rxPos>>

\* ioctl(TIOCGCONNECTED): refused without an alarm.
GetConnected ==
  /\ "ioctl" \in program
  /\ Program /\ call = "idle"
  /\ timeout # IntMax
  /\ ret' = IF HostActive THEN 1 ELSE 0
  /\ UNCHANGED <<deviceVars, txVars, rxVars, hostVars, isrVars,
                 program, call, count, done, seen, n, nonblock, buffer, txPos, rxPos>>

-----------------------------------------------------------------------------
WriteStep ==
  \/ WriteRoom \/ WriteCopy \/ WritePut \/ WriteKick \/ WriteSpin \/ WriteCheck

ReadStep ==
  \/ ReadData \/ ReadCopy \/ ReadTake \/ ReadSpin \/ ReadCheck \/ ReadEnd

\* What the program decides, and what it then has to go through.
NewCall == Write \/ Read \/ Close \/ SetTimeout \/ GetConnected
CallStep == WriteStep \/ ReadStep \/ CloseWait

driverVars == <<txVars, rxVars, hostVars, isrVars, callVars>>
Host ==
  /\ HostTake \/ ("input" \in program /\ HostSend) \/ HostPause \/ HostPlug
  /\ UNCHANGED driverVars

UartNext == Host \/ IrqTaken \/ IsrStep \/ Timeout \/ NewCall \/ CallStep

UartSpec == UartInit /\ [][UartNext]_uartVars

(***************************************************************************)
(* The CPU runs, takes interrupts and, where there is a clock, the alarm.  *)
(* A host that is there takes what it is sent and polls.                   *)
(***************************************************************************)
UartFair ==
  /\ UartSpec
  /\ WF_uartVars(CallStep) /\ WF_uartVars(IsrStep) /\ WF_uartVars(IrqTaken)
  /\ WF_uartVars(Timeout)
  /\ WF_uartVars(HostTake /\ UNCHANGED driverVars)
  /\ WF_uartVars(HostPause /\ UNCHANGED driverVars)

-----------------------------------------------------------------------------
\* Every variable holds a value of its type; the indexes stay in the arrays.
UartTypeOK ==
  /\ DeviceTypeOK
  /\ tx_in \in Index /\ tx_out \in Index /\ tx_buf \in [Index -> Byte]
  /\ rx_in \in Index /\ rx_out \in Index /\ rx_buf \in [Index -> Byte]
  /\ timeout \in 2 .. IntMax /\ host_inactive \in 0 .. IntMax - 2
  /\ isr \in {"idle", "control", "rx", "rxLast", "tx"}
  /\ control \in [wi : BOOLEAN, space : 0 .. FifoDepth]
  /\ program \in Programs
  /\ Writing \/ Reading \/ call \in {"idle", "close"}
  /\ count \in 0 .. MaxCount /\ done \in 0 .. MaxCount
  /\ seen \in Index /\ n \in Index
  /\ nonblock \in BOOLEAN
  /\ buffer \in Seq(Byte)
  /\ ret \in Int
  /\ txPos \in Byte /\ rxPos \in Byte

(***************************************************************************)
(* Bytes are never lost, doubled or reordered between the program and the  *)
(* host: both directions implement ByteStream.  A byte is sent when        *)
(* write() puts it into the buffer, or the host into the device; it is     *)
(* received when the host takes it, or read() copies it out.               *)
(***************************************************************************)
TxQueue == txFifo \o Segment(tx_buf, tx_out, tx_in)
TxSent == IF Writing THEN (txPos + done) % Streams ELSE txPos

RxTaken == IF call = "r_take" THEN (rx_out + n) % BufLen ELSE rx_out
RxQueue == Segment(rx_buf, RxTaken, rx_in) \o rxFifo
RxReceived == (rxPos + Len(buffer)) % Streams

Tx == INSTANCE ByteStream
      WITH M <- Streams, sent <- TxSent, received <- hostDue, inFlight <- TxQueue
Rx == INSTANCE ByteStream
      WITH M <- Streams, sent <- hostPos, received <- RxReceived, inFlight <- RxQueue

UartStreams == Tx!StreamSpec /\ Rx!StreamSpec

(***************************************************************************)
(* What read() has put into the caller's buffer are the next bytes of the  *)
(* stream: the interrupt routine did not overwrite them under it.          *)
(***************************************************************************)
ReadInOrder == buffer = Rx!Numbers(rxPos, Len(buffer))

(***************************************************************************)
(* Nobody waits for an interrupt that is off.  While there are bytes in    *)
(* the transmit buffer, the transmit interrupt is on, or write() is about  *)
(* to turn it on: the interrupt routine turns it off and write() on, each  *)
(* on what it saw of the buffer.  And as long as the index they watch      *)
(* stands still, a waiting writer has the transmit interrupt on and a      *)
(* waiting reader the receive interrupt.                                   *)
(***************************************************************************)
InterruptsArmed ==
  /\ tx_in # tx_out =>
       "WE" \in irq_enable \/ call \in {"w_room", "w_copy", "w_put", "w_kick"}
  /\ call = "w_spin" /\ seen = tx_out => "WE" \in irq_enable
  /\ call = "r_spin" /\ seen = rx_in => "RE" \in irq_enable

(***************************************************************************)
(* write() and close() return if the host stays, and also if it stays away *)
(* and the driver has a timeout to notice it by; a read() for which there  *)
(* are bytes returns if the host stays (altera_avalon_jtag_uart_write.c:   *)
(* 146-193, altera_avalon_jtag_uart_read.c:131-198).                       *)
(***************************************************************************)
HostGoneForGood == <>[](~connected /\ timeout < IntMax - 1)

CallsReturn ==
  /\ <>[]connected \/ HostGoneForGood => (Writing \/ call = "close" ~> call = "idle")
  /\ <>[]connected => (Reading /\ RxQueue # <<>> ~> call = "idle")

(***************************************************************************)
(* Every byte that was written reaches a host that stays: none stays under *)
(* way (all numbers are alike, so one stands for them).                    *)
(***************************************************************************)
Waiting(byte) == \E i \in DOMAIN TxQueue : TxQueue[i] = byte
BytesArrive == <>[]connected => (Waiting(1) ~> ~Waiting(1))
=============================================================================
