---------------------------- MODULE JtagUartDevice ----------------------------
(***************************************************************************)
(* The JTAG UART as the CPU and the host at the other end of the cable see *)
(* it: src/system/synthesis/submodules/system_jtag_uart_0.v.               *)
(*                                                                         *)
(* An access of the CPU and a transfer of the host are one step each.  The *)
(* registers fifo_AE, fifo_AF and read_0 follow the FIFOs one clock later, *)
(* which is sooner than the next access, and are not kept apart.           *)
(***************************************************************************)
EXTENDS Integers, Sequences

CONSTANTS
  FifoDepth,    \* 7'h40 bytes in each FIFO
  Threshold,    \* 8 bytes, or 8 free places, raise an interrupt
  Streams       \* M: bytes are numbered modulo Streams

ASSUME DeviceAssumption ==
  /\ FifoDepth \in Nat \ {0}
  /\ Threshold \in 0 .. FifoDepth - 1
  /\ Streams \in Nat /\ Streams > 1

VARIABLES
  txFifo,      \* bytes the CPU wrote and the host has not taken
  rxFifo,      \* bytes the host sent and the CPU has not read
  irq_enable,  \* ien_AF ("RE") and ien_AE ("WE")
  ac,          \* the host has been active since the bit was cleared
  pause_irq,   \* the host has paused with bytes left to read
  connected,   \* there is a host
  hostDue,     \* number of the next byte the host expects
  hostPos      \* number of the next byte the host sends

deviceVars == <<txFifo, rxFifo, irq_enable, ac, pause_irq, connected, hostDue, hostPos>>

Byte == 0 .. Streams - 1

WSpace == FifoDepth - Len(txFifo)
ipen_AE == "WE" \in irq_enable /\ Len(txFifo) <= Threshold
ipen_AF ==
  "RE" \in irq_enable /\ (pause_irq \/ FifoDepth - Len(rxFifo) <= Threshold)
av_irq == ipen_AE \/ ipen_AF

\* After reset; the driver sets irq_enable.
DeviceInit ==
  /\ txFifo = <<>> /\ rxFifo = <<>>
  /\ ac = FALSE /\ pause_irq = FALSE
  /\ connected \in BOOLEAN
  /\ hostDue = 0 /\ hostPos = 0

-----------------------------------------------------------------------------
(***************************************************************************)
(* Accesses of the CPU.  A write to a full FIFO is dropped (woverflow).    *)
(* A read of the data register pops the FIFO and ends the pause.           *)
(***************************************************************************)
WriteDataReg(byte) ==
  txFifo' = IF WSpace > 0 THEN Append(txFifo, byte) ELSE txFifo

ReadDataReg ==
  /\ rxFifo' = IF rxFifo # <<>> THEN Tail(rxFifo) ELSE rxFifo
  /\ pause_irq' = FALSE

-----------------------------------------------------------------------------
\* The host takes a byte and finds its number to be the one it expects, or not.
HostTake ==
  /\ connected
  /\ txFifo # <<>>
  /\ txFifo' = Tail(txFifo)
  /\ hostDue' = (hostDue + 1) % Streams
  /\ UNCHANGED <<rxFifo, irq_enable, ac, pause_irq, connected, hostPos>>

\* t_ena: the host sends a byte; t_dav holds it off while the FIFO is full.
HostSend ==
  /\ connected
  /\ Len(rxFifo) < FifoDepth
  /\ rxFifo' = Append(rxFifo, hostPos)
  /\ hostPos' = (hostPos + 1) % Streams
  /\ ac' = TRUE
  /\ UNCHANGED <<txFifo, irq_enable, pause_irq, connected, hostDue>>

\* t_pause: the host polls and has nothing to send for now.
HostPause ==
  /\ connected
  /\ ac' = TRUE
  /\ pause_irq' = (pause_irq \/ rxFifo # <<>>)
  /\ UNCHANGED <<txFifo, rxFifo, irq_enable, connected, hostDue, hostPos>>

\* The cable, or the program at the other end of it, comes and goes.
HostPlug ==
  /\ connected' = ~connected
  /\ UNCHANGED <<txFifo, rxFifo, irq_enable, ac, pause_irq, hostDue, hostPos>>

DeviceTypeOK ==
  /\ txFifo \in Seq(Byte) /\ Len(txFifo) <= FifoDepth
  /\ rxFifo \in Seq(Byte) /\ Len(rxFifo) <= FifoDepth
  /\ irq_enable \subseteq {"RE", "WE"}
  /\ ac \in BOOLEAN /\ pause_irq \in BOOLEAN /\ connected \in BOOLEAN
  /\ hostDue \in Byte /\ hostPos \in Byte
=============================================================================
