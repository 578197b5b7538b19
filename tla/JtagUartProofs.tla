---------------------------- MODULE JtagUartProofs ----------------------------
(***************************************************************************)
(* Proofs about the two drivers of the JTAG UART, for buffers, FIFOs and   *)
(* calls of every size: both directions are byte streams, and, with the    *)
(* interrupt-driven driver, nobody waits for an interrupt that is off.     *)
(***************************************************************************)
EXTENDS JtagUart, JtagUartPolled, TLAPS

-----------------------------------------------------------------------------
(***************************************************************************)
(* The inductive invariant.  Num(x) is the byte with number x; Dist(out,p) *)
(* is how far p is from out around a buffer.                               *)
(***************************************************************************)
Num(x) == x % Streams

Dist(out, p) == IF p >= out THEN p - out ELSE p - out + BufLen

TxHeld == Dist(tx_out, tx_in)
RxHeld == Dist(rx_out, rx_in)

\* The numbers of the bytes on their way to the host start at hostDue.
TxInv ==
  /\ \A i \in 1 .. Len(txFifo) : txFifo[i] = Num(hostDue + i - 1)
  /\ \A p \in Index :
       Dist(tx_out, p) < TxHeld =>
         tx_buf[p] = Num(hostDue + Len(txFifo) + Dist(tx_out, p))
  /\ TxSent = Num(hostDue + Len(txFifo) + TxHeld)
  /\ isr \in {"rx", "rxLast", "tx"} => control.space <= WSpace

\* The piece write() has chosen fits, and its bytes are the next ones.
WriteInv ==
  /\ call \in {"w_copy", "w_put"} =>
       /\ n > 0 /\ n <= count
       /\ tx_in + n <= BufLen
       /\ TxHeld + n < BufLen
  /\ call = "w_put" =>
       \A p \in tx_in .. tx_in + n - 1 : tx_buf[p] = Num(txPos + done + p - tx_in)
  /\ call = "w_spin" => count > 0
  /\ call \in {"w_kick", "w_spin", "w_check"} /\ count > 0 => seen # tx_in

\* What the program has taken out of the receive buffer in this call.
RxDone == IF Reading THEN done ELSE 0

\* The numbers of the bytes on their way to the program follow rxPos.
RxInv ==
  /\ \A p \in Index :
       Dist(rx_out, p) < RxHeld =>
         rx_buf[p] = Num(rxPos + RxDone + Dist(rx_out, p))
  /\ \A i \in 1 .. Len(rxFifo) :
       rxFifo[i] = Num(rxPos + RxDone + RxHeld + i - 1)
  /\ hostPos = Num(rxPos + RxDone + RxHeld + Len(rxFifo))

\* The piece read() has chosen is there, and what it has copied is in order.
ReadInv ==
  /\ call \in {"r_copy", "r_take"} =>
       /\ n > 0 /\ n <= count
       /\ rx_out + n <= BufLen
       /\ n <= RxHeld
  /\ Len(buffer) = IF call = "r_take" THEN done + n ELSE RxDone
  /\ \A i \in 1 .. Len(buffer) : buffer[i] = Num(rxPos + i - 1)
  /\ call \in {"r_data", "r_spin", "r_check"} => count > 0
  /\ call = "r_spin" => seen = rx_out

CallInv ==
  /\ count + done <= MaxCount
  /\ call \in {"idle", "close"} => done = 0

(***************************************************************************)
(* Each interrupt is off only while the buffer gives it nothing to do, or  *)
(* before the end of the call that turns it on.                            *)
(***************************************************************************)
WriterArmed ==
  tx_in # tx_out =>
    "WE" \in irq_enable \/ call \in {"w_room", "w_copy", "w_put", "w_kick"}

ReaderArmed ==
  \/ "RE" \in irq_enable
  \/ RxFull
  \/ call \in {"r_data", "r_copy", "r_take", "r_end"} /\ done > 0

ArmInv == WriterArmed /\ ReaderArmed

UartInv ==
  /\ UartTypeOK
  /\ CallInv /\ TxInv /\ WriteInv /\ RxInv /\ ReadInv /\ ArmInv

-----------------------------------------------------------------------------
(***************************************************************************)
(* Lemmas about numbers modulo Streams and places modulo BufLen.           *)
(***************************************************************************)
LEMMA ModUnique ==
  ASSUME NEW S \in Nat, S > 0, NEW q \in Int, NEW r \in 0 .. S - 1
  PROVE  (S * q + r) % S = r
  OBVIOUS

LEMMA ModSplit ==
  ASSUME NEW S \in Nat, S > 0, NEW x \in Int
  PROVE  x % S \in 0 .. S - 1 /\ \E q \in Int : x = S * q + (x % S)
<1>1. x % S \in 0 .. S - 1 OBVIOUS
<1>2. x \div S \in Int /\ x = S * (x \div S) + (x % S) OBVIOUS
<1> QED BY <1>1, <1>2

LEMMA NumType ==
  ASSUME NEW x \in Int PROVE Num(x) \in Byte
  BY DeviceAssumption DEF Num, Byte

LEMMA NumNext ==
  ASSUME NEW x \in Byte PROVE x \in Int /\ (x + 1) % Streams = Num(x + 1) /\ Num(x + 1) \in Byte
<1>1. x \in Int BY DeviceAssumption DEF Byte
<1> QED BY <1>1, NumType DEF Num

LEMMA NumAdd ==
  ASSUME NEW a \in Int, NEW b \in Int
  PROVE  Num(Num(a) + b) = Num(a + b)
<1> DEFINE S == Streams
<1>0. S \in Nat /\ S > 0 BY DeviceAssumption
<1>1. PICK q \in Int : a = S * q + (a % S) BY <1>0, ModSplit
<1>2. a % S \in 0 .. S - 1 BY <1>0, ModSplit
<1>3. (a % S) + b \in Int BY <1>2
<1>4. PICK k \in Int : (a % S) + b = S * k + (((a % S) + b) % S) BY <1>0, <1>3, ModSplit
<1>5. ((a % S) + b) % S \in 0 .. S - 1 BY <1>0, <1>3, ModSplit
<1> DEFINE r == ((a % S) + b) % S
<1>6. a + b = S * (q + k) + r
  <2> DEFINE am == a % S
             aq == S * q
             bk == S * k
  <2>1. a = aq + am /\ am + b = bk + r BY <1>1, <1>4
  <2>2. am \in Int /\ aq \in Int /\ bk \in Int /\ r \in Int
    BY <1>0, <1>2, <1>5
  <2>3. S * (q + k) = aq + bk BY <1>0
  <2> HIDE DEF am, aq, bk, r
  <2>4. a + b = (aq + bk) + r BY <2>1, <2>2
  <2> QED BY <2>3, <2>4
<1>7. (S * (q + k) + r) % S = r
  <2>1. r \in 0 .. S - 1 /\ q + k \in Int BY <1>5
  <2> HIDE DEF r, S
  <2> QED BY <2>1, <1>0, ModUnique
<1> QED BY <1>6, <1>7 DEF Num

\* The number of a number, and equal numbers stay equal.
LEMMA NumOf ==
  ASSUME NEW x \in Byte PROVE Num(x) = x
  BY DeviceAssumption DEF Num, Byte

LEMMA NumShift ==
  ASSUME NEW a \in Int, NEW b \in Int, NEW c \in Int, Num(a) = Num(b)
  PROVE  Num(a + c) = Num(b + c)
  BY NumAdd, ZenonT(30)

Next1(p) == IF p + 1 = BufLen THEN 0 ELSE p + 1

LEMMA WrapNext ==
  ASSUME NEW p \in Index PROVE (p + 1) % BufLen = Next1(p) /\ Next1(p) \in Index
  BY DriverAssumption DEF Index, Next1

LEMMA Wrap ==
  ASSUME NEW p \in Index, NEW k \in Nat, p + k <= BufLen
  PROVE  (p + k) % BufLen = IF p + k = BufLen THEN 0 ELSE p + k
<1>1. CASE p + k = BufLen BY <1>1, DriverAssumption DEF Index
<1>2. CASE p + k < BufLen BY <1>2, DriverAssumption DEF Index
<1> QED BY <1>1, <1>2, DriverAssumption DEF Index

LEMMA DistIs ==
  ASSUME NEW out \in Index, NEW in \in Index
  PROVE  /\ (in - out) % BufLen = Dist(out, in)
         /\ Dist(out, in) \in Index /\ Dist(out, in) \in Nat
         /\ Dist(out, in) = 0 <=> in = out
<1>1. CASE in >= out BY <1>1, DriverAssumption DEF Index, Dist
<1>2. CASE in < out
  <2>1. PICK b \in Nat : b = BufLen /\ b > 0 BY DriverAssumption
  <2>2. PICK r \in 0 .. b - 1 : r = in - out + b /\ in - out = b * (-1) + r
    BY <1>2, <2>1 DEF Index
  <2>3. (b * (-1) + r) % b = r BY <2>1, <2>2, ModUnique
  <2>4. (in - out) % BufLen = in - out + BufLen BY <2>1, <2>2, <2>3
  <2>5. in - out + BufLen \in 0 .. BufLen - 1 BY <2>1, <2>2
  <2> QED BY <1>2, <2>4, <2>5, DriverAssumption DEF Index, Dist
<1> QED BY <1>1, <1>2 DEF Index

LEMMA DistAt ==
  ASSUME NEW out \in Index, NEW i \in 0 .. BufLen - 1
  PROVE  /\ (out + i) % BufLen \in Index
         /\ Dist(out, (out + i) % BufLen) = i
<1>1. CASE out + i < BufLen
  BY <1>1, DriverAssumption DEF Index, Dist
<1>2. CASE out + i >= BufLen
  <2>1. out + i = BufLen * 1 + (out + i - BufLen) /\ out + i - BufLen \in 0 .. BufLen - 1
    BY <1>2, DriverAssumption DEF Index
  <2>2. (out + i) % BufLen = out + i - BufLen BY <2>1, DriverAssumption, ModUnique
  <2> QED BY <2>1, <2>2, DriverAssumption DEF Index, Dist
<1> QED BY <1>1, <1>2, DriverAssumption DEF Index

-----------------------------------------------------------------------------
\* The rooms and the data that the two calls compute.
LEMMA TxRoomIs ==
  ASSUME NEW in \in Index, NEW out \in Index
  PROVE  /\ TxRoom(in, out) \in Nat
         /\ in + TxRoom(in, out) <= BufLen
         /\ Dist(out, in) + TxRoom(in, out) < BufLen
         /\ TxRoom(in, out) \in Index
         /\ TxRoom(in, out) = 0 => in # out
  BY DriverAssumption DEF Index, TxRoom, Dist

LEMMA RxDataIs ==
  ASSUME NEW in \in Index, NEW out \in Index
  PROVE  /\ RxData(in, out) \in Nat
         /\ out + RxData(in, out) <= BufLen
         /\ RxData(in, out) <= Dist(out, in)
         /\ RxData(in, out) \in Index
         /\ RxData(in, out) = 0 <=> in = out
  BY DriverAssumption DEF Index, RxData, Dist

LEMMA LesserType ==
  ASSUME NEW a \in Index, NEW b \in Nat
  PROVE  Lesser(a, b) \in Index /\ Lesser(a, b) <= a /\ Lesser(a, b) <= b
  BY DriverAssumption DEF Index, Lesser

\* Every step is one of these.
LEMMA StepCases ==
  ASSUME [UartNext]_uartVars
  PROVE  \/ UNCHANGED uartVars
         \/ HostTake /\ UNCHANGED driverVars
         \/ HostSend /\ UNCHANGED driverVars
         \/ (HostPause \/ HostPlug) /\ UNCHANGED driverVars
         \/ IrqTaken \/ Timeout
         \/ IsrControl \/ IsrRxFull \/ IsrRxByte \/ IsrTxByte \/ IsrTxEnd
         \/ Write \/ Read \/ Close \/ SetTimeout \/ GetConnected
         \/ WriteRoom \/ WriteCopy \/ WritePut \/ WriteKick \/ WriteSpin \/ WriteCheck
         \/ ReadData \/ ReadCopy \/ ReadTake \/ ReadSpin \/ ReadCheck \/ ReadEnd
         \/ CloseWait
  BY DEF UartNext, Host, IsrStep, NewCall, CallStep, WriteStep, ReadStep

-----------------------------------------------------------------------------
(***************************************************************************)
(* Types.                                                                  *)
(***************************************************************************)
LEMMA ResultType ==
  ASSUME done \in Nat PROVE Result \in Int /\ WriteResult \in Int
  BY DEF Result, WriteResult, EAGAIN, EIO

LEMMA TailOf ==
  ASSUME NEW T, NEW s \in Seq(T), s # <<>>
  PROVE  /\ Head(s) \in T /\ Head(s) = s[1]
         /\ Len(s) \in Nat /\ Len(s) >= 1
         /\ Tail(s) \in Seq(T)
         /\ Len(Tail(s)) = Len(s) - 1
         /\ \A i \in 1 .. Len(s) - 1 : Tail(s)[i] = s[i + 1]
  OBVIOUS

LEMMA AppendOf ==
  ASSUME NEW T, NEW s \in Seq(T), NEW x \in T
  PROVE  /\ Append(s, x) \in Seq(T)
         /\ Len(s) \in Nat
         /\ Len(Append(s, x)) = Len(s) + 1
         /\ \A i \in 1 .. Len(s) : Append(s, x)[i] = s[i]
         /\ Append(s, x)[Len(s) + 1] = x
  OBVIOUS

LEMMA ConcatOf ==
  ASSUME NEW s \in Seq(Byte), NEW t \in Seq(Byte)
  PROVE  /\ s \o t \in Seq(Byte)
         /\ Len(s) \in Nat /\ Len(t) \in Nat
         /\ Len(s \o t) = Len(s) + Len(t)
         /\ \A i \in 1 .. Len(s) : (s \o t)[i] = s[i]
         /\ \A i \in 1 .. Len(t) : (s \o t)[Len(s) + i] = t[i]
  OBVIOUS

LEMMA InitType == ASSUME UartInit PROVE UartTypeOK
  BY DeviceAssumption, DriverAssumption
  DEF UartInit, DeviceInit, UartTypeOK, DeviceTypeOK, Byte, Index, NoControl, Writing, Reading

LEMMA TypeDevice ==
  ASSUME UartInv, UNCHANGED driverVars, HostTake \/ HostSend \/ HostPause \/ HostPlug
  PROVE  UartTypeOK'
<1> USE DEF UartInv, UartTypeOK
<1>1. UNCHANGED <<tx_in, tx_out, tx_buf, rx_in, rx_out, rx_buf, timeout, host_inactive,
                 isr, control, program, call, count, done, seen, n, nonblock, buffer,
                 ret, txPos, rxPos>>
  BY DEF driverVars, txVars, rxVars, hostVars, isrVars, callVars
<1>2. DeviceTypeOK'
  <2>1. CASE HostTake
    <3>1. hostDue' \in Byte
      BY <2>1, NumNext DEF HostTake, DeviceTypeOK
    <3>2. Tail(txFifo) \in Seq(Byte) /\ Len(Tail(txFifo)) <= FifoDepth
      BY <2>1, TailOf, DeviceAssumption DEF HostTake, DeviceTypeOK
    <3> QED BY <2>1, <3>1, <3>2 DEF HostTake, DeviceTypeOK
  <2>2. CASE HostSend
    <3>1. hostPos' \in Byte
      BY <2>2, NumNext DEF HostSend, DeviceTypeOK
    <3>2. Append(rxFifo, hostPos) \in Seq(Byte) /\ Len(Append(rxFifo, hostPos)) <= FifoDepth
      BY <2>2, AppendOf, DeviceAssumption DEF HostSend, DeviceTypeOK
    <3> QED BY <2>2, <3>1, <3>2 DEF HostSend, DeviceTypeOK
  <2>3. CASE HostPause \/ HostPlug
    BY <2>3 DEF HostPause, HostPlug, DeviceTypeOK
  <2> QED BY <2>1, <2>2, <2>3
<1> QED BY <1>1, <1>2 DEF Writing, Reading

LEMMA TypeIsr ==
  ASSUME UartInv,
         IrqTaken \/ IsrControl \/ IsrRxFull \/ IsrRxByte \/ IsrTxByte \/ IsrTxEnd \/ Timeout
  PROVE  UartTypeOK'
<1> USE DEF UartInv, UartTypeOK, DeviceTypeOK, Writing, Reading,
        deviceVars, txVars, rxVars, hostVars, isrVars, callVars
<1>1. CASE IrqTaken BY <1>1 DEF IrqTaken
<1>2. CASE IsrControl
  <2>1. WSpace \in 0 .. FifoDepth /\ ipen_AE \in BOOLEAN
    BY DeviceAssumption DEF WSpace, ipen_AE
  <2> QED BY <1>2, <2>1, DeviceAssumption DEF IsrControl, NoControl
<1>3. CASE IsrRxFull BY <1>3 DEF IsrRxFull, AfterRx
<1>4. CASE IsrRxByte
  <2>1. RxNext \in Index BY WrapNext DEF RxNext
  <2>2. rxFifo # <<>> => Head(rxFifo) \in Byte /\ Tail(rxFifo) \in Seq(Byte)
                         /\ Len(Tail(rxFifo)) \in 0 .. FifoDepth
    BY TailOf, DeviceAssumption
  <2>3. rxFifo' \in Seq(Byte) /\ Len(rxFifo') <= FifoDepth
    BY <1>4, <2>2, DeviceAssumption DEF IsrRxByte, ReadDataReg
  <2>4. rx_buf' \in [Index -> Byte] /\ rx_in' \in Index
    BY <1>4, <2>1, <2>2 DEF IsrRxByte
  <2> QED BY <1>4, <2>3, <2>4 DEF IsrRxByte, ReadDataReg, AfterRx
<1>5. CASE IsrTxByte
  <2>1. tx_out' \in Index BY <1>5, WrapNext DEF IsrTxByte
  <2>2. tx_buf[tx_out] \in Byte OBVIOUS
  <2>3. txFifo' \in Seq(Byte) /\ Len(txFifo') <= FifoDepth
    BY <1>5, <2>2, DeviceAssumption DEF IsrTxByte, WriteDataReg, WSpace
  <2>4. control' \in [wi : BOOLEAN, space : 0 .. FifoDepth]
    <3>1. control.wi \in BOOLEAN /\ control.space - 1 \in 0 .. FifoDepth
      BY <1>5, DeviceAssumption DEF IsrTxByte
    <3>2. control' = [wi |-> control.wi, space |-> control.space - 1]
      BY <1>5 DEF IsrTxByte
    <3> QED BY <3>1, <3>2
  <2> QED BY <1>5, <2>1, <2>3, <2>4 DEF IsrTxByte
<1>6. CASE IsrTxEnd
  <2>1. control' \in [wi : BOOLEAN, space : 0 .. FifoDepth] /\ irq_enable' \subseteq {"RE", "WE"}
    BY <1>6, DeviceAssumption DEF IsrTxEnd, NoControl
  <2> QED BY <1>6, <2>1 DEF IsrTxEnd
<1>7. CASE Timeout
  <2>1. host_inactive' \in 0 .. IntMax - 2 BY <1>7, DriverAssumption DEF Timeout
  <2> QED BY <1>7, <2>1 DEF Timeout
<1> QED BY <1>1, <1>2, <1>3, <1>4, <1>5, <1>6, <1>7

LEMMA TypeCall ==
  ASSUME UartInv, Write \/ Read \/ Close \/ SetTimeout \/ GetConnected \/ CloseWait
  PROVE  UartTypeOK'
<1> USE DEF UartInv, UartTypeOK, DeviceTypeOK, Writing, Reading,
        deviceVars, txVars, rxVars, hostVars, isrVars, callVars
<1>1. CASE Write BY <1>1 DEF Write, Begin
<1>2. CASE Read
  <2>1. call' \in {"r_data", "r_end"} BY <1>2 DEF Read, Begin
  <2> QED BY <1>2, <2>1 DEF Read, Begin
<1>3. CASE Close BY <1>3, DriverAssumption DEF Close, Begin
<1>4. CASE SetTimeout
  <2>1. timeout' \in 2 .. IntMax BY <1>4, DriverAssumption DEF SetTimeout
  <2> QED BY <1>4, <2>1 DEF SetTimeout
<1>5. CASE GetConnected BY <1>5 DEF GetConnected
<1>6. CASE CloseWait
  <2>1. ret' \in Int BY <1>6 DEF CloseWait, EAGAIN
  <2> QED BY <1>6, <2>1 DEF CloseWait
<1> QED BY <1>1, <1>2, <1>3, <1>4, <1>5, <1>6

LEMMA TypeWrite ==
  ASSUME UartInv,
         WriteRoom \/ WriteCopy \/ WritePut \/ WriteKick \/ WriteSpin \/ WriteCheck
  PROVE  UartTypeOK'
<1> USE DEF UartInv, UartTypeOK, DeviceTypeOK, Writing, Reading,
        deviceVars, txVars, rxVars, hostVars, isrVars, callVars
<1>0. count \in Nat /\ done \in Nat /\ n \in Nat /\ 0 \in Index /\ 0 \in 0 .. MaxCount
  BY DriverAssumption DEF Index
<1>1. CASE WriteRoom
  <2>1. Lesser(TxRoom(tx_in, tx_out), count) \in Index
    BY <1>0, TxRoomIs, LesserType
  <2>2. n' \in Index /\ seen' \in Index BY <1>1, <2>1 DEF WriteRoom
  <2> QED BY <1>1, <2>2 DEF WriteRoom
<1>2. CASE WriteCopy
  <2>1. \A i \in tx_in .. tx_in + n - 1 : (txPos + done + i - tx_in) % Streams \in Byte
    <3> TAKE i \in tx_in .. tx_in + n - 1
    <3>1. txPos + done + i - tx_in \in Int
      BY <1>0, DeviceAssumption, DriverAssumption DEF Byte, Index
    <3> QED BY <3>1, NumType DEF Num
  <2>2. tx_buf' \in [Index -> Byte] BY <1>2, <2>1 DEF WriteCopy
  <2> QED BY <1>2, <2>2 DEF WriteCopy
<1>3. CASE WritePut
  <2>1. n <= count /\ tx_in + n <= BufLen /\ count + done <= MaxCount
    BY <1>3 DEF WritePut, WriteInv, CallInv
  <2>2. tx_in' \in Index
    BY <1>3, <1>0, <2>1, Wrap, DriverAssumption DEF WritePut, Index
  <2>3. done' \in 0 .. MaxCount /\ count' \in 0 .. MaxCount
    BY <1>3, <1>0, <2>1, DriverAssumption DEF WritePut
  <2> QED BY <1>3, <1>0, <2>2, <2>3 DEF WritePut
<1>4. ASSUME WriteReturn PROVE /\ ret' \in Int /\ txPos' \in Byte /\ call' = "idle"
                               /\ count' \in 0 .. MaxCount /\ done' \in 0 .. MaxCount
                               /\ seen' \in Index /\ n' \in Index /\ nonblock' \in BOOLEAN
                               /\ UNCHANGED <<program, buffer, rxPos>>
  <2>1. WriteResult \in Int BY <1>0, ResultType
  <2>2. txPos \in Int BY DeviceAssumption DEF Byte
  <2>3. txPos + WriteResult \in Int BY <2>1, <2>2
  <2>4. (txPos + WriteResult) % Streams \in Byte BY <2>3, NumType DEF Num
  <2> QED BY <1>4, <1>0, <2>1, <2>4 DEF WriteReturn
<1>5. CASE WriteKick
  <2>1. irq_enable' \subseteq {"RE", "WE"} BY <1>5 DEF WriteKick, Kicked
  <2> QED BY <1>4, <1>5, <2>1 DEF WriteKick
<1>6. CASE WriteSpin BY <1>6 DEF WriteSpin
<1>7. CASE WriteCheck BY <1>4, <1>7 DEF WriteCheck
<1> QED BY <1>1, <1>2, <1>3, <1>5, <1>6, <1>7

LEMMA TypeRead ==
  ASSUME UartInv,
         ReadData \/ ReadCopy \/ ReadTake \/ ReadSpin \/ ReadCheck \/ ReadEnd
  PROVE  UartTypeOK'
<1> USE DEF UartInv, UartTypeOK, DeviceTypeOK, Writing, Reading,
        deviceVars, txVars, rxVars, hostVars, isrVars, callVars
<1>0. count \in Nat /\ done \in Nat /\ n \in Nat /\ 0 \in Index /\ 0 \in 0 .. MaxCount
  BY DriverAssumption DEF Index
<1>1. CASE ReadData
  <2>1. Lesser(RxData(rx_in, rx_out), count) \in Index
    BY <1>0, RxDataIs, LesserType
  <2>2. n' \in Index /\ seen' \in Index BY <1>1, <2>1 DEF ReadData
  <2> QED BY <1>1, <2>2 DEF ReadData
<1>2. CASE ReadCopy
  <2>1. \A i \in 1 .. n : rx_buf[rx_out + i - 1] \in Byte
    BY <1>0, <1>2, DriverAssumption DEF ReadCopy, ReadInv, Index
  <2>2. [i \in 1 .. n |-> rx_buf[rx_out + i - 1]] \in Seq(Byte) BY <1>0, <2>1
  <2>3. buffer' \in Seq(Byte) BY <1>2, <2>2 DEF ReadCopy
  <2> QED BY <1>2, <2>3 DEF ReadCopy
<1>3. CASE ReadTake
  <2>1. n <= count /\ rx_out + n <= BufLen /\ count + done <= MaxCount
    BY <1>3 DEF ReadTake, ReadInv, CallInv
  <2>2. rx_out' \in Index
    BY <1>3, <1>0, <2>1, Wrap, DriverAssumption DEF ReadTake, Index
  <2>3. done' \in 0 .. MaxCount /\ count' \in 0 .. MaxCount
    BY <1>3, <1>0, <2>1, DriverAssumption DEF ReadTake
  <2> QED BY <1>3, <1>0, <2>2, <2>3 DEF ReadTake
<1>4. CASE ReadSpin BY <1>4 DEF ReadSpin
<1>5. CASE ReadCheck BY <1>5 DEF ReadCheck
<1>6. CASE ReadEnd
  <2>1. Result \in Int BY <1>0, ResultType
  <2>2. rxPos + done \in Int BY <1>0, DeviceAssumption DEF Byte
  <2>3. (rxPos + done) % Streams \in Byte BY <2>2, NumType DEF Num
  <2>4. irq_enable' \subseteq {"RE", "WE"} BY <1>6 DEF ReadEnd, Rearmed
  <2>5. buffer' \in Seq(Byte) BY <1>6 DEF ReadEnd
  <2>6. /\ ret' \in Int /\ rxPos' \in Byte /\ n' \in Index /\ seen' \in Index
        /\ count' \in 0 .. MaxCount /\ done' \in 0 .. MaxCount
    BY <1>6, <1>0, <2>1, <2>3 DEF ReadEnd
  <2> QED BY <1>6, <2>4, <2>5, <2>6 DEF ReadEnd
<1> QED BY <1>1, <1>2, <1>3, <1>4, <1>5, <1>6

LEMMA TypeStep ==
  ASSUME UartInv, [UartNext]_uartVars PROVE UartTypeOK'
<1>1. CASE UNCHANGED uartVars
  BY <1>1 DEF UartInv, UartTypeOK, DeviceTypeOK, Writing, Reading, uartVars,
     deviceVars, txVars, rxVars, hostVars, isrVars, callVars
<1> QED BY <1>1, StepCases, TypeDevice, TypeIsr, TypeCall, TypeWrite, TypeRead

-----------------------------------------------------------------------------
(***************************************************************************)
(* The bytes on their way to the host.                                     *)
(***************************************************************************)
TxBytesInv ==
  /\ \A i \in 1 .. Len(txFifo) : txFifo[i] = Num(hostDue + i - 1)
  /\ \A p \in Index :
       Dist(tx_out, p) < TxHeld =>
         tx_buf[p] = Num(hostDue + Len(txFifo) + Dist(tx_out, p))

SpaceInv == isr \in {"rx", "rxLast", "tx"} => control.space <= WSpace

LEMMA TxTypes ==
  ASSUME UartInv
  PROVE  /\ txFifo \in Seq(Byte) /\ Len(txFifo) \in Nat /\ Len(txFifo) <= FifoDepth
         /\ hostDue \in Nat /\ txPos \in Nat /\ done \in Nat /\ n \in Nat /\ count \in Nat
         /\ tx_in \in Index /\ tx_out \in Index /\ TxHeld \in Nat
         /\ tx_buf \in [Index -> Byte]
         /\ TxInv /\ WriteInv /\ CallInv /\ ArmInv
         /\ TxBytesInv /\ SpaceInv
         /\ BufLen \in Nat /\ BufLen > 1 /\ Index = 0 .. BufLen - 1
<1>1. BufLen \in Nat /\ BufLen > 1 /\ Index = 0 .. BufLen - 1 BY DriverAssumption DEF Index
<1>10. Index \subseteq Nat BY <1>1
<1>2. Byte \subseteq Nat BY DeviceAssumption DEF Byte
<1>3. tx_in \in Index /\ tx_out \in Index /\ n \in Index /\ tx_buf \in [Index -> Byte]
  BY DEF UartInv, UartTypeOK
<1>4. TxHeld \in Nat BY <1>10, <1>3, DistIs DEF TxHeld
<1>5. txFifo \in Seq(Byte) /\ Len(txFifo) \in Nat /\ Len(txFifo) <= FifoDepth
  BY DEF UartInv, UartTypeOK, DeviceTypeOK
<1>6. hostDue \in Nat /\ txPos \in Nat
  BY <1>2 DEF UartInv, UartTypeOK, DeviceTypeOK
<1>7. done \in Nat /\ count \in Nat BY DriverAssumption DEF UartInv, UartTypeOK
<1>8. n \in Nat BY <1>10, <1>3
<1>9. TxInv /\ WriteInv /\ CallInv /\ ArmInv /\ TxBytesInv /\ SpaceInv
  BY DEF UartInv, TxInv, TxBytesInv, SpaceInv
<1> QED BY <1>1, <1>3, <1>4, <1>5, <1>6, <1>7, <1>8, <1>9

\* Steps that leave the bytes alone.
LEMMA TxFrame ==
  ASSUME UartInv, UNCHANGED <<txFifo, hostDue, tx_in, tx_out, tx_buf>>,
         TxSent' = TxSent, SpaceInv'
  PROVE  TxInv'
  BY DEF UartInv, TxInv, TxHeld, Dist, SpaceInv

\* ... and those the program's position and the call, too.
LEMMA TxCallFrame ==
  ASSUME UNCHANGED <<call, count, done, n, seen, txPos, tx_in, tx_buf, tx_out>>, UartInv
  PROVE  WriteInv' /\ TxSent' = TxSent
  BY DEF UartInv, WriteInv, TxSent, TxHeld, Dist, Writing

LEMMA TxDevice ==
  ASSUME UartInv, UNCHANGED driverVars, HostTake \/ HostSend \/ HostPause \/ HostPlug
  PROVE  TxInv' /\ WriteInv'
<1>1. UNCHANGED <<tx_in, tx_out, tx_buf, isr, control, call, count, done, seen, n, txPos>>
  BY DEF driverVars, txVars, isrVars, callVars
<1>2. WriteInv' /\ TxSent' = TxSent BY <1>1, TxCallFrame
<1>3. CASE HostSend \/ HostPause \/ HostPlug
  <2>1. UNCHANGED <<txFifo, hostDue>> BY <1>3 DEF HostSend, HostPause, HostPlug
  <2>2. SpaceInv' BY <1>1, <2>1, TxTypes DEF SpaceInv, WSpace
  <2> QED BY <1>1, <1>2, <2>1, <2>2, TxFrame
<1>4. CASE HostTake
  <2> USE TxTypes
  <2>1. /\ txFifo' = Tail(txFifo) /\ hostDue' = Num(hostDue + 1)
        /\ Len(txFifo) >= 1 /\ Len(txFifo') = Len(txFifo) - 1
        /\ \A i \in 1 .. Len(txFifo) - 1 : txFifo'[i] = txFifo[i + 1]
    BY <1>4, TailOf DEF HostTake, Num
  <2>2. \A x \in Int : Num(hostDue' + x) = Num(hostDue + 1 + x)
    <3> TAKE x \in Int
    <3>0. hostDue \in Int BY TxTypes, DeviceAssumption DEF Byte
    <3>1. PICK h \in Int : h = hostDue + 1 BY <3>0
    <3>2. Num(Num(h) + x) = Num(h + x) BY <3>1, NumAdd
    <3> QED BY <2>1, <3>1, <3>2
  <2>3. \A i \in 1 .. Len(txFifo') : txFifo'[i] = Num(hostDue' + i - 1)
    <3> TAKE i \in 1 .. Len(txFifo')
    <3>1. txFifo'[i] = Num(hostDue + (i + 1) - 1) BY <2>1 DEF TxBytesInv
    <3>2. Num(hostDue' + (i - 1)) = Num(hostDue + 1 + (i - 1)) BY <2>1, <2>2
    <3>3. hostDue' \in Int BY <2>1, NumType, DeviceAssumption DEF Byte
    <3>4. hostDue' + (i - 1) = hostDue' + i - 1 /\ hostDue + 1 + (i - 1) = hostDue + (i + 1) - 1
      BY <3>3, <2>1, SMTT(30)
    <3> QED BY <3>1, <3>2, <3>4
  <2>4. TxHeld' = TxHeld BY <1>1 DEF TxHeld, Dist
  <2>5. \A k \in Nat : Num(hostDue' + Len(txFifo') + k) = Num(hostDue + Len(txFifo) + k)
    <3> TAKE k \in Nat
    <3>1. Num(hostDue' + (Len(txFifo) - 1 + k)) = Num(hostDue + 1 + (Len(txFifo) - 1 + k))
      BY <2>2
    <3>2. hostDue' \in Int BY <2>1, NumType, DeviceAssumption DEF Byte
    <3>3. /\ hostDue' + (Len(txFifo) - 1 + k) = hostDue' + Len(txFifo') + k
          /\ hostDue + 1 + (Len(txFifo) - 1 + k) = hostDue + Len(txFifo) + k
      <4>1. hostDue \in Int /\ Len(txFifo) \in Int /\ Len(txFifo') = Len(txFifo) - 1
        BY <2>1
      <4> QED BY <3>2, <4>1, SMT
    <3> QED BY <3>1, <3>3
  <2>6. \A p \in Index :
          Dist(tx_out', p) < TxHeld' =>
            tx_buf'[p] = Num(hostDue' + Len(txFifo') + Dist(tx_out', p))
    <3> TAKE p \in Index
    <3>1. Dist(tx_out, p) \in Nat BY DistIs
    <3> QED BY <1>1, <2>4, <2>5, <3>1 DEF TxBytesInv
  <2>7. TxSent' = Num(hostDue' + Len(txFifo') + TxHeld')
    BY <1>2, <2>4, <2>5 DEF TxInv
  <2>8. SpaceInv'
    <3>1. control.space \in Int BY DEF UartInv, UartTypeOK
    <3> QED BY <1>1, <2>1, <3>1, DeviceAssumption, SMTT(30) DEF SpaceInv, WSpace
  <2> QED BY <1>2, <2>3, <2>6, <2>7, <2>8 DEF TxInv, SpaceInv, Dist
<1> QED BY <1>3, <1>4

LEMMA DistStep ==
  ASSUME NEW out \in Index, NEW p \in Index
  PROVE  /\ p # out => Dist(Next1(out), p) = Dist(out, p) - 1
         /\ Dist(Next1(out), out) = BufLen - 1
  BY DriverAssumption DEF Index, Dist, Next1

\* A piece of k bytes at in, when there is room for it.
LEMMA DistPiece ==
  ASSUME NEW out \in Index, NEW in \in Index, NEW k \in Nat,
         k > 0, in + k <= BufLen, Dist(out, in) + k < BufLen
  PROVE  /\ Dist(out, (in + k) % BufLen) = Dist(out, in) + k
         /\ \A p \in in .. in + k - 1 :
              p \in Index /\ Dist(out, p) = Dist(out, in) + (p - in)
         /\ \A p \in Index :
              Dist(out, in) <= Dist(out, p) /\ Dist(out, p) < Dist(out, in) + k
                => p \in in .. in + k - 1 /\ Dist(out, p) = Dist(out, in) + (p - in)
<1>1. (in + k) % BufLen = IF in + k = BufLen THEN 0 ELSE in + k BY Wrap
<1> QED BY <1>1, DriverAssumption DEF Index, Dist

LEMMA TxIsr ==
  ASSUME UartInv,
         IrqTaken \/ IsrControl \/ IsrRxFull \/ IsrRxByte \/ IsrTxByte \/ IsrTxEnd \/ Timeout
  PROVE  TxInv' /\ WriteInv'
<1> USE TxTypes DEF deviceVars, txVars, rxVars, hostVars, isrVars, callVars
<1>1. CASE IrqTaken \/ IsrControl \/ IsrRxFull \/ IsrRxByte \/ IsrTxEnd \/ Timeout
  <2>1. UNCHANGED <<txFifo, hostDue, tx_in, tx_out, tx_buf, call, count, done, seen, n, txPos>>
    BY <1>1 DEF IrqTaken, IsrControl, IsrRxFull, IsrRxByte, IsrTxEnd, Timeout
  <2>2. SpaceInv'
    BY <1>1, <2>1, DeviceAssumption
    DEF IrqTaken, IsrControl, IsrRxFull, IsrRxByte, IsrTxEnd, Timeout, SpaceInv, WSpace,
        AfterRx, ipen_AF, ipen_AE, av_irq
  <2> QED BY <2>1, <2>2, TxCallFrame, TxFrame
<1>2. CASE IsrTxByte
  <2>1. UNCHANGED <<hostDue, tx_in, tx_buf, call, count, done, seen, n, txPos>>
    BY <1>2 DEF IsrTxByte
  <2>2. /\ isr = "tx" /\ isr' = "tx" /\ control.space > 0 /\ tx_out # tx_in
        /\ control'.space = control.space - 1
        /\ tx_out' = Next1(tx_out) /\ Next1(tx_out) \in Index
    BY <1>2, WrapNext DEF IsrTxByte, UartInv, UartTypeOK
  <2>3. TxHeld > 0 /\ TxHeld <= BufLen - 1 BY <2>2, DistIs DEF TxHeld
  <2>4. tx_buf[tx_out] \in Byte /\ tx_buf[tx_out] = Num(hostDue + Len(txFifo))
    <3>1. Dist(tx_out, tx_out) = 0 BY DistIs
    <3> QED BY <2>3, <3>1 DEF TxBytesInv
  <2>5. control.space \in Nat /\ WSpace = FifoDepth - Len(txFifo) /\ control.space <= WSpace
    BY <2>2, DeviceAssumption DEF SpaceInv, WSpace, UartInv, UartTypeOK
  <2>6. txFifo' = Append(txFifo, tx_buf[tx_out])
    <3>1. FifoDepth \in Int /\ Len(txFifo) \in Int BY DeviceAssumption
    <3>2. WSpace > 0 BY <2>2, <2>5, <3>1
    <3> QED BY <1>2, <3>2 DEF IsrTxByte, WriteDataReg
  <2>7. /\ Len(txFifo') = Len(txFifo) + 1
        /\ \A i \in 1 .. Len(txFifo) : txFifo'[i] = txFifo[i]
        /\ txFifo'[Len(txFifo) + 1] = tx_buf[tx_out]
    BY <2>4, <2>6, AppendOf
  <2>8. TxHeld' = TxHeld - 1 BY <2>1, <2>2, DistStep DEF TxHeld, Dist
  <2>9. \A i \in 1 .. Len(txFifo') : txFifo'[i] = Num(hostDue' + i - 1)
    <3> TAKE i \in 1 .. Len(txFifo')
    <3>1. CASE i \in 1 .. Len(txFifo) BY <2>1, <2>7, <3>1 DEF TxBytesInv
    <3>2. CASE i = Len(txFifo) + 1
      <4>1. hostDue + (Len(txFifo) + 1) - 1 = hostDue + Len(txFifo) OBVIOUS
      <4> QED BY <2>1, <2>4, <2>7, <3>2, <4>1
    <3>3. i \in 1 .. Len(txFifo) \/ i = Len(txFifo) + 1
      <4>1. Len(txFifo) \in Int /\ i \in 1 .. Len(txFifo) + 1 BY <2>7
      <4> QED BY <4>1
    <3> QED BY <3>1, <3>2, <3>3
  <2>10. \A p \in Index :
           Dist(tx_out', p) < TxHeld' =>
             tx_buf'[p] = Num(hostDue' + Len(txFifo') + Dist(tx_out', p))
    <3> TAKE p \in Index
    <3> HAVE Dist(tx_out', p) < TxHeld'
    <3>1. p # tx_out BY <2>2, <2>3, <2>8, DistStep
    <3>2. Dist(tx_out', p) = Dist(tx_out, p) - 1 BY <2>2, <3>1, DistStep
    <3>3. Dist(tx_out, p) \in Nat BY DistIs
    <3>4. tx_buf[p] = Num(hostDue + Len(txFifo) + Dist(tx_out, p))
      BY <2>8, <3>2, <3>3 DEF TxBytesInv
    <3>5. hostDue' + Len(txFifo') + Dist(tx_out', p) = hostDue + Len(txFifo) + Dist(tx_out, p)
      BY <2>1, <2>7, <3>2, <3>3
    <3> QED BY <2>1, <3>4, <3>5
  <2>11. TxSent' = Num(hostDue' + Len(txFifo') + TxHeld')
    <3>1. TxSent' = TxSent BY <2>1 DEF TxSent, Writing
    <3>2. hostDue' + Len(txFifo') + TxHeld' = hostDue + Len(txFifo) + TxHeld
      BY <2>1, <2>7, <2>8
    <3> QED BY <3>1, <3>2 DEF TxInv
  <2>12. SpaceInv' BY <2>2, <2>5, <2>7, DeviceAssumption, SMTT(30) DEF SpaceInv, WSpace
  <2>13. WriteInv' BY <2>1, <2>8, SMTT(30) DEF WriteInv
  <2> QED BY <2>9, <2>10, <2>11, <2>12, <2>13 DEF TxInv, SpaceInv, Dist
<1> QED BY <1>1, <1>2

LEMMA TxCall ==
  ASSUME UartInv,
         \/ Write \/ Read \/ Close \/ SetTimeout \/ GetConnected \/ CloseWait
         \/ ReadData \/ ReadCopy \/ ReadTake \/ ReadSpin \/ ReadCheck \/ ReadEnd
  PROVE  TxInv' /\ WriteInv'
<1> USE TxTypes DEF deviceVars, txVars, rxVars, hostVars, isrVars, callVars
<1>1. UNCHANGED <<txFifo, hostDue, tx_in, tx_out, tx_buf, txPos, isr, control>>
  BY DEF Write, Read, Close, Begin, SetTimeout, GetConnected, CloseWait,
     ReadData, ReadCopy, ReadTake, ReadSpin, ReadCheck, ReadEnd
<1>2. ~Writing
  BY DEF Write, Read, Close, Begin, SetTimeout, GetConnected, CloseWait,
     ReadData, ReadCopy, ReadTake, ReadSpin, ReadCheck, ReadEnd, Writing
<1>3. CASE Write
  <2>1. call = "idle" /\ call' = "w_room" /\ done' = done BY <1>3 DEF Write, Begin
  <2>2. TxSent' = Num(txPos + 0)
    BY <1>1, <2>1 DEF TxSent, Writing, CallInv, Num
  <2>3. Num(txPos + 0) = txPos BY NumOf DEF UartInv, UartTypeOK
  <2>4. TxSent' = TxSent BY <1>2, <2>2, <2>3 DEF TxSent
  <2> QED BY <1>1, <2>1, <2>4, TxFrame DEF WriteInv, SpaceInv, WSpace
<1>4. CASE ~Write
  <2>1. call' \notin {"w_room", "w_copy", "w_put", "w_kick", "w_spin", "w_check"}
    BY <1>4, <1>2 DEF Read, Close, Begin, SetTimeout, GetConnected, CloseWait,
       ReadData, ReadCopy, ReadTake, ReadSpin, ReadCheck, ReadEnd, Writing
  <2>2. TxSent' = TxSent BY <1>1, <1>2, <2>1 DEF TxSent, Writing
  <2> QED BY <1>1, <2>1, <2>2, TxFrame DEF WriteInv, SpaceInv, WSpace
<1> QED BY <1>3, <1>4

LEMMA TxWrite ==
  ASSUME UartInv,
         WriteRoom \/ WriteCopy \/ WritePut \/ WriteKick \/ WriteSpin \/ WriteCheck
  PROVE  TxInv' /\ WriteInv'
<1> USE TxTypes DEF deviceVars, txVars, rxVars, hostVars, isrVars, callVars
<1>0. /\ UNCHANGED <<txFifo, hostDue, tx_out, isr, control>> /\ Writing
      /\ SpaceInv'
  BY DEF WriteRoom, WriteCopy, WritePut, WriteKick, WriteSpin, WriteCheck, Writing,
     SpaceInv, WSpace
<1>a. TxSent = Num(txPos + done) BY <1>0 DEF TxSent, Num
<1>b. ASSUME UNCHANGED <<tx_in, tx_buf, txPos, done>>, Writing' PROVE TxInv'
  <2>1. TxSent' = TxSent BY <1>0, <1>b DEF TxSent
  <2> QED BY <1>0, <1>b, <2>1, TxFrame
<1>c. ASSUME UNCHANGED <<tx_in, tx_buf>>, WriteReturn PROVE TxInv' /\ WriteInv'
  <2>1. TxSent' = txPos' BY <1>c DEF WriteReturn, TxSent, Writing
  <2>2. TxSent' = TxSent
    <3>1. CASE done > 0
      BY <1>a, <1>c, <2>1, <3>1 DEF WriteReturn, WriteResult, Result, Num
    <3>2. CASE done = 0
      <4>1. txPos' = txPos
        BY <1>c, <3>2 DEF WriteReturn, WriteResult, Result, EAGAIN, EIO
      <4>2. Num(txPos + 0) = txPos BY NumOf DEF UartInv, UartTypeOK
      <4> QED BY <1>a, <2>1, <3>2, <4>1, <4>2
    <3> QED BY <3>1, <3>2
  <2>3. call' = "idle" BY <1>c DEF WriteReturn
  <2> QED BY <1>0, <1>c, <2>2, <2>3, TxFrame DEF WriteInv
<1>1. CASE WriteRoom
  <2>1. UNCHANGED <<tx_in, tx_buf, txPos, done, count>> BY <1>1 DEF WriteRoom
  <2>2. Writing' BY <1>1 DEF WriteRoom, Writing
  <2> DEFINE room == TxRoom(tx_in, tx_out)
  <2>3. /\ room \in Index /\ tx_in + room <= BufLen /\ TxHeld + room < BufLen
        /\ room = 0 => tx_in # tx_out
    BY TxRoomIs DEF TxHeld
  <2>4. CASE count = 0
    <3>1. call' = "w_kick" /\ count' = 0 BY <1>1, <2>1, <2>4 DEF WriteRoom
    <3>2. WriteInv' BY <3>1 DEF WriteInv
    <3> QED BY <1>b, <2>1, <2>2, <3>2
  <2>5. CASE count > 0 /\ room = 0
    <3>1. call' = "w_kick" /\ seen' = tx_out BY <1>1, <2>5 DEF WriteRoom
    <3>2. WriteInv' BY <2>1, <2>3, <2>5, <3>1 DEF WriteInv
    <3> QED BY <1>b, <2>1, <2>2, <3>2
  <2>6. CASE count > 0 /\ room # 0
    <3>1. call' = "w_copy" /\ n' = Lesser(room, count) BY <1>1, <2>6 DEF WriteRoom
    <3>2. n' > 0 /\ n' <= count /\ n' <= room /\ n' \in Nat /\ room \in Nat
      BY <2>3, <2>6, <3>1 DEF Lesser
    <3>3. TxHeld' = TxHeld BY <1>0, <2>1 DEF TxHeld, Dist
    <3>4. tx_in + n' <= BufLen /\ TxHeld + n' < BufLen BY <2>3, <3>2, SMTT(30)
    <3>5. WriteInv' BY <2>1, <3>1, <3>2, <3>3, <3>4 DEF WriteInv
    <3> QED BY <1>b, <2>1, <2>2, <3>5
  <2> QED BY <2>4, <2>5, <2>6
<1>2. CASE WriteCopy
  <2>1. UNCHANGED <<tx_in, txPos, done, count, n, seen>> /\ call = "w_copy" /\ call' = "w_put"
    BY <1>2 DEF WriteCopy
  <2>2. n > 0 /\ n <= count /\ tx_in + n <= BufLen /\ TxHeld + n < BufLen
    BY <2>1 DEF WriteInv
  <2>3. /\ TxHeld' = TxHeld
        /\ \A p \in Index : Dist(tx_out', p) = Dist(tx_out, p)
    BY <1>0, <2>1 DEF TxHeld, Dist
  <2>4. \A p \in tx_in .. tx_in + n - 1 :
          p \in Index /\ Dist(tx_out, p) = TxHeld + (p - tx_in)
    BY <2>2, DistPiece DEF TxHeld
  <2>5. \A p \in Index : Dist(tx_out, p) < TxHeld => tx_buf'[p] = tx_buf[p]
    <3> TAKE p \in Index
    <3> HAVE Dist(tx_out, p) < TxHeld
    <3>1. p \notin tx_in .. tx_in + n - 1 BY <2>4
    <3> QED BY <1>2, <3>1 DEF WriteCopy
  <2>6. \A p \in tx_in .. tx_in + n - 1 : tx_buf'[p] = Num(txPos + done + p - tx_in)
    BY <1>2, <2>4 DEF WriteCopy, Num
  <2>7. TxSent' = TxSent BY <1>0, <2>1 DEF TxSent, Writing
  <2>8. TxInv' BY <1>0, <2>3, <2>5, <2>7 DEF TxInv, TxBytesInv, SpaceInv
  <2>9. WriteInv' BY <2>1, <2>2, <2>3, <2>6 DEF WriteInv
  <2> QED BY <2>8, <2>9
<1>3. CASE WritePut
  <2>1. /\ UNCHANGED <<tx_buf, txPos>> /\ call = "w_put" /\ call' = "w_room"
        /\ tx_in' = (tx_in + n) % BufLen /\ done' = done + n
    BY <1>3 DEF WritePut
  <2>2. n > 0 /\ n <= count /\ tx_in + n <= BufLen /\ TxHeld + n < BufLen
    BY <2>1 DEF WriteInv
  <2>3. /\ TxHeld' = TxHeld + n
        /\ \A p \in Index :
             TxHeld <= Dist(tx_out, p) /\ Dist(tx_out, p) < TxHeld + n
               => p \in tx_in .. tx_in + n - 1 /\ Dist(tx_out, p) = TxHeld + (p - tx_in)
    <3>1. TxHeld' = Dist(tx_out, (tx_in + n) % BufLen) BY <1>0, <2>1 DEF TxHeld, Dist
    <3> QED BY <2>2, <3>1, DistPiece, SMTT(30) DEF TxHeld
  <2>4. Num(txPos + done) = Num(hostDue + Len(txFifo) + TxHeld) BY <1>a DEF TxInv
  <2>5. \A k \in Int : Num(txPos + done + k) = Num(hostDue + Len(txFifo) + TxHeld + k)
    <3>1. txPos + done \in Int /\ hostDue + Len(txFifo) + TxHeld \in Int OBVIOUS
    <3> QED BY <2>4, <3>1, NumShift
  <2>6. \A p \in Index :
          Dist(tx_out, p) < TxHeld + n =>
            tx_buf[p] = Num(hostDue + Len(txFifo) + Dist(tx_out, p))
    <3> TAKE p \in Index
    <3> HAVE Dist(tx_out, p) < TxHeld + n
    <3>0. Dist(tx_out, p) \in Nat BY DistIs
    <3>1. CASE Dist(tx_out, p) < TxHeld BY <3>1 DEF TxBytesInv
    <3>2. CASE TxHeld <= Dist(tx_out, p)
      <4>1. p \in tx_in .. tx_in + n - 1 /\ Dist(tx_out, p) = TxHeld + (p - tx_in)
        BY <2>3, <3>2
      <4>2. tx_buf[p] = Num(txPos + done + p - tx_in) BY <2>1, <4>1 DEF WriteInv
      <4>3. /\ txPos + done + p - tx_in = txPos + done + (p - tx_in)
            /\ hostDue + Len(txFifo) + TxHeld + (p - tx_in)
                 = hostDue + Len(txFifo) + Dist(tx_out, p)
        BY <4>1, SMTT(30)
      <4> QED BY <2>5, <4>1, <4>2, <4>3
    <3> QED BY <3>0, <3>1, <3>2
  <2>7. TxSent' = Num(hostDue + Len(txFifo) + (TxHeld + n))
    <3>1. TxSent' = Num(txPos + (done + n)) BY <2>1 DEF TxSent, Writing, Num
    <3>2. txPos + (done + n) = txPos + done + n
          /\ hostDue + Len(txFifo) + (TxHeld + n) = hostDue + Len(txFifo) + TxHeld + n
      OBVIOUS
    <3> QED BY <2>5, <3>1, <3>2
  <2>8. TxInv' BY <1>0, <2>1, <2>3, <2>6, <2>7 DEF TxInv, TxBytesInv, SpaceInv, Dist
  <2>9. WriteInv' BY <2>1 DEF WriteInv
  <2> QED BY <2>8, <2>9
<1>4. CASE WriteKick
  <2>1. UNCHANGED <<tx_in, tx_buf>> /\ call = "w_kick" BY <1>4 DEF WriteKick
  <2>2. CASE count = 0 \/ nonblock BY <1>4, <1>c, <2>1, <2>2 DEF WriteKick
  <2>3. CASE ~(count = 0 \/ nonblock)
    <3>1. call' = "w_spin" /\ UNCHANGED <<txPos, done, count, seen>>
      BY <1>4, <2>3 DEF WriteKick
    <3>2. Writing' BY <3>1 DEF Writing
    <3>3. WriteInv' BY <2>1, <2>3, <3>1 DEF WriteInv
    <3> QED BY <1>b, <2>1, <3>1, <3>2, <3>3
  <2> QED BY <2>2, <2>3
<1>5. CASE WriteSpin
  <2>1. UNCHANGED <<tx_in, tx_buf, txPos, done, count, seen>> /\ call = "w_spin" /\ call' = "w_check"
    BY <1>5 DEF WriteSpin
  <2>2. Writing' BY <2>1 DEF Writing
  <2>3. WriteInv' BY <2>1 DEF WriteInv
  <2> QED BY <1>b, <2>1, <2>2, <2>3
<1>6. CASE WriteCheck
  <2>1. UNCHANGED <<tx_in, tx_buf>> /\ call = "w_check" BY <1>6 DEF WriteCheck
  <2>2. CASE seen = tx_out BY <1>6, <1>c, <2>1, <2>2 DEF WriteCheck
  <2>3. CASE seen # tx_out
    <3>1. call' = "w_room" /\ UNCHANGED <<txPos, done>> BY <1>6, <2>3 DEF WriteCheck
    <3>2. Writing' BY <3>1 DEF Writing
    <3>3. WriteInv' BY <3>1 DEF WriteInv
    <3> QED BY <1>b, <2>1, <3>1, <3>2, <3>3
  <2> QED BY <2>2, <2>3
<1> QED BY <1>1, <1>2, <1>3, <1>4, <1>5, <1>6

LEMMA TxStep ==
  ASSUME UartInv, [UartNext]_uartVars PROVE TxInv' /\ WriteInv'
<1>1. CASE UNCHANGED uartVars
  BY <1>1 DEF UartInv, TxInv, WriteInv, TxHeld, Dist, TxSent, Writing, WSpace, uartVars,
     deviceVars, txVars, isrVars, callVars
<1> QED BY <1>1, StepCases, TxDevice, TxIsr, TxCall, TxWrite

-----------------------------------------------------------------------------
(***************************************************************************)
(* The bytes on their way to the program.  RxAt is the number of the one   *)
(* at rx_out.                                                              *)
(***************************************************************************)
RxAt == rxPos + RxDone

LEMMA RxTypes ==
  ASSUME UartInv
  PROVE  /\ rxFifo \in Seq(Byte) /\ Len(rxFifo) \in Nat /\ Len(rxFifo) <= FifoDepth
         /\ hostPos \in Nat /\ rxPos \in Nat /\ done \in Nat /\ n \in Nat /\ count \in Nat
         /\ rx_in \in Index /\ rx_out \in Index /\ RxHeld \in Nat
         /\ rx_buf \in [Index -> Byte] /\ buffer \in Seq(Byte) /\ Len(buffer) \in Nat
         /\ RxDone \in Nat /\ RxAt \in Nat
         /\ RxInv /\ ReadInv /\ CallInv /\ ArmInv
         /\ BufLen \in Nat /\ rx_in \in Nat /\ rx_out \in Nat
         /\ Index \subseteq Nat
<1>1. BufLen \in Nat /\ BufLen > 1 /\ Index = 0 .. BufLen - 1 BY DriverAssumption DEF Index
<1>2. Index \subseteq Nat BY <1>1
<1>3. Byte \subseteq Nat BY DeviceAssumption DEF Byte
<1>4. rx_in \in Index /\ rx_out \in Index /\ n \in Index /\ rx_buf \in [Index -> Byte]
      /\ buffer \in Seq(Byte)
  BY DEF UartInv, UartTypeOK
<1>5. RxHeld \in Nat /\ n \in Nat BY <1>2, <1>4, DistIs DEF RxHeld
<1>6. rxFifo \in Seq(Byte) /\ Len(rxFifo) \in Nat /\ Len(rxFifo) <= FifoDepth
  BY DEF UartInv, UartTypeOK, DeviceTypeOK
<1>7. hostPos \in Nat /\ rxPos \in Nat
  BY <1>3 DEF UartInv, UartTypeOK, DeviceTypeOK
<1>8. done \in Nat /\ count \in Nat BY DriverAssumption DEF UartInv, UartTypeOK
<1>9. RxDone \in Nat /\ RxAt \in Nat BY <1>7, <1>8 DEF RxDone, RxAt
<1>10. RxInv /\ ReadInv /\ CallInv /\ ArmInv BY DEF UartInv
<1>11. Len(buffer) \in Nat BY <1>4
<1> QED BY <1>1, <1>2, <1>4, <1>5, <1>6, <1>7, <1>8, <1>9, <1>10, <1>11

\* Steps that leave the bytes alone, and those that leave the read alone.
LEMMA RxFrame ==
  ASSUME UartInv, UNCHANGED <<rxFifo, hostPos, rx_in, rx_out, rx_buf, rxPos>>,
         RxDone' = RxDone
  PROVE  RxInv'
  BY DEF UartInv, RxInv, RxHeld, Dist

LEMMA RxCallFrame ==
  ASSUME UartInv, UNCHANGED <<call, count, done, n, seen, rxPos, buffer, rx_in, rx_out>>
  PROVE  ReadInv' /\ RxDone' = RxDone
  BY DEF UartInv, ReadInv, RxDone, RxHeld, Dist, Reading

\* Between two reads nothing is left in the caller's buffer.
LEMMA RxNoRead ==
  ASSUME UartInv, ~Reading, ~Reading', UNCHANGED buffer
  PROVE  ReadInv' /\ RxDone' = RxDone
<1>1. buffer \in Seq(Byte) /\ Len(buffer) = 0
  BY DEF UartInv, UartTypeOK, ReadInv, Reading, RxDone
<1>2. call' \notin {"r_data", "r_copy", "r_take", "r_spin", "r_check", "r_end"}
  BY DEF Reading
<1>3. RxDone' = 0 /\ RxDone = 0 BY DEF RxDone
<1>4. Len(buffer') = 0 BY <1>1
<1> QED BY <1>2, <1>3, <1>4 DEF ReadInv

LEMMA RxDevice ==
  ASSUME UartInv, UNCHANGED driverVars, HostTake \/ HostSend \/ HostPause \/ HostPlug
  PROVE  RxInv' /\ ReadInv'
<1>1. UNCHANGED <<rx_in, rx_out, rx_buf, call, count, done, seen, n, rxPos, buffer>>
  BY DEF driverVars, rxVars, callVars
<1>2. ReadInv' /\ RxDone' = RxDone BY <1>1, RxCallFrame
<1>3. CASE HostTake \/ HostPause \/ HostPlug
  <2>1. UNCHANGED <<rxFifo, hostPos>> BY <1>3 DEF HostTake, HostPause, HostPlug
  <2> QED BY <1>1, <1>2, <2>1, RxFrame
<1>4. CASE HostSend
  <2> USE RxTypes
  <2> DEFINE first == RxAt + RxHeld
  <2>0. first \in Nat OBVIOUS
  <2>1. hostPos \in Byte BY DEF UartInv, UartTypeOK, DeviceTypeOK
  <2>2. /\ hostPos' = Num(hostPos + 1)
        /\ Len(rxFifo') = Len(rxFifo) + 1
        /\ \A i \in 1 .. Len(rxFifo) : rxFifo'[i] = rxFifo[i]
        /\ rxFifo'[Len(rxFifo) + 1] = hostPos
    BY <1>4, <2>1, AppendOf DEF HostSend, Num
  <2>3. RxHeld' = RxHeld /\ RxAt' = RxAt BY <1>1, <1>2 DEF RxHeld, RxAt, Dist
  <2>4. hostPos = Num(first + Len(rxFifo)) BY DEF RxInv, RxAt
  <2>5. \A i \in 1 .. Len(rxFifo) + 1 : rxFifo'[i] = Num(first + i - 1)
    <3> TAKE i \in 1 .. Len(rxFifo) + 1
    <3>1. CASE i \in 1 .. Len(rxFifo)
      BY <2>2, <3>1 DEF RxInv, RxAt
    <3>2. CASE i = Len(rxFifo) + 1
      <4> HIDE DEF first
      <4>1. first + (Len(rxFifo) + 1) - 1 = first + Len(rxFifo) BY <2>0
      <4> QED BY <2>2, <2>4, <3>2, <4>1
    <3>3. i \in 1 .. Len(rxFifo) \/ i = Len(rxFifo) + 1
      BY SMTT(30)
    <3> QED BY <3>1, <3>2, <3>3
  <2>6. hostPos' = Num(first + Len(rxFifo'))
    <3> HIDE DEF first
    <3>1. first + Len(rxFifo) \in Int BY <2>0
    <3>2. Num(hostPos + 1) = Num(first + Len(rxFifo) + 1) BY <2>4, <3>1, NumAdd
    <3>3. first + Len(rxFifo) + 1 = first + Len(rxFifo') BY <2>0, <2>2
    <3> QED BY <2>2, <3>2, <3>3
  <2> QED BY <1>1, <1>2, <2>2, <2>3, <2>5, <2>6 DEF RxInv, RxAt, RxHeld, Dist
<1> QED BY <1>3, <1>4

LEMMA DistGrow ==
  ASSUME NEW out \in Index, NEW in \in Index, Next1(in) # out
  PROVE  /\ Dist(out, Next1(in)) = Dist(out, in) + 1
         /\ \A p \in Index : Dist(out, p) < Dist(out, in) + 1
                               => p = in \/ (p # in /\ Dist(out, p) < Dist(out, in))
  BY DriverAssumption DEF Index, Dist, Next1

LEMMA DistTake ==
  ASSUME NEW out \in Index, NEW in \in Index, NEW k \in Nat,
         k > 0, out + k <= BufLen, k <= Dist(out, in)
  PROVE  /\ Dist((out + k) % BufLen, in) = Dist(out, in) - k
         /\ \A p \in Index :
              Dist((out + k) % BufLen, p) < Dist(out, in) - k
                => Dist(out, p) = Dist((out + k) % BufLen, p) + k
         /\ \A j \in 0 .. k - 1 : out + j \in Index /\ Dist(out, out + j) = j
<1>1. (out + k) % BufLen = IF out + k = BufLen THEN 0 ELSE out + k BY Wrap
<1> QED BY <1>1, DriverAssumption DEF Index, Dist

LEMMA RxIsr ==
  ASSUME UartInv,
         IrqTaken \/ IsrControl \/ IsrRxFull \/ IsrRxByte \/ IsrTxByte \/ IsrTxEnd \/ Timeout
  PROVE  RxInv' /\ ReadInv'
<1> USE RxTypes DEF deviceVars, txVars, rxVars, hostVars, isrVars, callVars
<1>1. UNCHANGED <<call, count, done, seen, n, rxPos, buffer, rx_out, hostPos>>
  BY DEF IrqTaken, IsrControl, IsrRxFull, IsrRxByte, IsrTxByte, IsrTxEnd, Timeout
<1>2. CASE UNCHANGED <<rxFifo, rx_in, rx_buf>> BY <1>1, <1>2, RxFrame, RxCallFrame
<1>3. CASE IsrRxByte /\ rxFifo # <<>>
  <2>1. /\ rx_in' = Next1(rx_in) /\ Next1(rx_in) \in Index /\ Next1(rx_in) # rx_out
        /\ rx_buf' = [rx_buf EXCEPT ![rx_in] = Head(rxFifo)]
        /\ rxFifo' = Tail(rxFifo)
    BY <1>3, WrapNext DEF IsrRxByte, ReadDataReg, RxNext, RxFull
  <2>2. /\ Head(rxFifo) = rxFifo[1] /\ Len(rxFifo) >= 1
        /\ Len(rxFifo') = Len(rxFifo) - 1
        /\ \A i \in 1 .. Len(rxFifo) - 1 : rxFifo'[i] = rxFifo[i + 1]
    BY <1>3, <2>1, TailOf
  <2>3. RxHeld' = RxHeld + 1 BY <1>1, <2>1, DistGrow DEF RxHeld, Dist
  <2>4. RxAt' = RxAt /\ RxDone' = RxDone BY <1>1 DEF RxAt, RxDone, Reading
  <2>5. rxFifo[1] = Num(RxAt + RxHeld)
    <3>1. 1 \in 1 .. Len(rxFifo) BY <2>2
    <3>2. rxFifo[1] = Num(RxAt + RxHeld + 1 - 1) BY <3>1 DEF RxInv, RxAt
    <3>3. RxAt + RxHeld + 1 - 1 = RxAt + RxHeld OBVIOUS
    <3> QED BY <3>2, <3>3
  <2>6. \A p \in Index :
          Dist(rx_out, p) < RxHeld + 1 => rx_buf'[p] = Num(RxAt + Dist(rx_out, p))
    <3> TAKE p \in Index
    <3> HAVE Dist(rx_out, p) < RxHeld + 1
    <3>1. CASE p = rx_in BY <2>1, <2>2, <2>5, <3>1 DEF RxHeld
    <3>2. CASE p # rx_in /\ Dist(rx_out, p) < RxHeld
      BY <2>1, <3>2 DEF RxInv, RxAt
    <3> QED BY <2>1, <3>1, <3>2, DistGrow DEF RxHeld
  <2>7. \A i \in 1 .. Len(rxFifo) - 1 : rxFifo'[i] = Num(RxAt + (RxHeld + 1) + i - 1)
    <3> TAKE i \in 1 .. Len(rxFifo) - 1
    <3>0. i \in Int /\ i + 1 \in 1 .. Len(rxFifo)
      <4>1. Len(rxFifo) \in Int OBVIOUS
      <4> QED BY <4>1
    <3>1. rxFifo[i + 1] = Num(RxAt + RxHeld + (i + 1) - 1) BY <3>0 DEF RxInv, RxAt
    <3>2. RxAt + RxHeld + (i + 1) - 1 = RxAt + (RxHeld + 1) + i - 1
      <4>1. RxAt \in Int /\ RxHeld \in Int OBVIOUS
      <4> QED BY <3>0, <4>1
    <3> QED BY <2>2, <3>1, <3>2
  <2>8. hostPos' = Num(RxAt + (RxHeld + 1) + Len(rxFifo'))
    <3>1. hostPos = Num(RxAt + RxHeld + Len(rxFifo)) BY DEF RxInv, RxAt
    <3>2. RxAt + RxHeld + Len(rxFifo) = RxAt + (RxHeld + 1) + Len(rxFifo') BY <2>2, SMTT(30)
    <3> QED BY <1>1, <3>1, <3>2
  <2>9. RxInv' BY <1>1, <2>2, <2>3, <2>4, <2>6, <2>7, <2>8 DEF RxInv, RxAt, Dist
  <2>10. ReadInv'
    <3>1. call \in {"r_copy", "r_take"} => n <= RxHeld' BY <2>3, SMTT(30) DEF ReadInv
    <3> QED BY <1>1, <2>4, <3>1 DEF ReadInv
  <2> QED BY <2>9, <2>10
<1> QED BY <1>2, <1>3 DEF IrqTaken, IsrControl, IsrRxFull, IsrRxByte, IsrTxByte, IsrTxEnd,
           Timeout, ReadDataReg

LEMMA RxCall ==
  ASSUME UartInv,
         \/ Write \/ Close \/ SetTimeout \/ GetConnected \/ CloseWait
         \/ WriteRoom \/ WriteCopy \/ WritePut \/ WriteKick \/ WriteSpin \/ WriteCheck
  PROVE  RxInv' /\ ReadInv'
<1> USE DEF deviceVars, txVars, rxVars, hostVars, isrVars, callVars
<1>1. UNCHANGED <<rxFifo, hostPos, rx_in, rx_out, rx_buf, rxPos, buffer>>
  BY DEF Write, Close, Begin, SetTimeout, GetConnected, CloseWait,
     WriteRoom, WriteCopy, WritePut, WriteKick, WriteSpin, WriteCheck, WriteReturn
<1>2. ~Reading /\ ~Reading'
  BY DEF Write, Close, Begin, SetTimeout, GetConnected, CloseWait,
     WriteRoom, WriteCopy, WritePut, WriteKick, WriteSpin, WriteCheck, WriteReturn, Reading
<1> QED BY <1>1, <1>2, RxNoRead, RxFrame

LEMMA RxRead ==
  ASSUME UartInv,
         Read \/ ReadData \/ ReadCopy \/ ReadTake \/ ReadSpin \/ ReadCheck \/ ReadEnd
  PROVE  RxInv' /\ ReadInv'
<1> USE DEF deviceVars, txVars, rxVars, hostVars, isrVars, callVars
<1>t. /\ rxFifo \in Seq(Byte) /\ Len(rxFifo) \in Nat
      /\ hostPos \in Nat /\ rxPos \in Nat /\ done \in Nat /\ n \in Nat /\ count \in Nat
      /\ rx_in \in Index /\ rx_out \in Index /\ RxHeld \in Nat
      /\ rx_buf \in [Index -> Byte] /\ buffer \in Seq(Byte) /\ Len(buffer) \in Nat
      /\ RxInv /\ ReadInv /\ CallInv
      /\ BufLen \in Nat /\ rx_in \in Nat /\ rx_out \in Nat /\ Index \subseteq Nat
  BY RxTypes
<1> USE <1>t
<1>0. UNCHANGED <<rxFifo, hostPos, rx_in, rx_buf>>
  BY DEF Read, Begin, ReadData, ReadCopy, ReadTake, ReadSpin, ReadCheck, ReadEnd
<1>1. CASE Read
  <2>1. /\ call = "idle" /\ done = 0 /\ UNCHANGED <<rx_out, done, n, buffer, rxPos>>
        /\ call' = IF count' > 0 THEN "r_data" ELSE "r_end"
    BY <1>1 DEF Read, Begin, CallInv
  <2>2. RxDone = 0 /\ RxDone' = 0 BY <2>1 DEF RxDone, Reading
  <2>3. ReadInv' BY <2>1, <2>2 DEF ReadInv
  <2> QED BY <1>0, <2>1, <2>2, <2>3, RxFrame
<1>2. CASE ReadData
  <2>1. /\ call = "r_data" /\ UNCHANGED <<rx_out, count, done, buffer, rxPos>>
        /\ seen' = rx_in /\ n' = Lesser(RxData(rx_in, rx_out), count)
        /\ call' = IF RxData(rx_in, rx_out) > 0 THEN "r_copy"
                   ELSE IF done > 0 \/ nonblock THEN "r_end" ELSE "r_spin"
    BY <1>2 DEF ReadData
  <2>2. RxDone = done /\ RxDone' = done BY <2>1 DEF RxDone, Reading
  <2> DEFINE data == RxData(rx_in, rx_out)
  <2>3. /\ data \in Nat /\ data \in Index /\ rx_out + data <= BufLen /\ data <= RxHeld
        /\ data = 0 <=> rx_in = rx_out
    BY RxDataIs DEF RxHeld
  <2>4. n' \in Index /\ n' <= data /\ n' <= count /\ (data > 0 => n' > 0)
    BY <2>1, <2>3, LesserType DEF Lesser, ReadInv
  <2>5. n' \in Nat BY <2>4
  <2>6. call' = "r_copy" => n' > 0 /\ n' <= count' /\ rx_out' + n' <= BufLen /\ n' <= RxHeld'
    <3>1. RxHeld' = RxHeld BY <1>0, <2>1 DEF RxHeld, Dist
    <3>2. call' = "r_copy" => data > 0 BY <2>1
    <3>3. rx_out + n' <= BufLen /\ n' <= RxHeld
      <4>1. PICK d \in Nat : d = data BY <2>3
      <4>2. PICK m \in Nat : m = n' BY <2>5
      <4>3. PICK r \in Nat : r = rx_out OBVIOUS
      <4>4. PICK b \in Nat : b = BufLen OBVIOUS
      <4>5. PICK h \in Nat : h = RxHeld OBVIOUS
      <4>6. r + d <= b /\ d <= h /\ m <= d
        BY <2>3, <2>4, <4>1, <4>2, <4>3, <4>4, <4>5
      <4>7. r + m <= b /\ m <= h BY <4>6
      <4> QED BY <4>2, <4>3, <4>4, <4>5, <4>7
    <3> QED BY <2>1, <2>4, <3>1, <3>2, <3>3
  <2>7. call' = "r_spin" => seen' = rx_out' BY <2>1, <2>3
  <2>8. ReadInv' BY <2>1, <2>2, <2>6, <2>7 DEF ReadInv
  <2> QED BY <1>0, <2>1, <2>2, <2>8, RxFrame
<1>3. CASE ReadCopy
  <2>1. /\ call = "r_copy" /\ call' = "r_take"
        /\ UNCHANGED <<rx_out, count, done, n, rxPos>>
        /\ buffer' = buffer \o [i \in 1 .. n |-> rx_buf[rx_out + i - 1]]
    BY <1>3 DEF ReadCopy
  <2>2. RxDone = done /\ RxDone' = done BY <2>1 DEF RxDone, Reading
  <2>3. n > 0 /\ n <= count /\ rx_out + n <= BufLen /\ n <= RxHeld /\ Len(buffer) = done
    BY <2>1, <2>2 DEF ReadInv
  <2> DEFINE piece == [i \in 1 .. n |-> rx_buf[rx_out + i - 1]]
  <2>4. \A j \in 0 .. n - 1 : rx_out + j \in Index /\ rx_buf[rx_out + j] = Num(rxPos + done + j)
    <3> TAKE j \in 0 .. n - 1
    <3>1. rx_out + j \in Index /\ Dist(rx_out, rx_out + j) = j
      BY <2>3, DistTake DEF RxHeld
    <3>2. Dist(rx_out, rx_out + j) < RxHeld BY <2>3, <3>1
    <3>3. rx_buf[rx_out + j] = Num(rxPos + done + Dist(rx_out, rx_out + j))
      BY <2>2, <3>1, <3>2 DEF RxInv
    <3> QED BY <3>1, <3>3
  <2>5. \A i \in 1 .. n : rx_out + i - 1 = rx_out + (i - 1) /\ i - 1 \in 0 .. n - 1
    OBVIOUS
  <2>6. piece \in Seq(Byte) /\ Len(piece) = n
    <3>1. \A i \in 1 .. n : rx_buf[rx_out + i - 1] \in Byte BY <2>4, <2>5
    <3> QED BY <3>1
  <2>7. /\ Len(buffer') = done + n
        /\ \A i \in 1 .. done : buffer'[i] = buffer[i]
        /\ \A i \in 1 .. n : buffer'[done + i] = piece[i]
    <3>1. buffer' = buffer \o piece BY <2>1
    <3> HIDE DEF piece
    <3>2. /\ Len(buffer \o piece) = Len(buffer) + Len(piece)
          /\ \A i \in 1 .. Len(buffer) : (buffer \o piece)[i] = buffer[i]
          /\ \A i \in 1 .. Len(piece) : (buffer \o piece)[Len(buffer) + i] = piece[i]
      BY <2>6, ConcatOf
    <3> QED BY <2>3, <2>6, <3>1, <3>2
  <2>8. \A i \in 1 .. n : buffer'[done + i] = Num(rxPos + (done + i) - 1)
    <3> TAKE i \in 1 .. n
    <3>1. buffer'[done + i] = Num(rxPos + done + (i - 1)) BY <2>4, <2>5, <2>7
    <3>2. rxPos + done + (i - 1) = rxPos + (done + i) - 1 OBVIOUS
    <3> QED BY <3>1, <3>2
  <2>9. \A i \in 1 .. done + n : buffer'[i] = Num(rxPos + i - 1)
    <3> TAKE i \in 1 .. done + n
    <3>1. CASE i \in 1 .. done BY <2>3, <2>7, <3>1 DEF ReadInv
    <3>2. CASE i - done \in 1 .. n
      <4>1. done + (i - done) = i OBVIOUS
      <4> QED BY <2>8, <3>2, <4>1
    <3> QED BY <3>1, <3>2
  <2>10. RxHeld' = RxHeld BY <1>0, <2>1 DEF RxHeld, Dist
  <2>11. ReadInv' BY <2>1, <2>2, <2>3, <2>7, <2>9, <2>10 DEF ReadInv
  <2> QED BY <1>0, <2>1, <2>2, <2>11, RxFrame
<1>4. CASE ReadTake
  <2>1. /\ call = "r_take" /\ call' = (IF count > n THEN "r_data" ELSE "r_end")
        /\ UNCHANGED <<buffer, rxPos>>
        /\ rx_out' = (rx_out + n) % BufLen /\ done' = done + n /\ count' = count - n
    BY <1>4 DEF ReadTake
  <2>2. RxDone = done /\ RxDone' = done + n BY <2>1 DEF RxDone, Reading
  <2>3. n > 0 /\ n <= count /\ rx_out + n <= BufLen /\ n <= RxHeld /\ Len(buffer) = done + n
    BY <2>1 DEF ReadInv
  <2>4. /\ RxHeld' = RxHeld - n
        /\ \A p \in Index : Dist(rx_out', p) < RxHeld - n
                              => Dist(rx_out, p) = Dist(rx_out', p) + n
    <3>1. RxHeld' = Dist((rx_out + n) % BufLen, rx_in) BY <1>0, <2>1 DEF RxHeld, Dist
    <3>2. RxHeld = Dist(rx_out, rx_in) BY DEF RxHeld
    <3> QED BY <2>1, <2>3, <3>1, <3>2, DistTake
  <2>5. \A p \in Index :
          Dist(rx_out', p) < RxHeld - n =>
            rx_buf[p] = Num(rxPos + (done + n) + Dist(rx_out', p))
    <3> TAKE p \in Index
    <3> HAVE Dist(rx_out', p) < RxHeld - n
    <3>1. Dist(rx_out, p) \in Nat BY DistIs
    <3>2. Dist(rx_out, p) = Dist(rx_out', p) + n BY <2>4
    <3>3. Dist(rx_out', p) \in Nat
      <4>1. rx_out' \in Index BY TypeRead, <1>4 DEF UartTypeOK
      <4> QED BY <4>1, DistIs
    <3>4. Dist(rx_out, p) < RxHeld BY <3>2, <3>3
    <3>5. rx_buf[p] = Num(rxPos + done + Dist(rx_out, p)) BY <2>2, <3>4 DEF RxInv
    <3>6. rxPos + done + Dist(rx_out, p) = rxPos + (done + n) + Dist(rx_out', p)
      BY <3>2, <3>3
    <3> QED BY <3>5, <3>6
  <2>6. rxPos + done + RxHeld = rxPos + (done + n) + (RxHeld - n) OBVIOUS
  <2>7. RxInv' BY <1>0, <2>1, <2>2, <2>4, <2>5, <2>6 DEF RxInv, Dist
  <2>8. ReadInv' BY <2>1, <2>2, <2>3 DEF ReadInv
  <2> QED BY <2>7, <2>8
<1>5. CASE ReadSpin \/ ReadCheck
  <2>1. /\ UNCHANGED <<rx_out, count, done, buffer, rxPos>>
        /\ call \in {"r_spin", "r_check"} /\ call' \in {"r_check", "r_data", "r_end"}
    BY <1>5 DEF ReadSpin, ReadCheck
  <2>2. RxDone = done /\ RxDone' = done BY <2>1 DEF RxDone, Reading
  <2>3. ReadInv' BY <2>1, <2>2 DEF ReadInv
  <2> QED BY <1>0, <2>1, <2>2, <2>3, RxFrame
<1>6. CASE ReadEnd
  <2>1. /\ call = "r_end" /\ call' = "idle" /\ UNCHANGED rx_out
        /\ buffer' = <<>> /\ rxPos' = Num(rxPos + done)
    BY <1>6 DEF ReadEnd, Num
  <2>2. RxDone = done /\ RxDone' = 0 BY <2>1 DEF RxDone, Reading
  <2>3. rxPos' \in Nat
    <3>1. rxPos' \in Byte BY <2>1, NumType
    <3> QED BY <3>1, DeviceAssumption DEF Byte
  <2>4. \A x \in Int : Num(rxPos' + 0 + x) = Num(rxPos + done + x)
    <3> TAKE x \in Int
    <3>1. rxPos' + 0 + x = rxPos' + x BY <2>3
    <3> QED BY <2>1, <3>1, NumAdd
  <2>5. RxHeld' = RxHeld BY <1>0, <2>1 DEF RxHeld, Dist
  <2>6. \A p \in Index :
          Dist(rx_out, p) < RxHeld => rx_buf[p] = Num(rxPos' + 0 + Dist(rx_out, p))
    <3> TAKE p \in Index
    <3>1. Dist(rx_out, p) \in Int BY DistIs
    <3> QED BY <2>2, <2>4, <3>1 DEF RxInv
  <2>7. \A i \in 1 .. Len(rxFifo) : rxFifo[i] = Num(rxPos' + 0 + RxHeld + i - 1)
    <3> TAKE i \in 1 .. Len(rxFifo)
    <3>1. rxFifo[i] = Num(rxPos + done + RxHeld + i - 1) BY <2>2 DEF RxInv
    <3>2. Num(rxPos' + 0 + (RxHeld + i - 1)) = Num(rxPos + done + (RxHeld + i - 1)) BY <2>4
    <3>3. /\ rxPos' + 0 + (RxHeld + i - 1) = rxPos' + 0 + RxHeld + i - 1
          /\ rxPos + done + (RxHeld + i - 1) = rxPos + done + RxHeld + i - 1
      BY <2>3
    <3> QED BY <3>1, <3>2, <3>3
  <2>8. hostPos = Num(rxPos' + 0 + RxHeld + Len(rxFifo))
    <3>1. hostPos = Num(rxPos + done + RxHeld + Len(rxFifo)) BY <2>2 DEF RxInv
    <3>2. Num(rxPos' + 0 + (RxHeld + Len(rxFifo))) = Num(rxPos + done + (RxHeld + Len(rxFifo)))
      BY <2>4
    <3>3. /\ rxPos' + 0 + (RxHeld + Len(rxFifo)) = rxPos' + 0 + RxHeld + Len(rxFifo)
          /\ rxPos + done + (RxHeld + Len(rxFifo)) = rxPos + done + RxHeld + Len(rxFifo)
      BY <2>3
    <3> QED BY <3>1, <3>2, <3>3
  <2>9. RxInv' BY <1>0, <2>1, <2>2, <2>5, <2>6, <2>7, <2>8 DEF RxInv, Dist
  <2>10. Len(buffer') = 0 BY <2>1
  <2>11. ReadInv' BY <2>1, <2>2, <2>10 DEF ReadInv
  <2> QED BY <2>9, <2>11
<1> QED BY <1>1, <1>2, <1>3, <1>4, <1>5, <1>6

LEMMA RxStep ==
  ASSUME UartInv, [UartNext]_uartVars PROVE RxInv' /\ ReadInv'
<1>1. CASE UNCHANGED uartVars
  BY <1>1 DEF UartInv, RxInv, ReadInv, RxHeld, Dist, RxDone, Reading, uartVars,
     deviceVars, rxVars, callVars
<1> QED BY <1>1, StepCases, RxDevice, RxIsr, RxCall, RxRead

-----------------------------------------------------------------------------
(***************************************************************************)
(* The calls and the interrupts.                                           *)
(***************************************************************************)
LEMMA CallInvStep ==
  ASSUME UartInv, [UartNext]_uartVars PROVE CallInv'
<1> USE TxTypes DEF deviceVars, txVars, rxVars, hostVars, isrVars, callVars
<1>1. CASE UNCHANGED <<call, count, done>> BY <1>1 DEF CallInv
<1>2. CASE WritePut \/ ReadTake
  BY <1>2, SMTT(30) DEF WritePut, ReadTake, CallInv
<1>3. CASE WriteReturn \/ ReadEnd
  BY <1>3, DriverAssumption DEF WriteReturn, ReadEnd, CallInv
<1>4. CASE Write \/ Read \/ Close
  BY <1>4, DriverAssumption DEF Write, Read, Close, Begin, CallInv
<1>5. CASE CloseWait BY <1>5 DEF CloseWait, CallInv
<1>6. ASSUME UNCHANGED <<count, done>>, call' \notin {"idle", "close"} PROVE CallInv'
  BY <1>6 DEF CallInv
<1>7. CASE WriteRoom \/ WriteCopy \/ WriteSpin \/ ReadData \/ ReadCopy \/ ReadSpin \/ ReadCheck
  BY <1>6, <1>7 DEF WriteRoom, WriteCopy, WriteSpin, ReadData, ReadCopy, ReadSpin, ReadCheck
<1>8. CASE WriteKick BY <1>3, <1>6, <1>8 DEF WriteKick
<1>9. CASE WriteCheck BY <1>3, <1>6, <1>9 DEF WriteCheck
<1> QED BY <1>1, <1>2, <1>3, <1>4, <1>5, <1>7, <1>8, <1>9, StepCases
        DEF uartVars, driverVars, IrqTaken, IsrControl, IsrRxFull, IsrRxByte, IsrTxByte,
            IsrTxEnd, Timeout, SetTimeout, GetConnected

LEMMA ArmStep ==
  ASSUME UartInv, [UartNext]_uartVars PROVE ArmInv'
<1> USE DEF deviceVars, txVars, rxVars, hostVars, isrVars, callVars
<1>0. /\ WriterArmed /\ ReaderArmed
      /\ done \in Nat /\ count \in Nat /\ n \in Nat
      /\ CallInv /\ WriteInv /\ ReadInv
  BY RxTypes DEF UartInv, ArmInv
<1>1. WriterArmed'
  <2>1. CASE UNCHANGED <<tx_in, tx_out, call>> /\ ("WE" \in irq_enable => "WE" \in irq_enable')
    BY <1>0, <2>1 DEF WriterArmed
  <2>2. CASE IsrTxByte BY <1>0, <2>2 DEF IsrTxByte, WriterArmed
  <2>3. CASE IsrTxEnd
    <3>1. TxIdle(control.space) => tx_out = tx_in
      <4>1. control.space \in Nat BY DeviceAssumption DEF UartInv, UartTypeOK
      <4> QED BY <2>3, <4>1 DEF IsrTxEnd, TxIdle
    <3> QED BY <1>0, <2>3, <3>1 DEF IsrTxEnd, WriterArmed
  <2>4. CASE Write \/ WriteRoom \/ WriteCopy \/ WritePut
    BY <2>4 DEF Write, Begin, WriteRoom, WriteCopy, WritePut, WriterArmed
  <2>5. CASE WriteKick
    <3>1. "WE" \in irq_enable' BY <2>5 DEF WriteKick, Kicked
    <3> QED BY <3>1 DEF WriterArmed
  <2>6. CASE \/ UNCHANGED <<tx_in, tx_out, irq_enable>>
               /\ call \notin {"w_room", "w_copy", "w_put", "w_kick"}
    BY <1>0, <2>6 DEF WriterArmed
  <2>7. CASE ReadEnd BY <1>0, <2>7 DEF ReadEnd, Rearmed, WriterArmed
  <2> QED BY <2>1, <2>2, <2>3, <2>4, <2>5, <2>6, <2>7, StepCases
          DEF uartVars, driverVars, HostTake, HostSend, HostPause, HostPlug, IrqTaken, Timeout,
              IsrControl, IsrRxFull, IsrRxByte, Read, Close, Begin, SetTimeout, GetConnected,
              WriteSpin, WriteCheck, ReadData, ReadCopy, ReadTake, ReadSpin, ReadCheck, CloseWait
<1>2. ReaderArmed'
  <2>1. CASE UNCHANGED <<rx_in, rx_out, call, done>> /\ ("RE" \in irq_enable => "RE" \in irq_enable')
    BY <1>0, <2>1 DEF ReaderArmed, RxFull, RxNext
  <2>2. CASE IsrRxFull BY <2>2 DEF IsrRxFull, ReaderArmed, RxFull, RxNext
  <2>3. CASE IsrRxByte BY <1>0, <2>3 DEF IsrRxByte, ReaderArmed
  <2>4. CASE IsrTxEnd BY <1>0, <2>4 DEF IsrTxEnd, ReaderArmed, RxFull, RxNext
  <2>5. CASE ReadTake
    <3>1. call' \in {"r_data", "r_end"} /\ done' = done + n /\ n > 0
      BY <1>0, <2>5 DEF ReadTake, ReadInv
    <3> QED BY <1>0, <3>1 DEF ReaderArmed
  <2>6. CASE ReadEnd
    BY <1>0, <2>6 DEF ReadEnd, Rearmed, ReaderArmed, RxFull, RxNext
  <2>7. CASE ReadData \/ ReadCopy
    BY <1>0, <2>7 DEF ReadData, ReadCopy, ReaderArmed, RxFull, RxNext
  <2>8. CASE /\ UNCHANGED <<rx_in, rx_out>>
             /\ call \notin {"r_data", "r_copy", "r_take", "r_end"}
             /\ "RE" \in irq_enable => "RE" \in irq_enable'
    BY <1>0, <2>8 DEF ReaderArmed, RxFull, RxNext
  <2> QED BY <2>1, <2>2, <2>3, <2>4, <2>5, <2>6, <2>7, <2>8, StepCases
          DEF uartVars, driverVars, HostTake, HostSend, HostPause, HostPlug, IrqTaken, Timeout,
              IsrControl, IsrTxByte, Write, Read, Close, Begin, SetTimeout, GetConnected,
              WriteRoom, WriteCopy, WritePut, WriteKick, WriteSpin, WriteCheck, Kicked,
              ReadSpin, ReadCheck, CloseWait
<1> QED BY <1>1, <1>2 DEF ArmInv

-----------------------------------------------------------------------------
(***************************************************************************)
(* The theorems.                                                           *)
(***************************************************************************)
LEMMA InitInv == ASSUME UartInit PROVE UartInv
<1> USE DEF UartInit, DeviceInit
<1>0. 0 \in Byte /\ 0 \in Index /\ MaxCount \in Nat /\ BufLen \in Nat /\ BufLen > 1
  BY DeviceAssumption, DriverAssumption DEF Byte, Index
<1>1. Num(0) = 0 BY <1>0, NumOf
<1>2. TxHeld = 0 /\ RxHeld = 0 /\ ~Writing /\ ~Reading
  BY DEF TxHeld, RxHeld, Dist, Writing, Reading
<1>3. \A p \in Index : Dist(0, p) \in Nat BY <1>0, DistIs
<1>4. Len(txFifo) = 0 /\ Len(rxFifo) = 0 /\ Len(buffer) = 0 OBVIOUS
<1>5. UartTypeOK BY InitType
<1>6. CallInv BY <1>0 DEF CallInv
<1>7. TxInv BY <1>1, <1>2, <1>3, <1>4 DEF TxInv, TxSent
<1>8. WriteInv BY DEF WriteInv
<1>9. RxInv BY <1>1, <1>2, <1>3, <1>4 DEF RxInv, RxDone
<1>10. ReadInv BY <1>2, <1>4 DEF ReadInv, RxDone
<1>11. ArmInv BY DEF ArmInv, WriterArmed, ReaderArmed
<1> QED BY <1>5, <1>6, <1>7, <1>8, <1>9, <1>10, <1>11 DEF UartInv

LEMMA InvStep == UartInv /\ [UartNext]_uartVars => UartInv'
  BY TypeStep, TxStep, RxStep, CallInvStep, ArmStep DEF UartInv

(***************************************************************************)
(* Whatever the thread, the interrupt routines and the host do in turn,    *)
(* the inductive invariant holds in every state.                           *)
(***************************************************************************)
THEOREM UartInvariant == UartSpec => []UartInv
  BY InitInv, InvStep, PTL DEF UartSpec

(***************************************************************************)
(* In every reachable state the indexes are in their arrays, the FIFOs     *)
(* hold no more than their depth and no call has moved more than it was    *)
(* length to.                                                               *)
(***************************************************************************)
THEOREM UartTypes == UartSpec => []UartTypeOK
<1>1. UartInv => UartTypeOK BY DEF UartInv
<1> QED BY <1>1, UartInvariant, PTL

LEMMA ReadIsInOrder == ASSUME UartInv PROVE ReadInOrder
<1>1. buffer \in Seq(Byte) /\ rxPos \in Nat BY RxTypes
<1>2. \A i \in 1 .. Len(buffer) : buffer[i] = (rxPos + i - 1) % Streams
  BY DEF UartInv, ReadInv, Num
<1>3. buffer = [i \in 1 .. Len(buffer) |-> buffer[i]] BY <1>1
<1> QED BY <1>2, <1>3 DEF ReadInOrder, Rx!Numbers

(***************************************************************************)
(* read() returns the next bytes of the stream, whatever the interrupt     *)
(* routine did to the buffer while it copied them.                         *)
(***************************************************************************)
THEOREM ReadsInOrder == UartSpec => []ReadInOrder
  BY ReadIsInOrder, UartInvariant, PTL

LEMMA ArmedIs == ASSUME UartInv PROVE InterruptsArmed
<1>1. tx_in # tx_out =>
        "WE" \in irq_enable \/ call \in {"w_room", "w_copy", "w_put", "w_kick"}
  BY DEF UartInv, ArmInv, WriterArmed
<1>2. call = "w_spin" /\ seen = tx_out => "WE" \in irq_enable
  BY <1>1 DEF UartInv, WriteInv
<1>3. call = "r_spin" /\ seen = rx_in => "RE" \in irq_enable
  <2>1. rx_in \in Index BY RxTypes
  <2>2. RxNext # rx_in BY <2>1, WrapNext, DriverAssumption DEF RxNext, Next1, Index
  <2> QED BY <2>2 DEF UartInv, ReadInv, ArmInv, ReaderArmed, RxFull
<1> QED BY <1>1, <1>2, <1>3 DEF InterruptsArmed

(***************************************************************************)
(* Nobody waits for an interrupt that is off.                              *)
(***************************************************************************)
THEOREM NobodyWaitsInVain == UartSpec => []InterruptsArmed
  BY ArmedIs, UartInvariant, PTL

-----------------------------------------------------------------------------
(***************************************************************************)
(* Both directions are byte streams.  What is under way is a run of        *)
(* consecutive numbers, so a step is told by its first number and length.  *)
(***************************************************************************)
Run(from, len) == [i \in 1 .. len |-> Num(from + i - 1)]

LEMMA RunIs ==
  ASSUME NEW from \in Int, NEW len \in Nat
  PROVE  /\ Run(from, len) \in Seq(Byte) /\ Len(Run(from, len)) = len
         /\ \A i \in 1 .. len : Run(from, len)[i] = Num(from + i - 1)
<1>1. \A i \in 1 .. len : Num(from + i - 1) \in Byte BY NumType
<1> QED BY <1>1 DEF Run

\* A sequence is a run if it has the length and the elements of one.
LEMMA IsRun ==
  ASSUME NEW s \in Seq(Byte), NEW from \in Int, NEW len \in Nat, Len(s) = len,
         \A i \in 1 .. len : s[i] = Num(from + i - 1)
  PROVE  s = Run(from, len)
<1>1. s = [i \in 1 .. Len(s) |-> s[i]] OBVIOUS
<1> QED BY <1>1 DEF Run

LEMMA RunSplit ==
  ASSUME NEW from \in Int, NEW len \in Nat, NEW k \in Nat
  PROVE  Run(from, len + k) = Run(from, len) \o Run(Num(from + len), k)
<1> DEFINE a == Run(from, len)
           b == Run(Num(from + len), k)
<1>0. Num(from + len) \in Int
  <2>1. Num(from + len) \in Byte BY NumType
  <2> QED BY <2>1, DeviceAssumption DEF Byte
<1>1. a \in Seq(Byte) /\ Len(a) = len /\ \A i \in 1 .. len : a[i] = Num(from + i - 1)
  BY RunIs
<1>2. /\ b \in Seq(Byte) /\ Len(b) = k
      /\ \A i \in 1 .. k : b[i] = Num(Num(from + len) + i - 1)
  BY <1>0, RunIs
<1> HIDE DEF a, b
<1>3. /\ a \o b \in Seq(Byte) /\ Len(a \o b) = len + k
      /\ \A i \in 1 .. len : (a \o b)[i] = a[i]
      /\ \A i \in 1 .. k : (a \o b)[len + i] = b[i]
  BY <1>1, <1>2, ConcatOf
<1>4. \A i \in 1 .. k : (a \o b)[len + i] = Num(from + (len + i) - 1)
  <2> TAKE i \in 1 .. k
  <2>1. Num(Num(from + len) + (i - 1)) = Num(from + len + (i - 1)) BY NumAdd
  <2>2. Num(from + len) + (i - 1) = Num(from + len) + i - 1
        /\ from + len + (i - 1) = from + (len + i) - 1
    BY <1>0
  <2> QED BY <1>2, <1>3, <2>1, <2>2
<1>5. \A i \in 1 .. len + k : (a \o b)[i] = Num(from + i - 1)
  <2> TAKE i \in 1 .. len + k
  <2>1. CASE i \in 1 .. len BY <1>1, <1>3, <2>1
  <2>2. CASE i - len \in 1 .. k
    <3>1. len + (i - len) = i OBVIOUS
    <3> QED BY <1>4, <2>2, <3>1
  <2>3. i \in 1 .. len \/ i - len \in 1 .. k OBVIOUS
  <2> QED BY <2>1, <2>2, <2>3
<1>6. a \o b = Run(from, len + k)
  <2>1. len + k \in Nat OBVIOUS
  <2> QED BY <1>3, <1>5, <2>1, IsRun
<1> QED BY <1>6 DEF a, b

LEMMA RunDrop ==
  ASSUME NEW from \in Int, NEW len \in Nat, NEW k \in Nat, k <= len
  PROVE  /\ SubSeq(Run(from, len), 1, k) = Run(from, k)
         /\ SubSeq(Run(from, len), k + 1, len) = Run(Num(from + k), len - k)
<1> DEFINE a == Run(from, len)
<1>0. Num(from + k) \in Int
  <2>1. Num(from + k) \in Byte BY NumType
  <2> QED BY <2>1, DeviceAssumption DEF Byte
<1>1. a \in Seq(Byte) /\ Len(a) = len /\ \A i \in 1 .. len : a[i] = Num(from + i - 1)
  BY RunIs
<1> HIDE DEF a
<1>2. /\ SubSeq(a, 1, k) \in Seq(Byte) /\ Len(SubSeq(a, 1, k)) = k
      /\ \A i \in 1 .. k : SubSeq(a, 1, k)[i] = a[i]
  BY <1>1
<1>3. /\ SubSeq(a, k + 1, len) \in Seq(Byte) /\ Len(SubSeq(a, k + 1, len)) = len - k
      /\ \A i \in 1 .. len - k : SubSeq(a, k + 1, len)[i] = a[k + i]
  BY <1>1
<1>4. SubSeq(a, 1, k) = Run(from, k)
  <2>1. \A i \in 1 .. k : SubSeq(a, 1, k)[i] = Num(from + i - 1) BY <1>1, <1>2
  <2> QED BY <1>2, <2>1, IsRun
<1>5. SubSeq(a, k + 1, len) = Run(Num(from + k), len - k)
  <2>1. \A i \in 1 .. len - k : SubSeq(a, k + 1, len)[i] = Num(Num(from + k) + i - 1)
    <3> TAKE i \in 1 .. len - k
    <3>1. k + i \in 1 .. len OBVIOUS
    <3>2. SubSeq(a, k + 1, len)[i] = Num(from + (k + i) - 1) BY <1>1, <1>3, <3>1
    <3>3. Num(Num(from + k) + (i - 1)) = Num(from + k + (i - 1)) BY NumAdd
    <3>4. Num(from + k) + (i - 1) = Num(from + k) + i - 1
          /\ from + k + (i - 1) = from + (k + i) - 1
      BY <1>0
    <3> QED BY <3>2, <3>3, <3>4
  <2>2. len - k \in Nat OBVIOUS
  <2> QED BY <1>0, <1>3, <2>1, <2>2, IsRun
<1> QED BY <1>4, <1>5 DEF a

\* What lies between two indexes.
LEMMA SegmentIs ==
  ASSUME NEW out \in Index, NEW in \in Index, NEW buf \in [Index -> Byte]
  PROVE  /\ Segment(buf, out, in) \in Seq(Byte)
         /\ Len(Segment(buf, out, in)) = Dist(out, in)
         /\ \A i \in 1 .. Dist(out, in) : \E p \in Index :
              Dist(out, p) = i - 1 /\ Segment(buf, out, in)[i] = buf[p]
<1>0. BufLen \in Nat /\ BufLen > 1 /\ Dist(out, in) \in 0 .. BufLen - 1 /\ out \in Nat
  <2>1. Dist(out, in) \in Index BY DistIs
  <2> QED BY <2>1, DriverAssumption DEF Index
<1>1. PICK d \in 0 .. BufLen - 1 : d = Dist(out, in) BY <1>0
<1>2. Segment(buf, out, in) = [i \in 1 .. d |-> buf[(out + i - 1) % BufLen]]
  BY <1>1, DistIs DEF Segment
<1>3. \A i \in 1 .. d : (out + i - 1) % BufLen \in Index /\ Dist(out, (out + i - 1) % BufLen) = i - 1
  <2> TAKE i \in 1 .. d
  <2>1. i - 1 \in 0 .. BufLen - 1 /\ out + (i - 1) = out + i - 1 BY <1>0
  <2> QED BY <2>1, DistAt
<1>4. \A i \in 1 .. d : buf[(out + i - 1) % BufLen] \in Byte BY <1>3
<1>5. Segment(buf, out, in) \in Seq(Byte) /\ Len(Segment(buf, out, in)) = d
  BY <1>0, <1>2, <1>4
<1>6. \A i \in 1 .. d : Segment(buf, out, in)[i] = buf[(out + i - 1) % BufLen] BY <1>2
<1> QED BY <1>1, <1>3, <1>5, <1>6

\* To the host: TxLeft bytes from hostDue on.
TxLeft == Len(txFifo) + TxHeld

LEMMA TxQueueIs ==
  ASSUME UartInv
  PROVE  /\ TxQueue = Run(hostDue, TxLeft)
         /\ TxSent = Num(hostDue + TxLeft)
         /\ TxLeft \in 0 .. FifoDepth + BufLen - 1
<1>1. /\ txFifo \in Seq(Byte) /\ Len(txFifo) \in Nat /\ hostDue \in Nat
      /\ Len(txFifo) <= FifoDepth /\ TxHeld \in Nat
      /\ tx_in \in Index /\ tx_out \in Index /\ tx_buf \in [Index -> Byte]
      /\ TxInv /\ TxBytesInv
  BY TxTypes
<1>2. TxHeld < BufLen
  <2>1. TxHeld \in Index BY <1>1, DistIs DEF TxHeld
  <2> QED BY <2>1, DriverAssumption DEF Index
<1> DEFINE rest == Segment(tx_buf, tx_out, tx_in)
<1>3. /\ rest \in Seq(Byte) /\ Len(rest) = TxHeld
      /\ \A i \in 1 .. TxHeld : \E p \in Index :
           Dist(tx_out, p) = i - 1 /\ rest[i] = tx_buf[p]
  BY <1>1, SegmentIs DEF TxHeld
<1> HIDE DEF rest
<1>4. /\ txFifo \o rest \in Seq(Byte) /\ Len(txFifo \o rest) = TxLeft
      /\ \A i \in 1 .. Len(txFifo) : (txFifo \o rest)[i] = txFifo[i]
      /\ \A i \in 1 .. TxHeld : (txFifo \o rest)[Len(txFifo) + i] = rest[i]
  BY <1>1, <1>3, ConcatOf DEF TxLeft
<1>5. \A i \in 1 .. TxHeld : rest[i] = Num(hostDue + (Len(txFifo) + i) - 1)
  <2> TAKE i \in 1 .. TxHeld
  <2>1. PICK p \in Index : Dist(tx_out, p) = i - 1 /\ rest[i] = tx_buf[p] BY <1>3
  <2>2. Dist(tx_out, p) < TxHeld BY <1>1, <2>1
  <2>3. rest[i] = Num(hostDue + Len(txFifo) + (i - 1)) BY <1>1, <2>1, <2>2 DEF TxBytesInv
  <2>4. hostDue + Len(txFifo) + (i - 1) = hostDue + (Len(txFifo) + i) - 1 BY <1>1
  <2> QED BY <2>3, <2>4
<1>6. TxLeft \in Nat BY <1>1 DEF TxLeft
<1>7. \A i \in 1 .. TxLeft : (txFifo \o rest)[i] = Num(hostDue + i - 1)
  <2> TAKE i \in 1 .. TxLeft
  <2>0. i \in Int /\ TxLeft = Len(txFifo) + TxHeld BY <1>6 DEF TxLeft
  <2>1. CASE i \in 1 .. Len(txFifo) BY <1>1, <1>4, <2>1 DEF TxInv
  <2>2. CASE i - Len(txFifo) \in 1 .. TxHeld
    <3>1. Len(txFifo) + (i - Len(txFifo)) = i BY <1>1, <2>0
    <3> QED BY <1>4, <1>5, <2>2, <3>1
  <2>3. i \in 1 .. Len(txFifo) \/ i - Len(txFifo) \in 1 .. TxHeld BY <1>1, <2>0
  <2> QED BY <2>1, <2>2, <2>3
<1>8. txFifo \o rest = Run(hostDue, TxLeft)
  <2>1. hostDue \in Int BY <1>1
  <2>2. txFifo \o rest \in Seq(Byte) /\ Len(txFifo \o rest) = TxLeft BY <1>4
  <2> QED BY <1>6, <1>7, <2>1, <2>2, IsRun
<1>9. TxSent = Num(hostDue + TxLeft)
  <2>1. hostDue + Len(txFifo) + TxHeld = hostDue + (Len(txFifo) + TxHeld) BY <1>1
  <2> QED BY <1>1, <2>1 DEF TxInv, TxLeft
<1>10. TxLeft \in 0 .. FifoDepth + BufLen - 1
  BY <1>1, <1>2, <1>6, DeviceAssumption, DriverAssumption DEF TxLeft
<1> QED BY <1>8, <1>9, <1>10 DEF TxQueue, rest

\* To the program: RxLeft bytes from RxReceived on.
RxLeft == Dist(RxTaken, rx_in) + Len(rxFifo)

LEMMA RxTakenIs ==
  ASSUME UartInv
  PROVE  /\ RxTaken \in Index
         /\ Len(buffer) - RxDone \in Nat
         /\ Dist(RxTaken, rx_in) = RxHeld - (Len(buffer) - RxDone)
         /\ \A p \in Index : Dist(RxTaken, p) < Dist(RxTaken, rx_in)
              => Dist(rx_out, p) = Dist(RxTaken, p) + (Len(buffer) - RxDone)
<1>1. /\ rx_in \in Index /\ rx_out \in Index /\ n \in Nat /\ done \in Nat /\ RxHeld \in Nat
      /\ Len(buffer) \in Nat /\ RxDone \in Nat /\ ReadInv
      /\ \A p \in Index : Dist(rx_out, p) \in Nat
  BY RxTypes, DistIs
<1>2. CASE call = "r_take"
  <2>1. n > 0 /\ rx_out + n <= BufLen /\ n <= RxHeld /\ Len(buffer) - RxDone = n
    BY <1>1, <1>2 DEF ReadInv, RxDone, Reading
  <2>2. RxTaken = (rx_out + n) % BufLen BY <1>2 DEF RxTaken
  <2>3. /\ Dist(RxTaken, rx_in) = RxHeld - n
        /\ \A p \in Index : Dist(RxTaken, p) < RxHeld - n
             => Dist(rx_out, p) = Dist(RxTaken, p) + n
    BY <1>1, <2>1, <2>2, DistTake DEF RxHeld
  <2>4. RxTaken \in Index
    BY <1>1, <2>1, <2>2, Wrap, DriverAssumption DEF Index
  <2> QED BY <1>1, <2>1, <2>3, <2>4
<1>3. CASE call # "r_take"
  <2>1. RxTaken = rx_out /\ Len(buffer) - RxDone = 0
    BY <1>1, <1>3 DEF RxTaken, ReadInv
  <2> QED BY <1>1, <2>1 DEF RxHeld
<1> QED BY <1>2, <1>3

LEMMA RxQueueIs ==
  ASSUME UartInv
  PROVE  /\ RxReceived \in Byte
         /\ RxQueue = Run(RxReceived, RxLeft)
         /\ hostPos = Num(RxReceived + RxLeft)
         /\ RxLeft \in 0 .. FifoDepth + BufLen - 1
<1>1. /\ rxFifo \in Seq(Byte) /\ Len(rxFifo) \in Nat /\ rxPos \in Nat
      /\ Len(rxFifo) <= FifoDepth /\ RxHeld \in Nat /\ RxDone \in Nat /\ Len(buffer) \in Nat
      /\ rx_in \in Index /\ rx_out \in Index /\ rx_buf \in [Index -> Byte]
      /\ RxInv
  BY RxTypes
<1>2. RxReceived = Num(rxPos + Len(buffer)) /\ RxReceived \in Byte /\ RxReceived \in Int
  <2>1. rxPos + Len(buffer) \in Int BY <1>1
  <2>2. Num(rxPos + Len(buffer)) \in Byte BY <2>1, NumType
  <2> QED BY <2>2, DeviceAssumption DEF RxReceived, Num, Byte
<1>a. \A x \in Int : Num(RxReceived + x) = Num(rxPos + Len(buffer) + x)
  BY <1>1, <1>2, NumAdd
<1> DEFINE held == Dist(RxTaken, rx_in)
           rest == Segment(rx_buf, RxTaken, rx_in)
           ahead == Len(buffer) - RxDone
<1>3. RxTaken \in Index /\ ahead \in Nat /\ held = RxHeld - ahead
      /\ held \in Nat /\ held < BufLen
      /\ \A p \in Index : Dist(RxTaken, p) < held => Dist(rx_out, p) = Dist(RxTaken, p) + ahead
  <2>1. RxTaken \in Index /\ held \in Index BY <1>1, RxTakenIs, DistIs
  <2>2. held \in Nat /\ held < BufLen BY <2>1, DriverAssumption DEF Index
  <2> QED BY <2>1, <2>2, RxTakenIs
<1>4. /\ rest \in Seq(Byte) /\ Len(rest) = held
      /\ \A i \in 1 .. held : \E p \in Index :
           Dist(RxTaken, p) = i - 1 /\ rest[i] = rx_buf[p]
  BY <1>1, <1>3, SegmentIs
<1>5. \A i \in 1 .. held : rest[i] = Num(RxReceived + i - 1)
  <2> HIDE DEF held
  <2> TAKE i \in 1 .. held
  <2>1. PICK p \in Index : Dist(RxTaken, p) = i - 1 /\ rest[i] = rx_buf[p] BY <1>4
  <2>2. Dist(rx_out, p) = i - 1 + ahead BY <1>3, <2>1
  <2>3. i - 1 + ahead < RxHeld BY <1>1, <1>3
  <2>4. rest[i] = Num(rxPos + RxDone + (i - 1 + ahead))
    BY <1>1, <2>1, <2>2, <2>3 DEF RxInv
  <2>5. rxPos + RxDone + (i - 1 + ahead) = rxPos + Len(buffer) + (i - 1) BY <1>1, <1>3
  <2>6. RxReceived + (i - 1) = RxReceived + i - 1 BY <1>2
  <2> QED BY <1>a, <2>4, <2>5, <2>6
<1> HIDE DEF rest, held, ahead
<1>6. /\ rest \o rxFifo \in Seq(Byte) /\ Len(rest \o rxFifo) = held + Len(rxFifo)
      /\ \A i \in 1 .. held : (rest \o rxFifo)[i] = rest[i]
      /\ \A i \in 1 .. Len(rxFifo) : (rest \o rxFifo)[held + i] = rxFifo[i]
  BY <1>1, <1>4, ConcatOf
<1>7. \A i \in 1 .. Len(rxFifo) : rxFifo[i] = Num(RxReceived + (held + i) - 1)
  <2> TAKE i \in 1 .. Len(rxFifo)
  <2>1. rxFifo[i] = Num(rxPos + RxDone + RxHeld + i - 1) BY <1>1 DEF RxInv
  <2>2. Len(buffer) = ahead + RxDone BY <1>1 DEF ahead
  <2>3. rxPos + RxDone + RxHeld + i - 1 = rxPos + Len(buffer) + (held + i - 1)
    BY <1>1, <1>3, <2>2
  <2>4. RxReceived + (held + i - 1) = RxReceived + (held + i) - 1 BY <1>2, <1>3
  <2>5. held + i - 1 \in Int BY <1>3
  <2> QED BY <1>a, <2>1, <2>3, <2>4, <2>5
<1>8. \A i \in 1 .. held + Len(rxFifo) : (rest \o rxFifo)[i] = Num(RxReceived + i - 1)
  <2> TAKE i \in 1 .. held + Len(rxFifo)
  <2>0. i \in Int BY <1>1, <1>3
  <2>1. CASE i \in 1 .. held BY <1>5, <1>6, <2>1
  <2>2. CASE i - held \in 1 .. Len(rxFifo)
    <3>1. held + (i - held) = i BY <1>3, <2>0
    <3> QED BY <1>6, <1>7, <2>2, <3>1
  <2>3. i \in 1 .. held \/ i - held \in 1 .. Len(rxFifo) BY <1>1, <1>3, <2>0
  <2> QED BY <2>1, <2>2, <2>3
<1>9. RxLeft = held + Len(rxFifo) /\ RxLeft \in Nat BY <1>1, <1>3 DEF RxLeft, held
<1>10. rest \o rxFifo = Run(RxReceived, RxLeft) BY <1>2, <1>6, <1>8, <1>9, IsRun
<1>11. hostPos = Num(RxReceived + RxLeft)
  <2>1. hostPos = Num(rxPos + RxDone + RxHeld + Len(rxFifo)) BY <1>1 DEF RxInv
  <2>2. Len(buffer) = ahead + RxDone BY <1>1 DEF ahead
  <2>3. rxPos + RxDone + RxHeld + Len(rxFifo) = rxPos + Len(buffer) + RxLeft
    BY <1>1, <1>3, <1>9, <2>2
  <2> QED BY <1>a, <1>9, <2>1, <2>3
<1>12. RxLeft \in 0 .. FifoDepth + BufLen - 1
  BY <1>1, <1>3, <1>9, DeviceAssumption, DriverAssumption
<1> QED BY <1>2, <1>10, <1>11, <1>12 DEF RxQueue, rest

Queues ==
  /\ TxQueue = Run(hostDue, TxLeft) /\ TxSent = Num(hostDue + TxLeft)
  /\ TxLeft \in 0 .. FifoDepth + BufLen - 1 /\ hostDue \in Byte
  /\ RxQueue = Run(RxReceived, RxLeft) /\ hostPos = Num(RxReceived + RxLeft)
  /\ RxLeft \in 0 .. FifoDepth + BufLen - 1 /\ RxReceived \in Byte

LEMMA QueuesAre == UartInv => Queues
  BY TxQueueIs, RxQueueIs DEF Queues, UartInv, UartTypeOK, DeviceTypeOK

LEMMA QueuesAreNext == UartInv' => Queues'
  BY QueuesAre, PTL

\* How a step changes what is under way to the host.
LEMMA TxMove ==
  ASSUME UartInv, [UartNext]_uartVars
  PROVE  \/ hostDue' = hostDue /\ TxLeft' = TxLeft
         \/ \E k \in Nat : k > 0 /\ hostDue' = hostDue /\ TxLeft' = TxLeft + k
         \/ hostDue' = Num(hostDue + 1) /\ TxLeft >= 1 /\ TxLeft' = TxLeft - 1
<1> USE DEF deviceVars, txVars, rxVars, hostVars, isrVars, callVars
<1>1. /\ txFifo \in Seq(Byte) /\ Len(txFifo) \in Nat /\ hostDue \in Nat
      /\ Len(txFifo) <= FifoDepth /\ TxHeld \in Nat /\ n \in Nat
      /\ tx_in \in Index /\ tx_out \in Index /\ tx_buf \in [Index -> Byte]
      /\ WriteInv /\ SpaceInv
  BY TxTypes
<1>2. CASE UNCHANGED <<txFifo, hostDue, tx_in, tx_out>>
  BY <1>2 DEF TxLeft, TxHeld, Dist
<1>3. CASE HostTake /\ UNCHANGED driverVars
  <2>1. hostDue' = Num(hostDue + 1) /\ Len(txFifo') = Len(txFifo) - 1 /\ Len(txFifo) >= 1
    BY <1>1, <1>3, TailOf DEF HostTake, Num
  <2>2. TxHeld' = TxHeld BY <1>3 DEF driverVars, TxHeld, Dist
  <2> QED BY <1>1, <2>1, <2>2 DEF TxLeft
<1>4. CASE IsrTxByte
  <2>1. /\ control.space > 0 /\ tx_out # tx_in /\ hostDue' = hostDue
        /\ tx_out' = Next1(tx_out) /\ tx_in' = tx_in /\ control.space <= WSpace
        /\ control.space \in Nat
    BY <1>1, <1>4, WrapNext, DeviceAssumption DEF IsrTxByte, SpaceInv, UartInv, UartTypeOK
  <2>2. TxHeld' = TxHeld - 1 BY <1>1, <2>1, DistStep DEF TxHeld, Dist
  <2>3. WSpace > 0
    <3>1. WSpace \in Int BY <1>1, DeviceAssumption DEF WSpace
    <3> QED BY <2>1, <3>1
  <2>4. tx_buf[tx_out] \in Byte BY <1>1
  <2>5. Len(txFifo') = Len(txFifo) + 1
    BY <1>1, <1>4, <2>3, <2>4, AppendOf DEF IsrTxByte, WriteDataReg
  <2> QED BY <1>1, <2>1, <2>2, <2>5 DEF TxLeft
<1>5. CASE WritePut
  <2>1. /\ n > 0 /\ tx_in + n <= BufLen /\ TxHeld + n < BufLen
        /\ tx_in' = (tx_in + n) % BufLen /\ UNCHANGED <<txFifo, hostDue, tx_out>>
    BY <1>1, <1>5 DEF WritePut, WriteInv
  <2>2. TxHeld' = Dist(tx_out, (tx_in + n) % BufLen) BY <2>1 DEF TxHeld, Dist
  <2>3. TxHeld' = TxHeld + n BY <1>1, <2>1, <2>2, DistPiece DEF TxHeld
  <2>4. TxLeft' = TxLeft + n BY <1>1, <2>1, <2>3 DEF TxLeft
  <2> QED BY <1>1, <2>1, <2>4
<1> QED BY <1>2, <1>3, <1>4, <1>5, StepCases, ZenonT(30)
        DEF uartVars, driverVars, HostSend, HostPause, HostPlug, IrqTaken, Timeout,
            IsrControl, IsrRxFull, IsrRxByte, IsrTxEnd,
            Write, Read, Close, Begin, SetTimeout, GetConnected,
            WriteRoom, WriteCopy, WriteKick, WriteSpin, WriteCheck,
            ReadData, ReadCopy, ReadTake, ReadSpin, ReadCheck, ReadEnd, CloseWait

LEMMA RxTakenNext ==
  UartInv' => Dist(RxTaken', rx_in') = RxHeld' - (Len(buffer') - RxDone')
<1>1. UartInv => Dist(RxTaken, rx_in) = RxHeld - (Len(buffer) - RxDone) BY RxTakenIs
<1>2. (UartInv => Dist(RxTaken, rx_in) = RxHeld - (Len(buffer) - RxDone))' BY <1>1, PTL
<1> QED BY <1>2 DEF Dist

\* How a step changes what is under way to the program.
LEMMA RxMove ==
  ASSUME UartInv, UartInv', [UartNext]_uartVars
  PROVE  \/ RxReceived' = RxReceived /\ RxLeft' = RxLeft
         \/ RxReceived' = RxReceived /\ RxLeft' = RxLeft + 1
         \/ \E k \in Nat : /\ k > 0 /\ k <= RxLeft
                           /\ RxReceived' = Num(RxReceived + k)
                           /\ RxLeft' = RxLeft - k
<1> USE DEF deviceVars, txVars, rxVars, hostVars, isrVars, callVars
<1>1. /\ rxFifo \in Seq(Byte) /\ Len(rxFifo) \in Nat /\ rxPos \in Nat
      /\ RxHeld \in Nat /\ RxDone \in Nat /\ Len(buffer) \in Nat /\ buffer \in Seq(Byte)
      /\ rx_in \in Index /\ rx_out \in Index /\ n \in Nat /\ done \in Nat
      /\ ReadInv
  BY RxTypes
<1>2. RxLeft = RxHeld - (Len(buffer) - RxDone) + Len(rxFifo)
  BY RxTakenIs DEF RxLeft
<1>3. RxLeft' = RxHeld' - (Len(buffer') - RxDone') + Len(rxFifo')
  BY RxTakenNext DEF RxLeft, Dist
<1>4. RxReceived = Num(rxPos + Len(buffer)) /\ RxReceived' = Num(rxPos' + Len(buffer'))
  BY DEF RxReceived, Num
<1>5. CASE UNCHANGED <<rxFifo, rx_in, rx_out, rxPos, buffer>> /\ RxDone' = RxDone
  <2>1. RxHeld' = RxHeld BY <1>5 DEF RxHeld, Dist
  <2> QED BY <1>2, <1>3, <1>4, <1>5, <2>1
<1>6. CASE HostSend /\ UNCHANGED driverVars
  <2>1. UNCHANGED <<rx_in, rx_out, rxPos, buffer, call, done>> BY <1>6 DEF driverVars
  <2>2. RxHeld' = RxHeld /\ RxDone' = RxDone BY <2>1 DEF RxHeld, Dist, RxDone, Reading
  <2>3. hostPos \in Byte BY DEF UartInv, UartTypeOK, DeviceTypeOK
  <2>4. Len(rxFifo') = Len(rxFifo) + 1 BY <1>1, <1>6, <2>3, AppendOf DEF HostSend
  <2>5. RxLeft' = RxLeft + 1 BY <1>1, <1>2, <1>3, <2>1, <2>2, <2>4
  <2> QED BY <1>4, <2>1, <2>5
<1>7. CASE IsrRxByte /\ rxFifo # <<>>
  <2>1. UNCHANGED <<rx_out, rxPos, buffer, call, done>> BY <1>7 DEF IsrRxByte
  <2>2. rx_in' = Next1(rx_in) /\ Next1(rx_in) # rx_out
    BY <1>1, <1>7, WrapNext DEF IsrRxByte, RxNext, RxFull
  <2>3. RxHeld' = RxHeld + 1 BY <1>1, <2>1, <2>2, DistGrow DEF RxHeld, Dist
  <2>4. Len(rxFifo') = Len(rxFifo) - 1 BY <1>1, <1>7, TailOf DEF IsrRxByte, ReadDataReg
  <2>5. RxDone' = RxDone BY <2>1 DEF RxDone, Reading
  <2>6. RxLeft' = RxLeft BY <1>1, <1>2, <1>3, <2>1, <2>3, <2>4, <2>5
  <2> QED BY <1>4, <2>1, <2>6
<1>8. CASE Read
  <2>1. UNCHANGED <<rxFifo, rx_in, rx_out, rxPos, buffer>> BY <1>8 DEF Read, Begin
  <2>2. RxDone = 0 /\ RxDone' = 0
    BY <1>8 DEF Read, Begin, RxDone, Reading, UartInv, CallInv
  <2> QED BY <1>5, <2>1, <2>2
<1>9. CASE ReadCopy
  <2>1. /\ UNCHANGED <<rxFifo, rx_in, rx_out, rxPos>> /\ RxDone = done /\ RxDone' = done
        /\ n > 0 /\ n <= RxHeld /\ Len(buffer) = done
    BY <1>1, <1>9 DEF ReadCopy, RxDone, Reading, ReadInv
  <2>2. Len(buffer') = done + n
    <3>1. call' = "r_take" /\ n' = n /\ done' = done BY <1>9 DEF ReadCopy
    <3> QED BY <3>1 DEF UartInv, ReadInv
  <2>3. RxHeld' = RxHeld BY <2>1 DEF RxHeld, Dist
  <2>4. RxLeft' = RxLeft - n /\ n <= RxLeft BY <1>1, <1>2, <1>3, <2>1, <2>2, <2>3
  <2>5. RxReceived' = Num(RxReceived + n)
    <3>1. Num(Num(rxPos + Len(buffer)) + n) = Num(rxPos + Len(buffer) + n) BY <1>1, NumAdd
    <3>2. rxPos + Len(buffer) + n = rxPos + (done + n) BY <1>1, <2>1
    <3> QED BY <1>4, <2>1, <2>2, <3>1, <3>2
  <2> QED BY <1>1, <2>1, <2>4, <2>5
<1>10. CASE ReadTake
  <2>1. /\ UNCHANGED <<rxFifo, rx_in, rxPos, buffer>> /\ RxDone = done /\ RxDone' = done + n
        /\ n > 0 /\ n <= RxHeld /\ rx_out + n <= BufLen
        /\ rx_out' = (rx_out + n) % BufLen
    BY <1>1, <1>10 DEF ReadTake, RxDone, Reading, ReadInv
  <2>2. RxHeld' = Dist((rx_out + n) % BufLen, rx_in) BY <2>1 DEF RxHeld, Dist
  <2>3. RxHeld' = RxHeld - n BY <1>1, <2>1, <2>2, DistTake DEF RxHeld
  <2>4. RxLeft' = RxLeft BY <1>1, <1>2, <1>3, <2>1, <2>3
  <2> QED BY <1>4, <2>1, <2>4
<1>11. CASE ReadEnd
  <2>1. /\ UNCHANGED <<rxFifo, rx_in, rx_out>> /\ RxDone = done /\ RxDone' = 0
        /\ rxPos' = Num(rxPos + done) /\ Len(buffer') = 0 /\ Len(buffer) = done
    BY <1>1, <1>11 DEF ReadEnd, RxDone, Reading, ReadInv, Num
  <2>2. RxHeld' = RxHeld BY <2>1 DEF RxHeld, Dist
  <2>3. RxLeft' = RxLeft BY <1>1, <1>2, <1>3, <2>1, <2>2
  <2>4. RxReceived' = RxReceived
    <3>1. Num(Num(rxPos + done) + 0) = Num(rxPos + done + 0) BY <1>1, NumAdd
    <3>2. rxPos + done + 0 = rxPos + done BY <1>1
    <3> QED BY <1>4, <2>1, <3>1, <3>2
  <2> QED BY <2>3, <2>4
<1>12. CASE ReadData \/ ReadSpin \/ ReadCheck
  <2>1. /\ UNCHANGED <<rxFifo, rx_in, rx_out, rxPos, buffer>>
        /\ RxDone = done /\ RxDone' = done
    BY <1>12 DEF ReadData, ReadSpin, ReadCheck, RxDone, Reading
  <2> QED BY <1>5, <2>1
<1>13. CASE \/ Write \/ Close \/ SetTimeout \/ GetConnected \/ CloseWait
            \/ WriteRoom \/ WriteCopy \/ WritePut \/ WriteKick \/ WriteSpin \/ WriteCheck
  <2>1. /\ UNCHANGED <<rxFifo, rx_in, rx_out, rxPos, buffer>> /\ ~Reading /\ ~Reading'
    BY <1>13 DEF Write, Close, Begin, SetTimeout, GetConnected, CloseWait, Reading,
       WriteRoom, WriteCopy, WritePut, WriteKick, WriteSpin, WriteCheck, WriteReturn
  <2> QED BY <1>5, <2>1 DEF RxDone
<1>14. CASE UNCHANGED <<rxFifo, rx_in, rx_out, rxPos, buffer, call, done>>
  BY <1>5, <1>14 DEF RxDone, Reading
<1> QED BY <1>6, <1>7, <1>8, <1>9, <1>10, <1>11, <1>12, <1>13, <1>14, StepCases, ZenonT(30)
        DEF uartVars, driverVars, HostTake, HostPause, HostPlug, IrqTaken, Timeout,
            IsrControl, IsrRxFull, IsrRxByte, IsrTxByte, IsrTxEnd, ReadDataReg

-----------------------------------------------------------------------------
\* A run that grows, or shrinks, is what ByteStream says of Send and Receive.
LEMMA NumbersAre ==
  ASSUME NEW from, NEW len
  PROVE  Tx!Numbers(from, len) = Run(from, len) /\ Rx!Numbers(from, len) = Run(from, len)
  BY DEF Tx!Numbers, Rx!Numbers, Run, Num

LEMMA TxStream ==
  ASSUME FifoDepth + BufLen <= Streams, UartInv, UartInv', [UartNext]_uartVars
  PROVE  [Tx!StreamNext]_(Tx!streamVars)
<1>1. /\ TxQueue = Run(hostDue, TxLeft) /\ TxSent = Num(hostDue + TxLeft)
      /\ TxLeft \in Nat /\ TxLeft < Streams /\ hostDue \in Int
  <2>1. Queues BY QueuesAre
  <2>2. FifoDepth \in Nat /\ BufLen \in Nat /\ Streams \in Nat
    BY DeviceAssumption, DriverAssumption
  <2>3. hostDue \in Int BY <2>1, DeviceAssumption DEF Queues, Byte
  <2> QED BY <2>1, <2>2, <2>3 DEF Queues
<1>2. /\ TxQueue' = Run(hostDue', TxLeft') /\ TxSent' = Num(hostDue' + TxLeft')
      /\ TxLeft' \in Nat /\ TxLeft' < Streams
  <2>1. Queues' BY QueuesAreNext
  <2>2. FifoDepth \in Nat /\ BufLen \in Nat /\ Streams \in Nat
    BY DeviceAssumption, DriverAssumption
  <2> QED BY <2>1, <2>2 DEF Queues
<1>3. Len(TxQueue) = TxLeft BY <1>1, RunIs
<1>4. CASE hostDue' = hostDue /\ TxLeft' = TxLeft
  BY <1>1, <1>2, <1>4 DEF Tx!streamVars
<1>5. ASSUME NEW k \in Nat, k > 0, hostDue' = hostDue, TxLeft' = TxLeft + k
      PROVE  Tx!StreamNext
  <2>1. k \in 1 .. Streams - 1 BY <1>1, <1>2, <1>5, DeviceAssumption
  <2>2. TxQueue' = TxQueue \o Tx!Numbers(TxSent, k)
    <3>1. Run(hostDue, TxLeft + k) = Run(hostDue, TxLeft) \o Run(Num(hostDue + TxLeft), k)
      BY <1>1, <1>5, RunSplit
    <3> QED BY <1>1, <1>2, <1>5, <3>1, NumbersAre
  <2>3. TxSent' = (TxSent + k) % Streams
    <3>1. Num(Num(hostDue + TxLeft) + k) = Num(hostDue + TxLeft + k) BY <1>1, NumAdd
    <3>2. hostDue + TxLeft + k = hostDue + (TxLeft + k) BY <1>1
    <3> QED BY <1>1, <1>2, <1>5, <3>1, <3>2 DEF Num
  <2>4. Len(TxQueue) + k < Streams BY <1>2, <1>3, <1>5
  <2>5. Tx!Send(k) BY <1>5, <2>2, <2>3, <2>4 DEF Tx!Send
  <2> QED BY <2>1, <2>5 DEF Tx!StreamNext
<1>6. CASE hostDue' = Num(hostDue + 1) /\ TxLeft >= 1 /\ TxLeft' = TxLeft - 1
  <2>1. 1 \in 1 .. Streams - 1 BY DeviceAssumption
  <2>2. /\ SubSeq(TxQueue, 1, 1) = Tx!Numbers(hostDue, 1)
        /\ TxQueue' = SubSeq(TxQueue, 2, Len(TxQueue))
    <3>1. /\ SubSeq(Run(hostDue, TxLeft), 1, 1) = Run(hostDue, 1)
          /\ SubSeq(Run(hostDue, TxLeft), 1 + 1, TxLeft) = Run(Num(hostDue + 1), TxLeft - 1)
      BY <1>1, <1>6, RunDrop, ZenonT(30)
    <3>2. 1 + 1 = 2 OBVIOUS
    <3> QED BY <1>1, <1>2, <1>3, <1>6, <3>1, <3>2, NumbersAre
  <2>3. TxSent' = TxSent
    <3>1. Num(Num(hostDue + 1) + (TxLeft - 1)) = Num(hostDue + 1 + (TxLeft - 1))
      BY <1>1, NumAdd
    <3>2. hostDue + 1 + (TxLeft - 1) = hostDue + TxLeft BY <1>1
    <3> QED BY <1>1, <1>2, <1>6, <3>1, <3>2
  <2>4. hostDue' = (hostDue + 1) % Streams BY <1>6 DEF Num
  <2>5. Tx!Receive(1)
    <3>1. 1 <= Len(TxQueue) /\ 1 + 1 = 2 BY <1>3, <1>6
    <3> QED BY <2>2, <2>3, <2>4, <3>1 DEF Tx!Receive
  <2> QED BY <2>1, <2>5 DEF Tx!StreamNext
<1> QED BY <1>4, <1>5, <1>6, TxMove

LEMMA RxStream ==
  ASSUME FifoDepth + BufLen <= Streams, UartInv, UartInv', [UartNext]_uartVars
  PROVE  [Rx!StreamNext]_(Rx!streamVars)
<1>1. /\ RxQueue = Run(RxReceived, RxLeft) /\ hostPos = Num(RxReceived + RxLeft)
      /\ RxLeft \in Nat /\ RxLeft < Streams /\ RxReceived \in Int
  <2>1. Queues BY QueuesAre
  <2>2. FifoDepth \in Nat /\ BufLen \in Nat /\ Streams \in Nat
    BY DeviceAssumption, DriverAssumption
  <2>3. RxReceived \in Int BY <2>1, DeviceAssumption DEF Queues, Byte
  <2> QED BY <2>1, <2>2, <2>3 DEF Queues
<1>2. /\ RxQueue' = Run(RxReceived', RxLeft') /\ hostPos' = Num(RxReceived' + RxLeft')
      /\ RxLeft' \in Nat /\ RxLeft' < Streams
  <2>1. Queues' BY QueuesAreNext
  <2>2. FifoDepth \in Nat /\ BufLen \in Nat /\ Streams \in Nat
    BY DeviceAssumption, DriverAssumption
  <2> QED BY <2>1, <2>2 DEF Queues
<1>3. Len(RxQueue) = RxLeft BY <1>1, RunIs
<1>4. CASE RxReceived' = RxReceived /\ RxLeft' = RxLeft
  BY <1>1, <1>2, <1>4 DEF Rx!streamVars
<1>5. CASE RxReceived' = RxReceived /\ RxLeft' = RxLeft + 1
  <2>1. 1 \in 1 .. Streams - 1 BY DeviceAssumption
  <2>2. RxQueue' = RxQueue \o Rx!Numbers(hostPos, 1)
    <3>1. Run(RxReceived, RxLeft + 1) = Run(RxReceived, RxLeft) \o Run(Num(RxReceived + RxLeft), 1)
      BY <1>1, RunSplit
    <3> QED BY <1>1, <1>2, <1>5, <3>1, NumbersAre
  <2>3. hostPos' = (hostPos + 1) % Streams
    <3>1. Num(Num(RxReceived + RxLeft) + 1) = Num(RxReceived + RxLeft + 1) BY <1>1, NumAdd
    <3>2. RxReceived + RxLeft + 1 = RxReceived + (RxLeft + 1) BY <1>1
    <3> QED BY <1>1, <1>2, <1>5, <3>1, <3>2 DEF Num
  <2>4. Len(RxQueue) + 1 < Streams BY <1>2, <1>3, <1>5
  <2>5. Rx!Send(1) BY <1>5, <2>2, <2>3, <2>4 DEF Rx!Send
  <2> QED BY <2>1, <2>5 DEF Rx!StreamNext
<1>6. ASSUME NEW k \in Nat, k > 0, k <= RxLeft,
             RxReceived' = Num(RxReceived + k), RxLeft' = RxLeft - k
      PROVE  Rx!StreamNext
  <2>1. k \in 1 .. Streams - 1 BY <1>1, <1>6, DeviceAssumption
  <2>2. /\ SubSeq(RxQueue, 1, k) = Rx!Numbers(RxReceived, k)
        /\ RxQueue' = SubSeq(RxQueue, k + 1, Len(RxQueue))
    <3>1. /\ SubSeq(Run(RxReceived, RxLeft), 1, k) = Run(RxReceived, k)
          /\ SubSeq(Run(RxReceived, RxLeft), k + 1, RxLeft) = Run(Num(RxReceived + k), RxLeft - k)
      BY <1>1, <1>6, RunDrop
    <3> QED BY <1>1, <1>2, <1>3, <1>6, <3>1, NumbersAre
  <2>3. hostPos' = hostPos
    <3>1. Num(Num(RxReceived + k) + (RxLeft - k)) = Num(RxReceived + k + (RxLeft - k))
      BY <1>1, NumAdd
    <3>2. RxReceived + k + (RxLeft - k) = RxReceived + RxLeft BY <1>1
    <3> QED BY <1>1, <1>2, <1>6, <3>1, <3>2
  <2>4. RxReceived' = (RxReceived + k) % Streams BY <1>6 DEF Num
  <2>5. Rx!Receive(k) BY <1>3, <1>6, <2>2, <2>3, <2>4 DEF Rx!Receive
  <2> QED BY <2>1, <2>5 DEF Rx!StreamNext
<1> QED BY <1>4, <1>5, <1>6, RxMove

LEMMA StreamsInit == UartInit => Tx!StreamInit /\ Rx!StreamInit
<1> SUFFICES ASSUME UartInit PROVE Tx!StreamInit /\ Rx!StreamInit OBVIOUS
<1>1. Queues BY InitInv, QueuesAre
<1>2. /\ txFifo = <<>> /\ rxFifo = <<>> /\ hostDue = 0 /\ hostPos = 0
      /\ tx_in = 0 /\ tx_out = 0 /\ rx_in = 0 /\ rx_out = 0
      /\ call = "idle" /\ txPos = 0 /\ rxPos = 0 /\ buffer = <<>>
  BY DEF UartInit, DeviceInit
<1>3. TxSent = 0 BY <1>2 DEF TxSent, Writing
<1>4. RxReceived = 0
  <2>1. Len(buffer) = 0 BY <1>2
  <2> QED BY <1>2, <2>1, DeviceAssumption DEF RxReceived
<1>5. TxLeft = 0 /\ RxLeft = 0
  <2>1. Len(txFifo) = 0 /\ Len(rxFifo) = 0 BY <1>2
  <2> QED BY <1>2, <2>1 DEF TxLeft, TxHeld, RxLeft, RxTaken, Dist
<1>6. TxQueue = <<>> /\ RxQueue = <<>>
  <2>1. Run(0, 0) = <<>> BY DEF Run
  <2> QED BY <1>1, <1>2, <1>4, <1>5, <2>1 DEF Queues
<1> QED BY <1>2, <1>3, <1>4, <1>6 DEF Tx!StreamInit, Rx!StreamInit

(***************************************************************************)
(* The driver and the device together are two byte streams: no byte is     *)
(* lost, doubled or reordered in either direction, however the interrupt   *)
(* routine, the program and the host interleave.  The hypothesis is about  *)
(* the numbering alone: bytes under way must have different numbers.       *)
(***************************************************************************)
THEOREM UartIsTwoStreams ==
  ASSUME FifoDepth + BufLen <= Streams
  PROVE  UartSpec => UartStreams
<1>1. UartInit => Tx!StreamInit /\ Rx!StreamInit BY StreamsInit
<1>2. UartInv /\ UartInv' /\ [UartNext]_uartVars
        => [Tx!StreamNext]_(Tx!streamVars) /\ [Rx!StreamNext]_(Rx!streamVars)
  BY TxStream, RxStream
<1> QED BY <1>1, <1>2, UartInvariant, PTL
        DEF UartSpec, UartStreams, Tx!StreamSpec, Rx!StreamSpec

-----------------------------------------------------------------------------
(***************************************************************************)
(* The small driver, which this BSP is built with: what is under way to    *)
(* the program includes what the read has got so far.  Only a read has got *)
(* bytes, and between the look at the status and the write the room for a  *)
(* byte can only grow.                                                     *)
(***************************************************************************)
InQueue == got \o rxFifo

PolledInv ==
  /\ PolledTypeOK
  /\ txFifo = Run(hostDue, Len(txFifo))
  /\ nextOut = Num(hostDue + Len(txFifo))
  /\ InQueue = Run(nextIn, Len(InQueue))
  /\ hostPos = Num(nextIn + Len(InQueue))
  /\ at = "put" => WSpace > 0 /\ wanted > 0
  /\ at # "read" => got = <<>>
  /\ Len(got) + wanted <= MaxBytes

LEMMA PolledTypes ==
  ASSUME PolledInv
  PROVE  /\ FifoDepth \in Nat /\ Streams \in Nat /\ Streams > 1 /\ MaxBytes \in Nat
         /\ txFifo \in Seq(Byte) /\ Len(txFifo) \in Nat /\ Len(txFifo) <= FifoDepth
         /\ rxFifo \in Seq(Byte) /\ Len(rxFifo) \in Nat /\ Len(rxFifo) <= FifoDepth
         /\ got \in Seq(Byte) /\ Len(got) \in Nat
         /\ wanted \in Nat /\ wanted <= MaxBytes
         /\ hostDue \in Byte /\ hostPos \in Byte /\ nextOut \in Byte /\ nextIn \in Byte
         /\ hostDue \in Int /\ hostPos \in Int /\ nextOut \in Int /\ nextIn \in Int
  BY DeviceAssumption, PolledAssumption, SMTT(30) DEF PolledInv, PolledTypeOK, DeviceTypeOK, Byte

LEMMA InQueueIs ==
  ASSUME got \in Seq(Byte), rxFifo \in Seq(Byte)
  PROVE  /\ InQueue \in Seq(Byte) /\ Len(InQueue) = Len(got) + Len(rxFifo)
         /\ Len(InQueue) \in Nat
  BY ConcatOf DEF InQueue

\* A run that is extended by its next number, or loses its first ones.
LEMMA RunGrows ==
  ASSUME NEW from \in Int, NEW s \in Seq(Byte), s = Run(from, Len(s))
  PROVE  /\ Append(s, Num(from + Len(s))) = Run(from, Len(s) + 1)
         /\ Append(s, Num(from + Len(s))) = s \o Run(Num(from + Len(s)), 1)
<1>1. Len(s) \in Nat /\ Num(from + Len(s)) \in Byte
  <2>1. Len(s) \in Nat OBVIOUS
  <2> QED BY <2>1, NumType
<1>2. Num(from + Len(s)) \in Int BY <1>1, DeviceAssumption DEF Byte
<1>3. Run(from, Len(s) + 1) = s \o Run(Num(from + Len(s)), 1) BY <1>1, RunSplit
<1>4. Run(Num(from + Len(s)), 1) = <<Num(from + Len(s))>>
  <2>0. PICK m \in Byte : m = Num(from + Len(s)) BY <1>1
  <2>1. m \in Int /\ Num(m) = m BY <2>0, NumOf, DeviceAssumption DEF Byte
  <2>2. m + 1 - 1 = m BY <2>1
  <2>3. Run(m, 1) = <<Num(m + 1 - 1)>> BY DEF Run
  <2> QED BY <2>0, <2>1, <2>2, <2>3
<1>5. Append(s, Num(from + Len(s))) = s \o <<Num(from + Len(s))>> BY <1>1
<1> QED BY <1>3, <1>4, <1>5

LEMMA RunTail ==
  ASSUME NEW from \in Int, NEW s \in Seq(Byte), NEW len \in Nat, len = Len(s),
         s = Run(from, len), s # <<>>
  PROVE  /\ SubSeq(s, 1, 1) = Run(from, 1)
         /\ Tail(s) = Run(Num(from + 1), len - 1)
         /\ Tail(s) = SubSeq(s, 2, len)
         /\ Tail(s) \in Seq(Byte) /\ Len(Tail(s)) = len - 1
         /\ Num(Num(from + 1) + (len - 1)) = Num(from + len)
         /\ 1 <= len
<1>1. 1 <= len /\ Tail(s) = SubSeq(s, 2, len) /\ Tail(s) \in Seq(Byte) /\ Len(Tail(s)) = len - 1
  OBVIOUS
<1>2. /\ SubSeq(s, 1, 1) = Run(from, 1)
      /\ SubSeq(s, 1 + 1, len) = Run(Num(from + 1), len - 1)
  <2>1. /\ SubSeq(Run(from, len), 1, 1) = Run(from, 1)
        /\ SubSeq(Run(from, len), 1 + 1, len) = Run(Num(from + 1), len - 1)
    BY <1>1, RunDrop
  <2> QED BY <2>1
<1>4. Num(Num(from + 1) + (len - 1)) = Num(from + len)
  <2>1. Num(Num(from + 1) + (len - 1)) = Num(from + 1 + (len - 1)) BY NumAdd
  <2>2. from + 1 + (len - 1) = from + len OBVIOUS
  <2> QED BY <2>1, <2>2
<1>3. 1 + 1 = 2 OBVIOUS
<1> QED BY <1>1, <1>2, <1>3, <1>4

\* What a call may return.
Results == {EWOULDBLOCK, NothingRead} \cup 0 .. MaxBytes

LEMMA PolledInitInv == PolledInit => PolledInv
<1> SUFFICES ASSUME PolledInit PROVE PolledInv OBVIOUS
<1>1. Run(0, 0) = <<>> BY DEF Run
<1>2. Num(0) = 0 BY DeviceAssumption DEF Num
<1>3. /\ txFifo = <<>> /\ rxFifo = <<>> /\ got = <<>>
      /\ hostDue = 0 /\ hostPos = 0 /\ nextOut = 0 /\ nextIn = 0
  BY DEF PolledInit, DeviceInit
<1>4. InQueue = <<>> BY <1>3 DEF InQueue
<1>5. Len(<<>>) = 0 /\ 0 + 0 = 0 OBVIOUS
<1>6. PolledTypeOK
  <2>1. FifoDepth \in Nat /\ MaxBytes \in Nat /\ 0 \in Byte
    BY DeviceAssumption, PolledAssumption DEF Byte
  <2>2. /\ txFifo \in Seq(Byte) /\ Len(txFifo) <= FifoDepth
        /\ rxFifo \in Seq(Byte) /\ Len(rxFifo) <= FifoDepth /\ got \in Seq(Byte)
    BY <1>3, <2>1
  <2>3. DeviceTypeOK BY <1>3, <2>1, <2>2 DEF PolledInit, DeviceInit, DeviceTypeOK
  <2>4. at = "idle" /\ length = 0 /\ wanted = 0 /\ noWait = FALSE /\ result = 0 BY DEF PolledInit
  <2>5. 0 \in 0 .. MaxBytes BY <2>1
  <2>6. result \in {EWOULDBLOCK, NothingRead} \cup 0 .. MaxBytes
    BY <2>4, <2>5, Zenon
  <2> QED BY <1>3, <2>1, <2>2, <2>3, <2>4, <2>5, <2>6 DEF PolledTypeOK
<1> QED BY <1>1, <1>2, <1>3, <1>4, <1>5, <1>6, PolledAssumption DEF PolledInv, PolledInit

(***************************************************************************)
(* What a step does to what is under way: one byte is written, or taken by *)
(* the host; one is sent, or a read that returns delivers what it got.     *)
(***************************************************************************)
PolledOutMoves ==
  \/ UNCHANGED <<txFifo, hostDue, nextOut>>
  \/ /\ Len(txFifo) < FifoDepth
     /\ txFifo' = Append(txFifo, nextOut) /\ nextOut' = Num(nextOut + 1) /\ hostDue' = hostDue
  \/ /\ txFifo # <<>>
     /\ txFifo' = Tail(txFifo) /\ hostDue' = Num(hostDue + 1) /\ nextOut' = nextOut

PolledInMoves ==
  \/ InQueue' = InQueue /\ UNCHANGED <<hostPos, nextIn>>
  \/ InQueue' = Append(InQueue, hostPos) /\ hostPos' = Num(hostPos + 1) /\ nextIn' = nextIn
  \/ /\ InQueue' = SubSeq(InQueue, Len(got) + 1, Len(InQueue))
     /\ nextIn' = Num(nextIn + Len(got)) /\ hostPos' = hostPos

LEMMA PolledCases ==
  ASSUME [PolledNext]_polledVars
  PROVE  \/ UNCHANGED polledVars
         \/ PolledCall \/ PolledWrite \/ PolledPut \/ PolledRead \/ PolledReadEnd
         \/ HostTake /\ UNCHANGED polledCall
         \/ HostSend /\ UNCHANGED polledCall
         \/ (HostPause \/ HostPlug) /\ UNCHANGED polledCall
  BY DEF PolledNext, PolledStep, PolledHost

LEMMA PolledOutSteps ==
  ASSUME PolledInv, [PolledNext]_polledVars PROVE PolledOutMoves
<1> USE DEF polledCall, deviceVars
<1>1. CASE PolledPut
  <2>1. Len(txFifo) < FifoDepth /\ WSpace > 0
    BY <1>1, PolledTypes DEF PolledInv, PolledPut, WSpace
  <2> QED BY <1>1, <2>1 DEF PolledPut, PolledOutMoves, WriteDataReg, Num
<1>2. CASE HostTake /\ UNCHANGED polledCall
  BY <1>2 DEF HostTake, PolledOutMoves, Num
<1>3. CASE UNCHANGED <<txFifo, hostDue, nextOut>>
  BY <1>3 DEF PolledOutMoves
<1> QED BY <1>1, <1>2, <1>3, PolledCases
        DEF polledVars, PolledCall, PolledWrite, PolledRead, PolledReadEnd, ReadDataReg,
            HostSend, HostPause, HostPlug

\* A byte that goes from the FIFO to the read keeps its place.
LEMMA InQueueMoves ==
  ASSUME got \in Seq(Byte), rxFifo \in Seq(Byte), rxFifo # <<>>
  PROVE  (got \o <<Head(rxFifo)>>) \o Tail(rxFifo) = InQueue
  BY DEF InQueue

LEMMA PolledInSteps ==
  ASSUME PolledInv, [PolledNext]_polledVars PROVE PolledInMoves
<1> USE DEF polledCall, deviceVars
<1>0. /\ got \in Seq(Byte) /\ rxFifo \in Seq(Byte) /\ hostPos \in Byte
      /\ InQueue \in Seq(Byte) /\ Len(InQueue) = Len(got) + Len(rxFifo)
  BY PolledTypes, InQueueIs
<1>1. CASE PolledRead
  <2>1. got' = got \o Valid(rxFifo) /\ UNCHANGED <<hostPos, nextIn>>
    BY <1>1 DEF PolledRead
  <2>2. CASE rxFifo = <<>>
    <3>1. rxFifo' = rxFifo /\ got' = got \o <<>>
      BY <1>1, <2>1, <2>2 DEF PolledRead, ReadDataReg, Valid
    <3>2. got' = got BY <1>0, <3>1
    <3> QED BY <2>1, <3>1, <3>2 DEF PolledInMoves, InQueue
  <2>3. CASE rxFifo # <<>>
    <3>1. rxFifo' = Tail(rxFifo) /\ got' = got \o <<Head(rxFifo)>>
      BY <1>1, <2>1, <2>3 DEF PolledRead, ReadDataReg, Valid
    <3>2. InQueue' = InQueue BY <1>0, <2>3, <3>1, InQueueMoves DEF InQueue
    <3> QED BY <2>1, <3>2 DEF PolledInMoves
  <2> QED BY <2>2, <2>3
<1>2. CASE PolledReadEnd
  <2>1. /\ got' = <<>> /\ rxFifo' = rxFifo /\ hostPos' = hostPos
        /\ nextIn' = Num(nextIn + Len(got))
    BY <1>2 DEF PolledReadEnd, Returns, Num
  <2>2. rxFifo = SubSeq(got \o rxFifo, Len(got) + 1, Len(got) + Len(rxFifo))
    BY <1>0
  <2>3. <<>> \o rxFifo = rxFifo BY <1>0
  <2> QED BY <1>0, <2>1, <2>2, <2>3 DEF PolledInMoves, InQueue
<1>3. CASE HostSend /\ UNCHANGED polledCall
  <2>1. got \o Append(rxFifo, hostPos) = Append(got \o rxFifo, hostPos) BY <1>0
  <2> QED BY <1>3, <2>1 DEF HostSend, PolledInMoves, InQueue, Num
<1>4. CASE UNCHANGED <<got, rxFifo, hostPos, nextIn>>
  BY <1>4 DEF PolledInMoves, InQueue
<1>5. CASE PolledWrite
  <2>1. got = <<>> /\ got' = got BY <1>5 DEF PolledWrite, Returns, PolledInv
  <2> QED BY <1>4, <1>5, <2>1 DEF PolledWrite
<1> QED BY <1>1, <1>2, <1>3, <1>4, <1>5, PolledCases
        DEF polledVars, PolledCall, PolledPut, HostTake, HostPause, HostPlug

LEMMA PolledOutInv ==
  ASSUME PolledInv, PolledOutMoves
  PROVE  /\ txFifo' = Run(hostDue', Len(txFifo'))
         /\ nextOut' = Num(hostDue' + Len(txFifo'))
         /\ txFifo' \in Seq(Byte) /\ Len(txFifo') <= FifoDepth
         /\ hostDue' \in Byte /\ nextOut' \in Byte
<1>0. /\ txFifo \in Seq(Byte) /\ Len(txFifo) \in Nat /\ Len(txFifo) <= FifoDepth
      /\ FifoDepth \in Nat
      /\ hostDue \in Int /\ nextOut \in Int /\ hostDue \in Byte /\ nextOut \in Byte
      /\ txFifo = Run(hostDue, Len(txFifo)) /\ nextOut = Num(hostDue + Len(txFifo))
  BY PolledTypes DEF PolledInv
<1>1. CASE UNCHANGED <<txFifo, hostDue, nextOut>> BY <1>0, <1>1
<1>2. CASE /\ Len(txFifo) < FifoDepth
           /\ txFifo' = Append(txFifo, nextOut) /\ nextOut' = Num(nextOut + 1)
           /\ hostDue' = hostDue
  <2>1. txFifo' = Run(hostDue, Len(txFifo) + 1) BY <1>0, <1>2, RunGrows
  <2>2. Len(txFifo') = Len(txFifo) + 1 /\ txFifo' \in Seq(Byte) BY <1>0, <1>2, AppendOf
  <2>3. Num(nextOut + 1) = Num(hostDue + Len(txFifo) + 1) BY <1>0, NumAdd
  <2>4. hostDue + Len(txFifo) + 1 = hostDue + (Len(txFifo) + 1) BY <1>0
  <2>5. nextOut' \in Byte
    <3>1. nextOut + 1 \in Int BY <1>0
    <3> QED BY <1>2, <3>1, NumType
  <2> QED BY <1>0, <1>2, <2>1, <2>2, <2>3, <2>4, <2>5
<1>3. CASE /\ txFifo # <<>>
           /\ txFifo' = Tail(txFifo) /\ hostDue' = Num(hostDue + 1) /\ nextOut' = nextOut
  <2>1. PICK len \in Nat : len = Len(txFifo) BY <1>0
  <2>2. /\ Tail(txFifo) = Run(Num(hostDue + 1), len - 1)
        /\ Tail(txFifo) \in Seq(Byte) /\ Len(Tail(txFifo)) = len - 1
        /\ Num(Num(hostDue + 1) + (len - 1)) = Num(hostDue + len)
    BY <1>0, <1>3, <2>1, RunTail
  <2>3. hostDue' \in Byte
    <3>1. hostDue + 1 \in Int BY <1>0
    <3> QED BY <1>3, <3>1, NumType
  <2> QED BY <1>0, <1>3, <2>1, <2>2, <2>3
<1> QED BY <1>1, <1>2, <1>3 DEF PolledOutMoves

LEMMA PolledInInv ==
  ASSUME PolledInv, PolledInMoves
  PROVE  /\ InQueue' = Run(nextIn', Len(InQueue'))
         /\ hostPos' = Num(nextIn' + Len(InQueue'))
         /\ hostPos' \in Byte /\ nextIn' \in Byte
<1>0. /\ InQueue \in Seq(Byte) /\ Len(InQueue) \in Nat /\ Len(InQueue) = Len(got) + Len(rxFifo)
      /\ Len(got) \in Nat /\ Len(rxFifo) \in Nat
      /\ hostPos \in Int /\ nextIn \in Int /\ hostPos \in Byte /\ nextIn \in Byte
      /\ InQueue = Run(nextIn, Len(InQueue)) /\ hostPos = Num(nextIn + Len(InQueue))
  BY PolledTypes, InQueueIs DEF PolledInv
<1>1. CASE InQueue' = InQueue /\ UNCHANGED <<hostPos, nextIn>> BY <1>0, <1>1
<1>2. CASE /\ InQueue' = Append(InQueue, hostPos) /\ hostPos' = Num(hostPos + 1)
           /\ nextIn' = nextIn
  <2>1. InQueue' = Run(nextIn, Len(InQueue) + 1) BY <1>0, <1>2, RunGrows
  <2>2. Len(InQueue') = Len(InQueue) + 1 BY <1>0, <1>2, AppendOf
  <2>3. Num(hostPos + 1) = Num(nextIn + Len(InQueue) + 1) BY <1>0, NumAdd
  <2>4. nextIn + Len(InQueue) + 1 = nextIn + (Len(InQueue) + 1) BY <1>0
  <2>5. hostPos' \in Byte
    <3>1. hostPos + 1 \in Int BY <1>0
    <3> QED BY <1>2, <3>1, NumType
  <2> QED BY <1>0, <1>2, <2>1, <2>2, <2>3, <2>4, <2>5
<1>3. CASE /\ InQueue' = SubSeq(InQueue, Len(got) + 1, Len(InQueue))
           /\ nextIn' = Num(nextIn + Len(got)) /\ hostPos' = hostPos
  <2>1. Len(got) <= Len(InQueue) BY <1>0
  <2>2. /\ InQueue' = Run(Num(nextIn + Len(got)), Len(InQueue) - Len(got))
        /\ Len(InQueue') = Len(InQueue) - Len(got)
        /\ Num(Num(nextIn + Len(got)) + (Len(InQueue) - Len(got))) = Num(nextIn + Len(InQueue))
    <3>1. PICK len \in Nat, k \in Nat : len = Len(InQueue) /\ k = Len(got) BY <1>0
    <3>2. /\ InQueue = Run(nextIn, len) /\ k <= len
          /\ InQueue' = SubSeq(InQueue, k + 1, len)
      BY <1>0, <1>3, <2>1, <3>1
    <3>3. /\ SubSeq(Run(nextIn, len), k + 1, len) = Run(Num(nextIn + k), len - k)
      BY <1>0, <3>2, RunDrop
    <3>5. Num(Num(nextIn + k) + (len - k)) = Num(nextIn + len)
      <4>1. nextIn + k \in Int /\ nextIn \in Int /\ nextIn + k + (len - k) = nextIn + len
        BY <1>0
      <4>2. Num(Num(nextIn + k) + (len - k)) = Num(nextIn + k + (len - k))
        BY <4>1, NumAdd
      <4> QED BY <4>1, <4>2
    <3>4. Len(SubSeq(InQueue, k + 1, len)) = len - k BY <1>0, <3>1, <3>2
    <3> QED BY <3>1, <3>2, <3>3, <3>4, <3>5
  <2>3. nextIn' \in Byte
    <3>1. nextIn + Len(got) \in Int BY <1>0
    <3> QED BY <1>3, <3>1, NumType
  <2> QED BY <1>0, <1>3, <2>2, <2>3
<1> QED BY <1>1, <1>2, <1>3 DEF PolledInMoves

LEMMA PolledStepInv == PolledInv /\ [PolledNext]_polledVars => PolledInv'
<1> SUFFICES ASSUME PolledInv, [PolledNext]_polledVars PROVE PolledInv' OBVIOUS
<1> USE DEF polledCall, deviceVars
<1>0. /\ FifoDepth \in Nat /\ MaxBytes \in Nat
      /\ txFifo \in Seq(Byte) /\ Len(txFifo) \in Nat /\ Len(txFifo) <= FifoDepth
      /\ rxFifo \in Seq(Byte) /\ Len(rxFifo) \in Nat /\ Len(rxFifo) <= FifoDepth
      /\ got \in Seq(Byte) /\ Len(got) \in Nat /\ wanted \in Nat
      /\ wanted \in 0 .. MaxBytes /\ length \in 0 .. MaxBytes
      /\ hostPos \in Byte
      /\ irq_enable \subseteq {"RE", "WE"}
      /\ ac \in BOOLEAN /\ pause_irq \in BOOLEAN /\ connected \in BOOLEAN
      /\ at \in {"idle", "write", "put", "read"}
      /\ noWait \in BOOLEAN
      /\ result \in {EWOULDBLOCK, NothingRead} \cup 0 .. MaxBytes
      /\ Len(got) + wanted <= MaxBytes
      /\ at = "put" => WSpace > 0 /\ wanted > 0
      /\ at # "read" => got = <<>>
  BY PolledTypes DEF PolledInv, PolledTypeOK, DeviceTypeOK
<1>1. /\ txFifo' = Run(hostDue', Len(txFifo'))
      /\ nextOut' = Num(hostDue' + Len(txFifo'))
      /\ txFifo' \in Seq(Byte) /\ Len(txFifo') <= FifoDepth
      /\ hostDue' \in Byte /\ nextOut' \in Byte
  BY PolledOutSteps, PolledOutInv
<1>2. /\ InQueue' = Run(nextIn', Len(InQueue'))
      /\ hostPos' = Num(nextIn' + Len(InQueue'))
      /\ hostPos' \in Byte /\ nextIn' \in Byte
  BY PolledInSteps, PolledInInv
<1>3. /\ rxFifo' \in Seq(Byte) /\ Len(rxFifo') <= FifoDepth
      /\ irq_enable' \subseteq {"RE", "WE"}
      /\ ac' \in BOOLEAN /\ pause_irq' \in BOOLEAN /\ connected' \in BOOLEAN
  <2>1. CASE PolledRead
    <3>1. CASE rxFifo = <<>>
      BY <1>0, <2>1, <3>1 DEF PolledRead, ReadDataReg
    <3>2. CASE rxFifo # <<>>
      <4>1. Tail(rxFifo) \in Seq(Byte) /\ Len(Tail(rxFifo)) = Len(rxFifo) - 1
        BY <1>0, <3>2, TailOf
      <4>2. rxFifo' = Tail(rxFifo) /\ UNCHANGED <<irq_enable, ac, connected>> /\ pause_irq' = FALSE
        BY <2>1, <3>2 DEF PolledRead, ReadDataReg
      <4>3. Len(rxFifo) - 1 <= FifoDepth BY <1>0
      <4> QED BY <1>0, <4>1, <4>2, <4>3
    <3> QED BY <3>1, <3>2
  <2>2. CASE HostSend /\ UNCHANGED polledCall
    <3>1. rxFifo' \in Seq(Byte) /\ Len(rxFifo') = Len(rxFifo) + 1 /\ Len(rxFifo) < FifoDepth
      BY <1>0, <2>2, AppendOf DEF HostSend
    <3> QED BY <1>0, <2>2, <3>1 DEF HostSend
  <2>3. CASE UNCHANGED <<rxFifo, irq_enable>> /\ ac' \in BOOLEAN /\ pause_irq' \in BOOLEAN
             /\ connected' \in BOOLEAN
    BY <1>0, <2>3
  <2> QED BY <1>0, <2>1, <2>2, <2>3, PolledCases
        DEF polledVars, PolledCall, PolledWrite, PolledPut, PolledReadEnd, HostTake,
            HostPause, HostPlug
<1>a. at' \in {"idle", "write", "put", "read"} /\ noWait' \in BOOLEAN
  BY <1>0, PolledCases
  DEF polledVars, PolledCall, PolledWrite, PolledPut, PolledRead, PolledReadEnd, Returns
<1>b. result' \in Results
  <2>1. \A x \in 0 .. MaxBytes : x \in Results BY DEF Results
  <2>2. 0 \in Results /\ EWOULDBLOCK \in Results /\ NothingRead \in Results
    BY <1>0 DEF Results
  <2>3. result \in Results BY <1>0 DEF Results
  <2>4. Len(got) \in 0 .. MaxBytes BY <1>0
  <2>5. CASE PolledReadEnd
    <3>1. \/ result' = Len(got) \/ result' = EWOULDBLOCK \/ result' = NothingRead
      BY <2>5 DEF PolledReadEnd, Returns
    <3> QED BY <2>1, <2>2, <2>4, <3>1
  <2>6. CASE result' = 0 \/ result' = length \/ result' = result
    BY <1>0, <2>1, <2>2, <2>3, <2>6
  <2> QED BY <2>5, <2>6, PolledCases
    DEF polledVars, PolledCall, PolledWrite, PolledPut, PolledRead, Returns
<1>c. length' \in 0 .. MaxBytes
  BY <1>0, PolledCases
  DEF polledVars, PolledCall, PolledWrite, PolledPut, PolledRead, PolledReadEnd, Returns
<1>4. /\ at' \in {"idle", "write", "put", "read"} /\ noWait' \in BOOLEAN
      /\ result' \in Results /\ length' \in 0 .. MaxBytes
  BY <1>a, <1>b, <1>c
<1>5. at' = "put" => WSpace' > 0 /\ wanted' > 0
  <2>1. WSpace \in Int /\ WSpace >= 0 BY <1>0 DEF WSpace
  <2>2. CASE HostTake /\ UNCHANGED polledCall
    <3>1. WSpace' = WSpace + 1 BY <1>0, <2>2, TailOf DEF HostTake, WSpace
    <3> QED BY <1>0, <2>1, <2>2, <3>1
  <2>3. CASE PolledWrite
    <3>1. WSpace' = WSpace BY <2>3 DEF PolledWrite, WSpace
    <3> QED BY <1>0, <2>1, <2>3, <3>1 DEF PolledWrite, HasSpace, Returns
  <2>4. CASE at' = at /\ wanted' = wanted /\ txFifo' = txFifo
    BY <1>0, <2>4 DEF WSpace
  <2>5. CASE PolledCall \/ PolledPut \/ PolledRead \/ PolledReadEnd
    BY <2>5 DEF PolledCall, PolledPut, PolledRead, PolledReadEnd, Returns
  <2> QED BY <2>2, <2>3, <2>4, <2>5, PolledCases
        DEF polledVars, HostSend, HostPause, HostPlug
<1>6. /\ got' \in Seq(Byte) /\ (at' # "read" => got' = <<>>)
      /\ wanted' \in 0 .. MaxBytes /\ Len(got') + wanted' <= MaxBytes
  <2>1. CASE PolledRead
    <3>0. /\ wanted > 0 /\ got' = got \o Valid(rxFifo) /\ at' = "read"
          /\ wanted' = IF GivesUp(Valid(rxFifo)) THEN 0 ELSE wanted - Len(Valid(rxFifo))
      BY <2>1 DEF PolledRead
    <3>1. CASE rxFifo = <<>>
      <4>1. Valid(rxFifo) = <<>> /\ Len(Valid(rxFifo)) = 0 BY <3>1 DEF Valid
      <4>2. got' = got BY <1>0, <3>0, <4>1
      <4>3. PICK w \in 0 .. wanted : w = wanted' BY <1>0, <3>0, <4>1
      <4>4. Len(got) + w <= MaxBytes /\ w \in 0 .. MaxBytes BY <1>0
      <4> QED BY <1>0, <3>0, <4>2, <4>3, <4>4
    <3>2. CASE rxFifo # <<>>
      <4>1. /\ Valid(rxFifo) = <<Head(rxFifo)>> /\ Head(rxFifo) \in Byte
            /\ Len(Valid(rxFifo)) = 1
        BY <1>0, <3>2 DEF Valid
      <4>2. wanted' = wanted - 1
        <5>1. Valid(rxFifo) # <<>> BY <4>1
        <5> QED BY <3>0, <4>1, <5>1 DEF GivesUp
      <4>3. got' \in Seq(Byte) /\ Len(got') = Len(got) + 1 BY <1>0, <3>0, <4>1
      <4>4. PICK g \in Nat, w \in 1 .. MaxBytes : g = Len(got) /\ w = wanted BY <1>0, <3>0
      <4>5. g + w <= MaxBytes BY <1>0, <4>4
      <4>6. (g + 1) + (w - 1) <= MaxBytes /\ w - 1 \in 0 .. MaxBytes BY <1>0, <4>5
      <4> QED BY <3>0, <4>2, <4>3, <4>4, <4>6
    <3> QED BY <3>1, <3>2
  <2>2. CASE PolledCall \/ PolledReadEnd
    <3>1. got' = <<>> /\ wanted' \in 0 .. MaxBytes
      BY <1>0, <2>2 DEF PolledCall, PolledReadEnd, Returns
    <3>2. Len(got') = 0 /\ got' \in Seq(Byte) BY <3>1
    <3>3. Len(got') + wanted' <= MaxBytes
      <4>1. PICK w \in 0 .. MaxBytes : w = wanted' BY <3>1
      <4>2. 0 + w <= MaxBytes BY <1>0
      <4> QED BY <3>2, <4>1, <4>2
    <3> QED BY <3>1, <3>2, <3>3
  <2>3. CASE PolledWrite
    <3>1. got = <<>> /\ got' = got BY <1>0, <2>3 DEF PolledWrite, Returns
    <3>2. wanted' = wanted BY <2>3 DEF PolledWrite, Returns
    <3> QED BY <1>0, <3>1, <3>2
  <2>4. CASE PolledPut
    <3>1. got = <<>> /\ got' = got BY <1>0, <2>4 DEF PolledPut
    <3>2. wanted' = wanted - 1 /\ wanted > 0 BY <1>0, <2>4 DEF PolledPut
    <3> QED BY <1>0, <3>1, <3>2
  <2>5. CASE UNCHANGED <<got, wanted, at>> BY <1>0, <2>5
  <2> QED BY <2>1, <2>2, <2>3, <2>4, <2>5, PolledCases DEF polledVars
<1>7. PolledTypeOK' BY <1>1, <1>2, <1>3, <1>4, <1>6 DEF PolledTypeOK, DeviceTypeOK, Results
<1> QED BY <1>1, <1>2, <1>5, <1>6, <1>7 DEF PolledInv

\* The invariant of the small driver holds in every state.
THEOREM PolledInvariant == PolledSpec => []PolledInv
  BY PolledInitInv, PolledStepInv, PTL DEF PolledSpec

\* FIFOs and calls of the polled driver keep their types.
THEOREM PolledTypeCorrect == PolledSpec => []PolledTypeOK
<1>1. PolledInv => PolledTypeOK BY DEF PolledInv
<1> QED BY <1>1, PolledInvariant, PTL

LEMMA PolledNumbers ==
  ASSUME NEW from, NEW len
  PROVE  PolledOut!Numbers(from, len) = Run(from, len)
         /\ PolledIn!Numbers(from, len) = Run(from, len)
  BY DEF PolledOut!Numbers, PolledIn!Numbers, Run, Num

LEMMA PolledOutStream ==
  ASSUME FifoDepth + MaxBytes < Streams, PolledInv, PolledOutMoves
  PROVE  [PolledOut!StreamNext]_(PolledOut!streamVars)
<1>0. /\ txFifo \in Seq(Byte) /\ Len(txFifo) \in Nat /\ Len(txFifo) <= FifoDepth
      /\ FifoDepth \in Nat /\ MaxBytes \in Nat /\ Streams \in Nat /\ Streams > 1
      /\ hostDue \in Int /\ nextOut \in Int
      /\ txFifo = Run(hostDue, Len(txFifo)) /\ nextOut = Num(hostDue + Len(txFifo))
      /\ 1 \in 1 .. Streams - 1
  BY PolledTypes DEF PolledInv
<1>1. CASE UNCHANGED <<txFifo, hostDue, nextOut>> BY <1>1 DEF PolledOut!streamVars
<1>2. CASE /\ Len(txFifo) < FifoDepth
           /\ txFifo' = Append(txFifo, nextOut) /\ nextOut' = Num(nextOut + 1)
           /\ hostDue' = hostDue
  <2>1. txFifo' = txFifo \o PolledOut!Numbers(nextOut, 1)
    BY <1>0, <1>2, RunGrows, PolledNumbers, ZenonT(30)
  <2>2. PolledOut!Send(1) BY <1>0, <1>2, <2>1 DEF PolledOut!Send, Num
  <2> QED BY <1>0, <2>2 DEF PolledOut!StreamNext
<1>3. CASE /\ txFifo # <<>>
           /\ txFifo' = Tail(txFifo) /\ hostDue' = Num(hostDue + 1) /\ nextOut' = nextOut
  <2>0. PICK len \in Nat : len = Len(txFifo) BY <1>0
  <2>1. /\ 1 <= len /\ Tail(txFifo) = SubSeq(txFifo, 1 + 1, len)
        /\ SubSeq(txFifo, 1, 1) = PolledOut!Numbers(hostDue, 1)
    <3>1. /\ 1 <= len /\ Tail(txFifo) = SubSeq(txFifo, 2, len)
          /\ SubSeq(txFifo, 1, 1) = Run(hostDue, 1)
      BY <1>0, <1>3, <2>0, RunTail
    <3>2. 1 + 1 = 2 OBVIOUS
    <3> QED BY <3>1, <3>2, PolledNumbers
  <2>3. PolledOut!Receive(1) BY <1>0, <1>3, <2>0, <2>1 DEF PolledOut!Receive, Num
  <2> QED BY <1>0, <2>3 DEF PolledOut!StreamNext
<1> QED BY <1>1, <1>2, <1>3 DEF PolledOutMoves

LEMMA PolledBound == PolledInv => Len(InQueue) \in Nat /\ Len(InQueue) <= FifoDepth + MaxBytes
<1> SUFFICES ASSUME PolledInv
    PROVE  Len(InQueue) \in Nat /\ Len(InQueue) <= FifoDepth + MaxBytes
  OBVIOUS
<1>1. /\ Len(got) \in Nat /\ Len(rxFifo) \in Nat /\ wanted \in Nat
      /\ Len(rxFifo) <= FifoDepth /\ Len(got) + wanted <= MaxBytes
      /\ Len(InQueue) = Len(got) + Len(rxFifo) /\ MaxBytes \in Nat /\ FifoDepth \in Nat
  BY PolledTypes, InQueueIs DEF PolledInv
<1> QED BY <1>1

LEMMA PolledBoundNext ==
  PolledInv' => (Len(InQueue) \in Nat /\ Len(InQueue) <= FifoDepth + MaxBytes)'
  BY PolledBound, PTL

LEMMA FirstOfSum ==
  ASSUME NEW m \in Nat, NEW a \in Nat, NEW b \in 0 .. m, a + b <= m
  PROVE  a <= m
  OBVIOUS

LEMMA PolledInStream ==
  ASSUME FifoDepth + MaxBytes < Streams, PolledInv, PolledInv', PolledInMoves
  PROVE  [PolledIn!StreamNext]_(PolledIn!streamVars)
<1>0. /\ InQueue \in Seq(Byte) /\ Len(InQueue) \in Nat /\ Len(InQueue) = Len(got) + Len(rxFifo)
      /\ Len(got) \in Nat /\ Len(rxFifo) \in Nat
      /\ FifoDepth \in Nat /\ MaxBytes \in Nat /\ Streams \in Nat /\ Streams > 1
      /\ hostPos \in Int /\ nextIn \in Int
      /\ InQueue = Run(nextIn, Len(InQueue)) /\ hostPos = Num(nextIn + Len(InQueue))
      /\ 1 \in 1 .. Streams - 1
      /\ Len(got) <= MaxBytes
  <2>1. Len(got) <= MaxBytes
    <3>1. PICK g \in Nat : g = Len(got) BY PolledTypes DEF PolledInv
    <3>2. PICK w \in 0 .. MaxBytes : w = wanted BY PolledTypes DEF PolledInv
    <3>3. g + w <= MaxBytes
      <4>1. Len(got) + wanted <= MaxBytes BY DEF PolledInv
      <4> QED BY <3>1, <3>2, <4>1
    <3>4. MaxBytes \in Nat BY PolledTypes
    <3>5. g <= MaxBytes BY <3>2, <3>3, <3>4, FirstOfSum
    <3> QED BY <3>1, <3>5
  <2> QED BY <2>1, PolledTypes, InQueueIs DEF PolledInv
<1>s. Len(InQueue') < Streams
  <2>1. Len(InQueue') \in Nat /\ Len(InQueue') <= FifoDepth + MaxBytes
    BY PolledBoundNext DEF InQueue
  <2> QED BY <1>0, <2>1
<1>1. CASE InQueue' = InQueue /\ UNCHANGED <<hostPos, nextIn>>
  BY <1>1 DEF PolledIn!streamVars, InQueue
<1>2. CASE /\ InQueue' = Append(InQueue, hostPos) /\ hostPos' = Num(hostPos + 1)
           /\ nextIn' = nextIn
  <2>1. InQueue' = InQueue \o PolledIn!Numbers(hostPos, 1)
    <3>1. PICK q \in Seq(Byte) : q = InQueue BY <1>0
    <3>2. q = Run(nextIn, Len(q)) /\ hostPos = Num(nextIn + Len(q)) BY <1>0, <3>1
    <3>3. Append(q, hostPos) = q \o Run(hostPos, 1) BY <1>0, <3>2, RunGrows
    <3>4. Run(hostPos, 1) = PolledIn!Numbers(hostPos, 1) BY PolledNumbers
    <3> QED BY <1>2, <3>1, <3>3, <3>4
  <2>2. Len(InQueue') = Len(InQueue) + 1
    <3>1. PICK q \in Seq(Byte) : q = InQueue BY <1>0
    <3>2. Len(Append(q, hostPos)) = Len(q) + 1 BY <3>1, AppendOf
    <3> QED BY <1>2, <3>1, <3>2
  <2>3. PolledIn!Send(1) BY <1>0, <1>s, <1>2, <2>1, <2>2 DEF PolledIn!Send, Num, InQueue
  <2> QED BY <1>0, <2>3 DEF PolledIn!StreamNext
<1>3. CASE /\ InQueue' = SubSeq(InQueue, Len(got) + 1, Len(InQueue))
           /\ nextIn' = Num(nextIn + Len(got)) /\ hostPos' = hostPos
  <2>1. CASE Len(got) = 0
    <3>1. InQueue' = InQueue
      <4>1. SubSeq(InQueue, 0 + 1, Len(InQueue)) = InQueue BY <1>0
      <4> QED BY <1>3, <2>1, <4>1
    <3>2. nextIn' = nextIn
      <4>1. nextIn + 0 = nextIn /\ Num(nextIn) = nextIn
        BY <1>0, NumOf, PolledTypes
      <4> QED BY <1>3, <2>1, <4>1
    <3> QED BY <1>1, <1>3, <3>1, <3>2
  <2>2. CASE Len(got) # 0
    <3>1. Len(got) <= Len(InQueue) /\ Len(got) \in 1 .. Streams - 1 BY <1>0, <2>2
    <3>2. SubSeq(InQueue, 1, Len(got)) = PolledIn!Numbers(nextIn, Len(got))
      <4>1. SubSeq(Run(nextIn, Len(InQueue)), 1, Len(got)) = Run(nextIn, Len(got))
        BY <1>0, <3>1, RunDrop
      <4> QED BY <1>0, <4>1, PolledNumbers
    <3>3. PolledIn!Receive(Len(got))
      BY <1>3, <3>1, <3>2 DEF PolledIn!Receive, Num, InQueue
    <3> QED BY <3>1, <3>3 DEF PolledIn!StreamNext
  <2> QED BY <2>1, <2>2
<1> QED BY <1>1, <1>2, <1>3 DEF PolledInMoves

(***************************************************************************)
(* The small driver and the device are two byte streams as well: although  *)
(* it looks for space in one access and uses it in the next, and a read    *)
(* may end at any byte, nothing is lost, doubled or reordered.  Again the  *)
(* hypothesis is about the numbering alone.                                *)
(***************************************************************************)
THEOREM PolledIsTwoStreams ==
  ASSUME FifoDepth + MaxBytes < Streams
  PROVE  PolledSpec => PolledStream
<1>1. PolledInit => PolledOut!StreamInit /\ PolledIn!StreamInit
  BY DEF PolledInit, DeviceInit, PolledOut!StreamInit, PolledIn!StreamInit
<1>2. PolledInv /\ PolledInv' /\ [PolledNext]_polledVars
        => [PolledOut!StreamNext]_(PolledOut!streamVars) /\ [PolledIn!StreamNext]_(PolledIn!streamVars)
  BY PolledOutSteps, PolledInSteps, PolledOutStream, PolledInStream
<1> QED BY <1>1, <1>2, PolledInvariant, PTL
        DEF PolledSpec, PolledStream, PolledOut!StreamSpec, PolledIn!StreamSpec
=============================================================================
