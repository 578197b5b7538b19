------------------------------ MODULE AltException ------------------------------
(***************************************************************************)
(* The exception handler (HAL/src/alt_exception_entry.S, alt_irq_entry.S,  *)
(* alt_exception_muldiv.S, alt_exception_trap.S,                           *)
(* alt_instruction_exception_entry.c): it saves the registers, finds out   *)
(* whether an interrupt or the instruction caused the exception, handles   *)
(* it, restores the registers and returns to the instruction or to the one *)
(* after it.  Multiplications and divisions are emulated on the saved      *)
(* registers.  What alt_irq_handler() does is the matter of AltIrq.        *)
(*                                                                         *)
(* Code addresses count instructions from the one the program is at: that  *)
(* one is 0 and the next 1.  Slots of the stack frame count words from the *)
(* stack pointer the entry code leaves.                                    *)
(***************************************************************************)
EXTENDS Integers

CONSTANTS
  RegBits,      \* of a register, and rounds of the loops: 32 in the code
  Cases,        \* instructions, with the registers they find
  Options       \* what the BSP is built with

Mod == 2^RegBits
Registers == 0 .. 31
gp == 26   sp == 27   fp == 28   ea == 29   ra == 31

MulDiv == {"muli", "mul", "mulxuu", "mulxsu", "mulxss", "div", "divu"}

(***************************************************************************)
(* Registers an emulated instruction may read and write.  The comment      *)
(* alt_exception_muldiv.S:60-74 excludes et as a source, sp and ea as      *)
(* destinations, and the breakpoint registers.  Three more do not work: sp *)
(* as a source is read as the handler's (line 154), and gp and et as       *)
(* destinations are not loaded again (lines 564-565).                      *)
(***************************************************************************)
Readable == 0 .. 23 \cup {gp, fp, ra}
Writable == 0 .. 23 \cup {fp, ra}

\* C is the destination, of muli it is B.
Instruction ==
  [op : MulDiv \cup {"trap", "illegal", "other"},
   A : Readable, B : Readable, C : Writable, imm : 0 .. Mod - 1]

ASSUME ExceptionAssumption ==
  /\ RegBits \in Nat \ {0}
  /\ \A c \in Cases :
       /\ c.inst \in Instruction /\ (c.inst.op = "muli" => c.inst.B \in Writable)
       /\ c.reg \in [Registers -> 0 .. Mod - 1] /\ c.reg[0] = 0
  /\ Options \subseteq [emulation : BOOLEAN, trap_handler : BOOLEAN, api : BOOLEAN]

\* What the proofs use of powers.
ASSUME PowerAssumption ==
  2^0 = 1 /\ \A n \in 0 .. RegBits - 1 : 2^n \in Nat /\ 2^(n + 1) = 2 * 2^n

VARIABLES
  option,
  registered,     \* alt_instruction_exception_handler is registered
  place,          \* "program", or where in the handler
  inst,        \* the instruction the program is at
  reg,
  status_PIE,         \* status.PIE, 0 or 1
  pc,          \* where the program goes on
  pending,     \* ipending is not 0
  frame,
  found,       \* history: the registers and PIE the instruction found,
  skipper      \* and who had it skipped

exceptionVars ==
  <<option, registered, place, inst, reg, status_PIE, pc, pending, frame, found, skipper>>

-----------------------------------------------------------------------------
(***************************************************************************)
(* The emulation.  Registers are unsigned; the bit shifted out at the left *)
(* is lost.                                                                *)
(***************************************************************************)
Negative32(x) == x >= 2^(RegBits - 1)
Negated(x) == (Mod - x) % Mod
Absolute(x) == IF Negative32(x) THEN Negated(x) ELSE x

\* (remainder:dividend:quotient) <<= 1, and one more bit of the quotient.
DivideRound(r) ==
  LET remainder == (2 * r.remainder + (IF Negative32(r.quotient) THEN 1 ELSE 0)) % Mod
      quotient == (2 * r.quotient) % Mod
  IN  IF remainder < r.divisor
      THEN [r EXCEPT !.remainder = remainder, !.quotient = quotient]
      ELSE [r EXCEPT !.remainder = remainder - r.divisor, !.quotient = quotient + 1]

UnsignedDivision(dividend, divisor) ==
  LET round[k \in 0 .. RegBits] ==
        IF k = 0 THEN [remainder |-> 0, quotient |-> dividend, divisor |-> divisor]
        ELSE DivideRound(round[k - 1])
  IN  round[RegBits].quotient

SignedDivision(a, b) ==
  LET quotient == UnsignedDivision(Absolute(a), Absolute(b))
  IN  IF Negative32(a) # Negative32(b) THEN Negated(quotient) ELSE quotient

\* Variant: the carry out of the sum is not shifted back in.
CarryForgotten(sum, multiplicand) == 0

\* The carry out of sum, to be shifted in at the left.
SavedCarry(sum, multiplicand) == IF sum < multiplicand THEN 2^(RegBits - 1) ELSE 0

MultiplyRound(p, multiplicand) ==
  LET sum == (p.mulxuu + multiplicand) % Mod
  IN  [mul |-> (2 * p.mul + (IF Negative32(p.left) THEN multiplicand ELSE 0)) % Mod,
       mulxuu |-> IF p.right % 2 = 0 THEN p.mulxuu \div 2
                  ELSE sum \div 2 + SavedCarry(sum, multiplicand),
       left |-> (2 * p.left) % Mod,
       right |-> p.right \div 2]

Multiplication(a, b) ==
  LET round[k \in 0 .. RegBits] ==
        IF k = 0 THEN [mul |-> 0, mulxuu |-> 0, left |-> b, right |-> b]
        ELSE MultiplyRound(round[k - 1], a)
  IN  round[RegBits]

\* Correction of a product of unsigned numbers for a negative factor x.
LessIfNegative(product, x, y) == IF Negative32(x) THEN (product - y) % Mod ELSE product

EmulatedResult(op, a, b) ==
  LET product == Multiplication(a, b)
      mulxsu == LessIfNegative(product.mulxuu, a, b)
  IN  CASE op \in {"mul", "muli"} -> product.mul
        [] op = "mulxuu" -> product.mulxuu
        [] op = "mulxsu" -> mulxsu
        [] op = "mulxss" -> LessIfNegative(mulxsu, b, a)
        [] op = "divu" -> UnsignedDivision(a, b)
        [] op = "div" -> SignedDivision(a, b)

-----------------------------------------------------------------------------
(***************************************************************************)
(* The frame: the entry code saves ra and r1 to r15, estatus and the       *)
(* return address, and leaves slot 1 for the zero of r0; the emulation     *)
(* adds 15 words below.  Register r is then 4 * (r xor 16) above sp.       *)
(***************************************************************************)
EstatusSlot == 17
ReturnSlot == 18
FrameSlots == -15 .. ReturnSlot
Slot(r) == ((r + 16) % 32) - 15

\* What is below the stack pointer is of no account.
NoFrame == [s \in FrameSlots |-> 0]

Saved ==
  [s \in FrameSlots |->
     CASE s = 0 -> reg[ra]
       [] s \in 2 .. 16 -> reg[s - 1]
       [] s = EstatusSlot -> status_PIE
       [] s = ReturnSlot -> 0
       [] OTHER -> frame[s]]

SavedByMulDiv ==
  [s \in FrameSlots |->
     CASE s = 1 -> 0
       [] s \in -15 .. -8 -> reg[s + 31]
       [] s = -5 -> reg[gp]
       [] s = -4 -> (reg[sp] - 15) % Mod
       [] s = -3 -> reg[fp]
       [] OTHER -> frame[s]]

\* The handler and the functions it calls use the registers the entry code saves;
\* what they leave there is not told apart.
Junk == Mod - 1
CallerSaved == 1 .. 15 \cup {ra}

-----------------------------------------------------------------------------
ExceptionInit ==
  /\ option \in Options /\ registered = FALSE
  /\ place = "program"
  /\ \E c \in Cases : inst = c.inst /\ reg = c.reg
  /\ status_PIE = 0 /\ pc = 0 /\ pending = FALSE
  /\ frame = NoFrame
  /\ found = [reg |-> reg, PIE |-> status_PIE]
  /\ skipper = "nobody"

\* The instruction was skipped, or the CPU executes it itself; the program comes
\* to it again.
NextInstruction ==
  /\ place = "program" /\ (pc = 1 \/ inst.op = "other")
  /\ pc' = 0 /\ skipper' = "nobody"
  /\ reg' = found.reg
  /\ status_PIE' \in {0, 1}
  /\ found' = [found EXCEPT !.PIE = status_PIE']
  /\ UNCHANGED <<option, registered, place, inst, pending, frame>>

alt_instruction_exception_register ==
  /\ place = "program" /\ option.api
  /\ registered' \in BOOLEAN
  /\ UNCHANGED <<option, place, inst, reg, status_PIE, pc, pending, frame, found, skipper>>

\* A device asserts or withdraws its request.
DeviceRequest ==
  /\ pending' = ~pending
  /\ UNCHANGED <<option, registered, place, inst, reg, status_PIE, pc, frame, found, skipper>>

\* An interrupt, or an instruction the CPU does not implement.
Exception ==
  /\ place = "program" /\ pc = 0
  /\ (status_PIE = 1 /\ pending) \/ inst.op # "other"
  /\ place' = "irqtest"
  /\ status_PIE' = 0
  /\ frame' = Saved
  /\ reg' = [r \in Registers |->
               CASE r \in CallerSaved -> Junk
                 [] r = ea -> 1
                 [] r = sp -> (reg[sp] - 19) % Mod
                 [] OTHER -> reg[r]]
  /\ UNCHANGED <<option, registered, inst, pc, pending, found, skipper>>

IsIrq == frame[EstatusSlot] = 1 /\ pending

\* alt_irq_handler() leaves when nothing is pending.  Interrupts nested in it
\* have changed estatus and ea.
Irq ==
  /\ place = "irqtest" /\ IsIrq
  /\ place' = "exit"
  /\ reg' = [reg EXCEPT ![ea] = Junk]
  /\ pending' = FALSE
  /\ UNCHANGED <<option, registered, inst, status_PIE, pc, frame, found, skipper>>

NotIrq ==
  /\ place = "irqtest" /\ ~IsIrq
  /\ place' = "soft"
  /\ frame' = [frame EXCEPT ![ReturnSlot] = reg[ea]]
  /\ UNCHANGED <<option, registered, inst, reg, status_PIE, pc, pending, found, skipper>>

Emulates == option.emulation /\ inst.op \in MulDiv

Emulate ==
  /\ place = "soft" /\ Emulates
  /\ place' = "exit"
  /\ LET stored == SavedByMulDiv
         isMuli == inst.op = "muli"
         a == stored[Slot(inst.A)]
         b == IF isMuli THEN inst.imm ELSE stored[Slot(inst.B)]
         destination == IF isMuli THEN inst.B ELSE inst.C
     IN  frame' = [stored EXCEPT ![Slot(destination)] = EmulatedResult(inst.op, a, b)]
  /\ reg' = [r \in Registers |->
               CASE r \in 16 .. 23 -> frame'[r - 31]
                 [] r = fp -> frame'[-3]
                 [] OTHER -> reg[r]]
  /\ skipper' = "emulation"
  /\ UNCHANGED <<option, registered, inst, status_PIE, pc, pending, found>>

IsTrap == option.trap_handler /\ inst.op = "trap"

\* A break, from which the debugger lets the handler go on.
Trap ==
  /\ place = "soft" /\ IsTrap
  /\ place' = "exit"
  /\ skipper' = "debugger"
  /\ UNCHANGED <<option, registered, inst, reg, status_PIE, pc, pending, frame, found>>

Unknown == place = "soft" /\ ~Emulates /\ ~IsTrap

UnknownBreaks ==
  /\ Unknown /\ ~option.api
  /\ place' = "exit"
  /\ skipper' = "debugger"
  /\ UNCHANGED <<option, registered, inst, reg, status_PIE, pc, pending, frame, found>>

NIOS2_EXCEPTION_RETURN_REISSUE_INST == 0
NIOS2_EXCEPTION_RETURN_SKIP_INST == 1

\* alt_instruction_exception_entry() returns what the program's handler answers
\* (which causes no exceptions itself); without one it breaks.
Results ==
  IF registered
  THEN {NIOS2_EXCEPTION_RETURN_REISSUE_INST, NIOS2_EXCEPTION_RETURN_SKIP_INST}
  ELSE {NIOS2_EXCEPTION_RETURN_REISSUE_INST}

UnknownAsked ==
  /\ Unknown /\ option.api
  /\ place' = "exit"
  /\ \E result \in Results :
       /\ frame' = IF result # 0 THEN frame ELSE [frame EXCEPT ![ReturnSlot] = reg[ea] - 1]
       /\ skipper' = IF result # 0 THEN "handler" ELSE skipper
  /\ UNCHANGED <<option, registered, inst, reg, status_PIE, pc, pending, found>>

\* The registers are restored; eret.
Exit ==
  /\ place = "exit"
  /\ place' = "program"
  /\ reg' = [r \in Registers |->
               CASE r \in 1 .. 15 -> frame[r + 1]
                 [] r = ra -> frame[0]
                 [] r = ea -> frame[ReturnSlot]
                 [] r = sp -> (reg[sp] + 19) % Mod
                 [] OTHER -> reg[r]]
  /\ status_PIE' = frame[EstatusSlot]
  /\ pc' = frame[ReturnSlot]
  /\ frame' = NoFrame
  /\ UNCHANGED <<option, registered, inst, pending, found, skipper>>

ExceptionNext ==
  \/ NextInstruction \/ alt_instruction_exception_register \/ DeviceRequest
  \/ Exception \/ Irq \/ NotIrq \/ Emulate \/ Trap \/ UnknownBreaks \/ UnknownAsked \/ Exit

ExceptionSpec == ExceptionInit /\ [][ExceptionNext]_exceptionVars

-----------------------------------------------------------------------------
ExceptionTypeOK ==
  /\ option \in Options /\ registered \in BOOLEAN
  /\ place \in {"program", "irqtest", "soft", "exit"}
  /\ reg \in [Registers -> 0 .. Mod - 1]
  /\ status_PIE \in {0, 1} /\ pc \in {0, 1} /\ pending \in BOOLEAN
  /\ frame \in [FrameSlots -> 0 .. Mod - 1]
  /\ skipper \in {"nobody", "emulation", "debugger", "handler"}

\* The instruction set's definition of the instructions.
Signed(x) == IF Negative32(x) THEN x - Mod ELSE x
Quotient(x, y) ==
  LET size == Absolute(x) \div Absolute(y)
  IN  IF Negative32(x) # Negative32(y) THEN -size ELSE size
Defined(op, a, b) ==
  (CASE op \in {"mul", "muli"} -> a * b
     [] op = "mulxuu" -> (a * b) \div Mod
     [] op = "mulxsu" -> (Signed(a) * b) \div Mod
     [] op = "mulxss" -> (Signed(a) * Signed(b)) \div Mod
     [] op = "divu" -> a \div b
     [] op = "div" -> Quotient(a, b)) % Mod

\* What the registers are to be after the instruction, apart from r0.
Effect(r) ==
  LET old == found.reg
      isMuli == inst.op = "muli"
      b == IF isMuli THEN inst.imm ELSE old[inst.B]
  IN  IF r # (IF isMuli THEN inst.B ELSE inst.C) THEN old[r]
      ELSE IF inst.op \in {"div", "divu"} /\ b = 0 THEN reg[r]
      ELSE Defined(inst.op, old[inst.A], b)

(***************************************************************************)
(* Whatever the exception, the program goes on with the registers, but ea, *)
(* and the interrupt enable it had.  An instruction is skipped only if it  *)
(* was emulated, and its destination is then what the instruction set      *)
(* defines, or if the program's handler or a user at the debugger had it   *)
(* skipped; otherwise it is issued again, after an interrupt too, even one *)
(* that came with an instruction to be emulated or was withdrawn before    *)
(* the handler looked (alt_exception_entry.S:107-352,                      *)
(* alt_irq_entry.S:79-95, alt_exception_muldiv.S:105-573).                 *)
(***************************************************************************)
ResumesRight ==
  place = "program" =>
    /\ status_PIE = found.PIE
    /\ pc = 0 <=> skipper = "nobody"
    /\ reg[0] = 0
    /\ \A r \in Registers \ {0, ea} :
         reg[r] = IF skipper = "emulation" THEN Effect(r) ELSE found.reg[r]
=============================================================================
