-------------------------------- MODULE AltIrq --------------------------------
(***************************************************************************)
(* Interrupts (HAL/src/alt_irq_handler.c, alt_iic.c,                       *)
(* alt_iic_isr_register.c, alt_irq_vars.c, altera_nios2_qsys_irq.c,        *)
(* HAL/inc/sys/alt_irq.h, HAL/inc/priv/alt_legacy_irq.h): the CPU takes an *)
(* interrupt when PIE is set and an enabled line is asserted;              *)
(* alt_irq_handler() then calls the routine of the lowest number until no  *)
(* interrupt is pending.  A routine may let higher priorities in, and any  *)
(* code may disable interrupts for a while, also when they are already     *)
(* disabled.                                                               *)
(*                                                                         *)
(* A context is the program or one activation of the exception handler.    *)
(* An interrupt line stays asserted until its routine serves the device.   *)
(***************************************************************************)
EXTENDS Integers, Sequences

CONSTANTS
  ALT_NIRQ,     \* interrupts are 0 .. ALT_NIRQ - 1, 0 the most urgent
  MaxNesting    \* bound on disable_all calls one context has open

ASSUME IrqAssumption == ALT_NIRQ \in Nat /\ MaxNesting \in Nat

VARIABLES
  PIE,                \* status.PIE
  ienable,
  alt_irq_active,     \* interrupts with a handler
  alt_priority_mask,
  asserted,           \* lines
  contexts            \* the program first, the running one last

irqVars == <<PIE, ienable, alt_irq_active, alt_priority_mask, asserted, contexts>>

Irqs == 0 .. ALT_NIRQ - 1
NoIrq == ALT_NIRQ          \* less urgent than any

(***************************************************************************)
(* irq: whose routine a context is in; saved: what its disable_all calls   *)
(* returned; old: what alt_irq_interruptible() returned, if it is open.    *)
(***************************************************************************)
Fresh == [irq |-> NoIrq, saved |-> <<>>, open |-> FALSE, old |-> Irqs]

\* alt_irq_init(): every interrupt is disabled, and the CPU begins to take them.
IrqInit ==
  /\ PIE = TRUE /\ ienable = {}
  /\ alt_irq_active = {} /\ alt_priority_mask = Irqs
  /\ asserted = {}
  /\ contexts = <<Fresh>>

Depth == Len(contexts)
Current == contexts[Depth]
InProgram == Depth = 1
InRoutine == Current.irq # NoIrq

Becomes(context) == contexts' = [contexts EXCEPT ![Depth] = context]

-----------------------------------------------------------------------------
Device ==
  /\ \E i \in Irqs \ asserted : asserted' = asserted \cup {i}
  /\ UNCHANGED <<PIE, ienable, alt_irq_active, alt_priority_mask, contexts>>

ipending == asserted \cap ienable

\* The exception: PIE is cleared, and the program stands still.
Taken ==
  /\ PIE /\ ipending # {}
  /\ PIE' = FALSE
  /\ contexts' = Append(contexts, Fresh)
  /\ UNCHANGED <<ienable, alt_irq_active, alt_priority_mask, asserted>>

-----------------------------------------------------------------------------
Lowest(S) == CHOOSE i \in S : \A j \in S : i <= j

\* alt_irq_handler(): what is pending is looked up as late as possible.
Dispatch ==
  /\ ~InProgram /\ ~InRoutine
  /\ ipending # {}
  /\ Becomes([Current EXCEPT !.irq = Lowest(ipending)])
  /\ UNCHANGED <<PIE, ienable, alt_irq_active, alt_priority_mask, asserted>>

\* Nothing is pending any more: eret restores the status of before.
HandlerExit ==
  /\ ~InProgram /\ ~InRoutine
  /\ ipending = {}
  /\ PIE' = TRUE
  /\ contexts' = SubSeq(contexts, 1, Depth - 1)
  /\ UNCHANGED <<ienable, alt_irq_active, alt_priority_mask, asserted>>

RoutineServes ==
  /\ InRoutine
  /\ Current.irq \in asserted
  /\ asserted' = asserted \ {Current.irq}
  /\ UNCHANGED <<PIE, ienable, alt_irq_active, alt_priority_mask, contexts>>

RoutineReturns ==
  /\ InRoutine
  /\ ~Current.open /\ Current.saved = <<>>
  /\ Becomes(Fresh)
  /\ UNCHANGED <<PIE, ienable, alt_irq_active, alt_priority_mask, asserted>>

-----------------------------------------------------------------------------
\* (1 << priority) - 1
MoreUrgent(priority) == 0 .. priority - 1

\* A routine opens itself to more urgent interrupts, once and outside its own
\* critical sections, and closes itself before it returns.
alt_irq_interruptible ==
  /\ InRoutine /\ ~Current.open /\ Current.saved = <<>>
  /\ Becomes([Current EXCEPT !.open = TRUE, !.old = alt_priority_mask])
  /\ alt_priority_mask' = MoreUrgent(Current.irq)
  /\ ienable' = alt_irq_active \cap MoreUrgent(Current.irq)
  /\ PIE' = TRUE
  /\ UNCHANGED <<alt_irq_active, asserted>>

alt_irq_non_interruptible ==
  /\ InRoutine /\ Current.open /\ Current.saved = <<>>
  /\ Becomes([Current EXCEPT !.open = FALSE, !.old = Irqs])
  /\ PIE' = FALSE
  /\ alt_priority_mask' = Current.old
  /\ ienable' = Current.old \cap alt_irq_active
  /\ UNCHANGED <<alt_irq_active, asserted>>

-----------------------------------------------------------------------------
\* Every context may disable interrupts, also more than once.
alt_irq_disable_all ==
  /\ InProgram \/ InRoutine
  /\ Len(Current.saved) < MaxNesting
  /\ Becomes([Current EXCEPT !.saved = Append(@, PIE)])
  /\ PIE' = FALSE
  /\ UNCHANGED <<ienable, alt_irq_active, alt_priority_mask, asserted>>

\* Variant: interrupts are enabled, whatever they were before.
EnabledAgain(saved) == TRUE

Restored(saved) == saved[Len(saved)]

alt_irq_enable_all ==
  /\ Current.saved # <<>>
  /\ PIE' = Restored(Current.saved)
  /\ Becomes([Current EXCEPT !.saved = SubSeq(@, 1, Len(@) - 1)])
  /\ UNCHANGED <<ienable, alt_irq_active, alt_priority_mask, asserted>>

SetActive(active) ==
  /\ alt_irq_active' = active
  /\ ienable' = active
  /\ UNCHANGED <<PIE, alt_priority_mask, asserted, contexts>>

alt_irq_enable(id) == SetActive(alt_irq_active \cup {id})
alt_irq_disable(id) == SetActive(alt_irq_active \ {id})

(***************************************************************************)
(* The program registers a handler, which enables the interrupt, or        *)
(* removes it, which disables it: one critical section.  (A routine inside *)
(* an open one must not: ienable is written without alt_priority_mask.)    *)
(***************************************************************************)
alt_iic_isr_register ==
  /\ InProgram
  /\ \E id \in Irqs : alt_irq_enable(id) \/ alt_irq_disable(id)

IrqNext ==
  \/ Device \/ Taken \/ Dispatch \/ HandlerExit
  \/ RoutineServes \/ RoutineReturns
  \/ alt_irq_interruptible \/ alt_irq_non_interruptible
  \/ alt_irq_disable_all \/ alt_irq_enable_all
  \/ alt_iic_isr_register

-----------------------------------------------------------------------------
IrqTypeOK ==
  /\ PIE \in BOOLEAN
  /\ ienable \subseteq Irqs /\ alt_irq_active \subseteq Irqs
  /\ alt_priority_mask \subseteq Irqs /\ asserted \subseteq Irqs
  /\ contexts \in Seq([irq : Irqs \cup {NoIrq}, saved : Seq(BOOLEAN),
                       open : BOOLEAN, old : SUBSET Irqs])
  /\ Depth > 0

(***************************************************************************)
(* Interrupts nest as they should: nobody is interrupted between a         *)
(* disable_all and the enable_all that belongs to it, however these are    *)
(* nested, and a routine is interrupted only if it is open, by a more      *)
(* urgent one (alt_irq.h:143-183, alt_legacy_irq.h:118-149,                *)
(* alt_irq_handler.c:135-160).                                             *)
(***************************************************************************)
Interrupted(k) == k < Depth
CriticalSectionsHold == \A k \in 1 .. Depth : Interrupted(k) => contexts[k].saved = <<>>
PriorityOrder ==
  \A k \in 2 .. Depth :
    /\ Interrupted(k) => contexts[k].open
    /\ \A above \in k + 1 .. Depth :
         contexts[above].irq # NoIrq => contexts[above].irq < contexts[k].irq
InterruptsNest == CriticalSectionsHold /\ PriorityOrder
=============================================================================
