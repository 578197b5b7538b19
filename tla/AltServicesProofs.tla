---------------------------- MODULE AltServicesProofs ---------------------------
(***************************************************************************)
(* Theorems about the services of the HAL that interrupts and the program  *)
(* share: the interrupts themselves, the log, the heap and the profiler,   *)
(* and the caches.  They hold for every number of interrupt lines and of   *)
(* critical sections one inside the other, every depth of the FIFO and     *)
(* every length of a line, every size of heap, slab and entry, and every   *)
(* cache, region and block.                                                *)
(***************************************************************************)
EXTENDS AltIrq, AltLog, AltGmon, AltCache, SequenceTheorems, WellFoundedInduction, TLAPS

Context == [irq : Irqs \cup {NoIrq}, saved : Seq(BOOLEAN), open : BOOLEAN, old : SUBSET Irqs]

(***************************************************************************)
(* The inductive invariant.  A context that is interrupted is the program  *)
(* or an open routine, outside its critical sections; the running one has  *)
(* interrupts enabled under the same condition, and the first of its       *)
(* disable_all calls has saved that.  alt_priority_mask is what the open   *)
(* routine nearest to the top lets in, and ienable never exceeds it.       *)
(***************************************************************************)
Below(cs, k) == IF k <= 2 THEN Irqs ELSE MoreUrgent(cs[k - 1].irq)
MaskAt(cs, k) ==
  IF k = 1 THEN Irqs
  ELSE IF cs[k].open THEN MoreUrgent(cs[k].irq) ELSE Below(cs, k)

Opened(context, k) == k = 1 \/ context.open

Level(cs, k) ==
  /\ k = 1 => cs[k].irq = NoIrq /\ ~cs[k].open
  /\ k > 1 /\ cs[k].open => cs[k].irq # NoIrq /\ cs[k].old = Below(cs, k)
  /\ k > 1 /\ cs[k].irq = NoIrq => cs[k].saved = <<>>
  /\ k < Len(cs) => cs[k].saved = <<>> /\ Opened(cs[k], k)

Stack(cs) ==
  /\ \A k \in 1 .. Len(cs) : Level(cs, k)
  /\ \A k, above \in 2 .. Len(cs) :
       k < above /\ cs[above].irq # NoIrq => cs[above].irq < cs[k].irq

Top(context, k) ==
  /\ context.saved = <<>> => (PIE <=> Opened(context, k))
  /\ context.saved # <<>> =>
       /\ ~PIE
       /\ context.saved[1] <=> Opened(context, k)
       /\ \A i \in 2 .. Len(context.saved) : ~context.saved[i]

IrqInv ==
  /\ IrqTypeOK
  /\ Stack(contexts) /\ Top(Current, Depth)
  /\ alt_priority_mask = MaskAt(contexts, Depth)
  /\ ienable = alt_irq_active \cap alt_priority_mask

-----------------------------------------------------------------------------
LEMMA Contexts ==
  ASSUME IrqTypeOK
  PROVE  /\ contexts \in Seq(Context) /\ Depth \in Nat /\ Depth > 0
         /\ \A k \in 1 .. Depth : contexts[k] \in Context
         /\ Current \in Context
<1>1. contexts \in Seq(Context) /\ Depth \in Nat /\ Depth > 0
  BY DEF IrqTypeOK, Context, Depth
<1>2. \A k \in 1 .. Depth : contexts[k] \in Context
  BY <1>1, ElementOfSeq DEF Depth
<1>3. Depth \in 1 .. Depth
  BY <1>1
<1> QED
  BY <1>1, <1>2, <1>3 DEF Current

LEMMA LeastExists ==
  ASSUME NEW S, S \subseteq Nat, S # {}
  PROVE  \E i \in S : \A j \in S : i <= j
<1>1. PICK i \in S : \A j \in S : ~ (<<j, i>> \in OpToRel(<, Nat))
  BY WFMin, NatLessThanWellFounded
<1>2. \A j \in S : ~(j < i)
  BY <1>1 DEF OpToRel
<1> QED
  BY <1>2

\* What alt_irq_handler() finds first is one of the pending interrupts.
LEMMA LowestIn ==
  ASSUME IrqTypeOK, ipending # {}
  PROVE  Lowest(ipending) \in ipending
<1>1. ipending \subseteq Nat
  BY IrqAssumption DEF ipending, IrqTypeOK, Irqs
<1>2. \E i \in ipending : \A j \in ipending : i <= j
  BY <1>1, LeastExists
<1> QED
  BY <1>2 DEF Lowest

-----------------------------------------------------------------------------
(***************************************************************************)
(* The three things that happen to the contexts keep their order.          *)
(***************************************************************************)
\* The running context changes: its interrupt stays, or is one that was let in.
LEMMA BecomesStack ==
  ASSUME IrqInv, NEW c \in Context, Becomes(c),
         Depth = 1 => c.irq = NoIrq /\ ~c.open,
         Depth > 1 /\ c.open => c.irq # NoIrq /\ c.old = Below(contexts, Depth),
         Depth > 1 /\ c.irq = NoIrq => c.saved = <<>>,
         c.irq = Current.irq \/ c.irq = NoIrq \/ c.irq \in Below(contexts, Depth)
  PROVE  /\ contexts' \in Seq(Context) /\ Depth' = Depth /\ Current' = c
         /\ Stack(contexts')
         /\ MaskAt(contexts', Depth) =
              IF Depth > 1 /\ c.open THEN MoreUrgent(c.irq) ELSE Below(contexts, Depth)
<1> USE IrqAssumption
<1>1. /\ contexts \in Seq(Context) /\ Depth \in Nat \ {0}
      /\ \A k \in 1 .. Depth : contexts[k] \in Context
  BY Contexts DEF IrqInv
<1>2. /\ contexts' \in Seq(Context) /\ Len(contexts') = Depth
      /\ contexts'[Depth] = c
      /\ \A k \in 1 .. Depth : k # Depth => contexts'[k] = contexts[k]
  BY <1>1, ExceptSeq DEF Becomes, Depth
<1>3. Depth' = Depth /\ Current' = c
  BY <1>2 DEF Current, Depth
<1>4. \A k \in 2 .. Depth : Below(contexts', k) = Below(contexts, k)
  BY <1>1, <1>2 DEF Below
<1>5. ASSUME NEW k \in 1 .. Depth PROVE Level(contexts', k)
  <2>1. CASE k = Depth
    BY <1>1, <1>2, <1>4, <2>1 DEF Level
  <2>2. CASE k # Depth
    <3>1. Level(contexts, k)
      BY DEF IrqInv, Stack, Depth
    <3> QED
      BY <1>1, <1>2, <1>4, <2>2, <3>1 DEF Level, Depth
  <2> QED
    BY <2>1, <2>2
<1>6. ASSUME NEW k \in 2 .. Depth, NEW above \in 2 .. Depth,
             k < above, contexts'[above].irq # NoIrq
      PROVE  contexts'[above].irq < contexts'[k].irq
  <2>1. contexts'[k] = contexts[k] /\ contexts[k] \in Context
    BY <1>1, <1>2, <1>6
  <2>2. CASE contexts'[above].irq = contexts[above].irq
    BY <1>6, <2>1, <2>2 DEF IrqInv, Stack, Depth
  <2>3. CASE above = Depth /\ c.irq # NoIrq /\ c.irq \in Below(contexts, Depth)
    <3>0. /\ Depth > 2 /\ Depth - 1 \in 1 .. Depth
          /\ contexts[k].irq \in Int /\ contexts[Depth - 1].irq \in Int
      BY <1>1, <1>6, <2>1, <2>3 DEF Context, Irqs, NoIrq
    <3>1. c.irq < contexts[Depth - 1].irq
      BY <1>1, <2>3, <3>0 DEF Below, MoreUrgent
    <3>2. CASE k = Depth - 1
      BY <1>2, <2>1, <2>3, <3>1, <3>2
    <3>3. CASE k < Depth - 1
      <4>1. Depth - 1 \in 2 .. Depth /\ Level(contexts, Depth - 1)
        BY <1>1, <1>6, <2>3, <3>3 DEF IrqInv, Stack, Depth
      <4>2. contexts[Depth - 1].irq # NoIrq
        BY <1>1, <4>1 DEF Level, Opened, Depth
      <4>3. contexts[Depth - 1].irq < contexts[k].irq
        BY <1>1, <3>3, <4>1, <4>2 DEF IrqInv, Stack, Depth
      <4> QED
        <5>1. c.irq \in Int
          BY DEF Context, Irqs, NoIrq
        <5> QED
          BY <1>2, <2>1, <2>3, <3>0, <3>1, <4>3, <5>1
    <3> QED
      BY <1>1, <1>6, <2>3, <3>2, <3>3
  <2> QED
    BY <1>2, <1>6, <2>2, <2>3 DEF Current
<1>7. Stack(contexts')
  BY <1>2, <1>5, <1>6 DEF Stack
<1>8. MaskAt(contexts', Depth) =
        IF Depth > 1 /\ c.open THEN MoreUrgent(c.irq) ELSE Below(contexts, Depth)
  BY <1>1, <1>2, <1>4 DEF MaskAt, Below
<1> QED
  BY <1>2, <1>3, <1>7, <1>8

\* PIE is set only where an interrupt may come.
LEMMA EnabledIsOpen ==
  ASSUME IrqInv, PIE
  PROVE  Current.saved = <<>> /\ Opened(Current, Depth)
BY DEF IrqInv, Top

LEMMA TakenInv == IrqInv /\ Taken => IrqInv'
<1> SUFFICES ASSUME IrqInv, Taken PROVE IrqInv'
  OBVIOUS
<1> USE IrqAssumption
<1>1. /\ contexts \in Seq(Context) /\ Depth \in Nat \ {0}
      /\ \A k \in 1 .. Depth : contexts[k] \in Context
  BY Contexts DEF IrqInv
<1>2. Fresh \in Context
  BY DEF Fresh, Context
<1>3. /\ contexts' \in Seq(Context) /\ Len(contexts') = Depth + 1
      /\ contexts'[Depth + 1] = Fresh
      /\ \A k \in 1 .. Depth : contexts'[k] = contexts[k]
  BY <1>1, <1>2 DEF Taken, Depth
<1>4. Depth' = Depth + 1 /\ Current' = Fresh
  BY <1>3 DEF Current, Depth
<1>5. \A k \in 1 .. Depth + 1 : Below(contexts', k) = Below(contexts, k)
  BY <1>1, <1>3 DEF Below
<1>6. ASSUME NEW k \in 1 .. Depth + 1 PROVE Level(contexts', k)
  <2>1. CASE k = Depth + 1
    BY <1>1, <1>3, <2>1 DEF Level, Fresh
  <2>2. CASE k # Depth + 1
    <3>1. Level(contexts, k) /\ k \in 1 .. Depth
      BY <1>1, <2>2 DEF IrqInv, Stack, Depth
    <3>2. k = Depth => contexts[k].saved = <<>> /\ Opened(contexts[k], k)
      BY EnabledIsOpen DEF Taken, Current
    <3> QED
      BY <1>1, <1>3, <1>5, <3>1, <3>2 DEF Level, Depth
  <2> QED
    BY <2>1, <2>2
<1>7. Stack(contexts')
  <2>1. ASSUME NEW k \in 2 .. Depth + 1, NEW above \in 2 .. Depth + 1,
               k < above, contexts'[above].irq # NoIrq
        PROVE  contexts'[above].irq < contexts'[k].irq
    <3>1. above # Depth + 1
      BY <1>3, <2>1 DEF Fresh
    <3>2. k \in 2 .. Depth /\ above \in 2 .. Depth
      BY <1>1, <2>1, <3>1
    <3> QED
      BY <1>3, <2>1, <3>2 DEF IrqInv, Stack, Depth
  <2> QED
    BY <1>3, <1>6, <2>1 DEF Stack
<1>8. MaskAt(contexts', Depth + 1) = MaskAt(contexts, Depth)
  <2>1. Opened(contexts[Depth], Depth)
    BY EnabledIsOpen DEF Taken, Current
  <2> QED
    BY <1>1, <1>3, <2>1 DEF MaskAt, Below, Opened, Fresh
<1>9. Top(Current, Depth)'
  <2>1. Fresh.saved = <<>> /\ ~Opened(Fresh, Depth + 1) /\ PIE' = FALSE
    BY <1>1 DEF Fresh, Opened, Taken
  <2> QED
    BY <1>4, <2>1 DEF Top, Opened
<1>10. IrqTypeOK'
  <2>1. PIE' = FALSE /\ UNCHANGED <<ienable, alt_irq_active, alt_priority_mask, asserted>>
    BY DEF Taken
  <2>2. Depth' > 0
    BY <1>1, <1>4
  <2> QED
    BY <1>3, <2>1, <2>2 DEF IrqInv, IrqTypeOK, Context
<1> QED
  BY <1>4, <1>7, <1>8, <1>9, <1>10 DEF IrqInv, Taken

LEMMA ExitInv == IrqInv /\ HandlerExit => IrqInv'
<1> SUFFICES ASSUME IrqInv, HandlerExit PROVE IrqInv'
  OBVIOUS
<1> USE IrqAssumption
<1>1. /\ contexts \in Seq(Context) /\ Depth \in Nat /\ Depth > 1
      /\ \A k \in 1 .. Depth : contexts[k] \in Context
  BY Contexts DEF IrqInv, HandlerExit, InProgram
<1> DEFINE top == Depth - 1
<1>2. top \in Nat \ {0} /\ top \in 1 .. Depth
  BY <1>1
<1>3. /\ contexts' \in Seq(Context) /\ Len(contexts') = top
      /\ \A k \in 1 .. top : contexts'[k] = contexts[k]
  <2>1. \A k \in 1 .. top : contexts[k] \in Context
    BY <1>1
  <2> QED
    BY <1>1, <2>1, SubSeqProperties DEF HandlerExit
<1>4. Depth' = top /\ Current' = contexts[top]
  BY <1>2, <1>3 DEF Current, Depth
<1>5. \A k \in 1 .. top : Below(contexts', k) = Below(contexts, k)
  BY <1>1, <1>3 DEF Below
<1>6. contexts[top].saved = <<>> /\ Opened(contexts[top], top)
  <2>1. Level(contexts, top)
    BY <1>2 DEF IrqInv, Stack, Depth
  <2> QED
    BY <1>1, <1>2, <2>1 DEF Level, Depth
<1>7. Stack(contexts')
  <2>1. ASSUME NEW k \in 1 .. top PROVE Level(contexts', k)
    <3>1. Level(contexts, k)
      BY <1>1 DEF IrqInv, Stack, Depth
    <3> QED
      BY <1>1, <1>3, <1>5, <3>1 DEF Level, Depth
  <2>2. \A k \in 2 .. top : k \in 2 .. Depth /\ k \in 1 .. top
    BY <1>1
  <2> HIDE DEF top
  <2> QED
    BY <1>3, <2>1, <2>2 DEF IrqInv, Stack, Depth
<1>8. MaskAt(contexts', top) = MaskAt(contexts, Depth)
  <2>1. ~contexts[Depth].open
    <3>1. contexts[Depth].irq = NoIrq /\ Level(contexts, Depth)
      BY <1>1 DEF HandlerExit, InRoutine, Current, IrqInv, Stack, Depth
    <3> QED
      BY <1>1, <3>1 DEF Level
  <2>2. MaskAt(contexts, Depth) = Below(contexts, Depth)
    BY <1>1, <2>1 DEF MaskAt
  <2> QED
    BY <1>1, <1>2, <1>3, <1>6, <2>2 DEF MaskAt, Below, Opened
<1>9. Top(Current, Depth)'
  BY <1>4, <1>6 DEF Top, HandlerExit, Opened
<1>10. IrqTypeOK'
  BY <1>2, <1>3, <1>4 DEF IrqInv, IrqTypeOK, HandlerExit, Context
<1> QED
  BY <1>4, <1>7, <1>8, <1>9, <1>10 DEF IrqInv, HandlerExit

-----------------------------------------------------------------------------
(***************************************************************************)
(* The steps of the running context.                                       *)
(***************************************************************************)
LEMMA DispatchInv == IrqInv /\ Dispatch => IrqInv'
<1> SUFFICES ASSUME IrqInv, Dispatch PROVE IrqInv'
  OBVIOUS
<1> DEFINE id == Lowest(ipending)
           c == [Current EXCEPT !.irq = id]
<1>1. Depth > 1 /\ Current.irq = NoIrq /\ Current \in Context /\ Depth \in Nat
  BY Contexts DEF IrqInv, Dispatch, InProgram, InRoutine
<1>2. Level(contexts, Depth)
  BY <1>1 DEF IrqInv, Stack, Depth
<1>3. ~Current.open /\ Current.saved = <<>>
  BY <1>1, <1>2 DEF Level, Current
<1>4. id \in ienable /\ id \in Irqs
  BY LowestIn DEF IrqInv, IrqTypeOK, Dispatch, ipending
<1>5. alt_priority_mask = Below(contexts, Depth)
  BY <1>1, <1>3 DEF IrqInv, MaskAt, Current
<1>6. id \in Below(contexts, Depth) /\ id # NoIrq
  BY <1>4, <1>5, IrqAssumption DEF IrqInv, Irqs, NoIrq
<1> HIDE DEF id
<1>7. c \in Context /\ c.irq = id /\ ~c.open /\ c.saved = <<>>
  BY <1>1, <1>3, <1>4 DEF Context
<1>8. Becomes(c)
  BY DEF Dispatch, id
<1> HIDE DEF c
<1>9. /\ contexts' \in Seq(Context) /\ Depth' = Depth /\ Current' = c
      /\ Stack(contexts') /\ MaskAt(contexts', Depth) = Below(contexts, Depth)
  BY <1>1, <1>6, <1>7, <1>8, BecomesStack
<1>10. Top(Current, Depth)'
  <2>1. ~PIE
    BY <1>1, <1>3 DEF IrqInv, Top, Opened
  <2> QED
    BY <1>1, <1>7, <1>9, <2>1 DEF Top, Opened, Dispatch
<1>11. IrqTypeOK'
  BY <1>1, <1>9 DEF IrqInv, IrqTypeOK, Dispatch, Context
<1> QED
  BY <1>5, <1>9, <1>10, <1>11 DEF IrqInv, Dispatch

LEMMA RoutineReturnsInv == IrqInv /\ RoutineReturns => IrqInv'
<1> SUFFICES ASSUME IrqInv, RoutineReturns PROVE IrqInv'
  OBVIOUS
<1>1. Current \in Context /\ Depth \in Nat /\ Depth > 0
  BY Contexts DEF IrqInv
<1>2. Level(contexts, Depth)
  BY <1>1 DEF IrqInv, Stack, Depth
<1>3. Depth > 1 /\ ~Current.open /\ Current.saved = <<>> /\ Becomes(Fresh)
  BY <1>1, <1>2 DEF RoutineReturns, InRoutine, Level, Current
<1>4. Fresh \in Context /\ Fresh.irq = NoIrq /\ Fresh.saved = <<>> /\ ~Fresh.open
  BY DEF Fresh, Context
<1>5. /\ contexts' \in Seq(Context) /\ Depth' = Depth /\ Current' = Fresh
      /\ Stack(contexts') /\ MaskAt(contexts', Depth) = Below(contexts, Depth)
  BY <1>3, <1>4, BecomesStack
<1>6. alt_priority_mask = Below(contexts, Depth)
  BY <1>1, <1>3 DEF IrqInv, MaskAt, Current
<1>7. Top(Current, Depth)'
  BY <1>1, <1>3, <1>4, <1>5 DEF IrqInv, Top, Opened, RoutineReturns
<1>8. IrqTypeOK'
  BY <1>1, <1>5 DEF IrqInv, IrqTypeOK, RoutineReturns, Context
<1> QED
  BY <1>5, <1>6, <1>7, <1>8 DEF IrqInv, RoutineReturns

LEMMA InterruptibleInv == IrqInv /\ alt_irq_interruptible => IrqInv'
<1> SUFFICES ASSUME IrqInv, alt_irq_interruptible PROVE IrqInv'
  OBVIOUS
<1> USE IrqAssumption
<1> DEFINE c == [Current EXCEPT !.open = TRUE, !.old = alt_priority_mask]
<1>1. /\ Current \in Context /\ Depth \in Nat /\ Depth > 0
      /\ Current.irq # NoIrq /\ ~Current.open /\ Current.saved = <<>>
  BY Contexts DEF IrqInv, alt_irq_interruptible, InRoutine
<1>2. Level(contexts, Depth)
  BY <1>1 DEF IrqInv, Stack, Depth
<1>3. Depth > 1
  BY <1>1, <1>2 DEF Level, Current
<1>4. alt_priority_mask = Below(contexts, Depth)
  BY <1>1, <1>3 DEF IrqInv, MaskAt, Current
<1>5. /\ c \in Context /\ c.irq = Current.irq /\ c.open /\ c.saved = <<>>
      /\ c.old = Below(contexts, Depth)
  BY <1>1, <1>4 DEF Context, IrqInv, IrqTypeOK
<1>6. Becomes(c) /\ PIE' = TRUE /\ UNCHANGED <<alt_irq_active, asserted>>
  BY DEF alt_irq_interruptible
<1> HIDE DEF c
<1>7. /\ contexts' \in Seq(Context) /\ Depth' = Depth /\ Current' = c
      /\ Stack(contexts') /\ MaskAt(contexts', Depth) = MoreUrgent(Current.irq)
  BY <1>1, <1>3, <1>5, <1>6, BecomesStack
<1>8. Top(Current, Depth)'
  BY <1>5, <1>6, <1>7 DEF Top, Opened
<1>9. /\ alt_priority_mask' = MoreUrgent(Current.irq)
      /\ ienable' = alt_irq_active \cap MoreUrgent(Current.irq)
      /\ MoreUrgent(Current.irq) \subseteq Irqs
  BY <1>1 DEF alt_irq_interruptible, MoreUrgent, Context, Irqs, NoIrq
<1>10. IrqTypeOK'
  BY <1>1, <1>6, <1>7, <1>9 DEF IrqInv, IrqTypeOK, Context
<1> QED
  BY <1>6, <1>7, <1>8, <1>9, <1>10 DEF IrqInv

LEMMA NonInterruptibleInv == IrqInv /\ alt_irq_non_interruptible => IrqInv'
<1> SUFFICES ASSUME IrqInv, alt_irq_non_interruptible PROVE IrqInv'
  OBVIOUS
<1> USE IrqAssumption
<1> DEFINE c == [Current EXCEPT !.open = FALSE, !.old = Irqs]
<1>1. /\ Current \in Context /\ Depth \in Nat /\ Depth > 0
      /\ Current.irq # NoIrq /\ Current.open /\ Current.saved = <<>>
  BY Contexts DEF IrqInv, alt_irq_non_interruptible, InRoutine
<1>2. Level(contexts, Depth)
  BY <1>1 DEF IrqInv, Stack, Depth
<1>3. Depth > 1 /\ Current.old = Below(contexts, Depth)
  BY <1>1, <1>2 DEF Level, Current
<1>4. c \in Context /\ c.irq = Current.irq /\ ~c.open /\ c.saved = <<>>
  BY <1>1 DEF Context
<1>5. Becomes(c) /\ PIE' = FALSE /\ UNCHANGED <<alt_irq_active, asserted>>
  BY DEF alt_irq_non_interruptible
<1> HIDE DEF c
<1>6. /\ contexts' \in Seq(Context) /\ Depth' = Depth /\ Current' = c
      /\ Stack(contexts') /\ MaskAt(contexts', Depth) = Current.old
  BY <1>1, <1>3, <1>4, <1>5, BecomesStack
<1>7. Top(Current, Depth)'
  BY <1>3, <1>4, <1>5, <1>6 DEF Top, Opened
<1>8. /\ alt_priority_mask' = Current.old /\ ienable' = Current.old \cap alt_irq_active
      /\ Current.old \subseteq Irqs
  BY <1>1 DEF alt_irq_non_interruptible, Context
<1>9. IrqTypeOK'
  BY <1>1, <1>5, <1>6, <1>8 DEF IrqInv, IrqTypeOK, Context
<1> QED
  BY <1>5, <1>6, <1>7, <1>8, <1>9 DEF IrqInv

\* Opening and closing a critical section changes what is saved and PIE alone.
LEMMA SavedInv ==
  ASSUME IrqInv, NEW saved \in Seq(BOOLEAN),
         Becomes([Current EXCEPT !.saved = saved]), InProgram \/ InRoutine,
         PIE' \in BOOLEAN,
         saved = <<>> => (PIE' <=> Opened(Current, Depth)),
         saved # <<>> => ~PIE' /\ (saved[1] <=> Opened(Current, Depth)),
         \A i \in 2 .. Len(saved) : ~saved[i],
         UNCHANGED <<ienable, alt_irq_active, alt_priority_mask, asserted>>
  PROVE  IrqInv'
<1> USE IrqAssumption
<1> DEFINE c == [Current EXCEPT !.saved = saved]
<1>1. Current \in Context /\ Depth \in Nat /\ Depth > 0
  BY Contexts DEF IrqInv
<1>2. Level(contexts, Depth)
  BY <1>1 DEF IrqInv, Stack, Depth
<1>3. /\ c \in Context /\ c.irq = Current.irq /\ c.saved = saved
      /\ c.open = Current.open /\ c.old = Current.old
  BY <1>1 DEF Context
<1>4. Depth > 1 => Current.irq # NoIrq
  BY DEF InProgram, InRoutine
<1> HIDE DEF c
<1>5. /\ Depth = 1 => c.irq = NoIrq /\ ~c.open
      /\ Depth > 1 /\ c.open => c.irq # NoIrq /\ c.old = Below(contexts, Depth)
      /\ Depth > 1 /\ c.irq = NoIrq => c.saved = <<>>
  BY <1>2, <1>3, <1>4 DEF Level, Current
<1>6. Becomes(c)
  BY DEF c
<1>7. /\ contexts' \in Seq(Context) /\ Depth' = Depth /\ Current' = c
      /\ Stack(contexts')
      /\ MaskAt(contexts', Depth) =
           IF Depth > 1 /\ c.open THEN MoreUrgent(c.irq) ELSE Below(contexts, Depth)
  BY <1>3, <1>5, <1>6, BecomesStack
<1>8. MaskAt(contexts', Depth) = MaskAt(contexts, Depth)
  BY <1>1, <1>3, <1>7 DEF MaskAt, Below, Current
<1>9. Top(Current, Depth)'
  BY <1>3, <1>7 DEF Top, Opened
<1>10. IrqTypeOK'
  BY <1>1, <1>7 DEF IrqInv, IrqTypeOK, Context
<1> QED
  BY <1>7, <1>8, <1>9, <1>10 DEF IrqInv

LEMMA DisableInv == IrqInv /\ alt_irq_disable_all => IrqInv'
<1> SUFFICES ASSUME IrqInv, alt_irq_disable_all PROVE IrqInv'
  OBVIOUS
<1> DEFINE saved == Append(Current.saved, PIE)
<1>1. Current.saved \in Seq(BOOLEAN) /\ PIE \in BOOLEAN
  BY Contexts DEF IrqInv, IrqTypeOK, Context
<1>2. /\ saved \in Seq(BOOLEAN) /\ Len(saved) = Len(Current.saved) + 1
      /\ saved[Len(Current.saved) + 1] = PIE
      /\ \A i \in 1 .. Len(Current.saved) : saved[i] = Current.saved[i]
      /\ Len(Current.saved) \in Nat
  BY <1>1
<1>3. /\ PIE' = FALSE /\ Becomes([Current EXCEPT !.saved = saved])
      /\ InProgram \/ InRoutine
      /\ UNCHANGED <<ienable, alt_irq_active, alt_priority_mask, asserted>>
  BY DEF alt_irq_disable_all
<1> HIDE DEF saved
<1>4. CASE Current.saved = <<>>
  <2>0. Len(Current.saved) = 0 /\ Len(<<>>) = 0
    BY <1>4
  <2>1. Len(saved) = 1 /\ saved # <<>> /\ saved[1] = PIE
    <3>1. Len(saved) = 1 /\ saved[1] = PIE
      BY <1>2, <2>0
    <3> QED
      BY <2>0, <3>1
  <2>2. saved[1] <=> Opened(Current, Depth)
    BY <1>4, <2>1 DEF IrqInv, Top
  <2>3. \A i \in 2 .. Len(saved) : ~saved[i]
    BY <2>1
  <2> QED
    BY <1>2, <1>3, <2>1, <2>2, <2>3, SavedInv
<1>5. CASE Current.saved # <<>>
  <2>1. Len(Current.saved) > 0 /\ saved # <<>> /\ saved[1] = Current.saved[1]
    BY <1>1, <1>2, <1>5
  <2>2. /\ ~PIE
        /\ Current.saved[1] <=> Opened(Current, Depth)
        /\ \A i \in 2 .. Len(Current.saved) : ~Current.saved[i]
    BY <1>5 DEF IrqInv, Top
  <2>3. ASSUME NEW i \in 2 .. Len(saved) PROVE ~saved[i]
    <3>1. i = Len(Current.saved) + 1 \/ i \in 2 .. Len(Current.saved)
      BY <1>2
    <3>2. CASE i = Len(Current.saved) + 1
      BY <1>2, <2>2, <3>2
    <3>3. CASE i \in 2 .. Len(Current.saved)
      <4>1. saved[i] = Current.saved[i]
        BY <1>2, <3>3
      <4> QED
        BY <2>2, <3>3, <4>1
    <3> QED
      BY <3>1, <3>2, <3>3
  <2>4. /\ PIE' \in BOOLEAN /\ ~PIE'
        /\ saved[1] <=> Opened(Current, Depth)
    BY <1>3, <2>1, <2>2
  <2> QED
    BY <1>2, <1>3, <2>1, <2>3, <2>4, SavedInv
<1> QED
  BY <1>4, <1>5

LEMMA EnableInv == IrqInv /\ alt_irq_enable_all => IrqInv'
<1> SUFFICES ASSUME IrqInv, alt_irq_enable_all PROVE IrqInv'
  OBVIOUS
<1> DEFINE n == Len(Current.saved)
           saved == SubSeq(Current.saved, 1, n - 1)
<1>1. Current.saved \in Seq(BOOLEAN) /\ Current.saved # <<>> /\ Depth \in Nat /\ Depth > 0
  BY Contexts DEF IrqInv, Context, alt_irq_enable_all
<1>2. n \in Nat /\ n > 0
  BY <1>1
<1>3. /\ saved \in Seq(BOOLEAN) /\ Len(saved) = n - 1
      /\ \A i \in 1 .. n - 1 : saved[i] = Current.saved[i]
  BY <1>1, <1>2
<1>4. /\ PIE' = Current.saved[n] /\ Becomes([Current EXCEPT !.saved = saved])
      /\ UNCHANGED <<ienable, alt_irq_active, alt_priority_mask, asserted>>
  BY DEF alt_irq_enable_all, Restored
<1>5. InProgram \/ InRoutine
  <2>1. Level(contexts, Depth)
    BY <1>1 DEF IrqInv, Stack, Depth
  <2> QED
    BY <1>1, <2>1 DEF Level, Current, InProgram, InRoutine
<1>6. /\ Current.saved[1] <=> Opened(Current, Depth)
      /\ \A i \in 2 .. n : ~Current.saved[i]
  BY <1>1 DEF IrqInv, Top
<1>7. PIE' \in BOOLEAN
  BY <1>1, <1>2, <1>4
<1> HIDE DEF saved, n
<1>8. \A i \in 2 .. Len(saved) : ~saved[i]
  BY <1>2, <1>3, <1>6
<1>9. CASE n = 1
  <2>1. saved = <<>> /\ (PIE' <=> Opened(Current, Depth))
    BY <1>3, <1>4, <1>6, <1>9
  <2> QED
    BY <1>3, <1>4, <1>5, <1>7, <1>8, <2>1, SavedInv
<1>10. CASE n > 1
  <2>1. ~PIE' /\ saved # <<>> /\ (saved[1] <=> Opened(Current, Depth))
    BY <1>2, <1>3, <1>4, <1>6, <1>10
  <2> QED
    BY <1>3, <1>4, <1>5, <1>7, <1>8, <2>1, SavedInv
<1> QED
  BY <1>2, <1>9, <1>10

\* Handlers are registered by the program, where the mask lets everything in.
LEMMA RegisterInv == IrqInv /\ alt_iic_isr_register => IrqInv'
<1> SUFFICES ASSUME IrqInv, alt_iic_isr_register PROVE IrqInv'
  OBVIOUS
<1>1. PICK active \in SUBSET Irqs : SetActive(active) /\ Depth = 1
  BY DEF alt_iic_isr_register, alt_irq_enable, alt_irq_disable, IrqInv, IrqTypeOK, InProgram
<1>2. alt_priority_mask = Irqs
  BY <1>1 DEF IrqInv, MaskAt
<1>3. ienable' = alt_irq_active' \cap alt_priority_mask'
  BY <1>1, <1>2 DEF SetActive
<1> QED
  BY <1>1, <1>3 DEF IrqInv, IrqTypeOK, SetActive, Top, Current, Depth

LEMMA IrqInitInv == IrqInit => IrqInv
<1> SUFFICES ASSUME IrqInit PROVE IrqInv
  OBVIOUS
<1> USE IrqAssumption DEF IrqInit
<1>1. /\ Depth = 1 /\ Current = Fresh /\ Fresh \in Context /\ contexts[1] = Fresh
      /\ Len(contexts) = 1
  BY DEF Depth, Current, Fresh, Context
<1>2. IrqTypeOK
  BY <1>1 DEF IrqTypeOK, Context
<1>3. Stack(contexts) /\ MaskAt(contexts, 1) = Irqs
  BY <1>1 DEF Stack, Level, MaskAt, Fresh
<1>4. Top(Fresh, 1)
  BY DEF Top, Fresh, Opened
<1> QED
  BY <1>1, <1>2, <1>3, <1>4 DEF IrqInv

LEMMA IrqStepInv == IrqInv /\ [IrqNext]_irqVars => IrqInv'
<1> SUFFICES ASSUME IrqInv, [IrqNext]_irqVars PROVE IrqInv'
  OBVIOUS
<1>1. CASE Device \/ RoutineServes \/ UNCHANGED irqVars
  <2>1. /\ UNCHANGED <<PIE, ienable, alt_irq_active, alt_priority_mask, contexts>>
        /\ asserted' \subseteq Irqs
    BY <1>1 DEF Device, RoutineServes, irqVars, IrqInv, IrqTypeOK
  <2> QED
    BY <2>1 DEF IrqInv, IrqTypeOK, Top, Current, Depth
<1> QED
  BY <1>1, TakenInv, ExitInv, DispatchInv, RoutineReturnsInv, InterruptibleInv,
     NonInterruptibleInv, DisableInv, EnableInv, RegisterInv DEF IrqNext

-----------------------------------------------------------------------------
IrqSpec == IrqInit /\ [][IrqNext]_irqVars

\* The invariant holds in every state.
THEOREM IrqInvCorrect == IrqSpec => []IrqInv
<1> QED
  BY IrqInitInv, IrqStepInv, PTL DEF IrqSpec

\* Contexts, masks and pending interrupts keep their types (alt_irq.h, alt_irq_handler.c).
THEOREM IrqTypeCorrect == IrqSpec => []IrqTypeOK
<1>1. IrqInv => IrqTypeOK BY DEF IrqInv
<1> QED BY <1>1, IrqInvCorrect, PTL

\* Nobody is interrupted in a critical section, and a routine only by a more
\* urgent one and while it is open, however deep critical sections and
\* interrupts nest.
THEOREM InterruptsNestCorrect == IrqSpec => []InterruptsNest
<1>1. IrqInv => InterruptsNest
  <2> SUFFICES ASSUME IrqInv PROVE InterruptsNest
    OBVIOUS
  <2>1. Depth \in Nat /\ Depth > 0 /\ Len(contexts) = Depth
    BY Contexts DEF IrqInv, Depth
  <2>2. CriticalSectionsHold
    BY <2>1 DEF CriticalSectionsHold, Interrupted, IrqInv, Stack, Level
  <2>3. PriorityOrder
    BY <2>1 DEF PriorityOrder, Interrupted, IrqInv, Stack, Level, Opened
  <2> QED
    BY <2>2, <2>3 DEF InterruptsNest
<1> QED
  BY <1>1, IrqInvCorrect, PTL
-----------------------------------------------------------------------------
(***************************************************************************)
(* The log.  A line that has looked and was not interrupted since finds    *)
(* the place it saw: the handlers, who may take it, make the look stale.   *)
(***************************************************************************)
LineRecord == [left : Nat, looked : {"no", "yes", "stale"}, lost : Nat, stale : Nat]

LogInv ==
  /\ LogTypeOK
  /\ program \in LineRecord /\ handler \in LineRecord
  /\ handler.looked # "stale"
  /\ handler.looked = "yes" => Printing(handler) /\ space > 0
  /\ program.looked # "no" => Printing(program)
  /\ program.looked = "yes" => space > 0 /\ ~Printing(handler) /\ ~uartIrq
  /\ LogLosesOnlyStale

LEMMA NewLine ==
  ASSUME NEW length \in Nat
  PROVE  /\ Line(length) \in LineRecord
         /\ Line(length).looked = "no" /\ Line(length).lost = 0 /\ Line(length).stale = 0
BY DEF Line, LineRecord

LEMMA LookedLine ==
  ASSUME NEW line \in LineRecord
  PROVE  /\ Look(line) \in LineRecord /\ Look(line).looked = "yes"
         /\ Look(line).left = line.left
         /\ Look(line).lost = line.lost /\ Look(line).stale = line.stale
BY DEF Look, LineRecord

LEMMA PutLine ==
  ASSUME NEW line \in LineRecord, Printing(line), space \in 0 .. LogDepth
  PROVE  /\ Put(line) \in LineRecord /\ Put(line).looked = "no"
         /\ Put(line).lost = line.lost + (IF space = 0 THEN 1 ELSE 0)
         /\ Put(line).stale = line.stale + (IF line.looked = "stale" THEN 1 ELSE 0)
         /\ SpaceAfterPut \in 0 .. LogDepth
BY LogAssumption DEF Put, LineRecord, LookedAfter, SpaceAfterPut, Printing

\* What the interrupts do to the line of the program.
LEMMA InterruptedLine ==
  ASSUME LogInv, Interrupts
  PROVE  /\ program' \in LineRecord /\ program'.looked # "yes"
         /\ program'.looked # "no" => Printing(program')
         /\ program'.lost <= program'.stale
<1>1. CASE program.looked = "yes"
  <2>1. program' = [program EXCEPT !.looked = "stale"] BY <1>1 DEF Interrupts
  <2> QED BY <1>1, <2>1 DEF LogInv, LineRecord, Printing, LogLosesOnlyStale
<1>2. CASE program.looked # "yes"
  <2>1. program' = program BY <1>2 DEF Interrupts
  <2> QED BY <1>2, <2>1 DEF LogInv, LogLosesOnlyStale
<1> QED BY <1>1, <1>2

LEMMA LogLines ==
  ASSUME program \in LineRecord, handler \in LineRecord
  PROVE  \A line \in {program, handler} :
           /\ line.left \in Nat /\ line.lost \in Nat /\ line.stale \in Nat
           /\ line.looked \in {"no", "yes", "stale"}
BY DEF LineRecord

LEMMA LogStep == LogInv /\ [LogNext]_logVars => LogInv'
<1> SUFFICES ASSUME LogInv, [LogNext]_logVars PROVE LogInv'
  OBVIOUS
<1>t. /\ ALT_LOG_FLAGS \in -1 .. 3 /\ space \in 0 .. LogDepth /\ uartIrq \in BOOLEAN
      /\ alt_log_sys_clk_count \in 0 .. ALT_LOG_SYS_CLK_INTERVAL
      /\ LogDepth \in Nat /\ LogDepth > 0 /\ ALT_LOG_SYS_CLK_INTERVAL \in Nat
      /\ LineLengths \subseteq Nat /\ WriteLengths \subseteq Nat /\ ALT_LOG_WRITE_ECHO_LEN \in Nat
      /\ \A length \in LineLengths : length > 0
  BY LogAssumption DEF LogInv, LogTypeOK
<1>n. NoLine \in LineRecord /\ NoLine.looked = "no" /\ NoLine.lost = 0 /\ ~Printing(NoLine)
  BY DEF NoLine, Line, LineRecord, Printing
<1>1. CASE UNCHANGED logVars
  BY <1>1 DEF logVars, LogInv, LogTypeOK, LogLosesOnlyStale
<1>2. CASE ProgramPrints
  <2>1. /\ Printing(program) /\ ~Printing(handler) /\ ~uartIrq
        /\ UNCHANGED <<ALT_LOG_FLAGS, handler, uartIrq, alt_log_sys_clk_count>>
    BY <1>2 DEF ProgramPrints
  <2>2. CASE Looked(program) /\ program' = Look(program) /\ UNCHANGED space
    BY <1>t, <2>1, <2>2, LookedLine, LogLines DEF LogInv, LogTypeOK, Looked, Printing, LogLosesOnlyStale
  <2>3. CASE program.looked # "no" /\ program' = Put(program) /\ space' = SpaceAfterPut
    <3>1. /\ program' \in LineRecord /\ program'.looked = "no"
          /\ program'.lost = program.lost + (IF space = 0 THEN 1 ELSE 0)
          /\ program'.stale = program.stale + (IF program.looked = "stale" THEN 1 ELSE 0)
          /\ space' \in 0 .. LogDepth
      BY <1>t, <2>1, <2>3, PutLine DEF LogInv
    <3>2. handler.looked = "no" BY <2>1 DEF LogInv, LineRecord
    <3>3. program'.lost <= program'.stale
      <4>1. /\ program.lost \in Nat /\ program.stale \in Nat /\ program.lost <= program.stale
            /\ program.looked \in {"yes", "stale"}
        BY <2>3 DEF LogInv, LineRecord, LogLosesOnlyStale
      <4>2. space = 0 => program.looked = "stale" BY <4>1, <1>t DEF LogInv
      <4> QED BY <3>1, <4>1, <4>2
    <3> QED BY <1>t, <2>1, <3>1, <3>2, <3>3, LogLines DEF LogInv, LogTypeOK, LogLosesOnlyStale, LineRecord
  <2> QED BY <1>2, <2>2, <2>3 DEF ProgramPrints, alt_log_txchar
<1>3. CASE HandlerPrints
  <2>1. /\ Printing(handler)
        /\ UNCHANGED <<ALT_LOG_FLAGS, program, uartIrq, alt_log_sys_clk_count>>
        /\ program.looked # "yes"
    BY <1>3 DEF HandlerPrints, LogInv
  <2>2. CASE Looked(handler) /\ handler' = Look(handler) /\ UNCHANGED space
    BY <1>t, <2>1, <2>2, LookedLine, LogLines DEF LogInv, LogTypeOK, Looked, Printing, LogLosesOnlyStale
  <2>3. CASE handler.looked # "no" /\ handler' = Put(handler) /\ space' = SpaceAfterPut
    <3>1. handler.looked = "yes" /\ space > 0
      BY <2>3 DEF LogInv, LineRecord
    <3>2. /\ handler' \in LineRecord /\ handler'.looked = "no"
          /\ handler'.lost = handler.lost + (IF space = 0 THEN 1 ELSE 0)
          /\ space' \in 0 .. LogDepth
      BY <1>t, <2>1, <2>3, PutLine DEF LogInv
    <3>3. handler'.lost = 0
      BY <1>t, <3>1, <3>2 DEF LogInv, LogLosesOnlyStale
    <3> QED BY <1>t, <2>1, <3>2, <3>3, LogLines DEF LogInv, LogTypeOK, LogLosesOnlyStale, LineRecord
  <2> QED BY <1>3, <2>2, <2>3 DEF HandlerPrints, alt_log_txchar
<1>4. CASE ProgramLogs
  <2>1. /\ ~Printing(handler) /\ ~uartIrq
        /\ UNCHANGED <<ALT_LOG_FLAGS, space, handler, uartIrq, alt_log_sys_clk_count>>
    BY <1>4 DEF ProgramLogs
  <2>2. program' \in LineRecord /\ program'.looked = "no" /\ program'.lost = 0 /\ program'.stale = 0
    <3>1. PICK length \in LineLengths :
            \/ program' = Line(length)
            \/ \E len \in WriteLengths : program' = EchoLine(len, length)
      BY <1>4 DEF ProgramLogs
    <3>2. CASE program' = Line(length) BY <1>t, <3>2, NewLine
    <3>3. ASSUME NEW len \in WriteLengths, program' = EchoLine(len, length)
          PROVE  \E k \in Nat : program' = Line(k)
      <4>1. len \in Nat /\ EchoLength(len) \in Nat BY <1>t DEF EchoLength
      <4>2. length + EchoLength(len) + 1 \in Nat BY <1>t, <4>1
      <4> QED BY <3>3, <4>2 DEF EchoLine, NoLine
    <3> QED BY <3>1, <3>2, <3>3, NewLine
  <2> QED BY <1>t, <2>1, <2>2, LogLines DEF LogInv, LogTypeOK, LogLosesOnlyStale, LineRecord
<1>5. CASE Tick \/ ReportAlarm \/ UartInterrupt
  <2>1. /\ Interrupts /\ UNCHANGED <<ALT_LOG_FLAGS, space>>
        /\ uartIrq' \in BOOLEAN
        /\ handler' = NoLine \/ \E length \in LineLengths : handler' = Line(length)
    BY <1>5, <1>t DEF Tick, ReportAlarm, UartInterrupt
  <2>2. handler' \in LineRecord /\ handler'.looked = "no" /\ handler'.lost = 0
    BY <1>n, <1>t, <2>1, NewLine
  <2>3. alt_log_sys_clk_count' \in 0 .. ALT_LOG_SYS_CLK_INTERVAL
    BY <1>5, <1>t DEF Tick, ReportAlarm, UartInterrupt, Beats
  <2>4. /\ program' \in LineRecord /\ program'.looked # "yes"
        /\ program'.looked # "no" => Printing(program')
        /\ program'.lost <= program'.stale
    BY <2>1, InterruptedLine
  <2> QED BY <1>t, <2>1, <2>2, <2>3, <2>4, LogLines DEF LogInv, LogTypeOK, LogLosesOnlyStale, LineRecord
<1>6. CASE UartFills
  <2>1. /\ uartIrq /\ ~Printing(handler) /\ uartIrq' = FALSE /\ space' \in 0 .. space
        /\ UNCHANGED <<ALT_LOG_FLAGS, program, handler, alt_log_sys_clk_count>>
    BY <1>6 DEF UartFills
  <2>2. program.looked # "yes" /\ handler.looked # "yes" BY <2>1 DEF LogInv
  <2>3. space' \in 0 .. LogDepth BY <1>t, <2>1
  <2>4. LogTypeOK' BY <1>t, <2>1, <2>3, LogLines DEF LogInv, LogTypeOK
  <2> QED BY <2>1, <2>2, <2>4 DEF LogInv, LogTypeOK, LogLosesOnlyStale
<1>7. CASE HostReads
  <2>1. /\ space < LogDepth /\ space' = space + 1
        /\ UNCHANGED <<ALT_LOG_FLAGS, program, handler, uartIrq, alt_log_sys_clk_count>>
    BY <1>7 DEF HostReads
  <2> QED BY <1>t, <2>1 DEF LogInv, LogTypeOK, LogLosesOnlyStale
<1> QED BY <1>1, <1>2, <1>3, <1>4, <1>5, <1>6, <1>7 DEF LogNext

LEMMA LogInitInv == LogInit => LogInv
<1> SUFFICES ASSUME LogInit PROVE LogInv
  OBVIOUS
<1>1. /\ ALT_LOG_FLAGS \in -1 .. 3 /\ space = LogDepth /\ uartIrq = FALSE
      /\ alt_log_sys_clk_count = 0
      /\ program = Line(0) /\ handler = Line(0)
  BY DEF LogInit, NoLine
<1>2. /\ program \in LineRecord /\ handler \in LineRecord
      /\ program.looked = "no" /\ handler.looked = "no"
      /\ program.lost = 0 /\ program.stale = 0 /\ handler.lost = 0
  BY <1>1, NewLine
<1>3. LogTypeOK
  <2>1. space \in 0 .. LogDepth /\ alt_log_sys_clk_count \in 0 .. ALT_LOG_SYS_CLK_INTERVAL
    BY <1>1, LogAssumption
  <2>2. \A line \in {program, handler} :
          /\ line.left \in Nat /\ line.lost \in Nat /\ line.stale \in Nat
          /\ line.looked \in {"no", "yes", "stale"}
    BY <1>2, LogLines
  <2>3. uartIrq \in BOOLEAN /\ ALT_LOG_FLAGS \in -1 .. 3 BY <1>1
  <2> QED BY <2>1, <2>2, <2>3 DEF LogTypeOK
<1> QED BY <1>1, <1>2, <1>3 DEF LogInv, LogLosesOnlyStale

\* A look at the room is stale only after an interrupt that writes
\* (alt_log_printf.c:95-102).
THEOREM LogInvCorrect == LogSpec => []LogInv
<1> QED BY LogInitInv, LogStep, PTL DEF LogSpec

\* Writers, buffer and options of the log keep their types.
THEOREM LogTypeCorrect == LogSpec => []LogTypeOK
<1>1. LogInv => LogTypeOK BY DEF LogInv
<1> QED BY <1>1, LogInvCorrect, PTL

(***************************************************************************)
(* LogLosesOnlyStale for every depth of the FIFO, every level of the log   *)
(* and lines of every length.                                              *)
(***************************************************************************)
THEOREM LogLosesOnlyStaleCorrect == LogSpec => []LogLosesOnlyStale
<1>1. LogInv => LogLosesOnlyStale BY DEF LogInv
<1> QED BY <1>1, LogInvCorrect, PTL
-----------------------------------------------------------------------------
(***************************************************************************)
(* The heap.  What is left of the slab lies in the heap, apart from every  *)
(* block, or where a refusal is taken for; then the heap has no room for a *)
(* slab and never gets any.                                                *)
(***************************************************************************)
MemBlock == [from : Int, to : Int]

InHeap(b, end) == HeapStart <= b.from /\ b.from <= b.to /\ b.to <= end /\ b.to <= HeapLimit
BlocksIn(s, end) == \A i \in DOMAIN s : InHeap(s[i], end)
AllApart(s) == \A i, j \in DOMAIN s : i # j => Apart(s[i], s[j])
ApartFrom(s, b) == \A i \in DOMAIN s : Apart(s[i], b)

AtRefusal(b, end, size) == Exceeds(end, size) /\ Refused <= b.from /\ b.to <= Refused + size
StraysAt(S, end) == \A b \in S : \E size \in {SlabSize, HistogramSize} : AtRefusal(b, end, size)

Slab(h) == MemoryBlock(h.ptr, h.left)

SlabOK(h) ==
  IF h.astray THEN AtRefusal(Slab(h), h.end, SlabSize)
  ELSE h.left > 0 => InHeap(Slab(h), h.end) /\ ApartFrom(h.blocks, Slab(h))

HeapTypes(h) ==
  /\ h.end \in Nat /\ HeapStart <= h.end
  /\ h.ptr \in Int /\ h.left \in 0 .. SlabSize /\ h.astray \in BOOLEAN
  /\ h.blocks \in Seq(MemBlock) /\ h.stray \subseteq MemBlock

HeapOK(h) ==
  /\ HeapTypes(h)
  /\ BlocksIn(h.blocks, h.end) /\ AllApart(h.blocks)
  /\ SlabOK(h)
  /\ StraysAt(h.stray, h.end)

LEMMA BlockIs ==
  ASSUME NEW at \in Int, NEW size \in Int
  PROVE  /\ MemoryBlock(at, size) \in MemBlock
         /\ MemoryBlock(at, size).from = at /\ MemoryBlock(at, size).to = at + size
BY DEF MemoryBlock, MemBlock

LEMMA SlabIs ==
  ASSUME NEW h, HeapTypes(h)
  PROVE  /\ Slab(h).from = h.ptr /\ Slab(h).to = h.ptr + h.left
         /\ Slab(h).from \in Int /\ Slab(h).to \in Int
<1>1. h.ptr \in Int /\ h.left \in Int BY DEF HeapTypes
<1>2. h.ptr + h.left \in Int BY <1>1
<1> QED BY <1>1, <1>2, BlockIs DEF Slab

LEMMA AlignedIs ==
  ASSUME NEW e \in Nat
  PROVE  Aligned(e) \in Nat /\ e <= Aligned(e)
<1>1. /\ (e + 3) \div 4 \in Nat /\ (e + 3) % 4 \in 0 .. 3
      /\ e + 3 = 4 * ((e + 3) \div 4) + ((e + 3) % 4)
  OBVIOUS
<1> QED BY <1>1 DEF Aligned

\* A heap that is too small stays too small.
LEMMA ExceedsStill ==
  ASSUME NEW e \in Nat, NEW f \in Nat, e <= f, NEW size \in Nat, Exceeds(e, size)
  PROVE  Exceeds(f, size)
<1>1. (e + 3) \div 4 <= (f + 3) \div 4 /\ (e + 3) \div 4 \in Nat /\ (f + 3) \div 4 \in Nat
  OBVIOUS
<1>2. Aligned(e) <= Aligned(f) /\ Aligned(e) \in Nat /\ Aligned(f) \in Nat BY <1>1 DEF Aligned
<1> QED BY <1>2, HeapAssumption DEF Exceeds

\* What sbrk() extends the heap by lies above what was there.
LEMMA SbrkIs ==
  ASSUME NEW e \in Nat, NEW size \in Nat, HeapStart <= e
  PROVE  /\ SbrkEnd(e, size) \in Nat /\ e <= SbrkEnd(e, size)
         /\ SbrkResult(e, size) \in Int
         /\ SbrkResult(e, size) # Refused =>
              /\ e <= SbrkResult(e, size)
              /\ SbrkEnd(e, size) = SbrkResult(e, size) + size
              /\ SbrkEnd(e, size) <= HeapLimit
         /\ SbrkResult(e, size) = Refused <=> Exceeds(e, size)
<1>1. PICK a \in Nat : a = Aligned(e) /\ e <= a BY AlignedIs
<1> QED BY <1>1, HeapAssumption DEF SbrkEnd, SbrkResult, Exceeds, Refused

LEMMA AppendBlock ==
  ASSUME NEW s \in Seq(MemBlock), NEW b \in MemBlock
  PROVE  /\ Append(s, b) \in Seq(MemBlock)
         /\ \A end : BlocksIn(s, end) /\ InHeap(b, end) => BlocksIn(Append(s, b), end)
         /\ \A c : ApartFrom(s, c) /\ Apart(b, c) => ApartFrom(Append(s, b), c)
         /\ AllApart(s) /\ ApartFrom(s, b) => AllApart(Append(s, b))
<1>1. Append(s, b) \in Seq(MemBlock) OBVIOUS
<1>2. \A k \in DOMAIN Append(s, b) :
        \/ k \in DOMAIN s /\ Append(s, b)[k] = s[k]
        \/ k = Len(s) + 1 /\ Append(s, b)[k] = b
  OBVIOUS
<1>3. \A c : Apart(b, c) <=> Apart(c, b) BY DEF Apart
<1>4. ASSUME AllApart(s), ApartFrom(s, b), NEW i \in DOMAIN Append(s, b),
             NEW j \in DOMAIN Append(s, b), i # j
      PROVE  Apart(Append(s, b)[i], Append(s, b)[j])
  BY <1>2, <1>3, <1>4 DEF AllApart, ApartFrom
<1>5. \A end : BlocksIn(s, end) /\ InHeap(b, end) => BlocksIn(Append(s, b), end)
  BY <1>2 DEF BlocksIn
<1>6. \A c : ApartFrom(s, c) /\ Apart(b, c) => ApartFrom(Append(s, b), c)
  BY <1>2 DEF ApartFrom
<1>7. AllApart(s) /\ ApartFrom(s, b) => AllApart(Append(s, b)) BY <1>4 DEF AllApart
<1> QED BY <1>1, <1>5, <1>6, <1>7

\* Blocks and slab lie in a heap that has grown, too.
LEMMA HigherEnd ==
  ASSUME NEW low \in Nat, NEW end \in Nat, low <= end
  PROVE  /\ \A b : b.to \in Int /\ InHeap(b, low) => InHeap(b, end)
         /\ \A s \in Seq(MemBlock) : BlocksIn(s, low) => BlocksIn(s, end)
         /\ \A b : \A size \in Nat : AtRefusal(b, low, size) => AtRefusal(b, end, size)
         /\ \A S : StraysAt(S, low) => StraysAt(S, end)
<1>1. \A b : b.to \in Int /\ InHeap(b, low) => InHeap(b, end) BY DEF InHeap
<1>2. ASSUME NEW s \in Seq(MemBlock), BlocksIn(s, low) PROVE BlocksIn(s, end)
  <2>1. \A i \in DOMAIN s : s[i] \in MemBlock BY <1>2
  <2>2. \A i \in DOMAIN s : s[i].to \in Int BY <2>1 DEF MemBlock
  <2> QED BY <1>1, <1>2, <2>2 DEF BlocksIn
<1>3. ASSUME NEW b, NEW size \in Nat, AtRefusal(b, low, size)
      PROVE  AtRefusal(b, end, size)
  <2>1. Exceeds(low, size) /\ Refused <= b.from /\ b.to <= Refused + size
    BY <1>3 DEF AtRefusal
  <2>2. Exceeds(end, size) BY <2>1, ExceedsStill
  <2> QED BY <2>1, <2>2 DEF AtRefusal
<1>4. SlabSize \in Nat /\ HistogramSize \in Nat BY HeapAssumption, GmonAssumption
<1>5. ASSUME NEW b, NEW size \in {SlabSize, HistogramSize}, AtRefusal(b, low, size)
      PROVE  AtRefusal(b, end, size)
  BY <1>3, <1>4, <1>5
<1>6. \A S : StraysAt(S, low) => StraysAt(S, end) BY <1>5 DEF StraysAt
<1> QED BY <1>1, <1>2, <1>3, <1>6

\* A block above everything else may be added.
LEMMA BlockAbove ==
  ASSUME NEW s \in Seq(MemBlock), NEW low \in Nat, BlocksIn(s, low), AllApart(s),
         NEW at \in Int, NEW size \in Nat, low <= at, HeapStart <= low,
         NEW end \in Nat, at + size <= end, at + size <= HeapLimit
  PROVE  /\ Append(s, MemoryBlock(at, size)) \in Seq(MemBlock)
         /\ BlocksIn(Append(s, MemoryBlock(at, size)), end)
         /\ AllApart(Append(s, MemoryBlock(at, size)))
         /\ \A c : c.to \in Int /\ c.to <= low /\ ApartFrom(s, c) =>
                     ApartFrom(Append(s, MemoryBlock(at, size)), c)
<1> DEFINE new == MemoryBlock(at, size)
<1>1. new \in MemBlock /\ new.from = at /\ new.to = at + size
  <2>1. at \in Int /\ size \in Int OBVIOUS
  <2> QED BY <2>1, BlockIs
<1>2. HeapStart \in Nat /\ HeapLimit \in Nat BY HeapAssumption
<1> HIDE DEF new
<1>3. InHeap(new, end) BY <1>1, <1>2 DEF InHeap
<1>4. low <= end BY <1>1, <1>2
<1>5. BlocksIn(s, end) BY <1>4, HigherEnd
<1>6. ApartFrom(s, new)
  <2>1. \A i \in DOMAIN s : s[i] \in MemBlock OBVIOUS
  <2>2. \A i \in DOMAIN s : s[i].to \in Int BY <2>1 DEF MemBlock
  <2> QED BY <1>1, <2>2 DEF ApartFrom, Apart, BlocksIn, InHeap
<1>7. \A c : c.to \in Int /\ c.to <= low => Apart(new, c) BY <1>1 DEF Apart
<1> QED BY <1>1, <1>3, <1>5, <1>6, <1>7, AppendBlock DEF new

LEMMA SbrkKeepsHeap ==
  ASSUME HeapOK(Allocator), NEW incr \in Nat, ALT_SBRK(incr)
  PROVE  HeapOK(Allocator)'
<1> DEFINE at == SbrkResult(heap_end, incr)
<1>1. /\ Allocator.end = heap_end /\ Allocator.ptr = mcount_slab_ptr
      /\ Allocator.left = mcount_slab_size /\ Allocator.astray = slab_astray
      /\ Allocator.blocks = blocks /\ Allocator.stray = stray
      /\ Allocator'.end = heap_end' /\ Allocator'.ptr = mcount_slab_ptr'
      /\ Allocator'.left = mcount_slab_size' /\ Allocator'.astray = slab_astray'
      /\ Allocator'.blocks = blocks' /\ Allocator'.stray = stray'
  BY DEF Allocator
<1>2. /\ heap_end' = SbrkEnd(heap_end, incr)
      /\ blocks' = IF Exceeds(heap_end, incr) THEN blocks
                   ELSE Append(blocks, MemoryBlock(at, incr))
      /\ UNCHANGED <<mcount_slab_ptr, mcount_slab_size, slab_astray, stray>>
  BY DEF ALT_SBRK
<1>3. /\ heap_end \in Nat /\ HeapStart <= heap_end /\ HeapStart \in Nat
      /\ blocks \in Seq(MemBlock) /\ stray \subseteq MemBlock
      /\ mcount_slab_ptr \in Int /\ mcount_slab_size \in 0 .. SlabSize /\ slab_astray \in BOOLEAN
  BY <1>1, HeapAssumption DEF HeapOK, HeapTypes
<1>4. /\ heap_end' \in Nat /\ heap_end <= heap_end' /\ HeapStart <= heap_end'
      /\ ~Exceeds(heap_end, incr) =>
           at \in Int /\ heap_end <= at /\ at + incr <= heap_end' /\ at + incr <= HeapLimit
  <2>1. /\ SbrkEnd(heap_end, incr) \in Nat /\ heap_end <= SbrkEnd(heap_end, incr)
        /\ at \in Int /\ (at = Refused <=> Exceeds(heap_end, incr))
        /\ at # Refused => /\ heap_end <= at /\ SbrkEnd(heap_end, incr) = at + incr
                           /\ SbrkEnd(heap_end, incr) <= HeapLimit
    BY <1>3, SbrkIs
  <2> HIDE DEF at
  <2>2. PICK end \in Nat : end = heap_end' /\ heap_end <= end BY <1>2, <2>1
  <2>3. HeapStart <= end BY <1>3, <2>2
  <2>4. ASSUME ~Exceeds(heap_end, incr) PROVE end = at + incr /\ end <= HeapLimit
    BY <1>2, <2>1, <2>2, <2>4
  <2>5. ~Exceeds(heap_end, incr) => at + incr <= end /\ at + incr <= HeapLimit
    BY <2>2, <2>4
  <2> QED BY <2>1, <2>2, <2>3, <2>5
<1> HIDE DEF at
<1>5. Slab(Allocator)' = Slab(Allocator) BY <1>1, <1>2 DEF Slab
<1>6. Slab(Allocator).to \in Int BY SlabIs DEF HeapOK
<1>7. /\ BlocksIn(blocks, heap_end) /\ AllApart(blocks) /\ StraysAt(stray, heap_end)
      /\ IF slab_astray THEN AtRefusal(Slab(Allocator), heap_end, SlabSize)
         ELSE mcount_slab_size > 0 =>
                InHeap(Slab(Allocator), heap_end) /\ ApartFrom(blocks, Slab(Allocator))
  BY <1>1 DEF HeapOK, SlabOK
<1>8. /\ StraysAt(stray, heap_end') /\ BlocksIn(blocks, heap_end')
      /\ slab_astray => AtRefusal(Slab(Allocator), heap_end', SlabSize)
      /\ ~slab_astray /\ mcount_slab_size > 0 => InHeap(Slab(Allocator), heap_end')
  <2>1. StraysAt(stray, heap_end') BY <1>3, <1>4, <1>7, HigherEnd
  <2>2. BlocksIn(blocks, heap_end') BY <1>3, <1>4, <1>7, HigherEnd
  <2>3. slab_astray => AtRefusal(Slab(Allocator), heap_end', SlabSize)
    BY <1>3, <1>4, <1>7, HigherEnd, HeapAssumption
  <2>4. ~slab_astray /\ mcount_slab_size > 0 => InHeap(Slab(Allocator), heap_end')
    BY <1>3, <1>4, <1>6, <1>7, HigherEnd
  <2> QED BY <2>1, <2>2, <2>3, <2>4
<1>9. /\ blocks' \in Seq(MemBlock) /\ BlocksIn(blocks', heap_end') /\ AllApart(blocks')
      /\ ~slab_astray /\ mcount_slab_size > 0 => ApartFrom(blocks', Slab(Allocator))
  <2>1. CASE Exceeds(heap_end, incr) BY <1>2, <1>3, <1>7, <1>8, <2>1
  <2>2. CASE ~Exceeds(heap_end, incr)
    <3>1. blocks' = Append(blocks, MemoryBlock(at, incr)) BY <1>2, <2>2
    <3>2. at \in Int /\ heap_end <= at /\ at + incr <= heap_end' /\ at + incr <= HeapLimit
      BY <1>4, <2>2
    <3>3. ~slab_astray /\ mcount_slab_size > 0 => Slab(Allocator).to <= heap_end
      BY <1>7 DEF InHeap
    <3> QED BY <1>3, <1>4, <1>6, <1>7, <3>1, <3>2, <3>3, BlockAbove
  <2> QED BY <2>1, <2>2
<1>10. HeapTypes(Allocator)' BY <1>1, <1>2, <1>3, <1>4, <1>9 DEF HeapTypes
<1>11. SlabOK(Allocator)' BY <1>1, <1>2, <1>5, <1>8, <1>9 DEF SlabOK
<1> QED BY <1>1, <1>2, <1>8, <1>9, <1>10, <1>11 DEF HeapOK

\* The heap after sbrk() for the profiler, with the slab it has got or taken.
Extended(h, size) ==
  [h EXCEPT !.end = SbrkEnd(h.end, size), !.ptr = SbrkResult(h.end, size), !.left = size,
            !.astray = SbrkResult(h.end, size) = Refused]

IsHeap(h) == h = [end |-> h.end, ptr |-> h.ptr, left |-> h.left, astray |-> h.astray,
                  blocks |-> h.blocks, stray |-> h.stray]

LEMMA ExtendedOK ==
  ASSUME NEW h, HeapOK(h), IsHeap(h)
  PROVE  HeapOK(Extended(h, SlabSize))
<1> DEFINE g == Extended(h, SlabSize)
           at == SbrkResult(h.end, SlabSize)
<1>1. /\ g.end = SbrkEnd(h.end, SlabSize) /\ g.ptr = at /\ g.left = SlabSize
      /\ g.blocks = h.blocks /\ g.stray = h.stray /\ g.astray = (at = Refused)
  BY DEF Extended, IsHeap
<1>2. /\ h.end \in Nat /\ HeapStart <= h.end /\ SlabSize \in Nat /\ HeapStart \in Nat
      /\ HeapLimit \in Nat /\ h.blocks \in Seq(MemBlock) /\ h.stray \subseteq MemBlock
  BY HeapAssumption DEF HeapOK, HeapTypes
<1>3. /\ g.end \in Nat /\ h.end <= g.end /\ at \in Int
      /\ at # Refused => h.end <= at /\ g.end = at + SlabSize /\ g.end <= HeapLimit
      /\ at = Refused => Exceeds(h.end, SlabSize)
  BY <1>1, <1>2, SbrkIs
<1> SUFFICES HeapOK(g) OBVIOUS
<1> HIDE DEF g, at
<1>4. HeapTypes(g)
  <2>1. SlabSize \in 0 .. SlabSize /\ HeapStart <= g.end BY <1>2, <1>3
  <2>2. g.astray \in BOOLEAN BY <1>1
  <2> QED BY <1>1, <1>2, <1>3, <2>1, <2>2 DEF HeapTypes
<1>5. BlocksIn(h.blocks, g.end) /\ AllApart(h.blocks) /\ StraysAt(h.stray, g.end)
  BY <1>2, <1>3, HigherEnd DEF HeapOK
<1>6. Slab(g).from = at /\ Slab(g).to = at + SlabSize BY <1>1, <1>4, SlabIs
<1>7. CASE at = Refused
  <2>1. Exceeds(g.end, SlabSize) BY <1>2, <1>3, <1>7, ExceedsStill
  <2>2. Refused <= Refused /\ Refused + SlabSize <= Refused + SlabSize
    BY <1>2, <1>3, <1>7
  <2>3. AtRefusal(Slab(g), g.end, SlabSize) BY <1>6, <1>7, <2>1, <2>2 DEF AtRefusal
  <2>4. g.astray BY <1>1, <1>7
  <2>5. SlabOK(g) BY <2>3, <2>4 DEF SlabOK
  <2> QED BY <1>1, <1>4, <1>5, <2>5 DEF HeapOK
<1>8. CASE at # Refused
  <2>1. h.end <= at /\ g.end = at + SlabSize /\ g.end <= HeapLimit BY <1>3, <1>8
  <2>2. InHeap(Slab(g), g.end) BY <1>2, <1>3, <1>6, <2>1 DEF InHeap
  <2>3. ApartFrom(h.blocks, Slab(g))
    <3>1. \A i \in DOMAIN h.blocks : h.blocks[i] \in MemBlock BY <1>2
    <3>2. \A i \in DOMAIN h.blocks : h.blocks[i].to \in Int BY <3>1 DEF MemBlock
    <3> QED BY <1>2, <1>3, <1>6, <2>1, <3>2 DEF HeapOK, ApartFrom, Apart, BlocksIn, InHeap
  <2>4. ~g.astray BY <1>1, <1>8
  <2>5. SlabOK(g) BY <1>1, <2>2, <2>3, <2>4 DEF SlabOK
  <2> QED BY <1>1, <1>4, <1>5, <2>5 DEF HeapOK
<1> QED BY <1>7, <1>8

\* A piece is taken from the slab that is left, wherever that is.
LEMMA PieceOfSlab ==
  ASSUME NEW h, HeapOK(h), NEW size \in Nat, size > 0, size <= h.left,
         NEW g, HeapTypes(g), g.end = h.end, g.ptr = h.ptr + size, g.left = h.left - size,
         g.astray = h.astray,
         g.blocks = IF h.astray THEN h.blocks
                    ELSE Append(h.blocks, MemoryBlock(h.ptr, size)),
         g.stray = IF h.astray THEN h.stray \cup {MemoryBlock(h.ptr, size)} ELSE h.stray
  PROVE  HeapOK(g)
<1> DEFINE new == MemoryBlock(h.ptr, size)
<1>1. /\ h.ptr \in Int /\ h.left \in Nat /\ h.left > 0 /\ h.end \in Nat
      /\ HeapStart \in Nat /\ HeapLimit \in Nat /\ SlabSize \in Nat
      /\ h.blocks \in Seq(MemBlock) /\ h.astray \in BOOLEAN
  BY HeapAssumption DEF HeapOK, HeapTypes
<1>2. new \in MemBlock /\ new.from = h.ptr /\ new.to = h.ptr + size
  <2>1. h.ptr \in Int /\ size \in Int BY <1>1
  <2> QED BY <2>1, BlockIs
<1>3. /\ Slab(h).from = h.ptr /\ Slab(h).to = h.ptr + h.left
      /\ Slab(g).from = h.ptr + size /\ Slab(g).to = h.ptr + h.left
  <2>1. Slab(g).to = (h.ptr + size) + (h.left - size) BY SlabIs
  <2>2. (h.ptr + size) + (h.left - size) = h.ptr + h.left BY <1>1
  <2> QED BY <2>1, <2>2, SlabIs DEF HeapOK
<1>4. BlocksIn(h.blocks, h.end) /\ AllApart(h.blocks) /\ StraysAt(h.stray, h.end)
  BY DEF HeapOK
<1>5. CASE h.astray
  <2>1. g.astray /\ g.blocks = h.blocks /\ g.stray = h.stray \cup {new} BY <1>5
  <2>2. AtRefusal(Slab(h), h.end, SlabSize) BY <1>5 DEF HeapOK, SlabOK
  <2> HIDE DEF new
  <2>3. AtRefusal(new, h.end, SlabSize) /\ AtRefusal(Slab(g), h.end, SlabSize)
    BY <1>1, <1>2, <1>3, <2>2 DEF AtRefusal, Refused
  <2>4. StraysAt(g.stray, h.end) BY <1>4, <2>1, <2>3 DEF StraysAt
  <2>5. SlabOK(g) BY <2>1, <2>3 DEF SlabOK
  <2> QED BY <1>4, <2>1, <2>4, <2>5 DEF HeapOK
<1>6. CASE ~h.astray
  <2>1. ~g.astray /\ g.blocks = Append(h.blocks, new) /\ g.stray = h.stray BY <1>6
  <2>2. InHeap(Slab(h), h.end) /\ ApartFrom(h.blocks, Slab(h)) BY <1>1, <1>6 DEF HeapOK, SlabOK
  <2> HIDE DEF new
  <2>3. InHeap(new, h.end) BY <1>1, <1>2, <1>3, <2>2 DEF InHeap
  <2>4. InHeap(Slab(g), h.end) BY <1>1, <1>3, <2>2 DEF InHeap
  <2>5. Apart(new, Slab(g)) BY <1>1, <1>2, <1>3 DEF Apart
  <2>6. ApartFrom(h.blocks, new) /\ ApartFrom(h.blocks, Slab(g))
    <3>1. \A i \in DOMAIN h.blocks : h.blocks[i] \in MemBlock BY <1>1
    <3>2. \A i \in DOMAIN h.blocks : h.blocks[i].to \in Int /\ h.blocks[i].from \in Int
      BY <3>1 DEF MemBlock
    <3>3. \A i \in DOMAIN h.blocks : h.blocks[i].to <= h.ptr \/ h.ptr + h.left <= h.blocks[i].from
      BY <1>3, <2>2 DEF ApartFrom, Apart
    <3>4. ASSUME NEW i \in DOMAIN h.blocks
          PROVE  Apart(h.blocks[i], new) /\ Apart(h.blocks[i], Slab(g))
      BY <1>1, <1>2, <1>3, <3>2, <3>3 DEF Apart
    <3> QED BY <3>4 DEF ApartFrom
  <2>7. /\ BlocksIn(g.blocks, h.end) /\ AllApart(g.blocks) /\ ApartFrom(g.blocks, Slab(g))
    BY <1>1, <1>2, <1>4, <2>1, <2>3, <2>5, <2>6, AppendBlock
  <2>8. SlabOK(g) BY <2>1, <2>4, <2>7 DEF SlabOK
  <2> QED BY <1>4, <2>1, <2>7, <2>8 DEF HeapOK
<1> QED BY <1>5, <1>6

LEMMA AllocateKeepsHeap ==
  ASSUME NEW h, HeapOK(h), IsHeap(h), NEW size \in 1 .. SlabSize
  PROVE  HeapOK(mcount_allocate(h, size)) /\ IsHeap(mcount_allocate(h, size))
<1> DEFINE f == IF size > h.left THEN Extended(h, SlabSize) ELSE h
           g == mcount_allocate(h, size)
           new == MemoryBlock(f.ptr, size)
<1>1. HeapOK(f) BY ExtendedOK DEF IsHeap
<1>2. /\ f.end = IF size > h.left THEN SbrkEnd(h.end, SlabSize) ELSE h.end
      /\ f.ptr = IF size > h.left THEN SbrkResult(h.end, SlabSize) ELSE h.ptr
      /\ f.left = IF size > h.left THEN SlabSize ELSE h.left
      /\ f.astray = IF size > h.left THEN SbrkResult(h.end, SlabSize) = Refused ELSE h.astray
      /\ f.blocks = h.blocks /\ f.stray = h.stray
  <2>1. CASE size > h.left
    <3>1. /\ Extended(h, SlabSize).end = SbrkEnd(h.end, SlabSize)
          /\ Extended(h, SlabSize).ptr = SbrkResult(h.end, SlabSize)
          /\ Extended(h, SlabSize).left = SlabSize
          /\ Extended(h, SlabSize).astray = (SbrkResult(h.end, SlabSize) = Refused)
          /\ Extended(h, SlabSize).blocks = h.blocks /\ Extended(h, SlabSize).stray = h.stray
      BY DEF Extended, IsHeap
    <3> QED BY <2>1, <3>1
  <2>2. CASE ~(size > h.left) BY <2>2
  <2> QED BY <2>1, <2>2
<1>3. /\ g.end = f.end /\ g.ptr = f.ptr + size /\ g.left = f.left - size /\ g.astray = f.astray
      /\ g.blocks = IF f.astray THEN f.blocks ELSE Append(f.blocks, new)
      /\ g.stray = IF f.astray THEN f.stray \cup {new} ELSE f.stray
      /\ IsHeap(g)
  BY <1>2 DEF mcount_allocate, Left, IsHeap
<1> SUFFICES HeapOK(g) BY <1>3
<1> HIDE DEF f, g
<1>4. size \in Nat /\ size > 0 /\ size <= f.left
  <2>1. h.left \in Nat /\ SlabSize \in Nat BY HeapAssumption DEF HeapOK, HeapTypes
  <2> QED BY <1>2, <2>1
<1>5. HeapTypes(g)
  <2>1. /\ f.end \in Nat /\ HeapStart <= f.end /\ f.ptr \in Int /\ f.left \in 0 .. SlabSize
        /\ f.astray \in BOOLEAN /\ f.blocks \in Seq(MemBlock) /\ f.stray \subseteq MemBlock
    BY <1>1 DEF HeapOK, HeapTypes
  <2>2. new \in MemBlock
    <3>1. PICK at \in Int : at = f.ptr BY <2>1
    <3>2. size \in Int BY <1>4
    <3>3. MemoryBlock(at, size) \in MemBlock BY <3>2, BlockIs
    <3> QED BY <3>1, <3>3
  <2>3. f.ptr + size \in Int /\ f.left - size \in 0 .. SlabSize
    BY <1>4, <2>1, HeapAssumption
  <2> HIDE DEF new
  <2>4. Append(f.blocks, new) \in Seq(MemBlock) BY <2>1, <2>2
  <2> QED BY <1>3, <2>1, <2>2, <2>3, <2>4 DEF HeapTypes
<1> QED BY <1>1, <1>3, <1>4, <1>5, PieceOfSlab

LEMMA SamplerKeepsHeap ==
  ASSUME NEW h, HeapOK(h), IsHeap(h)
  PROVE  HeapOK(WithHistogram(h))
<1> DEFINE g == WithHistogram(h)
           at == SbrkResult(h.end, HistogramSize)
           new == MemoryBlock(at, HistogramSize)
<1>1. /\ g.end = SbrkEnd(h.end, HistogramSize) /\ g.ptr = h.ptr /\ g.left = h.left
      /\ g.astray = h.astray
      /\ g.blocks = IF at = Refused THEN h.blocks ELSE Append(h.blocks, new)
      /\ g.stray = IF at = Refused THEN h.stray \cup {new} ELSE h.stray
  BY DEF WithHistogram, IsHeap
<1>2. /\ h.end \in Nat /\ HeapStart <= h.end /\ HistogramSize \in Nat /\ HeapStart \in Nat
      /\ SlabSize \in Nat /\ HeapLimit \in Nat
      /\ h.blocks \in Seq(MemBlock) /\ h.stray \subseteq MemBlock
      /\ h.ptr \in Int /\ h.left \in 0 .. SlabSize /\ h.astray \in BOOLEAN
  BY HeapAssumption, GmonAssumption DEF HeapOK, HeapTypes
<1>3. /\ g.end \in Nat /\ h.end <= g.end /\ at \in Int
      /\ at # Refused => h.end <= at /\ g.end = at + HistogramSize /\ g.end <= HeapLimit
      /\ at = Refused => Exceeds(h.end, HistogramSize)
  BY <1>1, <1>2, SbrkIs
<1> SUFFICES HeapOK(g) OBVIOUS
<1> HIDE DEF g, at
<1>4. new \in MemBlock /\ new.from = at /\ new.to = at + HistogramSize
  <2>1. at \in Int /\ HistogramSize \in Int BY <1>2, <1>3
  <2> QED BY <2>1, BlockIs
<1>5. Slab(g) = Slab(h) /\ Slab(h).to \in Int BY <1>1, SlabIs DEF Slab, HeapOK
<1>6. /\ BlocksIn(h.blocks, h.end) /\ AllApart(h.blocks) /\ StraysAt(h.stray, h.end)
      /\ IF h.astray THEN AtRefusal(Slab(h), h.end, SlabSize)
         ELSE h.left > 0 => InHeap(Slab(h), h.end) /\ ApartFrom(h.blocks, Slab(h))
  BY DEF HeapOK, SlabOK
<1>7. /\ StraysAt(h.stray, g.end) /\ BlocksIn(h.blocks, g.end)
      /\ h.astray => AtRefusal(Slab(h), g.end, SlabSize)
      /\ ~h.astray /\ h.left > 0 => InHeap(Slab(h), g.end)
  <2>1. StraysAt(h.stray, g.end) BY <1>2, <1>3, <1>6, HigherEnd
  <2>2. BlocksIn(h.blocks, g.end) BY <1>2, <1>3, <1>6, HigherEnd
  <2>3. h.astray => AtRefusal(Slab(h), g.end, SlabSize) BY <1>2, <1>3, <1>6, HigherEnd
  <2>4. ~h.astray /\ h.left > 0 => InHeap(Slab(h), g.end)
    BY <1>2, <1>3, <1>5, <1>6, HigherEnd
  <2> QED BY <2>1, <2>2, <2>3, <2>4
<1>8. HeapStart <= g.end BY <1>2, <1>3
<1>9. CASE at = Refused
  <2>1. g.blocks = h.blocks /\ g.stray = h.stray \cup {new} BY <1>1, <1>9
  <2>2. Exceeds(g.end, HistogramSize) BY <1>2, <1>3, <1>9, ExceedsStill
  <2> HIDE DEF new
  <2>3. AtRefusal(new, g.end, HistogramSize)
    <3>1. Refused <= Refused /\ Refused + HistogramSize <= Refused + HistogramSize
      BY <1>2, <1>3, <1>9
    <3> QED BY <1>4, <1>9, <2>2, <3>1 DEF AtRefusal
  <2>4. StraysAt(g.stray, g.end) BY <1>7, <2>1, <2>3 DEF StraysAt
  <2>5. g.stray \subseteq MemBlock BY <1>2, <1>4, <2>1
  <2>6. HeapTypes(g) BY <1>1, <1>2, <1>3, <1>8, <2>1, <2>5 DEF HeapTypes
  <2>7. SlabOK(g) BY <1>1, <1>5, <1>6, <1>7, <2>1 DEF SlabOK
  <2> QED BY <1>6, <1>7, <2>1, <2>4, <2>6, <2>7 DEF HeapOK
<1>10. CASE at # Refused
  <2>1. g.blocks = Append(h.blocks, new) /\ g.stray = h.stray BY <1>1, <1>10
  <2>2. h.end <= at /\ g.end = at + HistogramSize /\ g.end <= HeapLimit BY <1>3, <1>10
  <2>3. at + HistogramSize <= g.end /\ at + HistogramSize <= HeapLimit
    BY <1>2, <1>3, <2>2
  <2>4. ~h.astray /\ h.left > 0 => Slab(h).to <= h.end /\ ApartFrom(h.blocks, Slab(h))
    BY <1>6 DEF InHeap
  <2>5. /\ g.blocks \in Seq(MemBlock) /\ BlocksIn(g.blocks, g.end) /\ AllApart(g.blocks)
        /\ ~h.astray /\ h.left > 0 => ApartFrom(g.blocks, Slab(h))
    BY <1>2, <1>3, <1>5, <1>6, <2>1, <2>2, <2>3, <2>4, BlockAbove
  <2>6. HeapTypes(g) BY <1>1, <1>2, <1>3, <1>8, <2>1, <2>5 DEF HeapTypes
  <2>7. SlabOK(g) BY <1>1, <1>5, <1>7, <2>5 DEF SlabOK
  <2> QED BY <1>7, <2>1, <2>5, <2>6, <2>7 DEF HeapOK
<1> QED BY <1>9, <1>10

LEMMA BecomesKeepsHeap ==
  ASSUME NEW h, HeapOK(h), AllocatorBecomes(h)
  PROVE  HeapOK(Allocator)'
<1>1. /\ Allocator'.end = h.end /\ Allocator'.ptr = h.ptr /\ Allocator'.left = h.left
      /\ Allocator'.astray = h.astray /\ Allocator'.blocks = h.blocks
      /\ Allocator'.stray = h.stray
  BY DEF AllocatorBecomes, Allocator
<1>2. Slab(Allocator)' = Slab(h) BY <1>1 DEF Slab
<1>3. HeapTypes(Allocator)' BY <1>1 DEF HeapOK, HeapTypes
<1>4. SlabOK(Allocator)' BY <1>1, <1>2 DEF HeapOK, SlabOK
<1> QED BY <1>1, <1>3, <1>4 DEF HeapOK

-----------------------------------------------------------------------------
(***************************************************************************)
(* The call graph.  Records never move, so what the lookup has found is    *)
(* still there, and the count it has loaded is no more than the calls.     *)
(***************************************************************************)
ArcRecord == [from : Callers, count : Nat]
FnRecord == [self : Functions, arcs : Seq(ArcRecord)]

IsRecord(i, j, self, from) ==
  /\ i \in DOMAIN fns /\ fns[i].self = self
  /\ j \in DOMAIN fns[i].arcs /\ fns[i].arcs[j].from = from

LookedUp(m) ==
  /\ m.self \in Functions /\ m.from \in Callers /\ m.count \in Nat
  /\ m.fn # None => m.fn \in DOMAIN fns /\ fns[m.fn].self = m.self
  /\ m.arc # None =>
       /\ m.fn # None /\ IsRecord(m.fn, m.arc, m.self, m.from)
       /\ m.count <= calls[<<m.self, m.from>>]

MCountOK == \A level \in Levels : Idle(level) \/ LookedUp(mcount[level])

GraphInv ==
  \A self \in Functions, from \in Callers :
    /\ calls[<<self, from>>] > 0 <=> \E i, j : IsRecord(i, j, self, from)
    /\ \A i, j : IsRecord(i, j, self, from) => fns[i].arcs[j].count <= calls[<<self, from>>]

GmonInv ==
  /\ HeapOK(Allocator)
  /\ fns \in Seq(FnRecord) /\ calls \in [Arcs -> Nat]
  /\ DOMAIN mcount = Levels
  /\ MCountOK /\ GraphInv

LEMMA GraphIsKept == GmonInv => CallGraphKept
<1> SUFFICES ASSUME GmonInv, NEW self \in Functions, NEW from \in Callers
             PROVE  /\ calls[<<self, from>>] > 0 <=> Records(self, from) # {}
                    /\ \A arc \in Records(self, from) : arc.count <= calls[<<self, from>>]
  BY DEF CallGraphKept
<1>1. \A i, j : IsRecord(i, j, self, from) => fns[i].arcs[j] \in Records(self, from)
  BY DEF IsRecord, Records
<1>2. \A arc \in Records(self, from) : \E i, j : IsRecord(i, j, self, from) /\ arc = fns[i].arcs[j]
  BY DEF IsRecord, Records
<1>3. /\ calls[<<self, from>>] > 0 <=> \E i, j : IsRecord(i, j, self, from)
      /\ \A i, j : IsRecord(i, j, self, from) => fns[i].arcs[j].count <= calls[<<self, from>>]
  BY DEF GmonInv, GraphInv
<1> QED BY <1>1, <1>2, <1>3

LEMMA LastIs ==
  ASSUME NEW S, S \subseteq Nat, NEW top \in Nat, \A i \in S : i <= top
  PROVE  Last(S) = None \/ Last(S) \in S
<1>1. CASE S = {} BY <1>1 DEF Last
<1>2. CASE S # {}
  <2>1. \E i \in S : \A j \in S : j <= i
    <3> DEFINE T == {x \in Nat : \E i \in S : x = top - i}
    <3>1. T \subseteq Nat OBVIOUS
    <3>2. PICK s \in S : TRUE BY <1>2
    <3>3. top - s \in Nat BY <3>2
    <3>4. T # {} BY <3>2, <3>3
    <3>5. PICK t \in T : \A x \in T : t <= x BY <3>1, <3>4, LeastExists
    <3>6. PICK i \in S : t = top - i BY <3>5
    <3>7. ASSUME NEW j \in S PROVE j <= i
      <4>1. top - j \in Nat /\ i \in Nat /\ j \in Nat BY <3>7
      <4>2. top - j \in T BY <4>1
      <4>3. top - i <= top - j BY <3>5, <3>6, <4>2
      <4> QED BY <4>1, <4>3
    <3> QED BY <3>7
  <2> QED BY <1>2, <2>1 DEF Last
<1> QED BY <1>1, <1>2

LEMMA IndicesOf ==
  ASSUME NEW T, NEW s \in Seq(T), NEW S, S \subseteq DOMAIN s
  PROVE  Last(S) = None \/ Last(S) \in S
<1>1. Len(s) \in Nat /\ DOMAIN s = 1 .. Len(s) OBVIOUS
<1>2. S \subseteq Nat /\ \A i \in S : i <= Len(s) BY <1>1
<1> QED BY <1>1, <1>2, LastIs

LEMMA FoundFn ==
  ASSUME fns \in Seq(FnRecord), NEW self
  PROVE  FindFn(self) # None => FindFn(self) \in DOMAIN fns /\ fns[FindFn(self)].self = self
<1> DEFINE S == {i \in DOMAIN fns : fns[i].self = self}
<1>1. FindFn(self) = Last(S) BY DEF FindFn
<1>2. Last(S) = None \/ Last(S) \in S BY IndicesOf
<1> QED BY <1>1, <1>2

LEMMA FoundArc ==
  ASSUME fns \in Seq(FnRecord), NEW fn, fn # None => fn \in DOMAIN fns, NEW from
  PROVE  FindArc(fn, from) # None =>
           /\ fn # None /\ FindArc(fn, from) \in DOMAIN fns[fn].arcs
           /\ fns[fn].arcs[FindArc(fn, from)].from = from
<1>1. CASE fn = None BY <1>1 DEF FindArc
<1>2. CASE fn # None
  <2> DEFINE S == {i \in DOMAIN fns[fn].arcs : fns[fn].arcs[i].from = from}
  <2>1. FindArc(fn, from) = Last(S) BY <1>2 DEF FindArc
  <2>2. fns[fn].arcs \in Seq(ArcRecord)
    <3>1. fns[fn] \in FnRecord BY <1>2
    <3> QED BY <3>1 DEF FnRecord
  <2>3. Last(S) = None \/ Last(S) \in S BY <2>2, IndicesOf
  <2> QED BY <1>2, <2>1, <2>3
<1> QED BY <1>1, <1>2

\* Records that stay where they are, of calls that are not forgotten.
Grows ==
  /\ \A i \in DOMAIN fns : i \in DOMAIN fns' /\ fns'[i].self = fns[i].self
  /\ \A i, j, self, from : IsRecord(i, j, self, from) => IsRecord(i, j, self, from)'
  /\ \A a \in Arcs : calls[a] <= calls'[a]

LEMMA LookedUpStays ==
  ASSUME GmonInv, Grows, calls' \in [Arcs -> Nat], NEW m, LookedUp(m)
  PROVE  LookedUp(m)'
<1>1. /\ m.self \in Functions /\ m.from \in Callers /\ m.count \in Nat
      /\ m.fn # None => m.fn \in DOMAIN fns /\ fns[m.fn].self = m.self
      /\ m.arc # None =>
           /\ m.fn # None /\ IsRecord(m.fn, m.arc, m.self, m.from)
           /\ m.count <= calls[<<m.self, m.from>>]
  BY DEF LookedUp
<1>2. m.fn # None => m.fn \in DOMAIN fns' /\ fns'[m.fn].self = m.self
  BY <1>1 DEF Grows
<1>3. m.arc # None => IsRecord(m.fn, m.arc, m.self, m.from)' BY <1>1 DEF Grows
<1>4. m.arc # None => m.count <= calls'[<<m.self, m.from>>]
  <2>1. <<m.self, m.from>> \in Arcs BY <1>1 DEF Arcs
  <2>2. /\ calls[<<m.self, m.from>>] \in Nat /\ calls'[<<m.self, m.from>>] \in Nat
        /\ calls[<<m.self, m.from>>] <= calls'[<<m.self, m.from>>]
    BY <2>1 DEF GmonInv, Grows
  <2> QED BY <1>1, <2>2
<1> QED BY <1>1, <1>2, <1>3, <1>4 DEF LookedUp

\* What a level leaves behind that is through with a call: its record is there.
LEMMA GraphGrows ==
  ASSUME GmonInv, Grows, NEW self \in Functions, NEW from \in Callers,
         calls' = [calls EXCEPT ![<<self, from>>] = @ + 1],
         NEW at, NEW pos, IsRecord(at, pos, self, from)',
         fns'[at].arcs[pos].count \in Nat,
         fns'[at].arcs[pos].count <= calls[<<self, from>>] + 1,
         \A i, j, f, g : IsRecord(i, j, f, g)' /\ ~(i = at /\ j = pos) =>
            IsRecord(i, j, f, g) /\ fns'[i].arcs[j].count = fns[i].arcs[j].count
  PROVE  GraphInv'
<1> SUFFICES ASSUME NEW f \in Functions, NEW g \in Callers
             PROVE  /\ calls'[<<f, g>>] > 0 <=> \E i, j : IsRecord(i, j, f, g)'
                    /\ \A i, j : IsRecord(i, j, f, g)' =>
                                    fns'[i].arcs[j].count <= calls'[<<f, g>>]
  BY DEF GraphInv
<1>1. calls \in [Arcs -> Nat] /\ <<f, g>> \in Arcs /\ <<self, from>> \in Arcs
  BY DEF GmonInv, Arcs
<1>2. /\ calls[<<f, g>>] > 0 <=> \E i, j : IsRecord(i, j, f, g)
      /\ \A i, j : IsRecord(i, j, f, g) => fns[i].arcs[j].count <= calls[<<f, g>>]
  BY DEF GmonInv, GraphInv
<1>c. ASSUME NEW i, NEW j, IsRecord(i, j, f, g) PROVE fns[i].arcs[j].count \in Nat
  <2>1. i \in DOMAIN fns /\ j \in DOMAIN fns[i].arcs BY <1>c DEF IsRecord
  <2>2. fns[i] \in FnRecord BY <2>1 DEF GmonInv
  <2>3. fns[i].arcs \in Seq(ArcRecord) BY <2>2 DEF FnRecord
  <2>4. fns[i].arcs[j] \in ArcRecord BY <2>1, <2>3
  <2> QED BY <2>4 DEF ArcRecord
<1>3. CASE f = self /\ g = from
  <2>1. calls'[<<f, g>>] = calls[<<f, g>>] + 1 /\ calls[<<f, g>>] \in Nat BY <1>1, <1>3
  <2>2. \E i, j : IsRecord(i, j, f, g)' BY <1>3
  <2>3. ASSUME NEW i, NEW j, IsRecord(i, j, f, g)'
        PROVE  fns'[i].arcs[j].count <= calls'[<<f, g>>]
    <3>1. CASE i = at /\ j = pos BY <1>3, <2>1, <3>1
    <3>2. CASE ~(i = at /\ j = pos)
      <4>1. IsRecord(i, j, f, g) /\ fns'[i].arcs[j].count = fns[i].arcs[j].count
        BY <2>3, <3>2
      <4>2. fns[i].arcs[j].count <= calls[<<f, g>>] /\ fns[i].arcs[j].count \in Nat
        BY <1>2, <1>c, <4>1
      <4> QED BY <2>1, <4>1, <4>2
    <3> QED BY <3>1, <3>2
  <2> QED BY <2>1, <2>2, <2>3
<1>4. CASE ~(f = self /\ g = from)
  <2>1. calls'[<<f, g>>] = calls[<<f, g>>] BY <1>1, <1>4
  <2>2. ASSUME NEW i, NEW j, IsRecord(i, j, f, g)'
        PROVE  IsRecord(i, j, f, g) /\ fns'[i].arcs[j].count = fns[i].arcs[j].count
    <3>1. ~(i = at /\ j = pos) BY <1>4, <2>2 DEF IsRecord
    <3> QED BY <2>2, <3>1
  <2>3. \A i, j : IsRecord(i, j, f, g) => IsRecord(i, j, f, g)' BY DEF Grows
  <2> QED BY <1>2, <2>1, <2>2, <2>3
<1> QED BY <1>3, <1>4

LEMMA RecordType ==
  ASSUME fns \in Seq(FnRecord), NEW i, NEW j, NEW self, NEW from, IsRecord(i, j, self, from)
  PROVE  /\ fns[i] \in FnRecord /\ fns[i].arcs \in Seq(ArcRecord)
         /\ fns[i].arcs[j] \in ArcRecord
<1>1. i \in DOMAIN fns /\ j \in DOMAIN fns[i].arcs BY DEF IsRecord
<1>2. fns[i] \in FnRecord BY <1>1
<1>3. fns[i].arcs \in Seq(ArcRecord) BY <1>2 DEF FnRecord
<1>4. fns[i].arcs[j] \in ArcRecord BY <1>1, <1>3
<1> QED BY <1>2, <1>3, <1>4

LEMMA HeapFrame ==
  ASSUME HeapOK(Allocator), UNCHANGED heapVars
  PROVE  HeapOK(Allocator)'
<1>1. Allocator' = Allocator BY DEF heapVars, Allocator
<1> QED BY <1>1 DEF HeapOK, HeapTypes, SlabOK, Slab

LEMMA GraphFrame ==
  ASSUME GmonInv, UNCHANGED <<fns, calls>>
  PROVE  /\ fns' \in Seq(FnRecord) /\ calls' \in [Arcs -> Nat] /\ GraphInv' /\ Grows
         /\ \A m : LookedUp(m) => LookedUp(m)'
<1>1. fns' = fns /\ calls' = calls OBVIOUS
<1>2. \A i, j, self, from : IsRecord(i, j, self, from)' <=> IsRecord(i, j, self, from)
  BY <1>1 DEF IsRecord
<1>3. fns' \in Seq(FnRecord) /\ calls' \in [Arcs -> Nat] BY <1>1 DEF GmonInv
<1>4. GraphInv' BY <1>1, <1>2 DEF GmonInv, GraphInv
<1>5. Grows
  <2>1. \A a \in Arcs : calls[a] <= calls'[a] BY <1>1 DEF GmonInv
  <2> QED BY <1>1, <1>2, <2>1 DEF Grows
<1>6. \A m : LookedUp(m) => LookedUp(m)' BY <1>1, <1>2 DEF LookedUp
<1> QED BY <1>3, <1>4, <1>5, <1>6

LEMMA LookupInv ==
  ASSUME GmonInv, NEW level \in Levels, NEW self \in Functions, NEW from \in Callers,
         Lookup(level, self, from)
  PROVE  GmonInv'
<1> DEFINE fn == FindFn(self)
           arc == FindArc(fn, from)
           count == IF arc = None THEN 0 ELSE fns[fn].arcs[arc].count
           m == AtCall(self, from, fn, arc, count)
<1>1. /\ mcount' = [mcount EXCEPT ![level] = m]
      /\ UNCHANGED heapVars /\ UNCHANGED <<fns, calls>>
  BY DEF Lookup
<1>2. /\ m.self = self /\ m.from = from /\ m.fn = fn /\ m.arc = arc /\ m.count = count
  BY DEF AtCall
<1>3. fn # None => fn \in DOMAIN fns /\ fns[fn].self = self BY FoundFn DEF GmonInv
<1>4. arc # None => /\ fn # None /\ arc \in DOMAIN fns[fn].arcs
                   /\ fns[fn].arcs[arc].from = from
  BY <1>3, FoundArc DEF GmonInv
<1> HIDE DEF fn, arc, m
<1>5. arc # None => IsRecord(fn, arc, self, from) BY <1>3, <1>4 DEF IsRecord
<1>6. count \in Nat /\ (arc # None => count <= calls[<<self, from>>])
  <2>1. CASE arc = None BY <2>1
  <2>2. CASE arc # None
    <3>1. fns[fn].arcs[arc] \in ArcRecord BY <1>5, <2>2, RecordType DEF GmonInv
    <3> QED BY <1>5, <2>2, <3>1 DEF ArcRecord, GmonInv, GraphInv
  <2> QED BY <2>1, <2>2
<1> HIDE DEF count
<1>7. LookedUp(m) BY <1>2, <1>3, <1>5, <1>6, <1>4 DEF LookedUp
<1>8. MCountOK'
  <2>1. ASSUME NEW other \in Levels PROVE Idle(other)' \/ LookedUp(mcount[other])'
    <3>1. CASE other = level
      <4>1. mcount'[other] = m BY <1>1, <3>1 DEF GmonInv
      <4> QED BY <1>1, <1>7, <4>1, GraphFrame
    <3>2. CASE other # level
      <4>1. mcount'[other] = mcount[other] BY <1>1, <3>2 DEF GmonInv
      <4>2. Idle(other) \/ LookedUp(mcount[other]) BY DEF GmonInv, MCountOK
      <4> QED BY <1>1, <4>1, <4>2, GraphFrame DEF Idle
    <3> QED BY <3>1, <3>2
  <2> QED BY <2>1 DEF MCountOK
<1>9. DOMAIN mcount' = Levels BY <1>1 DEF GmonInv
<1>10. HeapOK(Allocator)' BY <1>1, HeapFrame DEF GmonInv
<1> QED BY <1>1, <1>8, <1>9, <1>10, GraphFrame DEF GmonInv

LEMMA TrySamplerInv ==
  ASSUME GmonInv, NEW level \in Levels, TrySampler(level)
  PROVE  GmonInv'
<1>1. ~Idle(level) /\ UNCHANGED <<fns, calls>> BY DEF TrySampler
<1>2. PICK to : mcount' = [mcount EXCEPT ![level].at = to]
  BY DEF TrySampler, LookAtNeed, ClearNeed, ReadRate, StartSampling, StoreNeed, Starts
<1>3. HeapOK(Allocator)'
  <2>1. CASE UNCHANGED heapVars BY <2>1, HeapFrame DEF GmonInv
  <2>2. CASE AllocatorBecomes(WithHistogram(Allocator))
    <3>1. IsHeap(Allocator) BY DEF IsHeap, Allocator
    <3>2. HeapOK(WithHistogram(Allocator)) BY <3>1, SamplerKeepsHeap DEF GmonInv
    <3> QED BY <2>2, <3>2, BecomesKeepsHeap
  <2> QED BY <2>1, <2>2
          DEF TrySampler, LookAtNeed, ClearNeed, ReadRate, StartSampling, StoreNeed
<1>4. MCountOK'
  <2>1. ASSUME NEW other \in Levels PROVE Idle(other)' \/ LookedUp(mcount[other])'
    <3>0. Idle(other) \/ LookedUp(mcount[other]) BY DEF GmonInv, MCountOK
    <3>1. CASE other = level
      <4>1. mcount'[other] = [mcount[level] EXCEPT !.at = to] BY <1>2, <3>1 DEF GmonInv
      <4>2. LookedUp(mcount'[other])
        <5>1. LookedUp(mcount[level]) BY <1>1, <3>0, <3>1
        <5>2. /\ mcount'[other].self = mcount[level].self /\ mcount'[other].fn = mcount[level].fn
              /\ mcount'[other].from = mcount[level].from
              /\ mcount'[other].arc = mcount[level].arc
              /\ mcount'[other].count = mcount[level].count
          BY <4>1
        <5> QED BY <5>1, <5>2 DEF LookedUp
      <4> QED BY <1>1, <4>2, GraphFrame
    <3>2. CASE other # level
      <4>1. mcount'[other] = mcount[other] BY <1>2, <3>2 DEF GmonInv
      <4> QED BY <1>1, <3>0, <4>1, GraphFrame DEF Idle
    <3> QED BY <3>1, <3>2
  <2> QED BY <2>1 DEF MCountOK
<1>5. DOMAIN mcount' = Levels BY <1>2 DEF GmonInv
<1> QED BY <1>1, <1>3, <1>4, <1>5, GraphFrame DEF GmonInv

\* A level is through: the others are where they were.
LEMMA LeavesOthers ==
  ASSUME GmonInv, NEW level \in Levels, LookedUp(mcount[level]), Leaves(level),
         \A i \in DOMAIN fns : i \in DOMAIN fns' /\ fns'[i].self = fns[i].self,
         \A i, j, self, from : IsRecord(i, j, self, from) => IsRecord(i, j, self, from)'
  PROVE  /\ Grows /\ calls' \in [Arcs -> Nat]
         /\ MCountOK' /\ DOMAIN mcount' = Levels
<1> DEFINE a == <<mcount[level].self, mcount[level].from>>
<1>1. a \in Arcs /\ calls \in [Arcs -> Nat] BY DEF LookedUp, Arcs, GmonInv
<1>2. calls' = [calls EXCEPT ![a] = @ + 1] /\ mcount' = [mcount EXCEPT ![level] = Out]
  BY DEF Leaves
<1> HIDE DEF a
<1>3. calls' \in [Arcs -> Nat] BY <1>1, <1>2
<1>4. \A b \in Arcs : calls[b] <= calls'[b] BY <1>1, <1>2
<1>5. Grows BY <1>4 DEF Grows
<1>6. MCountOK'
  <2>1. ASSUME NEW other \in Levels PROVE Idle(other)' \/ LookedUp(mcount[other])'
    <3>1. CASE other = level BY <1>2, <3>1 DEF Idle, GmonInv
    <3>2. CASE other # level
      <4>1. mcount'[other] = mcount[other] BY <1>2, <3>2 DEF GmonInv
      <4>2. Idle(other) \/ LookedUp(mcount[other]) BY DEF GmonInv, MCountOK
      <4>3. \A m : LookedUp(m) => LookedUp(m)' BY <1>3, <1>5, LookedUpStays
      <4>4. LookedUp(mcount[other]) => LookedUp(mcount'[other]) BY <4>1
      <4> QED BY <4>1, <4>2, <4>3, <4>4 DEF Idle
    <3> QED BY <3>1, <3>2
  <2> QED BY <2>1 DEF MCountOK
<1>7. DOMAIN mcount' = Levels BY <1>2 DEF GmonInv
<1> QED BY <1>3, <1>5, <1>6, <1>7

LEMMA CountInv ==
  ASSUME GmonInv, NEW level \in Levels, Count(level)
  PROVE  GmonInv'
<1>0. PICK m : m = mcount[level] OBVIOUS
<1>1. /\ m.arc # None /\ LookedUp(m) /\ UNCHANGED heapVars
      /\ fns' = [fns EXCEPT ![m.fn].arcs[m.arc].count = m.count + 1]
      /\ Leaves(level)
  BY <1>0 DEF Count, GmonInv, MCountOK
<1>2. /\ m.self \in Functions /\ m.from \in Callers /\ m.count \in Nat
      /\ IsRecord(m.fn, m.arc, m.self, m.from) /\ m.count <= calls[<<m.self, m.from>>]
  BY <1>1 DEF LookedUp
<1> DEFINE fn == m.fn
           arc == m.arc
           newArc == [from |-> fns[fn].arcs[arc].from, count |-> m.count + 1]
           newArcs == [fns[fn].arcs EXCEPT ![arc] = newArc]
           newFn == [fns[fn] EXCEPT !.arcs = newArcs]
<1>4. calls' = [calls EXCEPT ![<<m.self, m.from>>] = @ + 1] BY <1>0, <1>1 DEF Leaves
<1>5. /\ fns[fn] \in FnRecord /\ fns[fn].arcs \in Seq(ArcRecord)
      /\ fns[fn].arcs[arc] \in ArcRecord
      /\ fn \in DOMAIN fns /\ arc \in DOMAIN fns[fn].arcs
      /\ fns \in Seq(FnRecord)
  BY <1>2, RecordType DEF IsRecord, GmonInv
<1>6. /\ newArc \in ArcRecord /\ newArc.count = m.count + 1
      /\ newArc.from = fns[fn].arcs[arc].from
  <2>1. fns[fn].arcs[arc].from \in Callers BY <1>5 DEF ArcRecord
  <2>2. m.count + 1 \in Nat BY <1>2
  <2> QED BY <2>1, <2>2 DEF ArcRecord
<1>3. fns' = [fns EXCEPT ![fn] = newFn]
  <2>1. [fns[fn].arcs[arc] EXCEPT !.count = m.count + 1] = newArc BY <1>5, SMTT(30) DEF ArcRecord
  <2> HIDE DEF newArc
  <2> QED BY <1>1, <2>1
<1> HIDE DEF newArc, fn, arc
<1>7. /\ newArcs \in Seq(ArcRecord) /\ DOMAIN newArcs = DOMAIN fns[fn].arcs
      /\ newArcs[arc] = newArc
      /\ \A j \in DOMAIN newArcs : j # arc => newArcs[j] = fns[fn].arcs[j]
  BY <1>5, <1>6
<1> HIDE DEF newArcs
<1>8. newFn \in FnRecord /\ newFn.self = fns[fn].self /\ newFn.arcs = newArcs
  BY <1>5, <1>7 DEF FnRecord
<1> HIDE DEF newFn
<1>9. /\ fns' \in Seq(FnRecord) /\ DOMAIN fns' = DOMAIN fns /\ fns'[fn] = newFn
      /\ \A i \in DOMAIN fns : i # fn => fns'[i] = fns[i]
  BY <1>3, <1>5, <1>8
<1>10. \A i \in DOMAIN fns : i \in DOMAIN fns' /\ fns'[i].self = fns[i].self
  BY <1>8, <1>9
<1>11. \A i, j, self, from : IsRecord(i, j, self, from)' <=> IsRecord(i, j, self, from)
  BY <1>5, <1>6, <1>7, <1>8, <1>9 DEF IsRecord
<1>12. \A i, j, self, from : IsRecord(i, j, self, from) /\ ~(i = fn /\ j = arc) =>
         fns'[i].arcs[j].count = fns[i].arcs[j].count
  BY <1>5, <1>7, <1>8, <1>9 DEF IsRecord
<1>13. /\ Grows /\ calls' \in [Arcs -> Nat] /\ MCountOK' /\ DOMAIN mcount' = Levels
  BY <1>0, <1>1, <1>10, <1>11, LeavesOthers
<1>14. GraphInv'
  <2>1. fns'[fn].arcs[arc].count = m.count + 1 BY <1>6, <1>7, <1>8, <1>9
  <2>2. calls[<<m.self, m.from>>] \in Nat BY <1>2 DEF GmonInv, Arcs
  <2>3. m.count + 1 \in Nat /\ m.count + 1 <= calls[<<m.self, m.from>>] + 1 BY <1>2, <2>2
  <2>4. IsRecord(fn, arc, m.self, m.from)' BY <1>2, <1>11 DEF fn, arc
  <2>5. \A i, j, f, g : IsRecord(i, j, f, g)' /\ ~(i = fn /\ j = arc) =>
           IsRecord(i, j, f, g) /\ fns'[i].arcs[j].count = fns[i].arcs[j].count
    BY <1>11, <1>12
  <2> QED BY <1>2, <1>4, <1>13, <2>1, <2>3, <2>4, <2>5, GraphGrows
<1>15. HeapOK(Allocator)' BY <1>1, HeapFrame DEF GmonInv
<1> QED BY <1>9, <1>13, <1>14, <1>15 DEF GmonInv

LEMMA RecordInv ==
  ASSUME GmonInv, NEW level \in Levels, __mcount_record(level)
  PROVE  GmonInv'
<1>0. PICK m : m = mcount[level] OBVIOUS
<1> DEFINE fn == m.fn
           new == [from |-> m.from, count |-> 1]
<1>1. /\ LookedUp(m) /\ Leaves(level)
      /\ IF fn = None THEN fns' = Append(fns, [self |-> m.self, arcs |-> <<new>>])
         ELSE fns' = [fns EXCEPT ![fn].arcs = Append(@, new)]
  BY <1>0 DEF __mcount_record, GmonInv, MCountOK, Linked, NewArc
<1>2. /\ m.self \in Functions /\ m.from \in Callers
      /\ fn # None => fn \in DOMAIN fns /\ fns[fn].self = m.self
  BY <1>1 DEF LookedUp
<1>3. calls' = [calls EXCEPT ![<<m.self, m.from>>] = @ + 1] BY <1>0, <1>1 DEF Leaves
<1>4. new \in ArcRecord /\ new.from = m.from /\ new.count = 1 BY <1>2 DEF ArcRecord
<1>5. HeapOK(Allocator)'
  <2>1. IsHeap(Allocator) BY DEF IsHeap, Allocator
  <2>2. SizeOfEntry \in 1 .. SlabSize BY GmonAssumption
  <2> DEFINE once == mcount_allocate(Allocator, SizeOfEntry)
  <2>3. HeapOK(once) /\ IsHeap(once) BY <2>1, <2>2, AllocateKeepsHeap DEF GmonInv
  <2>4. CASE AllocatorBecomes(once) BY <2>3, <2>4, BecomesKeepsHeap
  <2>5. CASE AllocatorBecomes(mcount_allocate(once, SizeOfEntry))
    <3> HIDE DEF once
    <3>1. HeapOK(mcount_allocate(once, SizeOfEntry)) BY <2>2, <2>3, AllocateKeepsHeap
    <3> QED BY <2>5, <3>1, BecomesKeepsHeap
  <2> QED BY <2>4, <2>5 DEF __mcount_record
<1> HIDE DEF new
<1>n. Len(fns) \in Nat /\ DOMAIN fns = 1 .. Len(fns) /\ fns \in Seq(FnRecord)
  BY DEF GmonInv
<1>6. /\ fns' \in Seq(FnRecord)
      /\ \A i \in DOMAIN fns : i \in DOMAIN fns' /\ fns'[i].self = fns[i].self
      /\ \A i, j, self, from : IsRecord(i, j, self, from) => IsRecord(i, j, self, from)'
      /\ \E at, pos :
           /\ IsRecord(at, pos, m.self, m.from)' /\ fns'[at].arcs[pos].count = 1
           /\ \A i, j, f, g : IsRecord(i, j, f, g)' /\ ~(i = at /\ j = pos) =>
                 IsRecord(i, j, f, g) /\ fns'[i].arcs[j].count = fns[i].arcs[j].count
  <2>1. CASE fn = None
    <3> DEFINE rec == [self |-> m.self, arcs |-> <<new>>]
    <3>1. /\ rec \in FnRecord /\ rec.self = m.self /\ rec.arcs = <<new>>
          /\ DOMAIN rec.arcs = {1} /\ rec.arcs[1] = new
      BY <1>2, <1>4 DEF FnRecord
    <3> HIDE DEF rec
    <3>2. fns' = Append(fns, rec) BY <1>1, <2>1 DEF rec
    <3>0. PICK at : at = Len(fns) + 1 OBVIOUS
    <3>3. /\ fns' \in Seq(FnRecord) /\ DOMAIN fns' = DOMAIN fns \cup {at} /\ at \notin DOMAIN fns
          /\ \A i \in DOMAIN fns : fns'[i] = fns[i]
          /\ fns'[at] = rec
      BY <1>n, <3>0, <3>1, <3>2
    <3>4. \A i, j, self, from : IsRecord(i, j, self, from) => IsRecord(i, j, self, from)'
      BY <3>3 DEF IsRecord
    <3>5. IsRecord(at, 1, m.self, m.from)' /\ fns'[at].arcs[1].count = 1
      BY <1>4, <3>1, <3>3 DEF IsRecord
    <3>6. \A i, j, f, g : IsRecord(i, j, f, g)' /\ ~(i = at /\ j = 1) =>
             IsRecord(i, j, f, g) /\ fns'[i].arcs[j].count = fns[i].arcs[j].count
      BY <3>1, <3>3 DEF IsRecord
    <3> QED BY <3>3, <3>4, <3>5, <3>6
  <2>2. CASE fn # None
    <3> DEFINE list == fns[fn].arcs
               longer == Append(list, new)
               rec == [fns[fn] EXCEPT !.arcs = longer]
    <3>1. fn \in DOMAIN fns /\ fns[fn].self = m.self /\ fns[fn] \in FnRecord
      BY <1>2, <1>n, <2>2
    <3>2. list \in Seq(ArcRecord) BY <3>1 DEF FnRecord
    <3>3. fns' = [fns EXCEPT ![fn] = rec] BY <1>1, <2>2
    <3>0. PICK pos : pos = Len(list) + 1 OBVIOUS
    <3> HIDE DEF list
    <3>4. /\ longer \in Seq(ArcRecord) /\ DOMAIN longer = DOMAIN list \cup {pos}
          /\ pos \notin DOMAIN list /\ longer[pos] = new
          /\ \A j \in DOMAIN list : longer[j] = list[j]
      BY <1>4, <3>0, <3>2
    <3> HIDE DEF longer
    <3>5. rec \in FnRecord /\ rec.self = m.self /\ rec.arcs = longer
      BY <3>1, <3>4 DEF FnRecord
    <3> HIDE DEF rec
    <3>6. /\ fns' \in Seq(FnRecord) /\ DOMAIN fns' = DOMAIN fns /\ fns'[fn] = rec
          /\ \A i \in DOMAIN fns : i # fn => fns'[i] = fns[i]
      BY <1>n, <3>1, <3>3, <3>5
    <3>7. \A i, j, self, from : IsRecord(i, j, self, from) => IsRecord(i, j, self, from)'
      BY <3>1, <3>4, <3>5, <3>6 DEF IsRecord, list
    <3>8. IsRecord(fn, pos, m.self, m.from)' /\ fns'[fn].arcs[pos].count = 1
      BY <1>4, <3>1, <3>4, <3>5, <3>6 DEF IsRecord
    <3>9. \A i, j, f, g : IsRecord(i, j, f, g)' /\ ~(i = fn /\ j = pos) =>
             IsRecord(i, j, f, g) /\ fns'[i].arcs[j].count = fns[i].arcs[j].count
      BY <3>1, <3>4, <3>5, <3>6 DEF IsRecord, list
    <3>10. \A i \in DOMAIN fns : i \in DOMAIN fns' /\ fns'[i].self = fns[i].self
      BY <3>1, <3>5, <3>6
    <3> QED BY <3>6, <3>7, <3>8, <3>9, <3>10
  <2> QED BY <2>1, <2>2
<1>7. /\ Grows /\ calls' \in [Arcs -> Nat] /\ MCountOK' /\ DOMAIN mcount' = Levels
  BY <1>0, <1>1, <1>6, LeavesOthers
<1>8. GraphInv'
  <2>1. calls[<<m.self, m.from>>] \in Nat BY <1>2 DEF GmonInv, Arcs
  <2>2. 1 \in Nat /\ 1 <= calls[<<m.self, m.from>>] + 1 BY <2>1
  <2> QED BY <1>2, <1>3, <1>6, <1>7, <2>2, GraphGrows
<1> QED BY <1>5, <1>6, <1>7, <1>8 DEF GmonInv

LEMMA GmonStep == GmonInv /\ [GmonNext]_gmonVars => GmonInv'
<1> SUFFICES ASSUME GmonInv, [GmonNext]_gmonVars PROVE GmonInv'
  OBVIOUS
<1>1. CASE UNCHANGED <<fns, mcount, calls>> /\ HeapOK(Allocator)'
  <2>1. \A level \in Levels : Idle(level)' \/ LookedUp(mcount[level])'
    BY <1>1, GraphFrame DEF Idle, GmonInv, MCountOK
  <2> QED BY <1>1, <2>1, GraphFrame DEF GmonInv, MCountOK
<1>2. CASE UNCHANGED gmonVars
  BY <1>1, <1>2, HeapFrame DEF gmonVars, GmonInv
<1>3. CASE ClockStarts
  BY <1>1, <1>3, HeapFrame DEF ClockStarts, GmonInv
<1>4. CASE LibraryAllocates
  <2>1. PICK incr \in Increments : ALT_SBRK(incr) BY <1>4 DEF LibraryAllocates
  <2>2. incr \in Nat BY GmonAssumption
  <2>3. HeapOK(Allocator)' BY <2>1, <2>2, SbrkKeepsHeap DEF GmonInv
  <2> QED BY <1>1, <1>4, <2>3 DEF LibraryAllocates
<1>5. ASSUME NEW level \in Levels,
             \/ \E self \in Functions, from \in Callers : Lookup(level, self, from)
             \/ Count(level) \/ TrySampler(level) \/ __mcount_record(level)
      PROVE  GmonInv'
  BY <1>5, LookupInv, CountInv, TrySamplerInv, RecordInv
<1> QED BY <1>2, <1>3, <1>4, <1>5 DEF GmonNext

LEMMA GmonInitInv == GmonInit => GmonInv
<1> SUFFICES ASSUME GmonInit PROVE GmonInv
  OBVIOUS
<1>1. HeapOK(Allocator)
  <2>1. /\ heap_end = HeapStart /\ mcount_slab_ptr = 0 /\ mcount_slab_size = 0
        /\ slab_astray = FALSE /\ blocks = <<>> /\ stray = {}
    BY DEF GmonInit, HeapInit
  <2>2. /\ Allocator.end = HeapStart /\ Allocator.ptr = 0 /\ Allocator.left = 0
        /\ Allocator.astray = FALSE /\ Allocator.blocks = <<>> /\ Allocator.stray = {}
    BY <2>1 DEF Allocator
  <2>3. HeapTypes(Allocator)
    <3>1. 0 \in 0 .. SlabSize /\ 0 \in Int /\ HeapStart \in Nat /\ HeapStart <= HeapStart
      BY HeapAssumption
    <3>2. <<>> \in Seq(MemBlock) /\ {} \subseteq MemBlock /\ FALSE \in BOOLEAN OBVIOUS
    <3> QED BY <2>2, <3>1, <3>2 DEF HeapTypes
  <2>4. BlocksIn(<<>>, HeapStart) /\ AllApart(<<>>) /\ StraysAt({}, HeapStart)
    BY DEF BlocksIn, AllApart, StraysAt
  <2>5. SlabOK(Allocator) BY <2>2 DEF SlabOK
  <2> QED BY <2>2, <2>3, <2>4, <2>5 DEF HeapOK
<1>2. fns = <<>> /\ calls = [a \in Arcs |-> 0] /\ mcount = [level \in Levels |-> Out]
  BY DEF GmonInit
<1>3. MCountOK BY <1>2 DEF MCountOK, Idle
<1>4. \A i, j, self, from : ~IsRecord(i, j, self, from) BY <1>2 DEF IsRecord
<1>5. GraphInv BY <1>2, <1>4 DEF GraphInv, Arcs
<1> QED BY <1>1, <1>2, <1>3, <1>5 DEF GmonInv

\* Heap, lists and calls of the profiler, however its calls are interrupted
\* (alt_gmon.c:159-207).
THEOREM GmonInvCorrect == GmonSpec => []GmonInv
<1> QED BY GmonInitInv, GmonStep, PTL DEF GmonSpec

\* The heap, the lists and the flags of the profiler keep their types.
THEOREM GmonTypeCorrect == GmonSpec => []GmonTypeOK
<1> DEFINE Flags == need_init \in BOOLEAN /\ prof_rate \in BOOLEAN
<1>1. GmonInit => Flags BY Zenon DEF GmonInit
<1>2. Flags /\ [GmonNext]_gmonVars => Flags'
  BY Zenon
  DEF GmonNext, ClockStarts, LibraryAllocates, Lookup, Count, TrySampler, LookAtNeed,
      ClearNeed, ReadRate, StartSampling, StoreNeed, __mcount_record, gmonVars
<1>3. GmonInv /\ Flags => GmonTypeOK
  BY DEF GmonInv, HeapOK, HeapTypes, MemBlock, Allocator, GmonTypeOK, FnRecord, ArcRecord
<1> HIDE DEF Flags
<1> QED BY <1>1, <1>2, <1>3, GmonInvCorrect, PTL DEF GmonSpec

(***************************************************************************)
(* HeapDisjoint for every heap, slab and request of the C library, however *)
(* often the profiler is refused and however its start is interrupted.     *)
(***************************************************************************)
THEOREM HeapDisjointCorrect == GmonSpec => []HeapDisjoint
<1>1. GmonInv => HeapDisjoint
  <2> SUFFICES ASSUME GmonInv PROVE HeapDisjoint
    OBVIOUS
  <2>1. /\ Allocator.end = heap_end /\ Allocator.blocks = blocks /\ Allocator.stray = stray
    BY DEF Allocator
  <2>2. BlocksIn(blocks, heap_end) /\ AllApart(blocks) /\ StraysAt(stray, heap_end)
    BY <2>1 DEF GmonInv, HeapOK
  <2> QED BY <2>2 DEF HeapDisjoint, BlocksIn, InHeap, AllApart, StraysAt, AtRefusal
<1> QED BY <1>1, GmonInvCorrect, PTL

(***************************************************************************)
(* CallGraphKept for every number of functions, callers and calls.         *)
(***************************************************************************)
THEOREM CallGraphKeptCorrect == GmonSpec => []CallGraphKept
<1> QED BY GraphIsKept, GmonInvCorrect, PTL
-----------------------------------------------------------------------------
(***************************************************************************)
(* The caches, for every size, every length of a line and every region.    *)
(* First the arithmetic of lines: L is the length of one.                  *)
(***************************************************************************)
LEMMA DivIs ==
  ASSUME NEW L \in Nat \ {0}, NEW a \in Nat
  PROVE  /\ a \div L \in Nat /\ a % L \in 0 .. L - 1
         /\ a = L * (a \div L) + (a % L)
  OBVIOUS

LEMMA DivUnique ==
  ASSUME NEW L \in Nat \ {0}, NEW q \in Int, NEW r \in 0 .. L - 1
  PROVE  (L * q + r) \div L = q /\ (L * q + r) % L = r
  OBVIOUS

LEMMA LineAfter ==
  ASSUME NEW L \in Nat \ {0}, NEW a \in Nat, NEW n \in Nat
  PROVE  (a + L * n) \div L = (a \div L) + n /\ (a + L * n) % L = a % L
<1>1. PICK q \in Nat, r \in 0 .. L - 1 : q = a \div L /\ r = a % L /\ a = L * q + r
  BY DivIs
<1>2. a + L * n = L * (q + n) + r BY <1>1
<1>3. (L * (q + n) + r) \div L = q + n /\ (L * (q + n) + r) % L = r BY DivUnique
<1> QED BY <1>1, <1>2, <1>3

LEMMA NextLine ==
  ASSUME NEW L \in Nat \ {0}, NEW a \in Nat
  PROVE  (a + L) \div L = (a \div L) + 1 /\ (a + L) % L = a % L
<1>1. L * 1 = L OBVIOUS
<1>2. (a + L * 1) \div L = (a \div L) + 1 /\ (a + L * 1) % L = a % L BY LineAfter, 1 \in Nat
<1> QED BY <1>1, <1>2

LEMMA LinesInOrder ==
  ASSUME NEW L \in Nat \ {0}, NEW a \in Nat, NEW b \in Nat, a <= b
  PROVE  a \div L <= b \div L
<1>1. PICK q \in Nat, r \in 0 .. L - 1 : q = a \div L /\ a = L * q + r BY DivIs
<1>2. PICK p \in Nat, s \in 0 .. L - 1 : p = b \div L /\ b = L * p + s BY DivIs
<1>3. SUFFICES ASSUME p < q PROVE FALSE BY <1>1, <1>2
<1>4. PICK k \in Nat : q = p + 1 + k
  <2>1. q - (p + 1) \in Nat /\ q = p + 1 + (q - (p + 1)) BY <1>3
  <2> QED BY <2>1
<1>5. L * q = L * p + L + L * k /\ L * k >= 0 BY <1>4
<1> QED BY <1>1, <1>2, <1>5

LEMMA BeforeLine ==
  ASSUME NEW L \in Nat \ {0}, NEW a \in Nat, NEW b \in Nat, a < b, b % L = 0
  PROVE  a \div L < b \div L
<1>1. PICK q \in Nat, r \in 0 .. L - 1 : q = a \div L /\ a = L * q + r BY DivIs
<1>2. PICK p \in Nat : p = b \div L /\ b = L * p BY DivIs
<1>3. q <= p BY <1>1, <1>2, LinesInOrder, SMTT(30)
<1>4. q # p
  <2>1. SUFFICES ASSUME q = p PROVE FALSE OBVIOUS
  <2>2. L * q = L * p BY <2>1
  <2> QED BY <1>1, <1>2, <2>2
<1> QED BY <1>1, <1>2, <1>3, <1>4

LEMMA WholeLines ==
  ASSUME NEW L \in Nat \ {0}, NEW size \in Nat \ {0}, size % L = 0
  PROVE  /\ size \div L \in Nat /\ size \div L > 0
         /\ \A a \in Nat : (a + size) \div L = (a \div L) + (size \div L)
<1>1. PICK n \in Nat : n = size \div L /\ size = L * n BY DivIs
<1>2. n # 0
  <2>1. n = 0 => L * n = 0 OBVIOUS
  <2> QED BY <1>1, <2>1
<1>3. \A a \in Nat : (a + L * n) \div L = (a \div L) + n BY LineAfter
<1>4. \A a \in Nat : (a + size) \div L = (a \div L) + n BY <1>1, <1>3
<1>5. n > 0 BY <1>2
<1> QED BY <1>1, <1>4, <1>5

\* Among any n lines in a row there is one for every index.
LEMMA EveryIndex ==
  ASSUME NEW n \in Nat \ {0}, NEW c \in Nat, NEW x \in Nat
  PROVE  \E line \in c .. c + n - 1 : line % n = x % n
<1>1. PICK q \in Nat, r \in 0 .. n - 1 : c = n * q + r BY DivIs
<1>2. PICK s \in 0 .. n - 1 : s = x % n BY DivIs
<1>3. (n * q + s) % n = s /\ (n * (q + 1) + s) % n = s BY DivUnique
<1>4. n * (q + 1) = n * q + n OBVIOUS
<1>5. PICK m \in Nat : m = n * q OBVIOUS
<1>6. CASE s >= r
  <2>1. m + s \in c .. c + n - 1 BY <1>1, <1>5, <1>6
  <2> QED BY <1>2, <1>3, <1>5, <2>1
<1>7. CASE s < r
  <2>1. m + n + s \in c .. c + n - 1 BY <1>1, <1>5, <1>7
  <2> QED BY <1>2, <1>3, <1>4, <1>5, <2>1
<1> QED BY <1>6, <1>7

-----------------------------------------------------------------------------
(***************************************************************************)
(* The inductive invariant.  What the data cache alone knows, or has an    *)
(* old value of, is in it, and old values are of flash only, which is      *)
(* never written through the cache, so that writing a line back loses      *)
(* nothing.                                                                *)
(***************************************************************************)
CacheOK(d) ==
  /\ d \in [cached : [Indexes -> Nat \cup {Nothing}], dirty : SUBSET Indexes,
            newer : SUBSET Addresses, older : SUBSET Addresses, lost : SUBSET Addresses]
  /\ d.newer \cup d.older \subseteq Cached(d)
  /\ \A a \in d.older : FlashBase <= a
  /\ \A a \in Cached(d) : Index(DataLine(a)) \in d.dirty => a < FlashBase

PointersOK ==
  /\ pointer \in [Blocks -> Nat]
  /\ \A b \in Blocks : pointer[b] \in {NULL, b.start, b.start + BYPASS_DCACHE_MASK}

Names ==
  {"alt_dcache_flush", "alt_dcache_flush_no_writeback", "alt_dcache_flush_all",
   "alt_uncached_malloc", "alt_remap_uncached", "alt_erase_flash_block", "alt_write_flash_block"}

(***************************************************************************)
(* A call steps from line to line.  It ends behind its region, or after as *)
(* many lines as the cache has, if it flushes whatever is at their         *)
(* indexes.                                                                *)
(***************************************************************************)
CallOK(c) ==
  /\ c \in [by : Names, start : Nat, len : Nat, i : Nat, end : Nat, block : Blocks \cup {NoBlock}]
  /\ c.start <= c.i /\ c.i % DCACHE_LINE_SIZE = c.start % DCACHE_LINE_SIZE
  /\ c.i < c.end + DCACHE_LINE_SIZE
  /\ \/ c.end = c.start + c.len
     \/ c.end = c.start + DCACHE_SIZE /\ ~ByAddress(c)
  /\ ~WritesBack(c) => c.end = c.start + c.len
  /\ c.block \in Blocks => c.start = c.block.start /\ c.len = c.block.len

\* The line of a, or one at the same index, has been flushed.
Meets(c, line, a) ==
  line = DataLine(a) \/ (~ByAddress(c) /\ Index(line) = Index(DataLine(a)))
Visited(c, a) == \E line \in DataLine(c.start) .. DataLine(c.i) - 1 : Meets(c, line, a)

FlushProgress ==
  \A a \in Bytes(call) : Visited(call, a) =>
    /\ a \notin dcache.newer \cup dcache.older
    /\ call.block \in Blocks => a \notin Cached(dcache)

CallInv ==
  IF call.by = "nobody" THEN call = NoCall
  ELSE /\ CallOK(call) /\ FlushProgress
       /\ call.block \in Blocks => ~Bypassing(call.block)

CodeCacheOK ==
  /\ icache \in [cached : [CodeIndexes -> Nat \cup {Nothing}], stale : SUBSET Addresses]
  /\ \A a \in icache.stale : icache.cached[CodeIndex(CodeLine(a))] = CodeLine(a)
CodeCallOK(c) ==
  /\ c \in [by : {"alt_icache_flush", "alt_icache_flush_all"},
            start : Nat, len : Nat, i : Nat, end : Nat]
  /\ c.start <= c.i /\ c.i % ICACHE_LINE_SIZE = c.start % ICACHE_LINE_SIZE
  /\ c.end = c.start + c.len \/ c.end = c.start + ICACHE_SIZE
CodeVisited(a) ==
  \E line \in CodeLine(icall.start) .. CodeLine(icall.i) - 1 :
    CodeIndex(line) = CodeIndex(CodeLine(a))
CodeProgress == \A a \in Bytes(icall) : CodeVisited(a) => a \notin icache.stale
CodeInv ==
  CodeCacheOK /\ (icall.by # "nobody" => CodeCallOK(icall) /\ CodeProgress)

DataInv == flushda \in BOOLEAN /\ CacheOK(dcache) /\ PointersOK /\ UncachedNotCached /\ CallInv
CacheInv == DataInv /\ CodeInv

-----------------------------------------------------------------------------
LEMMA LinesAre ==
  /\ DCACHE_LINE_SIZE \in Nat \ {0} /\ DCACHE_SIZE \in Nat \ {0}
  /\ DCACHE_SIZE \div DCACHE_LINE_SIZE \in Nat \ {0}
  /\ Addresses \subseteq Nat
  /\ \A a \in Nat : DataLine(a) \in Nat
  /\ \A line \in Nat : Index(line) \in Indexes
  /\ Nothing \notin Nat
<1>1. /\ DCACHE_LINE_SIZE \in Nat \ {0} /\ DCACHE_SIZE \in Nat \ {0} /\ MemorySize \in Nat
      /\ DCACHE_SIZE % DCACHE_LINE_SIZE = 0
  BY CacheAssumption
<1>2. PICK n \in Nat \ {0} : n = DCACHE_SIZE \div DCACHE_LINE_SIZE BY <1>1, WholeLines
<1>3. \A line \in Nat : line % n \in 0 .. n - 1 BY DivIs
<1>4. \A a \in Nat : DataLine(a) \in Nat BY <1>1, DivIs DEF DataLine
<1>5. Addresses \subseteq Nat BY <1>1 DEF Addresses
<1> QED BY <1>1, <1>2, <1>3, <1>4, <1>5 DEF Index, Indexes, Nothing

LEMMA AddressLine ==
  \A a \in Addresses : DataLine(a) \in Nat /\ Index(DataLine(a)) \in Indexes
                       /\ DataLine(a) # Nothing
  BY LinesAre

\* Flash has its lines for itself.
LEMMA FlashLines ==
  ASSUME NEW a \in Addresses, NEW b \in Addresses, DataLine(a) = DataLine(b), a < FlashBase
  PROVE  b < FlashBase
<1>1. DCACHE_LINE_SIZE \in Nat \ {0} /\ FlashBase \in Nat /\ FlashBase % DCACHE_LINE_SIZE = 0
      /\ a \in Nat /\ b \in Nat
  BY CacheAssumption, LinesAre
<1>2. SUFFICES ASSUME FlashBase <= b PROVE FALSE BY <1>1
<1>3. FlashBase \div DCACHE_LINE_SIZE <= b \div DCACHE_LINE_SIZE BY <1>1, <1>2, LinesInOrder
<1>4. a \div DCACHE_LINE_SIZE < FlashBase \div DCACHE_LINE_SIZE BY <1>1, BeforeLine
<1>5. /\ a \div DCACHE_LINE_SIZE \in Nat /\ b \div DCACHE_LINE_SIZE \in Nat
      /\ FlashBase \div DCACHE_LINE_SIZE \in Nat
  BY <1>1, DivIs
<1> QED BY <1>3, <1>4, <1>5 DEF DataLine

LEMMA DropEffect ==
  ASSUME NEW d, CacheOK(d), NEW x \in Indexes, NEW wb \in BOOLEAN,
         NEW e, e = Drop(d, x, wb)
  PROVE  /\ CacheOK(e) /\ Cached(e) \subseteq Cached(d)
         /\ \A a \in Cached(e) : Index(DataLine(a)) # x
         /\ e.cached = [d.cached EXCEPT ![x] = Nothing]
         /\ e.newer \subseteq d.newer /\ e.older \subseteq d.older
         /\ x \notin e.dirty /\ e.dirty \subseteq d.dirty
         /\ e.lost \ d.lost \subseteq At(d, x) /\ (wb => e.lost = d.lost)
<1>1. /\ e.cached = [d.cached EXCEPT ![x] = Nothing] /\ e.dirty = d.dirty \ {x}
      /\ e.newer = d.newer \ At(d, x) /\ e.older = d.older \ At(d, x)
      /\ e.lost = d.lost \cup (At(d, x) \cap
           (IF ~wb THEN d.newer ELSE IF x \in d.dirty THEN d.older ELSE {}))
      /\ DOMAIN e = {"cached", "dirty", "newer", "older", "lost"}
      /\ e = [cached |-> e.cached, dirty |-> e.dirty, newer |-> e.newer,
              older |-> e.older, lost |-> e.lost]
  BY DEF Drop
<1>2. \A a \in Cached(e) : a \in Cached(d) /\ Index(DataLine(a)) # x
  <2> SUFFICES ASSUME NEW a \in Addresses, e.cached[Index(DataLine(a))] = DataLine(a)
               PROVE  a \in Cached(d) /\ Index(DataLine(a)) # x
    BY DEF Cached
  <2>1. Index(DataLine(a)) \in Indexes /\ DataLine(a) # Nothing BY AddressLine
  <2>2. d.cached \in [Indexes -> Nat \cup {Nothing}] BY DEF CacheOK
  <2> QED BY <1>1, <2>1, <2>2 DEF Cached
<1>3. \A a \in Cached(d) : a \notin At(d, x) => a \in Cached(e)
  <2> SUFFICES ASSUME NEW a \in Cached(d), Index(DataLine(a)) # x PROVE a \in Cached(e)
    BY DEF At
  <2>1. a \in Addresses /\ d.cached[Index(DataLine(a))] = DataLine(a) BY DEF Cached
  <2>2. Index(DataLine(a)) \in Indexes BY <2>1, AddressLine
  <2>3. d.cached \in [Indexes -> Nat \cup {Nothing}] BY DEF CacheOK
  <2> QED BY <1>1, <2>1, <2>2, <2>3 DEF Cached
<1>4. wb => e.lost = d.lost
  <2>1. SUFFICES ASSUME wb, x \in d.dirty PROVE At(d, x) \cap d.older = {}
    BY <1>1
  <2>2. \A a \in At(d, x) : a \in Nat /\ a < FlashBase BY <2>1, LinesAre DEF At, Cached, CacheOK
  <2>3. \A a \in d.older : FlashBase <= a BY DEF CacheOK
  <2>4. FlashBase \in Nat BY CacheAssumption
  <2> QED BY <2>2, <2>3, <2>4
<1>5. At(d, x) \subseteq Addresses BY DEF At, Cached
<1>6. CacheOK(e)
  <2>1. e.cached \in [Indexes -> Nat \cup {Nothing}] BY <1>1 DEF CacheOK
  <2>2. /\ e.dirty \subseteq Indexes /\ e.newer \subseteq Addresses /\ e.older \subseteq Addresses
        /\ e.lost \subseteq Addresses
    BY <1>1, <1>5 DEF CacheOK
  <2>3. e.newer \cup e.older \subseteq Cached(e) BY <1>1, <1>3 DEF CacheOK
  <2>4. \A a \in e.older : FlashBase <= a BY <1>1 DEF CacheOK
  <2>5. \A a \in Cached(e) : Index(DataLine(a)) \in e.dirty => a < FlashBase
    BY <1>1, <1>2 DEF CacheOK
  <2> QED BY <1>1, <2>1, <2>2, <2>3, <2>4, <2>5 DEF CacheOK
<1> QED BY <1>1, <1>2, <1>4, <1>6

LEMMA BringEffect ==
  ASSUME NEW d, CacheOK(d), NEW a \in Addresses
  PROVE  LET e == Bring(d, DataLine(a))
         IN  /\ CacheOK(e)
             /\ e.newer \subseteq d.newer /\ e.older \subseteq d.older /\ e.lost = d.lost
             /\ e.cached[Index(DataLine(a))] = DataLine(a)
             /\ \A b \in Cached(e) : b \in Cached(d) \/ DataLine(b) = DataLine(a)
<1> DEFINE x == Index(DataLine(a))
<1>0. x \in Indexes /\ DataLine(a) \in Nat BY AddressLine
<1>1. CASE d.cached[x] = DataLine(a)
  BY <1>1 DEF Bring
<1>2. CASE d.cached[x] # DataLine(a)
  <2> DEFINE wb == TRUE
             f == Drop(d, x, wb)
             e == [f EXCEPT !.cached[x] = DataLine(a)]
  <2>1. Bring(d, DataLine(a)) = e BY <1>2 DEF Bring
  <2>0. wb \in BOOLEAN /\ wb OBVIOUS
  <2> HIDE DEF wb, x
  <2>2. /\ CacheOK(f) /\ Cached(f) \subseteq Cached(d)
        /\ \A b \in Cached(f) : Index(DataLine(b)) # x
        /\ f.newer \subseteq d.newer /\ f.older \subseteq d.older
        /\ x \notin f.dirty /\ f.lost = d.lost
    BY <1>0, <2>0, DropEffect
  <2> HIDE DEF f
  <2>3. /\ f.cached \in [Indexes -> Nat \cup {Nothing}]
        /\ f \in [cached : [Indexes -> Nat \cup {Nothing}], dirty : SUBSET Indexes,
            newer : SUBSET Addresses, older : SUBSET Addresses, lost : SUBSET Addresses]
    BY <2>2 DEF CacheOK
  <2>4. /\ e \in [cached : [Indexes -> Nat \cup {Nothing}], dirty : SUBSET Indexes,
            newer : SUBSET Addresses, older : SUBSET Addresses, lost : SUBSET Addresses]
        /\ e.cached = [f.cached EXCEPT ![x] = DataLine(a)]
        /\ e.newer = f.newer /\ e.older = f.older /\ e.lost = f.lost /\ e.dirty = f.dirty
    BY <1>0, <2>3
  <2> HIDE DEF e
  <2>5. e.cached[x] = DataLine(a) /\ \A y \in Indexes \ {x} : e.cached[y] = f.cached[y]
    BY <1>0, <2>3, <2>4
  <2>6. \A b \in Cached(e) : b \in Cached(f) \/ (DataLine(b) = DataLine(a) /\ Index(DataLine(b)) = x)
    BY <2>5, AddressLine DEF Cached, x
  <2>7. \A b \in Cached(f) : b \in Cached(e)
    BY <2>2, <2>5, AddressLine DEF Cached
  <2>8. CacheOK(e) BY <2>2, <2>4, <2>6, <2>7 DEF CacheOK
  <2> QED BY <2>1, <2>2, <2>4, <2>5, <2>6, <2>8 DEF x
<1> QED BY <1>1, <1>2

LEMMA ChangedEffect ==
  ASSUME NEW d, CacheOK(d), NEW a \in Addresses, a < FlashBase
  PROVE  LET e == Changed(d, a)
         IN  /\ CacheOK(e)
             /\ e.newer \subseteq d.newer \cup {a} /\ e.older \subseteq d.older
             /\ e.lost \subseteq d.lost
             /\ \A b \in Cached(e) : b \in Cached(d) \/ DataLine(b) = DataLine(a)
<1> DEFINE x == Index(DataLine(a))
           f == Bring(d, DataLine(a))
           e == [f EXCEPT !.dirty = @ \cup {x}, !.newer = @ \cup {a},
                          !.older = @ \ {a}, !.lost = @ \ {a}]
<1>0. x \in Indexes BY AddressLine
<1>1. Changed(d, a) = e BY DEF Changed
<1>2. /\ CacheOK(f)
      /\ f.newer \subseteq d.newer /\ f.older \subseteq d.older /\ f.lost = d.lost
      /\ f.cached[x] = DataLine(a)
      /\ \A b \in Cached(f) : b \in Cached(d) \/ DataLine(b) = DataLine(a)
  BY BringEffect
<1> HIDE DEF f
<1>3. f \in [cached : [Indexes -> Nat \cup {Nothing}], dirty : SUBSET Indexes,
            newer : SUBSET Addresses, older : SUBSET Addresses, lost : SUBSET Addresses]
  BY <1>2 DEF CacheOK
<1>4. /\ e \in [cached : [Indexes -> Nat \cup {Nothing}], dirty : SUBSET Indexes,
            newer : SUBSET Addresses, older : SUBSET Addresses, lost : SUBSET Addresses]
      /\ e.cached = f.cached /\ e.dirty = f.dirty \cup {x} /\ e.newer = f.newer \cup {a}
      /\ e.older = f.older \ {a} /\ e.lost = f.lost \ {a}
  BY <1>0, <1>3
<1> HIDE DEF e
<1>5. Cached(e) = Cached(f) BY <1>4 DEF Cached
<1>6. a \in Cached(f) BY <1>2 DEF Cached, x
<1>7. \A b \in Cached(f) : Index(DataLine(b)) = x => b < FlashBase
  BY <1>2, FlashLines DEF Cached
<1>8. CacheOK(e) BY <1>2, <1>4, <1>5, <1>6, <1>7 DEF CacheOK
<1> QED BY <1>1, <1>2, <1>4, <1>5, <1>8

LEMMA WrittenEffect ==
  ASSUME NEW d, CacheOK(d), NEW bytes, \A a \in bytes \cap Cached(d) : FlashBase <= a
  PROVE  LET e == MemoryWritten(d, bytes)
         IN  /\ CacheOK(e) /\ Cached(e) = Cached(d)
             /\ e.newer \subseteq d.newer /\ e.older = d.older \cup (bytes \cap Cached(d))
             /\ e.lost \subseteq d.lost
<1> DEFINE e == MemoryWritten(d, bytes)
<1>1. d \in [cached : [Indexes -> Nat \cup {Nothing}], dirty : SUBSET Indexes,
            newer : SUBSET Addresses, older : SUBSET Addresses, lost : SUBSET Addresses]
  BY DEF CacheOK
<1>2. Cached(d) \subseteq Addresses BY DEF Cached
<1>3. /\ e \in [cached : [Indexes -> Nat \cup {Nothing}], dirty : SUBSET Indexes,
            newer : SUBSET Addresses, older : SUBSET Addresses, lost : SUBSET Addresses]
      /\ e.cached = d.cached /\ e.dirty = d.dirty /\ e.newer = d.newer \ bytes
      /\ e.older = d.older \cup (bytes \cap Cached(d)) /\ e.lost = d.lost \ bytes
  BY <1>1, <1>2 DEF MemoryWritten
<1> HIDE DEF e
<1>4. Cached(e) = Cached(d) BY <1>3 DEF Cached
<1>5. CacheOK(e) BY <1>3, <1>4 DEF CacheOK
<1> QED BY <1>3, <1>4, <1>5 DEF e
LEMMA FlushedEffect ==
  ASSUME NEW d, CacheOK(d), NEW c, c.i \in Nat
  PROVE  LET e == Flushed(d, c)
         IN  /\ CacheOK(e) /\ Cached(e) \subseteq Cached(d)
             /\ e.newer \subseteq d.newer /\ e.older \subseteq d.older
             /\ \A a \in Addresses : Meets(c, DataLine(c.i), a) => a \notin Cached(e)
             /\ \A a \in e.lost \ d.lost : ~WritesBack(c) /\ DataLine(a) = DataLine(c.i)
<1> DEFINE x == Index(DataLine(c.i))
           e == Flushed(d, c)
           wb == WritesBack(c)
           f == Drop(d, x, wb)
<1>1. x \in Indexes BY LinesAre
<1>2. CASE ByAddress(c) /\ d.cached[x] # DataLine(c.i)
  <2>1. e = d BY <1>2 DEF Flushed
  <2>2. \A a \in Addresses : Meets(c, DataLine(c.i), a) => a \notin Cached(d)
    BY <1>2 DEF Meets, Cached
  <2> HIDE DEF e
  <2> QED BY <2>1, <2>2 DEF e
<1>3. CASE ~(ByAddress(c) /\ d.cached[x] # DataLine(c.i))
  <2>1. e = f BY <1>3 DEF Flushed
  <2>2. wb \in BOOLEAN BY DEF WritesBack
  <2> HIDE DEF wb, x
  <2>3. /\ CacheOK(f) /\ Cached(f) \subseteq Cached(d)
        /\ \A a \in Cached(f) : Index(DataLine(a)) # x
        /\ f.newer \subseteq d.newer /\ f.older \subseteq d.older
        /\ f.lost \ d.lost \subseteq At(d, x) /\ (wb => f.lost = d.lost)
    BY <1>1, <2>2, DropEffect, ZenonT(30)
  <2> HIDE DEF e, f
  <2>4. \A a \in Addresses : Meets(c, DataLine(c.i), a) => a \notin Cached(e)
    BY <2>1, <2>3 DEF Meets, x
  <2>5. \A a \in e.lost \ d.lost : ~WritesBack(c) /\ DataLine(a) = DataLine(c.i)
    <3> SUFFICES ASSUME NEW a \in f.lost \ d.lost PROVE ~wb /\ DataLine(a) = DataLine(c.i)
      BY <2>1 DEF wb
    <3>1. ~wb /\ a \in At(d, x) BY <2>3
    <3>2. d.cached[x] = DataLine(c.i) BY <1>3, <3>1 DEF ByAddress, wb, x
    <3> QED BY <3>1, <3>2 DEF At, Cached, x
  <2> QED BY <2>1, <2>3, <2>4, <2>5 DEF e
<1> QED BY <1>2, <1>3

-----------------------------------------------------------------------------
\* Which lines the loop of a flush has passed when it ends.
LoopOver(L, size, start, len, i, end, a) ==
  /\ L \in Nat \ {0} /\ size \in Nat \ {0} /\ size % L = 0
  /\ start \in Nat /\ len \in Nat /\ i \in Nat /\ end \in Nat
  /\ start <= i /\ i % L = start % L /\ end <= i
  /\ a \in start .. start + len - 1
LoopPasses(L, size, start, len, i, end, a) ==
  /\ end = start + len => /\ start \div L <= a \div L /\ a \div L <= i \div L
                          /\ start % L = 0 => a \div L < i \div L
  /\ end = start + size => \E line \in start \div L .. (i \div L) - 1 :
                             line % (size \div L) = (a \div L) % (size \div L)

LEMMA LinesCover ==
  ASSUME NEW L, NEW size, NEW start, NEW len, NEW i, NEW end, NEW a,
         LoopOver(L, size, start, len, i, end, a)
  PROVE  LoopPasses(L, size, start, len, i, end, a)
<1> L \in Nat \ {0} /\ size \in Nat \ {0} /\ size % L = 0 BY DEF LoopOver
<1> start \in Nat /\ len \in Nat /\ i \in Nat /\ end \in Nat BY DEF LoopOver
<1> start <= i /\ i % L = start % L /\ end <= i /\ a \in start .. start + len - 1 BY DEF LoopOver
<1>a. \A n \in Nat \ {0}, p, q \in Nat : \E line \in p .. p + n - 1 : line % n = q % n
  <2> TAKE n \in Nat \ {0}, p, q \in Nat
  <2> QED BY ONLY EveryIndex, n \in Nat \ {0}, p \in Nat, q \in Nat, Zenon
<1>0. a \in Nat OBVIOUS
<1>1. ASSUME end = start + len
      PROVE  /\ start \div L <= a \div L /\ a \div L <= i \div L
             /\ start % L = 0 => a \div L < i \div L
  <2>1. start <= a /\ a < i BY <1>0, <1>1
  <2> QED BY <1>0, <2>1, LinesInOrder, BeforeLine
<1>2. ASSUME end = start + size
      PROVE  \E line \in start \div L .. (i \div L) - 1 :
               line % (size \div L) = (a \div L) % (size \div L)
  <2>0. /\ size \div L \in Nat /\ size \div L > 0
        /\ \A b \in Nat : (b + size) \div L = (b \div L) + (size \div L)
    BY WholeLines, Zenon
  <2>1. PICK n \in Nat \ {0} : n = size \div L /\ (start + size) \div L = (start \div L) + n
    <3>1. PICK n \in Nat : n = size \div L BY <2>0
    <3>2. n > 0 BY <2>0, <3>1
    <3>3. (start + size) \div L = (start \div L) + n BY <2>0, <3>1
    <3> QED BY <3>1, <3>2, <3>3
  <2>2. (start + size) \div L <= i \div L BY <1>2, LinesInOrder
  <2>3. PICK p \in Nat, q \in Nat, r \in Nat : p = start \div L /\ q = a \div L /\ r = i \div L
    BY <1>0, DivIs
  <2>4. PICK line \in p .. p + n - 1 : line % n = q % n
    BY ONLY <1>a, n \in Nat \ {0}, p \in Nat, q \in Nat, Zenon
  <2>5. p + n <= r BY <2>1, <2>2, <2>3
  <2>6. line \in p .. r - 1 BY <2>4, <2>5
  <2> QED BY <2>1, <2>3, <2>4, <2>6
<1> QED BY <1>1, <1>2, Zenon DEF LoopPasses

LEMMA BlocksAre ==
  ASSUME NEW b \in Blocks
  PROVE  /\ b.start \in Nat /\ b.len \in Nat /\ b.start # NULL /\ b.len > 0
         /\ b.start < BYPASS_DCACHE_MASK /\ BYPASS_DCACHE_MASK \in Nat
         /\ Bytes(b) \subseteq Addresses /\ (\A a \in Bytes(b) : a < FlashBase)
         /\ Uncached(b.start) = b.start + BYPASS_DCACHE_MASK
         /\ (b.start + BYPASS_DCACHE_MASK) % BYPASS_DCACHE_MASK = b.start
         /\ b.start \in Bytes(b) /\ b # NoBlock
<1>1. /\ b \in [start : Nat, len : Nat] /\ b.start # NULL /\ b.len > 0
      /\ b.start + b.len <= FlashBase
      /\ FlashBase \in Nat /\ MemorySize \in Nat /\ BYPASS_DCACHE_MASK \in Nat
      /\ FlashBase <= MemorySize /\ MemorySize <= BYPASS_DCACHE_MASK
  BY CacheAssumption
<1>2. /\ b.start \in Nat /\ b.len \in Nat /\ b.start < BYPASS_DCACHE_MASK
      /\ BYPASS_DCACHE_MASK \in Nat \ {0}
  BY <1>1
<1>3. /\ Bytes(b) \subseteq Addresses /\ (\A a \in Bytes(b) : a < FlashBase) /\ b.start \in Bytes(b)
  BY <1>1 DEF Bytes, Addresses
<1>4. (b.start + BYPASS_DCACHE_MASK) % BYPASS_DCACHE_MASK = b.start
  <2>1. PICK m \in Nat \ {0}, s \in Nat : m = BYPASS_DCACHE_MASK /\ s = b.start /\ s < m BY <1>2
  <2>2. s \in 0 .. m - 1 BY <2>1
  <2>3. (m * 1 + s) % m = s BY <2>2, DivUnique, 1 \in Int
  <2> QED BY <2>1, <2>3
<1>5. Uncached(b.start) = b.start + BYPASS_DCACHE_MASK BY <1>2 DEF Uncached
<1>6. b # NoBlock BY <1>1 DEF NoBlock, NULL
<1> QED BY <1>1, <1>2, <1>3, <1>4, <1>5, <1>6

\* What the flush of a line adds to what the loop has done.
LEMMA LineDone ==
  ASSUME CacheOK(dcache), CallOK(call), FlushProgress, NEW e, e = Flushed(dcache, call)
  PROVE  /\ CacheOK(e) /\ Cached(e) \subseteq Cached(dcache)
         /\ e.newer \subseteq dcache.newer /\ e.older \subseteq dcache.older
         /\ \A a \in Bytes(call) : Visited(call, a) \/ Meets(call, DataLine(call.i), a) =>
              /\ a \notin e.newer \cup e.older
              /\ call.block \in Blocks => a \notin Cached(e)
         /\ \A a \in e.lost \ dcache.lost : ~WritesBack(call) /\ DataLine(a) = DataLine(call.i)
<1>1. call.i \in Nat BY DEF CallOK
<1>2. /\ CacheOK(e) /\ Cached(e) \subseteq Cached(dcache)
      /\ e.newer \subseteq dcache.newer /\ e.older \subseteq dcache.older
      /\ \A a \in Addresses : Meets(call, DataLine(call.i), a) => a \notin Cached(e)
      /\ \A a \in e.lost \ dcache.lost : ~WritesBack(call) /\ DataLine(a) = DataLine(call.i)
  BY <1>1, FlushedEffect
<1>3. ASSUME NEW a \in Bytes(call), Visited(call, a)
      PROVE  a \notin e.newer \cup e.older /\ (call.block \in Blocks => a \notin Cached(e))
  BY <1>2, <1>3 DEF FlushProgress
<1>4. ASSUME NEW a \in Bytes(call), Meets(call, DataLine(call.i), a)
      PROVE  a \notin e.newer \cup e.older /\ a \notin Cached(e)
  <2>1. a \notin Cached(e) BY <1>2, <1>4 DEF Cached
  <2> QED BY <1>2, <2>1 DEF CacheOK
<1> QED BY <1>2, <1>3, <1>4

\* The loop ends when it has met every byte of the region, but for those in
\* the line where it ends.
LEMMA AllMet ==
  ASSUME CallOK(call), call.i >= call.end, NEW a \in Bytes(call)
  PROVE  \/ Visited(call, a)
         \/ call.start % DCACHE_LINE_SIZE # 0 /\ Meets(call, DataLine(call.i), a)
<1>1. /\ call.start \in Nat /\ call.len \in Nat /\ call.i \in Nat /\ call.end \in Nat
      /\ call.start <= call.i /\ call.i % DCACHE_LINE_SIZE = call.start % DCACHE_LINE_SIZE
      /\ call.end <= call.i /\ a \in call.start .. call.start + call.len - 1 /\ a \in Nat
  BY DEF CallOK, Bytes
<1>2. /\ DCACHE_LINE_SIZE \in Nat \ {0} /\ DCACHE_SIZE \in Nat \ {0}
      /\ DCACHE_SIZE % DCACHE_LINE_SIZE = 0
  BY CacheAssumption
<1>3. /\ call.end = call.start + call.len =>
           /\ DataLine(call.start) <= DataLine(a) /\ DataLine(a) <= DataLine(call.i)
           /\ call.start % DCACHE_LINE_SIZE = 0 => DataLine(a) < DataLine(call.i)
      /\ call.end = call.start + DCACHE_SIZE =>
           \E line \in DataLine(call.start) .. DataLine(call.i) - 1 : Index(line) = Index(DataLine(a))
  <2>1. LoopOver(DCACHE_LINE_SIZE, DCACHE_SIZE, call.start, call.len, call.i, call.end, a)
    BY <1>1, <1>2 DEF LoopOver
  <2>2. LoopPasses(DCACHE_LINE_SIZE, DCACHE_SIZE, call.start, call.len, call.i, call.end, a)
    BY <2>1, LinesCover
  <2> QED BY <2>2 DEF LoopPasses, DataLine, Index
<1>4. DataLine(call.start) \in Nat /\ DataLine(a) \in Nat /\ DataLine(call.i) \in Nat
  BY <1>1, LinesAre
<1>5. CASE call.end = call.start + call.len
  <2>1. CASE DataLine(a) = DataLine(call.i) BY <1>3, <1>4, <1>5, <2>1 DEF Meets
  <2>2. CASE DataLine(a) # DataLine(call.i)
    <3>1. DataLine(a) \in DataLine(call.start) .. DataLine(call.i) - 1
      BY <1>3, <1>4, <1>5, <2>2
    <3> QED BY <3>1 DEF Visited, Meets
  <2> QED BY <2>1, <2>2
<1>6. CASE call.end = call.start + DCACHE_SIZE /\ ~ByAddress(call)
  BY <1>3, <1>6 DEF Visited, Meets
<1> QED BY <1>5, <1>6 DEF CallOK
-----------------------------------------------------------------------------
DataExact ==
  /\ DataFlushed => Bytes(call) \cap (dcache'.newer \cup dcache'.older) = {}
  /\ \A a \in dcache'.lost \ dcache.lost : MayBeLost(a)

\* The loop stays behind the last line of the region, and is one line further
\* only if the region does not begin with a line.
LEMMA LostInRegion ==
  ASSUME CallOK(call), call.i < call.end \/ call.start % DCACHE_LINE_SIZE # 0,
         ~WritesBack(call), NEW a, DataLine(a) = DataLine(call.i)
  PROVE  MayBeLost(a)
<1> DEFINE L == DCACHE_LINE_SIZE
           last == call.start + call.len - 1
<1>1. /\ call.start \in Nat /\ call.len \in Nat /\ call.i \in Nat /\ L \in Nat \ {0}
      /\ call.start <= call.i /\ call.i < call.end + L /\ call.end = call.start + call.len
      /\ call.by = "alt_dcache_flush_no_writeback"
  BY CacheAssumption DEF CallOK, WritesBack
<1> HIDE DEF L
<1>2. call.start \div L <= call.i \div L BY <1>1, LinesInOrder
<1>3. CASE call.i < call.end
  <2>1. last \in Nat /\ call.i <= last BY <1>1, <1>3
  <2> HIDE DEF last
  <2>2. call.i \div L <= last \div L BY <1>1, <2>1, LinesInOrder
  <2>3. last \div L \in Nat BY <1>1, <2>1, DivIs
  <2> QED BY <1>1, <1>2, <2>2, <2>3 DEF MayBeLost, DataLine, L, last
<1>4. CASE call.start % L # 0
  <2>1. call.start # 0
    <3>1. 0 % L = 0
      <4>1. 0 \in 0 .. L - 1 BY <1>1
      <4>2. (L * 0 + 0) % L = 0 BY <1>1, <4>1, DivUnique, 0 \in Int
      <4> QED BY <1>1, <4>2
    <3> QED BY <1>4, <3>1
  <2>2. last \in Nat /\ last + L \in Nat /\ call.i <= last + L BY <1>1, <2>1
  <2> HIDE DEF last
  <2>3. call.i \div L <= (last + L) \div L BY <1>1, <2>2, LinesInOrder
  <2>4. (last + L) \div L = (last \div L) + 1 BY <1>1, <2>2, NextLine
  <2> QED BY <1>1, <1>2, <1>4, <2>3, <2>4 DEF MayBeLost, DataLine, L, last
<1> QED BY <1>3, <1>4 DEF L

LEMMA FlushLineKeeps ==
  ASSUME DataInv, FlushLine
  PROVE  DataInv' /\ DataExact
<1>1. /\ call.by # "nobody" /\ call.i < call.end
      /\ dcache' = Flushed(dcache, call) /\ call' = [call EXCEPT !.i = @ + DCACHE_LINE_SIZE]
      /\ flushda' = flushda /\ pointer' = pointer
  BY DEF FlushLine
<1>2. /\ CallOK(call) /\ FlushProgress /\ CacheOK(dcache)
      /\ call.block \in Blocks => ~Bypassing(call.block)
  BY <1>1 DEF DataInv, CallInv
<1>3. /\ CacheOK(dcache') /\ Cached(dcache') \subseteq Cached(dcache)
      /\ dcache'.newer \subseteq dcache.newer /\ dcache'.older \subseteq dcache.older
      /\ \A a \in Bytes(call) : Visited(call, a) \/ Meets(call, DataLine(call.i), a) =>
              /\ a \notin dcache'.newer \cup dcache'.older
              /\ call.block \in Blocks => a \notin Cached(dcache')
      /\ \A a \in dcache'.lost \ dcache.lost : ~WritesBack(call) /\ DataLine(a) = DataLine(call.i)
  BY <1>1, <1>2, LineDone
<1>4. /\ call \in [by : Names, start : Nat, len : Nat, i : Nat, end : Nat, block : Blocks \cup {NoBlock}]
      /\ DCACHE_LINE_SIZE \in Nat \ {0}
  BY <1>2, LinesAre DEF CallOK
<1>5. /\ call' \in [by : Names, start : Nat, len : Nat, i : Nat, end : Nat, block : Blocks \cup {NoBlock}]
      /\ call'.by = call.by /\ call'.start = call.start /\ call'.len = call.len
      /\ call'.end = call.end /\ call'.block = call.block
      /\ call'.i = call.i + DCACHE_LINE_SIZE
  BY <1>1, <1>4
<1>6. /\ DataLine(call.i + DCACHE_LINE_SIZE) = DataLine(call.i) + 1
      /\ (call.i + DCACHE_LINE_SIZE) % DCACHE_LINE_SIZE = call.i % DCACHE_LINE_SIZE
  BY <1>4, NextLine DEF DataLine
<1>7. CallOK(call)'
  <2>1. ByAddress(call)' = ByAddress(call) /\ WritesBack(call)' = WritesBack(call)
    BY <1>1, <1>5 DEF ByAddress, WritesBack
  <2>2. /\ call'.start <= call'.i
        /\ call'.i % DCACHE_LINE_SIZE = call'.start % DCACHE_LINE_SIZE
        /\ call'.i < call'.end + DCACHE_LINE_SIZE
    BY <1>1, <1>2, <1>4, <1>5, <1>6 DEF CallOK
  <2> QED BY <1>1, <1>2, <1>5, <2>1, <2>2 DEF CallOK
<1>8. FlushProgress'
  <2> SUFFICES ASSUME NEW a \in Bytes(call'), Visited(call, a)'
               PROVE  /\ a \notin dcache'.newer \cup dcache'.older
                      /\ call'.block \in Blocks => a \notin Cached(dcache')
    BY DEF FlushProgress
  <2>1. a \in Bytes(call) BY <1>5 DEF Bytes
  <2>2. PICK line \in DataLine(call.start) .. DataLine(call.i) : Meets(call, line, a)'
    <3>1. DataLine(call.i) \in Nat /\ DataLine(call.start) \in Nat BY <1>4, LinesAre
    <3> QED BY <1>5, <1>6, <3>1 DEF Visited
  <2>3. Meets(call, line, a)
    BY <1>1, <1>5, <2>2 DEF Meets, ByAddress, WritesBack
  <2>4. DataLine(call.i) \in Nat /\ DataLine(call.start) \in Nat BY <1>4, LinesAre
  <2>5. Visited(call, a) \/ Meets(call, DataLine(call.i), a) BY <2>3, <2>4 DEF Visited
  <2> QED BY <1>3, <1>5, <2>1, <2>5
<1>9. CallInv'
  BY <1>1, <1>2, <1>5, <1>7, <1>8 DEF CallInv, Bypassing
<1>10. UncachedNotCached' BY <1>1, <1>3 DEF UncachedNotCached, Bypassing, DataInv
<1>11. PointersOK' /\ flushda' \in BOOLEAN BY <1>1 DEF PointersOK, DataInv
<1>12. \A a \in dcache'.lost \ dcache.lost : MayBeLost(a)
  BY <1>1, <1>2, <1>3, LostInRegion
<1>13. ~DataFlushed BY <1>1, <1>5 DEF DataFlushed
<1> QED BY <1>3, <1>9, <1>10, <1>11, <1>12, <1>13 DEF DataInv, DataExact
LEMMA FlushReturnsKeeps ==
  ASSUME DataInv, FlushReturns
  PROVE  DataInv' /\ DataExact
<1>1. /\ call.by # "nobody" /\ call.i >= call.end
      /\ dcache' = IF call.start % DCACHE_LINE_SIZE # 0 THEN Flushed(dcache, call) ELSE dcache
      /\ pointer' = [b \in Blocks |-> IF b = call.block THEN Uncached(call.start) ELSE pointer[b]]
      /\ call' = NoCall /\ flushda' = flushda
  BY DEF FlushReturns
<1>2. CallOK(call) /\ FlushProgress /\ CacheOK(dcache) /\ PointersOK /\ UncachedNotCached
  BY <1>1 DEF DataInv, CallInv
<1>3. /\ CacheOK(dcache') /\ Cached(dcache') \subseteq Cached(dcache)
      /\ \A a \in Bytes(call) : /\ a \notin dcache'.newer \cup dcache'.older
                                /\ call.block \in Blocks => a \notin Cached(dcache')
      /\ \A a \in dcache'.lost \ dcache.lost : MayBeLost(a)
  <2>1. CASE call.start % DCACHE_LINE_SIZE # 0
    <3>1. dcache' = Flushed(dcache, call) BY <1>1, <2>1
    <3>2. /\ CacheOK(dcache') /\ Cached(dcache') \subseteq Cached(dcache)
          /\ \A a \in Bytes(call) : Visited(call, a) \/ Meets(call, DataLine(call.i), a) =>
              /\ a \notin dcache'.newer \cup dcache'.older
              /\ call.block \in Blocks => a \notin Cached(dcache')
          /\ \A a \in dcache'.lost \ dcache.lost : ~WritesBack(call) /\ DataLine(a) = DataLine(call.i)
      BY <1>2, <3>1, LineDone
    <3>3. \A a \in Bytes(call) : Visited(call, a) \/ Meets(call, DataLine(call.i), a)
      BY <1>1, <1>2, AllMet
    <3>4. \A a \in dcache'.lost \ dcache.lost : MayBeLost(a) BY <1>2, <2>1, <3>2, LostInRegion
    <3> QED BY <3>2, <3>3, <3>4
  <2>2. CASE call.start % DCACHE_LINE_SIZE = 0
    <3>1. dcache' = dcache BY <1>1, <2>2
    <3>2. \A a \in Bytes(call) : Visited(call, a) BY <1>1, <1>2, <2>2, AllMet
    <3> QED BY <1>2, <3>1, <3>2 DEF FlushProgress
  <2> QED BY <2>1, <2>2
<1>4. PointersOK'
  <2>1. \A b \in Blocks : pointer'[b] \in {NULL, b.start, b.start + BYPASS_DCACHE_MASK}
    BY <1>1, <1>2, BlocksAre DEF PointersOK, CallOK
  <2>2. \A b \in Blocks : pointer'[b] \in Nat BY <2>1, BlocksAre DEF NULL
  <2> QED BY <1>1, <2>1, <2>2 DEF PointersOK
<1>5. UncachedNotCached'
  <2> SUFFICES ASSUME NEW b \in Blocks, Bypassing(b)' PROVE Bytes(b) \cap Cached(dcache') = {}
    BY DEF UncachedNotCached
  <2>1. CASE b = call.block
    <3>1. Bytes(b) = Bytes(call) BY <1>2, <2>1 DEF CallOK, Bytes
    <3>2. \A a \in Bytes(b) : a \notin Cached(dcache') BY <1>3, <2>1, <3>1
    <3> QED BY <3>2
  <2>2. CASE b # call.block
    <3>1. Bypassing(b) BY <1>1, <2>2 DEF Bypassing
    <3> QED BY <1>2, <1>3, <3>1 DEF UncachedNotCached
  <2> QED BY <2>1, <2>2
<1>6. CallInv' BY <1>1 DEF CallInv, NoCall
<1>7. DataExact
  <2>1. Bytes(call) \cap (dcache'.newer \cup dcache'.older) = {} BY <1>3
  <2> QED BY <1>3, <2>1 DEF DataExact
<1> QED BY <1>1, <1>3, <1>4, <1>5, <1>6, <1>7 DEF DataInv

\* A call begins; its caller may have changed flash before.
CallStarts ==
  /\ call.by = "nobody" /\ flushda' = flushda /\ pointer' = pointer
  /\ CacheOK(dcache') /\ Cached(dcache') = Cached(dcache) /\ dcache'.lost \subseteq dcache.lost
  /\ CallOK(call') /\ call'.i = call'.start
  /\ call'.block \in Blocks => ~Bypassing(call'.block)

LEMMA CallStartsKeeps ==
  ASSUME DataInv, CallStarts
  PROVE  DataInv' /\ DataExact
<1>1. /\ flushda' = flushda /\ pointer' = pointer /\ call.by = "nobody"
      /\ CacheOK(dcache') /\ Cached(dcache') = Cached(dcache) /\ dcache'.lost \subseteq dcache.lost
      /\ call'.by # "nobody" /\ call'.i = call'.start /\ call'.start \in Nat
      /\ call'.block \in Blocks => ~Bypassing(call'.block)
  BY DEF CallStarts, CallOK, Names
<1>2. CallOK(call)'
  <2>1. WritesBack(call)' = WritesBack(call') /\ ByAddress(call)' = ByAddress(call')
    BY <1>1 DEF WritesBack, ByAddress
  <2> QED BY <2>1 DEF CallStarts, CallOK
<1>3. FlushProgress'
  <2>1. DataLine(call'.start) \in Nat BY <1>1, LinesAre
  <2>2. \A a : ~Visited(call, a)' BY <1>1, <2>1 DEF Visited
  <2> QED BY <2>2 DEF FlushProgress
<1>4. CallInv' BY <1>1, <1>2, <1>3 DEF CallInv, Bypassing
<1>5. UncachedNotCached' BY <1>1 DEF UncachedNotCached, Bypassing, DataInv
<1>6. PointersOK' BY <1>1 DEF PointersOK, DataInv
<1> QED BY <1>1, <1>4, <1>5, <1>6 DEF DataInv, DataExact, DataFlushed

LEMMA FlushCallOK ==
  ASSUME NEW by \in Names \ {"alt_dcache_flush_no_writeback"},
         NEW start \in Nat, NEW len \in Nat, NEW block \in Blocks \cup {NoBlock},
         block \in Blocks => start = block.start /\ len = block.len,
         alt_dcache_flush(by, start, len, block)
  PROVE  CallOK(call') /\ call'.i = call'.start /\ call'.block = block
<1>1. PICK end \in Nat : /\ end = start + FlushLength(len)
                         /\ end = start + len \/ (end = start + DCACHE_SIZE /\ ~flushda)
  BY LinesAre DEF FlushLength, Trimmed
<1>2. call' = [by |-> by, start |-> start, len |-> len, i |-> start, end |-> end, block |-> block]
  BY <1>1 DEF alt_dcache_flush
<1>3. /\ call' \in [by : Names, start : Nat, len : Nat, i : Nat, end : Nat, block : Blocks \cup {NoBlock}]
      /\ call'.by = by /\ call'.start = start /\ call'.len = len
      /\ call'.end = end /\ call'.block = block /\ call'.i = start
  BY <1>2
<1>4. WritesBack(call') /\ (ByAddress(call') => flushda) BY <1>3 DEF WritesBack, ByAddress
<1>5. start < end + DCACHE_LINE_SIZE BY <1>1, LinesAre
<1> QED BY <1>1, <1>3, <1>4, <1>5 DEF CallOK

LEMMA StartsAreCalls ==
  ASSUME DataInv,
         Flush \/ alt_dcache_flush_no_writeback \/ alt_dcache_flush_all \/ alt_uncached_malloc
           \/ alt_remap_uncached
  PROVE  CallStarts
<1>1. call.by = "nobody" /\ flushda' = flushda /\ pointer' = pointer /\ dcache' = dcache
  BY DEF Flush, alt_dcache_flush_no_writeback, alt_dcache_flush_all, alt_uncached_malloc,
         alt_remap_uncached
<1>2. CacheOK(dcache) BY DEF DataInv
<1>3. NoBlock \in Blocks \cup {NoBlock} /\ NoBlock \notin Blocks BY BlocksAre
<1>4. \A r \in Regions \cup Blocks \cup FlashWrites : r.start \in Nat /\ r.len \in Nat
  BY CacheAssumption
<1>5. DCACHE_LINE_SIZE \in Nat \ {0} /\ DCACHE_SIZE \in Nat /\ MemorySize \in Nat
  BY CacheAssumption
<1>b. \A by \in {"alt_dcache_flush", "alt_uncached_malloc", "alt_remap_uncached"} :
            by \in Names \ {"alt_dcache_flush_no_writeback"}
  BY DEF Names
<1>a. "alt_dcache_flush_no_writeback" \in Names /\ "alt_dcache_flush_all" \in Names BY DEF Names
<1> DEFINE Goal == /\ CallOK(call') /\ call'.i = call'.start
                   /\ call'.block \in Blocks => ~Bypassing(call'.block)
<1> SUFFICES Goal BY <1>1, <1>2 DEF CallStarts
<1>6. CASE Flush
  <2>1. PICK r \in Regions : alt_dcache_flush("alt_dcache_flush", r.start, r.len, NoBlock)
    BY <1>6 DEF Flush
  <2>2. CallOK(call') /\ call'.i = call'.start /\ call'.block = NoBlock
    BY <1>3, <1>4, <2>1, <1>b, FlushCallOK
  <2> QED BY <1>3, <2>2
<1>7. CASE alt_dcache_flush_no_writeback
  <2>1. PICK r \in Regions :
          call' = [by |-> "alt_dcache_flush_no_writeback", start |-> r.start, len |-> r.len,
                   i |-> r.start, end |-> r.start + r.len, block |-> NoBlock]
    BY <1>7 DEF alt_dcache_flush_no_writeback
  <2>2. r.start \in Nat /\ r.len \in Nat /\ r.start + r.len \in Nat BY <1>4
  <2>3. /\ call' \in [by : Names, start : Nat, len : Nat, i : Nat, end : Nat, block : Blocks \cup {NoBlock}]
        /\ call'.by = "alt_dcache_flush_no_writeback" /\ call'.start = r.start /\ call'.len = r.len
        /\ call'.end = r.start + r.len /\ call'.block = NoBlock /\ call'.i = r.start
    BY <1>3, <1>a, <2>1, <2>2
  <2> QED BY <1>3, <1>5, <2>2, <2>3 DEF CallOK, WritesBack, ByAddress
<1>8. CASE alt_dcache_flush_all
  <2>1. call' = [by |-> "alt_dcache_flush_all", start |-> 0, len |-> MemorySize,
                 i |-> 0, end |-> DCACHE_SIZE, block |-> NoBlock]
    BY <1>8 DEF alt_dcache_flush_all
  <2>2. /\ call' \in [by : Names, start : Nat, len : Nat, i : Nat, end : Nat, block : Blocks \cup {NoBlock}]
        /\ call'.by = "alt_dcache_flush_all" /\ call'.start = 0 /\ call'.len = MemorySize
        /\ call'.end = DCACHE_SIZE /\ call'.block = NoBlock /\ call'.i = 0
    BY <1>3, <1>5, <1>a, <2>1
  <2>3. WritesBack(call') /\ ~ByAddress(call') BY <2>2 DEF WritesBack, ByAddress
  <2> QED BY <1>3, <1>5, <2>2, <2>3 DEF CallOK
<1>9. CASE alt_uncached_malloc
  <2>1. PICK b \in Blocks :
          /\ pointer[b] = NULL
          /\ \/ alt_dcache_flush("alt_uncached_malloc", b.start, b.len, b)
             \/ alt_dcache_flush("alt_uncached_malloc", NULL, b.len, NoBlock)
    BY <1>9 DEF alt_uncached_malloc
  <2>2. ~Bypassing(b) /\ NULL \in Nat BY <2>1, BlocksAre DEF Bypassing, NULL
  <2>3. CASE alt_dcache_flush("alt_uncached_malloc", b.start, b.len, b)
    <3>1. CallOK(call') /\ call'.i = call'.start /\ call'.block = b
      BY <1>4, <2>3, <1>b, FlushCallOK
    <3> QED BY <2>2, <3>1
  <2>4. CASE alt_dcache_flush("alt_uncached_malloc", NULL, b.len, NoBlock)
    <3>1. CallOK(call') /\ call'.i = call'.start /\ call'.block = NoBlock
      BY <1>3, <1>4, <2>2, <2>4, <1>b, FlushCallOK
    <3> QED BY <1>3, <3>1
  <2> QED BY <2>1, <2>3, <2>4
<1>10. CASE alt_remap_uncached
  <2>1. PICK b \in Blocks :
          pointer[b] = b.start /\ alt_dcache_flush("alt_remap_uncached", b.start, b.len, b)
    BY <1>10 DEF alt_remap_uncached
  <2>2. ~Bypassing(b) BY <2>1, BlocksAre DEF Bypassing
  <2>3. CallOK(call') /\ call'.i = call'.start /\ call'.block = b
    BY <1>4, <2>1, <1>b, FlushCallOK
  <2> QED BY <2>2, <2>3
<1> QED BY <1>6, <1>7, <1>8, <1>9, <1>10
\* Pointers change, and none to a block that was not accessed past the cache
\* is one that is.
LEMMA PointersKeep ==
  ASSUME DataInv, malloc \/ free \/ alt_uncached_free \/ alt_remap_cached
  PROVE  DataInv' /\ DataExact
<1>1. flushda' = flushda /\ dcache' = dcache /\ call' = call
  BY DEF malloc, free, alt_uncached_free, alt_remap_cached
<1>2. PointersOK BY DEF DataInv
<1>3. PointersOK' /\ \A b \in Blocks : Bypassing(b)' => Bypassing(b)
  <2>1. /\ pointer \in [Blocks -> Nat] /\ NULL \in Nat
        /\ \A b \in Blocks :
             /\ pointer[b] \in {NULL, b.start, b.start + BYPASS_DCACHE_MASK}
             /\ b.start \in Nat /\ NULL < BYPASS_DCACHE_MASK /\ b.start < BYPASS_DCACHE_MASK
             /\ BYPASS_DCACHE_MASK \in Nat
    BY <1>2, BlocksAre DEF PointersOK, NULL
  <2>2. SUFFICES \E f \in [Blocks -> Nat] :
                   /\ pointer' = f
                   /\ \A b \in Blocks : f[b] \in {NULL, b.start} \/ f[b] = pointer[b]
    BY <2>1 DEF PointersOK, Bypassing
  <2>3. ASSUME NEW b \in Blocks, NEW q, q \in {NULL, b.start}
        PROVE  /\ [pointer EXCEPT ![b] = q] \in [Blocks -> Nat]
               /\ \A c \in Blocks : \/ [pointer EXCEPT ![b] = q][c] \in {NULL, c.start}
                                   \/ [pointer EXCEPT ![b] = q][c] = pointer[c]
    BY <2>1, <2>3
  <2>4. CASE malloc
    <3>1. PICK b \in Blocks : pointer' = [pointer EXCEPT ![b] = b.start] BY <2>4 DEF malloc
    <3> QED BY <2>3, <3>1
  <2>5. CASE free
    <3>1. PICK b \in Blocks : pointer' = [pointer EXCEPT ![b] = NULL] BY <2>5 DEF free
    <3> QED BY <2>3, <3>1
  <2>6. CASE alt_uncached_free
    <3>1. PICK b \in Blocks :
            pointer' = [c \in Blocks |->
              IF c.start = pointer[b] % BYPASS_DCACHE_MASK THEN NULL ELSE pointer[c]]
      BY <2>6 DEF alt_uncached_free
    <3> QED BY <2>1, <3>1
  <2>7. CASE alt_remap_cached
    <3>1. PICK b \in Blocks : /\ pointer[b] >= BYPASS_DCACHE_MASK
                              /\ pointer' = [pointer EXCEPT ![b] = @ % BYPASS_DCACHE_MASK]
      BY <2>7 DEF alt_remap_cached
    <3>2. pointer[b] = b.start + BYPASS_DCACHE_MASK BY <2>1, <3>1
    <3>3. pointer[b] % BYPASS_DCACHE_MASK = b.start BY <3>2, BlocksAre
    <3>4. pointer' = [pointer EXCEPT ![b] = b.start] BY <3>1, <3>3
    <3> QED BY <2>3, <3>4
  <2> QED BY <2>4, <2>5, <2>6, <2>7
<1>4. UncachedNotCached' BY <1>1, <1>3 DEF UncachedNotCached, DataInv
<1>5. CallInv'
  <2>1. CASE call.by = "nobody" BY <1>1, <2>1 DEF CallInv, DataInv
  <2>2. CASE call.by # "nobody"
    <3>1. CallOK(call) /\ FlushProgress /\ (call.block \in Blocks => ~Bypassing(call.block))
      BY <2>2 DEF DataInv, CallInv
    <3>2. CallOK(call)' BY <1>1, <3>1 DEF CallOK, ByAddress, WritesBack
    <3>3. FlushProgress' BY <1>1, <3>1 DEF FlushProgress, Visited, Meets, ByAddress, WritesBack
    <3> QED BY <1>1, <1>3, <2>2, <3>1, <3>2, <3>3 DEF CallInv
  <2> QED BY <2>1, <2>2
<1> QED BY <1>1, <1>3, <1>4, <1>5 DEF DataInv, DataExact, DataFlushed

\* What the cache holds changes, of nothing that is to stay out of it.
CacheChanges ==
  /\ flushda' = flushda /\ pointer' = pointer /\ call' = call
  /\ CacheOK(dcache') /\ dcache'.lost \subseteq dcache.lost
  /\ \A a \in Cached(dcache') : \/ a \in Cached(dcache)
                               \/ \A b \in Blocks : b = call.block \/ Bypassing(b) => a \notin Bytes(b)
  /\ call.by # "nobody" =>
       \A a \in Bytes(call) :
         a \in dcache'.newer \cup dcache'.older => a \in dcache.newer \cup dcache.older

LEMMA CacheChangesKeep ==
  ASSUME DataInv, CacheChanges
  PROVE  DataInv' /\ DataExact
<1>1. /\ flushda' = flushda /\ pointer' = pointer /\ call' = call
      /\ CacheOK(dcache') /\ dcache'.lost \subseteq dcache.lost
  BY DEF CacheChanges
<1>2. \A b \in Blocks : Bypassing(b)' = Bypassing(b) BY <1>1 DEF Bypassing
<1>3. UncachedNotCached'
  <2> SUFFICES ASSUME NEW b \in Blocks, Bypassing(b), NEW a \in Bytes(b), a \in Cached(dcache')
               PROVE  FALSE
    BY <1>2 DEF UncachedNotCached
  <2>1. a \notin Cached(dcache) BY DEF DataInv, UncachedNotCached
  <2> QED BY <2>1 DEF CacheChanges
<1>4. CallInv'
  <2>1. CASE call.by = "nobody" BY <1>1, <2>1 DEF CallInv, DataInv
  <2>2. CASE call.by # "nobody"
    <3>1. CallOK(call) /\ FlushProgress /\ (call.block \in Blocks => ~Bypassing(call.block))
      BY <2>2 DEF DataInv, CallInv
    <3>2. CallOK(call)' BY <1>1, <3>1 DEF CallOK, ByAddress, WritesBack
    <3>3. FlushProgress'
      <4> SUFFICES ASSUME NEW a \in Bytes(call), Visited(call, a)'
                   PROVE  /\ a \notin dcache'.newer \cup dcache'.older
                          /\ call.block \in Blocks => a \notin Cached(dcache')
        BY <1>1 DEF FlushProgress
      <4>1. Visited(call, a) BY <1>1 DEF Visited, Meets, ByAddress, WritesBack
      <4>2. /\ a \notin dcache.newer \cup dcache.older
            /\ call.block \in Blocks => a \notin Cached(dcache)
        BY <3>1, <4>1 DEF FlushProgress
      <4>3. a \notin dcache'.newer \cup dcache'.older BY <2>2, <4>2 DEF CacheChanges
      <4>4. call.block \in Blocks => a \in Bytes(call.block) BY <3>1 DEF CallOK, Bytes
      <4> QED BY <4>2, <4>3, <4>4 DEF CacheChanges
    <3> QED BY <1>1, <1>2, <2>2, <3>1, <3>2, <3>3 DEF CallInv
  <2> QED BY <2>1, <2>2
<1>5. PointersOK' BY <1>1 DEF PointersOK, DataInv
<1> QED BY <1>1, <1>3, <1>4, <1>5 DEF DataInv, DataExact, DataFlushed
LEMMA SameLineSameBlock ==
  ASSUME NEW a \in Addresses, NEW x, DataLine(x) = DataLine(a), NEW b \in Blocks, x \in Bytes(b)
  PROVE  a \in Bytes(b)
BY CacheAssumption DEF DataLine

LEMMA AccessesChange ==
  ASSUME DataInv, CachedLoad \/ CachedStore \/ UncachedStore
  PROVE  CacheChanges
<1>0. CacheOK(dcache) /\ PointersOK /\ UncachedNotCached /\ CallInv BY DEF DataInv
<1>1. flushda' = flushda /\ pointer' = pointer /\ call' = call
  BY DEF CachedLoad, CachedStore, UncachedStore
<1>2. ASSUME NEW a \in Through, NEW b \in Blocks, Bypassing(b) PROVE a \notin Bytes(b)
  <2>1. pointer[b] # b.start BY <1>2, BlocksAre DEF Bypassing
  <2> QED BY <2>1 DEF Through
<1>3. Through \subseteq Addresses BY DEF Through
<1>4. call.block \in Blocks => call.by # "nobody" /\ Bytes(call.block) = Bytes(call)
  <2>1. NoCall.block \notin Blocks BY BlocksAre DEF NoCall
  <2> QED BY <1>0, <2>1 DEF CallInv, CallOK, Bytes
<1>5. CASE CachedLoad
  <2>1. PICK a \in Through \ Bytes(call.block) : dcache' = Bring(dcache, DataLine(a))
    BY <1>5 DEF CachedLoad
  <2>2. /\ CacheOK(dcache') /\ dcache'.newer \subseteq dcache.newer
        /\ dcache'.older \subseteq dcache.older /\ dcache'.lost = dcache.lost
        /\ \A x \in Cached(dcache') : x \in Cached(dcache) \/ DataLine(x) = DataLine(a)
    BY <1>0, <1>3, <2>1, BringEffect
  <2>3. ASSUME NEW x, DataLine(x) = DataLine(a), NEW b \in Blocks,
               b = call.block \/ Bypassing(b)
        PROVE  x \notin Bytes(b)
    <3>1. a \notin Bytes(b) BY <1>2, <2>3
    <3> QED BY <1>3, <2>3, <3>1, SameLineSameBlock
  <2> QED BY <1>1, <2>2, <2>3 DEF CacheChanges
<1>6. CASE CachedStore
  <2>1. PICK a \in (Through \cap 0 .. FlashBase - 1) \ Argument : dcache' = Changed(dcache, a)
    BY <1>6 DEF CachedStore
  <2>2. a \in Addresses /\ a < FlashBase
    BY <1>3, <2>1, CacheAssumption
  <2>3. /\ CacheOK(dcache') /\ dcache'.newer \subseteq dcache.newer \cup {a}
        /\ dcache'.older \subseteq dcache.older /\ dcache'.lost \subseteq dcache.lost
        /\ \A x \in Cached(dcache') : x \in Cached(dcache) \/ DataLine(x) = DataLine(a)
    BY <1>0, <2>1, <2>2, ChangedEffect
  <2>4. call.by # "nobody" => a \notin Bytes(call) BY <2>1 DEF Argument
  <2>5. ASSUME NEW x, DataLine(x) = DataLine(a), NEW b \in Blocks,
               b = call.block \/ Bypassing(b)
        PROVE  x \notin Bytes(b)
    <3>1. a \notin Bytes(b) BY <1>2, <1>4, <2>1, <2>4, <2>5
    <3> QED BY <2>2, <2>5, <3>1, SameLineSameBlock
  <2> QED BY <1>1, <2>3, <2>4, <2>5 DEF CacheChanges
<1>7. CASE UncachedStore
  <2>0. PICK b \in Blocks : \E a \in Bytes(b) : Bypassing(b) /\ dcache' = MemoryWritten(dcache, {a})
    BY <1>7 DEF UncachedStore
  <2>1. PICK a \in Bytes(b) : Bypassing(b) /\ dcache' = MemoryWritten(dcache, {a}) BY <2>0
  <2>2. {a} \cap Cached(dcache) = {} BY <1>0, <2>1 DEF UncachedNotCached
  <2>3. /\ CacheOK(dcache') /\ Cached(dcache') = Cached(dcache)
        /\ dcache'.newer \subseteq dcache.newer
        /\ dcache'.older = dcache.older \cup ({a} \cap Cached(dcache))
        /\ dcache'.lost \subseteq dcache.lost
    BY <1>0, <2>1, <2>2, WrittenEffect
  <2> QED BY <1>1, <2>2, <2>3 DEF CacheChanges
<1> QED BY <1>5, <1>6, <1>7

LEMMA FlashKeeps ==
  ASSUME DataInv, NEW by \in {"alt_erase_flash_block", "alt_write_flash_block"}, FlashBlock(by)
  PROVE  DataInv' /\ DataExact
<1>0. CacheOK(dcache) BY DEF DataInv
<1>1. call.by = "nobody" /\ flushda' = flushda /\ pointer' = pointer BY DEF FlashBlock
<1>2. PICK w \in FlashWrites :
       \/ /\ dcache' = MemoryWritten(dcache, Bytes(w))
          /\ alt_dcache_flush(by, w.start, w.len, NoBlock)
       \/ \E n \in 0 .. w.len : /\ dcache' = MemoryWritten(dcache, Bytes([w EXCEPT !.len = n]))
                               /\ call' = call
  BY DEF FlashBlock
<1>3. w \in [start : Nat, len : Nat] /\ FlashBase <= w.start /\ FlashBase \in Nat
  BY CacheAssumption
<1>4. ASSUME NEW r, r.start = w.start, r.len \in Nat, dcache' = MemoryWritten(dcache, Bytes(r))
      PROVE  /\ CacheOK(dcache') /\ Cached(dcache') = Cached(dcache)
             /\ dcache'.lost \subseteq dcache.lost
  <2>1. \A a \in Bytes(r) \cap Cached(dcache) : FlashBase <= a BY <1>3, <1>4 DEF Bytes
  <2> QED BY <1>0, <1>4, <2>1, WrittenEffect
<1>5. CASE /\ dcache' = MemoryWritten(dcache, Bytes(w))
           /\ alt_dcache_flush(by, w.start, w.len, NoBlock)
  <2>1. NoBlock \in Blocks \cup {NoBlock} /\ NoBlock \notin Blocks BY BlocksAre
  <2>2. by \in Names \ {"alt_dcache_flush_no_writeback"} BY DEF Names
  <2>3. CallOK(call') /\ call'.i = call'.start /\ call'.block = NoBlock
    BY <1>3, <1>5, <2>1, <2>2, FlushCallOK
  <2>4. CallStarts BY <1>1, <1>3, <1>4, <1>5, <2>1, <2>3 DEF CallStarts
  <2> QED BY <2>4, CallStartsKeeps
<1>6. CASE \E n \in 0 .. w.len : /\ dcache' = MemoryWritten(dcache, Bytes([w EXCEPT !.len = n]))
                                /\ call' = call
  <2>1. PICK n \in 0 .. w.len : /\ dcache' = MemoryWritten(dcache, Bytes([w EXCEPT !.len = n]))
                                /\ call' = call
    BY <1>6
  <2>2. [w EXCEPT !.len = n].start = w.start /\ [w EXCEPT !.len = n].len \in Nat BY <1>3
  <2>3. CacheChanges BY <1>1, <1>4, <2>1, <2>2 DEF CacheChanges
  <2> QED BY <2>3, CacheChangesKeep
<1> QED BY <1>2, <1>5, <1>6

LEMMA DataNextKeeps ==
  ASSUME DataInv, DataNext
  PROVE  DataInv' /\ DataExact
<1>1. CASE FlushLine BY <1>1, FlushLineKeeps
<1>2. CASE FlushReturns BY <1>2, FlushReturnsKeeps
<1>3. CASE Flush \/ alt_dcache_flush_no_writeback \/ alt_dcache_flush_all \/ alt_uncached_malloc
             \/ alt_remap_uncached
  BY <1>3, StartsAreCalls, CallStartsKeeps
<1>4. CASE malloc \/ free \/ alt_uncached_free \/ alt_remap_cached BY <1>4, PointersKeep
<1>5. CASE CachedLoad \/ CachedStore \/ UncachedStore BY <1>5, AccessesChange, CacheChangesKeep
<1>6. CASE alt_erase_flash_block \/ alt_write_flash_block
  BY <1>6, FlashKeeps DEF alt_erase_flash_block, alt_write_flash_block
<1> QED BY <1>1, <1>2, <1>3, <1>4, <1>5, <1>6 DEF DataNext
-----------------------------------------------------------------------------
CodeExact == CodeFlushDone => Bytes(icall) \cap icache'.stale = {}

LEMMA CodeLinesAre ==
  /\ ICACHE_LINE_SIZE \in Nat \ {0} /\ ICACHE_SIZE \in Nat \ {0}
  /\ \A a \in Nat : CodeLine(a) \in Nat
  /\ \A line \in Nat : CodeIndex(line) \in CodeIndexes
<1>1. /\ ICACHE_LINE_SIZE \in Nat \ {0} /\ ICACHE_SIZE \in Nat \ {0}
      /\ ICACHE_SIZE % ICACHE_LINE_SIZE = 0
  BY CacheAssumption
<1>2. PICK n \in Nat \ {0} : n = ICACHE_SIZE \div ICACHE_LINE_SIZE BY <1>1, WholeLines
<1>3. \A line \in Nat : line % n \in 0 .. n - 1 BY DivIs
<1>4. \A a \in Nat : CodeLine(a) \in Nat BY <1>1, DivIs DEF CodeLine
<1> QED BY <1>1, <1>2, <1>3, <1>4 DEF CodeIndex, CodeIndexes

LEMMA ReplacedEffect ==
  ASSUME CodeCacheOK, NEW x \in CodeIndexes, NEW line \in Nat \cup {Nothing},
         icache' = Replaced(icache, x, line)
  PROVE  /\ CodeCacheOK' /\ icache'.stale \subseteq icache.stale
         /\ \A a \in icache'.stale : CodeIndex(CodeLine(a)) # x
<1>1. /\ icache' = [cached |-> [icache.cached EXCEPT ![x] = line],
                    stale |-> icache.stale \ CodeAt(icache, x)]
      /\ icache \in [cached : [CodeIndexes -> Nat \cup {Nothing}], stale : SUBSET Addresses]
  BY DEF Replaced, CodeCacheOK
<1>2. /\ icache' \in [cached : [CodeIndexes -> Nat \cup {Nothing}], stale : SUBSET Addresses]
      /\ icache'.stale = icache.stale \ CodeAt(icache, x)
      /\ \A y \in CodeIndexes \ {x} : icache'.cached[y] = icache.cached[y]
  BY <1>1
<1>3. ASSUME NEW a \in icache'.stale
      PROVE  CodeIndex(CodeLine(a)) # x /\ icache'.cached[CodeIndex(CodeLine(a))] = CodeLine(a)
  <2>1. a \in Addresses /\ a \in icache.stale /\ a \notin CodeAt(icache, x) BY <1>1, <1>2
  <2>2. icache.cached[CodeIndex(CodeLine(a))] = CodeLine(a) BY <2>1 DEF CodeCacheOK
  <2>3. CodeIndex(CodeLine(a)) \in CodeIndexes BY <2>1, LinesAre, CodeLinesAre
  <2>4. CodeIndex(CodeLine(a)) # x BY <2>1, <2>2 DEF CodeAt
  <2> QED BY <1>2, <2>2, <2>3, <2>4
<1> QED BY <1>2, <1>3 DEF CodeCacheOK

LEMMA CodeNextKeeps ==
  ASSUME CodeInv, CodeNext
  PROVE  CodeInv' /\ CodeExact
<1>0. /\ CodeCacheOK
      /\ icall.by # "nobody" => /\ CodeCallOK(icall) /\ CodeProgress
                               /\ icall.i \in Nat /\ CodeLine(icall.i) \in Nat
                               /\ CodeLine(icall.start) \in Nat
                               /\ CodeIndex(CodeLine(icall.i)) \in CodeIndexes
  BY CodeLinesAre DEF CodeInv, CodeCallOK
<1>1. ASSUME icall' = icall, CodeCacheOK',
             icall.by # "nobody" =>
               \A a \in Bytes(icall) : a \in icache'.stale => a \in icache.stale
      PROVE  CodeInv' /\ CodeExact
  <2>1. icall.by # "nobody" => CodeProgress' BY <1>0, <1>1 DEF CodeProgress, CodeVisited
  <2> QED BY <1>0, <1>1, <2>1 DEF CodeInv, CodeExact, CodeFlushDone, CodeCallOK
<1>2. CASE Fetch
  <2>1. PICK a \in Addresses :
          icache' = IF icache.cached[CodeIndex(CodeLine(a))] = CodeLine(a) THEN icache
                    ELSE Replaced(icache, CodeIndex(CodeLine(a)), CodeLine(a))
    BY <1>2 DEF Fetch
  <2>2. CodeLine(a) \in Nat /\ CodeIndex(CodeLine(a)) \in CodeIndexes BY LinesAre, CodeLinesAre
  <2>3. CASE icache' = icache
    <3>1. CodeCacheOK' BY <1>0, <2>3 DEF CodeCacheOK
    <3> QED BY <1>1, <1>2, <2>3, <3>1 DEF Fetch
  <2>4. CASE icache' = Replaced(icache, CodeIndex(CodeLine(a)), CodeLine(a))
    <3>1. CodeCacheOK' /\ icache'.stale \subseteq icache.stale
      BY <1>0, <2>2, <2>4, ReplacedEffect
    <3> QED BY <1>1, <1>2, <3>1 DEF Fetch
  <2> QED BY <2>1, <2>3, <2>4
<1>3. CASE CodeWritten
  <2>1. PICK a \in Addresses \ CodeArgument :
          icache' = [icache EXCEPT !.stale =
                       @ \cup ({a} \cap CodeAt(icache, CodeIndex(CodeLine(a))))]
    BY <1>3 DEF CodeWritten
  <2>2. icache \in [cached : [CodeIndexes -> Nat \cup {Nothing}], stale : SUBSET Addresses]
    BY <1>0 DEF CodeCacheOK
  <2>3. /\ icache' \in [cached : [CodeIndexes -> Nat \cup {Nothing}], stale : SUBSET Addresses]
        /\ icache'.cached = icache.cached
        /\ icache'.stale = icache.stale \cup ({a} \cap CodeAt(icache, CodeIndex(CodeLine(a))))
    BY <2>1, <2>2
  <2>4. CodeCacheOK' BY <1>0, <2>3 DEF CodeCacheOK, CodeAt
  <2>5. icall.by # "nobody" =>
          \A b \in Bytes(icall) : b \in icache'.stale => b \in icache.stale
    BY <2>1, <2>3 DEF CodeArgument
  <2> QED BY <1>1, <1>3, <2>4, <2>5 DEF CodeWritten
<1>4. ASSUME NEW by \in {"alt_icache_flush", "alt_icache_flush_all"}, NEW start \in Nat, NEW len \in Nat,
             NEW region, region.start = start, region.len \in Nat,
             region.len = len \/ len = ICACHE_SIZE,
             ICacheFlush(by, start, len, region)
      PROVE  CodeInv' /\ CodeExact
  <2>1. PICK end \in Nat : /\ end = start + Trimmed(len, ICACHE_SIZE)
                           /\ end = start + region.len \/ end = start + ICACHE_SIZE
    BY <1>4, CodeLinesAre DEF Trimmed
  <2>2. icall' = [by |-> by, start |-> start, len |-> region.len, i |-> start, end |-> end]
    BY <1>4, <2>1 DEF ICacheFlush
  <2>3. /\ icall' \in [by : {"alt_icache_flush", "alt_icache_flush_all"},
                       start : Nat, len : Nat, i : Nat, end : Nat]
        /\ icall'.by = by /\ icall'.start = start /\ icall'.len = region.len
        /\ icall'.i = start /\ icall'.end = end
    BY <1>4, <2>2
  <2>4. CodeCallOK(icall)' BY <2>1, <2>3 DEF CodeCallOK
  <2>5. CodeProgress'
    <3>1. CodeLine(start) \in Nat BY CodeLinesAre
    <3>2. \A a : ~CodeVisited(a)' BY <2>3, <3>1 DEF CodeVisited
    <3> QED BY <3>2 DEF CodeProgress
  <2>6. CodeCacheOK' /\ icall.by = "nobody" BY <1>0, <1>4 DEF ICacheFlush, CodeCacheOK
  <2> QED BY <2>4, <2>5, <2>6 DEF CodeInv, CodeExact, CodeFlushDone
<1>5. CASE alt_icache_flush
  <2>1. PICK r \in Regions : ICacheFlush("alt_icache_flush", r.start, r.len, r)
    BY <1>5 DEF alt_icache_flush
  <2>2. r.start \in Nat /\ r.len \in Nat BY CacheAssumption
  <2> QED BY <1>4, <2>1, <2>2
<1>6. CASE alt_icache_flush_all
  <2>1. ICacheFlush("alt_icache_flush_all", 0, ICACHE_SIZE, [start |-> 0, len |-> MemorySize])
    BY <1>6 DEF alt_icache_flush_all
  <2>2. MemorySize \in Nat /\ ICACHE_SIZE \in Nat BY CacheAssumption
  <2> QED BY <1>4, <2>1, <2>2
<1>7. CASE CodeFlushLine
  <2>1. /\ icall.by # "nobody" /\ icache' = CodeFlushed
        /\ icall' = [icall EXCEPT !.i = @ + ICACHE_LINE_SIZE]
    BY <1>7 DEF CodeFlushLine
  <2>2. /\ CodeCacheOK' /\ icache'.stale \subseteq icache.stale
        /\ \A a \in icache'.stale : CodeIndex(CodeLine(a)) # CodeIndex(CodeLine(icall.i))
    BY <1>0, <2>1, ReplacedEffect DEF CodeFlushed
  <2>3. /\ icall \in [by : {"alt_icache_flush", "alt_icache_flush_all"},
                      start : Nat, len : Nat, i : Nat, end : Nat]
        /\ ICACHE_LINE_SIZE \in Nat \ {0}
    BY <1>0, <2>1, CodeLinesAre DEF CodeCallOK
  <2>4. /\ icall' \in [by : {"alt_icache_flush", "alt_icache_flush_all"},
                       start : Nat, len : Nat, i : Nat, end : Nat]
        /\ icall'.by = icall.by /\ icall'.start = icall.start /\ icall'.len = icall.len
        /\ icall'.i = icall.i + ICACHE_LINE_SIZE /\ icall'.end = icall.end
    BY <2>1, <2>3
  <2>5. /\ CodeLine(icall.i + ICACHE_LINE_SIZE) = CodeLine(icall.i) + 1
        /\ (icall.i + ICACHE_LINE_SIZE) % ICACHE_LINE_SIZE = icall.i % ICACHE_LINE_SIZE
    BY <2>3, NextLine DEF CodeLine
  <2>6. CodeCallOK(icall)'
    <3>1. /\ icall'.start <= icall'.i
          /\ icall'.i % ICACHE_LINE_SIZE = icall'.start % ICACHE_LINE_SIZE
      BY <1>0, <2>1, <2>3, <2>4, <2>5 DEF CodeCallOK
    <3> QED BY <1>0, <2>1, <2>4, <3>1 DEF CodeCallOK
  <2>7. CodeProgress'
    <3> SUFFICES ASSUME NEW a \in Bytes(icall'), CodeVisited(a)' PROVE a \notin icache'.stale
      BY DEF CodeProgress
    <3>1. a \in Bytes(icall) BY <2>4 DEF Bytes
    <3>2. CodeVisited(a) \/ CodeIndex(CodeLine(icall.i)) = CodeIndex(CodeLine(a))
      BY <1>0, <2>1, <2>4, <2>5 DEF CodeVisited
    <3> QED BY <1>0, <2>1, <2>2, <3>1, <3>2 DEF CodeProgress
  <2> QED BY <2>1, <2>2, <2>4, <2>6, <2>7 DEF CodeInv, CodeExact, CodeFlushDone
<1>8. CASE CodeFlushReturns
  <2>1. /\ icall.by # "nobody" /\ icall.i >= icall.end /\ icall' = NoCodeCall
        /\ icache' = IF icall.start % ICACHE_LINE_SIZE # 0 THEN CodeFlushed ELSE icache
    BY <1>8 DEF CodeFlushReturns
  <2>2. /\ CodeCacheOK' /\ icache'.stale \subseteq icache.stale
        /\ icall.start % ICACHE_LINE_SIZE # 0 =>
             \A a \in icache'.stale : CodeIndex(CodeLine(a)) # CodeIndex(CodeLine(icall.i))
    <3>1. CASE icall.start % ICACHE_LINE_SIZE # 0
      BY <1>0, <2>1, <3>1, ReplacedEffect DEF CodeFlushed
    <3>2. CASE icall.start % ICACHE_LINE_SIZE = 0 BY <1>0, <2>1, <3>2 DEF CodeCacheOK
    <3> QED BY <3>1, <3>2
  <2>3. ASSUME NEW a \in Bytes(icall) PROVE a \notin icache'.stale
    <3>1. /\ icall.start \in Nat /\ icall.len \in Nat /\ icall.i \in Nat /\ icall.end \in Nat
          /\ icall.start <= icall.i
          /\ icall.i % ICACHE_LINE_SIZE = icall.start % ICACHE_LINE_SIZE
          /\ icall.end <= icall.i /\ a \in Nat
          /\ a \in icall.start .. icall.start + icall.len - 1
      BY <1>0, <2>1 DEF CodeCallOK, Bytes
    <3>2. /\ ICACHE_LINE_SIZE \in Nat \ {0} /\ ICACHE_SIZE \in Nat \ {0}
          /\ ICACHE_SIZE % ICACHE_LINE_SIZE = 0
      BY CacheAssumption
    <3>3. LoopOver(ICACHE_LINE_SIZE, ICACHE_SIZE, icall.start, icall.len, icall.i, icall.end, a)
      BY <3>1, <3>2 DEF LoopOver
    <3>4. /\ icall.end = icall.start + icall.len =>
              /\ CodeLine(icall.start) <= CodeLine(a) /\ CodeLine(a) <= CodeLine(icall.i)
              /\ icall.start % ICACHE_LINE_SIZE = 0 => CodeLine(a) < CodeLine(icall.i)
          /\ icall.end = icall.start + ICACHE_SIZE =>
              \E line \in CodeLine(icall.start) .. CodeLine(icall.i) - 1 :
                CodeIndex(line) = CodeIndex(CodeLine(a))
      BY <3>3, LinesCover DEF LoopPasses, CodeLine, CodeIndex
    <3>5. CodeLine(a) \in Nat BY <3>1, CodeLinesAre
    <3>6. CASE CodeLine(a) = CodeLine(icall.i) /\ icall.start % ICACHE_LINE_SIZE # 0
      BY <2>2, <3>6
    <3>7. CASE CodeVisited(a) BY <1>0, <2>1, <2>2, <3>7 DEF CodeProgress
    <3>8. icall.end = icall.start + icall.len =>
            CodeVisited(a) \/ (CodeLine(a) = CodeLine(icall.i) /\ icall.start % ICACHE_LINE_SIZE # 0)
      <4> SUFFICES ASSUME icall.end = icall.start + icall.len,
                          CodeLine(a) # CodeLine(icall.i) \/ icall.start % ICACHE_LINE_SIZE = 0
                   PROVE  CodeVisited(a)
        OBVIOUS
      <4>1. CodeLine(a) \in CodeLine(icall.start) .. CodeLine(icall.i) - 1
        BY <1>0, <2>1, <3>4, <3>5
      <4> QED BY <4>1 DEF CodeVisited
    <3>9. icall.end = icall.start + ICACHE_SIZE => CodeVisited(a) BY <3>4 DEF CodeVisited
    <3> QED BY <1>0, <2>1, <3>6, <3>7, <3>8, <3>9 DEF CodeCallOK
  <2>4. icall'.by = "nobody" BY <2>1 DEF NoCodeCall
  <2> QED BY <2>2, <2>3, <2>4 DEF CodeInv, CodeExact
<1> QED BY <1>2, <1>3, <1>5, <1>6, <1>7, <1>8 DEF CodeNext
-----------------------------------------------------------------------------
LEMMA CacheInitOK == CacheInit => CacheInv
<1> SUFFICES ASSUME CacheInit PROVE CacheInv OBVIOUS
<1>1. Nothing \in Nat \cup {Nothing} /\ NULL \in Nat BY DEF NULL
<1>2. CacheOK(dcache)
  <2>1. /\ dcache = [cached |-> [x \in Indexes |-> Nothing], dirty |-> {},
                     newer |-> {}, older |-> {}, lost |-> {}]
        /\ [x \in Indexes |-> Nothing] \in [Indexes -> Nat \cup {Nothing}]
    BY <1>1 DEF CacheInit
  <2>2. dcache \in [cached : [Indexes -> Nat \cup {Nothing}], dirty : SUBSET Indexes,
                    newer : SUBSET Addresses, older : SUBSET Addresses, lost : SUBSET Addresses]
    BY <2>1
  <2> QED BY <2>1, <2>2 DEF CacheOK
<1>3. PointersOK /\ flushda \in BOOLEAN BY <1>1 DEF CacheInit, PointersOK
<1>4. UncachedNotCached
  <2>1. \A b \in Blocks : ~Bypassing(b) BY BlocksAre DEF CacheInit, Bypassing, NULL
  <2> QED BY <2>1 DEF UncachedNotCached
<1>5. CallInv BY DEF CacheInit, CallInv, NoCall
<1>6. CodeInv
  <2>1. icache \in [cached : [CodeIndexes -> Nat \cup {Nothing}], stale : SUBSET Addresses]
        /\ icache.stale = {} /\ icall.by = "nobody"
    BY <1>1 DEF CacheInit, NoCodeCall
  <2> QED BY <2>1 DEF CodeInv, CodeCacheOK
<1> QED BY <1>2, <1>3, <1>4, <1>5, <1>6 DEF CacheInv, DataInv

LEMMA DataUnchanged ==
  ASSUME DataInv, UNCHANGED dataVars
  PROVE  DataInv' /\ DataExact
<1>1. flushda' = flushda /\ dcache' = dcache /\ pointer' = pointer /\ call' = call
  BY DEF dataVars
<1>2. CacheChanges BY <1>1 DEF CacheChanges, DataInv
<1> QED BY <1>2, CacheChangesKeep

LEMMA CodeUnchanged ==
  ASSUME CodeInv, UNCHANGED codeVars
  PROVE  CodeInv' /\ CodeExact
BY DEF codeVars, CodeInv, CodeCacheOK, CodeCallOK, CodeProgress, CodeVisited, CodeExact,
       CodeFlushDone

LEMMA CacheStep ==
  ASSUME CacheInv, [CacheNext]_cacheVars
  PROVE  CacheInv' /\ DataExact /\ CodeExact
<1>0. DataInv /\ CodeInv BY DEF CacheInv
<1>1. CASE DataNext
  <2>1. UNCHANGED codeVars
    BY <1>1 DEF DataNext, FlushLine, FlushReturns, Flush, alt_dcache_flush_no_writeback,
                alt_dcache_flush_all, malloc, free, alt_uncached_malloc, alt_uncached_free,
                alt_remap_uncached, alt_remap_cached, alt_erase_flash_block,
                alt_write_flash_block, FlashBlock, CachedLoad, CachedStore, UncachedStore
  <2> QED BY <1>0, <1>1, <2>1, DataNextKeeps, CodeUnchanged DEF CacheInv
<1>2. CASE CodeNext
  <2>1. UNCHANGED dataVars
    BY <1>2 DEF CodeNext, Fetch, CodeWritten, alt_icache_flush, alt_icache_flush_all,
                ICacheFlush, CodeFlushLine, CodeFlushReturns
  <2> QED BY <1>0, <1>2, <2>1, CodeNextKeeps, DataUnchanged DEF CacheInv
<1>3. CASE UNCHANGED cacheVars
  <2>1. UNCHANGED dataVars /\ UNCHANGED codeVars BY <1>3 DEF cacheVars
  <2> QED BY <1>0, <2>1, DataUnchanged, CodeUnchanged DEF CacheInv
<1> QED BY <1>1, <1>2, <1>3 DEF CacheNext

\* Caches and calls that flush them, for every size and length of a line.
THEOREM CacheInvCorrect == CacheSpec => []CacheInv
<1>1. CacheInv /\ [CacheNext]_cacheVars => CacheInv' BY CacheStep
<1> QED BY <1>1, CacheInitOK, PTL DEF CacheSpec

\* The caches and the pointers of the program keep their types.
THEOREM CacheTypeCorrect == CacheSpec => []CacheTypeOK
<1> DEFINE Built == initda \in BOOLEAN
<1>1. CacheInit => Built BY DEF CacheInit
<1>2. [CacheNext]_cacheVars => UNCHANGED initda
  <2>1. CASE DataNext
    BY <2>1
    DEF DataNext, FlushLine, FlushReturns, Flush, alt_dcache_flush_no_writeback,
        alt_dcache_flush_all, malloc, free, alt_uncached_malloc, alt_uncached_free,
        alt_remap_uncached, alt_remap_cached, alt_erase_flash_block,
        alt_write_flash_block, FlashBlock, CachedLoad, CachedStore, UncachedStore
  <2>2. CASE CodeNext
    BY <2>2
    DEF CodeNext, Fetch, CodeWritten, alt_icache_flush, alt_icache_flush_all, ICacheFlush,
        CodeFlushLine, CodeFlushReturns, dataVars
  <2>3. CASE UNCHANGED cacheVars
    BY <2>3 DEF cacheVars, dataVars
  <2> QED BY <2>1, <2>2, <2>3 DEF CacheNext
<1>3. Built /\ UNCHANGED initda => Built' OBVIOUS
<1>4. CacheInv /\ Built => CacheTypeOK
  BY DEF CacheInv, DataInv, CacheOK, PointersOK, CodeInv, CodeCacheOK, CacheTypeOK
<1> HIDE DEF Built
<1> QED BY <1>1, <1>2, <1>3, <1>4, CacheInvCorrect, PTL DEF CacheSpec

(***************************************************************************)
(* No line of a block that is accessed past the cache is in it, for all    *)
(* caches and regions, and for blocks that have their lines for themselves *)
(* (CacheAssumption): those of malloc(), which aligns to 8 bytes, have if  *)
(* lines are no longer (alt_remap_uncached.c:47-51,                        *)
(* alt_uncached_malloc.c:46-55).                                           *)
(***************************************************************************)
THEOREM UncachedNotCachedCorrect == CacheSpec => []UncachedNotCached
<1>1. CacheInv => UncachedNotCached BY DEF CacheInv, DataInv
<1> QED BY <1>1, CacheInvCorrect, PTL

(***************************************************************************)
(* The flush functions flush what they are asked to, whatever begins or    *)
(* ends within a line, and lose nothing that they were not told to         *)
(* (alt_dcache_flush.c:57-97, alt_dcache_flush_no_writeback.c:64-88,       *)
(* alt_icache_flush.c:42-84).                                              *)
(***************************************************************************)
THEOREM FlushExactCorrect == CacheSpec => FlushExact
<1>1. CacheInv /\ [CacheNext]_cacheVars => CacheInv' BY CacheStep
<1>2. CacheInv /\ [CacheNext]_cacheVars =>
        [/\ DataFlushed => Bytes(call) \cap (dcache'.newer \cup dcache'.older) = {}
         /\ CodeFlushDone => Bytes(icall) \cap icache'.stale = {}
         /\ \A a \in dcache'.lost \ dcache.lost : MayBeLost(a)]_cacheVars
  BY CacheStep DEF DataExact, CodeExact
<1> QED BY <1>1, <1>2, CacheInitOK, PTL DEF CacheSpec, FlushExact
=============================================================================
