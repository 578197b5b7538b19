-------------------------------- MODULE AltGmon --------------------------------
(***************************************************************************)
(* The profiler (HAL/src/alt_gmon.c, alt_mcount.S): every call of an       *)
(* instrumented function first goes through mcount(), which looks for the  *)
(* record of the call (the function, and where it was called from) in a    *)
(* list and counts it, or adds it. Interrupt routines are instrumented     *)
(* too. The lookup, the counting and the start of the sampler can be       *)
(* interrupted, between any two accesses to what the levels share; the     *)
(* addition cannot.  So the sampler may be started twice: that makes two   *)
(* histograms here; that its alarm is put into the list twice is beyond    *)
(* this module.  One bucket of the hash table is modelled; SizeOfEntry is  *)
(* the size of both structures.                                            *)
(***************************************************************************)
EXTENDS AltHeap

CONSTANTS
  Functions, Callers,     \* self_pc, from_pc
  SizeOfEntry,
  HistogramSize,          \* bytes of the histogram of pc samples
  Increments,             \* what the C library asks sbrk() for
  MaxCalls                \* bound on how often a call goes through, for each level

\* The structures fit into a slab; the C library never gives memory back.
ASSUME GmonAssumption ==
  /\ SizeOfEntry \in 1 .. SlabSize /\ HistogramSize \in Nat /\ Increments \subseteq Nat
  /\ MaxCalls \in Nat

VARIABLES
  fns,                \* the fn_entry list: the newest is last
  need_init,          \* pcsample_need_init
  prof_rate,          \* alt_ticks_per_second() is not zero
  mcount,             \* where each level of execution is in mcount()
  calls               \* how often each call went through

gmonVars == <<heapVars, fns, need_init, prof_rate, mcount, calls>>

Levels == {"program", "interrupt"}
Arcs == Functions \X Callers
None == 0

\* self, from: the call; fn, arc: the records found, or None; count: as loaded;
\* at: how far the start of the sampler is.
AtCall(self, from, fn, arc, count) ==
  [self |-> self, from |-> from, fn |-> fn, arc |-> arc, count |-> count, at |-> "look"]
Out == AtCall("none", "none", None, None, 0)
Idle(level) == mcount[level] = Out

GmonInit ==
  /\ HeapInit
  /\ fns = <<>>
  /\ need_init = TRUE /\ prof_rate = FALSE
  /\ mcount = [level \in Levels |-> Out]
  /\ calls = [a \in Arcs |-> 0]

\* The timer is started.
ClockStarts ==
  /\ ~prof_rate /\ prof_rate' = TRUE
  /\ UNCHANGED <<heapVars, fns, need_init, mcount, calls>>

\* The program waits while an interrupt routine runs.
Runs(level) == level = "program" => Idle("interrupt")

Last(S) == IF S = {} THEN None ELSE CHOOSE i \in S : \A j \in S : j <= i
FindFn(self) == Last({i \in DOMAIN fns : fns[i].self = self})
FindArc(fn, from) ==
  IF fn = None THEN None
  ELSE Last({i \in DOMAIN fns[fn].arcs : fns[fn].arcs[i].from = from})

\* alt_mcount.S: walk the lists, and load the count.
Lookup(level, self, from) ==
  /\ Runs(level) /\ Idle(level)
  /\ calls[<<self, from>>] < MaxCalls
  /\ LET fn == FindFn(self)
         arc == FindArc(fn, from)
         count == IF arc = None THEN 0 ELSE fns[fn].arcs[arc].count
     IN  mcount' = [mcount EXCEPT ![level] = AtCall(self, from, fn, arc, count)]
  /\ UNCHANGED <<heapVars, fns, need_init, prof_rate, calls>>

Leaves(level) ==
  /\ mcount' = [mcount EXCEPT ![level] = Out]
  /\ calls' = [calls EXCEPT ![<<mcount[level].self, mcount[level].from>>] = @ + 1]

\* The record was found: store the count that was loaded, and one.
Count(level) ==
  /\ Runs(level) /\ ~Idle(level)
  /\ mcount[level].arc # None
  /\ fns' = [fns EXCEPT ![mcount[level].fn].arcs[mcount[level].arc].count =
                          mcount[level].count + 1]
  /\ Leaves(level)
  /\ UNCHANGED <<heapVars, need_init, prof_rate>>

-----------------------------------------------------------------------------
\* The memory nios2_pcsample_init() takes for the histogram, refused or not.
WithHistogram(heap) ==
  LET ptr == SbrkResult(heap.end, HistogramSize)
      histogram == MemoryBlock(ptr, HistogramSize)
  IN  [heap EXCEPT
         !.end = SbrkEnd(heap.end, HistogramSize),
         !.blocks = IF ptr = Refused THEN @ ELSE Append(@, histogram),
         !.stray = IF ptr = Refused THEN @ \cup {histogram} ELSE @]

\* The record was not found.  A level that starts the sampler is at one of these points.
Starts(level, from, to) ==
  /\ mcount[level].at = from
  /\ mcount' = [mcount EXCEPT ![level].at = to]

\* if (pcsample_need_init)
LookAtNeed(level) ==
  /\ Starts(level, "look", IF need_init THEN "clear" ELSE "record")
  /\ UNCHANGED <<heapVars, need_init>>

ClearNeed(level) ==
  /\ Starts(level, "clear", "rate")
  /\ need_init' = FALSE
  /\ UNCHANGED heapVars

\* Without a clock the sampler is not started.
ReadRate(level) ==
  /\ Starts(level, "rate", IF prof_rate THEN "histogram" ELSE "failed")
  /\ UNCHANGED <<heapVars, need_init>>

\* The histogram and the alarm; the comparison with 0 never fails.
StartSampling(level) ==
  /\ Starts(level, "histogram", "started")
  /\ AllocatorBecomes(WithHistogram(Allocator))
  /\ UNCHANGED need_init

\* pcsample_need_init = nios2_pcsample_init()
StoreNeed(level) ==
  /\ \E from \in {"failed", "started"} :
       Starts(level, from, "record") /\ need_init' = (from = "failed")
  /\ UNCHANGED heapVars

\* First __mcount_record() tries to start the sampler, until it runs.
TrySampler(level) ==
  /\ Runs(level) /\ ~Idle(level)
  /\ mcount[level].arc = None
  /\ \/ LookAtNeed(level) \/ ClearNeed(level) \/ ReadRate(level)
     \/ StartSampling(level) \/ StoreNeed(level)
  /\ UNCHANGED <<fns, prof_rate, calls>>

\* Variant: the next pointer of the new entry is not set.
Unlinked(list, entry) == <<entry>>

\* entry becomes the head of list, as that is once interrupts are disabled.
Linked(list, entry) == Append(list, entry)

NewArc(level) == [from |-> mcount[level].from, count |-> 1]

\* Then a new function and its first record are added, or a new record.
__mcount_record(level) ==
  /\ Runs(level) /\ ~Idle(level)
  /\ mcount[level].at = "record"
  /\ IF mcount[level].fn = None
     THEN /\ fns' = Linked(fns,
                           [self |-> mcount[level].self, arcs |-> <<NewArc(level)>>])
          /\ AllocatorBecomes(
               mcount_allocate(mcount_allocate(Allocator, SizeOfEntry), SizeOfEntry))
     ELSE /\ fns' = [fns EXCEPT ![mcount[level].fn].arcs = Linked(@, NewArc(level))]
          /\ AllocatorBecomes(mcount_allocate(Allocator, SizeOfEntry))
  /\ Leaves(level)
  /\ UNCHANGED <<need_init, prof_rate>>

\* The C library allocates between two calls of the program.
LibraryAllocates ==
  /\ Runs("program") /\ Idle("program")
  /\ \E incr \in Increments : ALT_SBRK(incr)
  /\ UNCHANGED <<fns, need_init, prof_rate, mcount, calls>>

GmonNext ==
  \/ ClockStarts \/ LibraryAllocates
  \/ \E level \in Levels :
       \/ \E self \in Functions, from \in Callers : Lookup(level, self, from)
       \/ Count(level) \/ TrySampler(level) \/ __mcount_record(level)

GmonSpec == GmonInit /\ [][GmonNext]_gmonVars

-----------------------------------------------------------------------------
GmonTypeOK ==
  /\ heap_end \in Nat /\ mcount_slab_size \in 0 .. SlabSize
  /\ mcount_slab_ptr \in Int /\ slab_astray \in BOOLEAN
  /\ blocks \in Seq([from : Int, to : Int]) /\ stray \subseteq [from : Int, to : Int]
  /\ fns \in Seq([self : Functions, arcs : Seq([from : Callers, count : Nat])])
  /\ need_init \in BOOLEAN /\ prof_rate \in BOOLEAN
  /\ calls \in [Arcs -> Nat]

\* What the lists say of a call.
Records(self, from) ==
  UNION {{fns[i].arcs[j] : j \in {k \in DOMAIN fns[i].arcs : fns[i].arcs[k].from = from}} :
           i \in {k \in DOMAIN fns : fns[k].self = self}}

(***************************************************************************)
(* No byte of the heap is used for two purposes, and none is given out     *)
(* beyond the limit of the heap (alt_sbrk.c:68-136, alt_gmon.c:133-148).   *)
(* What the profiler takes although it was refused is not memory of the    *)
(* heap: that happens only when the heap has no room for another slab, or  *)
(* for a histogram, and what it hits is no more than a slab, or a          *)
(* histogram, from the address a refusal is taken for, however often it    *)
(* is refused and whatever it has recorded.                                *)
(***************************************************************************)
HeapDisjoint ==
  /\ \A i \in DOMAIN blocks : HeapStart <= blocks[i].from /\ blocks[i].to <= HeapLimit
  /\ \A i, j \in DOMAIN blocks : i # j => Apart(blocks[i], blocks[j])
  /\ \A b \in stray : \E size \in {SlabSize, HistogramSize} :
       Exceeds(heap_end, size) /\ Refused <= b.from /\ b.to <= Refused + size

(***************************************************************************)
(* The call graph is not lost to the interrupts that the lookup allows     *)
(* (alt_gmon.c:176-184): every call that went through has a record with a  *)
(* count, and no record counts more calls than there were.                 *)
(***************************************************************************)
CallGraphKept ==
  \A self \in Functions, from \in Callers :
    /\ calls[<<self, from>>] > 0 <=> Records(self, from) # {}
    /\ \A arc \in Records(self, from) : arc.count <= calls[<<self, from>>]
=============================================================================
