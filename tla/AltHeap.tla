-------------------------------- MODULE AltHeap --------------------------------
(***************************************************************************)
(* Memory (HAL/src/alt_sbrk.c and the allocator of alt_gmon.c): sbrk()     *)
(* extends the heap upwards, for the C library and for the profiler, which *)
(* asks for a slab at a time and hands it out in pieces.  Both disable     *)
(* interrupts around what they do: one step.  Nothing is ever given back   *)
(* (the C library only shrinks a heap that ends in its own memory).        *)
(***************************************************************************)
EXTENDS Integers, Sequences

CONSTANTS
  HeapStart, HeapLimit,     \* __alt_heap_start, __alt_heap_limit
  SlabSize                  \* MCOUNT_SLAB_INCREMENT

ASSUME HeapAssumption ==
  /\ HeapStart \in Nat /\ HeapLimit \in Nat /\ HeapStart <= HeapLimit
  /\ SlabSize \in Nat

VARIABLES
  heap_end,
  mcount_slab_ptr, mcount_slab_size,
  slab_astray,  \* the slab is what sbrk() returns when it refuses
  blocks,       \* history: memory of the heap that was handed out, one after another
  stray         \* history: memory that the profiler took although sbrk() had refused

heapVars == <<heap_end, mcount_slab_ptr, mcount_slab_size, slab_astray, blocks, stray>>

HeapInit ==
  /\ heap_end = HeapStart
  /\ mcount_slab_ptr = 0 /\ mcount_slab_size = 0
  /\ slab_astray = FALSE
  /\ blocks = <<>> /\ stray = {}

\* As an address it is the last one.
Refused == -1

\* (heap_end + 3) & ~3
Aligned(address) == 4 * ((address + 3) \div 4)

Exceeds(end, incr) == Aligned(end) + incr > HeapLimit

\* What sbrk() returns, and where the heap ends after it, even if it refuses.
SbrkResult(end, incr) == IF Exceeds(end, incr) THEN Refused ELSE Aligned(end)
SbrkEnd(end, incr) == IF Exceeds(end, incr) THEN Aligned(end) ELSE Aligned(end) + incr

MemoryBlock(at, size) == [from |-> at, to |-> at + size]

\* The C library, and the program through it, sees a refusal.
ALT_SBRK(incr) ==
  /\ heap_end' = SbrkEnd(heap_end, incr)
  /\ blocks' = IF Exceeds(heap_end, incr) THEN blocks
               ELSE Append(blocks, MemoryBlock(SbrkResult(heap_end, incr), incr))
  /\ UNCHANGED <<mcount_slab_ptr, mcount_slab_size, slab_astray, stray>>

-----------------------------------------------------------------------------
\* Variant: what is left of the slab is not reduced.
Undiminished(left, size) == left

Left(left, size) == left - size

(***************************************************************************)
(* mcount_allocate(), as a function of the heap.  The rest of a slab that  *)
(* is too small is lost.  A refusal is not noticed: its pieces are used.   *)
(***************************************************************************)
mcount_allocate(heap, size) ==
  LET fresh == size > heap.left
      ptr == IF fresh THEN SbrkResult(heap.end, SlabSize) ELSE heap.ptr
      astray == IF fresh THEN ptr = Refused ELSE heap.astray
      piece == MemoryBlock(ptr, size)
  IN  [end |-> IF fresh THEN SbrkEnd(heap.end, SlabSize) ELSE heap.end,
       ptr |-> ptr + size,
       left |-> Left(IF fresh THEN SlabSize ELSE heap.left, size),
       astray |-> astray,
       blocks |-> IF astray THEN heap.blocks ELSE Append(heap.blocks, piece),
       stray |-> IF astray THEN heap.stray \cup {piece} ELSE heap.stray]

Allocator == [end |-> heap_end, ptr |-> mcount_slab_ptr, left |-> mcount_slab_size,
              astray |-> slab_astray, blocks |-> blocks, stray |-> stray]

AllocatorBecomes(heap) ==
  /\ heap_end' = heap.end
  /\ mcount_slab_ptr' = heap.ptr /\ mcount_slab_size' = heap.left
  /\ slab_astray' = heap.astray
  /\ blocks' = heap.blocks /\ stray' = heap.stray

\* Two pieces of memory that have no byte in common.
Apart(b, c) == b.to <= c.from \/ c.to <= b.from
=============================================================================
