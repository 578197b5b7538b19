-------------------------------- MODULE AltCache --------------------------------
(***************************************************************************)
(* The cache functions of the HAL (alt_dcache_flush*.c, alt_icache_flush*.c, *)
(* alt_remap_*.c, alt_uncached_*.c) and the two operations on flash blocks *)
(* that use them (alt_flash.h), for a processor with caches: direct mapped, *)
(* the data cache written back.  The loops flush one line per step; the    *)
(* interrupts' loads and stores come in between.                           *)
(*                                                                         *)
(* Data are abstracted to whether the cache and memory agree.  Addresses   *)
(* count bytes; those of the caller that bypass the cache have the bit     *)
(* BYPASS_DCACHE_MASK set.                                                 *)
(***************************************************************************)
EXTENDS Integers

CONSTANTS
  DCACHE_SIZE,            \* in bytes: NIOS2_DCACHE_SIZE
  DCACHE_LINE_SIZE,
  ICACHE_SIZE,
  ICACHE_LINE_SIZE,
  MemorySize,             \* addresses below are memory
  FlashBase,              \* and from here on flash
  BYPASS_DCACHE_MASK,
  Regions,                \* [start, len]: what the program flushes
  Blocks,                 \* [start, len]: what malloc() hands out
  FlashWrites             \* [start, len]: what it erases or programs

Addresses == 0 .. MemorySize - 1
NULL == 0

Bytes(region) == region.start .. region.start + region.len - 1

(***************************************************************************)
(* A block has its lines for itself.  It is so if the line size divides    *)
(* what malloc() aligns to, 8 bytes; of longer lines a block shares the    *)
(* first with the words malloc() keeps in front of it, and the functions   *)
(* for uncached memory do not work.  Flash begins with a line, as a device *)
(* begins at a multiple of its size.                                       *)
(***************************************************************************)
ASSUME CacheAssumption ==
  /\ DCACHE_LINE_SIZE \in Nat \ {0} /\ ICACHE_LINE_SIZE \in Nat \ {0}
  /\ DCACHE_SIZE \in Nat \ {0} /\ DCACHE_SIZE % DCACHE_LINE_SIZE = 0
  /\ ICACHE_SIZE \in Nat \ {0} /\ ICACHE_SIZE % ICACHE_LINE_SIZE = 0
  /\ FlashBase \in Nat /\ MemorySize \in Nat /\ BYPASS_DCACHE_MASK \in Nat
  /\ FlashBase % DCACHE_LINE_SIZE = 0
  /\ FlashBase <= MemorySize /\ MemorySize <= BYPASS_DCACHE_MASK
  /\ Regions \cup Blocks \cup FlashWrites \subseteq [start : Nat, len : Nat]
  /\ \A r \in Regions \cup Blocks \cup FlashWrites : r.start + r.len <= MemorySize
  /\ \A w \in FlashWrites : FlashBase <= w.start
  /\ \A b \in Blocks :
       /\ b.start # NULL /\ b.len > 0 /\ b.start + b.len <= FlashBase
       /\ \A a \in Addresses : \A x \in Bytes(b) :
            a \div DCACHE_LINE_SIZE = x \div DCACHE_LINE_SIZE => a \in Bytes(b)
  /\ \A b, c \in Blocks : b # c => Bytes(b) \cap Bytes(c) = {}

VARIABLES
  flushda,    \* NIOS2_FLUSHDA_SUPPORTED
  initda,     \* NIOS2_INITDA_SUPPORTED
  dcache,
  pointer,    \* to a block, or NULL
  call,       \* that flushes the data cache
  icache,
  icall

dataVars == <<flushda, initda, dcache, pointer, call>>
codeVars == <<icache, icall>>
cacheVars == <<dataVars, codeVars>>

-----------------------------------------------------------------------------
(***************************************************************************)
(* The data cache.  "newer" are the bytes whose last value only the cache  *)
(* has, "older" those of which it has an old one; of "lost" the last value *)
(* is nowhere.  It loads lines and writes them back as a whole.            *)
(***************************************************************************)
DataLine(a) == a \div DCACHE_LINE_SIZE
Index(line) == line % (DCACHE_SIZE \div DCACHE_LINE_SIZE)
Indexes == 0 .. (DCACHE_SIZE \div DCACHE_LINE_SIZE) - 1
Nothing == -1

Cached(d) == {a \in Addresses : d.cached[Index(DataLine(a))] = DataLine(a)}
At(d, x) == {a \in Cached(d) : Index(DataLine(a)) = x}

Drop(d, x, writeback) ==
  [cached |-> [d.cached EXCEPT ![x] = Nothing],
   dirty |-> d.dirty \ {x},
   newer |-> d.newer \ At(d, x),
   older |-> d.older \ At(d, x),
   lost |-> d.lost \cup
     (At(d, x) \cap (IF ~writeback THEN d.newer ELSE IF x \in d.dirty THEN d.older ELSE {}))]

Bring(d, line) ==
  IF d.cached[Index(line)] = line THEN d
  ELSE [Drop(d, Index(line), TRUE) EXCEPT !.cached[Index(line)] = line]

Changed(d, a) ==
  LET held == Bring(d, DataLine(a))
  IN  [held EXCEPT !.dirty = @ \cup {Index(DataLine(a))}, !.newer = @ \cup {a},
                   !.older = @ \ {a}, !.lost = @ \ {a}]

\* Memory is written by a device or by a store that bypasses the cache.
MemoryWritten(d, bytes) ==
  [d EXCEPT !.newer = @ \ bytes, !.older = @ \cup (bytes \cap Cached(d)), !.lost = @ \ bytes]

-----------------------------------------------------------------------------
(***************************************************************************)
(* A call of one of the flush functions, on its way from i to end: start   *)
(* and len are its arguments, and block is what its caller, a function for *)
(* uncached memory, is to hand out.                                        *)
(***************************************************************************)
NoBlock == [start |-> NULL, len |-> 0]
NoCall == [by |-> "nobody", start |-> 0, len |-> 0, i |-> 0, end |-> 0, block |-> NoBlock]

Trimmed(len, size) == IF len > size THEN size ELSE len

\* Variant: the length is trimmed in any case.
AlwaysTrimmed(len) == Trimmed(len, DCACHE_SIZE)

\* Bytes from start to end: flushda goes by address, and nothing is trimmed.
FlushLength(len) == IF flushda THEN len ELSE Trimmed(len, DCACHE_SIZE)

alt_dcache_flush(by, start, len, block) ==
  call' = [by |-> by, start |-> start, len |-> len, i |-> start,
           end |-> start + FlushLength(len), block |-> block]

WritesBack(c) == c.by # "alt_dcache_flush_no_writeback"
ByAddress(c) == IF WritesBack(c) THEN flushda /\ c.by # "alt_dcache_flush_all" ELSE TRUE

\* One flushda, flushd or initda instruction.
Flushed(d, c) ==
  LET x == Index(DataLine(c.i))
  IN  IF ByAddress(c) /\ d.cached[x] # DataLine(c.i) THEN d ELSE Drop(d, x, WritesBack(c))

FlushLine ==
  /\ call.by # "nobody" /\ call.i < call.end
  /\ dcache' = Flushed(dcache, call)
  /\ call' = [call EXCEPT !.i = @ + DCACHE_LINE_SIZE]
  /\ UNCHANGED <<flushda, initda, pointer, codeVars>>

Uncached(p) == IF p >= BYPASS_DCACHE_MASK THEN p ELSE p + BYPASS_DCACHE_MASK

FlushReturns ==
  /\ call.by # "nobody" /\ call.i >= call.end
  /\ dcache' = IF call.start % DCACHE_LINE_SIZE # 0 THEN Flushed(dcache, call) ELSE dcache
  /\ pointer' = [b \in Blocks |-> IF b = call.block THEN Uncached(call.start) ELSE pointer[b]]
  /\ call' = NoCall
  /\ UNCHANGED <<flushda, initda, codeVars>>

Flush ==
  /\ call.by = "nobody"
  /\ \E r \in Regions : alt_dcache_flush("alt_dcache_flush", r.start, r.len, NoBlock)
  /\ UNCHANGED <<flushda, initda, dcache, pointer, codeVars>>

alt_dcache_flush_no_writeback ==
  /\ call.by = "nobody" /\ initda
  /\ \E r \in Regions :
       call' = [by |-> "alt_dcache_flush_no_writeback", start |-> r.start, len |-> r.len,
                i |-> r.start, end |-> r.start + r.len, block |-> NoBlock]
  /\ UNCHANGED <<flushda, initda, dcache, pointer, codeVars>>

alt_dcache_flush_all ==
  /\ call.by = "nobody"
  /\ call' = [by |-> "alt_dcache_flush_all", start |-> 0, len |-> MemorySize,
              i |-> 0, end |-> DCACHE_SIZE, block |-> NoBlock]
  /\ UNCHANGED <<flushda, initda, dcache, pointer, codeVars>>

-----------------------------------------------------------------------------
\* The heap hands out blocks and takes them back.
malloc ==
  \E b \in Blocks :
    /\ pointer[b] = NULL /\ call.block # b
    /\ pointer' = [pointer EXCEPT ![b] = b.start]
    /\ UNCHANGED <<flushda, initda, dcache, call, codeVars>>

free ==
  \E b \in Blocks :
    /\ pointer[b] = b.start /\ call.block # b
    /\ pointer' = [pointer EXCEPT ![b] = NULL]
    /\ UNCHANGED <<flushda, initda, dcache, call, codeVars>>

\* Variant: what the cache holds of the block stays there.
UncachedUnflushed ==
  \E b \in Blocks :
    /\ pointer[b] = NULL
    /\ pointer' = [pointer EXCEPT ![b] = Uncached(b.start)]
    /\ UNCHANGED <<flushda, initda, dcache, call, codeVars>>

\* When malloc() fails the beginning of memory is flushed, and NULL returned.
alt_uncached_malloc ==
  /\ call.by = "nobody"
  /\ \E b \in Blocks :
       /\ pointer[b] = NULL
       /\ \/ alt_dcache_flush("alt_uncached_malloc", b.start, b.len, b)
          \/ alt_dcache_flush("alt_uncached_malloc", NULL, b.len, NoBlock)
  /\ UNCHANGED <<flushda, initda, dcache, pointer, codeVars>>

alt_uncached_free ==
  \E b \in Blocks :
    /\ pointer[b] >= BYPASS_DCACHE_MASK
    /\ pointer' = [c \in Blocks |->
                     IF c.start = pointer[b] % BYPASS_DCACHE_MASK THEN NULL ELSE pointer[c]]
    /\ UNCHANGED <<flushda, initda, dcache, call, codeVars>>

alt_remap_uncached ==
  /\ call.by = "nobody"
  /\ \E b \in Blocks :
       /\ pointer[b] = b.start
       /\ alt_dcache_flush("alt_remap_uncached", pointer[b], b.len, b)
  /\ UNCHANGED <<flushda, initda, dcache, pointer, codeVars>>

alt_remap_cached ==
  \E b \in Blocks :
    /\ pointer[b] >= BYPASS_DCACHE_MASK
    /\ pointer' = [pointer EXCEPT ![b] = @ % BYPASS_DCACHE_MASK]
    /\ UNCHANGED <<flushda, initda, dcache, call, codeVars>>

-----------------------------------------------------------------------------
(***************************************************************************)
(* The driver erases or programs a part of the flash, or fails somewhere   *)
(* on the way.                                                             *)
(***************************************************************************)
FlashBlock(by) ==
  /\ call.by = "nobody"
  /\ \E w \in FlashWrites :
       \/ /\ dcache' = MemoryWritten(dcache, Bytes(w))
          /\ alt_dcache_flush(by, w.start, w.len, NoBlock)
       \/ /\ \E n \in 0 .. w.len :
               dcache' = MemoryWritten(dcache, Bytes([w EXCEPT !.len = n]))
          /\ UNCHANGED call
  /\ UNCHANGED <<flushda, initda, pointer, codeVars>>

alt_erase_flash_block == FlashBlock("alt_erase_flash_block")
alt_write_flash_block == FlashBlock("alt_write_flash_block")

-----------------------------------------------------------------------------
(***************************************************************************)
(* Loads and stores, of the program and the interrupts.  Bytes of a block  *)
(* are accessed through its pointer.  While a call flushes a region nobody *)
(* stores to it, nor loads from a block that is to become uncached.        *)
(***************************************************************************)
Bypassing(b) == pointer[b] >= BYPASS_DCACHE_MASK
Through == Addresses \ UNION {Bytes(b) : b \in {c \in Blocks : pointer[c] # c.start}}
Argument == IF call.by = "nobody" THEN {} ELSE Bytes(call)

CachedLoad ==
  \E a \in Through \ Bytes(call.block) :
    /\ dcache' = Bring(dcache, DataLine(a))
    /\ UNCHANGED <<flushda, initda, pointer, call, codeVars>>

CachedStore ==
  \E a \in (Through \cap 0 .. FlashBase - 1) \ Argument :
    /\ dcache' = Changed(dcache, a)
    /\ UNCHANGED <<flushda, initda, pointer, call, codeVars>>

UncachedStore ==
  \E b \in Blocks : \E a \in Bytes(b) :
    /\ Bypassing(b)
    /\ dcache' = MemoryWritten(dcache, {a})
    /\ UNCHANGED <<flushda, initda, pointer, call, codeVars>>

-----------------------------------------------------------------------------
(***************************************************************************)
(* The instruction cache.  "stale" are the bytes of which it has an old    *)
(* value.                                                                  *)
(***************************************************************************)
CodeLine(a) == a \div ICACHE_LINE_SIZE
CodeIndex(line) == line % (ICACHE_SIZE \div ICACHE_LINE_SIZE)
CodeIndexes == 0 .. (ICACHE_SIZE \div ICACHE_LINE_SIZE) - 1
CodeAt(c, x) ==
  {a \in Addresses : CodeIndex(CodeLine(a)) = x /\ c.cached[x] = CodeLine(a)}

Replaced(c, x, line) ==
  [cached |-> [c.cached EXCEPT ![x] = line], stale |-> c.stale \ CodeAt(c, x)]

NoCodeCall == [by |-> "nobody", start |-> 0, len |-> 0, i |-> 0, end |-> 0]
CodeArgument == IF icall.by = "nobody" THEN {} ELSE Bytes(icall)

Fetch ==
  \E a \in Addresses :
    /\ icache' = IF icache.cached[CodeIndex(CodeLine(a))] = CodeLine(a) THEN icache
                 ELSE Replaced(icache, CodeIndex(CodeLine(a)), CodeLine(a))
    /\ UNCHANGED <<icall, dataVars>>

\* New instructions reach memory.
CodeWritten ==
  \E a \in Addresses \ CodeArgument :
    /\ icache' = [icache EXCEPT !.stale =
                    @ \cup ({a} \cap CodeAt(icache, CodeIndex(CodeLine(a))))]
    /\ UNCHANGED <<icall, dataVars>>

\* A call of alt_icache_flush() with start and len is to flush a region.
ICacheFlush(by, start, len, region) ==
  /\ icall.by = "nobody"
  /\ icall' = [by |-> by, start |-> region.start, len |-> region.len, i |-> start,
               end |-> start + Trimmed(len, ICACHE_SIZE)]
  /\ UNCHANGED <<icache, dataVars>>

alt_icache_flush == \E r \in Regions : ICacheFlush("alt_icache_flush", r.start, r.len, r)
alt_icache_flush_all ==
  ICacheFlush("alt_icache_flush_all", 0, ICACHE_SIZE, [start |-> 0, len |-> MemorySize])

CodeFlushed == Replaced(icache, CodeIndex(CodeLine(icall.i)), Nothing)

CodeFlushLine ==
  /\ icall.by # "nobody" /\ icall.i < icall.end
  /\ icache' = CodeFlushed
  /\ icall' = [icall EXCEPT !.i = @ + ICACHE_LINE_SIZE]
  /\ UNCHANGED dataVars

CodeFlushReturns ==
  /\ icall.by # "nobody" /\ icall.i >= icall.end
  /\ icache' = IF icall.start % ICACHE_LINE_SIZE # 0 THEN CodeFlushed ELSE icache
  /\ icall' = NoCodeCall
  /\ UNCHANGED dataVars

-----------------------------------------------------------------------------
CacheInit ==
  /\ flushda \in BOOLEAN /\ initda \in BOOLEAN
  /\ dcache = [cached |-> [x \in Indexes |-> Nothing], dirty |-> {},
               newer |-> {}, older |-> {}, lost |-> {}]
  /\ pointer = [b \in Blocks |-> NULL]
  /\ call = NoCall
  /\ icache = [cached |-> [x \in CodeIndexes |-> Nothing], stale |-> {}]
  /\ icall = NoCodeCall

DataNext ==
  \/ FlushLine \/ FlushReturns \/ Flush \/ alt_dcache_flush_no_writeback
  \/ alt_dcache_flush_all \/ malloc \/ free \/ alt_uncached_malloc \/ alt_uncached_free
  \/ alt_remap_uncached \/ alt_remap_cached \/ alt_erase_flash_block
  \/ alt_write_flash_block \/ CachedLoad \/ CachedStore \/ UncachedStore

CodeNext ==
  \/ Fetch \/ CodeWritten \/ alt_icache_flush \/ alt_icache_flush_all
  \/ CodeFlushLine \/ CodeFlushReturns

CacheNext == DataNext \/ CodeNext
CacheSpec == CacheInit /\ [][CacheNext]_cacheVars

-----------------------------------------------------------------------------
(***************************************************************************)
(* When a flush of the data cache returns, memory has the last value of    *)
(* every byte of the region and the cache no other; so has a part of the   *)
(* flash that was erased or programmed.  When a flush of the instruction   *)
(* cache returns, no old instruction of the region is left in it.  The     *)
(* last value of a byte is lost only in a flush without writeback, and     *)
(* there only in lines from the first to the last of the region, and the   *)
(* line after them if the region does not begin with a line                *)
(* (alt_dcache_flush.c:57-97, alt_dcache_flush_all.c:41-51,                *)
(* alt_dcache_flush_no_writeback.c:64-88, alt_flash.h:121-160,             *)
(* alt_icache_flush.c:42-84).                                              *)
(***************************************************************************)
DataFlushed == call.by # "nobody" /\ call'.by = "nobody"
CodeFlushDone == icall.by # "nobody" /\ icall'.by = "nobody"
MayBeLost(a) ==
  /\ call.by = "alt_dcache_flush_no_writeback"
  /\ DataLine(call.start) <= DataLine(a)
  /\ DataLine(a) <= DataLine(call.start + call.len - 1)
                      + (IF call.start % DCACHE_LINE_SIZE # 0 THEN 1 ELSE 0)

FlushExact ==
  [][/\ DataFlushed => Bytes(call) \cap (dcache'.newer \cup dcache'.older) = {}
     /\ CodeFlushDone => Bytes(icall) \cap icache'.stale = {}
     /\ \A a \in dcache'.lost \ dcache.lost : MayBeLost(a)]_cacheVars

(***************************************************************************)
(* No line of a block that is accessed past the cache is in the cache: its *)
(* stores would be hidden when it is cached again, or be overwritten       *)
(* (alt_remap_uncached.c:47-51, alt_uncached_malloc.c:46-55).  That a      *)
(* block has its lines for itself, without which it does not hold, is part *)
(* of CacheAssumption.                                                     *)
(***************************************************************************)
UncachedNotCached == \A b \in Blocks : Bypassing(b) => Bytes(b) \cap Cached(dcache) = {}

CacheTypeOK ==
  /\ flushda \in BOOLEAN /\ initda \in BOOLEAN
  /\ dcache.cached \in [Indexes -> Nat \cup {Nothing}]
  /\ dcache.dirty \subseteq Indexes
  /\ dcache.newer \cup dcache.older \cup dcache.lost \subseteq Addresses
  /\ pointer \in [Blocks -> Nat]
  /\ icache.cached \in [CodeIndexes -> Nat \cup {Nothing}] /\ icache.stale \subseteq Addresses
=============================================================================
