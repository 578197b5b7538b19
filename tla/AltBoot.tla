--------------------------------- MODULE AltBoot ---------------------------------
(***************************************************************************)
(* From reset to alt_main() (HAL/src/crt0.S, alt_load.c, sys/alt_load.h,   *)
(* with the sections where linker.x puts them): the start-up code clears   *)
(* .bss and copies the initial values of .rwdata, which the program may    *)
(* change, from a copy of their own in the same memory.  The on-chip       *)
(* memory is written once, when the FPGA is configured; a reset, which may *)
(* come between any two stores, leaves it as it is.                        *)
(*                                                                         *)
(* Addresses count words from the exception handler's first.  There are no *)
(* caches, nor registers but those of register set 0.                      *)
(***************************************************************************)
EXTENDS Integers, Sequences

CONSTANTS
  Layouts,       \* sizes of the sections, in words
  Stale          \* a word that is neither zero nor in the image

ASSUME BootAssumption ==
  /\ \A l \in Layouts : l \in [exceptions : Nat, rodata : Nat, rwdata : Nat \ {0}, bss : Nat]
  /\ Stale \notin Nat

VARIABLES
  layout,
  ALT_STACK_CHECK,   \* not defined in this build
  memory,
  step,              \* what the CPU is about to do
  r2, r3,            \* where the clearing is, and its end
  section, offset,   \* the section being copied, and how far
  et                 \* the stack limit, if stacks are checked

bootVars == <<layout, ALT_STACK_CHECK, memory, step, r2, r3, section, offset, et>>

-----------------------------------------------------------------------------
(***************************************************************************)
(* The sections.  .rwdata lies behind .rodata, its initial values behind   *)
(* it, and .bss behind those; the heap and the stack have the rest, one    *)
(* word here.                                                              *)
(***************************************************************************)
ram_rodata_start == layout.exceptions
ram_rwdata_start == ram_rodata_start + layout.rodata
ram_rwdata_end == ram_rwdata_start + layout.rwdata

\* Variant: .rwdata is loaded where it is used.
LoadedInPlace == ram_rwdata_start

flash_rwdata_start == ram_rwdata_end
bss_start == flash_rwdata_start + layout.rwdata
bss_end == bss_start + layout.bss
end == bss_end

\* What alt_load() copies, in its order.  It leaves alone what is loaded where
\* it is used.
LoadedSections ==
  << [from |-> flash_rwdata_start, to |-> ram_rwdata_start, end |-> ram_rwdata_end],
     [from |-> 0, to |-> 0, end |-> layout.exceptions],
     [from |-> ram_rodata_start, to |-> ram_rodata_start, end |-> ram_rwdata_start] >>

\* alt_load() is called if there is a section to copy.
CALL_ALT_LOAD ==
  \E i \in DOMAIN LoadedSections : LoadedSections[i].from # LoadedSections[i].to

\* The image: numbers that tell its words apart.  The first word of .rwdata is
\* alt_stack_limit_value.
ImageWord(i) == i + 1
alt_stack_limit_value == ram_rwdata_start
ReadOnly == 0 .. ram_rwdata_start - 1
LoadedAt(address) ==
  IF address \in ReadOnly THEN address ELSE address - ram_rwdata_start + flash_rwdata_start
InImage(address) == address \in ReadOnly \cup flash_rwdata_start .. bss_start - 1
ProgramData == (ram_rwdata_start .. ram_rwdata_end - 1) \cup (bss_start .. end)

-----------------------------------------------------------------------------
BootInit ==
  /\ layout \in Layouts /\ ALT_STACK_CHECK \in BOOLEAN
  /\ \E w \in {0, Stale} :
       memory = [a \in 0 .. end |-> IF InImage(a) THEN ImageWord(a) ELSE w]
  /\ step = "_start"
  /\ r2 = 0 /\ r3 = 0 /\ section = 1 /\ offset = 0 /\ et = Stale

Reset ==
  /\ step' = "_start"
  /\ UNCHANGED <<layout, ALT_STACK_CHECK, memory, r2, r3, section, offset, et>>

AfterBss == IF CALL_ALT_LOAD THEN "call alt_load" ELSE "limit"

\* The pointers are set up.
_start ==
  /\ step = "_start"
  /\ r2' = bss_start /\ r3' = bss_end
  /\ step' = IF bss_start = bss_end THEN AfterBss ELSE "clear"
  /\ UNCHANGED <<layout, ALT_STACK_CHECK, memory, section, offset, et>>

ClearBss ==
  /\ step = "clear"
  /\ memory' = [memory EXCEPT ![r2] = 0]
  /\ r2' = r2 + 1
  /\ step' = IF r2' < r3 THEN "clear" ELSE AfterBss
  /\ UNCHANGED <<layout, ALT_STACK_CHECK, r3, section, offset, et>>

\* No stack is too deep before its limit has been loaded.
CallAltLoad ==
  /\ step = "call alt_load"
  /\ step' = "alt_load"
  /\ section' = 1 /\ offset' = 0
  /\ et' = IF ALT_STACK_CHECK THEN 0 ELSE et
  /\ UNCHANGED <<layout, ALT_STACK_CHECK, memory, r2, r3>>

alt_load_section ==
  LET s == LoadedSections[section]
  IN  /\ step = "alt_load" /\ s.to # s.from /\ s.to + offset # s.end
      /\ memory' = [memory EXCEPT ![s.to + offset] = memory[s.from + offset]]
      /\ offset' = offset + 1
      /\ UNCHANGED <<layout, ALT_STACK_CHECK, step, r2, r3, section, et>>

\* alt_load() goes on to the next section, or returns.
alt_load ==
  LET s == LoadedSections[section]
  IN  /\ step = "alt_load" /\ (s.to = s.from \/ s.to + offset = s.end)
      /\ offset' = 0
      /\ IF section < Len(LoadedSections)
         THEN section' = section + 1 /\ UNCHANGED step
         ELSE section' = 1 /\ step' = "limit"
      /\ UNCHANGED <<layout, ALT_STACK_CHECK, memory, r2, r3, et>>

LoadStackLimit ==
  /\ step = "limit"
  /\ step' = "call alt_main"
  /\ et' = IF ALT_STACK_CHECK THEN memory[alt_stack_limit_value] ELSE et
  /\ UNCHANGED <<layout, ALT_STACK_CHECK, memory, r2, r3, section, offset>>

\* What alt_main() does is the matter of AltMain; here it writes its objects.
CallAltMain ==
  /\ step = "call alt_main"
  /\ step' = "alt_main"
  /\ UNCHANGED <<layout, ALT_STACK_CHECK, memory, r2, r3, section, offset, et>>

Store ==
  /\ step = "alt_main"
  /\ \E a \in ProgramData : memory' = [memory EXCEPT ![a] = Stale]
  /\ UNCHANGED <<layout, ALT_STACK_CHECK, step, r2, r3, section, offset, et>>

BootNext ==
  \/ Reset \/ _start \/ ClearBss \/ CallAltLoad \/ alt_load_section \/ alt_load
  \/ LoadStackLimit \/ CallAltMain \/ Store

BootSpec == BootInit /\ [][BootNext]_bootVars

-----------------------------------------------------------------------------
BootTypeOK ==
  /\ layout \in Layouts /\ ALT_STACK_CHECK \in BOOLEAN
  /\ memory \in [0 .. end -> 0 .. end \cup {Stale}]
  /\ step \in {"_start", "clear", "call alt_load", "alt_load", "limit",
              "call alt_main", "alt_main"}
  /\ r2 \in 0 .. end /\ r3 \in 0 .. end
  /\ section \in 1 .. 3 /\ offset \in 0 .. layout.rwdata

(***************************************************************************)
(* However often the system has been reset, in the middle of the loading   *)
(* or while the program had changed its data, alt_main() finds .bss zero,  *)
(* every other section as it was linked, and the stack limit that was      *)
(* linked; and until alt_load() has loaded it no limit stops the loading   *)
(* (crt0.S:376-441, alt_load.c:56-88, sys/alt_load.h:68-80,                *)
(* linker.x:228-271).                                                      *)
(***************************************************************************)
MainSeesImage ==
  /\ step = "call alt_main" =>
       /\ \A a \in bss_start .. bss_end - 1 : memory[a] = 0
       /\ \A a \in 0 .. ram_rwdata_end - 1 : memory[a] = ImageWord(LoadedAt(a))
       /\ ALT_STACK_CHECK => et = ImageWord(LoadedAt(alt_stack_limit_value))
  /\ step = "alt_load" /\ ALT_STACK_CHECK => et = 0
=============================================================================
