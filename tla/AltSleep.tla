-------------------------------- MODULE AltSleep --------------------------------
(***************************************************************************)
(* usleep() (HAL/src/alt_usleep.c, alt_busy_sleep.c): the time is counted  *)
(* down in rounds of a loop of known length.  A counter holds at most      *)
(* INT_MAX rounds, so long sleeps are cut into "big loops" of INT_MAX, and *)
(* what is left is counted down at the end.                                *)
(***************************************************************************)
EXTENDS Integers

CONSTANTS
  INT_MAX,                     \* of 32-bit integers; unsigned ones go to 2 * INT_MAX + 1
  ALT_CPU_FREQ,                \* cycles in a second
  Million,                     \* microseconds in a second
  NIOS2_CPU_IMPLEMENTATION

cycles_per_loop == IF NIOS2_CPU_IMPLEMENTATION = "tiny" THEN 9 ELSE 3

\* Cycles of a round, of which ALT_CPU_FREQ holds as many as there are rounds in a
\* microsecond.  The quotient is cut off.
RoundCycles == cycles_per_loop * Million
PerUs == ALT_CPU_FREQ \div RoundCycles

\* A CPU too slow for a round in a microsecond divides by zero.
ASSUME SleepAssumption ==
  /\ INT_MAX \in Nat /\ ALT_CPU_FREQ \in Nat /\ Million \in Nat \ {0}
  /\ PerUs \in 1 .. INT_MAX

VARIABLES
  slept,       \* microseconds, the argument of the last call
  rounds       \* it went through

sleepVars == <<slept, rounds>>

UINT_WRAP == 2 * (INT_MAX + 1)

SleepInit == slept = 0 /\ rounds = 0

\* Microseconds in a big loop.
Chunk == INT_MAX \div PerUs
big_loops(us) == us \div Chunk

\* The loop counts down and then compares: one round at least if it asks for
\* "greater than zero" (bgt), all values of the register if it asks for "not zero"
\* (bne) and begins at zero.
CountDownBgt(n) == IF n = 0 THEN 1 ELSE n
CountDownBne(n) == IF n = 0 THEN UINT_WRAP ELSE n

\* Variant: the big loops are counted but their microseconds stay in us.
WholeAgain(us) == us

Rest(us) == us - big_loops(us) * Chunk

alt_busy_sleep(us) ==
  IF big_loops(us) = 0 THEN CountDownBgt((us * PerUs) % UINT_WRAP)
  ELSE big_loops(us) * INT_MAX + CountDownBne((Rest(us) * PerUs) % UINT_WRAP)

ALT_USLEEP ==
  /\ slept' \in 0 .. UINT_WRAP - 1
  /\ rounds' = alt_busy_sleep(slept')

SleepNext == ALT_USLEEP

SleepSpec == SleepInit /\ [][SleepNext]_sleepVars

SleepTypeOK == slept \in 0 .. UINT_WRAP - 1 /\ rounds \in Nat

(***************************************************************************)
(* How long a sleep is, in cycles (times a million, as is the time that    *)
(* was asked for): it is short by what the quotient of a microsecond has   *)
(* lost, which is less than a round for each; and it is long by what the   *)
(* big loops have lost, less than a microsecond for each, and a round, and *)
(* if big loops make up all of it by all values of the register, which the *)
(* last loop then counts through (alt_busy_sleep.c:74-129).                *)
(***************************************************************************)
Truncated(us) == us * (ALT_CPU_FREQ % RoundCycles)
WholeBigLoops(us) == us > 0 /\ us % Chunk = 0
LateRounds(us) ==
  big_loops(us) * (PerUs - 1) + 1 + (IF WholeBigLoops(us) THEN UINT_WRAP ELSE 0)

SleepClose ==
  rounds * RoundCycles - (slept * ALT_CPU_FREQ - Truncated(slept))
    \in 0 .. LateRounds(slept) * RoundCycles
=============================================================================
