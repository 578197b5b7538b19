-------------------------------- MODULE AltTime --------------------------------
(***************************************************************************)
(* The time of day (HAL/src/alt_gettod.c, alt_settod.c): settimeofday()    *)
(* stores the difference between the time it is given and the time since   *)
(* reset, in two parts that may each be negative; gettimeofday() adds the  *)
(* ticks since and normalises.  The product of ticks and microseconds per  *)
(* tick has 64 bits in one and 32 in the other.                            *)
(*                                                                         *)
(* The clock is that of AltAlarm; time stops short of the tick at which    *)
(* the counter rolls over (49 days at 1000 ticks a second).  The rates     *)
(* divide ALT_US.                                                          *)
(***************************************************************************)
EXTENDS AltAlarm

CONSTANTS
  ALT_US,      \* microseconds in a second
  Times        \* what programs pass to settimeofday()

TimeOfDay(sec, usec) == [sec |-> sec, usec |-> usec]

ASSUME TimeAssumption ==
  /\ ALT_US \in Nat \ {0}
  /\ \A rate \in Rates : ALT_US % rate = 0
  /\ Times \subseteq [sec : Nat, usec : 0 .. ALT_US - 1]

VARIABLES
  alt_resettime,
  setTo, setAt,    \* the time that was set last, and the tick it was set at
  exact            \* the product did not overflow then

timeVars == <<alarmVars, alt_resettime, setTo, setAt, exact>>

Epoch == TimeOfDay(0, 0)

TimeInit ==
  /\ AlarmInit
  /\ alt_resettime = Epoch
  /\ setTo = Epoch /\ setAt = 0 /\ exact = TRUE

UsPerTick == ALT_US \div tick_rate
Product == nticks * UsPerTick

\* Microseconds below a second since reset, as settimeofday() computes them.
Narrow == (Product % Wrap) % ALT_US
\* The same in gettimeofday().
Wide == Product % ALT_US

ALT_SETTIMEOFDAY(t) ==
  /\ tick_rate # 0
  /\ alt_resettime' = TimeOfDay(t.sec - nticks \div tick_rate, t.usec - Narrow)
  /\ setTo' = t /\ setAt' = nticks
  /\ exact' = (Product < Wrap)
  /\ UNCHANGED alarmVars

\* Variant: negative microseconds are left as they are.
KeepsSign(t) == t

\* A second is borrowed for negative microseconds, unless there is none.
Borrowed(t) ==
  IF t.usec >= 0 THEN t
  ELSE IF t.sec <= 0 THEN Epoch
  ELSE TimeOfDay(t.sec - 1, t.usec + ALT_US)

Carried(t) == IF t.usec >= ALT_US THEN TimeOfDay(t.sec + 1, t.usec - ALT_US) ELSE t

ALT_GETTIMEOFDAY ==
  Carried(Borrowed(TimeOfDay(alt_resettime.sec + nticks \div tick_rate,
                             alt_resettime.usec + Wide)))

TimeTick == nticks < Wrap - 1 /\ alt_tick

TimeNext ==
  \/ (alt_sysclk_init \/ TimeTick) /\ UNCHANGED <<alt_resettime, setTo, setAt, exact>>
  \/ \E t \in Times : ALT_SETTIMEOFDAY(t)

TimeSpec == TimeInit /\ [][TimeNext]_timeVars

-----------------------------------------------------------------------------
TimeTypeOK ==
  /\ AlarmTypeOK
  /\ alt_resettime \in [sec : Int, usec : (1 - ALT_US) .. (ALT_US - 1)]
  /\ setTo \in Times \cup {Epoch} /\ setAt \in 0 .. nticks
  /\ exact \in BOOLEAN

Micros(t) == t.sec * ALT_US + t.usec

(***************************************************************************)
(* gettimeofday() is the time that was set plus the ticks since, to the    *)
(* microsecond and with less than a second of microseconds, although the   *)
(* parts of alt_resettime may be negative (alt_gettod.c:88-110); before    *)
(* the first settimeofday() it is the time since reset.  Once the product  *)
(* does not fit into 32 bits any more (after 71 minutes at 1000 ticks a    *)
(* second), settimeofday() sets a wrong time: exact excludes that.         *)
(***************************************************************************)
TimeGoesOn ==
  tick_rate # 0 /\ exact =>
    /\ Micros(ALT_GETTIMEOFDAY) = Micros(setTo) + (nticks - setAt) * UsPerTick
    /\ ALT_GETTIMEOFDAY.usec \in 0 .. ALT_US - 1
=============================================================================
