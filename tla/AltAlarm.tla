-------------------------------- MODULE AltAlarm --------------------------------
(***************************************************************************)
(* The system clock and the alarms (HAL/src/alt_tick.c, alt_alarm_start.c, *)
(* HAL/inc/sys/alt_alarm.h): alt_tick() runs at interrupt level, once a    *)
(* tick, and visits the registered alarms one after the other; a callback  *)
(* may start and stop alarms, and so may the program between two ticks.    *)
(*                                                                         *)
(* The list is a set, visited in any order (the code's is that of the      *)
(* list, newest first): an alarm that is inserted during a tick goes to    *)
(* the head and is not visited by it.  alt_alarm_start() and               *)
(* alt_alarm_stop() touch the list with interrupts disabled: one step.     *)
(***************************************************************************)
EXTENDS Integers

CONSTANTS
  Wrap,       \* 2^32: ticks and times are counted modulo Wrap
  Alarms,     \* alt_alarm structures
  NoAlarm,    \* the head of the list
  Rates       \* tick rates of system clocks

ASSUME AlarmAssumption ==
  /\ Wrap \in Nat /\ Wrap > 2
  /\ NoAlarm \notin Alarms
  /\ Rates \subseteq Nat \ {0}

VARIABLES
  tick_rate,   \* _alt_tick_rate, 0 without a clock
  nticks,      \* _alt_nticks
  alarm_list,  \* the alarms in alt_alarm_list
  time,        \* of each alarm; 0 when it is not in the list
  rollover,
  alarm,       \* the alarm alt_tick() visits, or NoAlarm between two ticks
  unvisited,   \* the alarms after it in the list
  wait         \* ticks to elapse until each alarm is due

clockVars == <<tick_rate, nticks>>
visitVars == <<alarm, unvisited>>
alarmVars == <<clockVars, visitVars, alarm_list, time, rollover, wait>>

AlarmInit ==
  /\ tick_rate = 0 /\ nticks = 0
  /\ alarm_list = {} /\ alarm = NoAlarm /\ unvisited = {}
  /\ time = [a \in Alarms |-> 0]
  /\ rollover = [a \in Alarms |-> FALSE]
  /\ wait = [a \in Alarms |-> 0]

\* The first driver of a system clock sets the rate; the others are refused.
alt_sysclk_init ==
  /\ tick_rate = 0
  /\ tick_rate' \in Rates
  /\ UNCHANGED <<nticks, visitVars, alarm_list, time, rollover, wait>>

-----------------------------------------------------------------------------
(***************************************************************************)
(* The functions time, rollover and wait after an alarm is started, n      *)
(* ticks and a fraction of one from now, and after one is stopped.         *)
(***************************************************************************)
\* n ticks after t, in 32 bits.
Later(t, n) == (t + n) % Wrap

\* Variant: an alarm beyond the end of the counter is not told from one at hand.
NeverRollsOver(t) == FALSE

RollsOver(t) == t < nticks

Started(a, n) ==
  LET t == Later(nticks, n + 1)
  IN  /\ alarm_list' = alarm_list \cup {a}
      /\ time' = [time EXCEPT ![a] = t]
      /\ rollover' = [rollover EXCEPT ![a] = RollsOver(t)]
      /\ wait' = [wait EXCEPT ![a] = n + 1]

Stopped(a) ==
  /\ alarm_list' = alarm_list \ {a}
  /\ time' = [time EXCEPT ![a] = 0]
  /\ rollover' = [rollover EXCEPT ![a] = FALSE]
  /\ wait' = [wait EXCEPT ![a] = 0]

(***************************************************************************)
(* The program, between two ticks.  It starts an alarm that is not in the  *)
(* list, for at most Wrap - 2 ticks (one of Wrap - 1 would be due at once);*)
(* without a clock alt_alarm_start() returns -ENOTSUP and does nothing.    *)
(***************************************************************************)
alt_alarm_start(a, n) ==
  /\ alarm = NoAlarm
  /\ tick_rate # 0
  /\ a \notin alarm_list
  /\ Started(a, n)
  /\ UNCHANGED <<clockVars, visitVars>>

alt_alarm_stop(a) ==
  /\ alarm = NoAlarm
  /\ a \in alarm_list
  /\ Stopped(a)
  /\ UNCHANGED <<clockVars, visitVars>>

-----------------------------------------------------------------------------
\* The next alarm of the list, and those after it.
Proceeds(rest) ==
  IF rest = {} THEN alarm' = NoAlarm /\ unvisited' = {}
  ELSE \E next \in rest : alarm' = next /\ unvisited' = rest \ {next}

alt_tick ==
  /\ alarm = NoAlarm
  /\ tick_rate # 0
  /\ nticks' = (nticks + 1) % Wrap
  /\ wait' = [a \in Alarms |-> IF a \in alarm_list THEN wait[a] - 1 ELSE 0]
  /\ Proceeds(alarm_list)
  /\ UNCHANGED <<tick_rate, alarm_list, time, rollover>>

\* The flag once the tick has looked at it.
Cleared(a) == rollover[a] /\ nticks # 0

Expired(a) == time[a] <= nticks /\ ~Cleared(a)

\* An alarm that has not expired keeps its time.
VisitPending ==
  /\ alarm # NoAlarm
  /\ ~Expired(alarm)
  /\ rollover' = [rollover EXCEPT ![alarm] = Cleared(alarm)]
  /\ Proceeds(unvisited)
  /\ UNCHANGED <<clockVars, alarm_list, time, wait>>

(***************************************************************************)
(* The callback of an expired alarm returns its next period, or 0 to stop. *)
(***************************************************************************)
Reschedule(period) ==
  LET t == Later(time[alarm], period)
  IN  /\ time' = [time EXCEPT ![alarm] = t]
      /\ rollover' = [rollover EXCEPT ![alarm] = RollsOver(t)]
      /\ wait' = [wait EXCEPT ![alarm] = period]
      /\ UNCHANGED alarm_list

VisitExpired ==
  /\ alarm # NoAlarm
  /\ Expired(alarm)
  /\ \/ \E period \in 1 .. Wrap - 1 : Reschedule(period)
     \/ Stopped(alarm)
  /\ Proceeds(unvisited)
  /\ UNCHANGED clockVars

(***************************************************************************)
(* What the callback does before it returns: start another alarm, or stop  *)
(* one that is not the next to be visited, which alt_tick() has a pointer  *)
(* to.  The alarm itself is still due.                                     *)
(***************************************************************************)
CallbackStarts ==
  /\ alarm # NoAlarm /\ Expired(alarm)
  /\ \E a \in Alarms \ alarm_list, n \in 0 .. Wrap - 2 : Started(a, n)
  /\ UNCHANGED <<clockVars, visitVars>>

CallbackStops ==
  /\ alarm # NoAlarm /\ Expired(alarm)
  /\ \E a \in alarm_list \ {alarm} :
       /\ unvisited # {a}
       /\ Stopped(a)
       /\ unvisited' = unvisited \ {a}
  /\ UNCHANGED <<clockVars, alarm>>

AlarmProgram ==
  \E a \in Alarms : (\E n \in 0 .. Wrap - 2 : alt_alarm_start(a, n)) \/ alt_alarm_stop(a)

AlarmNext ==
  \/ alt_sysclk_init \/ AlarmProgram
  \/ alt_tick \/ VisitPending \/ VisitExpired \/ CallbackStarts \/ CallbackStops

AlarmSpec == AlarmInit /\ [][AlarmNext]_alarmVars

-----------------------------------------------------------------------------
AlarmTypeOK ==
  /\ tick_rate \in Rates \cup {0}
  /\ nticks \in 0 .. Wrap - 1
  /\ alarm_list \subseteq Alarms
  /\ time \in [Alarms -> 0 .. Wrap - 1]
  /\ rollover \in [Alarms -> BOOLEAN]
  /\ alarm \in Alarms \cup {NoAlarm}
  /\ unvisited \subseteq Alarms
  /\ wait \in [Alarms -> 0 .. Wrap - 1]

(***************************************************************************)
(* An alarm is called at the tick it was started for and at no other,      *)
(* whether or not the counter rolls over on the way: the one that is being *)
(* visited has expired if and only if its ticks have elapsed, and no alarm *)
(* whose ticks have elapsed is left behind by the tick (alt_tick.c:108-117,*)
(* 130-136, alt_alarm_start.c:82-96).                                      *)
(***************************************************************************)
Due(a) == a \in alarm_list /\ wait[a] = 0
AlarmsOnTime ==
  /\ alarm # NoAlarm => (Expired(alarm) <=> Due(alarm))
  /\ \A a \in Alarms : Due(a) => a = alarm \/ a \in unvisited
=============================================================================
