-------------------------- MODULE AltArithmeticProofs --------------------------
(***************************************************************************)
(* Theorems about the services that calculate.  The alarms, the time of    *)
(* day and sleeping, for every width of the tick counter, every number of  *)
(* alarms and every order of the list, every epoch, tick rate and clock of *)
(* the processor.  Exceptions and the instructions their handler emulates, *)
(* for registers of every width.  The formatters, for words of every width *)
(* and directives of every length.                                         *)
(***************************************************************************)
EXTENDS AltTime, AltSleep, AltException, AltPrintf, FiniteSetTheorems, SequenceTheorems,
        WellFoundedInduction, TLAPS

(***************************************************************************)
(* The inductive invariant: the time of an alarm is the count at which its *)
(* remaining ticks will have elapsed, less a whole turn of the counter if  *)
(* the flag stands once this tick has looked at it.  An alarm this tick is *)
(* done with has ticks left, and its flag is down when the count is 0.     *)
(***************************************************************************)
ToVisit == unvisited \cup ({alarm} \ {NoAlarm})
OnTrack(a) == time[a] = nticks + wait[a] - (IF Cleared(a) THEN Wrap ELSE 0)
Settled(a) == wait[a] > 0 /\ (nticks = 0 => ~rollover[a])

ListInv ==
  /\ ToVisit \subseteq alarm_list
  /\ alarm \notin unvisited
  /\ alarm = NoAlarm => unvisited = {}

AlarmInv ==
  /\ AlarmTypeOK /\ ListInv
  /\ \A a \in alarm_list : OnTrack(a)
  /\ \A a \in alarm_list \ ToVisit : Settled(a)

-----------------------------------------------------------------------------
\* A sum of two counts wraps around at most once.
LEMMA WrapsOnce ==
  ASSUME NEW t \in 0 .. Wrap - 1, NEW n \in 0 .. Wrap - 1
  PROVE  (t + n) % Wrap = IF t + n < Wrap THEN t + n ELSE t + n - Wrap
<1> USE AlarmAssumption
<1> DEFINE q == (t + n) \div Wrap
           r == (t + n) % Wrap
<1>1. q \in Int /\ r \in Int /\ 0 <= r /\ r < Wrap /\ t + n = Wrap * q + r
  OBVIOUS
<1> HIDE DEF q, r
<1>2. q = 0 \/ q = 1
  <2>1. ~(q < 0)
    <3>1. q <= -1 => Wrap * q <= -Wrap
      BY <1>1
    <3> QED
      BY <1>1, <3>1
  <2>2. ~(q > 1)
    <3>1. q >= 2 => Wrap * q >= 2 * Wrap
      BY <1>1
    <3> QED
      BY <1>1, <3>1
  <2> QED
    BY <1>1, <2>1, <2>2
<1>3. Wrap * 0 = 0 /\ Wrap * 1 = Wrap
  OBVIOUS
<1>4. r = IF t + n < Wrap THEN t + n ELSE t + n - Wrap
  BY <1>1, <1>2, <1>3
<1> QED
  BY <1>4 DEF r

\* An alarm that is set n ticks ahead is on its track.
LEMMA SetOnTrack ==
  ASSUME AlarmTypeOK, NEW t, NEW n \in 1 .. Wrap - 1, t = Later(nticks, n)
  PROVE  /\ t \in 0 .. Wrap - 1
         /\ t = nticks + n - (IF RollsOver(t) /\ nticks # 0 THEN Wrap ELSE 0)
         /\ nticks = 0 => ~RollsOver(t)
<1>1. t = IF nticks + n < Wrap THEN nticks + n ELSE nticks + n - Wrap
  BY WrapsOnce, AlarmAssumption DEF AlarmTypeOK, Later
<1> QED
  BY <1>1, AlarmAssumption DEF AlarmTypeOK, RollsOver

\* The tick looks at an alarm: it has expired when its ticks have elapsed.
LEMMA ExpiredIsDue ==
  ASSUME AlarmInv, NEW a \in alarm_list
  PROVE  Expired(a) <=> wait[a] = 0
<1>1. /\ OnTrack(a) /\ nticks \in 0 .. Wrap - 1 /\ time[a] \in 0 .. Wrap - 1
      /\ wait[a] \in 0 .. Wrap - 1
  BY DEF AlarmInv, AlarmTypeOK
<1> QED
  BY <1>1, AlarmAssumption DEF Expired, OnTrack

-----------------------------------------------------------------------------
(***************************************************************************)
(* The steps.                                                              *)
(***************************************************************************)
LEMMA StartInv ==
  ASSUME AlarmInv, NEW a \in Alarms \ alarm_list, NEW n \in 0 .. Wrap - 2, Started(a, n),
         UNCHANGED <<clockVars, visitVars>>
  PROVE  AlarmInv'
<1> USE AlarmAssumption
<1> DEFINE t == Later(nticks, n + 1)
<1>1. /\ t \in 0 .. Wrap - 1
      /\ t = nticks + (n + 1) - (IF RollsOver(t) /\ nticks # 0 THEN Wrap ELSE 0)
      /\ nticks = 0 => ~RollsOver(t)
  BY SetOnTrack DEF AlarmInv
<1>2. /\ alarm_list' = alarm_list \cup {a}
      /\ time' = [time EXCEPT ![a] = t]
      /\ rollover' = [rollover EXCEPT ![a] = RollsOver(t)]
      /\ wait' = [wait EXCEPT ![a] = n + 1]
      /\ UNCHANGED <<tick_rate, nticks, alarm, unvisited>>
  BY DEF Started, clockVars, visitVars
<1> HIDE DEF t
<1>3. AlarmTypeOK'
  BY <1>1, <1>2 DEF AlarmInv, AlarmTypeOK, RollsOver
<1>4. ListInv' /\ ToVisit' = ToVisit /\ a \notin ToVisit
  BY <1>2 DEF AlarmInv, ListInv, ToVisit
<1>5. OnTrack(a)' /\ Settled(a)'
  BY <1>1, <1>2 DEF AlarmInv, AlarmTypeOK, OnTrack, Settled, Cleared
<1>6. \A b \in alarm_list : OnTrack(b)' /\ (Settled(b) => Settled(b)')
  BY <1>2 DEF AlarmInv, AlarmTypeOK, OnTrack, Settled, Cleared
<1> QED
  BY <1>2, <1>3, <1>4, <1>5, <1>6 DEF AlarmInv

LEMMA StopInv ==
  ASSUME AlarmInv, NEW a \in alarm_list, Stopped(a), UNCHANGED clockVars,
         ToVisit' = ToVisit \ {a}, ListInv',
         alarm' \in Alarms \cup {NoAlarm}, unvisited' \subseteq Alarms
  PROVE  AlarmInv'
<1> USE AlarmAssumption
<1>1. /\ alarm_list' = alarm_list \ {a}
      /\ \A b \in alarm_list' : /\ time'[b] = time[b] /\ rollover'[b] = rollover[b]
                                /\ wait'[b] = wait[b]
      /\ UNCHANGED <<tick_rate, nticks>>
  BY DEF Stopped, clockVars, AlarmInv, AlarmTypeOK
<1>2. AlarmTypeOK'
  BY DEF AlarmInv, AlarmTypeOK, Stopped, clockVars
<1>3. \A b \in alarm_list' : OnTrack(b)' /\ (Settled(b) => Settled(b)')
  BY <1>1 DEF AlarmInv, AlarmTypeOK, OnTrack, Settled, Cleared
<1> QED
  BY <1>1, <1>2, <1>3 DEF AlarmInv

\* The next alarm is taken from the rest of the list.
LEMMA ProceedsInv ==
  ASSUME AlarmInv, NEW rest \in SUBSET alarm_list, Proceeds(rest)
  PROVE  /\ unvisited' \cup ({alarm'} \ {NoAlarm}) = rest
         /\ alarm' \notin unvisited' /\ (alarm' = NoAlarm => unvisited' = {})
         /\ alarm' \in Alarms \cup {NoAlarm} /\ unvisited' \subseteq Alarms
<1> USE AlarmAssumption DEF AlarmInv, AlarmTypeOK
<1>1. CASE rest = {}
  BY <1>1 DEF Proceeds
<1>2. CASE rest # {}
  <2>1. PICK next \in rest : alarm' = next /\ unvisited' = rest \ {next}
    BY <1>2 DEF Proceeds
  <2> QED
    BY <2>1
<1> QED
  BY <1>1, <1>2

LEMMA TickInv == AlarmInv /\ alt_tick => AlarmInv'
<1> SUFFICES ASSUME AlarmInv, alt_tick PROVE AlarmInv'
  OBVIOUS
<1> USE AlarmAssumption
<1>1. nticks' = IF nticks + 1 < Wrap THEN nticks + 1 ELSE 0
  <2>1. nticks \in 0 .. Wrap - 1 /\ 1 \in 0 .. Wrap - 1
    BY DEF AlarmInv, AlarmTypeOK
  <2>2. (nticks + 1) % Wrap = IF nticks + 1 < Wrap THEN nticks + 1 ELSE nticks + 1 - Wrap
    BY <2>1, WrapsOnce
  <2> QED
    BY <2>1, <2>2 DEF alt_tick
<1>2. /\ alarm = NoAlarm /\ ToVisit = {}
      /\ UNCHANGED <<tick_rate, alarm_list, time, rollover>>
      /\ wait' = [a \in Alarms |-> IF a \in alarm_list THEN wait[a] - 1 ELSE 0]
  BY DEF alt_tick, AlarmInv, ListInv, ToVisit
<1>3. /\ ToVisit' = alarm_list /\ ListInv'
      /\ alarm' \in Alarms \cup {NoAlarm} /\ unvisited' \subseteq Alarms
  BY <1>2, ProceedsInv DEF alt_tick, ToVisit, ListInv
<1>4. \A a \in alarm_list : Settled(a) /\ OnTrack(a) /\ a \in Alarms
  BY <1>2 DEF AlarmInv, AlarmTypeOK
<1>5. AlarmTypeOK'
  <2>1. wait' \in [Alarms -> 0 .. Wrap - 1]
    BY <1>2, <1>4 DEF AlarmInv, AlarmTypeOK, Settled
  <2>2. nticks' \in 0 .. Wrap - 1
    BY <1>1 DEF AlarmInv, AlarmTypeOK
  <2> QED
    BY <1>2, <1>3, <2>1, <2>2 DEF AlarmInv, AlarmTypeOK
<1>6. ASSUME NEW a \in alarm_list PROVE OnTrack(a)'
  <2>1. /\ wait'[a] = wait[a] - 1 /\ time'[a] = time[a] /\ rollover'[a] = rollover[a]
        /\ wait[a] \in 1 .. Wrap - 1 /\ nticks \in 0 .. Wrap - 1
        /\ time[a] \in 0 .. Wrap - 1 /\ (nticks = 0 => ~rollover[a])
    BY <1>2, <1>4 DEF AlarmInv, AlarmTypeOK, Settled
  <2>2. time[a] = nticks + wait[a] - (IF Cleared(a) THEN Wrap ELSE 0)
    BY <1>4 DEF OnTrack
  <2>3. CASE nticks + 1 < Wrap
    <3>1. Cleared(a)' <=> Cleared(a)
      BY <1>1, <2>1, <2>3 DEF Cleared
    <3> QED
      BY <1>1, <2>1, <2>2, <2>3, <3>1 DEF OnTrack
  <2>4. CASE ~(nticks + 1 < Wrap)
    <3>1. Cleared(a) /\ ~Cleared(a)'
      BY <1>1, <2>1, <2>2, <2>4 DEF Cleared
    <3> QED
      BY <1>1, <2>1, <2>2, <2>4, <3>1 DEF OnTrack
  <2> QED
    BY <2>3, <2>4
<1> QED
  BY <1>2, <1>3, <1>5, <1>6 DEF AlarmInv

LEMMA PendingInv == AlarmInv /\ VisitPending => AlarmInv'
<1> SUFFICES ASSUME AlarmInv, VisitPending PROVE AlarmInv'
  OBVIOUS
<1> USE AlarmAssumption
<1>1. /\ alarm \in alarm_list /\ unvisited \subseteq alarm_list /\ ToVisit = unvisited \cup {alarm}
      /\ UNCHANGED <<tick_rate, nticks, alarm_list, time, wait>>
      /\ rollover' = [rollover EXCEPT ![alarm] = Cleared(alarm)]
  BY DEF VisitPending, AlarmInv, ListInv, ToVisit, clockVars
<1>2. /\ ToVisit' = unvisited /\ ListInv'
      /\ alarm' \in Alarms \cup {NoAlarm} /\ unvisited' \subseteq Alarms
  BY <1>1, ProceedsInv DEF VisitPending, ToVisit, ListInv
<1>3. wait[alarm] # 0
  BY <1>1, ExpiredIsDue DEF VisitPending
<1>4. AlarmTypeOK'
  BY <1>1, <1>2 DEF AlarmInv, AlarmTypeOK, Cleared
<1>5. \A a \in alarm_list : Cleared(a)' <=> Cleared(a)
  BY <1>1 DEF AlarmInv, AlarmTypeOK, Cleared
<1>6. \A a \in alarm_list : OnTrack(a)'
  BY <1>1, <1>5 DEF AlarmInv, OnTrack
<1>7. \A a \in {alarm} : Settled(a)'
  <2>1. wait'[alarm] > 0
    BY <1>1, <1>3 DEF AlarmInv, AlarmTypeOK
  <2>2. nticks = 0 => ~rollover'[alarm]
    BY <1>1 DEF AlarmInv, AlarmTypeOK, Cleared
  <2> QED
    BY <1>1, <2>1, <2>2 DEF Settled
<1>8. \A a \in alarm_list \ ToVisit : Settled(a)'
  BY <1>1 DEF AlarmInv, AlarmTypeOK, Settled
<1> QED
  BY <1>1, <1>2, <1>4, <1>6, <1>7, <1>8 DEF AlarmInv

LEMMA ExpiredInv == AlarmInv /\ VisitExpired => AlarmInv'
<1> SUFFICES ASSUME AlarmInv, VisitExpired PROVE AlarmInv'
  OBVIOUS
<1> USE AlarmAssumption
<1>1. /\ alarm \in alarm_list /\ alarm \in Alarms /\ unvisited \subseteq alarm_list \ {alarm}
      /\ ToVisit = unvisited \cup {alarm} /\ UNCHANGED <<tick_rate, nticks>>
  BY DEF VisitExpired, AlarmInv, AlarmTypeOK, ListInv, ToVisit, clockVars
<1>2. /\ unvisited' \cup ({alarm'} \ {NoAlarm}) = unvisited
      /\ alarm' \notin unvisited' /\ (alarm' = NoAlarm => unvisited' = {})
      /\ alarm' \in Alarms \cup {NoAlarm} /\ unvisited' \subseteq Alarms
  BY <1>1, ProceedsInv DEF VisitExpired
<1>3. CASE Stopped(alarm)
  <2>1. ToVisit' = ToVisit \ {alarm} /\ ListInv'
    BY <1>1, <1>2, <1>3 DEF ToVisit, ListInv, Stopped
  <2> QED
    BY <1>1, <1>2, <1>3, <2>1, StopInv DEF VisitExpired
<1>4. CASE \E period \in 1 .. Wrap - 1 : Reschedule(period)
  <2>1. PICK period \in 1 .. Wrap - 1 : Reschedule(period)
    BY <1>4
  <2>2. time[alarm] = nticks
    <3>1. wait[alarm] = 0 /\ OnTrack(alarm) /\ ~Cleared(alarm) /\ nticks \in 0 .. Wrap - 1
      BY <1>1, ExpiredIsDue DEF VisitExpired, AlarmInv, AlarmTypeOK, Expired
    <3> QED
      BY <3>1 DEF OnTrack
  <2> DEFINE t == Later(nticks, period)
  <2>3. /\ t \in 0 .. Wrap - 1
        /\ t = nticks + period - (IF RollsOver(t) /\ nticks # 0 THEN Wrap ELSE 0)
        /\ nticks = 0 => ~RollsOver(t)
    BY SetOnTrack DEF AlarmInv
  <2>4. /\ time' = [time EXCEPT ![alarm] = t] /\ alarm_list' = alarm_list
        /\ rollover' = [rollover EXCEPT ![alarm] = RollsOver(t)]
        /\ wait' = [wait EXCEPT ![alarm] = period]
    BY <2>1, <2>2 DEF Reschedule
  <2> HIDE DEF t
  <2>5. AlarmTypeOK'
    BY <1>1, <1>2, <2>3, <2>4 DEF AlarmInv, AlarmTypeOK, RollsOver
  <2>6. ToVisit' = unvisited /\ ListInv'
    BY <1>1, <1>2, <2>4 DEF ToVisit, ListInv
  <2>7. \A a \in {alarm} : OnTrack(a)' /\ Settled(a)'
    <3>1. /\ time'[alarm] = t /\ rollover'[alarm] = RollsOver(t) /\ wait'[alarm] = period
          /\ nticks' = nticks
      BY <1>1, <2>4 DEF AlarmInv, AlarmTypeOK
    <3> QED
      BY <2>3, <3>1 DEF OnTrack, Settled, Cleared
  <2>8. \A a \in alarm_list \ {alarm} : OnTrack(a)' /\ (Settled(a) => Settled(a)')
    BY <1>1, <2>4 DEF AlarmInv, AlarmTypeOK, OnTrack, Settled, Cleared
  <2> QED
    BY <1>1, <2>4, <2>5, <2>6, <2>7, <2>8 DEF AlarmInv
<1> QED
  BY <1>3, <1>4 DEF VisitExpired

LEMMA AlarmInitInv == AlarmInit => AlarmInv
BY AlarmAssumption DEF AlarmInit, AlarmInv, AlarmTypeOK, ListInv, ToVisit

LEMMA AlarmStepInv == AlarmInv /\ [AlarmNext]_alarmVars => AlarmInv'
<1> SUFFICES ASSUME AlarmInv, [AlarmNext]_alarmVars PROVE AlarmInv'
  OBVIOUS
<1>1. CASE alt_sysclk_init \/ UNCHANGED alarmVars
  <2>1. /\ UNCHANGED <<nticks, visitVars, alarm_list, time, rollover, wait>>
        /\ tick_rate' \in Rates \cup {0}
    BY <1>1 DEF alt_sysclk_init, alarmVars, clockVars, AlarmInv, AlarmTypeOK
  <2> QED
    BY <2>1
    DEF AlarmInv, AlarmTypeOK, ListInv, ToVisit, OnTrack, Settled, Cleared, visitVars
<1>2. CASE AlarmProgram
  <2>1. CASE \E a \in Alarms, n \in 0 .. Wrap - 2 : alt_alarm_start(a, n)
    BY <2>1, StartInv DEF alt_alarm_start
  <2>2. CASE \E a \in Alarms : alt_alarm_stop(a)
    <3>1. PICK a \in alarm_list : /\ Stopped(a) /\ alarm = NoAlarm
                                  /\ UNCHANGED <<clockVars, visitVars>>
      BY <2>2 DEF alt_alarm_stop
    <3>2. /\ ToVisit = {} /\ ToVisit' = {} /\ ListInv'
          /\ alarm' \in Alarms \cup {NoAlarm} /\ unvisited' \subseteq Alarms
      BY <3>1 DEF AlarmInv, AlarmTypeOK, ListInv, ToVisit, visitVars
    <3> QED
      BY <3>1, <3>2, StopInv
  <2> QED
    BY <1>2, <2>1, <2>2 DEF AlarmProgram
<1>3. CASE CallbackStarts
  BY <1>3, StartInv DEF CallbackStarts
<1>4. CASE CallbackStops
  <2>1. PICK a \in alarm_list \ {alarm} :
           /\ Stopped(a) /\ unvisited' = unvisited \ {a}
           /\ UNCHANGED <<clockVars, alarm>> /\ alarm # NoAlarm
    BY <1>4 DEF CallbackStops
  <2>2. /\ ToVisit' = ToVisit \ {a} /\ ListInv'
        /\ alarm' \in Alarms \cup {NoAlarm} /\ unvisited' \subseteq Alarms
    BY <2>1 DEF AlarmInv, AlarmTypeOK, ListInv, ToVisit, Stopped
  <2> QED
    BY <2>1, <2>2, StopInv
<1> QED
  BY <1>1, <1>2, <1>3, <1>4, TickInv, PendingInv, ExpiredInv DEF AlarmNext

-----------------------------------------------------------------------------
\* The invariant holds in every state.
THEOREM AlarmInvCorrect == AlarmSpec => []AlarmInv
<1> QED
  BY AlarmInitInv, AlarmStepInv, PTL DEF AlarmSpec

\* An alarm is called at the tick it was set for and at no other, for a counter
\* of any width, however long the program runs.
THEOREM AlarmsOnTimeCorrect == AlarmSpec => []AlarmsOnTime
<1>1. AlarmInv => AlarmsOnTime
  <2> SUFFICES ASSUME AlarmInv PROVE AlarmsOnTime
    OBVIOUS
  <2>1. alarm # NoAlarm => (Expired(alarm) <=> Due(alarm))
    BY ExpiredIsDue DEF AlarmInv, ListInv, ToVisit, Due
  <2>2. \A a \in Alarms : Due(a) => a \in ToVisit
    BY DEF AlarmInv, Settled, Due
  <2> QED
    BY <2>1, <2>2 DEF AlarmsOnTime, ToVisit
<1> QED
  BY <1>1, AlarmInvCorrect, PTL
-----------------------------------------------------------------------------
(***************************************************************************)
(* The time of day.  While the product has not overflowed, alt_resettime   *)
(* is the time that was set less the ticks it was set at, each part by     *)
(* itself.                                                                 *)
(***************************************************************************)
ResetIs ==
  TimeOfDay(setTo.sec - setAt \div tick_rate, setTo.usec - ((setAt * UsPerTick) % ALT_US))

TimeInv ==
  /\ TimeTypeOK
  /\ tick_rate = 0 => nticks = 0 /\ alt_resettime = Epoch /\ setTo = Epoch /\ setAt = 0
  /\ exact /\ tick_rate # 0 => alt_resettime = ResetIs

\* A division by the number of parts: what remains is what the ticks that do not
\* make a second amount to.
LEMMA DivisionIs ==
  ASSUME NEW x \in Nat, NEW d \in Nat, d > 0
  PROVE  /\ x \div d \in Nat /\ x % d \in 0 .. d - 1 /\ x % d \in Nat
         /\ x = d * (x \div d) + (x % d)
OBVIOUS

LEMMA RemainderIs ==
  ASSUME NEW d \in Nat, d > 0, NEW q \in Int, NEW r \in 0 .. d - 1
  PROVE  (d * q + r) % d = r
OBVIOUS

LEMMA NoneDivided ==
  ASSUME NEW d \in Nat, d > 0, NEW x \in 0 .. d - 1 PROVE x \div d = 0
OBVIOUS

\* The microseconds of t ticks are whole seconds and less than a second.
InSeconds(t, rate, u) ==
  /\ t \div rate \in Nat /\ t * u \in Nat
  /\ (t * u) % (rate * u) \in Nat
  /\ (t * u) % (rate * u) < rate * u
  /\ t * u = (t \div rate) * (rate * u) + ((t * u) % (rate * u))

LEMMA TicksSplit ==
  ASSUME NEW t \in Nat, NEW rate \in Nat, rate > 0, NEW u \in Nat, u > 0
  PROVE  InSeconds(t, rate, u)
<1> DEFINE d == t \div rate
           m == t % rate
<1>1. d \in Nat /\ m \in Nat /\ m < rate /\ t = rate * d + m
  BY DivisionIs
<1> HIDE DEF d, m
<1>2. m * u \in Nat /\ rate * u \in Nat /\ m * u < rate * u
  <2>1. m * u \in Nat /\ rate * u \in Nat BY <1>1
  <2>2. rate - m \in Nat /\ rate - m > 0 BY <1>1
  <2>3. (rate - m) * u > 0 BY <2>2
  <2>4. (rate - m) * u = rate * u - m * u BY <1>1
  <2> QED BY <2>1, <2>3, <2>4
<1>3. t * u = (rate * u) * d + m * u
  <2>1. (rate * d + m) * u = (rate * d) * u + m * u BY <1>1
  <2>2. (rate * d) * u = (rate * u) * d BY <1>1
  <2> QED BY <1>1, <2>1, <2>2
<1>4. (t * u) % (rate * u) = m * u
  <2>1. PICK w \in Nat : w = rate * u BY <1>2
  <2>2. PICK r \in Nat : r = m * u BY <1>2
  <2>3. w > 0 /\ r \in 0 .. w - 1 BY <1>2, <2>1, <2>2
  <2>4. (w * d + r) % w = r BY <1>1, <2>3, RemainderIs
  <2> QED BY <1>3, <2>1, <2>2, <2>4
<1>5. (rate * u) * d = d * (rate * u) BY <1>1
<1> QED BY <1>1, <1>2, <1>3, <1>4, <1>5 DEF d, InSeconds

LEMMA TimeTypes ==
  ASSUME TimeInv, tick_rate # 0
  PROVE  /\ tick_rate \in Nat /\ tick_rate > 0 /\ UsPerTick \in Nat /\ UsPerTick > 0
         /\ ALT_US \in Nat /\ ALT_US > 0 /\ ALT_US = tick_rate * UsPerTick
         /\ nticks \in Nat /\ setAt \in Nat /\ setAt <= nticks
         /\ Wrap \in Nat /\ Wrap > 0
<1>1. tick_rate \in Rates /\ tick_rate \in Nat /\ tick_rate > 0
  BY AlarmAssumption DEF TimeInv, TimeTypeOK, AlarmTypeOK
<1>2. ALT_US \in Nat /\ ALT_US > 0 /\ ALT_US % tick_rate = 0 BY <1>1, TimeAssumption
<1>3. UsPerTick \in Nat /\ ALT_US = tick_rate * UsPerTick + 0
  BY <1>1, <1>2, DivisionIs DEF UsPerTick
<1>4. tick_rate * UsPerTick \in Int /\ ALT_US = tick_rate * UsPerTick BY <1>1, <1>3
<1>5. UsPerTick # 0
  <2>1. tick_rate * 0 = 0 BY <1>1
  <2> QED BY <1>2, <1>4, <2>1
<1>6. nticks \in Nat /\ setAt \in Nat /\ setAt <= nticks /\ Wrap \in Nat /\ Wrap > 0
  BY AlarmAssumption DEF TimeInv, TimeTypeOK, AlarmTypeOK
<1> QED BY <1>1, <1>2, <1>3, <1>4, <1>5, <1>6

\* The clock, at the ticks the time was set at and now.
LEMMA Seconds ==
  ASSUME TimeInv, tick_rate # 0, NEW t \in Nat
  PROVE  /\ t \div tick_rate \in Nat /\ t * UsPerTick \in Nat
         /\ (t * UsPerTick) % ALT_US \in 0 .. ALT_US - 1
         /\ t * UsPerTick = (t \div tick_rate) * ALT_US + ((t * UsPerTick) % ALT_US)
<1>1. /\ tick_rate \in Nat /\ tick_rate > 0 /\ UsPerTick \in Nat /\ UsPerTick > 0
      /\ ALT_US \in Nat /\ ALT_US = tick_rate * UsPerTick
  BY TimeTypes
<1>2. PICK rate \in Nat, u \in Nat : rate = tick_rate /\ u = UsPerTick /\ rate > 0 /\ u > 0
  BY <1>1
<1>3. /\ t \div rate \in Nat /\ t * u \in Nat
      /\ (t * u) % (rate * u) \in Nat
      /\ (t * u) % (rate * u) < rate * u
      /\ t * u = (t \div rate) * (rate * u) + ((t * u) % (rate * u))
  <2>1. InSeconds(t, rate, u) BY <1>2, TicksSplit
  <2> QED BY <2>1 DEF InSeconds
<1>4. PICK us \in Nat : us = ALT_US /\ us = rate * u BY <1>1, <1>2
<1>5. /\ (t * u) % us \in Nat /\ (t * u) % us < us
      /\ t * u = (t \div rate) * us + ((t * u) % us)
  BY <1>3, <1>4
<1>6. (t * u) % us \in 0 .. us - 1 BY <1>4, <1>5
<1> QED BY <1>2, <1>3, <1>4, <1>5, <1>6

(***************************************************************************)
(* The arithmetic of gettimeofday(): a sum that is not negative and off by *)
(* less than a second either way is normalised.                            *)
(***************************************************************************)
LEMMA Normalised ==
  ASSUME NEW sec \in Int, NEW usec \in Int, ALT_US \in Nat,
         -ALT_US < usec, usec < 2 * ALT_US, 0 <= sec * ALT_US + usec
  PROVE  LET t == Carried(Borrowed(TimeOfDay(sec, usec)))
         IN  /\ Micros(t) = sec * ALT_US + usec
             /\ t.usec \in 0 .. ALT_US - 1
<1> DEFINE t == Carried(Borrowed(TimeOfDay(sec, usec)))
<1>0. /\ (sec - 1) * ALT_US = sec * ALT_US - ALT_US
      /\ (sec + 1) * ALT_US = sec * ALT_US + ALT_US
      /\ sec * ALT_US \in Int /\ (sec <= 0 => sec * ALT_US <= 0)
  OBVIOUS
<1>1. CASE usec < 0
  <2>1. sec > 0 BY <1>0, <1>1
  <2>2. t.sec = sec - 1 /\ t.usec = usec + ALT_US
    BY <1>1, <2>1 DEF Borrowed, Carried, TimeOfDay
  <2>3. usec + ALT_US \in 0 .. ALT_US - 1
        /\ (sec - 1) * ALT_US + (usec + ALT_US) = sec * ALT_US + usec
    BY <1>0, <1>1
  <2> QED BY <2>2, <2>3 DEF Micros
<1>2. CASE usec >= 0 /\ usec < ALT_US
  <2>1. t = TimeOfDay(sec, usec) BY <1>2 DEF Borrowed, Carried, TimeOfDay
  <2> QED BY <1>0, <1>2, <2>1 DEF Micros, TimeOfDay
<1>3. CASE usec >= ALT_US
  <2>1. t.sec = sec + 1 /\ t.usec = usec - ALT_US
    BY <1>3 DEF Borrowed, Carried, TimeOfDay
  <2>2. usec - ALT_US \in 0 .. ALT_US - 1
        /\ (sec + 1) * ALT_US + (usec - ALT_US) = sec * ALT_US + usec
    BY <1>0, <1>3
  <2> QED BY <2>1, <2>2 DEF Micros
<1> QED BY <1>1, <1>2, <1>3

LEMMA TimeGoesOnNow == TimeInv => TimeGoesOn
<1> SUFFICES ASSUME TimeInv, tick_rate # 0, exact PROVE
      /\ Micros(ALT_GETTIMEOFDAY) = Micros(setTo) + (nticks - setAt) * UsPerTick
      /\ ALT_GETTIMEOFDAY.usec \in 0 .. ALT_US - 1
  BY DEF TimeGoesOn
<1>1. /\ nticks \in Nat /\ setAt \in Nat /\ setAt <= nticks
      /\ UsPerTick \in Nat /\ ALT_US \in Nat /\ ALT_US > 0
  BY TimeTypes
<1>2. setTo.sec \in Nat /\ setTo.usec \in 0 .. ALT_US - 1
  BY <1>1, TimeAssumption DEF TimeInv, TimeTypeOK, Epoch, TimeOfDay
<1> DEFINE dn == nticks \div tick_rate
           ds == setAt \div tick_rate
           pn == nticks * UsPerTick
           ps == setAt * UsPerTick
           mn == pn % ALT_US
           ms == ps % ALT_US
           sec == setTo.sec - ds + dn
           usec == setTo.usec - ms + mn
<1>3. /\ dn \in Nat /\ pn \in Nat /\ mn \in 0 .. ALT_US - 1 /\ pn = dn * ALT_US + mn
      /\ ds \in Nat /\ ps \in Nat /\ ms \in 0 .. ALT_US - 1 /\ ps = ds * ALT_US + ms
  BY <1>1, Seconds
<1>4. (nticks - setAt) * UsPerTick = pn - ps /\ ps <= pn
  <2>1. (nticks - setAt) * UsPerTick = pn - ps BY <1>1
  <2>2. nticks - setAt \in Nat /\ (nticks - setAt) * UsPerTick >= 0 BY <1>1
  <2> QED BY <1>3, <2>1, <2>2
<1>5. ALT_GETTIMEOFDAY = Carried(Borrowed(TimeOfDay(sec, usec)))
  BY DEF ALT_GETTIMEOFDAY, TimeInv, ResetIs, TimeOfDay, Wide, Product
<1> HIDE DEF dn, ds, pn, ps, mn, ms
<1>6. sec * ALT_US + usec = Micros(setTo) + (pn - ps)
  <2>1. sec * ALT_US = setTo.sec * ALT_US - ds * ALT_US + dn * ALT_US BY <1>1, <1>2, <1>3
  <2>2. Micros(setTo) = setTo.sec * ALT_US + setTo.usec BY DEF Micros
  <2>3. /\ setTo.sec * ALT_US \in Int /\ ds * ALT_US \in Int /\ dn * ALT_US \in Int
    BY <1>1, <1>2, <1>3
  <2> QED BY <1>2, <1>3, <2>1, <2>2, <2>3
<1>7. Micros(setTo) \in Nat
  <2>1. setTo.sec * ALT_US \in Nat BY <1>1, <1>2
  <2> QED BY <1>2, <2>1 DEF Micros
<1>8. sec \in Int /\ usec \in Int /\ -ALT_US < usec /\ usec < 2 * ALT_US
  BY <1>1, <1>2, <1>3
<1>9. 0 <= sec * ALT_US + usec BY <1>3, <1>4, <1>6, <1>7
<1> HIDE DEF sec, usec
<1>10. /\ Micros(ALT_GETTIMEOFDAY) = sec * ALT_US + usec
       /\ ALT_GETTIMEOFDAY.usec \in 0 .. ALT_US - 1
  BY <1>1, <1>5, <1>8, <1>9, Normalised
<1> QED BY <1>4, <1>6, <1>10

LEMMA TimeInitInv == TimeInit => TimeInv
<1> SUFFICES ASSUME TimeInit PROVE TimeInv OBVIOUS
<1>1. AlarmTypeOK BY AlarmInitInv DEF TimeInit, AlarmInv
<1>2. tick_rate = 0 /\ nticks = 0 BY DEF TimeInit, AlarmInit
<1>3. 0 \in (1 - ALT_US) .. (ALT_US - 1) /\ 0 \in 0 .. nticks BY <1>2, TimeAssumption
<1> QED BY <1>1, <1>2, <1>3 DEF TimeInv, TimeTypeOK, TimeInit, Epoch, TimeOfDay

\* A time is set, at the present tick.
LEMMA TimeSet ==
  ASSUME TimeInv, NEW t \in Times, ALT_SETTIMEOFDAY(t) PROVE TimeInv'
<1>1. /\ tick_rate # 0 /\ UNCHANGED <<tick_rate, nticks>> /\ setTo' = t /\ setAt' = nticks
      /\ exact' = (Product < Wrap)
      /\ alt_resettime' = TimeOfDay(t.sec - nticks \div tick_rate, t.usec - Narrow)
      /\ AlarmTypeOK'
  BY DEF ALT_SETTIMEOFDAY, alarmVars, clockVars, visitVars, TimeInv, TimeTypeOK, AlarmTypeOK
<1>2. /\ tick_rate \in Nat /\ UsPerTick \in Nat /\ ALT_US \in Nat /\ ALT_US > 0
      /\ nticks \in Nat /\ Wrap \in Nat /\ Wrap > 0
  BY <1>1, TimeTypes
<1>3. /\ nticks \div tick_rate \in Nat /\ Product \in Nat
  BY <1>1, <1>2, Seconds DEF Product
<1>4. t.sec \in Nat /\ t.usec \in 0 .. ALT_US - 1 BY TimeAssumption
<1>5. Narrow \in 0 .. ALT_US - 1
  <2>1. Product % Wrap \in Nat BY <1>2, <1>3, DivisionIs
  <2> QED BY <1>2, <2>1, DivisionIs DEF Narrow
<1>6. /\ t.sec - nticks \div tick_rate \in Int
      /\ t.usec - Narrow \in (1 - ALT_US) .. (ALT_US - 1)
  BY <1>2, <1>3, <1>4, <1>5
<1>7. TimeTypeOK'
  <2>1. setAt' \in 0 .. nticks' BY <1>1, <1>2
  <2>2. exact' \in BOOLEAN BY <1>1
  <2>3. alt_resettime' \in [sec : Int, usec : (1 - ALT_US) .. (ALT_US - 1)]
    BY <1>1, <1>6 DEF TimeOfDay
  <2> QED BY <1>1, <2>1, <2>2, <2>3 DEF TimeTypeOK
<1>8. exact' => alt_resettime' = ResetIs'
  <2> SUFFICES ASSUME Product < Wrap PROVE alt_resettime' = ResetIs' BY <1>1
  <2>1. Product % Wrap = Product
    <3>1. Product \in 0 .. Wrap - 1 /\ Product = Wrap * 0 + Product BY <1>2, <1>3
    <3> QED BY <1>2, <3>1, RemainderIs
  <2>2. Narrow = (nticks * UsPerTick) % ALT_US BY <2>1 DEF Narrow, Product
  <2>3. UsPerTick' = UsPerTick BY <1>1 DEF UsPerTick
  <2> QED BY <1>1, <2>2, <2>3 DEF ResetIs
<1> QED BY <1>1, <1>7, <1>8 DEF TimeInv

LEMMA ZeroBelow ==
  ASSUME NEW r \in Nat, r > 0 PROVE 0 \in 0 .. r - 1
  OBVIOUS

LEMMA TimeStep ==
  ASSUME TimeInv, AlarmTypeOK', [TimeNext]_timeVars PROVE TimeInv'
<1>1. CASE UNCHANGED timeVars
  BY <1>1 DEF timeVars, alarmVars, clockVars, TimeInv, TimeTypeOK, ResetIs, UsPerTick
<1>2. CASE alt_sysclk_init /\ UNCHANGED <<alt_resettime, setTo, setAt, exact>>
  <2>1. /\ tick_rate = 0 /\ nticks' = nticks /\ tick_rate' \in Rates
        /\ UNCHANGED <<alt_resettime, setTo, setAt, exact>>
        /\ alt_resettime = Epoch /\ setTo = Epoch /\ setAt = 0
    BY <1>2 DEF alt_sysclk_init, TimeInv
  <2>2. TimeTypeOK' BY <2>1 DEF TimeInv, TimeTypeOK
  <2>3. tick_rate' \in Nat /\ tick_rate' > 0 BY <2>1, AlarmAssumption
  <2>4. ResetIs' = Epoch
    <3>1. PICK r \in Nat : r = tick_rate' /\ r > 0 BY <2>3
    <3>2. ALT_US \in Nat /\ ALT_US > 0 BY TimeAssumption
    <3>3. PICK u \in Nat : u = ALT_US \div r BY <3>1, <3>2, DivisionIs
    <3>4. 0 \div r = 0 /\ (0 * u) % ALT_US = 0
      <4>1. 0 * u = 0 /\ 0 \in Nat BY <3>3
      <4>2. 0 \div r = 0
        <5>0. 0 \in 0 .. r - 1 BY <3>1, ZeroBelow
        <5>1. PICK z \in 0 .. r - 1 : z = 0 BY <5>0
        <5>2. z \div r = 0 BY <3>1, <5>1, NoneDivided
        <5> QED BY <5>1, <5>2
      <4>3. 0 % ALT_US = 0 BY <3>2
      <4> QED BY <4>1, <4>2, <4>3
    <3>5. 0 - 0 = 0 OBVIOUS
    <3> QED BY <2>1, <3>1, <3>3, <3>4, <3>5 DEF ResetIs, Epoch, TimeOfDay, UsPerTick
  <2> QED BY <2>1, <2>2, <2>3, <2>4 DEF TimeInv
<1>3. CASE TimeTick /\ UNCHANGED <<alt_resettime, setTo, setAt, exact>>
  <2>1. /\ tick_rate # 0 /\ tick_rate' = tick_rate /\ nticks < Wrap - 1
        /\ nticks' = (nticks + 1) % Wrap
        /\ UNCHANGED <<alt_resettime, setTo, setAt, exact>>
    BY <1>3 DEF TimeTick, alt_tick
  <2>2. nticks' = nticks + 1
    <3>1. nticks \in 0 .. Wrap - 1 /\ 1 \in 0 .. Wrap - 1
      BY AlarmAssumption DEF TimeInv, TimeTypeOK, AlarmTypeOK
    <3>2. (nticks + 1) % Wrap = IF nticks + 1 < Wrap THEN nticks + 1 ELSE nticks + 1 - Wrap
      BY <3>1, WrapsOnce
    <3> QED BY <2>1, <3>1, <3>2, AlarmAssumption
  <2>3. setAt' \in 0 .. nticks'
    <3>1. setAt \in 0 .. nticks /\ nticks \in Nat
      BY AlarmAssumption DEF TimeInv, TimeTypeOK, AlarmTypeOK
    <3> QED BY <2>1, <2>2, <3>1
  <2>4. TimeTypeOK' BY <2>1, <2>3 DEF TimeInv, TimeTypeOK
  <2>5. ResetIs' = ResetIs BY <2>1 DEF ResetIs, UsPerTick
  <2> QED BY <2>1, <2>4, <2>5 DEF TimeInv
<1>4. CASE \E t \in Times : ALT_SETTIMEOFDAY(t)
  BY <1>4, TimeSet
<1> QED BY <1>1, <1>2, <1>3, <1>4 DEF TimeNext

\* The clock and the time of day stay tied to the ticks (alt_gettod.c:70-124).
THEOREM TimeInvCorrect == TimeSpec => []TimeInv
<1>1. TimeSpec => []AlarmInv
  <2>1. TimeInit => AlarmInv BY AlarmInitInv DEF TimeInit
  <2>2. [TimeNext]_timeVars => [AlarmNext]_alarmVars
    BY DEF TimeNext, TimeTick, ALT_SETTIMEOFDAY, timeVars, AlarmNext
  <2> QED BY <2>1, <2>2, AlarmStepInv, PTL DEF TimeSpec
<1>2. AlarmInv => AlarmTypeOK BY DEF AlarmInv
<1>3. TimeInit => TimeInv BY TimeInitInv
<1>4. TimeInv /\ AlarmTypeOK' /\ [TimeNext]_timeVars => TimeInv' BY TimeStep
<1> QED BY <1>1, <1>2, <1>3, <1>4, PTL DEF TimeSpec

\* Clock, alarms and time of day keep their types.
THEOREM TimeTypeCorrect == TimeSpec => []TimeTypeOK
<1>1. TimeInv => TimeTypeOK BY DEF TimeInv
<1> QED BY <1>1, TimeInvCorrect, PTL

(***************************************************************************)
(* gettimeofday() gives the time that was set and the ticks since, for     *)
(* every rate that divides a second, every time that is set, and counters  *)
(* of every width, as long as the 32-bit product holds.                    *)
(***************************************************************************)
THEOREM TimeGoesOnCorrect == TimeSpec => []TimeGoesOn
<1>1. TimeInv => TimeGoesOn BY TimeGoesOnNow
<1> QED BY <1>1, TimeInvCorrect, PTL

-----------------------------------------------------------------------------
(***************************************************************************)
(* Sleeping.  Big loops and the rest make up the time; the rounds of the   *)
(* rest fit into a register, and what a big loop is too long by is the     *)
(* remainder of INT_MAX by the rounds of a microsecond.                    *)
(***************************************************************************)
RoundsClose(us, total) == total - us * PerUs \in 0 .. LateRounds(us)

SleepInv ==
  /\ SleepTypeOK
  /\ rounds = alt_busy_sleep(slept) \/ (slept = 0 /\ rounds = 0)

LEMMA ProductBelow ==
  ASSUME NEW r \in Nat, NEW c \in Nat, r <= c, NEW p \in Nat
  PROVE  r * p \in Nat /\ c * p \in Nat /\ r * p <= c * p
<1>1. c - r \in Nat OBVIOUS
<1>2. (c - r) * p \in Nat /\ r * p \in Nat /\ c * p \in Nat BY <1>1
<1>3. (c - r) * p = c * p - r * p OBVIOUS
<1> QED BY <1>2, <1>3

LEMMA KeptByWidth ==
  ASSUME NEW w \in Nat, NEW x \in 0 .. w - 1
  PROVE  x % w = x
OBVIOUS

LEMMA ChunkIs ==
  /\ INT_MAX \in Nat /\ PerUs \in Nat /\ PerUs > 0 /\ Chunk \in Nat /\ Chunk > 0
  /\ \E spare \in 0 .. PerUs - 1 : INT_MAX = PerUs * Chunk + spare
<1>1. INT_MAX \in Nat /\ PerUs \in Nat /\ PerUs > 0 /\ PerUs <= INT_MAX BY SleepAssumption
<1>2. PICK c \in Nat, spare \in 0 .. PerUs - 1 :
        c = INT_MAX \div PerUs /\ INT_MAX = PerUs * c + spare
  BY <1>1, DivisionIs
<1>3. c # 0
  <2>1. PerUs * 0 = 0 BY <1>1
  <2> QED BY <1>1, <1>2, <2>1
<1> QED BY <1>1, <1>2, <1>3 DEF Chunk

LEMMA BigLoopsAre ==
  ASSUME NEW us \in Nat
  PROVE  /\ big_loops(us) \in Nat /\ Rest(us) \in 0 .. Chunk - 1
         /\ us = big_loops(us) * Chunk + Rest(us)
         /\ Rest(us) = us % Chunk
<1>1. PICK c \in Nat : c = Chunk /\ c > 0 BY ChunkIs
<1>2. us \div c \in Nat /\ us % c \in 0 .. c - 1 /\ us = c * (us \div c) + (us % c)
  BY <1>1, DivisionIs
<1>3. PICK b \in Nat, m \in 0 .. c - 1 :
        b = us \div c /\ m = us % c /\ us = c * b + m
  BY <1>2
<1>4. c * b = b * c /\ b * c \in Nat BY <1>1
<1>5. us - b * c = m BY <1>3, <1>4
<1> QED BY <1>1, <1>3, <1>4, <1>5 DEF big_loops, Rest

\* The rounds of the rest fit into a register.
LEMMA RestFits ==
  ASSUME NEW us \in Nat
  PROVE  /\ Rest(us) * PerUs \in Nat
         /\ (Rest(us) * PerUs) % UINT_WRAP = Rest(us) * PerUs
<1>1. PICK r \in Nat, c \in Nat : r = Rest(us) /\ c = Chunk /\ r <= c BY BigLoopsAre, ChunkIs
<1>2. PICK p \in Nat, spare \in 0 .. PerUs - 1 : p = PerUs /\ INT_MAX = p * c + spare
  BY <1>1, ChunkIs
<1>3. r * p \in Nat /\ c * p \in Nat /\ r * p <= c * p BY <1>1, <1>2, ProductBelow
<1>4. p * c = c * p BY <1>1, <1>2
<1>5. PICK n \in Nat : n = INT_MAX BY ChunkIs
<1>6. c * p <= n BY <1>2, <1>3, <1>4, <1>5, ChunkIs
<1>7. r * p <= n BY <1>3, <1>5, <1>6
<1>8. 2 * (n + 1) \in Nat /\ r * p \in 0 .. 2 * (n + 1) - 1
  <2>1. PICK x \in Nat : x = r * p BY <1>3
  <2>2. x \in 0 .. 2 * (n + 1) - 1 BY <1>5, <1>7, <2>1
  <2> QED BY <2>1, <2>2, <1>5
<1>9. (r * p) % (2 * (n + 1)) = r * p BY <1>8, KeptByWidth
<1> QED BY <1>1, <1>2, <1>3, <1>5, <1>9 DEF UINT_WRAP

LEMMA BusySleepIsClose ==
  ASSUME NEW us \in Nat
  PROVE  alt_busy_sleep(us) \in Nat /\ RoundsClose(us, alt_busy_sleep(us))
<1>1. PICK p \in Nat, c \in Nat, s \in 0 .. PerUs - 1 :
        /\ p = PerUs /\ p > 0 /\ c = Chunk /\ c > 0 /\ INT_MAX = p * c + s
  BY ChunkIs
<1>2. PICK b \in Nat, r \in 0 .. Chunk - 1 :
        /\ b = big_loops(us) /\ r = Rest(us) /\ us = b * c + r /\ r = us % c
  BY <1>1, BigLoopsAre
<1>3. r * p \in Nat /\ (r * p) % UINT_WRAP = r * p BY <1>1, <1>2, RestFits
<1>4. PICK x \in Nat : x = r * p BY <1>3
<1>5. UINT_WRAP \in Nat /\ UINT_WRAP > 0
  <2>1. PICK n \in Nat : n = INT_MAX BY ChunkIs
  <2> QED BY <2>1 DEF UINT_WRAP
<1>6. CASE b = 0
  <2>1. us = r
    <3>1. 0 * c = 0 BY <1>1
    <3> QED BY <1>2, <1>6, <3>1
  <2>2. alt_busy_sleep(us) = CountDownBgt(x)
    BY <1>1, <1>2, <1>3, <1>4, <1>6, <2>1 DEF alt_busy_sleep
  <2>3. CountDownBgt(x) \in Nat /\ CountDownBgt(x) - x \in 0 .. 1 BY <1>4 DEF CountDownBgt
  <2>4. b * (p - 1) + 1 = 1
    <3>1. 0 * (p - 1) = 0 BY <1>1
    <3> QED BY <1>6, <3>1
  <2>5. LateRounds(us) \in Nat /\ 1 <= LateRounds(us)
    <3>1. PICK extra \in Nat : extra = IF WholeBigLoops(us) THEN UINT_WRAP ELSE 0 BY <1>5
    <3>2. LateRounds(us) = 1 + extra BY <1>1, <1>2, <2>4, <3>1 DEF LateRounds
    <3>3. 1 + extra \in Nat /\ 1 <= 1 + extra OBVIOUS
    <3> QED BY <3>2, <3>3, Zenon
  <2>6. PICK n \in Nat, l \in Nat :
          n = CountDownBgt(x) /\ n - x \in 0 .. 1 /\ l = LateRounds(us) /\ 1 <= l
    BY <2>3, <2>5
  <2>7. alt_busy_sleep(us) = n /\ us * PerUs = x BY <1>1, <1>2, <1>4, <2>1, <2>2, <2>6, Zenon
  <2>8. n - x \in 0 .. l BY <1>4, <2>6
  <2> QED BY <2>6, <2>7, <2>8 DEF RoundsClose
<1>7. CASE b # 0
  <2>1. alt_busy_sleep(us) = b * INT_MAX + CountDownBne(x)
    BY <1>1, <1>2, <1>3, <1>4, <1>7 DEF alt_busy_sleep
  <2>2. CountDownBne(x) \in Nat /\ b * INT_MAX \in Nat /\ INT_MAX \in Nat
    BY <1>2, <1>4, <1>5, ChunkIs DEF CountDownBne
  <2>3. alt_busy_sleep(us) \in Nat BY <2>1, <2>2
  <2>4. us * p = b * (c * p) + x
    <3>1. (b * c + r) * p = (b * c) * p + r * p BY <1>1, <1>2
    <3>2. (b * c) * p = b * (c * p) BY <1>1, <1>2
    <3> QED BY <1>2, <1>4, <3>1, <3>2
  <2>5. b * INT_MAX = b * (c * p) + b * s
    <3>1. p * c = c * p /\ p * c \in Nat BY <1>1
    <3>2. PICK k \in Nat : k = c * p BY <3>1
    <3>3. b * (k + s) = b * k + b * s BY <1>1, <1>2, <3>2
    <3> QED BY <1>1, <3>1, <3>2, <3>3
  <2>6. b * s \in Nat /\ b * (p - 1) \in Nat /\ b * s <= b * (p - 1)
    <3>1. s \in Nat /\ p - 1 \in Nat /\ s <= p - 1 BY <1>1
    <3>2. s * b \in Nat /\ (p - 1) * b \in Nat /\ s * b <= (p - 1) * b
      BY <3>1, <1>2, ProductBelow
    <3>3. s * b = b * s /\ (p - 1) * b = b * (p - 1) BY <1>1, <1>2
    <3> QED BY <3>2, <3>3
  <2>7. PICK k \in Int : k = b * (c * p) BY <1>1, <1>2
  <2>8. PICK d \in Nat, e \in Nat : d = b * s /\ e = b * (p - 1) /\ d <= e BY <2>6
  <2>9. PICK extra \in Nat : extra = IF WholeBigLoops(us) THEN UINT_WRAP ELSE 0 BY <1>5
  <2>10. CountDownBne(x) - x \in 0 .. extra
    <3>1. CASE r = 0
      <4>1. x = 0
        <5>1. 0 * p = 0 BY <1>1
        <5> QED BY <1>4, <3>1, <5>1
      <4>2. us > 0
        <5>1. b * c > 0 BY <1>1, <1>2, <1>7
        <5>2. PICK y \in Nat : y = b * c /\ y > 0 BY <1>1, <1>2, <5>1
        <5>3. us = y + 0 BY <1>2, <3>1, <5>2, Zenon
        <5> QED BY <5>2, <5>3
      <4>3. WholeBigLoops(us) BY <1>1, <1>2, <3>1, <4>2 DEF WholeBigLoops
      <4>4. extra = UINT_WRAP /\ CountDownBne(x) = extra
        BY <2>9, <4>1, <4>3 DEF CountDownBne
      <4> QED BY <2>9, <4>1, <4>4
    <3>2. CASE r # 0
      <4>1. PICK m \in Nat : m = r /\ m > 0 BY <1>1, <1>2, <3>2
      <4>2. m * p > 0 BY <1>1, <4>1
      <4>3. CountDownBne(x) = x BY <1>4, <4>1, <4>2 DEF CountDownBne
      <4>4. x - x \in 0 .. extra BY <1>4, <2>9
      <4> QED BY <4>3, <4>4
    <3> QED BY <3>1, <3>2
  <2>11. PICK z \in 0 .. extra : CountDownBne(x) = x + z
    <3>1. PICK n \in Nat : n = CountDownBne(x) /\ n - x \in 0 .. extra BY <2>2, <2>10
    <3>2. n - x \in 0 .. extra /\ n = x + (n - x) BY <1>4, <2>9, <3>1
    <3> QED BY <3>1, <3>2, Zenon
  <2>12. alt_busy_sleep(us) = (k + d) + (x + z) /\ us * p = k + x
    BY <2>1, <2>4, <2>5, <2>7, <2>8, <2>11
  <2>13. ((k + d) + (x + z)) - (k + x) = d + z BY <1>4, <2>7, <2>8, <2>9
  <2>14. LateRounds(us) = e + 1 + extra BY <1>1, <1>2, <2>8, <2>9 DEF LateRounds
  <2>15. d + z \in 0 .. e + 1 + extra BY <2>8, <2>9
  <2> QED BY <1>1, <2>3, <2>12, <2>13, <2>14, <2>15 DEF RoundsClose
<1> QED BY <1>6, <1>7

LEMMA SleepStep == SleepInv /\ [SleepNext]_sleepVars => SleepInv'
<1> SUFFICES ASSUME SleepInv, [SleepNext]_sleepVars PROVE SleepInv'
  OBVIOUS
<1>1. CASE UNCHANGED sleepVars
  BY <1>1 DEF sleepVars, SleepInv, SleepTypeOK
<1>2. CASE SleepNext
  <2>1. slept' \in 0 .. UINT_WRAP - 1 /\ rounds' = alt_busy_sleep(slept')
    BY <1>2 DEF SleepNext, ALT_USLEEP
  <2>2. slept' \in Nat BY <2>1
  <2>3. rounds' \in Nat BY <2>1, <2>2, BusySleepIsClose
  <2> QED BY <2>1, <2>3 DEF SleepInv, SleepTypeOK
<1> QED BY <1>1, <1>2

\* From rounds to cycles: the whole of a microsecond, less what its quotient has lost,
\* is PerUs rounds.
LEMMA RoundCyclesAre ==
  /\ RoundCycles \in Nat
  /\ \A us \in Nat : us * ALT_CPU_FREQ - Truncated(us) = (us * PerUs) * RoundCycles
<1>1. RoundCycles \in Nat \ {0}
  <2>1. cycles_per_loop \in {3, 9} BY DEF cycles_per_loop
  <2>2. Million \in Nat \ {0} BY SleepAssumption
  <2> QED BY <2>1, <2>2 DEF RoundCycles
<1>2. PICK C \in Nat \ {0} : C = RoundCycles BY <1>1
<1>3. ALT_CPU_FREQ \in Nat BY SleepAssumption
<1>4. PICK p \in Nat, lost \in Nat :
        p = PerUs /\ lost = ALT_CPU_FREQ % C /\ ALT_CPU_FREQ = C * p + lost
  BY <1>2, <1>3, DivisionIs DEF PerUs
<1>5. ASSUME NEW us \in Nat
      PROVE  us * ALT_CPU_FREQ - Truncated(us) = (us * PerUs) * RoundCycles
  <2>1. us * (C * p + lost) = us * (C * p) + us * lost BY <1>2, <1>4
  <2>2. us * (C * p) = (us * p) * C BY <1>2, <1>4
  <2>3. us * (C * p) \in Nat /\ us * lost \in Nat BY <1>2, <1>4
  <2>4. us * ALT_CPU_FREQ - us * lost = us * (C * p) BY <1>4, <2>1, <2>3
  <2> QED BY <1>2, <1>4, <2>2, <2>4 DEF Truncated
<1> QED BY <1>2, <1>5

LEMMA CyclesClose ==
  ASSUME NEW us \in Nat, NEW total \in Nat, RoundsClose(us, total)
  PROVE  total * RoundCycles - (us * ALT_CPU_FREQ - Truncated(us))
           \in 0 .. LateRounds(us) * RoundCycles
<1>1. PICK C \in Nat : C = RoundCycles BY RoundCyclesAre
<1>2. PICK asked \in Nat : asked = us * PerUs
  <2>1. PICK p \in Nat : p = PerUs BY ChunkIs
  <2>2. us * p \in Nat BY <2>1
  <2> QED BY <2>1, <2>2
<1>3. LateRounds(us) \in Int
  <2>1. PICK p \in Nat, b \in Nat : p = PerUs /\ b = big_loops(us) BY ChunkIs, BigLoopsAre
  <2>2. PICK n \in Nat : n = INT_MAX BY ChunkIs
  <2>3. b * (p - 1) \in Int /\ UINT_WRAP \in Int BY <2>1, <2>2 DEF UINT_WRAP
  <2> QED BY <2>1, <2>3 DEF LateRounds
<1>4. PICK L \in Int : L = LateRounds(us) BY <1>3
<1>5. total - asked \in 0 .. L BY <1>2, <1>4 DEF RoundsClose
<1>6. PICK late \in Nat : late = total - asked /\ late <= L /\ L \in Nat BY <1>2, <1>4, <1>5
<1>7. late * C \in Nat /\ L * C \in Nat /\ late * C <= L * C BY <1>1, <1>6, ProductBelow
<1>8. total * C - asked * C = late * C
  <2>1. (total - asked) * C = total * C - asked * C BY <1>1, <1>2
  <2> QED BY <1>6, <2>1
<1>9. us * ALT_CPU_FREQ - Truncated(us) = asked * C BY <1>1, <1>2, RoundCyclesAre
<1>10. total * C - (us * ALT_CPU_FREQ - Truncated(us)) \in 0 .. L * C BY <1>7, <1>8, <1>9
<1> QED BY <1>1, <1>4, <1>10

LEMMA SleepIsClose == SleepInv => SleepClose
<1> SUFFICES ASSUME SleepInv PROVE SleepClose
  OBVIOUS
<1>1. slept \in Nat /\ rounds \in Nat BY DEF SleepInv, SleepTypeOK
<1>2. RoundsClose(slept, rounds)
  <2>1. CASE rounds = alt_busy_sleep(slept) BY <1>1, <2>1, BusySleepIsClose
  <2>2. CASE slept = 0 /\ rounds = 0
    <3>1. PICK p \in Nat : p = PerUs BY ChunkIs
    <3>2. 0 - 0 * p = 0 BY <3>1
    <3>3. LateRounds(0) \in Nat
      <4>1. big_loops(0) = 0
        <5>1. PICK c \in Nat : c = Chunk /\ c > 0 BY ChunkIs
        <5>2. 0 \in 0 .. c - 1 BY <5>1, ZeroBelow
        <5> QED BY <5>1, <5>2, NoneDivided DEF big_loops
      <4>2. ~WholeBigLoops(0) BY DEF WholeBigLoops
      <4>3. 0 * (p - 1) + 1 + 0 = 1 BY <3>1
      <4> QED BY <3>1, <4>1, <4>2, <4>3 DEF LateRounds
    <3> QED BY <2>2, <3>1, <3>2, <3>3 DEF RoundsClose
  <2> QED BY <2>1, <2>2 DEF SleepInv
<1> QED BY <1>1, <1>2, CyclesClose DEF SleepClose

\* A sleep takes the rounds alt_busy_sleep() makes of it (alt_busy_sleep.c:52-133).
THEOREM SleepInvCorrect == SleepSpec => []SleepInv
<1>1. SleepInit => SleepInv
  <2>1. ASSUME SleepInit PROVE slept = 0 /\ rounds = 0 BY <2>1 DEF SleepInit
  <2>2. UINT_WRAP \in Nat /\ UINT_WRAP > 0
    <3>1. PICK n \in Nat : n = INT_MAX BY ChunkIs
    <3> QED BY <3>1 DEF UINT_WRAP
  <2>3. 0 \in 0 .. UINT_WRAP - 1 BY <2>2, ZeroBelow
  <2> QED BY <2>1, <2>3 DEF SleepInv, SleepTypeOK
<1> QED BY <1>1, SleepStep, PTL DEF SleepSpec

\* Arguments and rounds keep their width.
THEOREM SleepTypeCorrect == SleepSpec => []SleepTypeOK
<1>1. SleepInv => SleepTypeOK BY DEF SleepInv
<1> QED BY <1>1, SleepInvCorrect, PTL

(***************************************************************************)
(* SleepClose for every argument, every width of the counters and every    *)
(* speed of the processor that makes a round in a microsecond at least.    *)
(***************************************************************************)
THEOREM SleepCloseCorrect == SleepSpec => []SleepClose
<1> QED BY SleepInvCorrect, SleepIsClose, PTL
-----------------------------------------------------------------------------
(***************************************************************************)
(* The emulated instructions, for every width of a register.  The loops    *)
(* are followed round by round.                                            *)
(***************************************************************************)
LEMMA InductionTo ==
  ASSUME NEW n \in Nat, NEW S, 0 \in S, \A k \in 0 .. n - 1 : k \in S => k + 1 \in S
  PROVE  0 .. n \subseteq S
<1> SUFFICES ASSUME 0 .. n \ S # {} PROVE FALSE OBVIOUS
<1>1. 0 .. n \ S \subseteq Nat OBVIOUS
<1>2. PICK i \in 0 .. n \ S : \A j \in 0 .. n \ S : ~ (<<j, i>> \in OpToRel(<, Nat))
  BY <1>1, WFMin, NatLessThanWellFounded
<1>3. \A j \in 0 .. n \ S : ~(j < i) BY <1>1, <1>2 DEF OpToRel
<1>4. i # 0 BY <1>2
<1>5. i - 1 \in 0 .. n - 1 /\ i = (i - 1) + 1 /\ i - 1 \in 0 .. n BY <1>4
<1>6. i - 1 \in S BY <1>3, <1>5
<1> QED BY <1>2, <1>5, <1>6

LEMMA DivUnique ==
  ASSUME NEW L \in Nat \ {0}, NEW q \in Int, NEW r \in 0 .. L - 1
  PROVE  (L * q + r) \div L = q /\ (L * q + r) % L = r
  OBVIOUS

LEMMA Powers ==
  /\ Mod \in Nat \ {0}
  /\ \A k \in 0 .. RegBits : /\ 2^k \in Nat \ {0} /\ 2^(RegBits - k) \in Nat \ {0}
                             /\ 2^k * 2^(RegBits - k) = Mod
  /\ \A k \in 0 .. RegBits - 1 : 2^(k + 1) = 2 * 2^k /\ 2^(RegBits - k) = 2 * 2^(RegBits - (k + 1))
  /\ 2^(RegBits - 1) \in Nat \ {0} /\ Mod = 2 * 2^(RegBits - 1)
  /\ 2^0 = 1
<1> DEFINE N == RegBits
<1>0. N \in Nat \ {0} BY ExceptionAssumption
<1> HIDE DEF N
<1>1. 2^0 = 1 /\ \A k \in 0 .. N - 1 : 2^k \in Nat /\ 2^(k + 1) = 2 * 2^k
  BY PowerAssumption DEF N
<1>2. \A k \in 0 .. N : 2^k \in Nat \ {0}
  <2> DEFINE S == {k \in 0 .. N : 2^k \in Nat \ {0}}
  <2>1. 0 \in S BY <1>0, <1>1
  <2>2. ASSUME NEW k \in 0 .. N - 1, k \in S PROVE k + 1 \in S
    <3>1. 2^k \in Nat \ {0} /\ 2^(k + 1) = 2 * 2^k BY <1>1, <2>2
    <3>2. PICK p \in Nat \ {0} : p = 2^k BY <3>1
    <3>3. 2 * p \in Nat \ {0} OBVIOUS
    <3> QED BY <1>0, <3>1, <3>2, <3>3
  <2> HIDE DEF S
  <2>3. 0 .. N \subseteq S BY <1>0, <2>1, <2>2, InductionTo
  <2> QED BY <2>3 DEF S
<1>3. \A k \in 0 .. N - 1 : 2^(N - k) = 2 * 2^(N - (k + 1))
  <2> TAKE k \in 0 .. N - 1
  <2>1. PICK j \in 0 .. N - 1 : j = N - (k + 1) BY <1>0
  <2>2. j + 1 = N - k BY <1>0, <2>1
  <2>3. 2^(j + 1) = 2 * 2^j BY <1>1
  <2> QED BY <2>1, <2>2, <2>3
<1>4. \A k \in 0 .. N : 2^k * 2^(N - k) = 2^N
  <2> DEFINE S == {k \in 0 .. N : 2^k * 2^(N - k) = 2^N}
  <2>1. 0 \in S
    <3>1. N - 0 = N BY <1>0
    <3>2. PICK p \in Nat : p = 2^N BY <1>0, <1>2
    <3>3. 1 * p = p OBVIOUS
    <3> QED BY <1>0, <1>1, <3>1, <3>2, <3>3
  <2>2. ASSUME NEW k \in 0 .. N - 1, k \in S PROVE k + 1 \in S
    <3>1. k \in 0 .. N /\ k + 1 \in 0 .. N /\ N - (k + 1) \in 0 .. N BY <1>0
    <3>2. PICK p \in Nat, r \in Nat : p = 2^k /\ r = 2^(N - (k + 1)) BY <1>2, <3>1
    <3>3. 2^(k + 1) = 2 * p /\ 2^(N - k) = 2 * r BY <1>1, <1>3, <3>2
    <3>4. (2 * p) * r = p * (2 * r) OBVIOUS
    <3>5. p * (2 * r) = 2^N BY <2>2, <3>2, <3>3
    <3> QED BY <3>1, <3>2, <3>3, <3>4, <3>5
  <2> HIDE DEF S
  <2>3. 0 .. N \subseteq S BY <1>0, <2>1, <2>2, InductionTo
  <2> QED BY <2>3 DEF S
<1>5. \A k \in 0 .. N : N - k \in 0 .. N BY <1>0
<1>6. N \in 0 .. N BY <1>0
<1>7. 2^(N - 1) \in Nat \ {0} /\ 2^N = 2 * 2^(N - 1)
  <2>1. PICK j \in 0 .. N - 1 : j = N - 1 /\ j + 1 = N /\ j \in 0 .. N BY <1>0
  <2>2. 2^(j + 1) = 2 * 2^j BY <1>1
  <2> QED BY <1>2, <2>1, <2>2
<1> QED BY <1>1, <1>2, <1>3, <1>4, <1>5, <1>6, <1>7 DEF Mod, N

-----------------------------------------------------------------------------
DivisionStart(dividend, divisor) == [remainder |-> 0, quotient |-> dividend, divisor |-> divisor]
IsDivision(f, n, dividend, divisor) ==
  f = [k \in 0 .. n |-> IF k = 0 THEN DivisionStart(dividend, divisor) ELSE DivideRound(f[k - 1])]
Division(dividend, divisor) == CHOOSE f : IsDivision(f, RegBits, dividend, divisor)

LEMMA DivisionUnfolds ==
  ASSUME NEW a, NEW b
  PROVE  /\ UnsignedDivision(a, b) = Division(a, b)[RegBits].quotient
         /\ Division(a, b)[0] = DivisionStart(a, b)
         /\ \A k \in 0 .. RegBits - 1 : Division(a, b)[k + 1] = DivideRound(Division(a, b)[k])
<1>0. RegBits \in Nat BY ExceptionAssumption
<1>1. UnsignedDivision(a, b) = Division(a, b)[RegBits].quotient
  BY Zenon DEF UnsignedDivision, Division, IsDivision, DivisionStart
<1> DEFINE S == {n \in 0 .. RegBits : \E f : IsDivision(f, n, a, b)}
<1>2. 0 \in S
  <2> DEFINE f == [k \in 0 .. 0 |-> DivisionStart(a, b)]
  <2>1. IsDivision(f, 0, a, b) BY DEF IsDivision
  <2> QED BY <1>0, <2>1
<1>3. ASSUME NEW n \in 0 .. RegBits - 1, n \in S PROVE n + 1 \in S
  <2>1. PICK f : IsDivision(f, n, a, b) BY <1>3
  <2> DEFINE g == [k \in 0 .. n + 1 |->
                 IF k = 0 THEN DivisionStart(a, b) ELSE DivideRound(f[k - 1])]
  <2>2. \A k \in 0 .. n : g[k] = f[k] BY <2>1 DEF IsDivision
  <2>3. \A k \in 0 .. n + 1 : k # 0 => k - 1 \in 0 .. n OBVIOUS
  <2>4. g = [k \in 0 .. n + 1 |-> IF k = 0 THEN DivisionStart(a, b) ELSE DivideRound(g[k - 1])]
    BY <2>2, <2>3
  <2> HIDE DEF g
  <2>5. IsDivision(g, n + 1, a, b) BY <2>4 DEF IsDivision
  <2>6. n + 1 \in 0 .. RegBits BY <1>0
  <2> QED BY <2>5, <2>6
<1> HIDE DEF S
<1>4. 0 .. RegBits \subseteq S BY <1>0, <1>2, <1>3, InductionTo
<1>5. RegBits \in S BY <1>0, <1>4
<1>6. \E f : IsDivision(f, RegBits, a, b) BY <1>5 DEF S
<1>7. IsDivision(Division(a, b), RegBits, a, b) BY <1>6 DEF Division
<1> DEFINE d == Division(a, b)
<1> HIDE DEF d
<1>8. d = [k \in 0 .. RegBits |-> IF k = 0 THEN DivisionStart(a, b) ELSE DivideRound(d[k - 1])]
  BY <1>7 DEF IsDivision, d
<1>9. d[0] = DivisionStart(a, b) BY <1>0, <1>8
<1>10. ASSUME NEW k \in 0 .. RegBits - 1 PROVE d[k + 1] = DivideRound(d[k])
  <2>1. k + 1 \in 0 .. RegBits /\ k + 1 # 0 /\ (k + 1) - 1 = k BY <1>0
  <2> QED BY <1>8, <2>1
<1> QED BY <1>1, <1>9, <1>10 DEF d
(***************************************************************************)
(* After k rounds the high k bits of the dividend are divided: h is their  *)
(* value and l that of the others, q the quotient of h so far.  l and q    *)
(* share the register.                                                     *)
(***************************************************************************)
DividedTo(r, a, b, P, R) ==
  /\ r \in [remainder : Nat, quotient : Nat, divisor : Nat]
  /\ r.divisor = b /\ r.remainder < b
  /\ \E h, l, q \in Nat :
       /\ a = h * R + l /\ l < R /\ h < P
       /\ r.quotient = l * P + q /\ q < P
       /\ h = q * b + r.remainder

\* A round: P and R are the powers 2^k and 2^(RegBits - k - 1).
LEMMA DivisionRound ==
  ASSUME NEW a \in Nat, NEW b \in Nat, NEW P \in Nat \ {0}, NEW R \in Nat \ {0},
         Mod = P * (2 * R), 2^(RegBits - 1) = P * R,
         NEW r, DividedTo(r, a, b, P, 2 * R)
  PROVE  DividedTo(DivideRound(r), a, b, 2 * P, R)
<1>1. PICK h \in Nat, l \in Nat, q \in Nat :
        /\ a = h * (2 * R) + l /\ l < 2 * R /\ h < P
        /\ r.quotient = l * P + q /\ q < P
        /\ h = q * b + r.remainder
  BY DEF DividedTo
<1>2. PICK rem \in Nat : rem = r.remainder /\ rem < b BY DEF DividedTo
<1>3. r.divisor = b BY DEF DividedTo
<1>4. PICK M \in Nat, X \in Nat : M = P * R /\ X = l * P OBVIOUS
<1>5. Mod = 2 * M /\ 2^(RegBits - 1) = M
  <2>1. P * (2 * R) = 2 * (P * R) OBVIOUS
  <2> QED BY <1>4, <2>1
<1>6. P <= M
  <2>1. PICK j \in Nat : R = j + 1
    <3>1. R - 1 \in Nat /\ R = (R - 1) + 1 OBVIOUS
    <3> QED BY <3>1
  <2>2. P * (j + 1) = P * j + P /\ P * j \in Nat OBVIOUS
  <2> QED BY <1>4, <2>1, <2>2
<1>7. PICK bit \in {0, 1}, m \in Nat : l = bit * R + m /\ m < R /\ (bit = 1 <=> l >= R)
  <2>1. CASE l >= R
    <3>1. l - R \in Nat /\ l = 1 * R + (l - R) /\ l - R < R BY <1>1, <2>1
    <3> QED BY <2>1, <3>1
  <2>2. CASE l < R
    <3>1. l = 0 * R + l BY <1>1
    <3> QED BY <2>2, <3>1
  <2> QED BY <2>1, <2>2
<1>8. PICK Y \in Nat : Y = m * P /\ Y + P <= M
  <2>1. PICK j \in Nat : R = m + 1 + j
    <3>1. R - (m + 1) \in Nat /\ R = m + 1 + (R - (m + 1)) BY <1>7
    <3> QED BY <3>1
  <2>2. P * (m + 1 + j) = m * P + P + P * j /\ P * j \in Nat /\ m * P \in Nat OBVIOUS
  <2> QED BY <1>4, <2>1, <2>2
<1>9. X = bit * M + Y
  <2>1. (bit * R + m) * P = bit * (P * R) + m * P BY <1>7
  <2> QED BY <1>4, <1>7, <1>8, <2>1
<1>10. /\ (IF Negative32(r.quotient) THEN 1 ELSE 0) = bit
       /\ (2 * r.quotient) % Mod = 2 * Y + 2 * q
  <2>1. r.quotient = bit * M + Y + q BY <1>1, <1>4, <1>9
  <2>2. Negative32(r.quotient) <=> bit * M + Y + q >= M BY <1>5, <2>1 DEF Negative32
  <2>3. bit = 0 \/ bit = 1 OBVIOUS
  <2>4. CASE bit = 0
    <3>1. r.quotient = Y + q /\ Y + q < M BY <1>1, <1>8, <2>1, <2>4
    <3>2. ~Negative32(r.quotient) BY <2>2, <2>4, <1>1, <1>8, <3>1
    <3>3. 2 * Y + 2 * q \in 0 .. 2 * M - 1 BY <3>1
    <3>4. (2 * r.quotient) % (2 * M) = 2 * Y + 2 * q BY <3>1, <3>3
    <3> QED BY <1>5, <2>4, <3>2, <3>4
  <2>5. CASE bit = 1
    <3>1. r.quotient = M + Y + q /\ Y + q < M BY <1>1, <1>8, <2>1, <2>5
    <3>2. Negative32(r.quotient) BY <2>2, <2>5
    <3>3. 2 * Y + 2 * q \in 0 .. 2 * M - 1 BY <3>1
    <3>4. PICK W \in Nat \ {0} : W = 2 * M BY <1>6
    <3>5. 2 * r.quotient = W * 1 + (2 * Y + 2 * q) BY <3>1, <3>4
    <3>6. (W * 1 + (2 * Y + 2 * q)) % W = 2 * Y + 2 * q BY <3>3, <3>4, DivUnique, 1 \in Int
    <3> QED BY <1>5, <2>5, <3>2, <3>4, <3>5, <3>6
  <2> QED BY <2>3, <2>4, <2>5
<1>11. rem <= h
  <2>1. q * b \in Nat OBVIOUS
  <2> QED BY <1>1, <1>2, <2>1
<1>12. (2 * r.remainder + (IF Negative32(r.quotient) THEN 1 ELSE 0)) % Mod = 2 * rem + bit
  <2>1. 2 * rem + bit \in 0 .. 2 * M - 1 BY <1>1, <1>6, <1>11
  <2>2. (2 * rem + bit) % (2 * M) = 2 * rem + bit BY <2>1
  <2> QED BY <1>2, <1>5, <1>10, <2>2
<1>a. PICK u \in Nat, v \in Nat : u = 2 * rem + bit /\ v = 2 * Y + 2 * q OBVIOUS
<1>13. DivideRound(r) = IF u < b THEN [r EXCEPT !.remainder = u, !.quotient = v]
                        ELSE [r EXCEPT !.remainder = u - b, !.quotient = v + 1]
  <2> DEFINE remainder == (2 * r.remainder + (IF Negative32(r.quotient) THEN 1 ELSE 0)) % Mod
             quotient == (2 * r.quotient) % Mod
  <2>1. DivideRound(r) = IF remainder < r.divisor
                         THEN [r EXCEPT !.remainder = remainder, !.quotient = quotient]
                         ELSE [r EXCEPT !.remainder = remainder - r.divisor, !.quotient = quotient + 1]
    BY Zenon DEF DivideRound
  <2>2. remainder = u /\ quotient = v BY <1>10, <1>12, <1>a
  <2> HIDE DEF remainder, quotient
  <2> QED BY ONLY <1>3, <2>1, <2>2
<1>14. a = (2 * h + bit) * R + m
  <2>1. h * (2 * R) + (bit * R + m) = (2 * h + bit) * R + m OBVIOUS
  <2> QED BY <1>1, <1>7, <2>1
<1>15. 2 * h + bit < 2 * P /\ 2 * h + bit \in Nat /\ m \in Nat /\ m < R BY <1>1, <1>7
<1>16. m * (2 * P) = 2 * Y
  <2>1. m * (2 * P) = 2 * (m * P) OBVIOUS
  <2> QED BY <1>8, <2>1
<1>17. r \in [remainder : Nat, quotient : Nat, divisor : Nat] BY DEF DividedTo
<1>18. CASE 2 * rem + bit < b
  <2>1. u < b BY <1>18, <1>a
  <2>2. /\ DivideRound(r) \in [remainder : Nat, quotient : Nat, divisor : Nat]
        /\ DivideRound(r).remainder = u /\ DivideRound(r).divisor = b
        /\ DivideRound(r).quotient = v
    BY <1>3, <1>13, <1>17, <2>1
  <2>3. 2 * h + bit = (2 * q) * b + (2 * rem + bit)
    <3>1. 2 * (q * b + rem) + bit = (2 * q) * b + (2 * rem + bit) OBVIOUS
    <3> QED BY <1>1, <1>2, <3>1
  <2>4. DivideRound(r).quotient = m * (2 * P) + 2 * q /\ 2 * q < 2 * P /\ 2 * q \in Nat
    BY <1>1, <1>16, <1>a, <2>2
  <2> QED BY <1>14, <1>15, <1>18, <1>a, <2>2, <2>3, <2>4 DEF DividedTo
<1>19. CASE ~(2 * rem + bit < b)
  <2>1. ~(u < b) /\ u - b \in Nat /\ v + 1 \in Nat /\ u - b < b BY <1>2, <1>19, <1>a
  <2>2. /\ DivideRound(r) \in [remainder : Nat, quotient : Nat, divisor : Nat]
        /\ DivideRound(r).remainder = u - b /\ DivideRound(r).divisor = b
        /\ DivideRound(r).quotient = v + 1
    BY <1>3, <1>13, <1>17, <2>1
  <2>3. 2 * h + bit = (2 * q + 1) * b + (u - b)
    <3>1. 2 * (q * b + rem) + bit = (2 * q + 1) * b + (2 * rem + bit - b) OBVIOUS
    <3> QED BY <1>1, <1>2, <1>a, <3>1
  <2>4. /\ DivideRound(r).quotient = m * (2 * P) + (2 * q + 1)
          /\ 2 * q + 1 < 2 * P /\ 2 * q + 1 \in Nat
    BY <1>1, <1>16, <1>a, <2>2
  <2>5. PICK h1 \in Nat, q1 \in Nat : h1 = 2 * h + bit /\ q1 = 2 * q + 1 BY <1>15
  <2>6. /\ a = h1 * R + m /\ m < R /\ h1 < 2 * P
        /\ DivideRound(r).quotient = m * (2 * P) + q1 /\ q1 < 2 * P
        /\ h1 = q1 * b + DivideRound(r).remainder
    BY <1>14, <1>15, <2>2, <2>3, <2>4, <2>5
  <2>7. DivideRound(r).remainder < b BY <2>1, <2>2
  <2> QED BY <2>2, <2>6, <2>7 DEF DividedTo
<1> QED BY <1>18, <1>19
LEMMA UnsignedDivisionCorrect ==
  ASSUME NEW a \in 0 .. Mod - 1, NEW b \in 1 .. Mod - 1
  PROVE  UnsignedDivision(a, b) = a \div b
<1> DEFINE N == RegBits
           d == Division(a, b)
<1>0. N \in Nat \ {0} /\ a \in Nat /\ a < Mod /\ b \in Nat /\ b > 0
  BY ExceptionAssumption, Powers
<1>1. /\ UnsignedDivision(a, b) = d[N].quotient
      /\ d[0] = DivisionStart(a, b)
      /\ \A k \in 0 .. N - 1 : d[k + 1] = DivideRound(d[k])
  BY DivisionUnfolds
<1> HIDE DEF d, N
<1> DEFINE S == {k \in 0 .. N : DividedTo(d[k], a, b, 2^k, 2^(N - k))}
<1>2. 0 \in S
  <2>1. 2^0 = 1 /\ N - 0 = N /\ 2^N = Mod BY <1>0, Powers DEF N, Mod
  <2>2. PICK m \in Nat : m = Mod /\ a < m BY <1>0, Powers
  <2>3. /\ d[0] \in [remainder : Nat, quotient : Nat, divisor : Nat]
        /\ d[0].remainder = 0 /\ d[0].quotient = a /\ d[0].divisor = b
    BY <1>0, <1>1 DEF DivisionStart
  <2>4. a = 0 * m + a /\ a = a * 1 + 0 /\ 0 = 0 * b + 0 BY <1>0
  <2>5. DividedTo(d[0], a, b, 1, m)
    <3>1. /\ a = 0 * m + a /\ a < m /\ 0 < 1
          /\ d[0].quotient = a * 1 + 0 /\ 0 < 1
          /\ 0 = 0 * b + d[0].remainder
      BY <2>2, <2>3, <2>4
    <3>2. d[0].remainder < b BY <1>0, <2>3
    <3> QED BY <1>0, <2>3, <3>1, <3>2 DEF DividedTo
  <2> QED BY <1>0, <2>1, <2>2, <2>5
<1>3. ASSUME NEW k \in 0 .. N - 1, k \in S PROVE k + 1 \in S
  <2>1. k \in 0 .. N /\ k + 1 \in 0 .. N BY <1>0
  <2>2. PICK P \in Nat \ {0}, R \in Nat \ {0} : P = 2^k /\ R = 2^(N - (k + 1))
    BY <2>1, Powers DEF N
  <2>3. 2^(k + 1) = 2 * P /\ 2^(N - k) = 2 * R BY <2>2, Powers DEF N
  <2>4. Mod = P * (2 * R) BY <2>1, <2>2, <2>3, Powers DEF N
  <2>5. 2^(RegBits - 1) = P * R
    <3>1. PICK M \in Nat : M = 2^(RegBits - 1) /\ Mod = 2 * M BY Powers
    <3>2. P * (2 * R) = 2 * (P * R) /\ P * R \in Nat OBVIOUS
    <3> QED BY <2>4, <3>1, <3>2
  <2>6. DividedTo(d[k], a, b, P, 2 * R) BY <1>3, <2>2, <2>3
  <2>7. DividedTo(DivideRound(d[k]), a, b, 2 * P, R) BY <1>0, <2>4, <2>5, <2>6, DivisionRound
  <2> QED BY <1>1, <2>1, <2>2, <2>3, <2>7
<1> HIDE DEF S
<1>4. 0 .. N \subseteq S BY <1>0, <1>2, <1>3, InductionTo
<1>5. N \in S BY <1>0, <1>4
<1>6. DividedTo(d[N], a, b, 2^N, 1)
  <2>1. N - N = 0 /\ 2^0 = 1 BY <1>0, Powers
  <2> QED BY <1>5, <2>1 DEF S
<1>7. PICK h \in Nat, l \in Nat, q \in Nat :
        /\ a = h * 1 + l /\ l < 1 /\ d[N].quotient = l * 2^N + q
        /\ h = q * b + d[N].remainder
  BY <1>6 DEF DividedTo
<1>8. PICK rem \in Nat, p \in Nat : rem = d[N].remainder /\ rem < b /\ p = 2^N
  BY <1>0, <1>6, Powers DEF DividedTo, N, Mod
<1>9. l = 0 BY <1>7
<1>10. 0 * p = 0 OBVIOUS
<1>11. d[N].quotient = q BY <1>7, <1>8, <1>9, <1>10
<1>12. a = b * q + rem
  <2>1. q * b = b * q BY <1>0
  <2> QED BY <1>0, <1>7, <1>8, <1>9, <2>1
<1>13. (b * q + rem) \div b = q
  <2>1. rem \in 0 .. b - 1 /\ b \in Nat \ {0} /\ q \in Int BY <1>0, <1>8
  <2> QED BY <2>1, DivUnique
<1> QED BY <1>1, <1>11, <1>12, <1>13
-----------------------------------------------------------------------------
MultiplicationStart(b) == [mul |-> 0, mulxuu |-> 0, left |-> b, right |-> b]
IsMultiplication(f, n, a, b) ==
  f = [k \in 0 .. n |-> IF k = 0 THEN MultiplicationStart(b) ELSE MultiplyRound(f[k - 1], a)]
Rounds(a, b) == CHOOSE f : IsMultiplication(f, RegBits, a, b)

LEMMA MultiplicationUnfolds ==
  ASSUME NEW a, NEW b
  PROVE  /\ Multiplication(a, b) = Rounds(a, b)[RegBits]
         /\ Rounds(a, b)[0] = MultiplicationStart(b)
         /\ \A k \in 0 .. RegBits - 1 : Rounds(a, b)[k + 1] = MultiplyRound(Rounds(a, b)[k], a)
<1>0. RegBits \in Nat BY ExceptionAssumption
<1>1. Multiplication(a, b) = Rounds(a, b)[RegBits]
  BY Zenon DEF Multiplication, Rounds, IsMultiplication, MultiplicationStart
<1> DEFINE S == {n \in 0 .. RegBits : \E f : IsMultiplication(f, n, a, b)}
<1>2. 0 \in S
  <2> DEFINE f == [k \in 0 .. 0 |-> MultiplicationStart(b)]
  <2>1. IsMultiplication(f, 0, a, b) BY DEF IsMultiplication
  <2> QED BY <1>0, <2>1
<1>3. ASSUME NEW n \in 0 .. RegBits - 1, n \in S PROVE n + 1 \in S
  <2>1. PICK f : IsMultiplication(f, n, a, b) BY <1>3
  <2> DEFINE g == [k \in 0 .. n + 1 |-> IF k = 0 THEN MultiplicationStart(b)
                                        ELSE MultiplyRound(f[k - 1], a)]
  <2>2. \A k \in 0 .. n : g[k] = f[k] BY <2>1 DEF IsMultiplication
  <2>3. \A k \in 0 .. n + 1 : k # 0 => k - 1 \in 0 .. n OBVIOUS
  <2>4. g = [k \in 0 .. n + 1 |-> IF k = 0 THEN MultiplicationStart(b)
                                  ELSE MultiplyRound(g[k - 1], a)]
    BY <2>2, <2>3
  <2> HIDE DEF g
  <2>5. IsMultiplication(g, n + 1, a, b) BY <2>4 DEF IsMultiplication
  <2>6. n + 1 \in 0 .. RegBits BY <1>0
  <2> QED BY <2>5, <2>6
<1> HIDE DEF S
<1>4. 0 .. RegBits \subseteq S BY <1>0, <1>2, <1>3, InductionTo
<1>5. RegBits \in S BY <1>0, <1>4
<1>6. \E f : IsMultiplication(f, RegBits, a, b) BY <1>5 DEF S
<1>7. IsMultiplication(Rounds(a, b), RegBits, a, b) BY <1>6 DEF Rounds
<1> DEFINE d == Rounds(a, b)
<1> HIDE DEF d
<1>8. d = [k \in 0 .. RegBits |-> IF k = 0 THEN MultiplicationStart(b)
                                  ELSE MultiplyRound(d[k - 1], a)]
  BY <1>7 DEF IsMultiplication, d
<1>9. d[0] = MultiplicationStart(b) BY <1>0, <1>8
<1>10. ASSUME NEW k \in 0 .. RegBits - 1 PROVE d[k + 1] = MultiplyRound(d[k], a)
  <2>1. k + 1 \in 0 .. RegBits /\ k + 1 # 0 /\ (k + 1) - 1 = k BY <1>0
  <2> QED BY <1>8, <2>1
<1> QED BY <1>1, <1>9, <1>10 DEF d

(***************************************************************************)
(* After k rounds mul is the product of a and the high k bits of b, h, but *)
(* for multiples of Mod, and mulxuu the high part of the product of a and  *)
(* the low k bits of b, s.                                                 *)
(***************************************************************************)
HighTo(p, a, b, P, R) ==
  \E h, l, c \in Nat :
    /\ b = h * R + l /\ l < R
    /\ p.left = l * P
    /\ h * a = Mod * c + p.mul
LowTo(p, a, b, P) ==
  \E s, t \in Nat :
    /\ b = p.right * P + s /\ s < P
    /\ s * a = p.mulxuu * P + t /\ t < P
MultipliedTo(p, a, b, P, R) ==
  /\ p \in [mul : 0 .. Mod - 1, mulxuu : 0 .. Mod - 1, left : Nat, right : Nat]
  /\ HighTo(p, a, b, P, R) /\ LowTo(p, a, b, P)

LEMMA RoundFields ==
  ASSUME NEW p, NEW a
  PROVE  LET sum == (p.mulxuu + a) % Mod
             r == MultiplyRound(p, a)
         IN  /\ r = [mul |-> r.mul, mulxuu |-> r.mulxuu, left |-> r.left, right |-> r.right]
             /\ r.mul = (2 * p.mul + (IF Negative32(p.left) THEN a ELSE 0)) % Mod
             /\ r.mulxuu = IF p.right % 2 = 0 THEN p.mulxuu \div 2
                           ELSE sum \div 2 + SavedCarry(sum, a)
             /\ r.left = (2 * p.left) % Mod
             /\ r.right = p.right \div 2
  BY DEF MultiplyRound

\* The bit shifted out of a register that holds l * P.
LEMMA ShiftedOut ==
  ASSUME NEW P \in Nat \ {0}, NEW R \in Nat \ {0},
         Mod = P * (2 * R), 2^(RegBits - 1) = P * R, NEW l \in 0 .. 2 * R - 1
  PROVE  \E bit \in {0, 1}, m \in 0 .. R - 1 :
           /\ l = bit * R + m
           /\ Negative32(l * P) <=> bit = 1
           /\ (2 * (l * P)) % Mod = m * (2 * P)
<1>1. PICK bit \in {0, 1}, m \in 0 .. R - 1 : l = bit * R + m
  <2>1. CASE l >= R
    <3>1. l - R \in 0 .. R - 1 /\ l = 1 * R + (l - R) BY <2>1
    <3> QED BY <3>1
  <2>2. CASE l < R
    <3>1. l = 0 * R + l /\ l \in 0 .. R - 1 BY <2>2
    <3> QED BY <3>1
  <2> QED BY <2>1, <2>2
<1>2. PICK M \in Nat \ {0}, X \in Nat, Y \in Nat : M = P * R /\ X = l * P /\ Y = m * P
  <2>1. P * R \in Nat \ {0} /\ l * P \in Nat /\ m * P \in Nat OBVIOUS
  <2> QED BY <2>1
<1>3. Mod = 2 * M /\ 2^(RegBits - 1) = M
  <2>1. P * (2 * R) = 2 * (P * R) OBVIOUS
  <2> QED BY <1>2, <2>1
<1>4. Y < M
  <2>1. PICK j \in Nat : R = m + 1 + j
    <3>1. R - (m + 1) \in Nat /\ R = m + 1 + (R - (m + 1)) OBVIOUS
    <3> QED BY <3>1
  <2>2. P * (m + 1 + j) = m * P + P + P * j /\ P * j \in Nat OBVIOUS
  <2> QED BY <1>2, <2>1, <2>2
<1>5. X = bit * M + Y
  <2>1. (bit * R + m) * P = bit * (P * R) + m * P OBVIOUS
  <2> QED BY <1>1, <1>2, <2>1
<1>6. Negative32(X) <=> bit = 1
  <2>1. Negative32(X) <=> X >= M BY <1>3 DEF Negative32
  <2> QED BY <1>4, <1>5, <2>1
<1>7. (2 * X) % Mod = 2 * Y
  <2>1. PICK W \in Nat \ {0} : W = 2 * M OBVIOUS
  <2>2. 2 * X = W * bit + 2 * Y /\ 2 * Y \in 0 .. W - 1 BY <1>4, <1>5, <2>1
  <2>3. (W * bit + 2 * Y) % W = 2 * Y BY <2>2, DivUnique, bit \in Int
  <2> QED BY <1>3, <2>1, <2>2, <2>3
<1>8. m * (2 * P) = 2 * Y
  <2>1. m * (2 * P) = 2 * (m * P) OBVIOUS
  <2> QED BY <1>2, <2>1
<1> QED BY <1>1, <1>2, <1>6, <1>7, <1>8

LEMMA HighRound ==
  ASSUME NEW a \in Nat, NEW b \in Nat, NEW P \in Nat \ {0}, NEW R \in Nat \ {0},
         Mod = P * (2 * R), 2^(RegBits - 1) = P * R,
         NEW p, MultipliedTo(p, a, b, P, 2 * R)
  PROVE  /\ HighTo(MultiplyRound(p, a), a, b, 2 * P, R)
         /\ MultiplyRound(p, a).mul \in 0 .. Mod - 1 /\ MultiplyRound(p, a).left \in Nat
<1>1. PICK h \in Nat, l \in Nat, c \in Nat :
        b = h * (2 * R) + l /\ l < 2 * R /\ p.left = l * P /\ h * a = Mod * c + p.mul
  BY DEF MultipliedTo, HighTo
<1>2. PICK mul \in Nat, W \in Nat \ {0} : mul = p.mul /\ W = Mod
  BY Powers DEF MultipliedTo
<1>3. PICK bit \in {0, 1}, m \in 0 .. R - 1 :
        /\ l = bit * R + m
        /\ Negative32(l * P) <=> bit = 1
        /\ (2 * (l * P)) % Mod = m * (2 * P)
  <2>1. l \in 0 .. 2 * R - 1 BY <1>1
  <2> QED BY <2>1, ShiftedOut
<1> DEFINE r == MultiplyRound(p, a)
<1>4. PICK v \in Nat : v = 2 * mul + bit * a OBVIOUS
<1>5. r.mul = v % W /\ r.left = m * (2 * P)
  <2>1. bit * a = IF Negative32(p.left) THEN a ELSE 0 BY <1>1, <1>3
  <2>2. r.mul = (2 * p.mul + (IF Negative32(p.left) THEN a ELSE 0)) % Mod BY RoundFields
  <2>3. r.left = (2 * p.left) % Mod BY RoundFields
  <2> HIDE DEF r
  <2>4. r.mul = v % W BY <1>2, <1>4, <2>1, <2>2
  <2>5. r.left = m * (2 * P) BY <1>1, <1>3, <2>3
  <2> QED BY <2>4, <2>5
<1>6. PICK d \in Nat, e \in 0 .. W - 1 : d = v \div W /\ e = v % W /\ v = W * d + e OBVIOUS
<1> HIDE DEF r
<1>7. b = (2 * h + bit) * R + m
  <2>1. h * (2 * R) + (bit * R + m) = (2 * h + bit) * R + m OBVIOUS
  <2> QED BY <1>1, <1>3, <2>1
<1>8. (2 * h + bit) * a = W * (2 * c + d) + e
  <2>1. (2 * h + bit) * a = 2 * (h * a) + bit * a OBVIOUS
  <2>2. W * (2 * c + d) + e = 2 * (W * c) + (W * d + e) OBVIOUS
  <2>3. PICK x \in Nat, y \in Nat, z \in Nat, g \in Nat :
          x = h * a /\ y = W * c /\ z = bit * a /\ g = W * d
    OBVIOUS
  <2>4. x = y + mul BY <1>1, <1>2, <2>3
  <2>5. 2 * x + z = 2 * y + (g + e) BY <1>4, <1>6, <2>3, <2>4
  <2> QED BY <2>1, <2>2, <2>3, <2>5
<1>9. PICK h1 \in Nat, c1 \in Nat : h1 = 2 * h + bit /\ c1 = 2 * c + d OBVIOUS
<1>10. b = h1 * R + m /\ m < R /\ m \in Nat /\ r.left = m * (2 * P) /\ h1 * a = Mod * c1 + r.mul
  <2>1. b = h1 * R + m BY <1>7, <1>9
  <2>2. h1 * a = W * c1 + e BY <1>8, <1>9
  <2>3. e = r.mul BY <1>5, <1>6
  <2>4. m < R /\ m \in Nat OBVIOUS
  <2> QED BY <1>2, <1>5, <2>1, <2>2, <2>3, <2>4
<1>11. HighTo(r, a, b, 2 * P, R) BY <1>10 DEF HighTo
<1>12. r.mul \in 0 .. Mod - 1 BY <1>2, <1>5, <1>6
<1>13. r.left \in Nat BY <1>5
<1> QED BY <1>11, <1>12, <1>13 DEF r

LEMMA LowRound ==
  ASSUME NEW a \in 0 .. Mod - 1, NEW b \in Nat, NEW P \in Nat \ {0}, NEW R,
         NEW p, MultipliedTo(p, a, b, P, R)
  PROVE  /\ LowTo(MultiplyRound(p, a), a, b, 2 * P)
         /\ MultiplyRound(p, a).mulxuu \in 0 .. Mod - 1 /\ MultiplyRound(p, a).right \in Nat
<1>1. PICK s \in Nat, t \in Nat :
        b = p.right * P + s /\ s < P /\ s * a = p.mulxuu * P + t /\ t < P
  BY DEF MultipliedTo, LowTo
<1>2. PICK M \in Nat \ {0} : M = 2^(RegBits - 1) /\ Mod = 2 * M BY Powers
<1>3. PICK x \in 0 .. 2 * M - 1, right \in Nat, o \in {0, 1}, half \in Nat :
        /\ x = p.mulxuu /\ right = p.right
        /\ o = right % 2 /\ half = right \div 2 /\ right = 2 * half + o
  <2>1. p.mulxuu \in 0 .. 2 * M - 1 /\ p.right \in Nat BY <1>2 DEF MultipliedTo
  <2>2. PICK z \in Nat : z = p.right BY <2>1
  <2>3. z % 2 \in {0, 1} /\ z \div 2 \in Nat /\ z = 2 * (z \div 2) + (z % 2) OBVIOUS
  <2> QED BY <2>1, <2>2, <2>3
<1>4. a \in 0 .. 2 * M - 1 BY <1>2
<1> DEFINE r == MultiplyRound(p, a)
           sum == (x + a) % (2 * M)
<1>5. r.right = half /\ r.mulxuu = IF o = 0 THEN x \div 2 ELSE sum \div 2 + SavedCarry(sum, a)
  BY <1>2, <1>3, RoundFields
<1> HIDE DEF r
<1>6. PICK V \in Nat : V = x + o * a BY <1>4
<1>7. r.mulxuu = V \div 2 /\ V < 4 * M - 1
  <2>1. CASE o = 0 BY <1>5, <1>6, <2>1, <1>3, <1>4
  <2>2. CASE o = 1
    <3>1. V = x + a BY <1>4, <1>6, <2>2
    <3>2. CASE V < 2 * M
      <4>1. sum = V BY <3>1, <3>2
      <4>2. ~(sum < a) BY <1>4, <3>1, <4>1
      <4>3. SavedCarry(sum, a) = 0 BY <4>2 DEF SavedCarry
      <4> HIDE DEF sum
      <4> QED BY <1>5, <2>2, <3>2, <4>1, <4>3
    <3>3. CASE V >= 2 * M
      <4>0. PICK W \in Nat \ {0} : W = 2 * M OBVIOUS
      <4>1. V - W \in 0 .. W - 1 /\ V = W * 1 + (V - W) BY <1>4, <3>1, <3>3, <4>0
      <4>2. (W * 1 + (V - W)) % W = V - W BY <4>1, DivUnique, 1 \in Int
      <4>3. sum = V - 2 * M BY <3>1, <4>0, <4>1, <4>2
      <4>4. sum < a BY <3>1, <4>3, <1>4
      <4>5. SavedCarry(sum, a) = M BY <1>2, <4>4 DEF SavedCarry
      <4> HIDE DEF sum
      <4>6. (V - 2 * M) \div 2 + M = V \div 2 BY <3>3
      <4>7. V < 4 * M - 1 BY <1>4, <3>1
      <4> QED BY <1>5, <2>2, <4>3, <4>5, <4>6, <4>7
    <3> QED BY <3>2, <3>3
  <2> QED BY <2>1, <2>2
<1>8. PICK w \in Nat, e \in {0, 1} : w = V \div 2 /\ V = 2 * w + e
  <2>1. V % 2 \in {0, 1} /\ V \div 2 \in Nat /\ V = 2 * (V \div 2) + (V % 2) OBVIOUS
  <2> QED BY <2>1
<1>9. w \in 0 .. 2 * M - 1 BY <1>7, <1>8
<1>10. PICK s1 \in Nat, t1 \in Nat : s1 = s + o * P /\ t1 = e * P + t OBVIOUS
<1>11. s1 < 2 * P /\ t1 < 2 * P
  <2>1. CASE o = 0
    <3>1. s1 < 2 * P BY <1>1, <1>10, <2>1
    <3>2. e = 0 \/ e = 1 OBVIOUS
    <3> QED BY <1>1, <1>10, <3>1, <3>2
  <2>2. CASE o = 1
    <3>1. s1 < 2 * P BY <1>1, <1>10, <2>2
    <3>2. e = 0 \/ e = 1 OBVIOUS
    <3> QED BY <1>1, <1>10, <3>1, <3>2
  <2> QED BY <2>1, <2>2
<1>12. b = half * (2 * P) + s1
  <2>1. (2 * half + o) * P + s = half * (2 * P) + (s + o * P) OBVIOUS
  <2> QED BY <1>1, <1>3, <1>10, <2>1
<1>13. s1 * a = w * (2 * P) + t1
  <2>1. (s + o * P) * a = s * a + (o * a) * P BY <1>4
  <2>2. s * a = x * P + t BY <1>1, <1>3
  <2>3. PICK oa \in Nat : oa = o * a BY <1>4
  <2>4. x * P + t + oa * P = (x + oa) * P + t OBVIOUS
  <2>5. (2 * w + e) * P + t = w * (2 * P) + (e * P + t) OBVIOUS
  <2>6. x + oa = 2 * w + e BY <1>6, <1>8, <2>3
  <2> QED BY <1>10, <2>1, <2>2, <2>3, <2>4, <2>5, <2>6
<1>14. r.right = half /\ r.mulxuu = w BY <1>5, <1>7, <1>8
<1>15. LowTo(r, a, b, 2 * P) BY <1>11, <1>12, <1>13, <1>14 DEF LowTo
<1>16. r.mulxuu \in 0 .. Mod - 1 /\ r.right \in Nat BY <1>2, <1>9, <1>14
<1> QED BY <1>15, <1>16 DEF r

LEMMA MultiplicationCorrect ==
  ASSUME NEW a \in 0 .. Mod - 1, NEW b \in 0 .. Mod - 1
  PROVE  /\ Multiplication(a, b).mul = (a * b) % Mod
         /\ Multiplication(a, b).mulxuu = (a * b) \div Mod
         /\ Multiplication(a, b).mulxuu \in 0 .. Mod - 1
<1> DEFINE N == RegBits
           d == Rounds(a, b)
<1>0. N \in Nat \ {0} /\ a \in Nat /\ b \in Nat /\ b < Mod
  BY ExceptionAssumption, Powers
<1>1. /\ Multiplication(a, b) = d[N]
      /\ d[0] = MultiplicationStart(b)
      /\ \A k \in 0 .. N - 1 : d[k + 1] = MultiplyRound(d[k], a)
  BY MultiplicationUnfolds
<1> HIDE DEF d, N
<1> DEFINE S == {k \in 0 .. N : MultipliedTo(d[k], a, b, 2^k, 2^(N - k))}
<1>2. 0 \in S
  <2>1. 2^0 = 1 /\ N - 0 = N /\ 2^N = Mod BY <1>0, Powers DEF N, Mod
  <2>2. PICK m \in Nat \ {0} : m = Mod /\ b < m BY <1>0, Powers
  <2>3. /\ d[0] \in [mul : 0 .. m - 1, mulxuu : 0 .. m - 1, left : Nat, right : Nat]
        /\ d[0].mul = 0 /\ d[0].mulxuu = 0 /\ d[0].left = b /\ d[0].right = b
    BY <1>0, <1>1 DEF MultiplicationStart
  <2>4. b = 0 * m + b /\ b = b * 1 /\ b = b * 1 + 0 /\ 0 * a = m * 0 + 0 /\ 0 * a = 0 * 1 + 0
    BY <1>0
  <2>5. HighTo(d[0], a, b, 1, m)
    <3>1. b = 0 * m + b /\ b < m /\ d[0].left = b * 1 /\ 0 * a = Mod * 0 + d[0].mul
      BY <2>2, <2>3, <2>4
    <3> QED BY <1>0, <3>1 DEF HighTo
  <2>6. LowTo(d[0], a, b, 1)
    <3>1. b = d[0].right * 1 + 0 /\ 0 < 1 /\ 0 * a = d[0].mulxuu * 1 + 0 BY <2>3, <2>4
    <3> QED BY <3>1 DEF LowTo
  <2> QED BY <1>0, <2>1, <2>2, <2>3, <2>5, <2>6 DEF MultipliedTo
<1>3. ASSUME NEW k \in 0 .. N - 1, k \in S PROVE k + 1 \in S
  <2>1. k \in 0 .. N /\ k + 1 \in 0 .. N BY <1>0
  <2>2. PICK P \in Nat \ {0}, R \in Nat \ {0} : P = 2^k /\ R = 2^(N - (k + 1))
    BY <2>1, Powers DEF N
  <2>3. 2^(k + 1) = 2 * P /\ 2^(N - k) = 2 * R BY <2>2, Powers DEF N
  <2>4. Mod = P * (2 * R) BY <2>1, <2>2, <2>3, Powers DEF N
  <2>5. 2^(RegBits - 1) = P * R
    <3>1. PICK M \in Nat : M = 2^(RegBits - 1) /\ Mod = 2 * M BY Powers
    <3>2. P * (2 * R) = 2 * (P * R) /\ P * R \in Nat OBVIOUS
    <3> QED BY <2>4, <3>1, <3>2
  <2>6. MultipliedTo(d[k], a, b, P, 2 * R) BY <1>3, <2>2, <2>3
  <2> DEFINE r == MultiplyRound(d[k], a)
  <2>7. HighTo(r, a, b, 2 * P, R) /\ r.mul \in 0 .. Mod - 1 /\ r.left \in Nat
    BY <1>0, <2>4, <2>5, <2>6, HighRound
  <2>8. LowTo(r, a, b, 2 * P) /\ r.mulxuu \in 0 .. Mod - 1 /\ r.right \in Nat
    BY <1>0, <2>6, LowRound
  <2>9. r = [mul |-> r.mul, mulxuu |-> r.mulxuu, left |-> r.left, right |-> r.right]
    BY RoundFields
  <2> HIDE DEF r
  <2>10. r \in [mul : 0 .. Mod - 1, mulxuu : 0 .. Mod - 1, left : Nat, right : Nat]
    BY <2>7, <2>8, <2>9
  <2>11. MultipliedTo(r, a, b, 2 * P, R) BY <2>7, <2>8, <2>10 DEF MultipliedTo
  <2>12. d[k + 1] = r BY <1>1 DEF r
  <2> QED BY <2>1, <2>2, <2>3, <2>11, <2>12
<1> HIDE DEF S
<1>4. 0 .. N \subseteq S BY <1>0, <1>2, <1>3, InductionTo
<1>5. N \in S BY <1>0, <1>4
<1>6. PICK W \in Nat \ {0} : W = Mod /\ W = 2^N BY Powers DEF N, Mod
<1>7. MultipliedTo(d[N], a, b, W, 1)
  <2>1. N - N = 0 /\ 2^0 = 1 BY <1>0, Powers
  <2> QED BY <1>5, <1>6, <2>1 DEF S
<1>8. PICK h \in Nat, l \in Nat, c \in Nat :
        b = h * 1 + l /\ l < 1 /\ h * a = W * c + d[N].mul
  BY <1>6, <1>7 DEF MultipliedTo, HighTo
<1>9. PICK s \in Nat, t \in Nat :
        b = d[N].right * W + s /\ s < W /\ s * a = d[N].mulxuu * W + t /\ t < W
  BY <1>7 DEF MultipliedTo, LowTo
<1>10. PICK mul \in 0 .. W - 1, high \in Nat, right \in Nat :
         mul = d[N].mul /\ high = d[N].mulxuu /\ right = d[N].right
  BY <1>6, <1>7 DEF MultipliedTo
<1>11. h = b BY <1>8
<1>12. right = 0 /\ s = b
  <2>1. SUFFICES ASSUME right # 0 PROVE FALSE
    <3>1. right = 0 => s = b BY <1>0, <1>9, <1>10
    <3> QED BY <3>1
  <2>2. PICK j \in Nat : right = j + 1
    <3>1. right - 1 \in Nat /\ right = (right - 1) + 1 BY <2>1
    <3> QED BY <3>1
  <2>3. (j + 1) * W = j * W + W /\ j * W \in Nat OBVIOUS
  <2> QED BY <1>0, <1>6, <1>9, <1>10, <2>2, <2>3
<1>13. PICK ab \in Nat : ab = a * b /\ ab = b * a BY <1>0
<1>14. ab = W * c + mul BY <1>8, <1>10, <1>11, <1>13
<1>15. ab = W * high + t
  <2>1. high * W = W * high OBVIOUS
  <2> QED BY <1>9, <1>10, <1>12, <1>13, <2>1
<1>16. (W * c + mul) % W = mul BY DivUnique
<1>17. (W * high + t) \div W = high
  <2>1. t \in 0 .. W - 1 BY <1>9
  <2> QED BY <2>1, DivUnique
<1>18. d[N].mulxuu \in 0 .. Mod - 1 BY <1>7 DEF MultipliedTo
<1> QED BY <1>1, <1>6, <1>10, <1>13, <1>14, <1>15, <1>16, <1>17, <1>18
-----------------------------------------------------------------------------
LEMMA ModShift ==
  ASSUME NEW W \in Nat \ {0}, NEW x \in Int, NEW k \in Int
  PROVE  (x + W * k) % W = x % W
<1>1. PICK q \in Int, r \in 0 .. W - 1 : q = x \div W /\ r = x % W /\ x = W * q + r OBVIOUS
<1>2. x + W * k = W * (q + k) + r
  <2>1. W * q + r + W * k = W * (q + k) + r OBVIOUS
  <2> QED BY <1>1, <2>1
<1>3. (W * (q + k) + r) % W = r BY DivUnique, q + k \in Int
<1> QED BY <1>1, <1>2, <1>3

\* Signs and sizes of the numbers registers hold.
LEMMA Signs ==
  ASSUME NEW x \in 0 .. Mod - 1
  PROVE  /\ Negative32(x) \in BOOLEAN
         /\ Absolute(x) \in 0 .. Mod - 1 /\ (x # 0 => Absolute(x) # 0)
         /\ Signed(x) = IF Negative32(x) THEN x - Mod ELSE x
<1>1. PICK M \in Nat \ {0} : M = 2^(RegBits - 1) /\ Mod = 2 * M BY Powers
<1>2. Negative32(x) <=> x >= M BY <1>1 DEF Negative32
<1>3. CASE x >= M
  <2>1. PICK y \in 1 .. M : y = 2 * M - x BY <1>1, <1>3
  <2>2. y % (2 * M) = y BY <2>1
  <2>3. Absolute(x) = y BY <1>1, <1>2, <1>3, <2>1, <2>2 DEF Absolute, Negated
  <2> QED BY <1>1, <1>2, <2>1, <2>3 DEF Signed, Negative32
<1>4. CASE ~(x >= M)
  <2>1. Absolute(x) = x BY <1>2, <1>4 DEF Absolute
  <2> QED BY <1>1, <1>2, <2>1 DEF Signed, Negative32
<1> QED BY <1>3, <1>4

LEMMA QuotientFits ==
  ASSUME NEW a \in Nat, NEW b \in Nat \ {0}
  PROVE  a \div b \in 0 .. a
<1>1. PICK q \in Int, r \in 0 .. b - 1 : q = a \div b /\ a = b * q + r OBVIOUS
<1>2. q >= 0
  <2>1. SUFFICES ASSUME q < 0 PROVE FALSE OBVIOUS
  <2>2. PICK j \in Nat : q = -(j + 1)
    <3>1. -q - 1 \in Nat /\ q = -((-q - 1) + 1) BY <2>1
    <3> QED BY <3>1
  <2>3. b * (-(j + 1)) = -(b * j) - b /\ b * j \in Nat OBVIOUS
  <2> QED BY <1>1, <2>2, <2>3
<1>3. q <= b * q
  <2>1. PICK j \in Nat : b = j + 1
    <3>1. b - 1 \in Nat /\ b = (b - 1) + 1 OBVIOUS
    <3> QED BY <3>1
  <2>2. (j + 1) * q = j * q + q /\ j * q \in Nat BY <1>2
  <2> QED BY <2>1, <2>2
<1> QED BY <1>1, <1>2, <1>3

LEMMA SignedDivisionCorrect ==
  ASSUME NEW a \in 0 .. Mod - 1, NEW b \in 1 .. Mod - 1
  PROVE  SignedDivision(a, b) = Quotient(a, b) % Mod
<1>1. PICK W \in Nat \ {0} : W = Mod BY Powers
<1>2. /\ a \in 0 .. W - 1 /\ b \in 0 .. W - 1 /\ b # 0 BY <1>1
<1>3. PICK x \in 0 .. W - 1, y \in 1 .. W - 1 : x = Absolute(a) /\ y = Absolute(b)
  <2>1. Absolute(a) \in 0 .. W - 1 BY <1>1, <1>2, Signs
  <2>2. Absolute(b) \in 0 .. W - 1 /\ Absolute(b) # 0 BY <1>1, <1>2, Signs
  <2>3. Absolute(b) \in 1 .. W - 1 BY <2>2
  <2> QED BY <2>1, <2>3
<1>4. PICK q \in 0 .. W - 1 : q = x \div y /\ q = UnsignedDivision(Absolute(a), Absolute(b))
  <2>1. UnsignedDivision(x, y) = x \div y BY <1>1, <1>3, UnsignedDivisionCorrect
  <2>2. x \div y \in 0 .. x BY <1>3, QuotientFits
  <2>3. x \div y \in 0 .. W - 1 BY <1>3, <2>2
  <2> QED BY <1>3, <2>1, <2>3
<1>5. CASE Negative32(a) # Negative32(b)
  <2>1. SignedDivision(a, b) = (W - q) % W BY <1>1, <1>4, <1>5 DEF SignedDivision, Negated
  <2>2. Quotient(a, b) = -q BY <1>3, <1>4, <1>5 DEF Quotient
  <2>3. (-q + W * 1) % W = (-q) % W BY ModShift, 1 \in Int, -q \in Int
  <2>4. W - q = -q + W * 1 OBVIOUS
  <2> QED BY <1>1, <2>1, <2>2, <2>3, <2>4
<1>6. CASE ~(Negative32(a) # Negative32(b))
  <2>1. SignedDivision(a, b) = q BY <1>4, <1>6 DEF SignedDivision
  <2>2. Quotient(a, b) = q BY <1>3, <1>4, <1>6 DEF Quotient
  <2>3. q % W = q OBVIOUS
  <2> QED BY <1>1, <2>1, <2>2, <2>3
<1> QED BY <1>5, <1>6

LEMMA SignedProducts ==
  ASSUME NEW a \in 0 .. Mod - 1, NEW b \in 0 .. Mod - 1,
         NEW high, high = Multiplication(a, b).mulxuu
  PROVE  /\ high \in 0 .. Mod - 1 /\ high = ((a * b) \div Mod) % Mod
         /\ LessIfNegative(high, a, b) = ((Signed(a) * b) \div Mod) % Mod
         /\ LessIfNegative(LessIfNegative(high, a, b), b, a) =
              ((Signed(a) * Signed(b)) \div Mod) % Mod
<1>1. PICK W \in Nat \ {0} : W = Mod BY Powers
<1>2. high \in 0 .. W - 1 /\ high = (a * b) \div W BY <1>1, MultiplicationCorrect
<1>3. PICK ab \in Nat : ab = a * b BY <1>1
<1>4. PICK e \in 0 .. W - 1 : ab = W * high + e
  <2>1. ab % W \in 0 .. W - 1 /\ ab = W * (ab \div W) + (ab % W) BY <1>1
  <2> QED BY <1>2, <1>3, <2>1
<1>5. high % W = high BY <1>2
<1>6. PICK na \in {0, 1}, nb \in {0, 1} :
        /\ na = 1 <=> Negative32(a)
        /\ nb = 1 <=> Negative32(b)
  <2>1. \E na \in {0, 1} : na = 1 <=> Negative32(a)
    <3>1. CASE Negative32(a) BY <3>1
    <3>2. CASE ~Negative32(a) BY <3>2, 0 # 1
    <3> QED BY <3>1, <3>2
  <2>2. \E nb \in {0, 1} : nb = 1 <=> Negative32(b)
    <3>1. CASE Negative32(b) BY <3>1
    <3>2. CASE ~Negative32(b) BY <3>2, 0 # 1
    <3> QED BY <3>1, <3>2
  <2> QED BY <2>1, <2>2
<1>7. a \in Int /\ b \in Int /\ high \in Int BY <1>1, <1>2
<1>8. Signed(a) = a - W * na /\ Signed(b) = b - W * nb
  <2>1. na = 0 \/ na = 1 OBVIOUS
  <2>2. nb = 0 \/ nb = 1 OBVIOUS
  <2>3. Signed(a) = a - W * na BY <1>1, <1>6, <1>7, <2>1 DEF Signed
  <2>4. Signed(b) = b - W * nb BY <1>1, <1>6, <1>7, <2>2 DEF Signed
  <2> QED BY <2>3, <2>4
<1>9. PICK p \in Int, q \in Int : p = na * b /\ q = nb * a BY <1>7
<1>10. (Signed(a) * b) \div W = high - p
  <2>1. (a - W * na) * b = a * b - W * (na * b) BY <1>7
  <2>2. W * (high - p) = W * high - W * p BY <1>7
  <2>3. PICK z \in Int, g \in Int : z = W * p /\ g = W * high BY <1>7
  <2>4. Signed(a) * b = W * (high - p) + e BY <1>3, <1>4, <1>8, <1>9, <2>1, <2>2, <2>3
  <2>5. (W * (high - p) + e) \div W = high - p BY <1>7, DivUnique, high - p \in Int
  <2> QED BY <2>4, <2>5
<1>11. LessIfNegative(high, a, b) = (high - p) % W
  <2>1. CASE na = 0
    <3>1. p = 0 BY <1>7, <1>9, <2>1
    <3> QED BY <1>5, <1>6, <1>7, <2>1, <3>1 DEF LessIfNegative
  <2>2. CASE na = 1
    <3>1. p = b BY <1>7, <1>9, <2>2
    <3> QED BY <1>1, <1>6, <2>2, <3>1 DEF LessIfNegative
  <2> QED BY <2>1, <2>2
<1>12. (Signed(a) * Signed(b)) \div W = high - p - q + W * (na * nb)
  <2>1. (a - W * na) * (b - W * nb) = a * b - W * (na * b) - W * (nb * a) + W * (W * (na * nb))
    BY <1>7
  <2>2. PICK n \in Int : n = W * (na * nb) OBVIOUS
  <2>3. W * (high - p - q + n) = W * high - W * p - W * q + W * n BY <1>7
  <2>4. PICK z \in Int, g \in Int, y \in Int, m \in Int :
          z = W * p /\ g = W * high /\ y = W * q /\ m = W * n
    BY <1>7
  <2>5. Signed(a) * Signed(b) = W * (high - p - q + n) + e
    BY <1>3, <1>4, <1>8, <1>9, <2>1, <2>2, <2>3, <2>4
  <2>6. (W * (high - p - q + n) + e) \div W = high - p - q + n
    BY <1>7, DivUnique, high - p - q + n \in Int
  <2> QED BY <2>2, <2>5, <2>6
<1>13. PICK low \in 0 .. W - 1, k \in Int : low = (high - p) % W /\ high - p = W * k + low
  <2>1. PICK x \in Int : x = high - p BY <1>7
  <2>2. x % W \in 0 .. W - 1 /\ x \div W \in Int /\ x = W * (x \div W) + (x % W) OBVIOUS
  <2> QED BY <2>1, <2>2
<1>14. LessIfNegative(low, b, a) = (low - q) % W
  <2>1. CASE nb = 0
    <3>1. q = 0 BY <1>7, <1>9, <2>1
    <3>2. low % W = low OBVIOUS
    <3> QED BY <1>6, <2>1, <3>1, <3>2 DEF LessIfNegative
  <2>2. CASE nb = 1
    <3>1. q = a BY <1>7, <1>9, <2>2
    <3> QED BY <1>1, <1>6, <2>2, <3>1 DEF LessIfNegative
  <2> QED BY <2>1, <2>2
<1>15. (low - q) % W = (high - p - q + W * (na * nb)) % W
  <2>1. PICK j \in Int : j = k + na * nb OBVIOUS
  <2>2. W * (k + na * nb) = W * k + W * (na * nb) OBVIOUS
  <2>3. high - p - q + W * (na * nb) = (low - q) + W * j BY <1>7, <1>13, <2>1, <2>2
  <2>4. ((low - q) + W * j) % W = (low - q) % W BY ModShift, low - q \in Int
  <2> QED BY <2>3, <2>4
<1>16. LessIfNegative(LessIfNegative(high, a, b), b, a) = ((Signed(a) * Signed(b)) \div W) % W
  BY <1>11, <1>12, <1>13, <1>14, <1>15
<1> QED BY <1>1, <1>2, <1>5, <1>10, <1>11, <1>16

\* The emulated instructions do what the instruction set defines.
LEMMA EmulationCorrect ==
  ASSUME NEW op \in MulDiv, NEW a \in 0 .. Mod - 1, NEW b \in 0 .. Mod - 1,
         op \in {"div", "divu"} => b # 0
  PROVE  EmulatedResult(op, a, b) = Defined(op, a, b)
<1>1. /\ Multiplication(a, b).mul = (a * b) % Mod
  BY MultiplicationCorrect
<1>2. PICK high : high = Multiplication(a, b).mulxuu OBVIOUS
<1>3. /\ high = ((a * b) \div Mod) % Mod
      /\ LessIfNegative(high, a, b) = ((Signed(a) * b) \div Mod) % Mod
      /\ LessIfNegative(LessIfNegative(high, a, b), b, a) =
           ((Signed(a) * Signed(b)) \div Mod) % Mod
  BY <1>2, SignedProducts
<1>4. CASE op \in {"mul", "muli"} BY <1>1, <1>4, Zenon DEF EmulatedResult, Defined
<1>5. CASE op = "mulxuu" BY <1>2, <1>3, <1>5 DEF EmulatedResult, Defined
<1>6. CASE op = "mulxsu" BY <1>2, <1>3, <1>6 DEF EmulatedResult, Defined
<1>7. CASE op = "mulxss" BY <1>2, <1>3, <1>7 DEF EmulatedResult, Defined
<1>8. CASE op = "divu"
  <2>1. b \in 1 .. Mod - 1 /\ b \in Nat \ {0} /\ a \in Nat BY <1>8, Powers
  <2>2. UnsignedDivision(a, b) = a \div b BY <2>1, UnsignedDivisionCorrect
  <2>3. PICK W \in Nat \ {0} : W = Mod BY Powers
  <2>4. PICK q \in 0 .. a : q = a \div b BY <2>1, QuotientFits
  <2>5. q \in 0 .. W - 1 BY <2>1, <2>3, <2>4
  <2>6. q % W = q BY <2>5
  <2>7. EmulatedResult(op, a, b) = UnsignedDivision(a, b) BY <1>8 DEF EmulatedResult
  <2>8. Defined(op, a, b) = (a \div b) % Mod BY <1>8 DEF Defined
  <2> QED BY <2>2, <2>3, <2>4, <2>6, <2>7, <2>8
<1>9. CASE op = "div"
  <2>1. b \in 1 .. Mod - 1 BY <1>9, Powers
  <2>2. SignedDivision(a, b) = Quotient(a, b) % Mod BY <2>1, SignedDivisionCorrect
  <2>3. EmulatedResult(op, a, b) = SignedDivision(a, b) BY <1>9 DEF EmulatedResult
  <2>4. Defined(op, a, b) = Quotient(a, b) % Mod BY <1>9 DEF Defined
  <2> QED BY <2>2, <2>3, <2>4
<1> QED BY <1>4, <1>5, <1>6, <1>7, <1>8, <1>9 DEF MulDiv
-----------------------------------------------------------------------------
\* Whatever is divided by, the registers of a division are numbers of RegBits bits.
LEMMA DivisionFits ==
  ASSUME NEW a \in 0 .. Mod - 1, NEW b \in 0 .. Mod - 1
  PROVE  UnsignedDivision(a, b) \in 0 .. Mod - 1
<1> DEFINE N == RegBits
           d == Division(a, b)
<1>0. N \in Nat BY ExceptionAssumption
<1>1. /\ UnsignedDivision(a, b) = d[N].quotient
      /\ d[0] = DivisionStart(a, b)
      /\ \A k \in 0 .. N - 1 : d[k + 1] = DivideRound(d[k])
  BY DivisionUnfolds
<1>2. PICK M \in Nat \ {0} : Mod = 2 * M BY Powers
<1> DEFINE F == [remainder : 0 .. 2 * M - 1, quotient : 0 .. 2 * M - 1, divisor : 0 .. 2 * M - 1]
           S == {k \in 0 .. N : d[k] \in F}
<1> HIDE DEF d, N
<1>3. 0 \in S
  <2>1. a \in 0 .. 2 * M - 1 /\ b \in 0 .. 2 * M - 1 /\ 0 \in 0 .. 2 * M - 1 BY <1>2
  <2> QED BY <1>0, <1>1, <2>1 DEF DivisionStart
<1>4. ASSUME NEW k \in 0 .. N - 1, k \in S PROVE k + 1 \in S
  <2>1. d[k] \in F BY <1>4
  <2>2. PICK c \in 0 .. 2 * M - 1 : c = d[k].divisor BY <2>1
  <2> DEFINE r == d[k]
             rem == (2 * r.remainder + (IF Negative32(r.quotient) THEN 1 ELSE 0)) % Mod
             quo == (2 * r.quotient) % Mod
  <2>3. rem \in 0 .. 2 * M - 1 BY <1>2, <2>1
  <2>4. quo \in 0 .. 2 * M - 1 /\ quo + 1 \in 0 .. 2 * M - 1
    <3>1. PICK q \in 0 .. 2 * M - 1 : q = r.quotient BY <2>1
    <3>2. CASE q < M BY <1>2, <3>1, <3>2
    <3>3. CASE q >= M
      <4>1. PICK W \in Nat \ {0} : W = 2 * M OBVIOUS
      <4>2. 2 * q - W \in 0 .. W - 1 /\ 2 * q = W * 1 + (2 * q - W) BY <3>3, <4>1
      <4>3. (W * 1 + (2 * q - W)) % W = 2 * q - W BY <4>2, DivUnique, 1 \in Int
      <4>4. quo = 2 * q - 2 * M BY <1>2, <3>1, <4>1, <4>2, <4>3
      <4> QED BY <3>3, <4>4
    <3> QED BY <3>2, <3>3
  <2>5. DivideRound(r) = IF rem < r.divisor
                         THEN [r EXCEPT !.remainder = rem, !.quotient = quo]
                         ELSE [r EXCEPT !.remainder = rem - r.divisor, !.quotient = quo + 1]
    BY Zenon DEF DivideRound
  <2> HIDE DEF rem, quo
  <2>6. CASE rem < c
    <3>1. DivideRound(r) = [r EXCEPT !.remainder = rem, !.quotient = quo] BY <2>2, <2>5, <2>6
    <3>2. DivideRound(r) \in F BY <2>1, <2>3, <2>4, <3>1
    <3> QED BY <1>0, <1>1, <3>2
  <2>7. CASE ~(rem < c)
    <3>1. DivideRound(r) = [r EXCEPT !.remainder = rem - c, !.quotient = quo + 1]
      BY <2>2, <2>5, <2>7
    <3>2. rem - c \in 0 .. 2 * M - 1 BY <2>3, <2>7
    <3>3. DivideRound(r) \in F BY <2>1, <2>4, <3>1, <3>2
    <3> QED BY <1>0, <1>1, <3>3
  <2> QED BY <2>6, <2>7
<1> HIDE DEF S
<1>5. 0 .. N \subseteq S BY <1>0, <1>3, <1>4, InductionTo
<1>6. N \in S BY <1>0, <1>5
<1> QED BY <1>1, <1>2, <1>6 DEF S

LEMMA EmulationFits ==
  ASSUME NEW op \in MulDiv, NEW a \in 0 .. Mod - 1, NEW b \in 0 .. Mod - 1
  PROVE  EmulatedResult(op, a, b) \in 0 .. Mod - 1
<1>1. PICK W \in Nat \ {0} : W = Mod BY Powers
<1>2. PICK high : high = Multiplication(a, b).mulxuu OBVIOUS
<1>3. /\ high \in 0 .. W - 1
      /\ LessIfNegative(high, a, b) \in 0 .. W - 1
      /\ LessIfNegative(LessIfNegative(high, a, b), b, a) \in 0 .. W - 1
  <2>1. high \in 0 .. W - 1 BY <1>1, <1>2, SignedProducts
  <2>2. \A x \in 0 .. W - 1, y \in 0 .. W - 1, z \in 0 .. W - 1 :
          LessIfNegative(x, y, z) \in 0 .. W - 1
    BY <1>1 DEF LessIfNegative
  <2> QED BY <1>1, <2>1, <2>2
<1>4. CASE op \in {"mul", "muli"}
  <2>1. EmulatedResult(op, a, b) = (a * b) % W
    BY <1>1, <1>4, MultiplicationCorrect, Zenon DEF EmulatedResult
  <2>2. PICK ab \in Nat : ab = a * b BY <1>1
  <2> QED BY <1>1, <2>1, <2>2
<1>5. CASE op = "mulxuu" BY <1>1, <1>2, <1>3, <1>5 DEF EmulatedResult
<1>6. CASE op = "mulxsu" BY <1>1, <1>2, <1>3, <1>6 DEF EmulatedResult
<1>7. CASE op = "mulxss" BY <1>1, <1>2, <1>3, <1>7 DEF EmulatedResult
<1>8. CASE op = "divu" BY <1>8, DivisionFits DEF EmulatedResult
<1>9. CASE op = "div"
  <2>1. Absolute(a) \in 0 .. W - 1 /\ Absolute(b) \in 0 .. W - 1 BY <1>1, Signs
  <2>2. PICK q \in 0 .. W - 1 : q = UnsignedDivision(Absolute(a), Absolute(b))
    BY <1>1, <2>1, DivisionFits
  <2>3. Negated(q) \in 0 .. W - 1 BY <1>1 DEF Negated
  <2>4. SignedDivision(a, b) \in 0 .. W - 1 BY <2>2, <2>3 DEF SignedDivision
  <2> QED BY <1>1, <1>9, <2>4 DEF EmulatedResult
<1> QED BY <1>4, <1>5, <1>6, <1>7, <1>8, <1>9 DEF MulDiv

-----------------------------------------------------------------------------
(***************************************************************************)
(* Where everything the program must find again is on the way through the  *)
(* handler: Restored(r) is what Exit will load into r.                     *)
(***************************************************************************)
FoundOK ==
  /\ found \in [reg : [Registers -> 0 .. Mod - 1], PIE : {0, 1}] /\ found.reg[0] = 0
  /\ inst \in Instruction /\ (inst.op = "muli" => inst.B \in Writable)

Destination == IF inst.op = "muli" THEN inst.B ELSE inst.C
SecondOperand == IF inst.op = "muli" THEN inst.imm ELSE found.reg[inst.B]

\* v is what r may have afterwards.
Right(r, v) ==
  IF skipper = "emulation" /\ r = Destination
  THEN \/ inst.op \in {"div", "divu"} /\ SecondOperand = 0
       \/ v = Defined(inst.op, found.reg[inst.A], SecondOperand)
  ELSE v = found.reg[r]

Restored(r) ==
  CASE r \in 1 .. 15 -> frame[r + 1] [] r = ra -> frame[0] [] OTHER -> reg[r]

KeptByEntry == (16 .. 28 \ {sp}) \cup {30}

AtProgram ==
  place = "program" =>
    /\ status_PIE = found.PIE
    /\ pc = 0 <=> skipper = "nobody"
    /\ reg[0] = 0
    /\ \A r \in Registers \ {0, ea} : Right(r, reg[r])

InHandler ==
  place \in {"irqtest", "soft"} =>
    /\ skipper = "nobody"
    /\ frame[0] = found.reg[ra] /\ \A r \in 1 .. 15 : frame[r + 1] = found.reg[r]
    /\ frame[EstatusSlot] = found.PIE
    /\ frame[ReturnSlot] = IF place = "irqtest" THEN 0 ELSE 1
    /\ reg[0] = 0 /\ \A r \in KeptByEntry : reg[r] = found.reg[r]
    /\ reg[ea] = 1 /\ reg[sp] = (found.reg[sp] - 19) % Mod

AtExit ==
  place = "exit" =>
    /\ frame[EstatusSlot] = found.PIE
    /\ frame[ReturnSlot] = IF skipper = "nobody" THEN 0 ELSE 1
    /\ reg[0] = 0 /\ reg[sp] = (found.reg[sp] - 19) % Mod
    /\ \A r \in 1 .. 15 \cup KeptByEntry \cup {ra} : Right(r, Restored(r))

ExceptionInv == ExceptionTypeOK /\ FoundOK /\ AtProgram /\ InHandler /\ AtExit

LEMMA RightIsEffect ==
  ASSUME NEW r \in Registers
  PROVE  Right(r, reg[r]) <=>
           reg[r] = IF skipper = "emulation" THEN Effect(r) ELSE found.reg[r]
  BY DEF Right, Effect, Destination, SecondOperand

LEMMA Sizes ==
  Mod \in Nat \ {0} /\ 1 \in 0 .. Mod - 1 /\ 0 \in 0 .. Mod - 1 /\ Junk \in 0 .. Mod - 1
<1>1. PICK M \in Nat \ {0} : Mod = 2 * M BY Powers
<1> QED BY <1>1 DEF Junk

\* Slots of the registers an instruction may name.
LEMMA Slots ==
  /\ Slot(0) = 1 /\ Slot(gp) = -5 /\ Slot(fp) = -3 /\ Slot(ra) = 0
  /\ \A r \in 1 .. 15 : Slot(r) = r + 1
  /\ \A r \in 16 .. 23 : Slot(r) = r - 31
  BY DEF Slot, gp, fp, ra

LEMMA ExceptionInitInv == ASSUME ExceptionInit PROVE ExceptionInv
<1>1. PICK c \in Cases : inst = c.inst /\ reg = c.reg BY DEF ExceptionInit
<1>2. /\ inst \in Instruction /\ (inst.op = "muli" => inst.B \in Writable)
      /\ reg \in [Registers -> 0 .. Mod - 1] /\ reg[0] = 0
  BY <1>1, ExceptionAssumption
<1>3. found = [reg |-> reg, PIE |-> 0] /\ status_PIE = 0 /\ pc = 0 /\ skipper = "nobody"
      /\ place = "program" /\ frame = NoFrame
      /\ option \in Options /\ registered \in BOOLEAN /\ pending \in BOOLEAN
  BY DEF ExceptionInit
<1>4. FoundOK BY <1>2, <1>3 DEF FoundOK
<1>5. ExceptionTypeOK BY <1>2, <1>3, Sizes DEF ExceptionTypeOK, NoFrame
<1>6. AtProgram BY <1>2, <1>3 DEF AtProgram, Right
<1> QED BY <1>3, <1>4, <1>5, <1>6 DEF ExceptionInv, InHandler, AtExit

LEMMA NextInstructionInv == ASSUME ExceptionInv, NextInstruction PROVE ExceptionInv'
<1>1. /\ place = "program" /\ place' = "program"
      /\ pc' = 0 /\ skipper' = "nobody" /\ reg' = found.reg
      /\ status_PIE' \in {0, 1} /\ found' = [found EXCEPT !.PIE = status_PIE']
      /\ option' = option /\ registered' = registered /\ inst' = inst
      /\ pending' = pending /\ frame' = frame
  BY DEF NextInstruction
<1>2. ExceptionTypeOK /\ FoundOK BY DEF ExceptionInv
<1>3. found'.reg = found.reg /\ found'.PIE = status_PIE' /\ FoundOK'
  BY <1>1, <1>2 DEF FoundOK
<1>4. ExceptionTypeOK' BY <1>1, <1>2 DEF ExceptionTypeOK, FoundOK
<1>5. AtProgram' BY <1>1, <1>2, <1>3 DEF AtProgram, Right, FoundOK
<1> QED BY <1>1, <1>3, <1>4, <1>5 DEF ExceptionInv, InHandler, AtExit

LEMMA RegisterInv ==
  ASSUME ExceptionInv,
         alt_instruction_exception_register \/ DeviceRequest \/ UNCHANGED exceptionVars
  PROVE  ExceptionInv'
<1>1. /\ place' = place /\ pc' = pc /\ skipper' = skipper /\ reg' = reg
      /\ status_PIE' = status_PIE /\ found' = found /\ option' = option
      /\ inst' = inst /\ frame' = frame
      /\ registered' \in BOOLEAN /\ pending' \in BOOLEAN
  BY DEF ExceptionInv, ExceptionTypeOK, alt_instruction_exception_register, DeviceRequest,
     exceptionVars
<1>2. ExceptionTypeOK' BY <1>1 DEF ExceptionInv, ExceptionTypeOK
<1>3. FoundOK' BY <1>1 DEF ExceptionInv, FoundOK
<1>4. \A r, v : Right(r, v)' = Right(r, v) /\ Restored(r)' = Restored(r)
  BY <1>1, Zenon DEF Right, Restored, Destination, SecondOperand
<1>5. AtProgram' BY <1>1, <1>4 DEF ExceptionInv, AtProgram
<1>6. InHandler' BY <1>1 DEF ExceptionInv, InHandler
<1>7. AtExit' BY <1>1, <1>4 DEF ExceptionInv, AtExit
<1> QED BY <1>2, <1>3, <1>5, <1>6, <1>7 DEF ExceptionInv
-----------------------------------------------------------------------------
LEMMA ExceptionStepInv == ASSUME ExceptionInv, Exception PROVE ExceptionInv'
<1>1. /\ place = "program" /\ pc = 0 /\ place' = "irqtest" /\ status_PIE' = 0
      /\ frame' = Saved
      /\ option' = option /\ registered' = registered /\ inst' = inst /\ pc' = pc
      /\ pending' = pending /\ found' = found /\ skipper' = skipper
  BY DEF Exception
<1>2. reg' = [r \in Registers |->
                CASE r \in CallerSaved -> Junk
                  [] r = ea -> 1
                  [] r = sp -> (reg[sp] - 19) % Mod
                  [] OTHER -> reg[r]]
  BY DEF Exception
<1>3. ExceptionTypeOK /\ FoundOK /\ AtProgram BY DEF ExceptionInv
<1>4. PICK W \in Nat \ {0} : W = Mod BY Sizes
<1>5. /\ skipper = "nobody" /\ status_PIE = found.PIE /\ reg[0] = 0
      /\ \A r \in Registers \ {0, ea} : reg[r] = found.reg[r]
  BY <1>1, <1>3 DEF AtProgram, Right
<1>6. (reg[sp] - 19) % Mod \in 0 .. Mod - 1
  <2>1. reg[sp] \in 0 .. W - 1 BY <1>3, <1>4 DEF ExceptionTypeOK, Registers, sp
  <2>2. (reg[sp] - 19) % W \in 0 .. W - 1 BY <2>1
  <2> QED BY <1>4, <2>2
<1>7. reg' \in [Registers -> 0 .. Mod - 1]
  <2>1. \A r \in Registers : reg[r] \in 0 .. Mod - 1 BY <1>3 DEF ExceptionTypeOK
  <2> QED BY <1>2, <1>6, <2>1, Sizes
<1>8. frame' \in [FrameSlots -> 0 .. Mod - 1]
  <2>1. \A r \in Registers : reg[r] \in 0 .. Mod - 1 BY <1>3 DEF ExceptionTypeOK
  <2>2. \A s \in FrameSlots : frame[s] \in 0 .. Mod - 1 BY <1>3 DEF ExceptionTypeOK
  <2>3. status_PIE \in 0 .. Mod - 1 BY <1>3, Sizes DEF ExceptionTypeOK
  <2>4. reg[ra] \in 0 .. Mod - 1 BY <2>1 DEF Registers, ra
  <2>5. \A s \in 2 .. 16 : reg[s - 1] \in 0 .. Mod - 1 BY <2>1 DEF Registers
  <2> QED BY <1>1, <2>2, <2>3, <2>4, <2>5, Sizes DEF Saved
<1>9. /\ frame'[0] = reg[ra] /\ \A r \in 1 .. 15 : frame'[r + 1] = reg[r]
      /\ frame'[EstatusSlot] = status_PIE /\ frame'[ReturnSlot] = 0
  <2>1. frame'[0] = reg[ra] /\ frame'[EstatusSlot] = status_PIE /\ frame'[ReturnSlot] = 0
    BY <1>1 DEF Saved, FrameSlots, EstatusSlot, ReturnSlot
  <2>2. ASSUME NEW r \in 1 .. 15 PROVE frame'[r + 1] = reg[r]
    <3>1. PICK s \in 2 .. 16 : s = r + 1 OBVIOUS
    <3>2. s - 1 = r /\ s \in FrameSlots /\ s # 0 BY <3>1 DEF FrameSlots, ReturnSlot
    <3>3. frame'[s] = reg[s - 1] BY <1>1, <3>2 DEF Saved, EstatusSlot, ReturnSlot
    <3> QED BY <3>1, <3>2, <3>3
  <2> QED BY <2>1, <2>2
<1>10. /\ reg'[0] = reg[0] /\ reg'[ea] = 1 /\ reg'[sp] = (reg[sp] - 19) % Mod
       /\ \A r \in KeptByEntry : reg'[r] = reg[r]
  BY <1>2 DEF KeptByEntry, Registers, CallerSaved, ea, sp, ra
<1>11. /\ reg[ra] = found.reg[ra] /\ reg[sp] = found.reg[sp]
       /\ \A r \in 1 .. 15 \cup KeptByEntry : reg[r] = found.reg[r]
  BY <1>5 DEF KeptByEntry, Registers, ra, sp, ea
<1>12. ExceptionTypeOK' BY <1>1, <1>3, <1>7, <1>8 DEF ExceptionTypeOK
<1>13. FoundOK' BY <1>1, <1>3 DEF FoundOK
<1>14. InHandler'
  <2>1. /\ frame'[0] = found'.reg[ra] /\ \A r \in 1 .. 15 : frame'[r + 1] = found'.reg[r]
        /\ frame'[EstatusSlot] = found'.PIE /\ frame'[ReturnSlot] = 0
    BY <1>1, <1>5, <1>9, <1>11
  <2>2. /\ reg'[0] = 0 /\ \A r \in KeptByEntry : reg'[r] = found'.reg[r]
        /\ reg'[ea] = 1 /\ reg'[sp] = (found'.reg[sp] - 19) % Mod
    BY <1>1, <1>5, <1>10, <1>11
  <2> QED BY <1>1, <1>5, <2>1, <2>2 DEF InHandler
<1> QED BY <1>1, <1>12, <1>13, <1>14 DEF ExceptionInv, AtProgram, AtExit

\* What the handler finds can be restored as it is.
LEMMA RestoresFound ==
  ASSUME ExceptionInv, place \in {"irqtest", "soft"}
  PROVE  \A r \in 1 .. 15 \cup KeptByEntry \cup {ra} : Restored(r) = found.reg[r]
  BY DEF ExceptionInv, InHandler, Restored, KeptByEntry, ra, sp

LEMMA IrqInv == ASSUME ExceptionInv, Irq PROVE ExceptionInv'
<1>1. /\ place = "irqtest" /\ place' = "exit" /\ reg' = [reg EXCEPT ![ea] = Junk]
      /\ pending' = FALSE
      /\ option' = option /\ registered' = registered /\ inst' = inst /\ status_PIE' = status_PIE
      /\ pc' = pc /\ frame' = frame /\ found' = found /\ skipper' = skipper
  BY DEF Irq
<1>2. ExceptionTypeOK /\ FoundOK /\ InHandler BY DEF ExceptionInv
<1>3. ExceptionTypeOK' BY <1>1, <1>2, Sizes DEF ExceptionTypeOK, Registers, ea
<1>4. FoundOK' BY <1>1, <1>2 DEF FoundOK
<1>5. \A r \in Registers \ {ea} : reg'[r] = reg[r] BY <1>1, <1>2 DEF ExceptionTypeOK
<1>6. \A r \in 1 .. 15 \cup KeptByEntry \cup {ra} : Restored(r)' = Restored(r)
  BY <1>1, <1>5 DEF Restored, KeptByEntry, Registers, ea, ra
<1>7. \A r \in 1 .. 15 \cup KeptByEntry \cup {ra} : Restored(r)' = found'.reg[r]
  BY <1>1, <1>6, RestoresFound
<1>8. skipper = "nobody" BY <1>1, <1>2 DEF InHandler
<1>9. \A r \in 1 .. 15 \cup KeptByEntry \cup {ra} : Right(r, Restored(r))'
  BY <1>1, <1>7, <1>8 DEF Right
<1>10. reg'[0] = reg[0] /\ reg'[sp] = reg[sp] BY <1>5 DEF Registers, sp, ea
<1>11. AtExit' BY <1>1, <1>2, <1>9, <1>10 DEF AtExit, InHandler
<1> QED BY <1>1, <1>3, <1>4, <1>11 DEF ExceptionInv, AtProgram, InHandler

LEMMA NotIrqInv == ASSUME ExceptionInv, NotIrq PROVE ExceptionInv'
<1>1. /\ place = "irqtest" /\ place' = "soft"
      /\ frame' = [frame EXCEPT ![ReturnSlot] = reg[ea]]
      /\ option' = option /\ registered' = registered /\ inst' = inst /\ reg' = reg
      /\ status_PIE' = status_PIE
      /\ pc' = pc /\ pending' = pending /\ found' = found /\ skipper' = skipper
  BY DEF NotIrq
<1>2. ExceptionTypeOK /\ FoundOK /\ InHandler BY DEF ExceptionInv
<1>0. reg[ea] \in 0 .. Mod - 1 BY <1>2 DEF ExceptionTypeOK, Registers, ea
<1>a. frame' \in [FrameSlots -> 0 .. Mod - 1] BY <1>0, <1>1, <1>2 DEF ExceptionTypeOK
<1>3. ExceptionTypeOK' BY <1>1, <1>2, <1>a DEF ExceptionTypeOK
<1>4. FoundOK' BY <1>1, <1>2 DEF FoundOK
<1>5. \A s \in FrameSlots \ {ReturnSlot} : frame'[s] = frame[s] BY <1>1, <1>2 DEF ExceptionTypeOK
<1>6. frame'[ReturnSlot] = reg[ea] BY <1>1, <1>2 DEF ExceptionTypeOK, FrameSlots, ReturnSlot
<1>7. /\ frame'[0] = frame[0] /\ frame'[EstatusSlot] = frame[EstatusSlot]
      /\ \A r \in 1 .. 15 : frame'[r + 1] = frame[r + 1]
  BY <1>5 DEF FrameSlots, ReturnSlot, EstatusSlot
<1>8. InHandler' BY <1>1, <1>2, <1>6, <1>7 DEF InHandler
<1> QED BY <1>1, <1>3, <1>4, <1>8 DEF ExceptionInv, AtProgram, AtExit

LEMMA NotEmulatedInv ==
  ASSUME ExceptionInv, Trap \/ UnknownBreaks \/ UnknownAsked
  PROVE  ExceptionInv'
<1>1. /\ place = "soft" /\ place' = "exit"
      /\ option' = option /\ registered' = registered /\ inst' = inst /\ reg' = reg
      /\ status_PIE' = status_PIE
      /\ pc' = pc /\ pending' = pending /\ found' = found
  BY DEF Trap, UnknownBreaks, UnknownAsked, Unknown
<1>2. ExceptionTypeOK /\ FoundOK /\ InHandler BY DEF ExceptionInv
<1>3. \/ frame' = frame /\ skipper' \in {"debugger", "handler"}
      \/ frame' = [frame EXCEPT ![ReturnSlot] = reg[ea] - 1] /\ skipper' = "nobody"
  BY <1>1, <1>2 DEF Trap, UnknownBreaks, UnknownAsked, Unknown, InHandler
<1>4. frame[ReturnSlot] = 1 /\ reg[ea] = 1 BY <1>1, <1>2 DEF InHandler
<1>5. /\ \A s \in FrameSlots \ {ReturnSlot} : frame'[s] = frame[s]
      /\ frame'[ReturnSlot] = IF skipper' = "nobody" THEN 0 ELSE 1
  BY <1>2, <1>3, <1>4 DEF ExceptionTypeOK, FrameSlots, ReturnSlot
<1>6. frame' \in [FrameSlots -> 0 .. Mod - 1] BY <1>2, <1>3, <1>4, Sizes DEF ExceptionTypeOK
<1>7. ExceptionTypeOK' BY <1>1, <1>2, <1>3, <1>6 DEF ExceptionTypeOK
<1>8. FoundOK' BY <1>1, <1>2 DEF FoundOK
<1>9. /\ frame'[0] = frame[0] /\ frame'[EstatusSlot] = frame[EstatusSlot]
      /\ \A r \in 1 .. 15 : frame'[r + 1] = frame[r + 1]
  BY <1>5 DEF FrameSlots, ReturnSlot, EstatusSlot
<1>10. \A r \in 1 .. 15 \cup KeptByEntry \cup {ra} : Restored(r)' = Restored(r)
  BY <1>1, <1>9 DEF Restored, KeptByEntry, ra
<1>11. \A r \in 1 .. 15 \cup KeptByEntry \cup {ra} : Restored(r)' = found'.reg[r]
  BY <1>1, <1>10, RestoresFound
<1>12. \A r \in 1 .. 15 \cup KeptByEntry \cup {ra} : Right(r, Restored(r))'
  BY <1>3, <1>11 DEF Right
<1>13. AtExit' BY <1>1, <1>2, <1>5, <1>9, <1>12 DEF AtExit, InHandler
<1> QED BY <1>1, <1>7, <1>8, <1>13 DEF ExceptionInv, AtProgram, InHandler

\* The frame holds what every register an instruction may name had.
LEMMA StoredIsFound ==
  ASSUME ExceptionInv, place = "soft"
  PROVE  /\ SavedByMulDiv \in [FrameSlots -> 0 .. Mod - 1]
         /\ \A r \in Readable \cup Writable : SavedByMulDiv[Slot(r)] = found.reg[r]
         /\ SavedByMulDiv[EstatusSlot] = frame[EstatusSlot]
         /\ SavedByMulDiv[ReturnSlot] = frame[ReturnSlot]
         /\ SavedByMulDiv[0] = frame[0] /\ \A s \in 2 .. 16 : SavedByMulDiv[s] = frame[s]
<1>1. ExceptionTypeOK /\ FoundOK /\ InHandler BY DEF ExceptionInv
<1> DEFINE stored == SavedByMulDiv
<1>2. \A r \in Registers : reg[r] \in 0 .. Mod - 1 BY <1>1 DEF ExceptionTypeOK
<1>3. \A s \in FrameSlots : frame[s] \in 0 .. Mod - 1 BY <1>1 DEF ExceptionTypeOK
<1>4. (reg[sp] - 15) % Mod \in 0 .. Mod - 1
  <2>1. PICK W \in Nat \ {0} : W = Mod BY Sizes
  <2>2. PICK x \in Int : x = reg[sp] BY <1>2, <2>1 DEF Registers, sp
  <2>3. (x - 15) % W \in 0 .. W - 1 OBVIOUS
  <2> QED BY <2>1, <2>2, <2>3
<1>5. \A s \in -15 .. -8 : reg[s + 31] \in 0 .. Mod - 1 BY <1>2 DEF Registers
<1>6. stored \in [FrameSlots -> 0 .. Mod - 1]
  BY <1>2, <1>3, <1>4, <1>5, Sizes DEF SavedByMulDiv, Registers, gp, fp
<1>7. /\ stored[1] = 0 /\ stored[-5] = reg[gp] /\ stored[-3] = reg[fp] /\ stored[0] = frame[0]
      /\ stored[EstatusSlot] = frame[EstatusSlot] /\ stored[ReturnSlot] = frame[ReturnSlot]
  BY DEF SavedByMulDiv, FrameSlots, EstatusSlot, ReturnSlot
<1>8. \A s \in 2 .. 16 : stored[s] = frame[s] BY DEF SavedByMulDiv, FrameSlots, ReturnSlot
<1>9. \A r \in 16 .. 23 : stored[r - 31] = reg[r]
  <2> TAKE r \in 16 .. 23
  <2>1. r - 31 \in -15 .. -8 /\ r - 31 \in FrameSlots /\ (r - 31) + 31 = r /\ r - 31 # 1
    BY DEF FrameSlots, ReturnSlot
  <2> QED BY <2>1 DEF SavedByMulDiv
<1> HIDE DEF stored
<1>10. /\ found.reg[0] = 0 /\ frame[0] = found.reg[ra]
       /\ \A r \in 1 .. 15 : frame[r + 1] = found.reg[r]
       /\ \A r \in 16 .. 23 : reg[r] = found.reg[r]
       /\ reg[gp] = found.reg[gp] /\ reg[fp] = found.reg[fp]
  BY <1>1 DEF FoundOK, InHandler, KeptByEntry, gp, fp, sp
<1>11. ASSUME NEW r \in Readable \cup Writable PROVE stored[Slot(r)] = found.reg[r]
  <2>1. r = 0 \/ r \in 1 .. 15 \/ r \in 16 .. 23 \/ r = gp \/ r = fp \/ r = ra
    BY DEF Readable, Writable
  <2>2. CASE r = 0 BY <1>7, <1>10, <2>2, Slots
  <2>3. CASE r \in 1 .. 15
    <3>1. r + 1 \in 2 .. 16 BY <2>3
    <3> QED BY <1>8, <1>10, <2>3, <3>1, Slots
  <2>4. CASE r \in 16 .. 23 BY <1>9, <1>10, <2>4, Slots
  <2>5. CASE r = gp BY <1>7, <1>10, <2>5, Slots
  <2>6. CASE r = fp BY <1>7, <1>10, <2>6, Slots
  <2>7. CASE r = ra BY <1>7, <1>10, <2>7, Slots
  <2> QED BY <2>1, <2>2, <2>3, <2>4, <2>5, <2>6, <2>7
<1> QED BY <1>6, <1>7, <1>8, <1>11 DEF stored

\* No two registers share a slot.
LEMMA SlotsApart ==
  ASSUME NEW d \in Writable
  PROVE  /\ Slot(d) \in FrameSlots /\ Slot(d) # EstatusSlot /\ Slot(d) # ReturnSlot
         /\ \A r \in 1 .. 23 \cup {fp, ra} : Slot(r) \in FrameSlots /\ (Slot(r) = Slot(d) <=> r = d)
  BY DEF Slot, Writable, FrameSlots, EstatusSlot, ReturnSlot, fp, ra

LEMMA EmulateInv == ASSUME ExceptionInv, Emulate PROVE ExceptionInv'
<1> DEFINE a == found.reg[inst.A]
           b == SecondOperand
           d == Destination
           result == EmulatedResult(inst.op, a, b)
<1>1. /\ place = "soft" /\ place' = "exit" /\ inst.op \in MulDiv /\ skipper' = "emulation"
      /\ option' = option /\ registered' = registered /\ inst' = inst /\ status_PIE' = status_PIE
      /\ pc' = pc /\ pending' = pending /\ found' = found
  BY DEF Emulate, Emulates
<1>2. ExceptionTypeOK /\ FoundOK /\ InHandler BY DEF ExceptionInv
<1>3. /\ inst.A \in Readable /\ inst.B \in Readable /\ inst.C \in Writable
      /\ inst.imm \in 0 .. Mod - 1 /\ (inst.op = "muli" => inst.B \in Writable)
  BY <1>2 DEF FoundOK, Instruction
<1>4. d \in Writable BY <1>3 DEF Destination
<1>5. a \in 0 .. Mod - 1 /\ b \in 0 .. Mod - 1
  <2>1. Readable \subseteq Registers BY DEF Readable, Registers, gp, fp, ra
  <2> QED BY <1>2, <1>3, <2>1 DEF FoundOK, SecondOperand
<1> DEFINE stored == SavedByMulDiv
<1>6. /\ stored \in [FrameSlots -> 0 .. Mod - 1]
      /\ \A r \in Readable \cup Writable : stored[Slot(r)] = found.reg[r]
      /\ stored[EstatusSlot] = frame[EstatusSlot] /\ stored[ReturnSlot] = frame[ReturnSlot]
      /\ stored[0] = frame[0] /\ \A s \in 2 .. 16 : stored[s] = frame[s]
  BY <1>1, StoredIsFound
<1>7. frame' = [stored EXCEPT ![Slot(d)] = result]
  <2>1. stored[Slot(inst.A)] = a BY <1>3, <1>6
  <2>2. (IF inst.op = "muli" THEN inst.imm ELSE stored[Slot(inst.B)]) = b
    BY <1>3, <1>6 DEF SecondOperand
  <2>3. frame' = [stored EXCEPT ![Slot(IF inst.op = "muli" THEN inst.B ELSE inst.C)] =
                    EmulatedResult(inst.op, stored[Slot(inst.A)],
                      IF inst.op = "muli" THEN inst.imm ELSE stored[Slot(inst.B)])]
    BY DEF Emulate
  <2> HIDE DEF stored
  <2> QED BY <2>1, <2>2, <2>3 DEF Destination
<1>8. reg' = [r \in Registers |->
                CASE r \in 16 .. 23 -> frame'[r - 31]
                  [] r = fp -> frame'[-3]
                  [] OTHER -> reg[r]]
  BY DEF Emulate
<1>9. result \in 0 .. Mod - 1 BY <1>1, <1>5, EmulationFits
<1>10. \/ inst.op \in {"div", "divu"} /\ b = 0
       \/ result = Defined(inst.op, a, b)
  BY <1>1, <1>5, EmulationCorrect
<1> HIDE DEF a, b, d, result, stored
<1>11. frame' \in [FrameSlots -> 0 .. Mod - 1] BY <1>6, <1>7, <1>9
<1>12. /\ Slot(d) \in FrameSlots /\ Slot(d) # EstatusSlot /\ Slot(d) # ReturnSlot
       /\ \A r \in 1 .. 23 \cup {fp, ra} : Slot(r) \in FrameSlots /\ (Slot(r) = Slot(d) <=> r = d)
  BY <1>4, SlotsApart
<1>13. \A r \in 1 .. 23 \cup {fp, ra} :
         frame'[Slot(r)] = IF r = d THEN result ELSE found.reg[r]
  <2> TAKE r \in 1 .. 23 \cup {fp, ra}
  <2>1. r \in Writable BY DEF Writable
  <2>2. stored[Slot(r)] = found.reg[r] BY <1>6, <2>1
  <2> QED BY <1>6, <1>7, <1>12, <2>2
<1>14. frame'[EstatusSlot] = frame[EstatusSlot] /\ frame'[ReturnSlot] = frame[ReturnSlot]
  <2>1. EstatusSlot \in FrameSlots /\ ReturnSlot \in FrameSlots
    BY DEF FrameSlots, EstatusSlot, ReturnSlot
  <2> QED BY <1>6, <1>7, <1>12, <2>1
<1>15. reg' \in [Registers -> 0 .. Mod - 1]
  <2>1. \A s \in FrameSlots : frame'[s] \in 0 .. Mod - 1 BY <1>11
  <2>2. -3 \in FrameSlots /\ \A r \in 16 .. 23 : r - 31 \in FrameSlots BY DEF FrameSlots, ReturnSlot
  <2>3. frame'[-3] \in 0 .. Mod - 1 /\ \A r \in 16 .. 23 : frame'[r - 31] \in 0 .. Mod - 1
    BY <2>1, <2>2
  <2>4. \A r \in Registers : reg[r] \in 0 .. Mod - 1 BY <1>2 DEF ExceptionTypeOK
  <2> QED BY <1>8, <2>3, <2>4
<1>16. /\ reg'[0] = reg[0] /\ reg'[sp] = reg[sp]
       /\ \A r \in 16 .. 23 : reg'[r] = frame'[Slot(r)]
       /\ reg'[fp] = frame'[Slot(fp)]
       /\ \A r \in {24, 25, gp, 30} : reg'[r] = reg[r]
  BY <1>8, Slots DEF Registers, sp, fp, gp
<1>17. ASSUME NEW r \in 1 .. 15 \cup KeptByEntry \cup {ra}
       PROVE  Restored(r)' = IF r = d THEN result ELSE found.reg[r]
  <2>1. \/ r \in 1 .. 15 \/ r \in 16 .. 23 \/ r = fp \/ r = ra \/ r \in {24, 25, gp, 30}
    BY DEF KeptByEntry, sp, fp, ra, gp
  <2>2. CASE r \in 1 .. 15
    <3>1. Restored(r)' = frame'[r + 1] BY <2>2 DEF Restored, ra
    <3>2. Slot(r) = r + 1 /\ r \in 1 .. 23 \cup {fp, ra} BY <2>2, Slots
    <3> QED BY <1>13, <3>1, <3>2
  <2>3. CASE r \in 16 .. 23
    <3>1. Restored(r)' = reg'[r] BY <2>3 DEF Restored, ra
    <3>2. r \in 1 .. 23 \cup {fp, ra} BY <2>3
    <3> QED BY <1>13, <1>16, <2>3, <3>1, <3>2
  <2>4. CASE r = fp
    <3>1. Restored(r)' = reg'[r] BY <2>4 DEF Restored, ra, fp
    <3> QED BY <1>13, <1>16, <2>4, <3>1
  <2>5. CASE r = ra
    <3>1. Restored(r)' = frame'[0] BY <2>5 DEF Restored, ra
    <3> QED BY <1>13, <2>5, <3>1, Slots
  <2>6. CASE r \in {24, 25, gp, 30}
    <3>1. Restored(r)' = reg'[r] BY <2>6 DEF Restored, ra, gp
    <3>2. r # d BY <1>4, <2>6 DEF Writable, gp, fp, ra
    <3>3. reg[r] = found.reg[r] BY <1>1, <1>2, <2>6 DEF InHandler, KeptByEntry, gp, sp
    <3> QED BY <1>16, <2>6, <3>1, <3>2, <3>3
  <2> QED BY <2>1, <2>2, <2>3, <2>4, <2>5, <2>6
<1>18. Destination' = d /\ SecondOperand' = b BY <1>1 DEF Destination, SecondOperand, d, b
<1>19. ASSUME NEW r \in 1 .. 15 \cup KeptByEntry \cup {ra} PROVE Right(r, Restored(r))'
  <2> DEFINE v == Restored(r)'
  <2>1. v = IF r = d THEN result ELSE found.reg[r] BY <1>17
  <2> HIDE DEF v
  <2>2. IF skipper' = "emulation" /\ r = Destination'
        THEN \/ inst'.op \in {"div", "divu"} /\ SecondOperand' = 0
             \/ v = Defined(inst'.op, found'.reg[inst'.A], SecondOperand')
        ELSE v = found'.reg[r]
    BY <1>1, <1>10, <1>18, <2>1 DEF a
  <2> QED BY <2>2, Zenon DEF v, Right
<1>20. ExceptionTypeOK' BY <1>1, <1>2, <1>11, <1>15 DEF ExceptionTypeOK
<1>21. FoundOK' BY <1>1, <1>2 DEF FoundOK
<1>22. AtExit'
  <2>1. /\ frame[EstatusSlot] = found.PIE /\ frame[ReturnSlot] = 1
        /\ reg[0] = 0 /\ reg[sp] = (found.reg[sp] - 19) % Mod
    BY <1>1, <1>2 DEF InHandler
  <2> QED BY <1>1, <1>14, <1>16, <1>19, <2>1 DEF AtExit
<1> QED BY <1>1, <1>20, <1>21, <1>22 DEF ExceptionInv, AtProgram, InHandler

LEMMA ExitInv == ASSUME ExceptionInv, Exit PROVE ExceptionInv'
<1>1. /\ place = "exit" /\ place' = "program"
      /\ status_PIE' = frame[EstatusSlot] /\ pc' = frame[ReturnSlot] /\ frame' = NoFrame
      /\ option' = option /\ registered' = registered /\ inst' = inst /\ pending' = pending
      /\ found' = found /\ skipper' = skipper
  BY DEF Exit
<1>2. reg' = [r \in Registers |->
                CASE r \in 1 .. 15 -> frame[r + 1]
                  [] r = ra -> frame[0]
                  [] r = ea -> frame[ReturnSlot]
                  [] r = sp -> (reg[sp] + 19) % Mod
                  [] OTHER -> reg[r]]
  BY DEF Exit
<1>3. ExceptionTypeOK /\ FoundOK /\ AtExit BY DEF ExceptionInv
<1>4. PICK W \in Nat \ {0} : W = Mod BY Sizes
<1>5. PICK x \in 0 .. W - 1 : x = found.reg[sp]
  BY <1>3, <1>4 DEF FoundOK, Registers, sp
<1>6. (reg[sp] + 19) % Mod = found.reg[sp]
  <2>1. PICK y \in 0 .. W - 1, k \in Int : y = (x - 19) % W /\ x - 19 = W * k + y
    <3>1. PICK z \in Int : z = x - 19 OBVIOUS
    <3>2. z % W \in 0 .. W - 1 /\ z \div W \in Int /\ z = W * (z \div W) + (z % W) OBVIOUS
    <3> QED BY <3>1, <3>2
  <2>2. reg[sp] = y BY <1>1, <1>3, <1>4, <1>5, <2>1 DEF AtExit
  <2>3. y + 19 = x + W * (-k)
    <3>1. W * (-k) = -(W * k) OBVIOUS
    <3> QED BY <2>1, <3>1
  <2>4. (x + W * (-k)) % W = x % W BY ModShift, x \in Int, -k \in Int
  <2>5. x % W = x OBVIOUS
  <2> QED BY <1>4, <1>5, <2>2, <2>3, <2>4, <2>5
<1>7. \A r \in Registers : reg[r] \in 0 .. Mod - 1 BY <1>3 DEF ExceptionTypeOK
<1>8. \A s \in FrameSlots : frame[s] \in 0 .. Mod - 1 BY <1>3 DEF ExceptionTypeOK
<1>9. reg' \in [Registers -> 0 .. Mod - 1]
  <2>1. /\ frame[0] \in 0 .. Mod - 1 /\ frame[ReturnSlot] \in 0 .. Mod - 1
        /\ \A r \in 1 .. 15 : frame[r + 1] \in 0 .. Mod - 1
    BY <1>8 DEF FrameSlots, ReturnSlot
  <2>2. (reg[sp] + 19) % Mod \in 0 .. Mod - 1 BY <1>4, <1>5, <1>6
  <2> QED BY <1>2, <1>7, <2>1, <2>2
<1>10. status_PIE' \in {0, 1} /\ status_PIE' = found'.PIE BY <1>1, <1>3 DEF AtExit, FoundOK
<1>11. pc' \in {0, 1} /\ (pc' = 0 <=> skipper' = "nobody") BY <1>1, <1>3 DEF AtExit
<1>12. frame' \in [FrameSlots -> 0 .. Mod - 1] BY <1>1, Sizes DEF NoFrame
<1>13. ExceptionTypeOK' BY <1>1, <1>3, <1>9, <1>10, <1>11, <1>12 DEF ExceptionTypeOK
<1>14. FoundOK' BY <1>1, <1>3 DEF FoundOK
<1>15. reg'[0] = 0 BY <1>1, <1>2, <1>3 DEF AtExit, Registers, ra, ea, sp
<1>16. \A r, v : Right(r, v)' = Right(r, v)
  BY <1>1, Zenon DEF Right, Destination, SecondOperand
<1>17. ASSUME NEW r \in Registers \ {0, ea} PROVE Right(r, reg[r])'
  <2>1. CASE r = sp
    <3>1. reg'[r] = found.reg[r] BY <1>2, <1>6, <2>1 DEF Registers, sp, ra, ea
    <3>2. Destination # sp BY <1>3 DEF FoundOK, Instruction, Destination, Writable, sp, fp, ra
    <3>3. Right(r, reg'[r]) BY <2>1, <3>1, <3>2 DEF Right
    <3> QED BY <1>16, <3>3
  <2>2. CASE r # sp
    <3>1. r \in 1 .. 15 \cup KeptByEntry \cup {ra} BY <2>2 DEF Registers, KeptByEntry, ea, sp, ra
    <3>2. reg'[r] = Restored(r) BY <1>2, <2>2 DEF Restored, Registers, ea
    <3>3. Right(r, Restored(r)) BY <1>1, <1>3, <3>1 DEF AtExit
    <3> QED BY <1>16, <3>2, <3>3
  <2> QED BY <2>1, <2>2
<1>18. AtProgram' BY <1>1, <1>10, <1>11, <1>15, <1>17 DEF AtProgram
<1> QED BY <1>1, <1>13, <1>14, <1>18 DEF ExceptionInv, InHandler, AtExit

(***************************************************************************)
(* At every point of the exception entry, the handler and the exit the     *)
(* registers and the frame hold what the program left or what the          *)
(* instruction makes of it, one value for each register.                   *)
(***************************************************************************)
THEOREM ExceptionInvariant == ExceptionSpec => []ExceptionInv
<1>1. ExceptionInit => ExceptionInv BY ExceptionInitInv
<1>2. ASSUME ExceptionInv, [ExceptionNext]_exceptionVars PROVE ExceptionInv'
  BY <1>2, NextInstructionInv, RegisterInv, ExceptionStepInv, IrqInv, NotIrqInv, EmulateInv,
     NotEmulatedInv, ExitInv
  DEF ExceptionNext
<1> QED BY <1>1, <1>2, PTL DEF ExceptionSpec

\* Registers, frame and instruction keep their types in the exception handler
\* (alt_exception_entry.S, alt_exception_muldiv.S).
THEOREM ExceptionTypeCorrect == ExceptionSpec => []ExceptionTypeOK
<1>1. ExceptionInv => ExceptionTypeOK BY DEF ExceptionInv
<1> QED BY <1>1, ExceptionInvariant, PTL

(***************************************************************************)
(* Whatever the width of the registers, the instructions and the options,  *)
(* the program goes on as ResumesRight says (alt_exception_entry.S:107-352, *)
(* alt_irq_entry.S:79-95, alt_exception_muldiv.S:105-573).                 *)
(***************************************************************************)
THEOREM ResumesRightCorrect == ExceptionSpec => []ResumesRight
<1>1. ASSUME ExceptionInv PROVE ResumesRight
  <2>1. AtProgram BY <1>1 DEF ExceptionInv
  <2> QED BY <2>1, RightIsEffect DEF AtProgram, ResumesRight
<1> QED BY <1>1, ExceptionInvariant, PTL
-----------------------------------------------------------------------------
(***************************************************************************)
(* The formatters.  A sequence of characters is read one by one.           *)
(***************************************************************************)
ReadOn(base, n, c) == IF c < 16 THEN base * n + c ELSE n
IsReading(f, chars, base, n) ==
  f = [k \in 0 .. n |-> IF k = 0 THEN 0 ELSE ReadOn(base, f[k - 1], chars[k])]
Reading(chars, base) == CHOOSE f : IsReading(f, chars, base, Len(chars))

LEMMA NumberUnfolds ==
  ASSUME NEW chars, NEW base, Len(chars) \in Nat
  PROVE  /\ Number(chars, base) = Reading(chars, base)[Len(chars)]
         /\ Reading(chars, base)[0] = 0
         /\ \A k \in 0 .. Len(chars) - 1 :
              Reading(chars, base)[k + 1] = ReadOn(base, Reading(chars, base)[k], chars[k + 1])
<1> DEFINE N == Len(chars)
<1>0. N \in Nat OBVIOUS
<1>1. Number(chars, base) = Reading(chars, base)[N]
  BY Zenon DEF Number, Reading, IsReading, ReadOn
<1> HIDE DEF N
<1> DEFINE S == {n \in 0 .. N : \E f : IsReading(f, chars, base, n)}
<1>2. 0 \in S
  <2> DEFINE f == [k \in 0 .. 0 |-> 0]
  <2>1. IsReading(f, chars, base, 0) BY DEF IsReading
  <2> QED BY <1>0, <2>1
<1>3. ASSUME NEW n \in 0 .. N - 1, n \in S PROVE n + 1 \in S
  <2>1. PICK f : IsReading(f, chars, base, n) BY <1>3
  <2> DEFINE g == [k \in 0 .. n + 1 |-> IF k = 0 THEN 0 ELSE ReadOn(base, f[k - 1], chars[k])]
  <2>2. \A k \in 0 .. n : g[k] = f[k] BY <2>1 DEF IsReading
  <2>3. \A k \in 0 .. n + 1 : k # 0 => k - 1 \in 0 .. n OBVIOUS
  <2>4. g = [k \in 0 .. n + 1 |-> IF k = 0 THEN 0 ELSE ReadOn(base, g[k - 1], chars[k])]
    BY <2>2, <2>3
  <2> HIDE DEF g
  <2>5. IsReading(g, chars, base, n + 1) BY <2>4 DEF IsReading
  <2>6. n + 1 \in 0 .. N BY <1>0
  <2> QED BY <2>5, <2>6
<1> HIDE DEF S
<1>4. 0 .. N \subseteq S BY <1>0, <1>2, <1>3, InductionTo
<1>5. N \in S BY <1>0, <1>4
<1>6. \E f : IsReading(f, chars, base, N) BY <1>5 DEF S
<1>7. IsReading(Reading(chars, base), chars, base, N) BY <1>6 DEF Reading, N
<1> DEFINE d == Reading(chars, base)
<1> HIDE DEF d
<1>8. d = [k \in 0 .. N |-> IF k = 0 THEN 0 ELSE ReadOn(base, d[k - 1], chars[k])]
  BY <1>7 DEF IsReading, d
<1>9. d[0] = 0 BY <1>0, <1>8
<1>10. ASSUME NEW k \in 0 .. N - 1 PROVE d[k + 1] = ReadOn(base, d[k], chars[k + 1])
  <2>1. k + 1 \in 0 .. N /\ k + 1 # 0 /\ (k + 1) - 1 = k BY <1>0
  <2> QED BY <1>8, <2>1
<1> QED BY <1>1, <1>9, <1>10 DEF d, N

\* One character more.
LEMMA NumberAppended ==
  ASSUME NEW chars, NEW longer, NEW base, Len(chars) \in Nat, Len(longer) = Len(chars) + 1,
         \A k \in 1 .. Len(chars) : longer[k] = chars[k]
  PROVE  Number(longer, base) = ReadOn(base, Number(chars, base), longer[Len(chars) + 1])
<1> DEFINE N == Len(chars)
           f == Reading(chars, base)
           g == Reading(longer, base)
<1>0. N \in Nat /\ Len(longer) = N + 1 /\ Len(longer) \in Nat OBVIOUS
<1>1. /\ Number(chars, base) = f[N] /\ f[0] = 0
      /\ \A k \in 0 .. N - 1 : f[k + 1] = ReadOn(base, f[k], chars[k + 1])
  BY <1>0, NumberUnfolds, Zenon
<1>2. /\ Number(longer, base) = g[Len(longer)] /\ g[0] = 0
      /\ \A k \in 0 .. Len(longer) - 1 : g[k + 1] = ReadOn(base, g[k], longer[k + 1])
  BY <1>0, NumberUnfolds, Zenon
<1>2a. \A k \in 0 .. N - 1 : longer[k + 1] = chars[k + 1]
  <2> TAKE k \in 0 .. N - 1
  <2>1. k + 1 \in 1 .. N BY <1>0
  <2> QED BY <2>1
<1>2b. \A k \in 0 .. N : g[k + 1] = ReadOn(base, g[k], longer[k + 1]) BY <1>0, <1>2
<1>2c. Number(longer, base) = g[N + 1] BY <1>0, <1>2
<1> HIDE DEF f, g, N
<1> DEFINE S == {k \in 0 .. N : g[k] = f[k]}
<1>3. 0 \in S BY <1>0, <1>1, <1>2
<1>4. ASSUME NEW k \in 0 .. N - 1, k \in S PROVE k + 1 \in S
  <2>1. k \in 0 .. N /\ k + 1 \in 0 .. N BY <1>0
  <2>2. g[k] = f[k] BY <1>4
  <2>3. g[k + 1] = f[k + 1] BY <1>1, <1>2a, <1>2b, <2>1, <2>2
  <2> QED BY <2>1, <2>3
<1> HIDE DEF S
<1>5. 0 .. N \subseteq S BY <1>0, <1>3, <1>4, InductionTo
<1>6. N \in S BY <1>0, <1>5
<1>7. N \in 0 .. N BY <1>0
<1>8. g[N + 1] = ReadOn(base, g[N], longer[N + 1]) BY <1>2b, <1>7
<1> QED BY <1>1, <1>2c, <1>6, <1>8 DEF S, N

-----------------------------------------------------------------------------
\* A quotient of a quotient, and one that is not zero.
LEMMA DividedTwice ==
  ASSUME NEW v \in Nat, NEW p \in Nat \ {0}, NEW b \in Nat \ {0}
  PROVE  v \div (b * p) = (v \div p) \div b
<1>1. PICK q \in Nat, r \in 0 .. p - 1 : q = v \div p /\ v = p * q + r BY DivisionIs
<1>2. PICK s \in Nat, t \in 0 .. b - 1 : s = q \div b /\ q = b * s + t BY DivisionIs
<1>3. PICK d \in Nat \ {0}, pt \in Nat : d = b * p /\ pt = p * t OBVIOUS
<1>4. v = d * s + (pt + r)
  <2>1. p * (b * s + t) = (b * p) * s + p * t OBVIOUS
  <2>2. v = p * (b * s + t) + r BY <1>1, <1>2
  <2> QED BY <1>3, <2>1, <2>2
<1>5. pt + r \in 0 .. d - 1
  <2>1. PICK u \in Nat : b = t + 1 + u OBVIOUS
  <2>2. (t + 1 + u) * p = p * t + p + u * p OBVIOUS
  <2>3. PICK z \in Nat : z = u * p BY <2>1
  <2>4. d = pt + p + z BY <1>3, <2>1, <2>2, <2>3
  <2> QED BY <2>3, <2>4
<1>6. PICK r2 \in 0 .. d - 1 : r2 = pt + r BY <1>5
<1>7. (d * s + r2) \div d = s BY DivUnique
<1>8. v \div d = s BY <1>4, <1>6, <1>7
<1> QED BY <1>1, <1>2, <1>3, <1>8

LEMMA SomethingDivided ==
  ASSUME NEW v \in Nat, NEW p \in Nat \ {0}
  PROVE  v \div p > 0 <=> p <= v
<1>1. PICK q \in Nat, r \in 0 .. p - 1 : q = v \div p /\ v = p * q + r BY DivisionIs
<1>2. CASE q = 0 BY <1>1, <1>2
<1>3. CASE q # 0
  <2>1. PICK j \in Nat : q = j + 1 BY <1>3
  <2>2. p * (j + 1) = p + p * j /\ p * j \in Nat OBVIOUS
  <2>3. PICK x \in Nat : x = p * j /\ v = p + x + r BY <1>1, <2>1, <2>2
  <2> QED BY <1>1, <1>3, <2>3
<1> QED BY <1>2, <1>3

\* The bases, and as many digits as a word has at most.
NumberBase == {8, 10, 16}
MostDigits == WordBits \div 3 + 1

LEMMA PrintfSizes ==
  /\ WordBits \in Nat \ {0} /\ MostDigits \in Nat \ {0}
  /\ WordBits <= 3 * MostDigits - 1
  /\ \E q \in Nat \ {0} : WordBits = 4 * q /\ q = WordBits \div 4 /\ q < MostDigits
<1>1. WordBits \in Nat \ {0} /\ WordBits % 4 = 0 BY PrintfAssumption
<1>2. PICK w \in Nat \ {0} : w = WordBits BY <1>1
<1>3. w \div 3 \in Nat /\ 3 * (w \div 3) <= w /\ w <= 3 * (w \div 3) + 2 BY <1>2
<1>4. w % 4 = 0 => w = 4 * (w \div 4) /\ w \div 4 \in Nat \ {0} BY <1>2
<1>5. PICK t \in Nat : t = w \div 3 BY <1>3
<1>6. PICK q \in Nat \ {0} : w = 4 * q /\ q = w \div 4 BY <1>1, <1>2, <1>4
<1>7. q < t + 1 BY <1>3, <1>5, <1>6
<1> QED BY <1>1, <1>2, <1>3, <1>5, <1>6, <1>7 DEF MostDigits

LEMMA BasePowers ==
  ASSUME NEW b \in NumberBase
  PROVE  /\ b^0 = 1
         /\ \A k \in 0 .. MostDigits : b^k \in Nat \ {0}
         /\ \A k \in 0 .. MostDigits - 1 : b^(k + 1) = b * b^k
         /\ \A k \in 0 .. MostDigits : 8^k <= b^k
<1> DEFINE M == MostDigits
<1>0. M \in Nat \ {0} BY PrintfSizes
<1>1. /\ b^0 = 1 /\ 8^0 = 1
      /\ \A k \in 0 .. M - 1 : b^k \in Nat /\ b^(k + 1) = b * b^k
      /\ \A k \in 0 .. M - 1 : 8^k \in Nat /\ 8^(k + 1) = 8 * 8^k
  <2>1. WordBits \div 3 = M - 1 BY PrintfAssumption DEF MostDigits
  <2> QED BY BasePowersAssumption, <2>1 DEF NumberBase
<1> HIDE DEF M
<1> DEFINE S == {k \in 0 .. M : b^k \in Nat \ {0} /\ 8^k \in Nat /\ 8^k <= b^k}
<1>2. 0 \in S BY <1>0, <1>1
<1>3. ASSUME NEW k \in 0 .. M - 1, k \in S PROVE k + 1 \in S
  <2>1. k + 1 \in 0 .. M BY <1>0
  <2>2. PICK p \in Nat \ {0} : p = b^k BY <1>3
  <2>3. PICK e \in Nat : e = 8^k /\ e <= p BY <1>3, <2>2
  <2>4. b^(k + 1) = b * p /\ 8^(k + 1) = 8 * e BY <1>1, <2>2, <2>3
  <2>5. b * p \in Nat \ {0} /\ 8 * e \in Nat /\ 8 * e <= b * p
    BY <2>3 DEF NumberBase
  <2> QED BY <2>1, <2>4, <2>5
<1> HIDE DEF S
<1>4. 0 .. M \subseteq S BY <1>0, <1>2, <1>3, InductionTo
<1> QED BY <1>1, <1>4 DEF S, M

\* Each power divides the next ones.
LEMMA PowersGrow ==
  ASSUME NEW b \in NumberBase, NEW n \in 0 .. MostDigits, NEW k \in 0 .. n
  PROVE  b^k <= b^n
<1> DEFINE M == MostDigits
<1>0. M \in Nat \ {0} /\ n \in Nat /\ n <= M /\ k \in Nat BY PrintfSizes
<1>1. /\ \A j \in 0 .. M : b^j \in Nat \ {0}
      /\ \A j \in 0 .. M - 1 : b^(j + 1) = b * b^j
  BY BasePowers
<1> HIDE DEF M
<1> DEFINE S == {j \in 0 .. n : j >= k => b^k <= b^j}
<1>2. 0 \in S
  <2>1. k = 0 => b^k <= b^0 BY <1>0, <1>1
  <2> QED BY <1>0, <2>1
<1>3. ASSUME NEW j \in 0 .. n - 1, j \in S PROVE j + 1 \in S
  <2>1. j + 1 \in 0 .. n /\ j \in 0 .. M - 1 /\ j \in 0 .. M /\ k \in 0 .. M BY <1>0
  <2>2. PICK p \in Nat \ {0}, q \in Nat \ {0} : p = b^j /\ q = b^k BY <1>1, <2>1
  <2>3. b^(j + 1) = b * p BY <1>1, <2>1, <2>2
  <2>4. b * p \in Nat /\ p <= b * p BY <2>2 DEF NumberBase
  <2>5. j >= k => q <= b * p BY <1>3, <2>2, <2>4
  <2>6. j + 1 >= k => j >= k \/ j + 1 = k BY <1>0
  <2>7. j + 1 = k => q <= b * p BY <2>2, <2>3, <2>4
  <2> QED BY <2>1, <2>2, <2>3, <2>5, <2>6, <2>7
<1> HIDE DEF S
<1>4. 0 .. n \subseteq S BY <1>0, <1>2, <1>3, InductionTo
<1>5. n \in S BY <1>0, <1>4
<1> QED BY <1>0, <1>5 DEF S

\* A word has at most MostDigits digits, and hexadecimal ones for each four bits.
LEMMA WordsAreShort ==
  /\ 2^WordBits \in Nat \ {0} /\ 2^(WordBits - 1) \in Nat \ {0}
  /\ 2^WordBits = 2 * 2^(WordBits - 1)
  /\ \A b \in NumberBase : 2^WordBits <= b^MostDigits
  /\ 2^WordBits = 16^(WordBits \div 4)
<1> DEFINE W == WordBits
           M == MostDigits
<1>0. W \in Nat \ {0} /\ M \in Nat \ {0} /\ W <= 3 * M - 1 BY PrintfSizes
<1>1. 2^0 = 1 /\ \A n \in 0 .. W - 1 : 2^n \in Nat /\ 2^(n + 1) = 2 * 2^n
  BY BasePowersAssumption
<1>2. 8 \in NumberBase /\ 16 \in NumberBase BY DEF NumberBase
<1>3. /\ 8^0 = 1 /\ \A k \in 0 .. M : 8^k \in Nat \ {0}
      /\ \A k \in 0 .. M - 1 : 8^(k + 1) = 8 * 8^k
  BY <1>2, BasePowers
<1>4. /\ 16^0 = 1 /\ \A k \in 0 .. M : 16^k \in Nat \ {0}
      /\ \A k \in 0 .. M - 1 : 16^(k + 1) = 16 * 16^k
  BY <1>2, BasePowers
<1>5. PICK q \in Nat \ {0} : W = 4 * q /\ q = W \div 4 /\ q < M BY PrintfSizes
<1>6. \A b \in NumberBase : 8^M <= b^M /\ b^M \in Nat BY <1>0, BasePowers
<1> HIDE DEF W, M
<1>7. \A n \in 0 .. W : 2^n \in Nat \ {0}
  <2> DEFINE S == {n \in 0 .. W : 2^n \in Nat \ {0}}
  <2>1. 0 \in S BY <1>0, <1>1
  <2>2. ASSUME NEW n \in 0 .. W - 1, n \in S PROVE n + 1 \in S
    <3>1. PICK p \in Nat \ {0} : p = 2^n BY <2>2
    <3>2. 2^(n + 1) = 2 * p BY <1>1, <3>1
    <3>3. 2 * p \in Nat \ {0} OBVIOUS
    <3> QED BY <1>0, <3>2, <3>3
  <2> HIDE DEF S
  <2>3. 0 .. W \subseteq S BY <1>0, <2>1, <2>2, InductionTo
  <2> QED BY <2>3 DEF S
<1>8. \A k \in 0 .. q : 16^k = 2^(4 * k)
  <2> DEFINE S == {k \in 0 .. q : 16^k = 2^(4 * k)}
  <2>1. 0 \in S
    <3>1. 4 * 0 = 0 OBVIOUS
    <3> QED BY <1>1, <1>4, <3>1
  <2>2. ASSUME NEW k \in 0 .. q - 1, k \in S PROVE k + 1 \in S
    <3>1. k + 1 \in 0 .. q /\ k \in 0 .. M - 1 /\ k \in 0 .. M BY <1>0, <1>5
    <3>2. PICK n \in 0 .. W - 4 : n = 4 * k /\ n + 4 = 4 * (k + 1) BY <1>5
    <3>3. /\ n \in 0 .. W - 1 /\ n + 1 \in 0 .. W - 1 /\ n + 2 \in 0 .. W - 1 /\ n + 3 \in 0 .. W - 1
          /\ (n + 1) + 1 = n + 2 /\ (n + 2) + 1 = n + 3 /\ (n + 3) + 1 = n + 4
      BY <1>0, <3>2
    <3>4. PICK p \in Nat : p = 2^n BY <1>1, <3>3
    <3>5. 2^(n + 1) = 2 * p BY <1>1, <3>3, <3>4
    <3>6. 2^(n + 2) = 2 * (2 * p) BY <1>1, <3>3, <3>5
    <3>7. 2^(n + 3) = 2 * (2 * (2 * p)) BY <1>1, <3>3, <3>6
    <3>8. 2^(n + 4) = 2 * (2 * (2 * (2 * p))) BY <1>1, <3>3, <3>7
    <3>9. 16^(k + 1) = 16 * p BY <1>4, <2>2, <3>1, <3>2, <3>4
    <3>10. 2 * (2 * (2 * (2 * p))) = 16 * p OBVIOUS
    <3> QED BY <3>1, <3>2, <3>8, <3>9, <3>10
  <2> HIDE DEF S
  <2>3. 0 .. q \subseteq S BY <1>0, <2>1, <2>2, InductionTo
  <2> QED BY <2>3 DEF S
<1>9. 2^W <= 8^M
  <2> DEFINE S == {k \in 0 .. M : \A n \in 0 .. W : n <= 3 * k => 2^n <= 8^k}
  <2>1. 0 \in S
    <3>1. \A n \in 0 .. W : n <= 3 * 0 => n = 0 BY <1>0
    <3>2. \A n \in 0 .. W : n <= 3 * 0 => 2^n <= 8^0
      <4> SUFFICES ASSUME NEW n \in 0 .. W, n <= 3 * 0 PROVE 2^n <= 8^0 OBVIOUS
      <4>1. 2^n = 1 BY <1>1, <3>1
      <4> QED BY <1>3, <4>1
    <3> QED BY <1>0, <3>2
  <2>2. ASSUME NEW k \in 0 .. M - 1, k \in S PROVE k + 1 \in S
    <3>1. k + 1 \in 0 .. M /\ k \in 0 .. M BY <1>0
    <3>2. PICK e \in Nat \ {0} : e = 8^k BY <1>3, <3>1
    <3>3. 8^(k + 1) = 8 * e BY <1>3, <3>2
    <3>4. ASSUME NEW n \in 0 .. W, n <= 3 * (k + 1) PROVE 2^n <= 8 * e
      <4>1. \A j \in 0 .. W : j <= 3 * k => 2^j <= e /\ 2^j \in Nat BY <1>7, <2>2, <3>2
      <4>2. CASE n <= 3 * k
        <5>1. PICK p \in Nat : p = 2^n /\ p <= e BY <4>1, <4>2
        <5> QED BY <5>1
      <4>3. CASE n = 3 * k + 1
        <5>1. PICK j \in 0 .. W - 1 : j = 3 * k /\ n = j + 1 BY <1>0, <4>3
        <5>2. PICK p \in Nat : p = 2^j /\ p <= e BY <1>0, <4>1, <5>1
        <5>3. 2^n = 2 * p BY <1>1, <5>1, <5>2
        <5> QED BY <5>2, <5>3
      <4>4. CASE n = 3 * k + 2
        <5>1. PICK j \in 0 .. W - 2 : j = 3 * k /\ n = (j + 1) + 1 /\ j \in 0 .. W - 1 /\ j + 1 \in 0 .. W - 1
          BY <1>0, <4>4
        <5>2. PICK p \in Nat : p = 2^j /\ p <= e BY <1>0, <4>1, <5>1
        <5>3. 2^(j + 1) = 2 * p BY <1>1, <5>1, <5>2
        <5>4. 2^n = 2 * (2 * p) BY <1>1, <5>1, <5>3
        <5> QED BY <5>2, <5>4
      <4>5. CASE n = 3 * k + 3
        <5>1. PICK j \in 0 .. W - 3 : /\ j = 3 * k /\ n = ((j + 1) + 1) + 1 /\ j \in 0 .. W - 1
                                     /\ j + 1 \in 0 .. W - 1 /\ (j + 1) + 1 \in 0 .. W - 1
          BY <1>0, <4>5
        <5>2. PICK p \in Nat : p = 2^j /\ p <= e BY <1>0, <4>1, <5>1
        <5>3. 2^(j + 1) = 2 * p BY <1>1, <5>1, <5>2
        <5>4. 2^((j + 1) + 1) = 2 * (2 * p) BY <1>1, <5>1, <5>3
        <5>5. 2^n = 2 * (2 * (2 * p)) BY <1>1, <5>1, <5>4
        <5> QED BY <5>2, <5>5
      <4>6. n <= 3 * k \/ n = 3 * k + 1 \/ n = 3 * k + 2 \/ n = 3 * k + 3 BY <3>4
      <4> QED BY <4>2, <4>3, <4>4, <4>5, <4>6
    <3> QED BY <3>1, <3>3, <3>4
  <2> HIDE DEF S
  <2>3. 0 .. M \subseteq S BY <1>0, <2>1, <2>2, InductionTo
  <2>4. M \in S BY <1>0, <2>3
  <2>5. W \in 0 .. W /\ W <= 3 * M BY <1>0
  <2> QED BY <2>4, <2>5 DEF S
<1>10. \A b \in NumberBase : 2^W <= b^M
  <2> TAKE b \in NumberBase
  <2>1. 2^W \in Nat /\ 8^M \in Nat /\ b^M \in Nat /\ 8^M <= b^M BY <1>0, <1>3, <1>6, <1>7
  <2> QED BY <1>9, <2>1
<1>11. 2^W = 2 * 2^(W - 1) /\ 2^(W - 1) \in Nat \ {0} /\ 2^W \in Nat \ {0}
  <2>1. PICK j \in 0 .. W - 1 : j = W - 1 /\ j + 1 = W /\ j \in 0 .. W BY <1>0
  <2>2. 2^(j + 1) = 2 * 2^j BY <1>1
  <2> QED BY <1>0, <1>7, <2>1, <2>2
<1>12. 2^W = 16^q BY <1>5, <1>8
<1> QED BY <1>5, <1>10, <1>11, <1>12 DEF W, M
-----------------------------------------------------------------------------
(***************************************************************************)
(* The number of digits: the first power that is greater than v.           *)
(***************************************************************************)
LEMMA LengthExists ==
  ASSUME NEW b \in NumberBase, NEW m \in 1 .. MostDigits, NEW v \in Nat, v < b^m
  PROVE  \E c \in 1 .. m : v < b^c /\ (c > 1 => b^(c - 1) <= v)
<1> DEFINE S == {c \in 0 .. m : \E d \in 1 .. m : d <= c /\ v < b^d /\ (d > 1 => b^(d - 1) <= v)}
           T == {c \in 0 .. m - 1 : v < b^(c + 1) => (\E d \in 1 .. c + 1 : v < b^d /\ (d > 1 => b^(d - 1) <= v))}
<1>0. m \in Nat \ {0} /\ MostDigits \in Nat BY PrintfSizes
<1>1. \A k \in 0 .. MostDigits : b^k \in Nat BY BasePowers
<1>2. 0 \in T BY <1>0
<1>3. ASSUME NEW c \in 0 .. (m - 1) - 1, c \in T PROVE c + 1 \in T
  <2>1. c + 1 \in 0 .. m - 1 /\ (c + 1) + 1 \in 1 .. m /\ c + 1 \in 1 .. m /\ c + 1 \in 0 .. MostDigits
        /\ (c + 1) + 1 > 1 /\ ((c + 1) + 1) - 1 = c + 1
    BY <1>0
  <2>2. PICK p \in Nat : p = b^(c + 1) BY <1>1, <2>1
  <2>3. CASE v < p
    <3>1. PICK d \in 1 .. c + 1 : v < b^d /\ (d > 1 => b^(d - 1) <= v) BY <1>3, <2>2, <2>3
    <3>2. d \in 1 .. (c + 1) + 1 BY <1>0
    <3> QED BY <2>1, <3>1, <3>2
  <2>4. CASE ~(v < p)
    <3>1. b^(((c + 1) + 1) - 1) <= v BY <2>1, <2>2, <2>4
    <3>2. (c + 1) + 1 \in 1 .. (c + 1) + 1 BY <1>0
    <3> QED BY <2>1, <3>1, <3>2
  <2> QED BY <2>3, <2>4
<1>4. m - 1 \in Nat /\ (m - 1) + 1 = m BY <1>0
<1> HIDE DEF S, T
<1>5. 0 .. m - 1 \subseteq T BY <1>2, <1>3, <1>4, InductionTo
<1>6. m - 1 \in T BY <1>4, <1>5
<1> QED BY <1>4, <1>6 DEF T

LEMMA DigitCountIs ==
  ASSUME NEW b \in NumberBase, NEW v \in Nat, v < b^MostDigits
  PROVE  LET c == DigitCount(v, b)
         IN  c \in 1 .. MostDigits /\ v < b^c /\ (c > 1 => b^(c - 1) <= v)
<1> DEFINE M == MostDigits
           S == {k \in 1 .. WordBits \div 3 : v \div b^k > 0}
<1>0. M \in Nat \ {0} /\ M \in 1 .. MostDigits BY PrintfSizes
<1>0a. WordBits \div 3 = M - 1 BY PrintfAssumption DEF MostDigits
<1>1. PICK c \in 1 .. M : v < b^c /\ (c > 1 => b^(c - 1) <= v)
  BY <1>0, LengthExists
<1>2. \A k \in 0 .. M : b^k \in Nat \ {0} BY BasePowers
<1>3. \A n \in 0 .. M : \A k \in 0 .. n : b^k <= b^n BY PowersGrow
<1>4. S = 1 .. c - 1
  <2>1. ASSUME NEW k \in 1 .. M - 1 PROVE v \div b^k > 0 <=> k <= c - 1
    <3>1. k \in 0 .. M /\ c \in 0 .. M /\ c - 1 \in 0 .. M BY <1>0
    <3>2. PICK p \in Nat \ {0} : p = b^k BY <1>2, <3>1
    <3>3. v \div p > 0 <=> p <= v BY <3>2, SomethingDivided
    <3>4. CASE k <= c - 1
      <4>1. k \in 0 .. c - 1 /\ c > 1 BY <3>4
      <4>2. b^k <= b^(c - 1) /\ b^(c - 1) <= v /\ b^(c - 1) \in Nat BY <1>1, <1>2, <1>3, <3>1, <4>1
      <4> QED BY <3>2, <3>3, <3>4, <4>2
    <3>5. CASE ~(k <= c - 1)
      <4>1. c \in 0 .. k BY <1>0, <3>5
      <4>2. b^c <= b^k /\ v < b^c /\ b^c \in Nat BY <1>1, <1>2, <1>3, <3>1, <4>1
      <4> QED BY <3>2, <3>3, <3>5, <4>2
    <3> QED BY <3>4, <3>5
  <2> QED BY <1>0, <1>0a, <2>1
<1>5. Cardinality(1 .. c - 1) = c - 1
  <2>1. c - 1 \in Nat /\ 1 \in Int BY <1>0
  <2>2. Cardinality(1 .. c - 1) = IF 1 > c - 1 THEN 0 ELSE (c - 1) - 1 + 1 BY <2>1, FS_Interval
  <2> QED BY <2>1, <2>2
<1>6. DigitCount(v, b) = c
  <2>1. DigitCount(v, b) = 1 + Cardinality(S) BY DEF DigitCount
  <2>2. DigitCount(v, b) = 1 + (c - 1) BY <1>4, <1>5, <2>1, Zenon
  <2> QED BY <2>2
<1> QED BY <1>1, <1>6

(***************************************************************************)
(* Digits after h characters that add nothing are the number.              *)
(***************************************************************************)
LEMMA NumberIs ==
  ASSUME NEW b \in NumberBase, NEW c \in 1 .. MostDigits, NEW v \in Nat, v < b^c,
         NEW chars, NEW h \in Nat, Len(chars) = h + c,
         \A k \in 1 .. h : chars[k] \in {0, Blank, Minus},
         \A k \in 1 .. c : chars[h + k] = (v \div b^(c - k)) % b
  PROVE  Number(chars, b) = v
<1> DEFINE N == Len(chars)
           f == Reading(chars, b)
<1>0. N = h + c /\ N \in Nat /\ h \in Nat /\ c \in Nat \ {0} /\ b \in Nat \ {0} /\ b <= 16
  BY PrintfSizes DEF NumberBase
<1>1. /\ Number(chars, b) = f[N] /\ f[0] = 0
      /\ \A k \in 0 .. N - 1 : f[k + 1] = ReadOn(b, f[k], chars[k + 1])
  BY <1>0, NumberUnfolds, Zenon
<1>2. /\ b^0 = 1
      /\ \A k \in 0 .. c : b^k \in Nat \ {0}
      /\ \A k \in 0 .. c - 1 : b^(k + 1) = b * b^k
  <2>1. c <= MostDigits /\ MostDigits \in Nat BY PrintfSizes
  <2>2. \A k \in 0 .. c : k \in 0 .. MostDigits BY <2>1
  <2>3. \A k \in 0 .. c - 1 : k \in 0 .. MostDigits - 1 BY <2>1
  <2> QED BY <2>2, <2>3, BasePowers
<1> HIDE DEF f, N
<1>3. f[h] = 0
  <2> DEFINE S == {k \in 0 .. h : f[k] = 0}
  <2>1. 0 \in S BY <1>0, <1>1
  <2>2. ASSUME NEW k \in 0 .. h - 1, k \in S PROVE k + 1 \in S
    <3>1. k + 1 \in 1 .. h /\ k \in 0 .. N - 1 /\ k + 1 \in 0 .. h BY <1>0
    <3>2. f[k] = 0 /\ f[k + 1] = ReadOn(b, 0, chars[k + 1]) BY <1>1, <2>2, <3>1
    <3>3. b * 0 + 0 = 0 BY <1>0
    <3>4. ReadOn(b, 0, 0) = 0 /\ ReadOn(b, 0, Blank) = 0 /\ ReadOn(b, 0, Minus) = 0
      BY <3>3 DEF ReadOn, Blank, Minus
    <3> QED BY <3>1, <3>2, <3>4
  <2> HIDE DEF S
  <2>3. 0 .. h \subseteq S BY <1>0, <2>1, <2>2, InductionTo
  <2>4. h \in S BY <1>0, <2>3
  <2> QED BY <2>4 DEF S
<1>4. \A k \in 0 .. c : f[h + k] = v \div b^(c - k)
  <2> DEFINE S == {k \in 0 .. c : f[h + k] = v \div b^(c - k)}
  <2>1. 0 \in S
    <3>1. h + 0 = h /\ c - 0 = c /\ 0 \in 0 .. c /\ c \in 0 .. c BY <1>0
    <3>2. PICK p \in Nat \ {0} : p = b^c BY <1>2, <3>1
    <3>3. ~(p <= v) BY <3>2
    <3>4. v \div p = 0
      <4>1. PICK q \in Nat : q = v \div p BY DivisionIs
      <4>2. ~(q > 0) BY <3>3, <4>1, SomethingDivided
      <4> QED BY <4>1, <4>2
    <3> QED BY <1>3, <3>1, <3>2, <3>4
  <2>2. ASSUME NEW k \in 0 .. c - 1, k \in S PROVE k + 1 \in S
    <3>1. PICK e \in 0 .. c - 1 : e = c - (k + 1) /\ e + 1 = c - k BY <1>0
    <3>2. h + k \in 0 .. N - 1 /\ (h + k) + 1 = h + (k + 1) /\ k + 1 \in 1 .. c /\ k + 1 \in 0 .. c
      BY <1>0
    <3>3. PICK p \in Nat \ {0} : p = b^e BY <1>0, <1>2
    <3>4. b^(c - k) = b * p BY <1>2, <3>1, <3>3
    <3>5. PICK q \in Nat : q = v \div p BY DivisionIs
    <3>6. v \div (b * p) = q \div b BY <1>0, <3>5, DividedTwice
    <3>7. f[h + k] = q \div b BY <2>2, <3>4, <3>6
    <3>8. chars[h + (k + 1)] = q % b BY <3>1, <3>2, <3>3, <3>5
    <3>9. f[h + (k + 1)] = ReadOn(b, q \div b, q % b) BY <1>1, <3>2, <3>7, <3>8
    <3>10. q = b * (q \div b) + (q % b) /\ q % b < 16
      <4>1. q = b * (q \div b) + (q % b) /\ q % b \in 0 .. b - 1 BY <1>0, DivisionIs
      <4> QED BY <1>0, <4>1
    <3>11. f[h + (k + 1)] = q BY <3>9, <3>10 DEF ReadOn
    <3> QED BY <3>1, <3>2, <3>3, <3>5, <3>11
  <2> HIDE DEF S
  <2>3. 0 .. c \subseteq S BY <1>0, <2>1, <2>2, InductionTo
  <2> QED BY <2>3 DEF S
<1>5. c \in 0 .. c /\ c - c = 0 /\ h + c = N BY <1>0
<1>6. f[N] = v \div b^0 BY <1>4, <1>5
<1>7. v \div 1 = v OBVIOUS
<1> QED BY <1>1, <1>2, <1>6, <1>7
-----------------------------------------------------------------------------
(***************************************************************************)
(* The texts, character by character: h characters that are no digits of   *)
(* the number, then its c digits.                                          *)
(***************************************************************************)
PrintfChar == 0 .. 15 \cup {Minus, Blank, Literal}

LEMMA RepeatedIs ==
  ASSUME NEW x, NEW r \in Int, NEW n \in Nat, r > 0 => n = r, ~(r > 0) => n = 0
  PROVE  /\ Len(alt_log_repchar(x, r)) = n
         /\ alt_log_repchar(x, r) \in Seq({x})
         /\ \A k \in 1 .. n : alt_log_repchar(x, r)[k] = x
<1>1. 1 .. r = 1 .. n OBVIOUS
<1>2. alt_log_repchar(x, r) = [k \in 1 .. n |-> x] BY <1>1 DEF alt_log_repchar
<1> QED BY <1>2

LEMMA DigitsAre ==
  ASSUME NEW b \in NumberBase, NEW c \in 1 .. MostDigits, NEW v \in Nat
  PROVE  LET d == DigitsOf(v, b, c)
         IN  /\ Len(d) = c /\ c \in Nat
             /\ d \in Seq(0 .. 15)
             /\ \A k \in 1 .. c : d[k] = (v \div b^(c - k)) % b
<1>0. c \in Nat /\ MostDigits \in Nat /\ b \in Nat \ {0} /\ b <= 16 BY PrintfSizes DEF NumberBase
<1>1. DigitsOf(v, b, c) = [k \in 1 .. c |-> (v \div b^(c - k)) % b] BY DEF DigitsOf
<1>2. ASSUME NEW k \in 1 .. c PROVE (v \div b^(c - k)) % b \in 0 .. 15
  <2>1. c - k \in 0 .. MostDigits BY <1>0
  <2>2. PICK p \in Nat \ {0} : p = b^(c - k) BY <2>1, BasePowers
  <2>3. PICK q \in Nat : q = v \div p BY DivisionIs
  <2>4. q % b \in 0 .. b - 1 BY <1>0, DivisionIs
  <2>5. q % b \in 0 .. 15 BY <1>0, <2>4
  <2> QED BY <2>2, <2>3, <2>5
<1> HIDE DEF NumberBase
<1>3. [k \in 1 .. c |-> (v \div b^(c - k)) % b] \in Seq(0 .. 15) BY <1>0, <1>2
<1> QED BY <1>0, <1>1, <1>3

LEMMA JoinedIs ==
  ASSUME NEW S, NEW x \in Seq(S), NEW y \in Seq(S)
  PROVE  /\ x \o y \in Seq(S) /\ Len(x \o y) = Len(x) + Len(y)
         /\ \A k \in 1 .. Len(x) : (x \o y)[k] = x[k]
         /\ \A k \in 1 .. Len(y) : (x \o y)[Len(x) + k] = y[k]
OBVIOUS

\* Blanks, a sign, zeros, and the c digits of v.
IsText(chars, blanks, sign, zeros, c, v, b) ==
  /\ chars \in Seq(PrintfChar) /\ Len(chars) = (blanks + sign + zeros) + c
  /\ \A k \in 1 .. blanks : chars[k] = Blank
  /\ sign = 1 => chars[blanks + 1] = Minus
  /\ \A k \in 1 .. zeros : chars[(blanks + sign) + k] = 0
  /\ \A k \in 1 .. c : chars[(blanks + sign + zeros) + k] = (v \div b^(c - k)) % b

HasDigits(c, v, b) == c \in 1 .. MostDigits /\ v < b^c /\ (c > 1 => b^(c - 1) <= v)

ReadsAs(chars, blanks, sign, zeros, v, b) ==
  /\ Numeral(chars)
  /\ ShownNumber(chars, b) = IF sign = 1 THEN -v ELSE v
  /\ blanks = 0 /\ zeros = 0 => Shortest(chars)
  /\ blanks = 0 => ~Shows(chars, Blank)

LEMMA TextReads ==
  ASSUME NEW b \in NumberBase, NEW c, NEW v \in Nat, HasDigits(c, v, b),
         NEW blanks \in Nat, NEW sign \in {0, 1}, NEW zeros \in Nat,
         NEW chars, IsText(chars, blanks, sign, zeros, c, v, b)
  PROVE  ReadsAs(chars, blanks, sign, zeros, v, b)
<1> USE DEF HasDigits
<1> DEFINE h == blanks + sign + zeros
<1>0. /\ c \in Nat \ {0} /\ h \in Nat /\ MostDigits \in Nat
      /\ Len(chars) = h + c /\ Len(chars) \in Nat \ {0}
  BY PrintfSizes DEF IsText
<1>1. \A k \in 1 .. c : chars[h + k] = (v \div b^(c - k)) % b
  BY Zenon DEF IsText
<1>1a. \A k \in 1 .. c : chars[h + k] \in 0 .. 15
  <2>1. \A k \in 1 .. c : chars[h + k] = DigitsOf(v, b, c)[k] BY <1>1, DigitsAre, Zenon
  <2>2. Len(DigitsOf(v, b, c)) = c /\ DigitsOf(v, b, c) \in Seq(0 .. 15) BY DigitsAre, Zenon
  <2>3. \A k \in 1 .. c : DigitsOf(v, b, c)[k] \in 0 .. 15 BY ONLY <2>2
  <2> QED BY <2>1, <2>3, Zenon
<1>2. \A k \in 1 .. h :
        \/ k \in 1 .. blanks /\ chars[k] = Blank
        \/ sign = 1 /\ k = blanks + 1 /\ chars[k] = Minus
        \/ k > blanks + sign /\ chars[k] = 0
  <2> TAKE k \in 1 .. h
  <2>1. CASE k <= blanks BY <2>1 DEF IsText
  <2>2. CASE sign = 1 /\ k = blanks + 1 BY <2>2 DEF IsText
  <2>3. CASE k > blanks + sign
    <3>1. PICK j \in 1 .. zeros : k = (blanks + sign) + j BY <2>3
    <3> QED BY <2>3, <3>1 DEF IsText
  <2> QED BY <2>1, <2>2, <2>3
<1>3. \A k \in 1 .. Len(chars) : k \in 1 .. h \/ \E j \in 1 .. c : k = h + j
  <2> TAKE k \in 1 .. Len(chars)
  <2>1. CASE k > h
    <3>1. k - h \in 1 .. c /\ k = h + (k - h) BY <1>0, <2>1
    <3> QED BY <3>1
  <2> QED BY <1>0, <2>1
<1>3a. \A k \in 1 .. Len(chars) :
         /\ chars[k] = Blank => k \in 1 .. blanks
         /\ chars[k] = Minus => sign = 1 /\ k = blanks + 1
  <2> TAKE k \in 1 .. Len(chars)
  <2>1. ASSUME NEW j \in 1 .. c, k = h + j PROVE chars[k] # Blank /\ chars[k] # Minus
    <3>1. chars[k] \in 0 .. 15 BY <1>1a, <2>1
    <3> QED BY ONLY <3>1 DEF Blank, Minus
  <2>2. CASE k \in 1 .. h
    <3>1. 0 # Blank /\ 0 # Minus /\ Blank # Minus BY DEF Blank, Minus
    <3> QED BY <1>2, <2>2, <3>1, Zenon
  <2> QED BY <1>3, <2>1, <2>2, Zenon
<1>4. \A k \in 1 .. Len(chars) : chars[k] = Blank => k \in 1 .. blanks
  BY <1>3a
<1>5. \A k \in 1 .. Len(chars) : chars[k] = Minus => sign = 1 /\ k = blanks + 1
  BY <1>3a
<1>6. sign = 1 => blanks + 1 \in 1 .. Len(chars) /\ chars[blanks + 1] = Minus
  BY <1>0 DEF IsText
<1>7. \A k \in 1 .. h : chars[k] \in {0, Blank, Minus} BY <1>2
<1>8. Number(chars, b) = v
  <2>1. \A k \in 1 .. c : chars[h + k] = (v \div b^(c - k)) % b BY <1>1
  <2> HIDE DEF h
  <2> QED BY <1>0, <1>7, <2>1, NumberIs
<1>9. ShownNumber(chars, b) = IF sign = 1 THEN -v ELSE v
  <2>1. Shows(chars, Minus) <=> sign = 1 BY <1>5, <1>6 DEF Shows
  <2> QED BY <1>8, <2>1 DEF ShownNumber
<1>10. Numeral(chars)
  <2>1. chars[Len(chars)] < 16
    <3>1. c \in 1 .. c /\ Len(chars) = h + c BY <1>0
    <3>2. chars[Len(chars)] \in 0 .. 15 BY <1>1a, <3>1, Zenon
    <3> QED BY ONLY <3>2
  <2>2. ASSUME NEW k \in 1 .. Len(chars) - 1, chars[k + 1] \in {Blank, Minus}
        PROVE  chars[k] = Blank
    <3>1. k + 1 \in 1 .. Len(chars) BY <1>0
    <3>2. k + 1 \in 1 .. blanks \/ k + 1 = blanks + 1 BY <1>4, <1>5, <2>2, <3>1
    <3>3. k \in 1 .. blanks BY <3>2
    <3> QED BY <3>3 DEF IsText
  <2>3. chars # <<>> BY <1>0
  <2> QED BY <2>1, <2>2, <2>3 DEF Numeral
<1>11. blanks = 0 => ~Shows(chars, Blank) BY <1>4 DEF Shows
<1>12. ASSUME blanks = 0, zeros = 0 PROVE Shortest(chars)
  <2>1. h = sign BY <1>12
  <2>2. chars[1] # Blank /\ (chars[1] = Minus <=> sign = 1)
    BY <1>0, <1>4, <1>5, <1>6, <1>12
  <2>3. PICK head \in {1, 2} : head = (IF chars[1] = Minus THEN 2 ELSE 1) /\ head = h + 1
    BY <2>1, <2>2
  <2>4. chars[head] = (v \div b^(c - 1)) % b BY <1>0, <1>1, <2>3
  <2>5. CASE c = 1 BY <1>0, <2>2, <2>3, <2>5 DEF Shortest
  <2>6. CASE c > 1
    <3>1. c - 1 \in 0 .. MostDigits /\ c - 1 \in 0 .. MostDigits - 1 /\ (c - 1) + 1 = c BY <1>0
    <3>2. PICK p \in Nat \ {0} : p = b^(c - 1) BY <3>1, BasePowers
    <3>3. v < b * p /\ p <= v BY <2>6, <3>1, <3>2, BasePowers
    <3>4. PICK q \in Nat, r \in 0 .. p - 1 : q = v \div p /\ v = p * q + r BY DivisionIs
    <3>5. q > 0 BY <3>3, <3>4, SomethingDivided
    <3>6. q < b
      <4>2. b \in Nat BY DEF NumberBase
      <4>3. ASSUME q >= b PROVE FALSE
        <5>1. PICK u \in Nat : q = b + u BY <3>4, <4>2, <4>3
        <5>2. p * (b + u) = b * p + p * u /\ p * u \in Nat /\ b * p \in Nat BY <4>2
        <5>3. PICK x \in Nat, y \in Nat : x = b * p /\ y = p * u /\ v = x + y + r
          BY <3>4, <5>1, <5>2
        <5> QED BY <3>3, <5>3
      <4> QED BY <3>4, <4>2, <4>3
    <3>7. q % b = q BY <3>4, <3>6 DEF NumberBase
    <3>8. chars[head] # 0 BY <2>4, <3>2, <3>4, <3>5, <3>7
    <3> QED BY <2>2, <2>3, <3>8 DEF Shortest
  <2> QED BY <1>0, <2>5, <2>6
<1> QED BY <1>9, <1>10, <1>11, <1>12, Zenon DEF ReadsAs

-----------------------------------------------------------------------------
Field == [fmtLeadingZero : BOOLEAN, fmtBeforeDecimal : Nat \cup {-1}, fmtAfterDecimal : BOOLEAN]
Width(f) == IF f.fmtBeforeDecimal < 0 THEN 0 ELSE f.fmtBeforeDecimal

ReadsBack(chars, letter, value, width) ==
  /\ Numeral(chars)
  /\ ShownNumber(chars, Base[letter]) = ValueOf(letter, value)
  /\ Len(chars) >= width
  /\ Len(chars) > width => Shortest(chars)

LEMMA BaseIs ==
  /\ DOMAIN Base = {"d", "u", "o", "x"} /\ Base["x"] = 16
  /\ \A letter \in DOMAIN Base : Base[letter] \in NumberBase
BY DEF Base, NumberBase

LEMMA ValuesAre ==
  ASSUME NEW letter \in DOMAIN Base, NEW value \in 0 .. 2^WordBits - 1
  PROVE  LET negative == letter = "d" /\ Negative(value)
             v == IF negative THEN Strip(value) ELSE value
         IN  /\ v \in Nat /\ v < 2^WordBits
             /\ ValueOf(letter, value) = IF negative THEN -v ELSE v
<1>1. PICK W \in Nat \ {0}, H \in Nat \ {0} :
        W = 2^WordBits /\ H = 2^(WordBits - 1) /\ W = 2 * H
  BY WordsAreShort
<1>2. value \in 0 .. W - 1 BY <1>1
<1>3. Negative(value) <=> value >= H BY <1>1 DEF Negative
<1>4. Strip(value) = (W - value) % W BY <1>1 DEF Strip
<1>5. value >= H => (W - value) % W = W - value /\ W - value \in 0 .. W - 1 BY <1>1, <1>2
<1>6. ValueOf(letter, value) = IF letter = "d" /\ Negative(value) THEN value - W ELSE value
  BY <1>1 DEF ValueOf
<1> QED BY <1>1, <1>2, <1>3, <1>4, <1>5, <1>6

\* Three parts, one after the other.
IsJoined(w, x, y, z) ==
  /\ Len(w) = (Len(x) + Len(y)) + Len(z)
  /\ \A k \in 1 .. Len(x) : w[k] = x[k]
  /\ \A k \in 1 .. Len(y) : w[Len(x) + k] = y[k]
  /\ \A k \in 1 .. Len(z) : w[(Len(x) + Len(y)) + k] = z[k]

LEMMA ThreeJoined ==
  ASSUME NEW S, NEW x \in Seq(S), NEW y \in Seq(S), NEW z \in Seq(S)
  PROVE  x \o y \o z \in Seq(S) /\ IsJoined(x \o y \o z, x, y, z)
<1>1. /\ x \o y \in Seq(S) /\ Len(x \o y) = Len(x) + Len(y)
      /\ \A k \in 1 .. Len(x) : (x \o y)[k] = x[k]
      /\ \A k \in 1 .. Len(y) : (x \o y)[Len(x) + k] = y[k]
  BY JoinedIs
<1>2. PICK xy \in Seq(S) : xy = x \o y BY <1>1
<1>3. /\ xy \o z \in Seq(S) /\ Len(xy \o z) = Len(xy) + Len(z)
      /\ \A k \in 1 .. Len(xy) : (xy \o z)[k] = xy[k]
      /\ \A k \in 1 .. Len(z) : (xy \o z)[Len(xy) + k] = z[k]
  BY JoinedIs
<1>4. Len(x) \in Nat /\ Len(y) \in Nat /\ Len(xy) = Len(x) + Len(y) BY <1>1, <1>2
<1>5. \A k \in 1 .. Len(x) : (xy \o z)[k] = x[k]
  <2>1. \A k \in 1 .. Len(x) : k \in 1 .. Len(xy) BY <1>4
  <2> QED BY <1>1, <1>2, <1>3, <2>1, Zenon
<1>6. \A k \in 1 .. Len(y) : (xy \o z)[Len(x) + k] = y[k]
  <2>1. \A k \in 1 .. Len(y) : Len(x) + k \in 1 .. Len(xy) BY <1>4
  <2> QED BY <1>1, <1>2, <1>3, <2>1, Zenon
<1> QED BY <1>2, <1>3, <1>4, <1>5, <1>6, Zenon DEF IsJoined

LEMMA IntegerIsText ==
  ASSUME NEW letter \in DOMAIN Base, NEW value \in 0 .. 2^WordBits - 1, NEW f \in Field
  PROVE  LET chars == IntegerText(letter, f, value)
         IN  /\ chars \in Seq(PrintfChar)
             /\ ReadsBack(chars, letter, value, Width(f))
             /\ f.fmtLeadingZero => ~Shows(chars, Blank)
<1> DEFINE negative == letter = "d" /\ Negative(value)
           v == IF negative THEN Strip(value) ELSE value
           b == Base[letter]
           c == DigitCount(v, b)
           sign == IF negative THEN 1 ELSE 0
           signText == IF negative THEN <<Minus>> ELSE <<>>
           digits == DigitsOf(v, b, c)
           missing == f.fmtBeforeDecimal - c - sign
           n == IF missing > 0 THEN missing ELSE 0
           fill == IF f.fmtLeadingZero THEN 0 ELSE Blank
           pad == alt_log_repchar(fill, missing)
           chars == IntegerText(letter, f, value)
           blanks == IF f.fmtLeadingZero THEN 0 ELSE n
           zeros == IF f.fmtLeadingZero THEN n ELSE 0
<1>1. b \in NumberBase BY BaseIs
<1>2. /\ v \in Nat /\ v < 2^WordBits /\ ValueOf(letter, value) = IF negative THEN -v ELSE v
  BY ValuesAre
<1>3. v < b^MostDigits
  <2>1. PICK w \in Nat : w = 2^WordBits /\ w <= b^MostDigits BY <1>1, WordsAreShort
  <2>2. b^MostDigits \in Nat
    <3>1. MostDigits \in 0 .. MostDigits BY PrintfSizes
    <3> QED BY <1>1, <3>1, BasePowers
  <2> QED BY <1>2, <2>1, <2>2
<1>4. c \in 1 .. MostDigits /\ v < b^c /\ (c > 1 => b^(c - 1) <= v)
  BY <1>1, <1>2, <1>3, DigitCountIs, Zenon
<1>5. /\ digits \in Seq(0 .. 15) /\ Len(digits) = c /\ c \in Nat
      /\ \A k \in 1 .. c : digits[k] = (v \div b^(c - k)) % b
  BY <1>1, <1>2, <1>4, DigitsAre, Zenon
<1>6. /\ signText \in Seq(PrintfChar) /\ Len(signText) = sign /\ sign \in {0, 1}
      /\ sign = 1 => signText[1] = Minus
      /\ signText = <<>> <=> ~negative
  <2>1. Minus \in PrintfChar BY DEF PrintfChar
  <2> HIDE DEF negative
  <2> QED BY <2>1
<1>7. chars = IF f.fmtLeadingZero THEN signText \o pad \o digits ELSE pad \o signText \o digits
  <2>1. v = IF signText = <<>> THEN value ELSE Strip(value) BY <1>6
  <2>2. f.fmtBeforeDecimal - Len(digits) - Len(signText) = missing BY <1>5, <1>6
  <2> QED BY <2>1, <2>2 DEF IntegerText, Missing
<1>8. f.fmtBeforeDecimal \in Int /\ f.fmtBeforeDecimal >= -1 /\ f.fmtLeadingZero \in BOOLEAN BY DEF Field
<1> HIDE DEF digits, c, b, v, chars, signText, sign, pad, missing, n, fill
<1>9. /\ missing \in Int /\ n \in Nat
      /\ missing = f.fmtBeforeDecimal - c - sign /\ n = IF missing > 0 THEN missing ELSE 0
  BY <1>5, <1>6, <1>8 DEF missing, n
<1>9a. (missing > 0 => n = missing) /\ (~(missing > 0) => n = 0) BY <1>9
<1>10. /\ Len(pad) = n /\ pad \in Seq({fill}) /\ \A k \in 1 .. n : pad[k] = fill
  <2>1. missing \in Int /\ n \in Nat BY <1>9
  <2>2. /\ Len(alt_log_repchar(fill, missing)) = n /\ alt_log_repchar(fill, missing) \in Seq({fill})
        /\ \A k \in 1 .. n : alt_log_repchar(fill, missing)[k] = fill
    BY ONLY <2>1, <1>9a, RepeatedIs
  <2> QED BY ONLY <2>2 DEF pad
<1>11. /\ digits \in Seq(PrintfChar) /\ pad \in Seq(PrintfChar)
  <2>1. 0 .. 15 \subseteq PrintfChar /\ {fill} \subseteq PrintfChar
    BY DEF PrintfChar, fill
  <2>2. \A S : S \subseteq PrintfChar => Seq(S) \subseteq Seq(PrintfChar) OBVIOUS
  <2> QED BY <1>5, <1>10, <2>1, <2>2, Zenon
<1>12. IsText(chars, blanks, sign, zeros, c, v, b)
  <2>1. CASE f.fmtLeadingZero
    <3>1. chars = signText \o pad \o digits /\ blanks = 0 /\ zeros = n BY <1>7, <2>1
    <3>2. /\ chars \in Seq(PrintfChar) /\ Len(chars) = (sign + n) + c
          /\ \A k \in 1 .. sign : chars[k] = signText[k]
          /\ \A k \in 1 .. n : chars[sign + k] = pad[k]
          /\ \A k \in 1 .. c : chars[(sign + n) + k] = digits[k]
      <4>1. Len(signText) = sign /\ Len(pad) = n /\ Len(digits) = c BY <1>5, <1>6, <1>10
      <4>2. /\ signText \in Seq(PrintfChar) /\ pad \in Seq(PrintfChar)
            /\ digits \in Seq(PrintfChar)
        BY <1>6, <1>11
      <4>3. signText \o pad \o digits \in Seq(PrintfChar) /\ IsJoined(signText \o pad \o digits, signText, pad, digits)
        BY ONLY <4>2, ThreeJoined
      <4>4. chars \in Seq(PrintfChar) /\ IsJoined(chars, signText, pad, digits) BY ONLY <3>1, <4>3
      <4> QED BY ONLY <4>1, <4>4, Zenon DEF IsJoined
    <3>3. 0 + sign = sign /\ 0 + sign + n = sign + n /\ 0 + 1 = 1 /\ 1 .. 0 = {} BY <1>6, <1>9
    <3>4. sign = 1 => chars[1] = Minus
      <4>1. sign = 1 => 1 \in 1 .. sign OBVIOUS
      <4> QED BY <1>6, <3>2, <4>1, Zenon
    <3>5. \A k \in 1 .. n : chars[sign + k] = 0 BY <1>10, <2>1, <3>2, Zenon DEF fill
    <3>6. \A k \in 1 .. c : chars[(sign + n) + k] = (v \div b^(c - k)) % b BY <1>5, <3>2, Zenon
    <3>7. IsText(chars, 0, sign, n, c, v, b)
      BY <3>2, <3>3, <3>4, <3>5, <3>6, Zenon DEF IsText
    <3> QED BY <3>1, <3>7
  <2>2. CASE ~f.fmtLeadingZero
    <3>1. chars = pad \o signText \o digits /\ blanks = n /\ zeros = 0 BY <1>7, <2>2
    <3>2. /\ chars \in Seq(PrintfChar) /\ Len(chars) = (n + sign) + c
          /\ \A k \in 1 .. n : chars[k] = pad[k]
          /\ \A k \in 1 .. sign : chars[n + k] = signText[k]
          /\ \A k \in 1 .. c : chars[(n + sign) + k] = digits[k]
      <4>1. Len(signText) = sign /\ Len(pad) = n /\ Len(digits) = c BY <1>5, <1>6, <1>10
      <4>2. /\ signText \in Seq(PrintfChar) /\ pad \in Seq(PrintfChar)
            /\ digits \in Seq(PrintfChar)
        BY <1>6, <1>11
      <4>3. pad \o signText \o digits \in Seq(PrintfChar) /\ IsJoined(pad \o signText \o digits, pad, signText, digits)
        BY ONLY <4>2, ThreeJoined
      <4>4. chars \in Seq(PrintfChar) /\ IsJoined(chars, pad, signText, digits) BY ONLY <3>1, <4>3
      <4> QED BY ONLY <4>1, <4>4, Zenon DEF IsJoined
    <3>3. n + sign + 0 = n + sign /\ 1 .. 0 = {} BY <1>6, <1>9
    <3>4. sign = 1 => chars[n + 1] = Minus
      <4>1. sign = 1 => 1 \in 1 .. sign OBVIOUS
      <4> QED BY <1>6, <3>2, <4>1, Zenon
    <3>5. \A k \in 1 .. n : chars[k] = Blank BY <1>10, <2>2, <3>2, Zenon DEF fill
    <3>6. \A k \in 1 .. c : chars[(n + sign) + k] = (v \div b^(c - k)) % b BY <1>5, <3>2, Zenon
    <3>7. IsText(chars, n, sign, 0, c, v, b)
      BY <3>2, <3>3, <3>4, <3>5, <3>6, Zenon DEF IsText
    <3> QED BY <3>1, <3>7
  <2> QED BY <2>1, <2>2
<1>13. blanks \in Nat /\ zeros \in Nat /\ blanks + sign + zeros = n + sign BY <1>6, <1>8, <1>9
<1> HIDE DEF blanks, zeros
<1>14. /\ Numeral(chars)
       /\ ShownNumber(chars, b) = IF sign = 1 THEN -v ELSE v
       /\ blanks = 0 /\ zeros = 0 => Shortest(chars)
       /\ blanks = 0 => ~Shows(chars, Blank)
  <2>1. HasDigits(c, v, b) BY <1>4, Zenon DEF HasDigits
  <2>2. ReadsAs(chars, blanks, sign, zeros, v, b)
    BY <1>1, <1>2, <1>6, <1>12, <1>13, <2>1, TextReads, Zenon
  <2> QED BY <2>2, Zenon DEF ReadsAs
<1>15. Len(chars) = (n + sign) + c /\ chars \in Seq(PrintfChar)
  BY <1>12, <1>13, Zenon DEF IsText
<1>16. Len(chars) >= Width(f) /\ (Len(chars) > Width(f) => n = 0)
  <2>1. PICK w \in Int : w = f.fmtBeforeDecimal /\ w >= -1 BY <1>8
  <2>2. Width(f) = IF w < 0 THEN 0 ELSE w BY <2>1 DEF Width
  <2>3. PICK l \in Nat : l = Len(chars) /\ l = (n + sign) + c BY <1>5, <1>6, <1>9, <1>15
  <2>4. sign \in Nat /\ c \in Nat /\ c > 0
    <3>1. MostDigits \in Nat BY PrintfSizes
    <3> QED BY <1>4, <1>6, <3>1
  <2>5. missing = w - c - sign /\ n = IF missing > 0 THEN missing ELSE 0 BY <1>9, <2>1
  <2>6. l >= (IF w < 0 THEN 0 ELSE w) /\ (l > (IF w < 0 THEN 0 ELSE w) => n = 0)
    BY ONLY <1>9, <2>1, <2>3, <2>4, <2>5
  <2> QED BY <2>2, <2>3, <2>6
<1>17. n = 0 => blanks = 0 /\ zeros = 0 BY DEF blanks, zeros
<1>18. f.fmtLeadingZero => blanks = 0 BY DEF blanks
<1>19. ShownNumber(chars, b) = ValueOf(letter, value)
  <2>1. sign = 1 <=> negative BY DEF sign
  <2> QED BY <1>2, <1>14, <2>1, Zenon
<1> QED BY <1>14, <1>15, <1>16, <1>17, <1>18, <1>19 DEF ReadsBack, chars, b

LEMMA AltIsText ==
  ASSUME NEW value \in 0 .. 2^WordBits - 1
  PROVE  LET chars == AltText("x", value)
         IN  chars \in Seq(PrintfChar) /\ ReadsBack(chars, "x", value, 0) /\ ~Shows(chars, Blank)
<1> DEFINE chars == AltText("x", value)
           c == IF value = 0 THEN 1 ELSE FirstShift(value) + 1
<1>1. 16 \in NumberBase /\ Base["x"] = 16 /\ value \in Nat /\ "x" \in DOMAIN Base
      /\ ValueOf("x", value) = value
  <2>1. PICK w \in Nat \ {0} : w = 2^WordBits BY WordsAreShort
  <2> QED BY <2>1, BaseIs DEF NumberBase, ValueOf
<1>2. c \in 1 .. MostDigits /\ value < 16^c /\ (c > 1 => 16^(c - 1) <= value)
  <2>1. CASE value = 0
    <3>1. 1 \in 1 .. MostDigits /\ 1 \in 0 .. MostDigits BY PrintfSizes
    <3>2. PICK p \in Nat \ {0} : p = 16^1 BY <1>1, <3>1, BasePowers
    <3> QED BY <2>1, <3>1, <3>2
  <2>2. CASE value # 0
    <3> DEFINE Q == WordBits \div 4
               s == FirstShift(value)
    <3>1. Q \in Nat \ {0} /\ Q < MostDigits /\ Q \in 1 .. MostDigits /\ MostDigits \in Nat BY PrintfSizes
    <3>2. value < 16^Q
      <4>1. PICK w \in Nat \ {0} : w = 2^WordBits /\ w = 16^Q BY WordsAreShort
      <4> QED BY <4>1
    <3> HIDE DEF Q
    <3>3. PICK d \in 1 .. Q : value < 16^d /\ (d > 1 => 16^(d - 1) <= value)
      BY <1>1, <3>1, <3>2, LengthExists
    <3>4. d - 1 \in 0 .. Q - 1 /\ d - 1 \in 0 .. MostDigits - 1 /\ (d - 1) + 1 = d /\ d - 1 \in 0 .. MostDigits
      BY <3>1
    <3>5. value \div 16^(d - 1) \in 1 .. 15
      <4>1. PICK p \in Nat \ {0} : p = 16^(d - 1) BY <1>1, <3>4, BasePowers
      <4>2. value < 16 * p BY <1>1, <3>3, <3>4, <4>1, BasePowers
      <4>3. p <= value
        <5>1. CASE d = 1
          <6>1. p = 1 BY <1>1, <4>1, <5>1, BasePowers
          <6> QED BY <1>1, <2>2, <6>1
        <5>2. CASE d > 1 BY <3>3, <4>1, <5>2
        <5> QED BY <3>1, <5>1, <5>2
      <4>4. PICK q \in Nat, r \in 0 .. p - 1 : q = value \div p /\ value = p * q + r BY <1>1, DivisionIs
      <4>5. q > 0 BY <1>1, <4>3, <4>4, SomethingDivided
      <4>6. q < 16
        <5>1. ASSUME q >= 16 PROVE FALSE
          <6>1. PICK u \in Nat : q = 16 + u BY <4>4, <5>1
          <6>2. p * (16 + u) = 16 * p + p * u /\ p * u \in Nat OBVIOUS
          <6>3. PICK y \in Nat : y = p * u /\ value = 16 * p + y + r BY <4>4, <6>1, <6>2
          <6> QED BY <4>2, <6>3
        <5> QED BY <4>4, <5>1
      <4> QED BY <4>1, <4>4, <4>5, <4>6
    <3>6. s \in 0 .. Q - 1 /\ value \div 16^s \in 1 .. 15
      <4>1. \E k \in 0 .. Q - 1 : value \div 16^k \in 1 .. 15 BY <3>4, <3>5
      <4> QED BY <4>1, Zenon DEF FirstShift, Q
    <3> HIDE DEF s
    <3>7. s + 1 \in 1 .. MostDigits /\ s \in 0 .. MostDigits - 1 /\ (s + 1) - 1 = s /\ s \in 0 .. MostDigits
      BY <3>1, <3>6
    <3>8. PICK p \in Nat \ {0} : p = 16^s /\ 16^(s + 1) = 16 * p BY <1>1, <3>7, BasePowers
    <3>9. PICK q \in Nat, r \in 0 .. p - 1 : q = value \div p /\ value = p * q + r BY <1>1, DivisionIs
    <3>10. q \in 1 .. 15 BY <3>6, <3>8, <3>9
    <3>11. p <= value BY <1>1, <3>9, <3>10, SomethingDivided
    <3>12. value < 16 * p
      <4>1. PICK u \in Nat : 15 = q + u BY <3>10
      <4>2. p * (q + u) = p * q + p * u /\ p * u \in Nat /\ p * q \in Nat BY <3>9
      <4>3. PICK x \in Nat, y \in Nat : x = p * q /\ y = p * u /\ p * 15 = x + y BY <4>1, <4>2
      <4> QED BY <3>9, <4>3
    <3>13. c = s + 1 BY <2>2 DEF s
    <3> QED BY <3>7, <3>8, <3>11, <3>12, <3>13
  <2> QED BY <2>1, <2>2
<1>3. chars = DigitsOf(value, 16, c)
  <2>1. CASE value # 0 BY <2>1 DEF AltText
  <2>2. CASE value = 0
    <3>1. chars = <<0>> BY <2>2 DEF AltText
    <3>2. DigitsOf(value, 16, 1) = [k \in 1 .. 1 |-> (0 \div 16^(1 - k)) % 16] BY <2>2 DEF DigitsOf
    <3>3. \A k \in 1 .. 1 : k = 1 /\ 1 - k = 0 OBVIOUS
    <3>4. 16^0 = 1 BY <1>1, BasePowers
    <3>5. (0 \div 1) % 16 = 0 OBVIOUS
    <3>6. \A k \in 1 .. 1 : (0 \div 16^(1 - k)) % 16 = 0 BY <3>3, <3>4, <3>5
    <3>7. DigitsOf(value, 16, 1) = [k \in 1 .. 1 |-> 0] BY <3>2, <3>6
    <3>8. <<0>> = [k \in 1 .. 1 |-> 0] OBVIOUS
    <3> QED BY <2>2, <3>1, <3>7, <3>8
  <2> QED BY <2>1, <2>2
<1> HIDE DEF c, chars
<1>4. /\ chars \in Seq(0 .. 15) /\ Len(chars) = c /\ c \in Nat
      /\ \A k \in 1 .. c : chars[k] = (value \div 16^(c - k)) % 16
  BY <1>1, <1>2, <1>3, DigitsAre, Zenon
<1>5. chars \in Seq(PrintfChar)
  <2>1. 0 .. 15 \subseteq PrintfChar BY DEF PrintfChar
  <2>2. \A S : S \subseteq PrintfChar => Seq(S) \subseteq Seq(PrintfChar) OBVIOUS
  <2> QED BY <1>4, <2>1, <2>2, Zenon
<1>6. IsText(chars, 0, 0, 0, c, value, 16)
  <2>1. 1 .. 0 = {} /\ 0 + 0 + 0 = 0 /\ 0 + c = c /\ 0 # 1 /\ \A k \in 1 .. c : 0 + k = k BY <1>4
  <2> QED BY <1>4, <1>5, <2>1, Zenon DEF IsText
<1>7. /\ Numeral(chars) /\ ShownNumber(chars, 16) = value /\ Shortest(chars)
      /\ ~Shows(chars, Blank)
  <2>1. 0 \in Nat /\ 0 \in {0, 1} /\ 0 # 1 OBVIOUS
  <2>2. HasDigits(c, value, 16) BY <1>2, Zenon DEF HasDigits
  <2>3. ReadsAs(chars, 0, 0, 0, value, 16)
    BY <1>1, <1>6, <2>1, <2>2, TextReads, Zenon
  <2> QED BY <2>1, <2>3, Zenon DEF ReadsAs
<1>8. Len(chars) >= 0 BY <1>4
<1> QED BY <1>1, <1>5, <1>7, <1>8 DEF ReadsBack, chars
-----------------------------------------------------------------------------
(***************************************************************************)
(* A directive, character by character: the width it asks for.             *)
(***************************************************************************)
HasPoint(d) == \E k \in 1 .. Len(d) : d[k] = "."
WidthChars(d) == [k \in 1 .. Len(d) |-> IF InWidth(d, k) THEN DigitOf[d[k]] ELSE Literal]

LEMMA DigitsOfFormat ==
  /\ DOMAIN DigitOf = {"0", "1", "2"}
  /\ DigitOf["0"] = 0 /\ DigitOf["1"] = 1 /\ DigitOf["2"] = 2
  /\ \A c \in DOMAIN DigitOf : DigitOf[c] \in 0 .. 2
BY DEF DigitOf

LEMMA WidthOfNothing == WidthOf(<<>>) = 0
<1>1. WidthChars(<<>>) = <<>> BY DEF WidthChars
<1>2. Len(<<>>) = 0 /\ 0 \in Nat OBVIOUS
<1>3. Number(<<>>, 10) = 0 BY <1>2, NumberUnfolds
<1>4. WidthOf(<<>>) = Number(WidthChars(<<>>), 10) BY Zenon DEF WidthOf, WidthChars
<1> QED BY <1>1, <1>3, <1>4

LEMMA WidthAppended ==
  ASSUME NEW d \in Seq(FormatChars), NEW c \in FormatChars
  PROVE  /\ HasPoint(Append(d, c)) <=> HasPoint(d) \/ c = "."
         /\ c \in DOMAIN DigitOf /\ ~HasPoint(d) =>
              WidthOf(Append(d, c)) = 10 * WidthOf(d) + DigitOf[c]
         /\ ~(c \in DOMAIN DigitOf /\ ~HasPoint(d)) => WidthOf(Append(d, c)) = WidthOf(d)
<1> DEFINE e == Append(d, c)
           n == Len(d)
           x == WidthChars(d)
           y == WidthChars(e)
<1>1. n \in Nat /\ Len(e) = n + 1 /\ e[n + 1] = c /\ \A k \in 1 .. n : e[k] = d[k] OBVIOUS
<1>2. WidthOf(d) = Number(x, 10) /\ WidthOf(e) = Number(y, 10)
  BY Zenon DEF WidthOf, WidthChars
<1>3. Len(x) = n /\ x = [k \in 1 .. n |-> IF InWidth(d, k) THEN DigitOf[d[k]] ELSE Literal]
  BY <1>1 DEF WidthChars
<1>4. /\ Len(y) = n + 1
      /\ y = [k \in 1 .. n + 1 |-> IF InWidth(e, k) THEN DigitOf[e[k]] ELSE Literal]
  <2>1. PICK m \in Nat : m = n + 1 BY <1>1
  <2>2. y = [k \in 1 .. m |-> IF InWidth(e, k) THEN DigitOf[e[k]] ELSE Literal]
    BY <1>1, <2>1, Zenon DEF WidthChars
  <2>3. Len(y) = m BY <2>1, <2>2
  <2> QED BY <2>1, <2>2, <2>3
<1> HIDE DEF e, n, x, y
<1>5. HasPoint(e) <=> HasPoint(d) \/ c = "."
  <2>1. \A k \in 1 .. n + 1 : k \in 1 .. n \/ k = n + 1 BY <1>1
  <2>2. \A k \in 1 .. n : k \in 1 .. n + 1 BY <1>1
  <2>3. n + 1 \in 1 .. n + 1 BY <1>1
  <2> QED BY <1>1, <2>1, <2>2, <2>3, Zenon DEF HasPoint, n
<1>6. \A k \in 1 .. n : y[k] = x[k]
  <2> TAKE k \in 1 .. n
  <2>1. k \in 1 .. n + 1 /\ \A p \in 1 .. k : p \in 1 .. n BY <1>1
  <2>2. e[k] = d[k] BY <1>1
  <2>3. InWidth(e, k) <=> InWidth(d, k) BY <1>1, <2>1, <2>2, Zenon DEF InWidth
  <2> QED BY <1>3, <1>4, <2>1, <2>2, <2>3, Zenon
<1>7. y[n + 1] = IF c \in DOMAIN DigitOf /\ ~HasPoint(d) THEN DigitOf[c] ELSE Literal
  <2>1. n + 1 \in 1 .. n + 1 BY <1>1
  <2>2. (\A p \in 1 .. n + 1 : e[p] # ".") <=> ~HasPoint(e) BY <1>1, Zenon DEF HasPoint
  <2>3. c \in DOMAIN DigitOf => c # "." BY DigitsOfFormat
  <2>4. InWidth(e, n + 1) <=> c \in DOMAIN DigitOf /\ ~HasPoint(d)
    BY <1>1, <1>5, <2>2, <2>3, Zenon DEF InWidth
  <2> QED BY <1>1, <1>4, <2>1, <2>4
<1>8. WidthOf(e) = ReadOn(10, WidthOf(d), y[n + 1])
  <2>1. Len(x) \in Nat /\ Len(y) = Len(x) + 1 /\ \A k \in 1 .. Len(x) : y[k] = x[k]
    BY <1>1, <1>3, <1>4, <1>6, Zenon
  <2>2. Number(y, 10) = ReadOn(10, Number(x, 10), y[Len(x) + 1])
    BY ONLY <2>1, NumberAppended, Zenon
  <2> QED BY <1>2, <1>3, <2>2, Zenon
<1>9. c \in DOMAIN DigitOf /\ ~HasPoint(d) => WidthOf(e) = 10 * WidthOf(d) + DigitOf[c]
  <2> SUFFICES ASSUME c \in DOMAIN DigitOf, ~HasPoint(d)
               PROVE  WidthOf(e) = 10 * WidthOf(d) + DigitOf[c] OBVIOUS
  <2>1. y[n + 1] = DigitOf[c] BY <1>7
  <2>2. DigitOf[c] < 16
    <3>1. DigitOf[c] \in 0 .. 2 BY DigitsOfFormat
    <3> QED BY <3>1
  <2> QED BY <1>8, <2>1, <2>2, Zenon DEF ReadOn
<1>10. ~(c \in DOMAIN DigitOf /\ ~HasPoint(d)) => WidthOf(e) = WidthOf(d)
  <2> SUFFICES ASSUME ~(c \in DOMAIN DigitOf /\ ~HasPoint(d)) PROVE WidthOf(e) = WidthOf(d)
    OBVIOUS
  <2>1. y[n + 1] = Literal BY <1>7
  <2>2. ~(Literal < 16) BY DEF Literal
  <2> QED BY <1>8, <2>1, <2>2, Zenon DEF ReadOn
<1> QED BY <1>5, <1>9, <1>10 DEF e
-----------------------------------------------------------------------------
(***************************************************************************)
(* The fields are what was read of a directive.                            *)
(***************************************************************************)
FieldsRead(d, f) ==
  /\ f \in Field
  /\ f.fmtLeadingZero <=> d # <<>> /\ d[1] = "0"
  /\ f.fmtAfterDecimal <=> HasPoint(d)
  /\ Width(f) = WidthOf(d)

LEMMA NothingRead == FieldsRead(<<>>, NoFields)
<1>1. /\ NoFields \in Field /\ ~NoFields.fmtLeadingZero /\ ~NoFields.fmtAfterDecimal
      /\ Width(NoFields) = 0
  BY DEF NoFields, Field, Width
<1>2. ~HasPoint(<<>>) BY DEF HasPoint
<1> QED BY <1>1, <1>2, WidthOfNothing DEF FieldsRead

LEMMA Appended ==
  ASSUME NEW d \in Seq(FormatChars), NEW c \in FormatChars
  PROVE  LET e == Append(d, c)
         IN  /\ e \in Seq(FormatChars) /\ e # <<>> /\ e[Len(e)] = c /\ Head(e) = e[1]
             /\ e[1] = IF d = <<>> THEN c ELSE d[1]
<1>1. Append(d, c) \in Seq(FormatChars) /\ Len(Append(d, c)) = Len(d) + 1 OBVIOUS
<1>2. Append(d, c)[Len(d) + 1] = c /\ \A k \in 1 .. Len(d) : Append(d, c)[k] = d[k] OBVIOUS
<1>3. Append(d, c) # <<>>
  <2>1. Len(d) \in Nat /\ Len(<<>>) = 0 OBVIOUS
  <2> QED BY <1>1, <2>1
<1>4. Head(Append(d, c)) = Append(d, c)[1] OBVIOUS
<1>5. d # <<>> => 1 \in 1 .. Len(d) OBVIOUS
<1>6. d = <<>> => Len(d) + 1 = 1 OBVIOUS
<1> QED BY <1>1, <1>2, <1>3, <1>4, <1>5, <1>6, Zenon

\* A zero that comes first, and every other character that changes a field.
LEMMA ZeroRead ==
  LET f == [NoFields EXCEPT !.fmtLeadingZero = TRUE]
  IN  FieldsRead(Append(<<>>, "0"), f)
<1> DEFINE f == [NoFields EXCEPT !.fmtLeadingZero = TRUE]
           e == Append(<<>>, "0")
<1>1. f \in Field /\ f.fmtLeadingZero /\ ~f.fmtAfterDecimal /\ Width(f) = 0
  <2>1. /\ NoFields \in Field /\ NoFields.fmtBeforeDecimal = -1
        /\ NoFields.fmtAfterDecimal = FALSE
    BY DEF NoFields, Field
  <2>2. PICK n \in Field : n = NoFields BY <2>1
  <2>3. /\ f \in Field /\ f.fmtLeadingZero = TRUE /\ f.fmtBeforeDecimal = n.fmtBeforeDecimal
        /\ f.fmtAfterDecimal = n.fmtAfterDecimal
    BY ONLY <2>2 DEF Field, f
  <2> QED BY <2>1, <2>2, <2>3 DEF Width
<1>2. "0" \in FormatChars /\ "0" \in DOMAIN DigitOf /\ DigitOf["0"] = 0 /\ "0" # "."
  BY DigitsOfFormat DEF FormatChars
<1>3. <<>> \in Seq(FormatChars) /\ ~HasPoint(<<>>) BY DEF HasPoint
<1>4. e # <<>> /\ e[1] = "0" BY <1>2, <1>3, Appended
<1>5. ~HasPoint(e) /\ WidthOf(e) = 10 * WidthOf(<<>>) + DigitOf["0"]
  BY <1>2, <1>3, WidthAppended
<1>6. WidthOf(e) = 0 BY <1>2, <1>5, WidthOfNothing
<1> HIDE DEF e, f
<1> QED BY <1>1, <1>4, <1>5, <1>6 DEF FieldsRead, e, f

\* What Fields() makes of the fields, whatever they are.
NewFields(f, c) ==
  CASE c = "." -> [f EXCEPT !.fmtAfterDecimal = TRUE]
    [] c \in DOMAIN DigitOf /\ ~f.fmtAfterDecimal ->
         [f EXCEPT !.fmtBeforeDecimal = (IF @ < 0 THEN 0 ELSE @ * 10) + DigitOf[c]]
    [] OTHER -> f

LEMMA CharRead ==
  ASSUME NEW d \in Seq(FormatChars), NEW f, FieldsRead(d, f),
         NEW c \in {".", "l"} \cup DOMAIN DigitOf, d = <<>> => c # "0"
  PROVE  FieldsRead(Append(d, c), NewFields(f, c))
<1> DEFINE e == Append(d, c)
           g == NewFields(f, c)
<1>1. c \in FormatChars BY DEF FormatChars
<1>2. e # <<>> /\ e[1] = IF d = <<>> THEN c ELSE d[1] BY <1>1, Appended
<1>3. /\ HasPoint(e) <=> HasPoint(d) \/ c = "."
      /\ c \in DOMAIN DigitOf /\ ~HasPoint(d) => WidthOf(e) = 10 * WidthOf(d) + DigitOf[c]
      /\ ~(c \in DOMAIN DigitOf /\ ~HasPoint(d)) => WidthOf(e) = WidthOf(d)
  BY <1>1, WidthAppended
<1>4. /\ f \in Field /\ (f.fmtLeadingZero <=> d # <<>> /\ d[1] = "0")
      /\ f.fmtAfterDecimal <=> HasPoint(d)
      /\ Width(f) = WidthOf(d)
  BY DEF FieldsRead
<1>5. PICK z \in BOOLEAN, w \in Nat \cup {-1}, p \in BOOLEAN :
        f = [fmtLeadingZero |-> z, fmtBeforeDecimal |-> w, fmtAfterDecimal |-> p]
  BY <1>4 DEF Field
<1>6. f.fmtLeadingZero = z /\ f.fmtBeforeDecimal = w /\ f.fmtAfterDecimal = p BY <1>5
<1>7. Width(f) = IF w < 0 THEN 0 ELSE w BY <1>6 DEF Width
<1>8. e # <<>> /\ e[1] = "0" <=> d # <<>> /\ d[1] = "0" BY <1>2
<1>9. CASE c = "."
  <2>1. g = [f EXCEPT !.fmtAfterDecimal = TRUE] BY <1>9, DigitsOfFormat DEF NewFields
  <2>2. /\ g \in Field /\ g.fmtLeadingZero = z /\ g.fmtBeforeDecimal = w
        /\ g.fmtAfterDecimal = TRUE
    BY <1>5, <2>1 DEF Field
  <2>3. c \notin DOMAIN DigitOf BY <1>9, DigitsOfFormat
  <2>4. Width(g) = Width(f) BY <1>7, <2>2 DEF Width
  <2> HIDE DEF g, e
  <2> QED BY <1>3, <1>4, <1>6, <1>8, <1>9, <2>2, <2>3, <2>4, Zenon DEF FieldsRead, g, e
<1>10. CASE c \in DOMAIN DigitOf /\ ~f.fmtAfterDecimal
  <2>1. c # "." BY <1>10, DigitsOfFormat
  <2>2. PICK k \in 0 .. 2 : k = DigitOf[c] BY <1>10, DigitsOfFormat
  <2>3. PICK u \in Nat : u = (IF w < 0 THEN 0 ELSE w * 10) + k OBVIOUS
  <2>4. g = [f EXCEPT !.fmtBeforeDecimal = u]
    BY <1>6, <1>10, <2>1, <2>2, <2>3 DEF NewFields
  <2>5. /\ g \in Field /\ g.fmtLeadingZero = z /\ g.fmtBeforeDecimal = u
        /\ g.fmtAfterDecimal = p
    BY <1>5, <2>4 DEF Field
  <2>6. Width(g) = u BY <2>3, <2>5 DEF Width
  <2>7. 10 * Width(f) + k = u BY <1>7, <2>3
  <2>8. Width(g) = WidthOf(e) BY <1>3, <1>4, <1>10, <2>2, <2>6, <2>7
  <2> HIDE DEF g, e
  <2> QED BY <1>3, <1>4, <1>6, <1>8, <1>10, <2>1, <2>5, <2>8 DEF FieldsRead, g, e
<1>11. CASE c # "." /\ ~(c \in DOMAIN DigitOf /\ ~f.fmtAfterDecimal)
  <2>1. g = f BY <1>11 DEF NewFields
  <2> HIDE DEF g, e
  <2> QED BY <1>3, <1>4, <1>8, <1>11, <2>1 DEF FieldsRead, g, e
<1> QED BY <1>9, <1>10, <1>11

\* A letter ends the directive: the number it prints.
LEMMA NumberShown ==
  ASSUME NEW d \in Seq(FormatChars), NEW f, FieldsRead(d, f),
         NEW c \in DOMAIN Base, NEW value \in Args
  PROVE  /\ IntegerText(c, f, value) \in Seq(PrintfChar)
         /\ ReadsBack(IntegerText(c, f, value), c, value, WidthOf(Append(d, c)))
         /\ Head(Append(d, c)) = "0" => ~Shows(IntegerText(c, f, value), Blank)
<1>1. value \in 0 .. 2^WordBits - 1 BY PrintfAssumption
<1>2. c \in FormatChars /\ c \notin DOMAIN DigitOf /\ c # "0"
  BY BaseIs, DigitsOfFormat DEF FormatChars, Letters
<1>3. WidthOf(Append(d, c)) = WidthOf(d) BY <1>2, WidthAppended
<1>4. f \in Field /\ Width(f) = WidthOf(d) /\ (f.fmtLeadingZero <=> d # <<>> /\ d[1] = "0")
  BY DEF FieldsRead
<1>5. Head(Append(d, c)) = IF d = <<>> THEN c ELSE d[1] BY <1>2, Appended
<1>6. /\ IntegerText(c, f, value) \in Seq(PrintfChar)
      /\ ReadsBack(IntegerText(c, f, value), c, value, Width(f))
      /\ f.fmtLeadingZero => ~Shows(IntegerText(c, f, value), Blank)
  BY <1>1, <1>4, IntegerIsText, Zenon
<1> QED BY <1>2, <1>3, <1>4, <1>5, <1>6, Zenon
LEMMA CharsPrinted ==
  ASSUME NEW value \in Nat, NEW f \in Field
  PROVE  /\ StringText(f, value) \in Seq(PrintfChar)
         /\ alt_log_repchar(Literal, value) \in Seq(PrintfChar)
         /\ <<Literal>> \in Seq(PrintfChar)
<1>1. \A x \in PrintfChar : \A r \in Int : alt_log_repchar(x, r) \in Seq(PrintfChar)
  BY DEF alt_log_repchar
<1>2. Blank \in PrintfChar /\ Literal \in PrintfChar BY DEF PrintfChar
<1>3. f.fmtBeforeDecimal - value \in Int /\ value \in Int BY DEF Field
<1>4. /\ alt_log_repchar(Blank, f.fmtBeforeDecimal - value) \in Seq(PrintfChar)
      /\ alt_log_repchar(Literal, value) \in Seq(PrintfChar)
  BY <1>1, <1>2, <1>3, Zenon
<1>5. StringText(f, value) \in Seq(PrintfChar) BY <1>4, JoinedIs, Zenon DEF StringText
<1>6. <<Literal>> \in Seq(PrintfChar) BY <1>2
<1> QED BY <1>4, <1>5, <1>6

\* What is printed is characters, and a number for a letter of numbers.
LEMMA LogTextIs ==
  ASSUME NEW d \in Seq(FormatChars), NEW f, FieldsRead(d, f),
         NEW c \in FormatChars, NEW value \in ArgsOf(c)
  PROVE  /\ LogText(c, f, value) \in Seq(PrintfChar)
         /\ c \in DOMAIN Base =>
              /\ ReadsBack(LogText(c, f, value), c, value, WidthOf(Append(d, c)))
              /\ Head(Append(d, c)) = "0" => ~Shows(LogText(c, f, value), Blank)
<1>1. CASE c \in DOMAIN Base
  <2>1. value \in Args /\ LogText(c, f, value) = IntegerText(c, f, value)
    <3>1. c \notin {"c", "s"} BY <1>1, BaseIs
    <3> QED BY <1>1, <3>1 DEF ArgsOf, LogText
  <2> QED BY <1>1, <2>1, NumberShown, Zenon
<1>2. CASE c \notin DOMAIN Base
  <2>1. value \in Nat /\ f \in Field
    BY <1>2, PrintfAssumption DEF ArgsOf, FieldsRead
  <2>2. LogText(c, f, value) = StringText(f, value) \/ LogText(c, f, value) = <<>>
    BY <1>2 DEF LogText
  <2>3. <<>> \in Seq(PrintfChar) OBVIOUS
  <2> QED BY <1>2, <2>1, <2>2, <2>3, CharsPrinted, Zenon
<1> QED BY <1>1, <1>2

LEMMA AltTextIs ==
  ASSUME NEW c \in FormatChars, NEW value \in ArgsOf(c)
  PROVE  /\ AltText(c, value) \in Seq(PrintfChar)
         /\ c = "x" => ReadsBack(AltText(c, value), "x", value, 0)
<1>1. CASE c = "x"
  <2>1. value \in Args BY <1>1, BaseIs, Zenon DEF ArgsOf
  <2>2. value \in 0 .. 2^WordBits - 1 BY <2>1, PrintfAssumption
  <2> QED BY <1>1, <2>2, AltIsText, Zenon
<1>2. CASE c # "x"
  <2>1. \/ AltText(c, value) = alt_log_repchar(Literal, value) /\ c \in {"c", "s"}
        \/ AltText(c, value) = <<>>
    BY <1>2 DEF AltText
  <2>2. c \in {"c", "s"} => value \in Nat
    BY BaseIs, PrintfAssumption DEF ArgsOf
  <2>3. c \in {"c", "s"} => alt_log_repchar(Literal, value) \in Seq(PrintfChar)
    <3>1. NoFields \in Field BY NothingRead DEF FieldsRead
    <3> QED BY <2>2, <3>1, CharsPrinted
  <2>4. <<>> \in Seq(PrintfChar) OBVIOUS
  <2> QED BY <1>2, <2>1, <2>3, <2>4, Zenon
<1> QED BY <1>1, <1>2

-----------------------------------------------------------------------------
(***************************************************************************)
(* The inductive invariant: the fields are what was read of the directive. *)
(***************************************************************************)
InDirective == pfState \in {"firstFmtChar", "otherFmtChar"}
PrintfInv ==
  /\ printer \in {"alt_log", "alt_printf"}
  /\ pfState \in {"chars", "firstFmtChar", "otherFmtChar", "escape"}
  /\ fmt \in Field /\ directive \in Seq(FormatChars) /\ text \in Seq(PrintfChar)
  /\ pfState = "escape" => printer = "alt_printf"
  /\ pfState = "firstFmtChar" => directive = <<>> /\ fmt = NoFields
  /\ pfState = "otherFmtChar" => directive # <<>>
  /\ InDirective => FieldsRead(directive, fmt)
  /\ NumbersReadBack

LEMMA PrintfInitInv == PrintfInit => PrintfInv
<1> SUFFICES ASSUME PrintfInit PROVE PrintfInv OBVIOUS
<1>1. NoFields \in Field BY NothingRead DEF FieldsRead
<1>2. <<>> \in Seq(FormatChars) /\ <<>> \in Seq(PrintfChar) OBVIOUS
<1>3. NumbersReadBack BY DEF PrintfInit, NumbersReadBack
<1>4. ~InDirective BY DEF PrintfInit, InDirective
<1> QED BY <1>1, <1>2, <1>3, <1>4 DEF PrintfInit, PrintfInv

\* Nothing is claimed outside "chars", or before a directive has ended.
LEMMA NothingShown ==
  ASSUME pfState' # "chars" \/ directive' = <<>>
  PROVE  NumbersReadBack'
BY DEF NumbersReadBack

LEMMA CharsPreserves ==
  ASSUME PrintfInv, NEW c \in FormatChars, CharsState(c), printer' = printer
  PROVE  PrintfInv'
<1>1. directive' = <<>> BY DEF CharsState
<1>2. NumbersReadBack' BY <1>1, NothingShown
<1>3. NoFields \in Field /\ FieldsRead(<<>>, NoFields) BY NothingRead DEF FieldsRead
<1>4. <<Literal>> \in Seq(PrintfChar) /\ <<>> \in Seq(PrintfChar) /\ <<>> \in Seq(FormatChars)
  BY DEF PrintfChar
<1>5. CASE c = "%"
  <2>1. /\ fmt' = NoFields /\ text' = <<>>
        /\ pfState' = IF printer = "alt_log" THEN "firstFmtChar" ELSE "escape"
    BY <1>5 DEF CharsState
  <2>2. (InDirective => FieldsRead(directive, fmt))' BY <1>1, <1>3, <2>1
  <2> QED BY <1>1, <1>2, <1>3, <1>4, <2>1, <2>2 DEF PrintfInv
<1>6. CASE c # "%"
  <2>1. fmt' = fmt /\ text' = <<Literal>> /\ pfState' = "chars"
    BY <1>6 DEF CharsState, Shown
  <2>2. ~InDirective' BY <2>1 DEF InDirective
  <2> QED BY <1>1, <1>2, <1>4, <2>1, <2>2 DEF PrintfInv
<1> QED BY <1>5, <1>6

LEMMA EscapePreserves ==
  ASSUME PrintfInv, NEW c \in FormatChars, EscapeState(c), printer' = printer
  PROVE  PrintfInv'
<1>1. /\ pfState = "escape" /\ directive' = <<c>> /\ arg' \in ArgsOf(c)
      /\ text' = (IF c = "%" THEN <<Literal>> ELSE AltText(c, arg'))
      /\ pfState' = "chars" /\ fmt' = fmt
  BY DEF EscapeState, Shown
<1>2. printer' = "alt_printf" BY <1>1 DEF PrintfInv
<1>3. <<c>> \in Seq(FormatChars) /\ <<c>>[Len(<<c>>)] = c /\ Head(<<c>>) = c OBVIOUS
<1>4. /\ AltText(c, arg') \in Seq(PrintfChar)
      /\ c = "x" => ReadsBack(AltText(c, arg'), "x", arg', 0)
  BY <1>1, AltTextIs
<1>5. <<Literal>> \in Seq(PrintfChar) BY DEF PrintfChar
<1>6. text' \in Seq(PrintfChar) BY <1>1, <1>4, <1>5
<1>7. NumbersReadBack'
  <2>1. CASE c # "x" BY <1>1, <1>2, <1>3, <2>1 DEF NumbersReadBack
  <2>2. CASE c = "x"
    <3>1. c # "%" /\ c # "0" /\ c \notin DOMAIN DigitOf BY <2>2, DigitsOfFormat
    <3>2. WidthOf(<<c>>) = 0
      <4>1. <<>> \in Seq(FormatChars) /\ Append(<<>>, c) = <<c>> OBVIOUS
      <4> QED BY <3>1, <4>1, WidthAppended, WidthOfNothing
    <3>3. ReadsBack(text', "x", arg', 0) BY <1>1, <1>4, <2>2, <3>1
    <3> QED BY <1>1, <1>3, <2>2, <3>1, <3>2, <3>3 DEF NumbersReadBack, ReadsBack
  <2> QED BY <2>1, <2>2
<1>8. ~InDirective' BY <1>1 DEF InDirective
<1> QED BY <1>1, <1>3, <1>6, <1>7, <1>8 DEF PrintfInv

LEMMA FmtCharPreserves ==
  ASSUME PrintfInv, NEW c \in FormatChars, FmtCharState(c), printer' = printer
  PROVE  PrintfInv'
<1>1. /\ directive \in Seq(FormatChars) /\ FieldsRead(directive, fmt) /\ fmt \in Field
      /\ directive' = Append(directive, c)
      /\ pfState = "firstFmtChar" => directive = <<>> /\ fmt = NoFields
      /\ pfState = "otherFmtChar" => directive # <<>>
      /\ pfState \in {"firstFmtChar", "otherFmtChar"}
      /\ text \in Seq(PrintfChar)
  BY DEF PrintfInv, FmtCharState, InDirective
<1>2. /\ directive' \in Seq(FormatChars) /\ directive' # <<>>
      /\ directive'[Len(directive')] = c
  BY <1>1, Appended
<1>3. ASSUME pfState' = "otherFmtChar", FieldsRead(directive', fmt'), text' = text
      PROVE  PrintfInv'
  <2>1. NumbersReadBack' BY <1>3, NothingShown
  <2>2. fmt' \in Field BY <1>3 DEF FieldsRead
  <2> QED BY <1>1, <1>2, <1>3, <2>1, <2>2 DEF PrintfInv
<1>4. ASSUME pfState' = "chars", fmt' = fmt, text' \in Seq(PrintfChar), NumbersReadBack'
      PROVE  PrintfInv'
  <2>1. ~InDirective' BY <1>4 DEF InDirective
  <2> QED BY <1>1, <1>2, <1>4, <2>1 DEF PrintfInv
<1>5. CASE pfState = "firstFmtChar" /\ c = "0" /\ fmt' = [fmt EXCEPT !.fmtLeadingZero = TRUE]
           /\ pfState' = "otherFmtChar" /\ UNCHANGED <<arg, text>>
  <2>1. FieldsRead(directive', fmt') BY <1>1, <1>5, ZeroRead
  <2> QED BY <1>3, <1>5, <2>1
<1>6. CASE pfState = "firstFmtChar" /\ c = "%" /\ Shown(<<Literal>>) /\ UNCHANGED <<fmt, arg>>
  <2>1. pfState' = "chars" /\ fmt' = fmt /\ text' = <<Literal>> BY <1>6 DEF Shown
  <2>2. text' \in Seq(PrintfChar) BY <2>1 DEF PrintfChar
  <2>3. c \notin DOMAIN Base BY <1>6, BaseIs
  <2>4. NumbersReadBack' BY <1>2, <2>3 DEF NumbersReadBack
  <2> QED BY <1>4, <2>1, <2>2, <2>4
<1>7. CASE (pfState = "firstFmtChar" => c \notin {"0", "%"}) /\ OtherFmtChar(c)
  <2>1. CASE c \in {".", "l"} \cup DOMAIN DigitOf
    <3>1. fmt' = NewFields(fmt, c) /\ pfState' = "otherFmtChar" /\ text' = text
      BY <1>7, <2>1 DEF OtherFmtChar, Fields, NewFields
    <3>2. directive = <<>> => c # "0" BY <1>1, <1>7
    <3>3. FieldsRead(directive', fmt') BY <1>1, <2>1, <3>1, <3>2, CharRead
    <3> QED BY <1>3, <3>1, <3>3
  <2>2. CASE c \notin {".", "l"} \cup DOMAIN DigitOf
    <3>1. /\ arg' \in ArgsOf(c) /\ text' = LogText(c, fmt, arg') /\ pfState' = "chars"
          /\ fmt' = fmt
      BY <1>7, <2>2 DEF OtherFmtChar, Shown
    <3>2. /\ text' \in Seq(PrintfChar)
          /\ c \in DOMAIN Base =>
               /\ ReadsBack(text', c, arg', WidthOf(directive'))
               /\ Head(directive') = "0" => ~Shows(text', Blank)
      BY <1>1, <3>1, LogTextIs
    <3>3. NumbersReadBack' BY <1>2, <3>2 DEF NumbersReadBack, ReadsBack
    <3> QED BY <1>4, <3>1, <3>2, <3>3
  <2> QED BY <2>1, <2>2
<1> QED BY <1>5, <1>6, <1>7 DEF FmtCharState

LEMMA NextFormatPreserves == ASSUME NextFormat PROVE PrintfInv'
<1>1. NoFields \in Field BY NothingRead DEF FieldsRead
<1>2. <<>> \in Seq(FormatChars) /\ <<>> \in Seq(PrintfChar) OBVIOUS
<1>3. NumbersReadBack' BY NothingShown DEF NextFormat
<1>4. ~InDirective' BY DEF NextFormat, InDirective
<1> QED BY <1>1, <1>2, <1>3, <1>4 DEF NextFormat, PrintfInv

LEMMA PrintfNextInv == PrintfInv /\ [PrintfNext]_printfVars => PrintfInv'
<1> SUFFICES ASSUME PrintfInv, [PrintfNext]_printfVars PROVE PrintfInv' OBVIOUS
<1>1. CASE NextFormat BY <1>1, NextFormatPreserves
<1>2. ASSUME NEW c \in FormatChars, NextChar(c), printer' = printer PROVE PrintfInv'
  <2>1. CASE CharsState(c) BY <1>2, <2>1, CharsPreserves
  <2>2. CASE FmtCharState(c) BY <1>2, <2>2, FmtCharPreserves
  <2>3. CASE EscapeState(c) BY <1>2, <2>3, EscapePreserves
  <2> QED BY <1>2, <2>1, <2>2, <2>3 DEF NextChar
<1>3. CASE UNCHANGED printfVars
  <2>1. /\ printer' = printer /\ pfState' = pfState /\ fmt' = fmt /\ directive' = directive
        /\ arg' = arg /\ text' = text
    BY <1>3 DEF printfVars
  <2> QED BY <2>1 DEF PrintfInv, InDirective, NumbersReadBack
<1> QED BY <1>1, <1>2, <1>3 DEF PrintfNext

\* The fields hold what was read of a directive so far (alt_log_printf.c:130-335).
THEOREM PrintfInvCorrect == PrintfSpec => []PrintfInv
<1> QED BY PrintfInitInv, PrintfNextInv, PTL DEF PrintfSpec

\* The formatter keeps to its states, characters and widths.
THEOREM PrintfTypeCorrect == PrintfSpec => []PrintfTypeOK
<1>1. PrintfInv => PrintfTypeOK BY DEF PrintfInv, PrintfTypeOK, Field, PrintfChar
<1> QED BY <1>1, PrintfInvCorrect, PTL

(***************************************************************************)
(* A printed number reads back as the number, in every base, negative ones *)
(* and the most negative one included, with the width and the filling the  *)
(* directive asks for and no digit more than it needs, whatever was read   *)
(* or left unfinished before (alt_log_printf.c:196-287,                    *)
(* alt_printf.c:73-101).                                                   *)
(***************************************************************************)
THEOREM NumbersReadBackCorrect == PrintfSpec => []NumbersReadBack
<1>1. PrintfInv => NumbersReadBack BY DEF PrintfInv
<1> QED BY <1>1, PrintfInvCorrect, PTL
=============================================================================
