------------------------------- MODULE Alarms -------------------------------
(***************************************************************************)
(* What software timers promise: a timer that has been started goes off    *)
(* after exactly as many ticks as asked for, and every period after that,  *)
(* until it is stopped or started again.  All that are due on a tick go    *)
(* off before the next one.                                                *)
(***************************************************************************)
EXTENDS Naturals

CONSTANTS Timer, Delay, Period

VARIABLES
  set,                    \* timers that have been started
  left,                   \* ticks each of them has to go
  period                  \* 0: just once

avars == <<set, left, period>>

AlarmsInit ==
  /\ set = {}
  /\ left = [t \in Timer |-> 0]
  /\ period \in [Timer -> {0}]

\* A tick that has gone already is not waited for.
Start(t, delay, p) ==
  /\ set' = set \cup {t}
  /\ left' = [left EXCEPT ![t] = IF delay = 0 THEN 1 ELSE delay]
  /\ period' = [period EXCEPT ![t] = p]

Stop(t) ==
  /\ set' = set \ {t}
  /\ left' = [left EXCEPT ![t] = 0]
  /\ UNCHANGED period

Tick ==
  /\ \A t \in set : left[t] > 0
  /\ left' = [t \in Timer |-> IF t \in set THEN left[t] - 1 ELSE 0]
  /\ UNCHANGED <<set, period>>

GoOff(t) ==
  /\ t \in set /\ left[t] = 0
  /\ set' = IF period[t] = 0 THEN set \ {t} ELSE set
  /\ left' = [left EXCEPT ![t] = period[t]]
  /\ UNCHANGED period

AlarmsNext ==
  \/ \E t \in Timer, delay \in Delay, p \in Period : Start(t, delay, p)
  \/ \E t \in Timer : Stop(t) \/ GoOff(t)
  \/ Tick

AlarmsSpec == AlarmsInit /\ [][AlarmsNext]_avars
=============================================================================
