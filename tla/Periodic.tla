------------------------------ MODULE Periodic ------------------------------
(***************************************************************************)
(* Tasks that do something at regular intervals: each keeps the tick of    *)
(* its last wake-up for osDelayUntil, from which the next one is counted.  *)
(***************************************************************************)
EXTENDS Application

CONSTANT Period           \* periods the application asks for, all of them less
                          \* than OS_WAIT_FOREVER

VARIABLES
  previous,               \* what osDelayUntil is given a pointer to
  ahead                   \* history: ticks from now to that tick, counted
                          \* without overflow, negative if it is over

vars == <<k, running, call, previous, ahead>>

Init ==
  /\ ApplicationInit
  /\ previous = [t \in Task |-> k.ticks]
  /\ ahead = [t \in Task |-> 0]

\* The calls of the idle task return at once and keep no interval.
DelayUntil(period) ==
  LET task == k.current
  IN  /\ task # osIdleTask
      /\ Call(osDelayUntil(k, previous[task], period))
      /\ previous' = [previous EXCEPT ![task] = (@ + period) % OS_TICKS]
      /\ ahead' = [ahead EXCEPT ![task] = @ + period]

\* A task starts with previous = osTickCount().  Bound: nobody is late by
\* more than the counter can tell.
Other ==
  LET passed == IF k'.ticks = k.ticks THEN 0 ELSE 1
      started(t) == k.state[t] = "DEAD" /\ k'.state[t] # "DEAD"
  IN  /\ ApplicationNext
      /\ previous' = [t \in Task |-> IF started(t) THEN k.ticks ELSE previous[t]]
      /\ ahead' = [t \in Task |-> IF started(t) \/ k'.state[t] = "DEAD" THEN 0
                                    ELSE ahead[t] - passed]
      /\ \A t \in Task : -ahead'[t] < OS_TICKS

Next == Other \/ \E period \in Period : DelayUntil(period)

Spec == Init /\ [][Next]_vars

----------------------------------------------------------------------------
(***************************************************************************)
(* osDelayUntil "sleeps until previous + period" (README.md:70), and does  *)
(* "not wait at all if we are late already" (scheduler.c:337): a task      *)
(* whose next wake-up is to come is blocked by the call, any other is not. *)
(***************************************************************************)
SleepsUntilDue ==
  [][\A t \in Task :
       ahead'[t] > ahead[t] /\ k'.state[t] # "DEAD"
         => (k'.state[t] = "BLOCKED" <=> ahead'[t] > 0)]_vars
=============================================================================
