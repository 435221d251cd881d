------------------------------- MODULE Timer --------------------------------
(***************************************************************************)
(* timer.c: software timers, whose functions the tick interrupt calls.     *)
(* Such a function may start and stop timers, its own and those that are   *)
(* due on the same tick included, while osTimerTick walks the list.        *)
(*                                                                         *)
(* A tick is several steps here, and nothing but the functions happens     *)
(* between them: interrupts are disabled.                                  *)
(***************************************************************************)
EXTENDS Ticks, SequencesExt

CONSTANTS
  Timer,
  TimerDelay,             \* delays and periods of the application
  Period

ASSUME TimerAssumption ==
  /\ OS_TICKS \in Nat \ {0, 1}
  /\ OS_CFG_TICK_START \in OsTick
  /\ TimerDelay \subseteq OsTick /\ Period \subseteq OsTick

VARIABLES
  osTicks,
  osTimers,               \* the list of running timers
  when,                   \* of each timer
  period,
  place                   \* outside of the tick, where osTimerTick looks at
                          \* the list, or in a function it has called

timerVars == <<osTicks, osTimers, when, period, place>>

TimerInit ==
  /\ osTicks = OS_CFG_TICK_START
  /\ osTimers = << >>
  /\ when = [t \in Timer |-> 0]
  /\ period = [t \in Timer |-> 0]
  /\ place = "outside"

----------------------------------------------------------------------------
\* Mutant: by the tick itself.
InsertByWhen(list, timer, delay) ==
  LET i == SelectInSeq(list, LAMBDA it : when[it] > (osTicks + delay) % OS_TICKS)
  IN  IF i = 0 THEN Append(list, timer) ELSE InsertAt(list, i, timer)

\* By the time left, as the tick counter overflows.
osTimerInsert(list, timer, delay) ==
  LET i == SelectInSeq(list, LAMBDA it : (when[it] - osTicks) % OS_TICKS > delay)
  IN  IF i = 0 THEN Append(list, timer) ELSE InsertAt(list, i, timer)

osTimerRemove(list, timer) == RemoveFirst(list, timer)

\* Mutant: due at once.
StartNow(timer, delay, p) ==
  /\ place # "walk"
  /\ osTimers' = osTimerInsert(osTimerRemove(osTimers, timer), timer, delay)
  /\ when' = [when EXCEPT ![timer] = (osTicks + delay) % OS_TICKS]
  /\ period' = [period EXCEPT ![timer] = p]
  /\ UNCHANGED <<osTicks, place>>

\* The current tick is gone already, the next one is the earliest.
osTimerStart(timer, delay, p) ==
  LET ticks == IF delay = 0 THEN 1 ELSE delay
  IN  /\ place # "walk"
      /\ osTimers' = osTimerInsert(osTimerRemove(osTimers, timer), timer, ticks)
      /\ when' = [when EXCEPT ![timer] = (osTicks + ticks) % OS_TICKS]
      /\ period' = [period EXCEPT ![timer] = p]
      /\ UNCHANGED <<osTicks, place>>

osTimerStop(timer) ==
  /\ place # "walk"
  /\ osTimers' = osTimerRemove(osTimers, timer)
  /\ UNCHANGED <<osTicks, when, period, place>>

----------------------------------------------------------------------------
\* osTimerTick.
Due == osTimers # << >> /\ when[Head(osTimers)] = osTicks

\* Mutant: the counter does not overflow.
TimerTickWithoutOverflow ==
  /\ place = "outside"
  /\ osTicks' = osTicks + 1
  /\ place' = "walk"
  /\ UNCHANGED <<osTimers, when, period>>

\* osTickHandler, as far as the timers go.
TimerTick ==
  /\ place = "outside"
  /\ osTicks' = (osTicks + 1) % OS_TICKS
  /\ place' = "walk"
  /\ UNCHANGED <<osTimers, when, period>>

\* The timer is back on the list before its function is called.
Expire ==
  LET timer == Head(osTimers)
      p == period[timer]
  IN  /\ place = "walk" /\ Due
      /\ osTimers' = IF p = 0 THEN Tail(osTimers)
                     ELSE osTimerInsert(Tail(osTimers), timer, p)
      /\ when' = IF p = 0 THEN when ELSE [when EXCEPT ![timer] = (osTicks + p) % OS_TICKS]
      /\ place' = "function"
      /\ UNCHANGED <<osTicks, period>>

FunctionReturns ==
  /\ place = "function"
  /\ place' = "walk"
  /\ UNCHANGED <<osTicks, osTimers, when, period>>

TickReturns ==
  /\ place = "walk" /\ ~Due
  /\ place' = "outside"
  /\ UNCHANGED <<osTicks, osTimers, when, period>>

\* By tasks and by functions of timers.
Use ==
  \E timer \in Timer :
    \/ \E delay \in TimerDelay, p \in Period : osTimerStart(timer, delay, p)
    \/ osTimerStop(timer)

TimerNext == Use \/ TimerTick \/ Expire \/ FunctionReturns \/ TickReturns

TimerSpec == TimerInit /\ [][TimerNext]_timerVars

----------------------------------------------------------------------------
\* Every variable has a value of its type.
TimerTypeOK ==
  /\ osTicks \in OsTick
  /\ osTimers \in Seq(Timer)
  /\ when \in [Timer -> OsTick]
  /\ period \in [Timer -> OsTick]
  /\ place \in {"outside", "walk", "function"}

(***************************************************************************)
(* Timers go off on their tick, neither early nor late nor twice, whatever *)
(* functions do to the list while it is walked and wherever the tick       *)
(* counter overflows (timer.c:31-42, 100-113).                             *)
(***************************************************************************)
Promise == INSTANCE Alarms WITH
  Delay <- TimerDelay,
  set <- ToSet(osTimers),
  left <- [t \in Timer |->
             IF t \in ToSet(osTimers) THEN (when[t] - osTicks) % OS_TICKS ELSE 0]

TimersOnTime == Promise!AlarmsSpec

(***************************************************************************)
(* The tick interrupt ends, although functions start timers while the list *)
(* is walked: none of them is due on the same tick again (timer.c:62-64).  *)
(* Functions have to be short, hence the fairness of FunctionReturns.      *)
(***************************************************************************)
TimerFairness == WF_timerVars(Expire) /\ WF_timerVars(FunctionReturns) /\ WF_timerVars(TickReturns)

TimerFairSpec == TimerSpec /\ TimerFairness

TickEnds == place = "walk" ~> place = "outside"
=============================================================================
