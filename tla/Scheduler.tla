----------------------------- MODULE Scheduler ------------------------------
(***************************************************************************)
(* The scheduler on its own: the task functions of tasks.c, osYield and    *)
(* osDelay, the tick and interrupt handlers that resume tasks, from main() *)
(* creating the first task on.  Tasks wait for nothing but time here; the  *)
(* objects they wait for have modules of their own.                        *)
(*                                                                         *)
(* Whatever the current task does next is up to the application: any call  *)
(* with any arguments of the constants below.  Interrupts arrive between   *)
(* any two calls, and a call is a critical section, hence one action.      *)
(***************************************************************************)
EXTENDS Kernel

CONSTANTS
  TaskPriority,           \* priorities the application asks for
  Delay                   \* ticks it delays tasks by

ASSUME SchedulerAssumption ==
  /\ TaskPriority \subseteq Priority
  /\ Delay \subseteq OsTick

VARIABLES
  k,                      \* the kernel
  running,                \* osRun has been called, the tick has been started
  pending,                \* history: a plain interrupt handler has made a task
                          \* ready and the scheduler has not been called since
  left                    \* history: ticks each delay has left, counted down
                          \* one by one, 0 when there is no delay

vars == <<k, running, pending, left>>

Init ==
  /\ k = osInit
  /\ running = FALSE
  /\ pending = FALSE
  /\ left = [t \in Thread |-> 0]

\* Delays that end in this step, for whatever reason, have nothing left.
Elapse(count) ==
  left' = [t \in Thread |-> IF "TIMED" \in k'.flags[t] THEN count[t] ELSE 0]

\* A call that ends with osSchedule or osDispatch.
Call(kernel) ==
  /\ k' = kernel
  /\ pending' = FALSE
  /\ Elapse(left)
  /\ UNCHANGED running

\* The memory handed to osTaskCreate is not in use.
TaskCreate(t, p) ==
  /\ k.state[t] = "DEAD"
  /\ Call(osTaskCreate(k, t, p))

TaskDelete(t) ==
  /\ k.state[t] # "DEAD"
  /\ Call(osTaskDelete(k, t))

\* Suspending somebody else does not call the scheduler.
TaskSuspend(t) ==
  /\ k.state[t] # "DEAD"
  /\ k' = osTaskSuspend(k, t)
  /\ pending' = (pending /\ t # k.current)
  /\ Elapse(left)
  /\ UNCHANGED running

\* Neither does deleting or suspending the idle task, which is here to stay.
SpareIdle ==
  /\ k' \in {osTaskDelete(k, osIdleTask), osTaskSuspend(k, osIdleTask)}
  /\ Elapse(left)
  /\ UNCHANGED <<running, pending>>

TaskResume(t) == Call(osTaskResume(k, t))

\* From a handler defined with OS_ISR, which ends with osSchedule(0).
IsrResume(t) == Call(osSchedule(osTaskResumeFromISR(k, t), 0))

\* From any other handler.
PlainIsrResume(t) ==
  /\ k.state[t] = "SUSPENDED"
  /\ k' = osTaskResumeFromISR(k, t)
  /\ pending' = TRUE
  /\ UNCHANGED <<running, left>>

\* The priority of the idle task is not for the application to set.
TaskSetPriority(t, p) ==
  /\ k.state[t] # "DEAD"
  /\ Call(osTaskSetPriority(k, t, p))

Yield == Call(osYield(k))

\* On behalf of the idle task osDelay returns at once.
DelayFor(ticks) ==
  /\ k' = osDelay(k, ticks)
  /\ pending' = (pending /\ k.current = osIdleTask /\ ticks # 0)
  /\ Elapse([left EXCEPT ![k.current] = ticks])
  /\ UNCHANGED running

\* The period is counted from a tick of the past, any of those the counter
\* can tell: a task that is late by more mistakes them itself.
DelayUntil(late, period) ==
  /\ k' = osDelayUntil(k, (k.ticks - late) % OS_TICKS, period)
  /\ pending' = (pending /\ k'.current = k.current)
  /\ Elapse([left EXCEPT ![k.current] = period - late])
  /\ UNCHANGED running

Tick ==
  /\ running
  /\ k' = osTickHandler(k)
  /\ pending' = FALSE
  /\ Elapse([t \in Thread |-> left[t] - 1])
  /\ UNCHANGED running

Run ==
  /\ ~running
  /\ k.current = osIdleTask
  /\ k' = osRun(k)
  /\ running' = TRUE
  /\ pending' = FALSE
  /\ UNCHANGED left

TaskCall(t) ==
  \/ \E p \in TaskPriority : TaskCreate(t, p)
  \/ TaskDelete(t)
  \/ TaskSuspend(t)
  \/ TaskResume(t)
  \/ IsrResume(t)
  \/ PlainIsrResume(t)

\* Every step but a change of the priority of a task.
FixedPriorityNext ==
  \/ \E t \in Task : TaskCall(t)
  \/ SpareIdle
  \/ \E ticks \in Delay : DelayFor(ticks)
  \/ \E late \in OsTick, period \in Delay \ {OS_WAIT_FOREVER} : DelayUntil(late, period)
  \/ Yield
  \/ Tick
  \/ Run

Next ==
  \/ FixedPriorityNext
  \/ \E t \in Task, p \in TaskPriority : TaskSetPriority(t, p)

Spec == Init /\ [][Next]_vars

----------------------------------------------------------------------------
\* Every variable has a value of its type.
TypeOK ==
  /\ k \in KernelState
  /\ running \in BOOLEAN
  /\ pending \in BOOLEAN
  /\ left \in [Thread -> Int]

----------------------------------------------------------------------------
\* The lists and the tasks agree.

(***************************************************************************)
(* A task is on exactly the lists its state says, and on each just once:   *)
(* the ready list has the READY tasks and not the current one, osTimerList *)
(* has the tasks flagged TIMED, only blocked tasks are flagged.  osTaskDetach *)
(* and osUnblock choose the lists to remove a task from by these fields    *)
(* (scheduler.c:235-244, tasks.c:92-98): a disagreement leaves a list      *)
(* that leads through the memory of a task which is gone.                  *)
(***************************************************************************)
ListsExact == ReadyListExact(k) /\ CurrentExact(k) /\ TimerListExact(k)

(***************************************************************************)
(* There is always somebody to switch to: whenever a task is the current   *)
(* one the idle task is ready, so osDispatch never takes a task from an    *)
(* empty list (scheduler.c:167).                                           *)
(***************************************************************************)
IdleAvailable == k.state[osIdleTask] \in {"RUNNING", "READY"}

(***************************************************************************)
(* The ready list is ordered by priority, although aging, SetPriority and  *)
(* osSettle change priorities of tasks on it (scheduler.c:276-290).        *)
(***************************************************************************)
ReadyListSorted == Sorted(k, k.readyList)

(***************************************************************************)
(* No ready task is more important than the current one, except after an   *)
(* interrupt handler without OS_ISR, and then only until the next tick     *)
(* (scheduler.h:40-42).                                                    *)
(***************************************************************************)
MostImportantRuns ==
  pending \/ \A t \in ToSet(k.readyList) : k.priority[t] <= k.priority[k.current]

(***************************************************************************)
(* Every delay has at least one tick to go and the timer list knows how    *)
(* many, across the overflow of osTicks: the task at the front is the next *)
(* to expire and nobody has been passed over (scheduler.c:69-81, 265-267).  *)
(***************************************************************************)
DeadlinesExact ==
  /\ \A i \in 1 .. Len(k.timerList) :
       LET timer == k.timerList[i]
       IN  /\ left[timer.task] > 0
           /\ (timer.wake - k.ticks) % OS_TICKS = left[timer.task]
  /\ \A i, j \in 1 .. Len(k.timerList) :
       i < j => left[k.timerList[i].task] <= left[k.timerList[j].task]

(***************************************************************************)
(* "the period is counted from the previous wake-up, not from now, so time *)
(* taken by the task itself does not add up" (scheduler.c:328-329): for    *)
(* whatever the counter reads, and however late a task is that calls       *)
(* osDelayUntil within one turn of it, the call is a delay for the ticks   *)
(* its period has left, never by OS_WAIT_FOREVER, and none if it is over.  *)
(***************************************************************************)
PeriodsKept ==
  \A late \in OsTick, period \in 0 .. OS_WAIT_FOREVER - 1 :
    osDelayUntil(k, (k.ticks - late) % OS_TICKS, period) =
      IF late < period THEN osDelay(k, period - late) ELSE k

\* A delay ends on its very tick, neither suspended nor cut short by others.
WokenOnTime ==
  [][\A t \in Task :
       k.state[t] = "BLOCKED" /\ k'.state[t] \in {"READY", "RUNNING"}
         => left[t] = 1 /\ k'.ticks = (k.ticks + 1) % OS_TICKS]_vars

(***************************************************************************)
(* A task created with a priority above OS_CFG_AGING_LIMIT is never kept   *)
(* from the processor by a task that only aging has made important         *)
(* (config.h:65-66).                                                       *)
(***************************************************************************)
AgingNeverDelays ==
  \A t \in ToSet(k.readyList) :
    k.basePriority[t] > OS_CFG_AGING_LIMIT /\ ~pending
      => k.basePriority[k.current] >= k.basePriority[t]

(***************************************************************************)
(* Equals are served in the order they came: a task that stays ready and   *)
(* keeps its priority is not overtaken by another one on the list, nor by  *)
(* one that joins it, except the current task when it is preempted rather  *)
(* than yields (scheduler.c:195-198).                                      *)
(***************************************************************************)
FirstComeFirstServed ==
  [][\A t, u \in Thread :
       LET stays == t \in ToSet(k.readyList) /\ k'.priority[t] = k.priority[t]
           joins == u \notin ToSet(k.readyList) /\ u # k.current
           behind == Ahead(k.readyList, t, u) /\ k'.priority[u] = k.priority[u]
           equals == k'.priority[t] = k'.priority[u] /\ {t, u} \subseteq ToSet(k'.readyList)
       IN  t # u /\ stays /\ (joins \/ behind) /\ equals => Ahead(k'.readyList, t, u)]_vars

(***************************************************************************)
(* "priority gained by aging lasts until the task gives the processor      *)
(* away" (scheduler.c:145): a task that was running and is not any more    *)
(* has its own priority back.                                              *)
(***************************************************************************)
AgedPriorityEnds ==
  [][k'.current # k.current /\ k'.state[k.current] # "DEAD"
       => k'.priority[k.current] = k'.basePriority[k.current]]_vars

(***************************************************************************)
(* It does not if the task suspends itself: osTaskSuspend dispatches       *)
(* without osSettle (tasks.c:157), the task resumes where it has aged to.  *)
(* It does in every other case, whoever preempts the task or whatever it   *)
(* waits for (scheduler.c:194, 220).                                       *)
(***************************************************************************)
SettledUnlessSuspended ==
  [][k'.current # k.current /\ k'.state[k.current] \notin {"DEAD", "SUSPENDED"}
       => k'.priority[k.current] = k'.basePriority[k.current]]_vars

----------------------------------------------------------------------------
(***************************************************************************)
(* main() gets to osRun, and from then on the timer interrupt keeps coming *)
(* (WF_vars(Tick), spelled out: Tick is enabled iff the system is running).*)
(* Nothing is assumed of the tasks: they may never block, yield or end.    *)
(***************************************************************************)
TickFairness == []<>~running \/ []<><<Tick>>_vars

FixedPrioritySpec == Init /\ [][FixedPriorityNext]_vars /\ WF_vars(Run) /\ TickFairness

(***************************************************************************)
(* "a task which is ready but cannot get the processor gains one priority  *)
(* level every OS_CFG_AGING_TICKS ticks until it runs, so it never starves" *)
(* (config.h:56-57).  Setting the priority of a ready task takes from it   *)
(* what it has gained, hence FixedPrioritySpec.                            *)
(***************************************************************************)
StarvationFree ==
  \A t \in Task : k.state[t] = "READY" ~> k.state[t] # "READY"
=============================================================================
