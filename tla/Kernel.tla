------------------------------- MODULE Kernel -------------------------------
(***************************************************************************)
(* The kernel of AVR-OS: the variables of scheduler.c and the task control *)
(* blocks, as one record k, and the functions of scheduler.c, tasks.c and  *)
(* mutex.c that run with interrupts disabled, each as an operator from the *)
(* kernel before the call to the kernel after it.  A function that calls   *)
(* another applies its operator, so an operator is the whole handler.      *)
(*                                                                         *)
(* The kernel is a record of                                               *)
(*   current    osCurrentTask                                              *)
(*   readyList  osReadyList, timerList: osTimerList, of pairs task and wake *)
(*   ticks      osTicks, aging: osAging                                    *)
(*   state      task->state & OS_TASK_STATE, flags: the rest of that byte  *)
(*   result     what osDispatch returns to a task once it runs again       *)
(*   priority, basePriority, waitList, mutexes: fields of the same name    *)
(*   waiters    per object, the list its waiters field is the head of      *)
(*   owner      per mutex                                                  *)
(* Lists linked through next, timerNext and nextOwned are sequences.  A    *)
(* priority fits in a byte: no sum below exceeds OS_PRIORITY_MAX + 1.      *)
(***************************************************************************)
EXTENDS Threads, Ticks, SequencesExt

CONSTANTS
  Mutex,                  \* mutexes of the application
  Object,                 \* whatever has a wait list, the mutexes included
  OS_PRIORITY_MAX,        \* 254 in the code
  OS_CFG_ROUND_ROBIN,
  OS_CFG_AGING,
  OS_CFG_AGING_TICKS,
  OS_CFG_AGING_LIMIT,
  OS_CFG_MUTEX_INHERITANCE

ASSUME KernelAssumption ==
  /\ osIdleTask \notin Task
  /\ NULL \notin Thread \cup Object
  /\ Mutex \subseteq Object /\ IsFiniteSet(Mutex)
  /\ OS_PRIORITY_MAX \in Nat \ {0}
  /\ OS_TICKS \in Nat /\ OS_TICKS > 2
  /\ OS_CFG_TICK_START \in 0 .. OS_TICKS - 1
  /\ OS_CFG_ROUND_ROBIN \in {0, 1}
  /\ OS_CFG_AGING \in BOOLEAN
  /\ OS_CFG_AGING_TICKS \in Nat \ {0}
  /\ OS_CFG_AGING_LIMIT \in 1 .. OS_PRIORITY_MAX
  /\ OS_CFG_MUTEX_INHERITANCE \in BOOLEAN

OS_NO_WAIT == 0
OS_WAIT_FOREVER == OS_TICKS - 1
OS_PRIORITY_MIN == 1
MainPriority == OS_PRIORITY_MAX + 1          \* 255, main() before osRun
Priority == 0 .. MainPriority
TaskState == {"RUNNING", "READY", "BLOCKED", "SUSPENDED", "DEAD"}
Flag == {"TIMED", "MUTEX"}

\* Every value the variables of the kernel can take.
KernelState ==
  [current : Thread,
   readyList : Seq(Thread),
   timerList : Seq([task : Thread, wake : OsTick]),
   ticks : OsTick,
   aging : 1 .. OS_CFG_AGING_TICKS,
   state : [Thread -> TaskState],
   flags : [Thread -> SUBSET Flag],
   result : [Thread -> BOOLEAN],
   priority : [Thread -> Priority],
   basePriority : [Thread -> Priority],
   waitList : [Thread -> Object \cup {NULL}],
   waiters : [Object -> Seq(Thread)],
   owner : [Mutex -> Thread \cup {NULL}],
   mutexes : [Thread -> Seq(Mutex)]]

(***************************************************************************)
(* osInit: main() is the current task and nobody is more important.  Tasks *)
(* which have not been created are as good as dead.                        *)
(***************************************************************************)
osInit ==
  [current |-> osIdleTask,
   readyList |-> << >>,
   timerList |-> << >>,
   ticks |-> OS_CFG_TICK_START,
   aging |-> OS_CFG_AGING_TICKS,
   state |-> [t \in Thread |-> IF t = osIdleTask THEN "RUNNING" ELSE "DEAD"],
   flags |-> [t \in Thread |-> {}],
   result |-> [t \in Thread |-> FALSE],
   priority |-> [t \in Thread |-> IF t = osIdleTask THEN MainPriority ELSE 0],
   basePriority |-> [t \in Thread |-> IF t = osIdleTask THEN MainPriority ELSE 0],
   waitList |-> [t \in Thread |-> NULL],
   waiters |-> [o \in Object |-> << >>],
   owner |-> [m \in Mutex |-> NULL],
   mutexes |-> [t \in Thread |-> << >>]]

----------------------------------------------------------------------------
\* Lists of tasks.

\* Mutant: in front of the tasks of the same priority.
InsertBeforeEquals(k, list, task, key) ==
  LET i == SelectInSeq(list, LAMBDA it : k.priority[it] <= key)
  IN  IF i = 0 THEN Append(list, task) ELSE InsertAt(list, i, task)

\* Behind the last task whose priority is not lower than the key.
osListInsert(k, list, task, key) ==
  LET i == SelectInSeq(list, LAMBDA it : k.priority[it] < key)
  IN  IF i = 0 THEN Append(list, task) ELSE InsertAt(list, i, task)

osListRemove(list, task) == RemoveFirst(list, task)

\* Mutant: by the tick itself.
InsertByWake(k, task, timeout) ==
  LET timer == [task |-> task, wake |-> (k.ticks + timeout) % OS_TICKS]
      i == SelectInSeq(k.timerList, LAMBDA it : it.wake > timer.wake)
  IN  [k EXCEPT !.timerList = IF i = 0 THEN Append(@, timer) ELSE InsertAt(@, i, timer),
                !.flags[task] = @ \cup {"TIMED"}]

\* By the time left, as the tick counter overflows.
osTimerListInsert(k, task, timeout) ==
  LET i == SelectInSeq(k.timerList, LAMBDA it : (it.wake - k.ticks) % OS_TICKS > timeout)
      timer == [task |-> task, wake |-> (k.ticks + timeout) % OS_TICKS]
  IN  [k EXCEPT !.timerList = IF i = 0 THEN Append(@, timer) ELSE InsertAt(@, i, timer),
                !.flags[task] = @ \cup {"TIMED"}]

osTimerListRemove(k, task) ==
  [k EXCEPT !.timerList = LET i == SelectInSeq(@, LAMBDA it : it.task = task)
                          IN  IF i = 0 THEN @ ELSE RemoveAt(@, i)]

\* The list moved with the priority of the task.
Moved(k, list, task) == osListInsert(k, osListRemove(list, task), task, k.priority[task])

\* Mutant: only the ready list is kept in order.
RequeueReady(k, task) ==
  IF k.state[task] = "READY" THEN [k EXCEPT !.readyList = Moved(k, @, task)] ELSE k

osRequeue(k, task) ==
  IF k.state[task] = "READY"
  THEN [k EXCEPT !.readyList = Moved(k, @, task)]
  ELSE IF k.waitList[task] # NULL
  THEN [k EXCEPT !.waiters[k.waitList[task]] = Moved(k, @, task)]
  ELSE k

----------------------------------------------------------------------------
\* Priorities.

\* The base priority, or that of the first waiter of a mutex the task owns.
osInheritedPriority(k, task) ==
  LET owned == {m \in ToSet(k.mutexes[task]) : k.waiters[m] # << >>}
      first == {k.priority[Head(k.waiters[m])] : m \in owned}
  IN  Max({k.basePriority[task]} \cup
          IF OS_CFG_MUTEX_INHERITANCE THEN first ELSE {})

\* Mutant: only the first task of the chain is raised.
RaiseFirst(k, task, priority) ==
  IF k.priority[task] < priority THEN osRequeue([k EXCEPT !.priority[task] = priority], task) ELSE k

\* Mutant: tasks further up the chain stay where they are on their lists.
RaiseWithoutRequeue(k, task, priority) ==
  LET first == RaiseFirst(k, task, priority)
      up == IF "MUTEX" \in k.flags[task] THEN k.owner[k.waitList[task]] ELSE task
  IN  IF first.priority[up] < priority THEN [first EXCEPT !.priority[up] = priority] ELSE first

(***************************************************************************)
(* osPriorityRaise walks from a task to the owner of the mutex it waits    *)
(* for, for as long as the task it is at has a lower priority.  Each task  *)
(* is raised at most once, also when the waiting is a cycle, and all but   *)
(* the first own a mutex: one more step than there are mutexes is enough.  *)
(***************************************************************************)
osPriorityRaise(k, task, priority) ==
  LET step(s) ==
        [kernel |-> osRequeue([s.kernel EXCEPT !.priority[s.task] = priority], s.task),
         task |-> IF "MUTEX" \in k.flags[s.task] THEN k.owner[k.waitList[s.task]] ELSE NULL]
      walk[n \in 0 .. Cardinality(Mutex) + 1] ==
        IF n = 0 THEN [kernel |-> k, task |-> task]
        ELSE LET s == walk[n - 1]
             IN  IF s.task \in Thread /\ s.kernel.priority[s.task] < priority THEN step(s) ELSE s
  IN  walk[Cardinality(Mutex) + 1].kernel

\* Mutant: aging is kept.
SettleNothing(k, task) == k

\* Mutant: the tasks that wait for a mutex of the task are forgotten.
SettleToBase(k, task) ==
  IF OS_CFG_AGING THEN [k EXCEPT !.priority[task] = k.basePriority[task]] ELSE k

\* Priority gained by aging is given back.
osSettle(k, task) ==
  IF OS_CFG_AGING /\ k.priority[task] # k.basePriority[task]
  THEN [k EXCEPT !.priority[task] = osInheritedPriority(k, task)]
  ELSE k

\* Mutant: the place on the list is not updated.
LowerInPlace(k, task) ==
  LET priority == osInheritedPriority(k, task)
  IN  IF priority < k.priority[task] THEN [k EXCEPT !.priority[task] = priority] ELSE k

\* Down to the inherited priority, once a reason to be above it is gone.
LowerToInherited(k, task) ==
  LET priority == osInheritedPriority(k, task)
  IN  IF priority < k.priority[task]
      THEN osRequeue([k EXCEPT !.priority[task] = priority], task)
      ELSE k

----------------------------------------------------------------------------
\* The switch and the tasks around it.

\* task->state = s, which clears the flags.
SetState(k, task, s) == [k EXCEPT !.state[task] = s, !.flags[task] = {}]

osDispatch(k) ==
  [SetState(k, Head(k.readyList), "RUNNING") EXCEPT
     !.readyList = Tail(@), !.current = Head(k.readyList)]

osScheduleNeeded(k, yield) ==
  /\ k.readyList # << >>
  /\ k.priority[Head(k.readyList)] + yield > k.priority[k.current]

osSchedule(k, yield) ==
  LET task == k.current
      settled == SetState(osSettle(k, task), task, "READY")
      key == settled.priority[task] + 1 - yield
  IN  IF osScheduleNeeded(k, yield)
      THEN osDispatch([settled EXCEPT !.readyList = osListInsert(settled, @, task, key)])
      ELSE k

\* The list is an object the task waits for or NULL.  The idle task never
\* waits: it stays the current one and its call returns false.
osBlock(k, list, timeout) ==
  LET task == k.current
      settled == osSettle(k, task)
      blocked == [settled EXCEPT
                    !.state[task] = "BLOCKED",
                    !.waitList[task] = list,
                    !.waiters = [o \in Object |->
                                   IF o = list
                                   THEN osListInsert(settled, @[o], task, settled.priority[task])
                                   ELSE @[o]]]
      timed == IF timeout = OS_WAIT_FOREVER THEN blocked
               ELSE osTimerListInsert(blocked, task, timeout)
  IN  IF task = osIdleTask THEN SetState(k, task, "RUNNING") ELSE osDispatch(timed)

\* Mutant: the task stays on the list of what it waited for.
UnblockTimer(k, task) ==
  IF "TIMED" \in k.flags[task] THEN osTimerListRemove(k, task) ELSE k

osUnblock(k, task) ==
  LET list == k.waitList[task]
      off == IF list = NULL THEN k
             ELSE [k EXCEPT !.waiters[list] = osListRemove(@, task),
                            !.waitList[task] = NULL]
  IN  IF "TIMED" \in k.flags[task] THEN osTimerListRemove(off, task) ELSE off

osReady(k, task) ==
  [SetState(k, task, "READY") EXCEPT
     !.readyList = osListInsert(k, @, task, k.priority[task])]

osWake(k, task, result) ==
  osReady(osUnblock([k EXCEPT !.result[task] = result], task), task)

----------------------------------------------------------------------------
\* The tick.

\* Mutant: the counter does not overflow.
TickWithoutOverflow(k) == [k EXCEPT !.ticks = @ + 1]

\* Mutant: the timeouts of the tick before.
TickThenCount(k) ==
  LET due == SelectSeq(k.timerList, LAMBDA it : it.wake = k.ticks)
      late == IF due = << >> THEN k ELSE osWake(k, Head(due).task, FALSE)
  IN  [late EXCEPT !.ticks = (@ + 1) % OS_TICKS]

\* One more tick, and every timeout that expires on it.
TickTimeouts(k) ==
  LET now == (k.ticks + 1) % OS_TICKS
      later == SelectInSeq(k.timerList, LAMBDA it : it.wake # now)
      due == IF later = 0 THEN Len(k.timerList) ELSE later - 1
      woken[i \in 0 .. due] ==
        IF i = 0 THEN [k EXCEPT !.ticks = now]
        ELSE osWake(woken[i - 1], k.timerList[i].task, FALSE)
  IN  woken[due]

\* Mutant: without a limit.
AgedWithoutLimit(k, task) ==
  /\ task \in ToSet(k.readyList)
  /\ k.priority[task] # 0
  /\ k.priority[task] + OS_CFG_ROUND_ROBIN <= k.priority[k.current]

\* Who gets more important: ready tasks the current one keeps from running.
Aged(k, task) ==
  /\ task \in ToSet(k.readyList)
  /\ k.priority[task] # 0
  /\ k.priority[task] < OS_CFG_AGING_LIMIT
  /\ k.priority[task] + OS_CFG_ROUND_ROBIN <= k.priority[k.current]

TickAging(k) ==
  LET s == osSettle(k, k.current)
  IN  IF ~OS_CFG_AGING THEN k
      ELSE IF s.aging > 1 THEN [s EXCEPT !.aging = @ - 1]
      ELSE [s EXCEPT !.aging = OS_CFG_AGING_TICKS,
                     !.priority = [t \in Thread |-> IF Aged(s, t) THEN @[t] + 1 ELSE @[t]]]

\* Mutant: no round robin.
TickWithoutRoundRobin(k) == osSchedule(TickAging(TickTimeouts(k)), 0)

\* With no software timer running: Timer.tla has them.
osTickHandler(k) == osSchedule(TickAging(TickTimeouts(k)), OS_CFG_ROUND_ROBIN)

osYield(k) == osSchedule(k, 1)

osDelay(k, ticks) == IF ticks = 0 THEN osSchedule(k, 1) ELSE osBlock(k, NULL, ticks)

\* Mutant: a task whose period ends on this very tick is not late.
DelayUntilInclusive(k, previous, period) ==
  LET left == (previous + period - k.ticks) % OS_TICKS
  IN  IF left <= period THEN osBlock(k, NULL, left) ELSE k

\* Until previous + period, unless that is over.
osDelayUntil(k, previous, period) ==
  LET left == (previous + period - k.ticks) % OS_TICKS
  IN  IF (left - 1) % OS_TICKS < period THEN osBlock(k, NULL, left) ELSE k

----------------------------------------------------------------------------
\* Mutexes, as far as deleting a task takes them.

osMutexOwn(k, mutex, task) ==
  [k EXCEPT !.owner[mutex] = task,
            !.mutexes[task] = IF OS_CFG_MUTEX_INHERITANCE THEN <<mutex>> \o @ ELSE @]

\* Mutant: the waiter is woken up with a mutex that is free for anybody.
PassWithoutOwner(k, mutex) ==
  LET free == [k EXCEPT !.owner[mutex] = NULL]
  IN  IF k.waiters[mutex] = << >> THEN free ELSE osWake(free, Head(k.waiters[mutex]), TRUE)

osMutexPass(k, mutex) ==
  LET waiter == Head(k.waiters[mutex])
  IN  IF k.waiters[mutex] = << >>
      THEN [k EXCEPT !.owner[mutex] = NULL]
      ELSE osWake(osMutexOwn(k, mutex, waiter), waiter, TRUE)

osMutexReleaseAll(k, task) ==
  LET owned == k.mutexes[task]
      passed[i \in 0 .. Len(owned)] ==
        IF i = 0 THEN k
        ELSE osMutexPass([passed[i - 1] EXCEPT !.mutexes[task] = Tail(@)], owned[i])
  IN  passed[Len(owned)]

----------------------------------------------------------------------------
\* Tasks.

osTaskPriority(priority) ==
  IF priority < OS_PRIORITY_MIN THEN OS_PRIORITY_MIN
  ELSE IF priority > OS_PRIORITY_MAX THEN OS_PRIORITY_MAX ELSE priority

osTaskCreate(k, task, priority) ==
  LET clear == [k EXCEPT !.result[task] = FALSE,
                         !.waitList[task] = NULL,
                         !.mutexes[task] = << >>,
                         !.priority[task] = osTaskPriority(priority),
                         !.basePriority[task] = osTaskPriority(priority)]
  IN  osSchedule(osReady(clear, task), 0)

osTaskDetach(k, task) ==
  IF k.state[task] = "READY"
  THEN [k EXCEPT !.readyList = osListRemove(@, task)]
  ELSE osUnblock(k, task)

osTaskDelete(k, task) ==
  LET gone == SetState(osTaskDetach(k, task), task, "DEAD")
      released == IF OS_CFG_MUTEX_INHERITANCE THEN osMutexReleaseAll(gone, task) ELSE gone
  IN  IF task = osIdleTask \/ k.state[task] = "DEAD" THEN k
      ELSE IF task = k.current THEN osDispatch(released)
      ELSE osSchedule(released, 0)

\* Mutant: the idle task is spared by itself only.
SuspendUnlessCurrent(k, task) ==
  LET off == SetState([osTaskDetach(k, task) EXCEPT !.result[task] = FALSE], task, "SUSPENDED")
  IN  IF (task = osIdleTask /\ task = k.current) \/ k.state[task] \in {"SUSPENDED", "DEAD"} THEN k
      ELSE IF task = k.current THEN osDispatch(off)
      ELSE off

osTaskSuspend(k, task) ==
  LET off == SetState([osTaskDetach(k, task) EXCEPT !.result[task] = FALSE], task, "SUSPENDED")
  IN  IF task = osIdleTask \/ k.state[task] \in {"SUSPENDED", "DEAD"} THEN k
      ELSE IF task = k.current THEN osDispatch(off)
      ELSE off

osTaskResumeFromISR(k, task) ==
  IF k.state[task] = "SUSPENDED" THEN osReady(k, task) ELSE k

osTaskResume(k, task) == osSchedule(osTaskResumeFromISR(k, task), 0)

osTaskSetPriority(k, task, priority) ==
  LET based == [k EXCEPT !.basePriority[task] = osTaskPriority(priority)]
      inherited == osInheritedPriority(based, task)
  IN  osSchedule(IF inherited > k.priority[task]
                 THEN osPriorityRaise(based, task, inherited)
                 ELSE LowerToInherited(based, task), 0)

\* The idle task takes its own priority, and the system is running.
osRun(k) ==
  osSchedule([k EXCEPT !.priority[osIdleTask] = 0, !.basePriority[osIdleTask] = 0], 0)

----------------------------------------------------------------------------
\* What the modules state about the lists of a kernel.

Injective(s) == \A i, j \in 1 .. Len(s) : s[i] = s[j] => i = j

Ahead(list, t, u) == \E i, j \in 1 .. Len(list) : i < j /\ list[i] = t /\ list[j] = u

OnTimer(k) == {timer.task : timer \in ToSet(k.timerList)}

\* The ready list has the READY tasks, each once.
ReadyListExact(k) ==
  /\ ToSet(k.readyList) = {t \in Thread : k.state[t] = "READY"}
  /\ Injective(k.readyList)

\* Only the current task is RUNNING.
CurrentExact(k) == \A t \in Thread : k.state[t] = "RUNNING" <=> t = k.current

\* osTimerList has the tasks flagged TIMED, each once, and only a blocked
\* task has a flag.
TimerListExact(k) ==
  /\ OnTimer(k) = {t \in Thread : "TIMED" \in k.flags[t]}
  /\ Injective(k.timerList)
  /\ \A a, b \in ToSet(k.timerList) : a.task = b.task => a = b
  /\ \A t \in Thread : k.flags[t] # {} => k.state[t] = "BLOCKED"

\* A wait list has the tasks that point to it, each once and all blocked.
WaitListsExact(k) ==
  /\ \A o \in Object : /\ ToSet(k.waiters[o]) = {t \in Thread : k.waitList[t] = o}
                       /\ Injective(k.waiters[o])
  /\ \A t \in Thread : k.waitList[t] # NULL => k.state[t] = "BLOCKED"

Sorted(k, list) ==
  \A i, j \in 1 .. Len(list) : i < j => k.priority[list[i]] >= k.priority[list[j]]
=============================================================================
