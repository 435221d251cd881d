-------------------------------- MODULE Main --------------------------------
(***************************************************************************)
(* main.c: four tasks that share two numbers under a mutex, send one of    *)
(* them through a queue and blink.  The mutex, the queue and the kernel    *)
(* are those of the other modules, over the same kernel.                   *)
(*                                                                         *)
(* A task is at the statement of its loop it will execute next.  A call    *)
(* that blocks is left by LockReturns or WaitReturns once the task is the  *)
(* current one again, and the task is at the next statement from the first *)
(* part on.                                                                *)
(***************************************************************************)
EXTENDS Application

CONSTANTS
  task01, task02, task03, task04,
  mutex, queue,
  Message,                \* what a message contains is not told apart
  Length,                 \* 3
  OS_MS_500, OS_MS_20, OS_MS_100,
  Wrap,                   \* bound: the numbers are counted modulo
  Late                    \* bound: ticks task01 may take for a round

ASSUME MainAssumption ==
  /\ Task = {task01, task02, task03, task04}
  /\ Mutex = {mutex} /\ Object = {mutex, queue}
  /\ {OS_MS_500, OS_MS_20, OS_MS_100} \subseteq 1 .. OS_WAIT_FOREVER - 1
  /\ Wrap \in Nat \ {0, 1}

VARIABLES
  holds,                  \* of Mutex
  buffer, head, count, item, received,
                          \* of Queue
  pc,                     \* the statement a task is at
  a, b,                   \* the numbers
  wake                    \* of task01: what osDelayUntil counts from

mainVars == <<pc, a, b, wake>>
mutexVars == <<holds>>
queueVars == <<buffer, head, count, item, received>>
vars == <<k, running, call, mutexVars, queueVars, mainVars>>

M == INSTANCE Mutex
Q == INSTANCE Queue

Creation == <<task01, task02, task03, task04>>
TaskPriorities == <<4, 1, 2, 3>>

Init ==
  /\ M!Init
  /\ Q!Init
  /\ pc = [t \in Task |-> IF t = task04 THEN "receive"
                          ELSE IF t = task01 THEN "count" ELSE "lock"]
  /\ a = 0 /\ b = 0
  /\ wake = 0

----------------------------------------------------------------------------
\* main() creates the tasks, one after the other, and starts the system.
Create ==
  /\ ~running
  /\ \E i \in 1 .. Len(Creation) :
       /\ \A j \in 1 .. i - 1 : k.state[Creation[j]] # "DEAD"
       /\ TaskCreate(Creation[i], TaskPriorities[i])
  /\ UNCHANGED <<mutexVars, queueVars, mainVars>>

Start ==
  /\ k.state[task04] # "DEAD"
  /\ Run
  /\ UNCHANGED <<mutexVars, queueVars, mainVars>>

\* The current task executes a statement and is at the next one.
At(task, from, to) ==
  /\ k.current = task
  /\ pc[task] = from
  /\ pc' = [pc EXCEPT ![task] = to]

Scheduled == ~osScheduleNeeded(k', 0)

\* osTickCount
CountTicks ==
  /\ At(task01, "count", "toggle")
  /\ wake' = k.ticks
  /\ Call(k)
  /\ UNCHANGED <<mutexVars, queueVars, a, b>>

Toggle ==
  /\ At(task01, "toggle", "until")
  /\ Call(k)
  /\ UNCHANGED <<mutexVars, queueVars, a, b, wake>>

DelayUntil ==
  /\ At(task01, "until", "toggle")
  /\ Call(osDelayUntil(k, wake, OS_MS_500))
  /\ wake' = (wake + OS_MS_500) % OS_TICKS
  /\ UNCHANGED <<mutexVars, queueVars, a, b>>

\* osMutexLock is osMutexTryLock for ever.
Lock(task) ==
  /\ At(task, "lock", "a")
  /\ M!LockFree(mutex) \/ M!LockOwned(mutex, OS_WAIT_FOREVER)
  /\ UNCHANGED <<queueVars, a, b, wake>>

LockReturns ==
  /\ call[k.current] = mutex
  /\ M!LockReturns
  /\ UNCHANGED <<queueVars, mainVars>>

CountA(task) ==
  /\ At(task, "a", "b")
  /\ Call(k)
  /\ a' = (a + 1) % Wrap
  /\ UNCHANGED <<mutexVars, queueVars, b, wake>>

CountB(task) ==
  /\ At(task, "b", "unlock")
  /\ Call(k)
  /\ b' = (b + 1) % Wrap
  /\ UNCHANGED <<mutexVars, queueVars, a, wake>>

Unlock(task) ==
  /\ At(task, "unlock", IF task = task03 THEN "send" ELSE "lock")
  /\ M!Unlock(mutex)
  /\ UNCHANGED <<queueVars, a, b, wake>>

\* The number was read while the mutex was locked.
Send ==
  /\ At(task03, "send", "delay")
  /\ \E number \in Message :
       \/ Q!SendDelivers(number) \/ Q!SendAppends(number)
       \/ Q!SendWaits(number, OS_WAIT_FOREVER)
  /\ Scheduled
  /\ UNCHANGED <<mutexVars, a, b, wake>>

Delay ==
  /\ At(task03, "delay", "lock")
  /\ Call(osDelay(k, OS_MS_20))
  /\ UNCHANGED <<mutexVars, queueVars, a, b, wake>>

Receive ==
  /\ At(task04, "receive", "receive")
  /\ Q!Receive \/ Q!ReceiveWaits(OS_MS_100)
  /\ Scheduled
  /\ UNCHANGED <<mutexVars, a, b, wake>>

\* A queue call that blocked has returned, true or false.
WaitReturns ==
  /\ call[k.current] \in {"send", "receive"}
  /\ Q!WaitReturns
  /\ UNCHANGED <<mutexVars, mainVars>>

\* Bound: task01 is not late by more than that.
Ticks ==
  /\ pc[task01] = "count" \/ k.state[task01] = "BLOCKED" \/ (k.ticks - wake) % OS_TICKS < Late
  /\ Tick
  /\ UNCHANGED <<mutexVars, queueVars, mainVars>>

Next ==
  \/ Create \/ Start \/ Ticks
  \/ CountTicks \/ Toggle \/ DelayUntil
  \/ \E task \in {task02, task03} : Lock(task) \/ CountA(task) \/ CountB(task) \/ Unlock(task)
  \/ LockReturns
  \/ Send \/ Delay \/ Receive \/ WaitReturns

Spec == Init /\ [][Next]_vars

----------------------------------------------------------------------------
(***************************************************************************)
(* "both numbers are changed together, so they are equal whenever the      *)
(* mutex is ours" (main.c:43): a task that has just locked the mutex, at   *)
(* once or after waiting for it, finds them equal.                         *)
(***************************************************************************)
NumbersAgree ==
  k.current \in Task /\ pc[k.current] = "a" /\ call[k.current] = NULL => a = b

(***************************************************************************)
(* task01 "blinks once a second, no matter how long the others keep the    *)
(* processor busy" (main.c:52): the tick that ends its period gives it the *)
(* processor, whatever the others lock, wait for or have aged to.          *)
(***************************************************************************)
BlinksOnTime ==
  [][k.state[task01] = "BLOCKED" /\ k'.state[task01] # "BLOCKED"
       => k'.current = task01 /\ k'.ticks = wake]_vars
=============================================================================
