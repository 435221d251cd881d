---------------------------- MODULE Application -----------------------------
(***************************************************************************)
(* What an application does besides using the objects of this development: *)
(* it creates, deletes, suspends and resumes tasks, changes their          *)
(* priorities and delays, while the tick goes on.  The modules of mutexes, *)
(* semaphores, queues and events extend this one.                          *)
(*                                                                         *)
(* A call that blocks is in two parts.  The first one ends with the switch *)
(* inside osBlock.  The second one runs once the task is current again,    *)
(* before interrupts are enabled: while it is due nothing else happens.    *)
(***************************************************************************)
EXTENDS Kernel

CONSTANTS
  TaskPriority,           \* priorities the application asks for
  Timeout,                \* timeouts it waits with and ticks it delays by
  Calls,                  \* functions of tasks.c it uses
  MaySuspendWoken         \* does it suspend a task that has just been given
                          \* what it waits for and has not run since?

ASSUME ApplicationAssumption ==
  /\ TaskPriority \subseteq Priority
  /\ Timeout \subseteq OsTick
  /\ Calls \subseteq {"Delete", "Suspend", "SetPriority", "Delay"}
  /\ MaySuspendWoken \in BOOLEAN

VARIABLES
  k,                      \* the kernel
  running,                \* osRun has been called
  call                    \* the call a task is blocked in, NULL if there is none

ApplicationInit ==
  /\ k = osInit
  /\ running = FALSE
  /\ call = [t \in Thread |-> NULL]

\* The current task has been woken up inside a call that blocks.
Returning == call[k.current] # NULL

\* The first part of a call that blocks the current task.  On behalf of the
\* idle task there is no second part.
Blocks(kernel, object, timeout, pending) ==
  /\ k' = osBlock(kernel, object, timeout)
  /\ call' = IF k.current = osIdleTask THEN call ELSE [call EXCEPT ![k.current] = pending]
  /\ UNCHANGED running

\* The second part, with the kernel it leaves behind.
Returns(kernel) ==
  /\ Returning
  /\ k' = kernel
  /\ call' = [call EXCEPT ![k.current] = NULL]
  /\ UNCHANGED running

\* A task has been woken up with what it waited for and has not run since.
Woken(t) == call[t] # NULL /\ k.state[t] # "BLOCKED" /\ k.result[t]

----------------------------------------------------------------------------
\* A call that does not block.
Call(kernel) ==
  /\ ~Returning
  /\ k' = kernel
  /\ UNCHANGED <<running, call>>

TaskCreate(t, p) ==
  /\ k.state[t] = "DEAD"
  /\ Call(osTaskCreate(k, t, p))

\* Whatever the task was doing, it is not any more.
TaskDelete(t) ==
  /\ "Delete" \in Calls
  /\ ~Returning
  /\ k.state[t] # "DEAD"
  /\ k' = osTaskDelete(k, t)
  /\ call' = [call EXCEPT ![t] = NULL]
  /\ UNCHANGED running

TaskSuspend(t) ==
  /\ "Suspend" \in Calls
  /\ k.state[t] # "DEAD"
  /\ MaySuspendWoken \/ ~Woken(t)
  /\ Call(osTaskSuspend(k, t))

\* The idle task is here to stay.
SpareIdle ==
  \/ "Delete" \in Calls /\ Call(osTaskDelete(k, osIdleTask))
  \/ "Suspend" \in Calls /\ Call(osTaskSuspend(k, osIdleTask))

TaskResume(t) ==
  /\ "Suspend" \in Calls
  /\ k.state[t] = "SUSPENDED"
  /\ Call(osTaskResume(k, t))

TaskSetPriority(t, p) ==
  /\ "SetPriority" \in Calls
  /\ k.state[t] # "DEAD"
  /\ Call(osTaskSetPriority(k, t, p))

DelayFor(ticks) == "Delay" \in Calls /\ Call(osDelay(k, ticks))

Tick == running /\ Call(osTickHandler(k))

Run ==
  /\ ~running /\ ~Returning
  /\ k.current = osIdleTask
  /\ k' = osRun(k)
  /\ running' = TRUE
  /\ UNCHANGED call

ApplicationNext ==
  \/ \E t \in Task : TaskDelete(t) \/ TaskSuspend(t) \/ TaskResume(t)
  \/ \E t \in Task, p \in TaskPriority : TaskCreate(t, p) \/ TaskSetPriority(t, p)
  \/ \E n \in Timeout : DelayFor(n)
  \/ SpareIdle
  \/ Tick
  \/ Run

\* The kernel and the calls have values of their types.
ApplicationTypeOK(Pending) ==
  /\ k \in KernelState
  /\ running \in BOOLEAN
  /\ call \in [Thread -> Pending \cup {NULL}]

\* Every list has exactly the tasks that claim to be on it.
KernelExact ==
  ReadyListExact(k) /\ CurrentExact(k) /\ TimerListExact(k) /\ WaitListsExact(k)
=============================================================================
