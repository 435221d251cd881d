----------------------------- MODULE MCProgress -----------------------------
(***************************************************************************)
(* The three systems that are asked whether something eventually happens:  *)
(* timers, tasks on the heap, and the scheduler while nobody changes       *)
(* priorities.  They have no state in common, so a behaviour is one of one *)
(* of them, the other two stand still.                                     *)
(***************************************************************************)
EXTENDS Timer, Dynamic

CONSTANTS
  SchedulerPriority,
  SchedulerDelay

VARIABLES
  system,                 \* the one that moves
  k, running, pending, left

Sched == INSTANCE Scheduler WITH
  Mutex <- {}, Object <- {},
  OS_PRIORITY_MAX <- 3,
  OS_CFG_ROUND_ROBIN <- 1,
  OS_CFG_AGING <- TRUE, OS_CFG_AGING_TICKS <- 1, OS_CFG_AGING_LIMIT <- 3,
  OS_CFG_MUTEX_INHERITANCE <- TRUE,
  TaskPriority <- SchedulerPriority, Delay <- SchedulerDelay

schedulerVars == <<k, running, pending, left>>

Init ==
  /\ system \in {"timers", "heap", "scheduler"}
  /\ TimerInit /\ DynamicInit /\ Sched!Init

Next ==
  /\ UNCHANGED system
  /\ \/ system = "timers" /\ TimerNext /\ UNCHANGED <<dynamicVars, schedulerVars>>
     \/ system = "heap" /\ DynamicNext /\ UNCHANGED <<timerVars, schedulerVars>>
     \/ system = "scheduler" /\ Sched!FixedPriorityNext /\ UNCHANGED <<timerVars, dynamicVars>>

\* Each as its own module has it.  main() gets to osRun, if it is its system
\* that moves.
Fairness ==
  /\ TimerFairness
  /\ WF_dynamicVars(system = "heap" /\ Run) /\ IdleFairness
  /\ WF_schedulerVars(system = "scheduler" /\ Sched!Run) /\ Sched!TickFairness

ProgressSpec == Init /\ [][Next]_<<system, timerVars, dynamicVars, schedulerVars>> /\ Fairness

\* Sched!StarvationFree, of the tasks of the scheduler.
StarvationFree == Sched!StarvationFree
=============================================================================
