SPECIFICATION ProgressSpec
CONSTANTS
  Timer = {t1, t2, t3}
  OS_TICKS = 4
  OS_CFG_TICK_START = 2
  TimerDelay = {0, 2, 3}
  Period = {0, 2}
  Task = {b1, b2, s1}
  OnHeap = {b1, b2}
  osIdleTask = idle
  NULL = null
  SchedulerPriority = {1, 3}
  SchedulerDelay = {1}
INVARIANTS TimerTypeOK TypeOK OneOwner
PROPERTIES TimersOnTime TickEnds DeadAreReaped StarvationFree
