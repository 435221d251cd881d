SPECIFICATION Spec
CONSTANTS
  Task = {t1, t2, t3}
  osIdleTask = idle
  NULL = null
  Mutex = {}
  Object = {}
  OS_PRIORITY_MAX = 4
  OS_TICKS = 5
  OS_CFG_TICK_START = 3
  OS_CFG_ROUND_ROBIN = 1
  OS_CFG_AGING = TRUE
  OS_CFG_AGING_TICKS = 2
  OS_CFG_AGING_LIMIT = 3
  OS_CFG_MUTEX_INHERITANCE = TRUE
  TaskPriority = {1, 2, 4}
  Delay = {0, 1, 2, 4}
SYMMETRY TaskSymmetry
INVARIANTS TypeOK ListsExact PeriodsKept IdleAvailable ReadyListSorted MostImportantRuns DeadlinesExact AgingNeverDelays
PROPERTIES WokenOnTime FirstComeFirstServed SettledUnlessSuspended
