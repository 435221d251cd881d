SPECIFICATION Spec
CONSTANTS
  Task = {t1, t2, t3}
  osIdleTask = idle
  NULL = null
  Mutex = {m1, m2}
  Object = {m1, m2}
  OS_PRIORITY_MAX = 3
  OS_TICKS = 3
  OS_CFG_TICK_START = 0
  OS_CFG_ROUND_ROBIN = 1
  OS_CFG_AGING = FALSE
  OS_CFG_AGING_TICKS = 1
  OS_CFG_AGING_LIMIT = 3
  OS_CFG_MUTEX_INHERITANCE = TRUE
  TaskPriority = {1, 2}
  Timeout = {1, 2}
  Calls = {"Suspend"}
  MaySuspendWoken = TRUE
SYMMETRY Symmetry
INVARIANT ResultsTruthful
