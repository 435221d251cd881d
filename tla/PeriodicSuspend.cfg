SPECIFICATION Spec
CONSTANTS
  Task = {t1, t2}
  osIdleTask = idle
  NULL = null
  Mutex = {}
  Object = {}
  OS_PRIORITY_MAX = 2
  OS_TICKS = 6
  OS_CFG_TICK_START = 4
  OS_CFG_ROUND_ROBIN = 1
  OS_CFG_AGING = TRUE
  OS_CFG_AGING_TICKS = 1
  OS_CFG_AGING_LIMIT = 2
  OS_CFG_MUTEX_INHERITANCE = TRUE
  TaskPriority = {1, 2}
  Timeout = {1}
  Period = {1, 3}
  Calls = {"Suspend"}
  MaySuspendWoken = TRUE
PROPERTIES SleepsUntilDue
