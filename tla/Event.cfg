SPECIFICATION Spec
CONSTANTS
  Task = {t1, t2}
  osIdleTask = idle
  NULL = null
  Mutex = {}
  Object = {e}
  event = e
  EventFlag = {f1, f2}
  Options = {{}, {"ALL"}, {"KEEP"}}
  OS_PRIORITY_MAX = 2
  OS_TICKS = 3
  OS_CFG_TICK_START = 0
  OS_CFG_ROUND_ROBIN = 1
  OS_CFG_AGING = FALSE
  OS_CFG_AGING_TICKS = 1
  OS_CFG_AGING_LIMIT = 2
  OS_CFG_MUTEX_INHERITANCE = TRUE
  TaskPriority = {1, 2}
  Timeout = {1, 2}
  Calls = {"Delete", "Suspend", "SetPriority", "Delay"}
  MaySuspendWoken = FALSE
SYMMETRY Symmetry
INVARIANTS TypeOK NobodyOverlooked
PROPERTIES FlagsTakenOnce
