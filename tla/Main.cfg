SPECIFICATION Spec
CONSTANTS
  task01 = t1
  task02 = t2
  task03 = t3
  task04 = t4
  Task = {t1, t2, t3, t4}
  osIdleTask = idle
  NULL = null
  mutex = m
  queue = q
  Mutex = {m}
  Object = {m, q}
  Message = {number}
  Length = 2
  OS_MS_500 = 2
  OS_MS_20 = 1
  OS_MS_100 = 2
  Wrap = 2
  Late = 2
  OS_PRIORITY_MAX = 4
  OS_TICKS = 5
  OS_CFG_TICK_START = 3
  OS_CFG_ROUND_ROBIN = 1
  OS_CFG_AGING = TRUE
  OS_CFG_AGING_TICKS = 1
  OS_CFG_AGING_LIMIT = 4
  OS_CFG_MUTEX_INHERITANCE = TRUE
  TaskPriority = {}
  Timeout = {}
  Calls = {}
  MaySuspendWoken = FALSE
INVARIANTS NumbersAgree
PROPERTIES BlinksOnTime
