SPECIFICATION Spec
CONSTANTS
  Task = {t1, t2, t3}
  osIdleTask = idle
  NULL = null
  Mutex = {m1, m2}
  Object = {m1, m2}
  OS_PRIORITY_MAX = 2
  OS_TICKS = 3
  OS_CFG_TICK_START = 0
  OS_CFG_ROUND_ROBIN = 1
  OS_CFG_AGING = TRUE
  OS_CFG_AGING_TICKS = 1
  OS_CFG_AGING_LIMIT = 2
  OS_CFG_MUTEX_INHERITANCE = TRUE
  TaskPriority = {1, 2}
  Timeout = {1}
  Calls = {"Delete","Suspend","SetPriority"}
  MaySuspendWoken = FALSE
SYMMETRY Symmetry
INVARIANTS TypeOK ListsExact ListsSorted ResultsTruthful OwnerHurries NoPriorityInversion RaiseIsTheLoop
