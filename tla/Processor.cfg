SPECIFICATION Spec
CONSTANTS
  Task = {t1, t2}
  osIdleTask = idle
  handler = isr
  Block = {b1, b2}
  Data = data
  NULL = null
INVARIANTS OwnContext StackFits
PROPERTIES PoolOfBlocks
