SPECIFICATION DynamicSpec
CONSTANTS
  Task = {b1, b2, s1}
  OnHeap = {b1, b2}
  osIdleTask = idle
  NULL = null
INVARIANT ReaperIsCalled
