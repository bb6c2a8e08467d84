SPECIFICATION Spec
CONSTANTS
  Threads = {t1, t2}
  Objects = {o1}
  Monitors = {m1, m2}
  NULL = NULL
  MaxDepth = 2
  MaxNest = 1
  MaxRecursion = 2
INVARIANT PoppedFramesHoldNothing
SYMMETRY Symmetry
CHECK_DEADLOCK FALSE
