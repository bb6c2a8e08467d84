SPECIFICATION Spec
CONSTANTS
  Threads = {t1, t2}
  Objects = {o1}
  Monitors = {m1}
  NULL = NULL
  MaxDepth = 1
  MaxNest = 1
  MaxRecursion = 2
INVARIANT CriticalSection
SYMMETRY Symmetry
CHECK_DEADLOCK FALSE
