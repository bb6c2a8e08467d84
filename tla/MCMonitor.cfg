SPECIFICATION Spec
CONSTANTS
  Threads = {t1, t2}
  Objects = {o1}
  Monitors = {m1}
  NULL = NULL
  MaxDepth = 2
  MaxNest = 2
  MaxRecursion = 3
INVARIANTS TypeOK LinkedIsOwned OwnedHasRecursion  WaiterKeepsCount SleeperIsNotOwner
 
SYMMETRY Symmetry
CHECK_DEADLOCK FALSE
