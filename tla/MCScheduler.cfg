SPECIFICATION Spec
CONSTANTS
  main = main
  t1 = t1
  t2 = t2
  t3 = t3
  NULL = NULL
  Thread <- MCThread
  Policy <- MCPolicy
  MaxThreadNum = 3
  MAX_PRIORITY = 2
  NORM_PRIORITY = 1
  Priority <- MCPriority
  PriorityBound <- MCPriorityBound
  Suspendable <- MCSuspendable
  Uninit <- MCUninit
INVARIANTS PlacedByStatus NoDangling IDsUnique PriorityOrder
PROPERTIES ReadyRuns ForkPreempts
CHECK_DEADLOCK FALSE
