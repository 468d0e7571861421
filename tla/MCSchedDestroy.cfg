SPECIFICATION Spec
CONSTANTS
  main = main
  t1 = t1
  t2 = t2
  t3 = t3
  NULL = NULL
  Thread <- MCThread3
  Policy = {"SCHED_RR"}
  MaxThreadNum = 3
  MAX_PRIORITY = 2
  NORM_PRIORITY = 1
  Priority <- MCRRPriority
  PriorityBound <- MCPriorityBound
  Suspendable <- MCNoSuspend
  Uninit <- MCUninit
INVARIANT FinishedDestroyed
CHECK_DEADLOCK FALSE
