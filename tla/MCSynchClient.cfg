SPECIFICATION Spec
CONSTANTS
  t1 = t1
  t2 = t2
  t3 = t3
  sem = sem
  lockA = lockA
  lockB = lockB
  condA = condA
  condB = condB
  NULL = NULL
  Thread <- MCThread
  Semaphore <- MCSemaphore
  Lock <- MCLock
  Condition <- MCCondition
  InitialValue <- MCInitialValue
  MaxValue = 2
SYMMETRY Symmetry
\* A program may legitimately stop with everybody asleep (nobody left to signal).
CHECK_DEADLOCK FALSE
INVARIANTS MutualExclusion HolderAgrees BlockedIffQueued NoLostWakeup
