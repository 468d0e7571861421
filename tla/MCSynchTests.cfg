SPECIFICATION Spec
CONSTANTS
  r1 = r1
  r2 = r2
  w1 = w1
  w2 = w2
  b1 = b1
  b2 = b2
  b3 = b3
  b4 = b4
  p1 = p1
  p2 = p2
  c1 = c1
  c2 = c2
  walker = walker
  NULL = NULL
  mutex = mutex
  conReader = conReader
  conWriter = conWriter
  cond = cond
  lock = lock
  listEmpty = listEmpty
  sem_mutex = sem_mutex
  sem_full = sem_full
  sem_empty = sem_empty
  cond_mutex = cond_mutex
  prodc = prodc
  consc = consc
  Test <- MCTest
  Reader <- MCReader
  Writer <- MCWriter
  Comer <- MCComer
  Producer <- MCProducer
  Consumer <- MCConsumer
  Walker <- MCWalker
  Calls <- MCCalls
  Loops <- MCLoops
  Rounds = 2
  barrierNum = 3
  N = 2
INVARIANTS CountersExact NoStrandedWaiter OpensOnce NoStrandedRemover
PROPERTIES RefinesRWLock RefinesFifo RefinesBuffer Termination
