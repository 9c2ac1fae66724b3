\* A worker resets its m_args after it is back in the queue.
SPECIFICATION MCSpec
CONSTANTS
  c1 = c1
  c2 = c2
  w1 = w1
  w2 = w2
  x1 = x1
  x2 = x2
  x3 = x3
  t1 = t1
  t2 = t2
  t3 = t3
  t4 = t4
  t5 = t5
  Callers <- MCCallers
  Workers <- MCWorkers
  Works <- MCWorks
  Free = Free
  Pool = Pool
  NoArgs = NoArgs
  Threads <- MCThreads
  MaxValue = 4
  Waiters <- MCWaiters
INVARIANTS
  WorkReachesWorker
CHECK_DEADLOCK FALSE
