CHECK_DEADLOCK FALSE
CONSTANTS
  t1 = t1
  t2 = t2
  t3 = t3
  Threads = {t1, t2, t3}
  Initial = 1
  MaxValue = 3
  Counts = {2, 3}
  CancelIn = {"wait", "timedwait"}
SPECIFICATION LiveSpec
INVARIANTS
  NoStrandedWaiter
PROPERTIES
  ImplementsSemaphore
  WaitsMakeNoPermits
  PostedWaiterReturns
