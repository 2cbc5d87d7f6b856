CONSTANTS
  t1 = t1
  t2 = t2
  t3 = t3
  Threads = {t1, t2, t3}
  WaitingThreads = {t1, t2}
  RequestingThreads = {t2, t3}
  Nobody = Nobody
  GoneMax = 2
  MaxValue = 6
\* A thread cancelled at the gate may take it away for ever: the system stops.
CHECK_DEADLOCK FALSE
SPECIFICATION LiveSpec
INVARIANTS
  Accounting
  WakeupsCover
  DestroyedIsUnused
PROPERTIES
  GateIsKept
  BroadcastWakesAll
  RequestsReturn
