CONSTANTS
  t1 = t1
  t2 = t2
  t3 = t3
  t4 = t4
  Threads = {t1, t2, t3, t4}
  WaitingThreads = {t1, t2, t3, t4}
  RequestingThreads = {t1, t2, t3, t4}
  Nobody = Nobody
  GoneMax = 3
  MaxValue = 8
SPECIFICATION Spec
SYMMETRY Symmetry
INVARIANTS
  GateIsThere
