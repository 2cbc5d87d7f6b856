CONSTANTS
  t1 = t1
  t2 = t2
  t3 = t3
  Threads = {t1, t2, t3}
  Null = Null
  MaxDepth = 2
SPECIFICATION LiveSpec
INVARIANTS
  MutualExclusion
  NoLostWakeup
  OwnerTracksHolder
  ErrorsAreTrue
PROPERTIES
  ImplementsLock
  WaiterIsSignalled
