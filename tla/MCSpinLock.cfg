CHECK_DEADLOCK FALSE
CONSTANTS
  t1 = t1
  t2 = t2
  t3 = t3
  Threads = {t1, t2, t3}
  Static = Static
  Null = Null
  MaxObjects = 2
SPECIFICATION Spec
INVARIANTS
  HeldIsThere
  WaitersGetAnError
PROPERTY
  ImplementsLock
