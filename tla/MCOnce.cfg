CHECK_DEADLOCK FALSE
CONSTANTS
  t1 = t1
  t2 = t2
  t3 = t3
  Threads = {t1, t2, t3}
  Nil = Nil
  Win64 = FALSE
SPECIFICATION LiveSpec
INVARIANTS
  MutualExclusion
  LinksNodeInUse
  ExactlyOnce
PROPERTIES
  CallsReturn
