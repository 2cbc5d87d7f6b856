CONSTANTS
  t1 = t1
  t2 = t2
  k1 = k1
  k2 = k2
  Unlocked = Unlocked
  NoKey = NoKey
  Threads = {t1, t2}
  Keys = {k1, k2}
  Iterations = 1
  MaxSets = 2
SPECIFICATION KeysLiveSpec
CHECK_DEADLOCK FALSE
INVARIANTS
  KeysTypeOK
  WalkIsSafe
  FreedIsUnused
  ExitIsComplete
PROPERTIES
  ExitsAndDeletionsEnd
