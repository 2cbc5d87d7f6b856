CONSTANTS
  t1 = t1
  t2 = t2
  t3 = t3
  t4 = t4
  NoThread = NoThread
  Threads = {t1, t2, t3, t4}
  MaxShared = 6
SPECIFICATION LiveSpec
INVARIANTS
  TypeOK
  CountsMatch
  ExclusiveIsAlone
  DestroyedIsUnused
PROPERTIES
  ImplementsReadersWriter
  WriterGetsIn
