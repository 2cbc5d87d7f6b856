CHECK_DEADLOCK FALSE
CONSTANTS
  t1 = t1
  t2 = t2
  t3 = t3
  t4 = t4
  Threads = {t1, t2, t3, t4}
  Height = 4
  Win64 = FALSE
  WordSize = 8
  Rounds = 4
SPECIFICATION LiveSpec
INVARIANTS
  RoundsStayTogether
  OneSerialPerRound
PROPERTY
  AllRoundsPass
