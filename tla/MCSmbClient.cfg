SPECIFICATION FairSpec
CONSTANTS
  t1 = t1  t2 = t2  t3 = t3
  Threads = {t1, t2, t3}
  Teams <- CheckedTeams
  Addresses = {a1, a2}
  Null = Null
  MaxConns = 3
INVARIANTS
  SafeUse
  AnswerIsTrue
PROPERTIES
  OpenCallsReturn
CHECK_DEADLOCK FALSE
