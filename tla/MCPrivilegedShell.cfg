SPECIFICATION FairSpec
CONSTANTS
  t1 = t1  t2 = t2
  Threads = {t1, t2}
  Teams <- SmallTeams
  Nobody = Nobody
  MaxSessions = 2
  Size = 2
INVARIANTS
  OneShell
  AnswerIsTrue
  TargetKept
PROPERTY OperationsReturn
CHECK_DEADLOCK FALSE
