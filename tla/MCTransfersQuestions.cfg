CONSTANTS
  Decisions = {"overwrite", "skip"}
  UserCancels = TRUE
  MaxStarts = 1
  MaxSessions = 1
  MaxConflicts = 2
  MaxDetaches = 1
SPECIFICATION FairSpec
INVARIANT AnswerFitsQuestion
PROPERTIES CancelFreesWaiting TransferEnds
CHECK_DEADLOCK FALSE
