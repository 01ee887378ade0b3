CONSTANTS
  Decisions = {"overwrite", "skip"}
  UserCancels = TRUE
  MaxSessions = 3
  MaxStarts = 2
  MaxConflicts = 1
  MaxDetaches = 1
SPECIFICATION Spec
INVARIANTS OneTransfer OneCheckpointHolder RetryStateShown
CHECK_DEADLOCK FALSE
