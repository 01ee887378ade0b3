SPECIFICATION FairSpec
CONSTANTS
  c1 = c1  c2 = c2  c3 = c3
  Calls = {c1, c2, c3}
  High = {c2, c3}
  ZeroCopy = {c1, c3}
  NoRetry = {}
  Rejectable = {c2, c3}
  Modes <- AllModes
  MaxWait = 2
  None = None
  MaxOwed = 2
INVARIANTS
  QueuesRight
PROPERTIES TornOnlyByRemoval QueuedCallsEnd
CHECK_DEADLOCK FALSE
