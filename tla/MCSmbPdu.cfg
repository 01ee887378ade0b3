CONSTANTS
  MaxCalls = 3
  Kinds = {"open", "list", "data", "change", "close"}
  Width = 3
  MaxCharge = 4
  Window = 3
SPECIFICATION FairSpec
INVARIANTS NothingStale ResultIsTrue EveryoneTold
PROPERTY CallsEnd
CHECK_DEADLOCK FALSE
