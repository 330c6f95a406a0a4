SPECIFICATION FairSpec
CONSTANTS
  MaxAccepts = 4
  IdSpace = 3
  FirstIds = {0, 2}
INVARIANTS
  TableIsExact
  IdsLast
  NoCallbackOnDeleted
  NothingLeftAtStop
PROPERTY
  StopReturns
CHECK_DEADLOCK FALSE
