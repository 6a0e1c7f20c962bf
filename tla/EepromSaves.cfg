SPECIFICATION FairSpec
CONSTANTS
  PageSize = 2
  BlockPages = 2
  WriteTime = 2
  Polls = 10
  Saves = 2
INVARIANT SaveArrives OkIsCleared
PROPERTY WritesReturn
CHECK_DEADLOCK FALSE
