CONSTANTS
  Size <- MCSize
  Limit = 4
  InSize = 4
  Room = 2
  Crashes = 1
SPECIFICATION FairSpec
PROPERTIES InOrder BrokenAnswering Delivered
CHECK_DEADLOCK FALSE
