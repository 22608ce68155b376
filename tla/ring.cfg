CONSTANTS
  Size = 16
  Node = {1, 5, 9, 12}
  Ghost = 15
  Datum = {7}
  Name <- MCName
  Kinds = {"join", "crash", "add", "cut", "early", "total"}
  Budget <- RingBudget
SPECIFICATION ClosedFair
INVARIANTS RingClosed SuccClosed DataKept Copied
PROPERTIES QuietAgain
CHECK_DEADLOCK FALSE
