CONSTANTS
  n1 = n1
  n2 = n2
  n3 = n3
  n4 = n4
  n5 = n5
  Node = {n1, n2, n3, n4, n5}
  NoNode = NoNode
  MaxLinks = 5
  MaxPath = 3
  Away = {}
  Net <- Tadpole
  Budget <- FloodBudget
SPECIFICATION SettledFair
INVARIANTS QuietWalks
PROPERTIES Settles
CHECK_DEADLOCK FALSE
