CONSTANTS
  n1 = n1
  n2 = n2
  n3 = n3
  n4 = n4
  n5 = n5
  Node = {n1, n2, n3}
  NoNode = NoNode
  MaxLinks = 3
  MaxPath = 3
  Away = {n1, n2}
  Net <- NoNet
  Budget <- GrowBudget
SPECIFICATION FairSpec
INVARIANTS RoutesAreWalks Addressed
PROPERTIES OnlyLastInterprets Settles
CHECK_DEADLOCK FALSE
