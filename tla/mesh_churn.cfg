CONSTANTS
  n1 = n1
  n2 = n2
  n3 = n3
  n4 = n4
  n5 = n5
  Node = {n1, n2, n3}
  NoNode = NoNode
  MaxLinks = 3
  MaxPath = 3
  Away = {}
  Net <- Line
  Budget <- ChurnBudget
SPECIFICATION NetSpec
INVARIANTS TypeOK ConnTableLive RoutesSeen
PROPERTIES DisPurges
CHECK_DEADLOCK FALSE
