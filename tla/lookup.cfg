CONSTANTS
  Size = 16
  Member <- MCMember
  Succ <- MCSucc
  Pred <- MCPred
  Joining <- MCJoining
  Rep <- MCRep
  MaxDivs = 2
SPECIFICATION FairSpec
INVARIANTS EndsAtOwner EndsNearest
PROPERTIES HopsNearer Ends
CHECK_DEADLOCK FALSE
