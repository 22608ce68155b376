CONSTANTS
  User = {u1, u2, u3}
  Room = {r1}
  Nobody = Nobody
  Host = u1
  Budget <- ChurnBudget
SPECIFICATION ChurnSpec
INVARIANTS OneOwner OnceEach Delivered ViewsAgree JoinsGetThrough
PROPERTY KeepsPromise
CHECK_DEADLOCK FALSE
