CONSTANTS
  Host = {h1}
  User = {a, b}
  Key = {a, b}
  OwnerOf <- OneKey
  System = System
  Room = {room}
  Me = Me
  Repeats = FALSE
  Nothing = Nothing
  Kept = 1
  MaxConn = 2
  Budgets <- DeskBudgets
SPECIFICATION Spec
INVARIANTS ListAgrees ButtonsTell  Durable
SYMMETRY Symmetry
CHECK_DEADLOCK FALSE
