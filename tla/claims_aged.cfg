CONSTANTS
  User = {1}
  Finder = {}
  Table = {t1}
  Ringed = {}
  Full = 5
  Base = 12
  Budgets <- AgedBudgets
SPECIFICATION Spec
INVARIANTS ClaimKept
CHECK_DEADLOCK FALSE
