CONSTANTS
  User = {1, 2, 3}
  Finder = {3}
  Table = {t1, t2, t3}
  Ringed = {t1}
  Full = 5
  Base = 12
  Budgets <- ClaimsBudgets
SPECIFICATION Spec
INVARIANTS TypeOK OneValue OneOwner ClaimKept OwnerFound
SYMMETRY Symmetry
CHECK_DEADLOCK FALSE
