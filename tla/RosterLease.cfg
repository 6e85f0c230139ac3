SPECIFICATION Spec
CONSTANTS
  Nodes = {1, 2}
  LeaseDuration = 3
  GuardDuration = 1
  RenewInterval = 1
  MaxDrift = 0
  Reordering = FALSE
  Budgets <- OneFaultBudgets
CONSTRAINT EarlyRestart
INVARIANTS
  TypeOK
  HoldsAreExcluded
  QuarantineOutlivesHolds
  CoveredReads
CHECK_DEADLOCK FALSE
