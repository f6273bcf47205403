CONSTANTS
  Base = 16
  Radix = 2
  IntHalf = 16
  FirstAccounts <- TwoAccounts
  AccountBatches <- LaterAccounts
  Batches <- RecoveryRun
  MaxTime = 7
  MaxCrashes = 2
  MaxWalErrors = 1
  ClockSteps <- BackAndForth
SPECIFICATION Spec
INVARIANTS ReplayMatches AuditAgrees
CHECK_DEADLOCK FALSE
